----------------------------- MODULE MCLifecycle -----------------------------
(* TLC instance of Lifecycle: clients are model values, interchangeable.   *)
EXTENDS Lifecycle, TLC

ClientSymmetry == Permutations(Clients)
=============================================================================

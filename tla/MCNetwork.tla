------------------------------ MODULE MCNetwork ------------------------------
(* TLC instance of Network: administrators and containers are model values, *)
(* each kind interchangeable.                                               *)
EXTENDS Network, TLC

ActorSymmetry == Permutations(Admins) \cup Permutations(Containers)
=============================================================================

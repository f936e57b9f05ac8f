----------------------------- MODULE MCEventBus ------------------------------
(* TLC instance of EventBus: publishers and subscribers are interchangeable. *)
EXTENDS EventBus, TLC

BusSymmetry == Permutations(Publishers) \cup Permutations(Subscribers)
=============================================================================

------------------------------- MODULE MCIPAM --------------------------------
(* TLC instance of IPAM: containers are model values, interchangeable; hosts *)
(* are numbers, because AllocateNext picks the lowest.                       *)
EXTENDS IPAM, TLC

ContainerSymmetry == Permutations(Containers)
=============================================================================

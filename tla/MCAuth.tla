-------------------------------- MODULE MCAuth --------------------------------
(* TLC instance of Auth: clients, names and emails are model values, each kind *)
(* interchangeable.                                                            *)
EXTENDS Auth, TLC

AuthSymmetry == Permutations(Clients) \cup Permutations(Names) \cup Permutations(Emails)
=============================================================================

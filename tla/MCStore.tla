------------------------------- MODULE MCStore -------------------------------
(* TLC instance of Store: three names, two of which differ in case only.  Ids *)
(* are interchangeable model values.                                          *)
EXTENDS Store, TLC

MCNames == {"web", "Web", "db"}
MCFolded == [n \in MCNames |-> IF n = "Web" THEN "web" ELSE n]
IdSymmetry == Permutations(Ids)
=============================================================================

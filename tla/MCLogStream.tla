---------------------------- MODULE MCLogStream ----------------------------
(* TLC instance of LogStream.  Nothing but its mark in the log tells one      *)
(* stream from the other, so they are interchangeable model values.           *)
EXTENDS LogStream, TLC

StreamSymmetry == Permutations(Streams)
=============================================================================

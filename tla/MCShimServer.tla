---------------------------- MODULE MCShimServer -----------------------------
(* TLC instance of ShimServer: connections are model values.                *)
EXTENDS ShimServer
=============================================================================

----------------------------- MODULE MCRecovery -----------------------------
(***************************************************************************)
(* Recovery with few threads and blocks.  With D = 5, M = 2 and N = 3 the  *)
(* shares are {1}, {2, 3} and {4, 5, 6}: the last one has the remainder,   *)
(* and the border of the regions lies inside it.                           *)
(***************************************************************************)
EXTENDS Recovery
=============================================================================

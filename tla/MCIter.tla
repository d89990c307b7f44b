------------------------------- MODULE MCIter -------------------------------
(***************************************************************************)
(* Iter on a pool of two data blocks and one meta block.                 *)
(***************************************************************************)
EXTENDS Iter

IdsDef == [r \in {0, 1} |-> IF r = 0 THEN 1 .. 2 ELSE {3}]
=============================================================================

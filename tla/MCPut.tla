------------------------------- MODULE MCPut --------------------------------
(***************************************************************************)
(* Put with values of up to four units: an empty one, small ones at both   *)
(* ends, one in the middle and one that fills the block.                   *)
(***************************************************************************)
EXTENDS Put

Shape(off, len) == [off |-> off, len |-> len]

Five == {Shape(0, 0), Shape(0, 1), Shape(3, 1), Shape(1, 2), Shape(0, 4)}
=============================================================================

------------------------------- MODULE Blocks -------------------------------
(***************************************************************************)
(* Block numbers and what backend.c keeps at them.                         *)
(*                                                                         *)
(* The pool has D data blocks and M meta blocks (data_nlba, meta_nlba) of  *)
(* one size, in that order.  Block numbers 1 .. D-1 belong to the data     *)
(* region and D .. D+M-1 to the meta region; 0 means "no block".           *)
(*                                                                         *)
(* A block is abstracted to its version, an opaque value for key and value *)
(* bytes, and what its checksum covers.  pmb_tput and pmb_tput_meta place  *)
(* the value differently, so the checksum of a data block does not verify  *)
(* as that of a meta block.                                                *)
(***************************************************************************)
EXTENDS Integers

CONSTANTS
    D,          \* number of data blocks
    M,          \* number of meta blocks
    Vals,       \* what can be stored
    None        \* the content of a zeroed block

ASSUME DAssumption == D \in Nat /\ D >= 2
ASSUME MAssumption == M \in Nat /\ M >= 1
ASSUME NoneAssumption == None \notin Vals

Ids == 1 .. D + M - 1
DataIds == 1 .. D - 1
MetaIds == D .. D + M - 1
Addrs == 0 .. D + M - 1

\* The checksum field: 0, right for one of the two layouts, or wrong.
Sums == {"zero", "data", "meta", "bad"}

Block == [sum : Sums, ver : Nat, val : Vals \cup {None}]

ZeroBlock == [sum |-> "zero", ver |-> 0, val |-> None]

\* The region a block number belongs to: every test of the form
\* blk_id < total_objs_count in the code.
Region(id) == IF id < D THEN "data" ELSE "meta"

-----------------------------------------------------------------------------
\* backend_direct: the block a number in 0 .. D+M-1 leads to.  The meta region
\* starts at block D of the pool, and the code subtracts one block too many.
Direct(id) == IF id < D THEN id ELSE D + (id - D - 1)

\* backend_get: no number, or a zero checksum, is no object.
Exists(cell, id) == id \in Ids /\ cell[Direct(id)].sum # "zero"

\* The test of recovery_thread: the checksum verifies in the id's region.
Valid(cell, id) == Exists(cell, id) /\ cell[Direct(id)].sum = Region(id)

\* backend_set_zero of the block at a number
SetZero(cell, id) == [cell EXCEPT ![Direct(id)] = ZeroBlock]
=============================================================================

------------------------------ MODULE MCStore ------------------------------
(***************************************************************************)
(* Store with model values.  Clients and values are interchangeable, so    *)
(* the runs of safety properties may use them up to permutation.           *)
(***************************************************************************)
EXTENDS Store, TLC

Symmetry == Permutations(Clients) \cup Permutations(Vals)

\* The log that an executed transaction leaves in its slot is read again only
\* by a recovery after the process ended inside tx_slot_init.  Runs without
\* "torn" do not tell states apart that differ in such logs only.
View == <<cell, [i \in Index |-> IF slot[i].status = "EMPTY" \/ Beginning(i)
                                 THEN [slot[i] EXCEPT !.log = << >>] ELSE slot[i]],
          lists, metas, cl, rec, history>>
=============================================================================

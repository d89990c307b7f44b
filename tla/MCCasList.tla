----------------------------- MODULE MCCasList -----------------------------
(***************************************************************************)
(* CasList with the seven values 1 .. 7: enough for four links, a merge of *)
(* two inner links and a walk that passes two links.                       *)
(***************************************************************************)
EXTENDS CasList

MCIds == 1 .. 7
=============================================================================

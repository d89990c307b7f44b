------------------------------ MODULE FreeSet ------------------------------
(***************************************************************************)
(* What a list of free identifiers promises to its users (pmbackend.c and  *)
(* tx_log.c): a set that a value is pushed into and whose smallest member  *)
(* is popped.  0 is the code's "no value": it can be neither pushed nor    *)
(* popped, and a pop of the empty set delivers it.                         *)
(* CasList implements this specification.                                  *)
(***************************************************************************)
EXTENDS Integers, FiniteSets

CONSTANT Ids

VARIABLES
    avail,      \* the values that can still be popped
    out         \* the value the last pop delivered, 0 before it or if none

fsVars == <<avail, out>>

FSInit ==
    /\ \/ avail = {}
       \/ \E b, e \in Ids : avail = b .. e /\ avail \subseteq Ids
    /\ out = 0

FSPush(v) ==
    /\ avail' = IF v = 0 THEN avail ELSE avail \cup {v}
    /\ UNCHANGED out

FSPop ==
    \/ /\ avail = {}
       /\ out' = 0
       /\ UNCHANGED avail
    \/ \E v \in avail :
          /\ \A w \in avail : v <= w
          /\ out' = v
          /\ avail' = avail \ {v}

FSNext == FSPop \/ \E v \in Ids \cup {0} : FSPush(v)

FSSpec == FSInit /\ [][FSNext]_fsVars
=============================================================================

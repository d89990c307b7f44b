---------------------------- MODULE InitialScan ----------------------------
(***************************************************************************)
(* What pmb_open promises of the blocks it finds in an existing pool: when *)
(* recovery returns, every block number is on exactly one of four lists,   *)
(* by its region and by whether its checksum verifies.  Store relies on it *)
(* (its action Scan is this step) and Recovery implements it with threads. *)
(***************************************************************************)
EXTENDS Integers

CONSTANTS
    D,          \* number of data blocks, block 0 included
    M           \* number of meta blocks

VARIABLES
    block,      \* for every block number: "absent", "valid" or "corrupt"
    free, mfree,    \* free_list, meta_free_list
    objs, mobjs,    \* objs_list, meta_objs_list
    done        \* has recovery returned?

isVars == <<block, free, mfree, objs, mobjs, done>>

ISDataIds == 1 .. D - 1
ISMetaIds == D .. D + M - 1

ISInit ==
    /\ block \in [0 .. D + M - 1 -> {"absent", "valid", "corrupt"}]
    /\ free = {} /\ mfree = {} /\ objs = {} /\ mobjs = {}
    /\ done = FALSE

ISScan ==
    /\ ~ done /\ done' = TRUE
    /\ objs' = {id \in ISDataIds : block[id] = "valid"}
    /\ mobjs' = {id \in ISMetaIds : block[id] = "valid"}
    /\ free' = {id \in ISDataIds : block[id] # "valid"}
    /\ mfree' = {id \in ISMetaIds : block[id] # "valid"}
    /\ UNCHANGED block

ISSpec == ISInit /\ [][ISScan]_isVars
=============================================================================

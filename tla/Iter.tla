-------------------------------- MODULE Iter --------------------------------
(***************************************************************************)
(* Iterators: pmb_iter_* of src/src/pmbackend.c, used in the loop of       *)
(* src/example/pool_list.c by several threads while others run             *)
(* transactions on the same objects.                                       *)
(*                                                                         *)
(* pmb_open leaves in a list of each region the numbers of the objects it  *)
(* has found (Recovery).  All iterators of a region pop this list, and     *)
(* pmb_iter_close frees it.                                                *)
(***************************************************************************)
EXTENDS Integers, Sequences, FiniteSets

CONSTANTS
    Readers,    \* threads that iterate
    Ids,        \* the numbers of each region, by region (0 data, 1 meta)
    Together,   \* may a thread close while others still iterate?
    MaxGen,     \* bound: objects written
    MaxOpen     \* bound: pmb_open of an existing pool

ASSUME IdsAssumption ==
    /\ DOMAIN Ids = {0, 1} /\ Ids[0] \cap Ids[1] = {}
    /\ \A r \in {0, 1} : IsFiniteSet(Ids[r]) /\ Ids[r] \subseteq Nat \ {0}
ASSUME MaxAssumption ==
    Together \in BOOLEAN /\ MaxGen \in Nat \ {0} /\ MaxOpen \in Nat \ {0}

VARIABLES
    cell,       \* which object each number holds, 0 for none
    gen,        \* objects written so far
    objs,       \* objs_list and meta_objs_list of the handle, by region
    left,       \* the numbers in the list of each region
    freed,      \* regions whose list was given to free
    rd,         \* what each thread is doing
    scan,       \* history: what each region's scan has found
    got,        \* history: what pmb_iter_get has returned, by number
    seen,       \* history: the numbers of what each thread's iterator has returned
    opened      \* how often the pool was opened

vars == <<cell, gen, objs, left, freed, rd, scan, got, seen, opened>>

Regions == {0, 1}
AllIds == Ids[0] \cup Ids[1]
NULL == "null"
LIST == "list"

\* A thread: where it is in its loop, the region and vector_pos of its
\* iterator, and the list pointer that pmb_iter_next or pmb_iter_close has read.
Rest == [pc |-> "rest", region |-> 0, pos |-> 0, list |-> NULL]

Moves(t, pc, pos, list) ==
    rd' = [rd EXCEPT ![t] = [pc |-> pc, region |-> @.region, pos |-> pos, list |-> list]]

Goto(t, pc) == Moves(t, pc, rd[t].pos, rd[t].list)

Nothing == [id \in AllIds |-> <<>>]

ObjectsOf(r) == {id \in Ids[r] : cell[id] # 0}

-----------------------------------------------------------------------------
\* A pool that exists, or one that this pmb_open creates: without lists.
Init ==
    /\ cell \in [AllIds -> {0, 1}] /\ gen = 1
    /\ \/ objs = [r \in Regions |-> LIST]
       \/ objs = [r \in Regions |-> NULL] /\ cell = [id \in AllIds |-> 0]
    /\ left = [r \in Regions |-> ObjectsOf(r)]
    /\ freed = {}
    /\ rd = [t \in Readers |-> Rest]
    /\ scan = cell /\ got = Nothing /\ opened = 1
    /\ seen = [t \in Readers |-> {}]

\* pmb_close, when nobody iterates, and pmb_open of what is there.
OpenAgain ==
    /\ \A t \in Readers : rd[t] = Rest
    /\ opened < MaxOpen /\ opened' = opened + 1
    /\ objs' = [r \in Regions |-> LIST]
    /\ left' = [r \in Regions |-> ObjectsOf(r)]
    /\ freed' = {} /\ scan' = cell /\ got' = Nothing
    /\ UNCHANGED <<cell, gen, rd, seen>>

\* Transactions of other threads: a removal, a write into a free block.
Remove(id) ==
    /\ cell[id] # 0 /\ cell' = [cell EXCEPT ![id] = 0]
    /\ UNCHANGED <<gen, objs, left, freed, rd, scan, got, seen, opened>>

Write(id) ==
    /\ cell[id] = 0 /\ gen < MaxGen /\ gen' = gen + 1
    /\ cell' = [cell EXCEPT ![id] = gen']
    /\ UNCHANGED <<objs, left, freed, rd, scan, got, seen, opened>>

\* caslist_pop gives the least number of a region's list, and 0 for an empty
\* one: vector_pos 0 is not valid.
Popped(r) ==
    IF left[r] = {} THEN 0 ELSE CHOOSE x \in left[r] : \A y \in left[r] : x <= y

Pop(r) == left' = [left EXCEPT ![r] = @ \ {Popped(r)}]

\* A fault: the iterator starts before its first number.
IterOpenBefore(t, r) ==
    /\ rd[t] = Rest /\ objs[r] = LIST /\ left[r] # {}
    /\ rd' = [rd EXCEPT ![t] = [pc |-> "valid", region |-> r, pos |-> 0, list |-> NULL]]
    /\ UNCHANGED <<cell, gen, objs, left, freed, scan, got, seen, opened>>

\* A fault: the iterator does not keep its region.
IterOpenNoRegion(t, r) ==
    /\ rd[t] = Rest /\ objs[r] = LIST /\ left[r] # {}
    /\ rd' = [rd EXCEPT ![t] = [pc |-> "valid", region |-> 0, pos |-> Popped(r), list |-> NULL]]
    /\ Pop(r)
    /\ UNCHANGED <<cell, gen, objs, freed, scan, got, seen, opened>>

\* pmb_iter_open: without a list, or with an empty one, there is no iterator,
\* and pool_list's loop and pmb_iter_close do nothing.
IterOpen(t, r) ==
    /\ rd[t] = Rest /\ objs[r] = LIST /\ left[r] # {}
    /\ rd' = [rd EXCEPT ![t] = [pc |-> "valid", region |-> r, pos |-> Popped(r), list |-> NULL]]
    /\ Pop(r)
    /\ UNCHANGED <<cell, gen, objs, freed, scan, got, seen, opened>>

\* pmb_iter_valid
IterValid(t) ==
    /\ rd[t].pc = "valid"
    /\ Goto(t, IF rd[t].pos # 0 THEN "get" ELSE "close")
    /\ UNCHANGED <<cell, gen, objs, left, freed, scan, got, seen, opened>>

\* pmb_iter_get: pmb_get of vector_pos, or PMB_ENOENT
IterGet(t) ==
    /\ rd[t].pc = "get" /\ Goto(t, "next")
    /\ IF cell[rd[t].pos] = 0
       THEN UNCHANGED <<got, seen>>
       ELSE /\ got' = [got EXCEPT ![rd[t].pos] = Append(@, cell[rd[t].pos])]
            /\ seen' = [seen EXCEPT ![t] = @ \cup {rd[t].pos}]
    /\ UNCHANGED <<cell, gen, objs, left, freed, scan, opened>>

\* pmb_iter_next reads the list pointer, ...
IterNext(t) ==
    /\ rd[t].pc = "next"
    /\ Moves(t, "pop", rd[t].pos, objs[rd[t].region])
    /\ UNCHANGED <<cell, gen, objs, left, freed, scan, got, seen, opened>>

\* A fault: caslist_pop of an empty list leaves *val as it was.
AdvanceStays(t, n) == IF n = 0 THEN rd[t].pos ELSE n

Advance(t, n) == n

\* ... and pops.  Without a list vector_pos stays as it is.
IterPop(t) ==
    /\ rd[t].pc = "pop"
    /\ IF rd[t].list = NULL
       THEN Goto(t, "valid") /\ UNCHANGED left
       ELSE /\ Moves(t, "valid", Advance(t, Popped(rd[t].region)), LIST)
            /\ Pop(rd[t].region)
    /\ UNCHANGED <<cell, gen, objs, freed, scan, got, seen, opened>>

\* Threads of one region agree that nobody closes while another iterates.
MayClose(t) ==
    \/ Together
    \/ \A u \in Readers \ {t} : rd[u].pc \in {"rest", "close"} \/ rd[u].region # rd[t].region

\* pmb_iter_close reads the list pointer, ...
IterClose(t) ==
    /\ rd[t].pc = "close" /\ MayClose(t)
    /\ Moves(t, "free", rd[t].pos, objs[rd[t].region])
    /\ UNCHANGED <<cell, gen, objs, left, freed, scan, got, seen, opened>>

\* A fault: the handle keeps the pointer.
IterFreeKeeps(t) ==
    /\ rd[t].pc = "free" /\ rd' = [rd EXCEPT ![t] = Rest]
    /\ freed' = IF rd[t].list = NULL THEN freed ELSE freed \cup {rd[t].region}
    /\ seen' = [seen EXCEPT ![t] = {}]
    /\ UNCHANGED <<cell, gen, objs, left, scan, got, opened>>

\* ... frees the list if there is one and forgets it.
IterFree(t) ==
    /\ rd[t].pc = "free" /\ rd' = [rd EXCEPT ![t] = Rest]
    /\ freed' = IF rd[t].list = NULL THEN freed ELSE freed \cup {rd[t].region}
    /\ seen' = [seen EXCEPT ![t] = {}]
    /\ objs' = [objs EXCEPT ![rd[t].region] = NULL]
    /\ UNCHANGED <<cell, gen, left, scan, got, opened>>

Loop(t) ==
    IterValid(t) \/ IterGet(t) \/ IterNext(t) \/ IterPop(t) \/ IterClose(t) \/ IterFree(t)

Next ==
    \/ \E t \in Readers, r \in Regions : IterOpen(t, r)
    \/ \E t \in Readers : \/ IterValid(t) \/ IterGet(t) \/ IterNext(t)
                          \/ IterPop(t) \/ IterClose(t) \/ IterFree(t)
    \/ \E id \in AllIds : Remove(id) \/ Write(id)
    \/ OpenAgain

\* A thread that has an iterator goes on.
Spec == Init /\ [][Next]_vars /\ \A t \in Readers : WF_vars(Loop(t))

-----------------------------------------------------------------------------
PCs == {"rest", "valid", "get", "next", "pop", "close", "free"}
Reader == [pc : PCs, region : Regions, pos : AllIds \cup {0}, list : {NULL, LIST}]

\* Types of the variables.  An iterator stands on a number of its region.
TypeOK ==
    /\ cell \in [AllIds -> 0 .. MaxGen] /\ scan \in [AllIds -> 0 .. MaxGen]
    /\ gen \in 1 .. MaxGen /\ opened \in 1 .. MaxOpen
    /\ objs \in [Regions -> {NULL, LIST}]
    /\ left \in [Regions -> SUBSET AllIds] /\ \A r \in Regions : left[r] \subseteq Ids[r]
    /\ freed \subseteq Regions
    /\ rd \in [Readers -> Reader]
    /\ \A t \in Readers : rd[t].pos \in Ids[rd[t].region] \cup {0}
    /\ got \in [AllIds -> Seq(1 .. MaxGen)] /\ seen \in [Readers -> SUBSET AllIds]

\* No thread pops or frees a list that was freed.
NoDangling ==
    \A t \in Readers :
        rd[t].pc \in {"pop", "free"} /\ rd[t].list = LIST => rd[t].region \notin freed

\* When the list of a region was closed, the iterators have returned every
\* object that the scan of pmb_open found and that nobody has changed.
AllReturned ==
    \A r \in freed : \A id \in Ids[r] :
        scan[id] # 0 /\ cell[id] = scan[id] => got[id] = <<scan[id]>>

\* pmbackend.h of iterators: "designed to enumerate all objects on openning time
\* and should be considered as "read only"".  So an iterator that has come to
\* its end would have returned every object that pmb_open found in its region
\* and that nobody has changed.  It has not when another one was open, since
\* pmb_iter_next takes the numbers from a list that they share.
Enumerates ==
    \A t \in Readers : rd[t].pc = "close" =>
        \A id \in Ids[rd[t].region] : scan[id] # 0 /\ cell[id] = scan[id] => id \in seen[t]

\* A loop over an iterator ends, whatever transactions do meanwhile.
LoopsEnd == \A t \in Readers : rd[t].pc # "rest" ~> rd[t].pc = "rest"
=============================================================================

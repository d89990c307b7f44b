------------------------------ MODULE Recovery ------------------------------
(***************************************************************************)
(* The threads of recovery in src/src/pmbackend.c: pmb_open divides the    *)
(* block numbers among them, each one visits its share and pushes every    *)
(* number to one of four caslists, and pmb_open joins them in order.       *)
(*                                                                         *)
(* Nobody writes to the blocks while the threads run, and a push is atomic *)
(* (CasList, FreeSet), so that one turn of a thread's loop is one action.  *)
(***************************************************************************)
EXTENDS Integers

CONSTANTS
    D,          \* total_objs_count
    M,          \* meta_objs_count
    N           \* threads_num, 8 in the code

ASSUME RDAssumption == D \in Nat /\ D >= 2
ASSUME RMAssumption == M \in Nat /\ M >= 1
ASSUME RNAssumption == N \in Nat /\ N >= 2

VARIABLES
    block,      \* what is found at a block number
    main,       \* pmb_open: creating or joining thread i, or done
    run,        \* state of each thread
    pos,        \* the next block number of each thread
    free, mfree, objs, mobjs    \* the caslists of the handle

vars == <<block, main, run, pos, free, mfree, objs, mobjs>>
pushed == <<free, mfree, objs, mobjs>>

Threads == 0 .. N - 1
Ids == 1 .. D + M - 1

\* recovery: the share of thread i is Start(i) .. Stop(i) - 1, where the
\* share of the last one takes in the remainder and block 0 is skipped.
Part == ((D - 1) + M) \div N
Start(i) == IF i = 0 THEN 1 ELSE Part * i

\* Faults: a share that ends one early; one that takes in its upper bound.
StopInclusive(i) == IF i < N - 1 THEN Part * (i + 1) + 1 ELSE D + M
StopEarly(i) == IF i < N - 1 THEN Part * (i + 1) - 1 ELSE D + M

Stop(i) == IF i < N - 1 THEN Part * (i + 1) ELSE D + M

-----------------------------------------------------------------------------
Init ==
    /\ block \in [0 .. D + M - 1 -> {"absent", "valid", "corrupt"}]
    /\ main = [at |-> "create", i |-> 0]
    /\ run = [t \in Threads |-> "new"]
    /\ pos = [t \in Threads |-> 0]
    /\ free = {} /\ mfree = {} /\ objs = {} /\ mobjs = {}

\* A fault: the loop's bound is off by one.
AdvanceTooFar(next) ==
    main' = IF main.i < N THEN [main EXCEPT !.i = @ + 1] ELSE [at |-> next, i |-> 0]

\* The step of pmb_open's loop after which it goes on to a next one.
Advance(next) ==
    main' = IF main.i < N - 1 THEN [main EXCEPT !.i = @ + 1] ELSE [at |-> next, i |-> 0]

\* pthread_create
Create ==
    /\ main.at = "create"
    /\ run' = [run EXCEPT ![main.i] = "run"]
    /\ pos' = [pos EXCEPT ![main.i] = Start(main.i)]
    /\ Advance("join")
    /\ UNCHANGED <<block, pushed>>

\* The two lists of the region a number belongs to, by the border between them
IsMeta(id) == id > D - 1

\* backend_get finds no object at number 0, whatever its bytes.
IsObject(id) == id # 0 /\ block[id] = "valid"

\* A fault: what is no object and not blank is on no list.
PushSkipsCorrupt(id) ==
    /\ free' = IF ~ IsMeta(id) /\ block[id] = "absent" THEN free \cup ({id} \ {0}) ELSE free
    /\ mfree' = IF IsMeta(id) /\ block[id] = "absent" THEN mfree \cup {id} ELSE mfree
    /\ objs' = IF ~ IsMeta(id) /\ IsObject(id) THEN objs \cup {id} ELSE objs
    /\ mobjs' = IF IsMeta(id) /\ IsObject(id) THEN mobjs \cup {id} ELSE mobjs

\* caslist_push, which ignores 0
Push(id) ==
    /\ free' = IF ~ IsMeta(id) /\ ~ IsObject(id) THEN free \cup ({id} \ {0}) ELSE free
    /\ mfree' = IF IsMeta(id) /\ ~ IsObject(id) THEN mfree \cup {id} ELSE mfree
    /\ objs' = IF ~ IsMeta(id) /\ IsObject(id) THEN objs \cup {id} ELSE objs
    /\ mobjs' = IF IsMeta(id) /\ IsObject(id) THEN mobjs \cup {id} ELSE mobjs

\* A fault: a turn that finds no object does not advance the loop variable.
VisitStays(t) ==
    /\ run[t] = "run" /\ pos[t] < Stop(t)
    /\ Push(pos[t])
    /\ pos' = IF IsObject(pos[t]) THEN [pos EXCEPT ![t] = @ + 1] ELSE pos
    /\ UNCHANGED <<block, main, run>>

\* One turn of recovery_thread's loop
Visit(t) ==
    /\ run[t] = "run" /\ pos[t] < Stop(t)
    /\ Push(pos[t])
    /\ pos' = [pos EXCEPT ![t] = @ + 1]
    /\ UNCHANGED <<block, main, run>>

\* The end of the loop
End(t) ==
    /\ run[t] = "run" /\ pos[t] >= Stop(t)
    /\ run' = [run EXCEPT ![t] = "ended"]
    /\ UNCHANGED <<block, main, pos, pushed>>

\* A fault: a thread that was created is taken for one that has ended.
JoinRunning ==
    /\ main.at = "join"
    /\ run[main.i] # "new"
    /\ Advance("done")
    /\ UNCHANGED <<block, run, pos, pushed>>

\* pthread_join, and the return of recovery after the last one
Join ==
    /\ main.at = "join"
    /\ run[main.i] = "ended"
    /\ Advance("done")
    /\ UNCHANGED <<block, run, pos, pushed>>

Next == Create \/ Join \/ \E t \in Threads : Visit(t) \/ End(t)

\* The scheduler lets pmb_open and every thread that was created go on.
Fairness ==
    /\ WF_vars(Create) /\ WF_vars(Join)
    /\ \A t \in Threads : WF_vars(Visit(t) \/ End(t))

Spec == Init /\ [][Next]_vars /\ Fairness

-----------------------------------------------------------------------------
\* Positions stay in a thread's share; the lists hold block numbers.
TypeOK ==
    /\ block \in [0 .. D + M - 1 -> {"absent", "valid", "corrupt"}]
    /\ main \in [at : {"create", "join", "done"}, i : Threads]
    /\ run \in [Threads -> {"new", "run", "ended"}]
    /\ pos \in [Threads -> 0 .. D + M]
    /\ free \cup mfree \cup objs \cup mobjs \subseteq Ids

\* No two threads are ever about to visit the same number, and none comes to
\* a number that another one has been at: the shares are disjoint even when
\* there are fewer numbers than threads.
NoOverlap ==
    \A t, u \in Threads :
        (t # u /\ run[t] = "run" /\ pos[t] < Stop(t) /\ run[u] # "new") =>
            ~ (Start(u) <= pos[t] /\ pos[t] < Stop(u))

\* However the threads interleave, what pmb_open finds on the lists when
\* recovery returns is the result of one scan over all block numbers: none is
\* forgotten at a border of two shares, on both lists, or pushed afterwards.
At(list) == IF main.at = "done" THEN list ELSE {}
Abstract == INSTANCE InitialScan WITH
                free <- At(free), mfree <- At(mfree), objs <- At(objs),
                mobjs <- At(mobjs), done <- main.at = "done"
ImplementsScan == Abstract!ISSpec

\* pmb_open returns: no thread runs for ever or is joined without being
\* created.
Returns == <>(main.at = "done")
=============================================================================

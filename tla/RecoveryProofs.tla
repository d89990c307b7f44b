--------------------------- MODULE RecoveryProofs ---------------------------
(***************************************************************************)
(* For every number of blocks and threads: the shares of the recovery      *)
(* threads cover the block numbers without overlap, and the threads leave  *)
(* on the lists what one scan over all blocks would leave.                 *)
(***************************************************************************)
EXTENDS Recovery, NaturalsInduction, WellFoundedInduction, TLAPS

\* The block numbers that some thread has been at.
Visited(id) == \E t \in Threads : run[t] # "new" /\ Start(t) <= id /\ id < pos[t]

\* The lists hold what was found at the numbers visited so far.
ListsOK ==
    /\ free = {id \in Ids : Visited(id) /\ ~ IsMeta(id) /\ block[id] # "valid"}
    /\ mfree = {id \in Ids : Visited(id) /\ IsMeta(id) /\ block[id] # "valid"}
    /\ objs = {id \in Ids : Visited(id) /\ ~ IsMeta(id) /\ block[id] = "valid"}
    /\ mobjs = {id \in Ids : Visited(id) /\ IsMeta(id) /\ block[id] = "valid"}

ShapeOK ==
    /\ block \in [0 .. D + M - 1 -> {"absent", "valid", "corrupt"}]
    /\ main \in [at : {"create", "join", "done"}, i : Threads]
    /\ run \in [Threads -> {"new", "run", "ended"}]
    /\ pos \in [Threads -> 0 .. D + M]

\* A thread is between the start of its share and the stop, and has ended
\* only at the stop.
SharesOK ==
    \A t \in Threads :
        /\ run[t] # "new" => Start(t) <= pos[t]
        /\ run[t] = "ended" => pos[t] >= Stop(t)

\* What pmb_open has created and joined.
MainOK ==
    /\ main.at = "create" => \A t \in Threads : t < main.i <=> run[t] # "new"
    /\ main.at # "create" => \A t \in Threads : run[t] # "new"
    /\ main.at = "join" => \A t \in Threads : t < main.i => run[t] = "ended"
    /\ main.at = "done" => \A t \in Threads : run[t] = "ended"

RInv == ShapeOK /\ ListsOK /\ SharesOK /\ MainOK

-----------------------------------------------------------------------------
(* The shares. *)

\* A product grows with its second factor.
LEMMA ProductGrows ==
    ASSUME NEW a \in Nat, NEW b \in Nat, NEW c \in Nat, b <= c
    PROVE  a * b \in Nat /\ a * c \in Nat /\ a * b <= a * c
<1>1. PICK d \in Nat : c = b + d
    <2>1. c - b \in Nat /\ c = b + (c - b)
        OBVIOUS
    <2> QED BY <2>1
<1>2. a * d \in Nat
    OBVIOUS
<1>3. a * c = a * b + a * d
    BY <1>1
<1> QED BY <1>2, <1>3

\* The shares of all threads together are no longer than the block numbers.
LEMMA PartNat == Part \in Nat /\ Part * N <= D + M - 1
<1>1. (D - 1) + M \in Nat /\ N \in Nat /\ N > 0
    BY RDAssumption, RMAssumption, RNAssumption
<1>2. \A x, n \in Nat : n > 0 => x \div n \in Nat /\ n * (x \div n) <= x
    OBVIOUS
<1>3. Part \in Nat /\ N * Part <= (D - 1) + M
    BY <1>1, <1>2 DEF Part
<1>4. (D - 1) + M = D + M - 1
    BY RDAssumption, RMAssumption
<1>5. N * Part = Part * N
    BY <1>1, <1>3
<1> QED BY <1>3, <1>4, <1>5

\* A share lies within the block numbers.
LEMMA ShareBounds ==
    ASSUME NEW t \in Threads
    PROVE  Start(t) \in 0 .. D + M /\ Stop(t) \in 0 .. D + M
<1>0. t \in Nat /\ t + 1 \in Nat /\ t <= N /\ t + 1 <= N /\ N \in Nat
    BY RNAssumption DEF Threads
<1>1. Part * t \in Nat /\ Part * t <= Part * N
    BY <1>0, PartNat, ProductGrows
<1>2. Part * (t + 1) \in Nat /\ Part * (t + 1) <= Part * N
    BY <1>0, PartNat, ProductGrows
<1>3. Part * N \in Nat /\ D \in Nat /\ D >= 2 /\ M \in Nat
    BY <1>0, PartNat, RDAssumption, RMAssumption
<1>4. Start(t) \in 0 .. D + M
    BY <1>1, <1>3, PartNat DEF Start
<1>5. Stop(t) \in 0 .. D + M
    BY <1>2, <1>3, PartNat DEF Stop
<1> QED BY <1>4, <1>5

\* A share stops before the next ones start.
LEMMA SharesApart ==
    ASSUME NEW t \in Threads, NEW u \in Threads, t < u
    PROVE  Stop(t) <= Start(u)
<1>1. t + 1 \in Nat /\ u \in Nat /\ t + 1 <= u /\ t < N - 1 /\ u # 0
    BY RNAssumption DEF Threads
<1>2. Part * (t + 1) <= Part * u
    BY <1>1, PartNat, ProductGrows
<1> QED BY <1>1, <1>2 DEF Stop, Start

\* A non-empty set of numbers has a least element.
LEMMA LeastOf ==
    ASSUME NEW S \in SUBSET Nat, S # {}
    PROVE  \E n \in S : \A m \in S : n <= m
<1>1. PICK n \in S : \A m \in S : ~ (<<m, n>> \in OpToRel(<, Nat))
    BY NatLessThanWellFounded, WFMin
<1>2. \A m \in S : ~ (m < n)
    BY <1>1, Zenon DEF OpToRel
<1> QED BY <1>2

\* Every block number is in a share: the first one that stops above it.
LEMMA SharesCover ==
    ASSUME NEW id \in Ids
    PROVE  \E t \in Threads : Start(t) <= id /\ id < Stop(t)
<1> DEFINE S == {t \in Threads : id < Stop(t)}
<1>0. D \in Nat /\ M \in Nat /\ N \in Nat /\ N >= 2 /\ id \in Nat /\ id >= 1 /\ id < D + M
    BY RDAssumption, RMAssumption, RNAssumption DEF Ids
<1>1. N - 1 \in S
    BY <1>0 DEF Stop, Threads
<1>2. S \in SUBSET Nat
    BY <1>0 DEF Threads
<1>3. PICK t \in S : \A u \in S : t <= u
    BY <1>1, <1>2, LeastOf
<1>4. CASE t = 0
    BY <1>0, <1>3, <1>4 DEF Start
<1>5. CASE t # 0
    <2>1. t - 1 \in Threads /\ t - 1 < N - 1 /\ (t - 1) + 1 = t /\ t \in Nat
        BY <1>0, <1>3, <1>5 DEF Threads
    <2>2. ~ (id < Stop(t - 1))
        BY <1>2, <1>3, <2>1
    <2>3. Stop(t - 1) = Part * t
        BY <2>1 DEF Stop
    <2>4. Part * t \in Nat
        BY <2>1, PartNat
    <2>5. Start(t) <= id
        BY <1>0, <1>5, <2>2, <2>3, <2>4 DEF Start
    <2> QED BY <1>3, <2>5
<1> QED BY <1>4, <1>5

-----------------------------------------------------------------------------
(* The invariant. *)

\* The invariant holds when pmb_open starts to create threads.
LEMMA RInvInit == Init => RInv
<1> SUFFICES ASSUME Init PROVE RInv
    OBVIOUS
<1>1. \A t \in Threads : run[t] = "new" /\ pos[t] = 0
    BY DEF Init
<1>2. \A id \in Ids : ~ Visited(id)
    BY <1>1 DEF Visited
<1>3. ListsOK
    BY <1>2 DEF Init, ListsOK
<1>4. 0 \in Threads /\ 0 \in 0 .. D + M
    BY RNAssumption, RDAssumption, RMAssumption DEF Threads
<1>5. main.at = "create" /\ main.i = 0 /\ \A t \in Threads : ~ (t < 0)
    BY RNAssumption DEF Init, Threads
<1>6. ShapeOK
    BY <1>4 DEF Init, ShapeOK
<1>7. SharesOK /\ MainOK
    BY <1>1, <1>5 DEF SharesOK, MainOK
<1> QED BY <1>3, <1>6, <1>7 DEF RInv

\* Lists stay right when no number is visited and no block changes.
LEMMA ListsStay ==
    ASSUME ListsOK, UNCHANGED <<block, pushed>>,
           \A id \in Ids : Visited(id)' <=> Visited(id)
    PROVE  ListsOK'
BY DEF ListsOK, pushed, IsMeta

\* pthread_create keeps it: the new thread has visited nothing.
LEMMA CreateStep ==
    ASSUME RInv, Create
    PROVE  RInv'
<1> DEFINE i == main.i
<1>1. i \in Threads /\ run[i] = "new"
    BY RNAssumption DEF RInv, ShapeOK, MainOK, Create, Threads
<1>2. Start(i) \in 0 .. D + M
    BY <1>1, ShareBounds
<1>3. /\ run' = [run EXCEPT ![i] = "run"]
      /\ pos' = [pos EXCEPT ![i] = Start(i)]
      /\ UNCHANGED <<block, pushed>>
    BY DEF Create
<1>4. \A t \in Threads : t # i => run'[t] = run[t] /\ pos'[t] = pos[t]
    BY <1>3 DEF RInv, ShapeOK
<1>5. run'[i] = "run" /\ pos'[i] = Start(i)
    BY <1>1, <1>3 DEF RInv, ShapeOK
<1>6. \A id \in Ids : Visited(id)' <=> Visited(id)
    <2> SUFFICES ASSUME NEW id \in Ids PROVE Visited(id)' <=> Visited(id)
        OBVIOUS
    <2>1. id \in Int /\ Start(i) \in Int
        BY <1>2, RDAssumption, RMAssumption DEF Ids
    <2>2. ~ (Start(i) <= id /\ id < pos'[i])
        BY <1>5, <2>1
    <2> QED BY <1>1, <1>4, <1>5, <2>2 DEF Visited
<1>7. ListsOK'
    BY <1>3, <1>6, ListsStay DEF RInv
<1>8. main.i + 1 \in Threads \/ ~ (main.i < N - 1)
    BY <1>1, RNAssumption DEF Threads
<1>9. \/ main.i < N - 1 /\ main' = [main EXCEPT !.i = @ + 1]
      \/ ~ (main.i < N - 1) /\ main' = [at |-> "join", i |-> 0]
    BY DEF Create, Advance
<1>10. 0 \in Threads
    BY RNAssumption DEF Threads
<1>11. ShapeOK'
    <2>1. main' \in [at : {"create", "join", "done"}, i : Threads]
        BY <1>1, <1>8, <1>9, <1>10 DEF RInv, ShapeOK
    <2> QED BY <1>2, <1>3, <2>1 DEF RInv, ShapeOK, pushed
<1>12. SharesOK'
    <2> SUFFICES ASSUME NEW t \in Threads
                 PROVE  /\ run'[t] # "new" => Start(t) <= pos'[t]
                        /\ run'[t] = "ended" => pos'[t] >= Stop(t)
        BY DEF SharesOK
    <2>1. CASE t = i
        BY <1>2, <1>5, <2>1
    <2>2. CASE t # i
        BY <1>4, <2>2 DEF RInv, SharesOK
    <2> QED BY <2>1, <2>2
<1>13. MainOK'
    <2>0. main.at = "create" /\ \A t \in Threads : t < i <=> run[t] # "new"
        BY DEF Create, RInv, MainOK
    <2>1. \A t \in Threads : t < i + 1 <=> run'[t] # "new"
        <3> SUFFICES ASSUME NEW t \in Threads PROVE t < i + 1 <=> run'[t] # "new"
            OBVIOUS
        <3>1. t \in Int /\ i \in Int
            BY <1>1, RNAssumption DEF Threads
        <3> QED BY <1>4, <1>5, <2>0, <3>1
    <2>2. CASE main.i < N - 1
        <3>1. main'.at = "create" /\ main'.i = i + 1
            BY <1>9, <2>0, <2>2 DEF RInv, ShapeOK
        <3> QED BY <2>1, <3>1 DEF MainOK
    <2>3. CASE ~ (main.i < N - 1)
        <3>1. main'.at = "join" /\ main'.i = 0
            BY <1>9, <2>3
        <3>2. \A t \in Threads : t < i + 1 /\ ~ (t < 0)
            BY <1>1, <2>3, RNAssumption DEF Threads
        <3> QED BY <2>1, <3>1, <3>2 DEF MainOK
    <2> QED BY <2>2, <2>3
<1> QED BY <1>7, <1>11, <1>12, <1>13 DEF RInv

\* pthread_join keeps it.
LEMMA JoinStep ==
    ASSUME RInv, Join
    PROVE  RInv'
<1>1. /\ main.i \in Threads /\ main.at = "join" /\ run[main.i] = "ended"
      /\ UNCHANGED <<block, run, pos, pushed>>
    BY DEF RInv, ShapeOK, Join
<1>2. \/ main.i < N - 1 /\ main' = [main EXCEPT !.i = @ + 1]
      \/ ~ (main.i < N - 1) /\ main' = [at |-> "done", i |-> 0]
    BY DEF Join, Advance
<1>3. ListsOK'
    <2>1. \A id \in Ids : Visited(id)' <=> Visited(id)
        BY <1>1 DEF Visited
    <2> QED BY <1>1, <2>1, ListsStay DEF RInv
<1>4. SharesOK'
    BY <1>1 DEF RInv, SharesOK
<1>5. main.i < N - 1 => main.i + 1 \in Threads
    BY <1>1, RNAssumption DEF Threads
<1>6. 0 \in Threads
    BY RNAssumption DEF Threads
<1>7. ShapeOK'
    <2>1. main' \in [at : {"create", "join", "done"}, i : Threads]
        BY <1>1, <1>2, <1>5, <1>6 DEF RInv, ShapeOK
    <2> QED BY <1>1, <2>1 DEF RInv, ShapeOK
<1>8. MainOK'
    <2>1. \A t \in Threads : run[t] # "new" /\ (t < main.i + 1 => run[t] = "ended")
        <3> SUFFICES ASSUME NEW t \in Threads
                     PROVE  run[t] # "new" /\ (t < main.i + 1 => run[t] = "ended")
            OBVIOUS
        <3>1. t \in Int /\ main.i \in Int
            BY <1>1, RNAssumption DEF Threads
        <3>2. t < main.i + 1 => t < main.i \/ t = main.i
            BY <3>1
        <3> QED BY <1>1, <3>2 DEF RInv, MainOK
    <2>2. CASE main.i < N - 1
        <3>1. main'.at = "join" /\ main'.i = main.i + 1
            BY <1>1, <1>2, <2>2 DEF RInv, ShapeOK
        <3> QED BY <1>1, <2>1, <3>1 DEF MainOK
    <2>3. CASE ~ (main.i < N - 1)
        <3>1. main'.at = "done" /\ main'.i = 0
            BY <1>2, <2>3
        <3>2. \A t \in Threads : t < main.i + 1
            BY <1>1, <2>3, RNAssumption DEF Threads
        <3> QED BY <1>1, <2>1, <3>1, <3>2 DEF MainOK
    <2> QED BY <2>2, <2>3
<1> QED BY <1>3, <1>4, <1>7, <1>8 DEF RInv

\* One turn of a thread's loop keeps it: the number visited is on its list.
LEMMA VisitStep ==
    ASSUME RInv, NEW t \in Threads, Visit(t)
    PROVE  RInv'
<1> DEFINE p == pos[t]
<1>0. /\ run[t] = "run" /\ p < Stop(t) /\ p \in 0 .. D + M /\ Start(t) <= p
      /\ UNCHANGED <<block, main, run>> /\ Push(p)
      /\ pos' = [pos EXCEPT ![t] = p + 1]
    BY DEF Visit, RInv, ShapeOK, SharesOK
<1>1. p \in 0 .. D + M - 1 /\ p + 1 \in 0 .. D + M /\ p \in Int
    BY <1>0, ShareBounds, RDAssumption, RMAssumption
<1>2. pos'[t] = p + 1 /\ \A u \in Threads : u # t => pos'[u] = pos[u]
    BY <1>0 DEF RInv, ShapeOK
<1>3. ShapeOK'
    BY <1>0, <1>1 DEF RInv, ShapeOK
<1>4. SharesOK'
    <2> SUFFICES ASSUME NEW u \in Threads
                 PROVE  /\ run[u] # "new" => Start(u) <= pos'[u]
                        /\ run[u] = "ended" => pos'[u] >= Stop(u)
        BY <1>0 DEF SharesOK
    <2>1. CASE u = t
        <3>1. Start(t) \in Int
            BY ShareBounds, RDAssumption, RMAssumption
        <3> QED BY <1>0, <1>1, <1>2, <2>1, <3>1
    <2>2. CASE u # t
        BY <1>2, <2>2 DEF RInv, SharesOK
    <2> QED BY <2>1, <2>2
<1>5. MainOK'
    BY <1>0 DEF RInv, MainOK
<1>6. \A id \in Ids : Visited(id)' <=> Visited(id) \/ id = p
    <2> SUFFICES ASSUME NEW id \in Ids PROVE Visited(id)' <=> Visited(id) \/ id = p
        OBVIOUS
    <2>1. id \in Int
        BY RDAssumption, RMAssumption DEF Ids
    <2>2. id < p + 1 <=> id < p \/ id = p
        BY <1>1, <2>1
    <2>3. id = p => Start(t) <= id
        BY <1>0
    <2> QED BY <1>0, <1>2, <2>2, <2>3 DEF Visited
<1>7. ListsOK'
    <2>1. p \in Ids \/ p = 0
        BY <1>1 DEF Ids
    <2>2. CASE p = 0
        <3>1. ~ IsMeta(p) /\ ~ IsObject(p) /\ 0 \notin Ids
            BY <2>2, RDAssumption, RMAssumption DEF IsMeta, IsObject, Ids
        <3>2. UNCHANGED pushed
            BY <1>0, <2>2, <3>1 DEF Push, pushed
        <3>3. \A id \in Ids : id # p
            BY <2>2, <3>1
        <3>4. \A id \in Ids : Visited(id)' <=> Visited(id)
            BY <1>6, <3>3
        <3> QED BY <1>0, <3>2, <3>4, ListsStay DEF RInv
    <2>3. CASE p \in Ids
        <3>1. p # 0 /\ (IsObject(p) <=> block[p] = "valid")
            BY <2>3 DEF IsObject, Ids
        <3>2. /\ free' = {id \in Ids : Visited(id)' /\ ~ IsMeta(id) /\ block[id] # "valid"}
              /\ mfree' = {id \in Ids : Visited(id)' /\ IsMeta(id) /\ block[id] # "valid"}
              /\ objs' = {id \in Ids : Visited(id)' /\ ~ IsMeta(id) /\ block[id] = "valid"}
              /\ mobjs' = {id \in Ids : Visited(id)' /\ IsMeta(id) /\ block[id] = "valid"}
            BY <1>0, <1>6, <2>3, <3>1 DEF RInv, ListsOK, Push
        <3> QED BY <1>0, <3>2 DEF ListsOK, IsMeta
    <2> QED BY <2>1, <2>2, <2>3
<1> QED BY <1>3, <1>4, <1>5, <1>7 DEF RInv

\* The end of a thread keeps it.
LEMMA EndStep ==
    ASSUME RInv, NEW t \in Threads, End(t)
    PROVE  RInv'
<1>0. /\ run[t] = "run" /\ pos[t] >= Stop(t) /\ run' = [run EXCEPT ![t] = "ended"]
      /\ UNCHANGED <<block, main, pos, pushed>>
    BY DEF End
<1>1. run'[t] = "ended" /\ \A u \in Threads : u # t => run'[u] = run[u]
    BY <1>0 DEF RInv, ShapeOK
<1>2. \A u \in Threads : run'[u] # "new" <=> run[u] # "new"
    BY <1>0, <1>1
<1>3. ShapeOK' /\ SharesOK'
    BY <1>0, <1>1 DEF RInv, ShapeOK, SharesOK
<1>4. ListsOK'
    <2>1. \A id \in Ids : Visited(id)' <=> Visited(id)
        BY <1>0, <1>2 DEF Visited
    <2> QED BY <1>0, <2>1, ListsStay DEF RInv
<1>5. MainOK'
    BY <1>0, <1>1, <1>2 DEF RInv, MainOK
<1> QED BY <1>3, <1>4, <1>5 DEF RInv

\* So does a step that changes nothing.
LEMMA RInvStutter ==
    ASSUME RInv, UNCHANGED vars
    PROVE  RInv'
<1>1. \A id \in Ids : Visited(id)' <=> Visited(id)
    BY DEF Visited, vars
<1>2. ListsOK'
    BY <1>1, ListsStay DEF RInv, vars, pushed
<1> QED BY <1>2 DEF RInv, ShapeOK, SharesOK, MainOK, vars

\* The invariant is inductive.
LEMMA RInvNext == RInv /\ [Next]_vars => RInv'
BY CreateStep, JoinStep, VisitStep, EndStep, RInvStutter DEF Next

\* The inductive invariant holds for every number of blocks and threads.
THEOREM RecoveryInvariant == Spec => []RInv
BY RInvInit, RInvNext, PTL DEF Spec

-----------------------------------------------------------------------------
\* For every number of blocks and threads, a thread's position is a block
\* number or the end, and only block numbers other than 0 are pushed.
THEOREM RecoveryType == Spec => []TypeOK
<1>1. RInv => TypeOK
    BY DEF RInv, ShapeOK, ListsOK, TypeOK
<1> QED BY <1>1, RecoveryInvariant, PTL

\* For every number of blocks and threads, the division of recovery gives no
\* block number to two threads.
THEOREM RecoveryNoOverlap == Spec => []NoOverlap
<1>1. RInv => NoOverlap
    <2> SUFFICES ASSUME RInv, NEW t \in Threads, NEW u \in Threads, t # u,
                        run[t] = "run", pos[t] < Stop(t), run[u] # "new"
                 PROVE  ~ (Start(u) <= pos[t] /\ pos[t] < Stop(u))
        BY DEF NoOverlap
    <2>1. /\ Start(t) \in Int /\ Stop(t) \in Int /\ Start(u) \in Int /\ Stop(u) \in Int
          /\ pos[t] \in Int /\ t \in Int /\ u \in Int
        BY ShareBounds, RDAssumption, RMAssumption, RNAssumption DEF RInv, ShapeOK, Threads
    <2>2. Start(t) <= pos[t]
        BY DEF RInv, SharesOK
    <2>3. CASE t < u
        <3>1. Stop(t) <= Start(u)
            BY <2>3, SharesApart
        <3> QED BY <2>1, <3>1
    <2>4. CASE u < t
        <3>1. Stop(u) <= Start(t)
            BY <2>4, SharesApart
        <3> QED BY <2>1, <2>2, <3>1
    <2> QED BY <2>1, <2>3, <2>4
<1> QED BY <1>1, RecoveryInvariant, PTL

\* Once every thread has ended, every block number has been visited.
LEMMA AllVisited ==
    ASSUME RInv, \A t \in Threads : run[t] = "ended", NEW id \in Ids
    PROVE  Visited(id)
<1>1. PICK t \in Threads : Start(t) <= id /\ id < Stop(t)
    BY SharesCover
<1>2. pos[t] >= Stop(t) /\ pos[t] \in Int /\ Stop(t) \in Int /\ id \in Int
    BY ShareBounds, RDAssumption, RMAssumption DEF RInv, SharesOK, ShapeOK, Ids
<1>3. id < pos[t]
    BY <1>1, <1>2
<1>4. run[t] # "new"
    OBVIOUS
<1> QED BY <1>1, <1>3, <1>4 DEF Visited

\* The join of the last thread is the step of the abstract scan.
LEMMA LastJoin ==
    ASSUME RInv, RInv', Join, main'.at = "done"
    PROVE  Abstract!ISScan
<1>1. main.at = "join" /\ UNCHANGED <<block, run, pos, pushed>>
    BY DEF Join
<1>2. \A t \in Threads : run[t] = "ended"
    BY <1>1 DEF RInv, MainOK
<1>3. \A id \in Ids : Visited(id)
    BY <1>2, AllVisited
<1>4. /\ \A id : id \in Ids /\ ~ IsMeta(id) <=> id \in 1 .. D - 1
      /\ \A id : id \in Ids /\ IsMeta(id) <=> id \in D .. D + M - 1
    BY RDAssumption, RMAssumption DEF Ids, IsMeta
<1>5. /\ free = {id \in 1 .. D - 1 : block[id] # "valid"}
      /\ mfree = {id \in D .. D + M - 1 : block[id] # "valid"}
      /\ objs = {id \in 1 .. D - 1 : block[id] = "valid"}
      /\ mobjs = {id \in D .. D + M - 1 : block[id] = "valid"}
    BY <1>3, <1>4 DEF RInv, ListsOK
<1>6. At(free)' = free /\ At(mfree)' = mfree /\ At(objs)' = objs /\ At(mobjs)' = mobjs
    BY <1>1 DEF At, pushed
<1> QED BY <1>1, <1>5, <1>6
        DEF Abstract!ISScan, Abstract!ISDataIds, Abstract!ISMetaIds, pushed

\* For every number of blocks and threads and every interleaving, recovery
\* returns with the lists of one scan over all blocks.
THEOREM RecoveryImplementsScan == Spec => ImplementsScan
<1>1. Init => Abstract!ISInit
    BY DEF Init, At, Abstract!ISInit
<1>2. RInv /\ RInv' /\ [Next]_vars => [Abstract!ISScan]_Abstract!isVars
    <2> SUFFICES ASSUME RInv, RInv', [Next]_vars
                 PROVE  [Abstract!ISScan]_Abstract!isVars
        OBVIOUS
    <2>1. CASE main.at # "done" /\ main'.at # "done" /\ UNCHANGED block
        BY <2>1 DEF At, Abstract!isVars
    <2>2. CASE main.at # "done" /\ main'.at # "done" /\ ~ UNCHANGED block
        BY <2>2 DEF Next, Create, Join, Visit, End, vars
    <2>3. CASE main.at # "done" /\ main'.at = "done"
        <3>1. Join
            BY <2>3, RNAssumption DEF Next, Create, Visit, End, vars, Advance, RInv, ShapeOK
        <3> QED BY <2>3, <3>1, LastJoin
    <2>4. CASE main.at = "done"
        <3>1. \A t \in Threads : run[t] = "ended"
            BY <2>4 DEF RInv, MainOK
        <3>2. ~ Create /\ ~ Join /\ \A t \in Threads : ~ Visit(t) /\ ~ End(t)
            BY <2>4, <3>1 DEF Create, Join, Visit, End
        <3>3. UNCHANGED vars
            BY <3>2 DEF Next
        <3> QED BY <3>3 DEF vars, At, Abstract!isVars
    <2> QED BY <2>1, <2>2, <2>3, <2>4
<1> QED BY <1>1, <1>2, RecoveryInvariant, PTL DEF Spec, ImplementsScan, Abstract!ISSpec
=============================================================================

----------------------------- MODULE IterProofs -----------------------------
(***************************************************************************)
(* Proofs about Iter, for any threads, any numbers of the two regions and  *)
(* any bounds: types always, and what the iterators deliver as long as no  *)
(* thread closes while another one iterates.                               *)
(***************************************************************************)
EXTENDS Iter, WellFoundedInduction, SequenceTheorems, TLAPS

Busy == {"valid", "get", "next", "pop"}

\* A number is looked up only if it is one.
GetsValid == \A t \in Readers : rd[t].pc = "get" => rd[t].pos # 0

TInv == TypeOK /\ GetsValid

\* What the agreement about closing keeps up: the list is there while threads
\* are in their loops, a thread that frees it is alone, and at the end of a
\* loop the list is empty.
ListKept ==
    /\ \A t \in Readers : rd[t].pc \in Busy => objs[rd[t].region] = LIST
    /\ \A t \in Readers : rd[t].pc = "pop" => rd[t].list = LIST
    /\ \A r \in freed : objs[r] = NULL /\ left[r] = {}

ClosesAlone ==
    \A t \in Readers : rd[t].pc = "free" =>
        /\ rd[t].list = objs[rd[t].region]
        /\ \A u \in Readers \ {t} :
              rd[u].pc \in {"rest", "close"} \/ rd[u].region # rd[t].region

EndsEmpty ==
    /\ \A t \in Readers : rd[t].pc \in {"close", "free"} => rd[t].pos = 0
    /\ \A t \in Readers : rd[t].pc # "rest" /\ rd[t].pos = 0 => left[rd[t].region] = {}

\* A number is in the list, with one thread, or done.
Apart ==
    /\ \A t \in Readers : rd[t].pos # 0 => rd[t].pos \notin left[rd[t].region]
    /\ \A t, u \in Readers : t # u /\ rd[t].pos # 0 => rd[t].pos # rd[u].pos

Fresh ==
    /\ \A t \in Readers :
          rd[t].pc \in {"valid", "get"} /\ rd[t].pos # 0 => got[rd[t].pos] = <<>>
    /\ \A r \in Regions : \A id \in left[r] : got[id] = <<>>

\* No number has been returned twice while the pool is open.
Divided == \A id \in AllIds : Len(got[id]) <= 1

\* An object of the scan that is still there is waiting, with a thread that is
\* about to get it, or was returned.
Accounted ==
    \A r \in Regions : \A id \in Ids[r] :
        scan[id] # 0 /\ cell[id] = scan[id] =>
            \/ id \in left[r]
            \/ \E t \in Readers : rd[t].pc \in {"valid", "get"} /\ rd[t].pos = id
            \/ got[id] = <<scan[id]>>

Older == \A id \in AllIds : cell[id] <= gen /\ scan[id] <= gen

IInv ==
    /\ TInv /\ ListKept /\ ClosesAlone /\ EndsEmpty
    /\ Apart /\ Fresh /\ Divided /\ Accounted /\ Older

-----------------------------------------------------------------------------
\* A non-empty set of naturals has a least element.
LEMMA LeastNumber ==
    ASSUME NEW T \in SUBSET Nat, T # {}
    PROVE  \E x \in T : \A y \in T : x <= y
<1>1. PICK x \in T : \A y \in T : ~ (<<y, x>> \in OpToRel(<, Nat))
    BY NatLessThanWellFounded, WFMin
<1>2. \A y \in T : ~ (y < x)
    BY <1>1, Zenon DEF OpToRel
<1> QED BY <1>2

\* caslist_pop delivers a number of the list, which is not 0, or 0 if there
\* is none.
LEMMA PoppedIs ==
    ASSUME TypeOK, NEW r \in Regions
    PROVE  /\ left[r] = {} => Popped(r) = 0
           /\ left[r] # {} => Popped(r) \in left[r] /\ Popped(r) # 0
           /\ Popped(r) \in Ids[r] \cup {0}
<1>1. left[r] \subseteq Ids[r] /\ Ids[r] \in SUBSET (Nat \ {0})
    BY IdsAssumption DEF TypeOK, Regions
<1>2. CASE left[r] = {}
    BY <1>2 DEF Popped
<1>3. CASE left[r] # {}
    <2>1. \E x \in left[r] : \A y \in left[r] : x <= y
        BY <1>1, <1>3, LeastNumber
    <2>2. Popped(r) \in left[r]
        BY <1>3, <2>1 DEF Popped
    <2> QED BY <1>1, <1>3, <2>2
<1> QED BY <1>2, <1>3

-----------------------------------------------------------------------------
(* Types, whoever closes when. *)

LEMMA TypeInit == Init => TInv
<1> SUFFICES ASSUME Init PROVE TInv
    OBVIOUS
<1> USE DEF Regions, AllIds
<1>1. cell \in [AllIds -> 0 .. MaxGen] /\ scan \in [AllIds -> 0 .. MaxGen]
    BY MaxAssumption DEF Init
<1>2. gen \in 1 .. MaxGen /\ opened \in 1 .. MaxOpen /\ freed \subseteq Regions
    BY MaxAssumption DEF Init
<1>3. objs \in [Regions -> {NULL, LIST}]
    BY DEF Init
<1>4. /\ left \in [Regions -> SUBSET AllIds]
      /\ \A r \in Regions : left[r] \subseteq Ids[r]
    BY IdsAssumption DEF Init, ObjectsOf
<1>5. rd = [t \in Readers |-> Rest] /\ Rest \in Reader
    BY DEF Init, Rest, Reader, PCs
<1>6. \A t \in Readers : rd[t] = Rest
    BY <1>5
<1>7. \A t \in Readers : rd[t].pos = 0 /\ rd[t].pc = "rest"
    BY <1>6 DEF Rest
<1>8. got \in [AllIds -> Seq(1 .. MaxGen)]
    BY DEF Init, Nothing
<1>9. rd \in [Readers -> Reader] /\ seen \in [Readers -> SUBSET AllIds]
    BY <1>5 DEF Init
<1> QED BY <1>1, <1>2, <1>3, <1>4, <1>7, <1>8, <1>9 DEF TInv, TypeOK, GetsValid

\* What the step of a thread on its own record does to the records.
LEMMA OwnStep ==
    ASSUME TInv, NEW t \in Readers, NEW n \in Reader,
           rd' = [rd EXCEPT ![t] = n],
           n.pos \in Ids[n.region] \cup {0},
           n.pc = "get" => n.pos # 0
    PROVE  /\ rd' \in [Readers -> Reader]
           /\ \A u \in Readers : rd'[u].pos \in Ids[rd'[u].region] \cup {0}
           /\ GetsValid'
<1>1. rd \in [Readers -> Reader]
    BY DEF TInv, TypeOK
<1>2. rd'[t] = n /\ \A u \in Readers \ {t} : rd'[u] = rd[u]
    BY <1>1
<1>3. rd' \in [Readers -> Reader]
    BY <1>1
<1>4. \A u \in Readers : rd'[u].pos \in Ids[rd'[u].region] \cup {0}
    BY <1>2 DEF TInv, TypeOK
<1>5. GetsValid'
    BY <1>2 DEF TInv, GetsValid
<1> QED BY <1>3, <1>4, <1>5

\* The record of a thread after each step of its loop.
LEMMA LoopSteps ==
    ASSUME TypeOK, NEW t \in Readers
    PROVE  /\ IterValid(t) =>
                 rd' = [rd EXCEPT ![t] = [pc |-> IF rd[t].pos # 0 THEN "get" ELSE "close",
                        region |-> rd[t].region, pos |-> rd[t].pos, list |-> rd[t].list]]
           /\ IterGet(t) =>
                 rd' = [rd EXCEPT ![t] = [pc |-> "next",
                        region |-> rd[t].region, pos |-> rd[t].pos, list |-> rd[t].list]]
           /\ IterNext(t) =>
                 rd' = [rd EXCEPT ![t] = [pc |-> "pop",
                        region |-> rd[t].region, pos |-> rd[t].pos, list |-> objs[rd[t].region]]]
           /\ IterPop(t) /\ rd[t].list = NULL =>
                 rd' = [rd EXCEPT ![t] = [pc |-> "valid",
                        region |-> rd[t].region, pos |-> rd[t].pos, list |-> rd[t].list]]
           /\ IterPop(t) /\ rd[t].list # NULL =>
                 rd' = [rd EXCEPT ![t] = [pc |-> "valid",
                        region |-> rd[t].region, pos |-> Popped(rd[t].region), list |-> LIST]]
           /\ IterClose(t) =>
                 rd' = [rd EXCEPT ![t] = [pc |-> "free",
                        region |-> rd[t].region, pos |-> rd[t].pos, list |-> objs[rd[t].region]]]
<1>1. IterValid(t) => rd' = [rd EXCEPT ![t] = [pc |-> IF rd[t].pos # 0 THEN "get" ELSE "close",
                        region |-> rd[t].region, pos |-> rd[t].pos, list |-> rd[t].list]]
    BY DEF IterValid, Goto, Moves
<1>2. IterGet(t) => rd' = [rd EXCEPT ![t] = [pc |-> "next",
                        region |-> rd[t].region, pos |-> rd[t].pos, list |-> rd[t].list]]
    BY DEF IterGet, Goto, Moves
<1>3. IterNext(t) => rd' = [rd EXCEPT ![t] = [pc |-> "pop",
                        region |-> rd[t].region, pos |-> rd[t].pos, list |-> objs[rd[t].region]]]
    BY DEF IterNext, Moves
<1>4. IterPop(t) /\ rd[t].list = NULL => rd' = [rd EXCEPT ![t] = [pc |-> "valid",
                        region |-> rd[t].region, pos |-> rd[t].pos, list |-> rd[t].list]]
    BY DEF IterPop, Goto, Moves
<1>5. IterPop(t) /\ rd[t].list # NULL => rd' = [rd EXCEPT ![t] = [pc |-> "valid",
                        region |-> rd[t].region, pos |-> Popped(rd[t].region), list |-> LIST]]
    BY DEF IterPop, Advance, Moves
<1>6. IterClose(t) => rd' = [rd EXCEPT ![t] = [pc |-> "free",
                        region |-> rd[t].region, pos |-> rd[t].pos, list |-> objs[rd[t].region]]]
    BY DEF IterClose, Moves
<1> QED BY <1>1, <1>2, <1>3, <1>4, <1>5, <1>6

\* Each step keeps the types.
LEMMA TypeStep == TInv /\ [Next]_vars => TInv'
<1> SUFFICES ASSUME TInv, [Next]_vars PROVE TInv'
    OBVIOUS
<1> USE DEF Regions
<1>1. /\ TypeOK /\ GetsValid /\ rd \in [Readers -> Reader]
      /\ \A t \in Readers : /\ rd[t] \in Reader /\ rd[t].pos \in Ids[rd[t].region] \cup {0}
                            /\ rd[t].region \in {0, 1} /\ rd[t].list \in {NULL, LIST}
      /\ \A r \in {0, 1} : objs[r] \in {NULL, LIST} /\ Ids[r] \subseteq AllIds
    BY DEF TInv, TypeOK, Reader, AllIds
<1>2. ASSUME NEW t \in Readers, NEW r \in Regions, IterOpen(t, r) PROVE TInv'
    <2> DEFINE n == [pc |-> "valid", region |-> r, pos |-> Popped(r), list |-> NULL]
    <2>1. n \in Reader /\ n.pos \in Ids[n.region] \cup {0} /\ n.pc = "valid"
        BY <1>1, PoppedIs DEF Reader, PCs
    <2>2. rd' = [rd EXCEPT ![t] = n]
        BY <1>2 DEF IterOpen
    <2>3. /\ rd' \in [Readers -> Reader] /\ GetsValid'
          /\ \A u \in Readers : rd'[u].pos \in Ids[rd'[u].region] \cup {0}
        <3> HIDE DEF n
        <3> QED BY <2>1, <2>2, OwnStep
    <2>4. left' \in [Regions -> SUBSET AllIds] /\ \A q \in Regions : left'[q] \subseteq Ids[q]
        BY <1>1, <1>2 DEF IterOpen, Pop, TypeOK
    <2> QED BY <1>1, <1>2, <2>3, <2>4 DEF IterOpen, TInv, TypeOK
<1>3. ASSUME NEW t \in Readers, IterValid(t) PROVE TInv'
    <2> DEFINE n == [pc |-> IF rd[t].pos # 0 THEN "get" ELSE "close",
                     region |-> rd[t].region, pos |-> rd[t].pos, list |-> rd[t].list]
    <2>1. /\ n \in Reader /\ n.pos \in Ids[n.region] \cup {0}
          /\ n.pc = "get" => n.pos # 0
        BY <1>1 DEF Reader, PCs
    <2>2. rd' = [rd EXCEPT ![t] = n]
        BY <1>1, <1>3, LoopSteps
    <2>3. /\ rd' \in [Readers -> Reader] /\ GetsValid'
          /\ \A u \in Readers : rd'[u].pos \in Ids[rd'[u].region] \cup {0}
        <3> HIDE DEF n
        <3> QED BY <2>1, <2>2, OwnStep
    <2> QED BY <1>1, <1>3, <2>3 DEF IterValid, TInv, TypeOK
<1>4. ASSUME NEW t \in Readers, IterGet(t) PROVE TInv'
    <2> DEFINE n == [pc |-> "next",
                     region |-> rd[t].region, pos |-> rd[t].pos, list |-> rd[t].list]
    <2>1. n \in Reader /\ n.pos \in Ids[n.region] \cup {0} /\ n.pc = "next"
        BY <1>1 DEF Reader, PCs
    <2>2. rd' = [rd EXCEPT ![t] = n]
        BY <1>1, <1>4, LoopSteps
    <2>3. /\ rd' \in [Readers -> Reader] /\ GetsValid'
          /\ \A u \in Readers : rd'[u].pos \in Ids[rd'[u].region] \cup {0}
        <3> HIDE DEF n
        <3> QED BY <2>1, <2>2, OwnStep
    <2>4. rd[t].pos \in AllIds
        BY <1>1, <1>4 DEF IterGet, GetsValid
    <2>5. got' \in [AllIds -> Seq(1 .. MaxGen)]
        <3>1. got \in [AllIds -> Seq(1 .. MaxGen)] /\ cell[rd[t].pos] \in 0 .. MaxGen /\ MaxGen \in Nat
            BY <1>1, <2>4, MaxAssumption DEF TypeOK
        <3>2. CASE cell[rd[t].pos] = 0
            BY <1>4, <3>1, <3>2 DEF IterGet
        <3>3. CASE cell[rd[t].pos] # 0
            <4>1. cell[rd[t].pos] \in 1 .. MaxGen
                BY <3>1, <3>3
            <4>2. Append(got[rd[t].pos], cell[rd[t].pos]) \in Seq(1 .. MaxGen)
                BY <2>4, <3>1, <4>1
            <4>3. got' = [got EXCEPT ![rd[t].pos] = Append(got[rd[t].pos], cell[rd[t].pos])]
                BY <1>4, <3>3 DEF IterGet
            <4> QED BY <3>1, <4>2, <4>3
        <3> QED BY <3>2, <3>3
    <2>6. seen' \in [Readers -> SUBSET AllIds]
        <3>1. seen \in [Readers -> SUBSET AllIds]
            BY <1>1 DEF TypeOK
        <3>2. seen' = seen \/ seen' = [seen EXCEPT ![t] = @ \cup {rd[t].pos}]
            BY <1>4 DEF IterGet
        <3> QED BY <2>4, <3>1, <3>2
    <2> QED BY <1>1, <1>4, <2>3, <2>5, <2>6 DEF IterGet, TInv, TypeOK
<1>5. ASSUME NEW t \in Readers, IterNext(t) PROVE TInv'
    <2> DEFINE n == [pc |-> "pop", region |-> rd[t].region,
                     pos |-> rd[t].pos, list |-> objs[rd[t].region]]
    <2>1. n \in Reader /\ n.pos \in Ids[n.region] \cup {0} /\ n.pc = "pop"
        BY <1>1 DEF Reader, PCs
    <2>2. rd' = [rd EXCEPT ![t] = n]
        BY <1>1, <1>5, LoopSteps
    <2>3. /\ rd' \in [Readers -> Reader] /\ GetsValid'
          /\ \A u \in Readers : rd'[u].pos \in Ids[rd'[u].region] \cup {0}
        <3> HIDE DEF n
        <3> QED BY <2>1, <2>2, OwnStep
    <2> QED BY <1>1, <1>5, <2>3 DEF IterNext, TInv, TypeOK
<1>6. ASSUME NEW t \in Readers, IterPop(t) PROVE TInv'
    <2> DEFINE n == [pc |-> "valid", region |-> rd[t].region,
                     pos |-> IF rd[t].list = NULL THEN rd[t].pos ELSE Popped(rd[t].region),
                     list |-> IF rd[t].list = NULL THEN rd[t].list ELSE LIST]
    <2>1. n \in Reader /\ n.pos \in Ids[n.region] \cup {0} /\ n.pc = "valid"
        BY <1>1, PoppedIs DEF Reader, PCs
    <2>2. rd' = [rd EXCEPT ![t] = n]
        BY <1>1, <1>6, LoopSteps
    <2>3. /\ rd' \in [Readers -> Reader] /\ GetsValid'
          /\ \A u \in Readers : rd'[u].pos \in Ids[rd'[u].region] \cup {0}
        <3> HIDE DEF n
        <3> QED BY <2>1, <2>2, OwnStep
    <2>4. left' \in [Regions -> SUBSET AllIds] /\ \A q \in Regions : left'[q] \subseteq Ids[q]
        <3>1. CASE rd[t].list = NULL
            BY <1>1, <1>6, <3>1 DEF IterPop, TypeOK
        <3>2. CASE rd[t].list # NULL
            <4>1. Pop(rd[t].region)
                BY <1>6, <3>2 DEF IterPop
            <4> QED BY <1>1, <4>1 DEF Pop, TypeOK
        <3> QED BY <3>1, <3>2
    <2> QED BY <1>1, <1>6, <2>3, <2>4 DEF IterPop, TInv, TypeOK
<1>7. ASSUME NEW t \in Readers, IterClose(t) PROVE TInv'
    <2> DEFINE n == [pc |-> "free", region |-> rd[t].region,
                     pos |-> rd[t].pos, list |-> objs[rd[t].region]]
    <2>1. n \in Reader /\ n.pos \in Ids[n.region] \cup {0} /\ n.pc = "free"
        BY <1>1 DEF Reader, PCs
    <2>2. rd' = [rd EXCEPT ![t] = n]
        BY <1>1, <1>7, LoopSteps
    <2>3. /\ rd' \in [Readers -> Reader] /\ GetsValid'
          /\ \A u \in Readers : rd'[u].pos \in Ids[rd'[u].region] \cup {0}
        <3> HIDE DEF n
        <3> QED BY <2>1, <2>2, OwnStep
    <2> QED BY <1>1, <1>7, <2>3 DEF IterClose, TInv, TypeOK
<1>8. ASSUME NEW t \in Readers, IterFree(t) PROVE TInv'
    <2>1. Rest \in Reader /\ Rest.pos \in Ids[Rest.region] \cup {0} /\ Rest.pc = "rest"
        BY DEF Reader, PCs, Rest
    <2>2. rd' = [rd EXCEPT ![t] = Rest]
        BY <1>8 DEF IterFree
    <2>3. /\ rd' \in [Readers -> Reader] /\ GetsValid'
          /\ \A u \in Readers : rd'[u].pos \in Ids[rd'[u].region] \cup {0}
        BY <2>1, <2>2, OwnStep
    <2>4. objs' \in [Regions -> {NULL, LIST}] /\ freed' \subseteq Regions
        BY <1>1, <1>8 DEF IterFree, TypeOK
    <2> QED BY <1>1, <1>8, <2>3, <2>4 DEF IterFree, TInv, TypeOK
<1>9. ASSUME NEW id \in AllIds, Remove(id) PROVE TInv'
    <2>1. cell' \in [AllIds -> 0 .. MaxGen]
        BY <1>1, <1>9, MaxAssumption DEF Remove, TypeOK
    <2> QED BY <1>1, <1>9, <2>1 DEF Remove, TInv, TypeOK, GetsValid
<1>10. ASSUME NEW id \in AllIds, Write(id) PROVE TInv'
    <2>1. cell' \in [AllIds -> 0 .. MaxGen] /\ gen' \in 1 .. MaxGen
        BY <1>1, <1>10, MaxAssumption DEF Write, TypeOK
    <2> QED BY <1>1, <1>10, <2>1 DEF Write, TInv, TypeOK, GetsValid
<1>11. CASE OpenAgain
    <2>1. objs' \in [Regions -> {NULL, LIST}] /\ freed' \subseteq Regions
        BY <1>11 DEF OpenAgain
    <2>2. left' \in [Regions -> SUBSET AllIds] /\ \A q \in Regions : left'[q] \subseteq Ids[q]
        BY <1>1, <1>11 DEF OpenAgain, ObjectsOf
    <2>3. opened' \in 1 .. MaxOpen /\ scan' \in [AllIds -> 0 .. MaxGen]
        BY <1>1, <1>11, MaxAssumption DEF OpenAgain, TypeOK
    <2>4. got' \in [AllIds -> Seq(1 .. MaxGen)]
        BY <1>11 DEF OpenAgain, Nothing
    <2> QED BY <1>1, <1>11, <2>1, <2>2, <2>3, <2>4 DEF OpenAgain, TInv, TypeOK, GetsValid
<1>12. CASE UNCHANGED vars
    BY <1>1, <1>12 DEF vars, TInv, TypeOK, GetsValid
<1> QED
    BY <1>2, <1>3, <1>4, <1>5, <1>6, <1>7, <1>8, <1>9, <1>10, <1>11, <1>12 DEF Next

\* pmb_iter_*: types, and that an iterator stays in its region, for every
\* number of threads, also when they close while others iterate.
THEOREM IterType == Spec => []TypeOK
<1>1. TInv => TypeOK
    BY DEF TInv
<1> QED BY <1>1, TypeInit, TypeStep, PTL DEF Spec

-----------------------------------------------------------------------------
(* What the iterators deliver, if nobody closes while another one iterates. *)

\* What one thread sees of the invariant: its own record, its region.
LEMMA Views ==
    ASSUME TypeOK
    PROVE  /\ rd \in [Readers -> Reader]
           /\ \A t \in Readers : rd[t].region \in {0, 1} /\ rd[t].pos \in Ids[rd[t].region] \cup {0}
           /\ \A r \in {0, 1} : left[r] \subseteq Ids[r] /\ left[r] \subseteq AllIds
           /\ \A t \in Readers, r \in {0, 1} : rd[t].pos # 0 /\ rd[t].pos \in Ids[r] => rd[t].region = r
           /\ \A t \in Readers : rd[t].pos # 0 => rd[t].pos \in AllIds
           /\ NULL # LIST /\ 0 \notin AllIds
<1>1. rd \in [Readers -> Reader] /\ \A t \in Readers : rd[t] \in Reader
    BY DEF TypeOK
<1>2. \A t \in Readers : rd[t].region \in {0, 1} /\ rd[t].pos \in Ids[rd[t].region] \cup {0}
    BY <1>1 DEF TypeOK, Reader, Regions
<1>3. \A r \in {0, 1} : left[r] \subseteq Ids[r] /\ left[r] \subseteq AllIds
    BY DEF TypeOK, Regions, AllIds
<1>4. Ids[0] \cap Ids[1] = {} /\ Ids[0] \subseteq Nat \ {0} /\ Ids[1] \subseteq Nat \ {0}
    BY IdsAssumption
<1>5. \A t \in Readers, r \in {0, 1} : rd[t].pos # 0 /\ rd[t].pos \in Ids[r] => rd[t].region = r
    BY <1>2, <1>4
<1>6. \A t \in Readers : rd[t].pos # 0 => rd[t].pos \in AllIds
    BY <1>2 DEF AllIds
<1>7. NULL # LIST /\ 0 \notin AllIds
    BY <1>4 DEF NULL, LIST, AllIds
<1> QED BY <1>1, <1>2, <1>3, <1>5, <1>6, <1>7

LEMMA InvInit == Init => IInv
<1> SUFFICES ASSUME Init PROVE IInv
    OBVIOUS
<1>1. TInv
    BY TypeInit
<1>2. \A t \in Readers : rd[t] = Rest
    BY DEF Init
<1>3. \A t \in Readers : rd[t].pc = "rest" /\ rd[t].pos = 0
    BY <1>2 DEF Rest
<1>4. freed = {} /\ \A id \in AllIds : got[id] = <<>>
    BY DEF Init, Nothing
<1>5. ListKept /\ ClosesAlone /\ EndsEmpty /\ Apart
    BY <1>3, <1>4 DEF ListKept, ClosesAlone, EndsEmpty, Apart, Busy
<1>6. Fresh
    BY <1>1, <1>3, <1>4, Views DEF Fresh, TInv, Regions
<1>7. Divided
    BY <1>4 DEF Divided
<1>8. Accounted
    BY DEF Init, Accounted, ObjectsOf, Regions
<1>9. Older
    BY DEF Init, Older
<1> QED BY <1>1, <1>5, <1>6, <1>7, <1>8, <1>9 DEF IInv

\* pmb_iter_open takes a number that no other thread has.
LEMMA OpenStep ==
    ASSUME IInv, TInv', NEW t \in Readers, NEW r \in Regions, IterOpen(t, r)
    PROVE  IInv'
<1> USE DEF Regions
<1>1. TypeOK /\ ListKept /\ ClosesAlone /\ EndsEmpty /\ Apart /\ Fresh /\ Divided /\ Accounted /\ Older
    BY DEF IInv, TInv
<1>2. /\ rd'[t].pc = "valid" /\ rd'[t].region = r
      /\ rd'[t].pos = Popped(r) /\ rd'[t].list = NULL
      /\ \A u \in Readers \ {t} : rd'[u] = rd[u]
    BY <1>1, Views DEF IterOpen
<1>3. /\ rd[t].pc = "rest" /\ rd[t].pos = 0 /\ objs[r] = LIST /\ left[r] # {}
      /\ UNCHANGED <<cell, gen, objs, freed, scan, got>>
    BY DEF IterOpen, Rest
<1>4. Popped(r) \in left[r] /\ Popped(r) # 0
    BY <1>1, <1>3, PoppedIs
<1>5. left'[r] = left[r] \ {Popped(r)} /\ \A q \in Regions \ {r} : left'[q] = left[q]
    BY <1>1 DEF IterOpen, Pop, TypeOK
<1>6. ListKept'
    <2>1. r \notin freed
        BY <1>1, <1>3, Views DEF ListKept
    <2>2. \A q \in freed : left'[q] = {}
        BY <1>1, <1>5, <2>1 DEF ListKept, TypeOK
    <2> QED BY <1>1, <1>2, <1>3, <2>2 DEF ListKept, Busy
<1>7. ClosesAlone'
    <2>1. \A u \in Readers \ {t} : rd[u].pc = "free" => rd[u].region # r
        BY <1>1, <1>3 DEF EndsEmpty
    <2> QED BY <1>1, <1>2, <1>3, <2>1 DEF ClosesAlone
<1>8. EndsEmpty'
    <2>1. \A q \in {0, 1} : left[q] = {} => left'[q] = {}
        BY <1>3, <1>5
    <2> QED BY <1>1, <1>2, <1>4, <2>1, Views DEF EndsEmpty
<1>9. Apart'
    <2>1. \A q \in {0, 1} : left'[q] \subseteq left[q]
        BY <1>5
    <2>2. \A u \in Readers \ {t} : rd[u].pos # 0 => rd[u].pos # Popped(r)
        BY <1>1, <1>4, Views DEF Apart
    <2> QED BY <1>1, <1>2, <1>4, <1>5, <2>1, <2>2, Views DEF Apart
<1>10. Fresh'
    <2>1. \A q \in {0, 1} : left'[q] \subseteq left[q]
        BY <1>5
    <2> QED BY <1>1, <1>2, <1>3, <1>4, <2>1 DEF Fresh
<1>11. Divided' /\ Older'
    BY <1>1, <1>3 DEF Divided, Older
<1>12. Accounted'
    BY <1>1, <1>2, <1>3, <1>5 DEF Accounted
<1> QED BY <1>6, <1>7, <1>8, <1>9, <1>10, <1>11, <1>12 DEF IInv

\* pmb_iter_valid: a loop ends on 0, and then the list is empty.
LEMMA ValidStep ==
    ASSUME IInv, TInv', NEW t \in Readers, IterValid(t)
    PROVE  IInv'
<1> USE DEF Regions
<1>1. TypeOK /\ ListKept /\ ClosesAlone /\ EndsEmpty /\ Apart /\ Fresh /\ Divided /\ Accounted /\ Older
    BY DEF IInv, TInv
<1>2. /\ rd[t].pc = "valid" /\ rd'[t].pc = IF rd[t].pos # 0 THEN "get" ELSE "close"
      /\ rd'[t].region = rd[t].region /\ rd'[t].pos = rd[t].pos
      /\ \A u \in Readers \ {t} : rd'[u] = rd[u]
      /\ UNCHANGED <<cell, gen, objs, left, freed, scan, got>>
    BY <1>1, Views, LoopSteps DEF IterValid
<1>3. ListKept'
    BY <1>1, <1>2 DEF ListKept, Busy
<1>4. ClosesAlone'
    BY <1>1, <1>2 DEF ClosesAlone
<1>5. EndsEmpty'
    BY <1>1, <1>2 DEF EndsEmpty
<1>6. Apart'
    BY <1>1, <1>2 DEF Apart
<1>7. Fresh'
    BY <1>1, <1>2 DEF Fresh
<1>8. Divided' /\ Older'
    BY <1>1, <1>2 DEF Divided, Older
<1>9. Accounted'
    <2> SUFFICES ASSUME NEW r \in Regions, NEW id \in Ids[r], scan[id] # 0, cell[id] = scan[id],
                        id \notin left[r], got[id] # <<scan[id]>>
                 PROVE  \E u \in Readers : rd'[u].pc \in {"valid", "get"} /\ rd'[u].pos = id
        BY <1>2 DEF Accounted
    <2>1. PICK u \in Readers : rd[u].pc \in {"valid", "get"} /\ rd[u].pos = id
        BY <1>1 DEF Accounted
    <2>2. id # 0
        BY IdsAssumption
    <2>3. rd'[u].pc \in {"valid", "get"} /\ rd'[u].pos = id
        BY <1>2, <2>1, <2>2
    <2> QED BY <2>3
<1> QED BY <1>3, <1>4, <1>5, <1>6, <1>7, <1>8, <1>9 DEF IInv

\* pmb_iter_get returns the object of the number, once.
LEMMA GetStep ==
    ASSUME IInv, TInv', NEW t \in Readers, IterGet(t)
    PROVE  IInv'
<1> USE DEF Regions
<1>1. TypeOK /\ ListKept /\ ClosesAlone /\ EndsEmpty /\ Apart /\ Fresh /\ Divided /\ Accounted /\ Older
    BY DEF IInv, TInv
<1> DEFINE p == rd[t].pos
<1>2. /\ rd[t].pc = "get" /\ rd'[t].pc = "next"
      /\ rd'[t].region = rd[t].region /\ rd'[t].pos = p
      /\ \A u \in Readers \ {t} : rd'[u] = rd[u]
      /\ UNCHANGED <<cell, gen, objs, left, freed, scan>>
    <2>1. rd' = [rd EXCEPT ![t] = [pc |-> "next",
                 region |-> rd[t].region, pos |-> rd[t].pos, list |-> rd[t].list]]
        BY <1>1, LoopSteps
    <2>2. rd[t].pc = "get" /\ UNCHANGED <<cell, gen, objs, left, freed, scan>>
        BY DEF IterGet
    <2> QED BY <1>1, <2>1, <2>2, Views
<1>3. p # 0 /\ p \in AllIds /\ got[p] = <<>>
    <2>1. p # 0
        BY <1>2 DEF IInv, TInv, GetsValid
    <2> QED BY <1>1, <1>2, <2>1, Views DEF Fresh
<1>4. /\ \A id \in AllIds \ {p} : got'[id] = got[id]
      /\ cell[p] = 0 => got'[p] = <<>>
      /\ cell[p] # 0 => got'[p] = <<cell[p]>>
    <2>1. CASE cell[p] = 0
        BY <1>3, <2>1 DEF IterGet
    <2>2. CASE cell[p] # 0
        <3>1. got' = [got EXCEPT ![p] = Append(got[p], cell[p])]
            BY <2>2 DEF IterGet
        <3>2. DOMAIN got = AllIds
            BY <1>1 DEF TypeOK
        <3>3. Append(<<>>, cell[p]) = <<cell[p]>>
            OBVIOUS
        <3> QED BY <1>3, <2>2, <3>1, <3>2, <3>3
    <2> QED BY <2>1, <2>2
<1> HIDE DEF p
<1>5. ListKept'
    BY <1>1, <1>2 DEF ListKept, Busy
<1>6. ClosesAlone'
    BY <1>1, <1>2 DEF ClosesAlone
<1>7. EndsEmpty'
    BY <1>1, <1>2 DEF EndsEmpty, p
<1>8. Apart'
    BY <1>1, <1>2 DEF Apart, p
<1>9. Fresh'
    <2>1. \A u \in Readers \ {t} : rd[u].pos # p
        BY <1>1, <1>3 DEF Apart, p
    <2>2. \A u \in Readers \ {t} : rd[u].pos # 0 => got'[rd[u].pos] = got[rd[u].pos]
        BY <1>1, <1>4, <2>1, Views
    <2>3. \A r \in {0, 1} : \A id \in left[r] : id # p
        BY <1>1, <1>3, Views DEF Apart, p
    <2>4. \A r \in {0, 1} : \A id \in left[r] : got'[id] = got[id]
        BY <1>1, <1>4, <2>3, Views
    <2>5. \A u \in Readers : rd'[u].pc \in {"valid", "get"} /\ rd'[u].pos # 0 => got'[rd'[u].pos] = <<>>
        BY <1>1, <1>2, <2>2 DEF Fresh
    <2>6. \A r \in {0, 1} : \A id \in left'[r] : got'[id] = <<>>
        BY <1>1, <1>2, <2>4 DEF Fresh
    <2> QED BY <2>5, <2>6 DEF Fresh
<1>10. Divided'
    <2>1. Len(<<>>) <= 1 /\ Len(<<cell[p]>>) <= 1
        OBVIOUS
    <2> QED BY <1>1, <1>4, <2>1 DEF Divided
<1>11. Older'
    BY <1>1, <1>2 DEF Older
<1>12. Accounted'
    <2> SUFFICES ASSUME NEW r \in Regions, NEW id \in Ids[r], scan[id] # 0, cell[id] = scan[id],
                        id \notin left[r]
                 PROVE  \/ \E u \in Readers : rd'[u].pc \in {"valid", "get"} /\ rd'[u].pos = id
                        \/ got'[id] = <<scan[id]>>
        BY <1>2 DEF Accounted
    <2>1. CASE id = p
        BY <1>4, <2>1
    <2>2. CASE id # p
        <3>1. got'[id] = got[id]
            BY <1>4, <2>2 DEF AllIds
        <3>2. CASE got[id] = <<scan[id]>>
            BY <3>1, <3>2
        <3>3. CASE got[id] # <<scan[id]>>
            <4>1. PICK u \in Readers : rd[u].pc \in {"valid", "get"} /\ rd[u].pos = id
                BY <1>1, <3>3 DEF Accounted
            <4>2. rd'[u].pc \in {"valid", "get"} /\ rd'[u].pos = id
                BY <1>2, <2>2, <4>1 DEF p
            <4> QED BY <4>2
        <3> QED BY <3>2, <3>3
    <2> QED BY <2>1, <2>2
<1> QED BY <1>5, <1>6, <1>7, <1>8, <1>9, <1>10, <1>11, <1>12 DEF IInv

\* pmb_iter_next finds the list: nobody has freed it.
LEMMA NextStep ==
    ASSUME IInv, TInv', NEW t \in Readers, IterNext(t)
    PROVE  IInv'
<1> USE DEF Regions
<1>1. TypeOK /\ ListKept /\ ClosesAlone /\ EndsEmpty /\ Apart /\ Fresh /\ Divided /\ Accounted /\ Older
    BY DEF IInv, TInv
<1>2. /\ rd[t].pc = "next" /\ rd'[t].pc = "pop" /\ rd'[t].list = objs[rd[t].region]
      /\ rd'[t].region = rd[t].region /\ rd'[t].pos = rd[t].pos
      /\ \A u \in Readers \ {t} : rd'[u] = rd[u]
      /\ UNCHANGED <<cell, gen, objs, left, freed, scan, got>>
    BY <1>1, Views, LoopSteps DEF IterNext
<1>3. ListKept'
    BY <1>1, <1>2 DEF ListKept, Busy
<1>4. ClosesAlone'
    BY <1>1, <1>2 DEF ClosesAlone
<1>5. EndsEmpty'
    BY <1>1, <1>2 DEF EndsEmpty
<1>6. Apart'
    BY <1>1, <1>2 DEF Apart
<1>7. Fresh'
    BY <1>1, <1>2 DEF Fresh
<1>8. Divided' /\ Older'
    BY <1>1, <1>2 DEF Divided, Older
<1>9. Accounted'
    BY <1>1, <1>2 DEF Accounted
<1> QED BY <1>3, <1>4, <1>5, <1>6, <1>7, <1>8, <1>9 DEF IInv

\* ... and pops it.
LEMMA PopStep ==
    ASSUME IInv, TInv', NEW t \in Readers, IterPop(t)
    PROVE  IInv'
<1> USE DEF Regions
<1> DEFINE r == rd[t].region
<1>1. TypeOK /\ ListKept /\ ClosesAlone /\ EndsEmpty /\ Apart /\ Fresh /\ Divided /\ Accounted /\ Older
    BY DEF IInv, TInv
<1>2. rd[t].pc = "pop" /\ rd[t].list = LIST /\ rd[t].list # NULL /\ r \in {0, 1}
    BY <1>1, Views DEF IterPop, ListKept
<1>3. /\ rd'[t].pc = "valid" /\ rd'[t].region = r /\ rd'[t].pos = Popped(r)
      /\ \A u \in Readers \ {t} : rd'[u] = rd[u]
    BY <1>1, <1>2, Views, LoopSteps
<1>4. UNCHANGED <<cell, gen, objs, freed, scan, got>>
    BY DEF IterPop
<1>5. left'[r] = left[r] \ {Popped(r)} /\ \A q \in {0, 1} \ {r} : left'[q] = left[q]
    <2>1. Pop(r)
        BY <1>2 DEF IterPop
    <2> QED BY <1>1, <1>2, <2>1 DEF Pop, TypeOK
<1>6. /\ left[r] = {} => Popped(r) = 0
      /\ left[r] # {} => Popped(r) \in left[r] /\ Popped(r) # 0
    BY <1>1, <1>2, PoppedIs
<1> HIDE DEF r
<1>7. \A q \in {0, 1} : left'[q] \subseteq left[q]
    BY <1>5
<1>8. ListKept'
    <2>1. objs[r] = LIST
        BY <1>1, <1>2 DEF ListKept, Busy, r
    <2>2. \A q \in freed : left'[q] = {}
        BY <1>1, <1>7 DEF ListKept, TypeOK
    <2> QED BY <1>1, <1>3, <1>4, <2>1, <2>2 DEF ListKept, Busy
<1>9. ClosesAlone'
    BY <1>1, <1>2, <1>3, <1>4 DEF ClosesAlone, r
<1>10. EndsEmpty'
    <2>1. \A q \in {0, 1} : left[q] = {} => left'[q] = {}
        BY <1>7
    <2>2. Popped(r) = 0 => left'[r] = {}
        BY <1>2, <1>6, <2>1
    <2> QED BY <1>1, <1>3, <2>1, <2>2, Views DEF EndsEmpty
<1>11. Apart'
    <2>1. \A u \in Readers \ {t} : rd[u].pos # 0 => rd[u].pos # Popped(r)
        BY <1>1, <1>2, <1>6, Views DEF Apart
    <2> QED BY <1>1, <1>2, <1>3, <1>5, <1>7, <2>1, Views DEF Apart
<1>12. Fresh'
    BY <1>1, <1>2, <1>3, <1>4, <1>6, <1>7 DEF Fresh
<1>13. Divided' /\ Older'
    BY <1>1, <1>4 DEF Divided, Older
<1>14. Accounted'
    <2> SUFFICES ASSUME NEW q \in Regions, NEW id \in Ids[q], scan[id] # 0, cell[id] = scan[id],
                        id \notin left'[q], got[id] # <<scan[id]>>
                 PROVE  \E u \in Readers : rd'[u].pc \in {"valid", "get"} /\ rd'[u].pos = id
        BY <1>4 DEF Accounted
    <2>1. CASE id \in left[q]
        <3>1. q = r /\ id = Popped(r)
            BY <1>5, <2>1
        <3> QED BY <1>3, <3>1
    <2>2. CASE id \notin left[q]
        <3>1. PICK u \in Readers : rd[u].pc \in {"valid", "get"} /\ rd[u].pos = id
            BY <1>1, <2>2 DEF Accounted
        <3>2. rd'[u] = rd[u]
            BY <1>2, <1>3, <3>1
        <3> QED BY <3>1, <3>2
    <2> QED BY <2>1, <2>2
<1> QED BY <1>8, <1>9, <1>10, <1>11, <1>12, <1>13, <1>14 DEF IInv

\* pmb_iter_close begins when no other thread is in its loop.
LEMMA CloseStep ==
    ASSUME Together = FALSE, IInv, TInv', NEW t \in Readers, IterClose(t)
    PROVE  IInv'
<1> USE DEF Regions
<1>1. TypeOK /\ ListKept /\ ClosesAlone /\ EndsEmpty /\ Apart /\ Fresh /\ Divided /\ Accounted /\ Older
    BY DEF IInv, TInv
<1>2. /\ rd[t].pc = "close" /\ rd'[t].pc = "free" /\ rd'[t].list = objs[rd[t].region]
      /\ rd'[t].region = rd[t].region /\ rd'[t].pos = rd[t].pos
      /\ \A u \in Readers \ {t} : rd'[u] = rd[u]
      /\ UNCHANGED <<cell, gen, objs, left, freed, scan, got>>
    BY <1>1, Views, LoopSteps DEF IterClose
<1>3. \A u \in Readers \ {t} : rd[u].pc \in {"rest", "close"} \/ rd[u].region # rd[t].region
    BY DEF IterClose, MayClose
<1>4. ListKept'
    BY <1>1, <1>2 DEF ListKept, Busy
<1>5. ClosesAlone'
    BY <1>1, <1>2, <1>3 DEF ClosesAlone
<1>6. EndsEmpty'
    BY <1>1, <1>2 DEF EndsEmpty
<1>7. Apart'
    BY <1>1, <1>2 DEF Apart
<1>8. Fresh'
    BY <1>1, <1>2 DEF Fresh
<1>9. Divided' /\ Older'
    BY <1>1, <1>2 DEF Divided, Older
<1>10. Accounted'
    BY <1>1, <1>2 DEF Accounted
<1> QED BY <1>4, <1>5, <1>6, <1>7, <1>8, <1>9, <1>10 DEF IInv

\* ... and frees an empty list that no other thread is about to use.
LEMMA FreeStep ==
    ASSUME IInv, TInv', NEW t \in Readers, IterFree(t)
    PROVE  IInv'
<1> USE DEF Regions
<1> DEFINE r == rd[t].region
<1>1. TypeOK /\ ListKept /\ ClosesAlone /\ EndsEmpty /\ Apart /\ Fresh /\ Divided /\ Accounted /\ Older
    BY DEF IInv, TInv
<1>2. /\ rd[t].pc = "free" /\ r \in {0, 1} /\ rd[t].pos = 0 /\ left[r] = {}
      /\ \A u \in Readers \ {t} : rd[u].pc \in {"rest", "close"} \/ rd[u].region # r
    BY <1>1, Views DEF IterFree, EndsEmpty, ClosesAlone
<1>3. /\ rd'[t].pc = "rest" /\ rd'[t].pos = 0
      /\ \A u \in Readers \ {t} : rd'[u] = rd[u]
    BY <1>1, Views DEF IterFree, Rest
<1>4. /\ UNCHANGED <<cell, gen, left, scan, got>> /\ freed' \subseteq freed \cup {r}
      /\ objs'[r] = NULL /\ \A q \in {0, 1} \ {r} : objs'[q] = objs[q]
    BY <1>1, <1>2 DEF IterFree, TypeOK
<1> HIDE DEF r
<1>5. ListKept'
    <2>1. \A u \in Readers \ {t} : rd[u].pc \in Busy => objs'[rd[u].region] = LIST
        BY <1>1, <1>2, <1>4, Views DEF ListKept, Busy
    <2>2. \A q \in freed' : objs'[q] = NULL /\ left'[q] = {}
        BY <1>1, <1>2, <1>4 DEF ListKept, TypeOK
    <2> QED BY <1>1, <1>3, <2>1, <2>2 DEF ListKept, Busy
<1>6. ClosesAlone'
    <2>1. \A u \in Readers \ {t} : rd[u].pc = "free" => objs'[rd[u].region] = objs[rd[u].region]
        BY <1>1, <1>2, <1>4, Views
    <2> QED BY <1>1, <1>3, <2>1 DEF ClosesAlone
<1>7. EndsEmpty'
    BY <1>1, <1>3, <1>4 DEF EndsEmpty
<1>8. Apart'
    BY <1>1, <1>3, <1>4 DEF Apart
<1>9. Fresh'
    BY <1>1, <1>3, <1>4 DEF Fresh
<1>10. Divided' /\ Older'
    BY <1>1, <1>4 DEF Divided, Older
<1>11. Accounted'
    <2>1. \A u \in Readers : rd[u].pc \in {"valid", "get"} => rd'[u] = rd[u]
        BY <1>2, <1>3
    <2> QED BY <1>1, <1>4, <2>1 DEF Accounted
<1> QED BY <1>5, <1>6, <1>7, <1>8, <1>9, <1>10, <1>11 DEF IInv

\* A removal, or a write of a new object, changes no object of the scan into
\* another one of it.
LEMMA TxStep ==
    ASSUME IInv, TInv', NEW id \in AllIds, Remove(id) \/ Write(id)
    PROVE  IInv'
<1>1. TypeOK /\ ListKept /\ ClosesAlone /\ EndsEmpty /\ Apart /\ Fresh /\ Divided /\ Accounted /\ Older
    BY DEF IInv, TInv
<1>2. UNCHANGED <<objs, left, freed, rd, scan, got>>
    BY DEF Remove, Write
<1>3. gen \in Nat /\ \A x \in AllIds : cell[x] \in Nat /\ scan[x] \in Nat
    BY <1>1, MaxAssumption DEF TypeOK
<1>4. /\ \A x \in AllIds \ {id} : cell'[x] = cell[x]
      /\ gen' \in {gen, gen + 1}
      /\ \/ cell'[id] = 0
         \/ gen' = gen + 1 /\ cell'[id] = gen'
    BY <1>1 DEF Remove, Write, TypeOK
<1>5. ListKept' /\ ClosesAlone' /\ EndsEmpty'
    BY <1>1, <1>2 DEF ListKept, ClosesAlone, EndsEmpty
<1>6. Apart' /\ Fresh' /\ Divided'
    BY <1>1, <1>2 DEF Apart, Fresh, Divided
<1>7. Older'
    <2>1. \A x \in AllIds : cell[x] <= gen' /\ scan[x] <= gen'
        BY <1>1, <1>3, <1>4 DEF Older
    <2>2. cell'[id] <= gen'
        BY <1>3, <1>4
    <2> QED BY <1>2, <1>4, <2>1, <2>2 DEF Older
<1>8. Accounted'
    <2>1. scan[id] # 0 => cell'[id] # scan[id]
        BY <1>1, <1>3, <1>4 DEF Older
    <2>2. \A r \in Regions : \A x \in Ids[r] : x \in AllIds
        BY DEF Regions, AllIds
    <2>3. \A r \in Regions : \A x \in Ids[r] :
              scan[x] # 0 /\ cell'[x] = scan[x] => cell[x] = scan[x]
        BY <1>4, <2>1, <2>2
    <2> QED BY <1>1, <1>2, <2>3 DEF Accounted
<1> QED BY <1>5, <1>6, <1>7, <1>8 DEF IInv

\* pmb_open scans again what is there.
LEMMA AgainStep ==
    ASSUME IInv, TInv', OpenAgain
    PROVE  IInv'
<1>1. TypeOK /\ Older
    BY DEF IInv, TInv
<1>2. \A t \in Readers : rd'[t] = Rest
    BY DEF OpenAgain
<1>3. \A t \in Readers : rd'[t].pc = "rest" /\ rd'[t].pos = 0
    BY <1>2 DEF Rest
<1>4. freed' = {} /\ \A id \in AllIds : got'[id] = <<>>
    BY DEF OpenAgain, Nothing
<1>5. ListKept' /\ ClosesAlone' /\ EndsEmpty' /\ Apart'
    BY <1>3, <1>4 DEF ListKept, ClosesAlone, EndsEmpty, Apart, Busy
<1>6. Fresh'
    <2>1. \A r \in Regions : \A id \in left'[r] : id \in AllIds
        BY DEF TInv, TypeOK
    <2> QED BY <1>3, <1>4, <2>1 DEF Fresh
<1>7. Divided'
    BY <1>4 DEF Divided
<1>8. Accounted'
    BY DEF OpenAgain, Accounted, ObjectsOf, Regions
<1>9. Older'
    BY <1>1 DEF OpenAgain, Older
<1> QED BY <1>5, <1>6, <1>7, <1>8, <1>9 DEF IInv

-----------------------------------------------------------------------------
LEMMA InvStep ==
    ASSUME Together = FALSE, IInv, [Next]_vars
    PROVE  IInv'
<1>1. TInv'
    BY TypeStep DEF IInv
<1>2. CASE UNCHANGED vars
    BY <1>1, <1>2 DEF vars, IInv, ListKept, ClosesAlone, EndsEmpty, Apart, Fresh,
                      Divided, Accounted, Older
<1>3. CASE Next
    BY <1>1, <1>3, OpenStep, ValidStep, GetStep, NextStep, PopStep, CloseStep, FreeStep,
       TxStep, AgainStep DEF Next
<1> QED BY <1>2, <1>3

\* The inductive invariant, for threads that agree when to close.
THEOREM IterInvariant == Together = FALSE => (Spec => []IInv)
<1> SUFFICES ASSUME Together = FALSE PROVE Spec => []IInv
    OBVIOUS
<1>1. Init => IInv
    BY InvInit
<1>2. IInv /\ [Next]_vars => IInv'
    BY InvStep
<1> QED BY <1>1, <1>2, PTL DEF Spec

\* pmb_iter_next and pmb_iter_close of agreeing threads never use a list that
\* pmb_iter_close has freed.
THEOREM IterNoDangling == Together = FALSE => (Spec => []NoDangling)
<1> SUFFICES ASSUME Together = FALSE PROVE Spec => []NoDangling
    OBVIOUS
<1>1. IInv => NoDangling
    <2> SUFFICES ASSUME IInv, NEW t \in Readers, rd[t].pc \in {"pop", "free"},
                        rd[t].list = LIST, rd[t].region \in freed
                 PROVE  FALSE
        BY DEF NoDangling
    <2>1. objs[rd[t].region] = LIST
        BY DEF IInv, ListKept, ClosesAlone, Busy
    <2>2. objs[rd[t].region] = NULL
        BY DEF IInv, ListKept
    <2> QED BY <2>1, <2>2 DEF NULL, LIST
<1>2. Spec => []IInv
    BY IterInvariant
<1> QED BY <1>1, <1>2, PTL

\* When a region's list was closed, pmb_iter_get has returned every object
\* of the scan that was not changed since.
THEOREM IterAllReturned == Together = FALSE => (Spec => []AllReturned)
<1> SUFFICES ASSUME Together = FALSE PROVE Spec => []AllReturned
    OBVIOUS
<1>1. IInv => AllReturned
    <2> SUFFICES ASSUME IInv, NEW r \in freed, NEW id \in Ids[r], scan[id] # 0,
                        cell[id] = scan[id], got[id] # <<scan[id]>>
                 PROVE  FALSE
        BY DEF AllReturned
    <2>1. TypeOK /\ r \in {0, 1} /\ objs[r] = NULL /\ left[r] = {}
        BY DEF IInv, TInv, TypeOK, ListKept, Regions
    <2>2. PICK t \in Readers : rd[t].pc \in {"valid", "get"} /\ rd[t].pos = id
        BY <2>1 DEF IInv, Accounted, Regions
    <2>3. id # 0
        BY <2>1, IdsAssumption
    <2>4. rd[t].region = r
        BY <2>1, <2>2, <2>3, Views
    <2>5. objs[r] = LIST
        BY <2>2, <2>4 DEF IInv, ListKept, Busy
    <2> QED BY <2>1, <2>5 DEF NULL, LIST
<1>2. Spec => []IInv
    BY IterInvariant
<1> QED BY <1>1, <1>2, PTL
=============================================================================

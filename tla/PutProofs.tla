----------------------------- MODULE PutProofs ------------------------------
(***************************************************************************)
(* The log of a transaction, word by word, for every number and length of  *)
(* operations: execute meets what was logged, whatever the slot held       *)
(* before, stays within the log, and fills the list of headers to refresh  *)
(* with one entry for each block.  And the blocks, byte by byte: between   *)
(* transactions every object reads as clients have written it, and its     *)
(* checksum verifies.                                                      *)
(***************************************************************************)
EXTENDS Put, FunctionTheorems, FiniteSetTheorems, WellFoundedInduction, TLAPS

-----------------------------------------------------------------------------
(* Types. *)

Kv == [klen : KeyLens, off : 0 .. MaxVal, data : Seq(Nat)]
Op == [type : {WRITE, UPDATE, UPDINPLACE}, id1 : Ids, id2 : 0 .. NBlocks, kv : Kv]
        \cup [type : {REMOVE}, id1 : Ids, id2 : {0}]

\* An operation that a client may have asked for.
OpOK(op) ==
    /\ op \in Op
    /\ op.type \in {WRITE, UPDATE} => op.id2 \in Ids
    /\ op.type # REMOVE => op.kv \in Kv /\ op.kv.off + Len(op.kv.data) <= MaxVal
    /\ op.type = UPDINPLACE => Len(op.kv.data) \in SmallLens

BlockOK(b) ==
    /\ b = [sum |-> b.sum, ver |-> b.ver, klen |-> b.klen, vlen |-> b.vlen, area |-> b.area]
    /\ b.ver \in Nat /\ b.klen \in 0 .. MaxKey /\ b.vlen \in 0 .. MaxVal
    /\ b.area \in [Area -> Nat]

Headers == [id : Ids, ver : Nat, len : 0 .. MaxVal]

-----------------------------------------------------------------------------
(* The invariant. *)

\* Words that an operation takes, and the most that one can take
Extra(op) == IF op.type = UPDINPLACE THEN Len(op.kv.data) ELSE 0
Widest == Entry + MaxVal \div 2

\* The operations lie one behind the other, from the start of the log to its size.
Placed ==
    /\ Place \in [1 .. Len(ops) + 1 -> Nat] /\ Place[1] = 0
    /\ \A n \in 1 .. Len(ops) : Place[n + 1] = Place[n] + Entry + Extra(ops[n])

\* The words of l at p are those of op.
WordsOf(l, op, p) ==
    /\ l[p] = op.type /\ l[p + 1] = op.id1
    /\ op.type = UPDATE => l[p + 2] = op.id2
    /\ op.type = UPDINPLACE =>
          /\ l[p + 2] = Len(op.kv.data) * Shift + op.kv.off
          /\ \A j \in 1 .. Len(op.kv.data) : l[p + Entry + j - 1] = op.kv.data[j]

\* Every operation is in the log, and no later one reaches into its words.
Logged ==
    pc # "idle" =>
        /\ Place[Len(ops) + 1] = size /\ size <= Len(ops) * Widest
        /\ \A n \in 1 .. Len(ops) : /\ Place[n] + Entry + Extra(ops[n]) <= size
                                    /\ WordsOf(log, ops[n], Place[n])

\* Execute stands at an operation or at the end, and has refreshed no more
\* headers than it has passed operations, each one once.
Walks ==
    /\ pc = "execute" => \E n \in 1 .. Len(ops) + 1 : pos = Place[n] /\ Len(list) < n
    /\ pc # "execute" => list = <<>>
    /\ \A k, l \in 1 .. Len(list) : list[k].id = list[l].id => k = l

Shapely ==
    /\ blk = [id \in Ids |-> blk[id]] /\ \A id \in Ids : BlockOK(blk[id])
    /\ free \subseteq Ids
    /\ log \in [LogWords -> Nat] /\ size \in LogWords /\ pos \in LogWords
    /\ pc \in {"idle", "open", "execute", "abort", "check"}
    /\ list \in Seq(Headers)
    /\ ops \in Seq(Op) /\ \A n \in 1 .. Len(ops) : OpOK(ops[n])
    /\ Len(ops) <= MaxOps /\ (pc = "idle" => ops = <<>>)
    /\ begun \in Nat
    /\ DOMAIN view \subseteq Ids /\ DOMAIN RefAfter \subseteq Ids

PInv == Shapely /\ Placed /\ Logged /\ Walks

-----------------------------------------------------------------------------
(* Recursion. *)

\* A set of numbers that is not empty has a least one.
LEMMA Least ==
    ASSUME NEW S \in SUBSET Nat, S # {}
    PROVE  \E z \in S : \A y \in S : z <= y
<1>1. PICK x \in S : \A y \in S : ~ (<<y, x>> \in OpToRel(<, Nat))
    BY NatLessThanWellFounded, WFMin
<1>2. \A y \in S : ~ (y < x)
    BY <1>1, Zenon DEF OpToRel
<1> QED BY <1>2

\* Popped is one of the free blocks.
LEMMA PoppedFree == ASSUME free \subseteq Ids, free # {} PROVE Popped \in free
<1>1. free \in SUBSET Nat
    BY PutAssumption DEF Ids
<1> QED BY <1>1, Least DEF Popped

\* P gives the places of the operations in s.
PlacesOf(P, s) ==
    /\ P \in [1 .. Len(s) + 1 -> Nat] /\ P[1] = 0
    /\ \A n \in 1 .. Len(s) : P[n + 1] = P[n] + Entry + Extra(s[n])

\* What defines Place for the operations in s.
PlaceEq(P, s) ==
    P = [n \in 1 .. Len(s) + 1 |->
            IF n = 1 THEN 0
            ELSE P[n - 1] + Entry
                 + (IF s[n - 1].type = UPDINPLACE THEN Len(s[n - 1].kv.data) ELSE 0)]
PlaceFor(s) == CHOOSE f : PlaceEq(f, s)

\* There is only one such function.
LEMMA PlaceForIs ==
    ASSUME NEW s, NEW P, PlacesOf(P, s), Len(s) \in Nat
    PROVE  PlaceFor(s) = P
<1> DEFINE S == 1 .. Len(s) + 1
           X(f, n) == IF n = 1 THEN 0
                      ELSE f[n - 1] + Entry
                           + (IF s[n - 1].type = UPDINPLACE THEN Len(s[n - 1].kv.data) ELSE 0)
           F == PlaceFor(s)
<1>1. PlaceEq(P, s)
    <2>1. P = [n \in S |-> P[n]]
        BY DEF PlacesOf
    <2>2. ASSUME NEW n \in S PROVE P[n] = X(P, n)
        <3>1. CASE n = 1
            BY <3>1 DEF PlacesOf
        <3>2. CASE n # 1
            <4>1. n - 1 \in 1 .. Len(s) /\ (n - 1) + 1 = n
                BY <3>2
            <4>2. P[n] = P[n - 1] + Entry + Extra(s[n - 1])
                BY <4>1 DEF PlacesOf
            <4> QED BY <3>2, <4>2 DEF Extra
        <3> QED BY <3>1, <3>2
    <2> HIDE DEF X
    <2>3. P = [n \in S |-> X(P, n)]
        BY <2>1, <2>2
    <2> QED BY <2>3, Zenon DEF PlaceEq, X
<1>2. PlaceEq(F, s)
    BY <1>1, Zenon DEF PlaceFor
<1> HIDE DEF F
<1>3. F = [n \in S |-> X(F, n)]
    BY <1>2, Zenon DEF PlaceEq
<1>4. \A n \in S : F[n] = P[n]
    <2> DEFINE C == {n \in S : F[n] # P[n]}
    <2> SUFFICES ASSUME C # {} PROVE FALSE
        OBVIOUS
    <2>1. C \in SUBSET Nat
        OBVIOUS
    <2>2. PICK m \in C : \A y \in C : m <= y
        BY <2>1, Least
    <2>3. m \in S /\ F[m] # P[m]
        OBVIOUS
    <2> HIDE DEF C
    <2>4. m # 1
        BY <1>3, <2>3 DEF PlacesOf
    <2>5. m - 1 \in S /\ m - 1 \in 1 .. Len(s) /\ ~ (m <= m - 1) /\ (m - 1) + 1 = m
        BY <2>3, <2>4
    <2>6. F[m - 1] = P[m - 1]
        BY <2>2, <2>5 DEF C
    <2>7. F[m] = X(F, m)
        BY <1>3, <2>3
    <2>8. P[m] = P[m - 1] + Entry + Extra(s[m - 1])
        BY <2>5 DEF PlacesOf
    <2> QED BY <2>3, <2>4, <2>6, <2>7, <2>8 DEF Extra
<1>5. F = P
    BY <1>3, <1>4 DEF PlacesOf
<1> QED BY <1>5 DEF F

\* Place is the function for the operations of the transaction.
LEMMA PlaceIs == Place = PlaceFor(ops) /\ Place' = PlaceFor(ops')
<1>1. Place = PlaceFor(ops)
    BY Zenon DEF Place, PlaceEq, PlaceFor
<1>2. Place' = PlaceFor(ops')
    BY Zenon DEF Place, PlaceEq, PlaceFor
<1> QED BY <1>1, <1>2

\* One operation more has its place behind the others, which keep theirs.
LEMMA PlaceAppend ==
    ASSUME Placed, ops \in Seq(Op), NEW op \in Op, ops' = Append(ops, op)
    PROVE  /\ Placed' /\ Len(ops') = Len(ops) + 1 /\ Len(ops) \in Nat
           /\ \A n \in 1 .. Len(ops) + 1 : Place'[n] = Place[n]
           /\ Place'[Len(ops) + 2] = Place[Len(ops) + 1] + Entry + Extra(op)
           /\ \A n \in 1 .. Len(ops) : ops'[n] = ops[n]
           /\ ops'[Len(ops) + 1] = op
<1>1. /\ Len(ops') = Len(ops) + 1 /\ Len(ops) \in Nat
      /\ \A n \in 1 .. Len(ops) : ops'[n] = ops[n]
      /\ ops'[Len(ops) + 1] = op
    OBVIOUS
<1>2. Extra(op) \in Nat
    BY DEF Op, Kv, Extra, WRITE, UPDATE, UPDINPLACE, REMOVE
<1>3. PICK L \in Nat : L = Len(ops)
    BY <1>1
<1> DEFINE Q == [n \in 1 .. L + 2 |-> IF n <= L + 1 THEN Place[n] ELSE Place[L + 1] + Entry + Extra(op)]
<1>4. PICK P : P = Q
    OBVIOUS
<1>5. /\ P \in [1 .. L + 2 -> Nat] /\ \A n \in 1 .. L + 1 : P[n] = Place[n]
      /\ P[L + 2] = Place[L + 1] + Entry + Extra(op)
    BY <1>2, <1>3, <1>4 DEF Placed, Entry
<1> HIDE DEF Q
<1>6. PlacesOf(P, ops')
    <2>1. P \in [1 .. Len(ops') + 1 -> Nat]
        BY <1>1, <1>3, <1>5
    <2>2. P[1] = 0
        BY <1>3, <1>5 DEF Placed
    <2>3. ASSUME NEW n \in 1 .. Len(ops') PROVE P[n + 1] = P[n] + Entry + Extra(ops'[n])
        <3>1. CASE n <= L
            BY <1>1, <1>3, <1>5, <2>3, <3>1 DEF Placed
        <3>2. CASE n = L + 1
            <4>1. n + 1 = L + 2
                BY <3>2
            <4> QED BY <1>1, <1>3, <1>5, <3>2, <4>1
        <3> QED BY <1>1, <1>3, <3>1, <3>2
    <2> QED BY <2>1, <2>2, <2>3 DEF PlacesOf
<1>7. Place' = P
    BY <1>1, <1>6, PlaceIs, PlaceForIs
<1>8. Placed'
    BY <1>6, <1>7 DEF Placed, PlacesOf
<1> QED BY <1>1, <1>3, <1>5, <1>7, <1>8

\* Without operations there is only the start.
LEMMA PlaceNone ==
    /\ ops = <<>> => Placed /\ Place[1] = 0
    /\ ops' = <<>> => Placed' /\ Place'[1] = 0
<1>1. PICK P : P = [n \in 1 .. 1 |-> 0]
    OBVIOUS
<1>2. PlacesOf(P, <<>>)
    BY <1>1 DEF PlacesOf
<1>3. PlaceFor(<<>>) = P
    <2>1. Len(<<>>) \in Nat
        OBVIOUS
    <2> QED BY <1>2, <2>1, PlaceForIs
<1>4. ops = <<>> => Placed
    BY <1>2, <1>3, PlaceIs DEF Placed, PlacesOf
<1>5. ops' = <<>> => Placed'
    BY <1>2, <1>3, PlaceIs DEF Placed, PlacesOf
<1> QED BY <1>4, <1>5 DEF Placed

\* What defines RefAfter: the objects after each of the first k operations of s.
AfterEq(A, v, s, k) == A = [n \in 0 .. k |-> IF n = 0 THEN v ELSE RefApply(A[n - 1], s[n])]
AfterFor(v, s) == CHOOSE f : AfterEq(f, v, s, Len(s))
RefFor(v, s) == AfterFor(v, s)[Len(s)]

Fcn(A, S) == A = [x \in S |-> A[x]]
Steps(A, v, s, k) == A[0] = v /\ \A n \in 1 .. k : A[n] = RefApply(A[n - 1], s[n])

\* Such a function, operation by operation.
LEMMA AfterSteps ==
    ASSUME NEW A, NEW v, NEW s, NEW k \in Nat
    PROVE  AfterEq(A, v, s, k) <=> Fcn(A, 0 .. k) /\ Steps(A, v, s, k)
<1> DEFINE X(n) == IF n = 0 THEN v ELSE RefApply(A[n - 1], s[n])
<1>0. AfterEq(A, v, s, k) <=> A = [n \in 0 .. k |-> X(n)]
    BY Zenon DEF AfterEq
<1>1. X(0) = v /\ \A n \in 1 .. k : X(n) = RefApply(A[n - 1], s[n])
    OBVIOUS
<1> HIDE DEF X
<1>2. ASSUME A = [n \in 0 .. k |-> X(n)]
      PROVE  /\ Fcn(A, 0 .. k) /\ A[0] = v
             /\ \A n \in 1 .. k : A[n] = RefApply(A[n - 1], s[n])
    <2>1. \A n \in 0 .. k : A[n] = X(n)
        BY <1>2
    <2>2. Fcn(A, 0 .. k)
        BY <1>2, <2>1, Zenon DEF Fcn
    <2> QED BY <1>1, <2>1, <2>2
<1>3. ASSUME Fcn(A, 0 .. k), A[0] = v, \A n \in 1 .. k : A[n] = RefApply(A[n - 1], s[n])
      PROVE  A = [n \in 0 .. k |-> X(n)]
    <2>1. \A n \in 0 .. k : A[n] = X(n)
        <3> SUFFICES ASSUME NEW n \in 0 .. k PROVE A[n] = X(n)
            OBVIOUS
        <3>1. CASE n = 0
            BY <1>1, <1>3, <3>1
        <3>2. CASE n # 0
            <4>1. n \in 1 .. k
                BY <3>2
            <4> QED BY <1>1, <1>3, <4>1
        <3> QED BY <3>1, <3>2
    <2>2. [n \in 0 .. k |-> A[n]] = [n \in 0 .. k |-> X(n)]
        BY <2>1, Zenon
    <2> QED BY <1>3, <2>2, Zenon DEF Fcn
<1> QED BY <1>0, <1>2, <1>3 DEF Steps

\* There is one, ...
LEMMA AfterExists ==
    ASSUME NEW v, NEW s, NEW k \in Nat
    PROVE  \E A : AfterEq(A, v, s, k)
<1> DEFINE C == {n \in Nat : ~ \E A : AfterEq(A, v, s, n)}
<1> SUFFICES ASSUME C # {} PROVE FALSE
    OBVIOUS
<1>1. PICK m \in C : \A y \in C : m <= y
    <2>1. C \in SUBSET Nat
        OBVIOUS
    <2> QED BY <2>1, Least
<1>2. m \in Nat /\ ~ \E A : AfterEq(A, v, s, m)
    OBVIOUS
<1>3. m # 0
    <2>1. PICK z \in Nat : z = 0
        OBVIOUS
    <2>1a. PICK A : A = [n \in 0 .. z |-> v]
        OBVIOUS
    <2>2. Fcn(A, 0 .. z) /\ A[0] = v /\ \A n \in 1 .. z : A[n] = RefApply(A[n - 1], s[n])
        BY <2>1, <2>1a DEF Fcn
    <2>3. AfterEq(A, v, s, z)
        <3>1. Steps(A, v, s, z)
            BY <2>2 DEF Steps
        <3> QED BY <2>1, <2>2, <3>1, AfterSteps
    <2> QED BY <1>2, <2>1, <2>3
<1>4. m - 1 \in Nat /\ m - 1 \notin C
    BY <1>1, <1>2, <1>3
<1>5. PICK A : AfterEq(A, v, s, m - 1)
    BY <1>4
<1> HIDE DEF C
<1>6. A[0] = v /\ \A n \in 1 .. m - 1 : A[n] = RefApply(A[n - 1], s[n])
    BY <1>4, <1>5, AfterSteps DEF Steps
<1>7. PICK B : B = [n \in 0 .. m |-> IF n = m THEN RefApply(A[m - 1], s[m]) ELSE A[n]]
    OBVIOUS
<1>8. /\ Fcn(B, 0 .. m) /\ B[m] = RefApply(A[m - 1], s[m])
      /\ \A n \in 0 .. m - 1 : B[n] = A[n]
    <2>1. \A n \in 0 .. m : B[n] = IF n = m THEN RefApply(A[m - 1], s[m]) ELSE A[n]
        BY <1>7, Zenon
    <2>2. Fcn(B, 0 .. m)
        BY <1>7, <2>1, Zenon DEF Fcn
    <2> QED BY <1>2, <2>1, <2>2
<1>9. B[0] = v
    BY <1>4, <1>6, <1>8
<1>10. ASSUME NEW n \in 1 .. m PROVE B[n] = RefApply(B[n - 1], s[n])
    <2>1. n - 1 \in 0 .. m - 1 /\ B[n - 1] = A[n - 1]
        BY <1>2, <1>8
    <2>2. CASE n = m
        BY <1>8, <2>1, <2>2
    <2>3. CASE n # m
        <3>1. n \in 1 .. m - 1 /\ n \in 0 .. m - 1
            BY <1>2, <2>3
        <3> QED BY <1>6, <1>8, <2>1, <3>1
    <2> QED BY <2>2, <2>3
<1>11. AfterEq(B, v, s, m)
    <2>1. Steps(B, v, s, m)
        BY <1>9, <1>10 DEF Steps
    <2> QED BY <1>2, <1>8, <2>1, AfterSteps
<1> QED BY <1>2, <1>11

\* ... and only one.
LEMMA AfterUnique ==
    ASSUME NEW v, NEW s, NEW k \in Nat, NEW A, NEW B, AfterEq(A, v, s, k),
           Steps(B, v, s, k)
    PROVE  \A n \in 0 .. k : A[n] = B[n]
<1> DEFINE C == {n \in 0 .. k : A[n] # B[n]}
<1> SUFFICES ASSUME C # {} PROVE FALSE
    OBVIOUS
<1>1. PICK m \in C : \A y \in C : m <= y
    <2>1. C \in SUBSET Nat
        OBVIOUS
    <2> QED BY <2>1, Least
<1>2. m \in 0 .. k /\ A[m] # B[m]
    OBVIOUS
<1>3. A[0] = v /\ \A n \in 1 .. k : A[n] = RefApply(A[n - 1], s[n])
    BY AfterSteps DEF Steps
<1>4. m \in 1 .. k /\ m - 1 \in 0 .. k /\ ~ (m <= m - 1)
    BY <1>2, <1>3 DEF Steps
<1>5. A[m - 1] = B[m - 1]
    BY <1>1, <1>4
<1> QED BY <1>2, <1>3, <1>4, <1>5 DEF Steps

\* One operation more is applied to what the others made.
LEMMA RefAppend ==
    ASSUME NEW v, NEW S, NEW s \in Seq(S), NEW op \in S
    PROVE  /\ RefFor(v, Append(s, op)) = RefApply(RefFor(v, s), op)
           /\ RefFor(v, <<>>) = v
<1>0. Len(s) \in Nat
    OBVIOUS
<1>1. PICK k, t : k \in Nat /\ k = Len(s) /\ t = Append(s, op)
    BY <1>0, Zenon
<1>2. Len(t) = k + 1 /\ t[k + 1] = op /\ \A n \in 1 .. k : t[n] = s[n]
    BY <1>1
<1>3. AfterEq(AfterFor(v, s), v, s, k)
    BY <1>1, AfterExists, Zenon DEF AfterFor
<1>4. AfterEq(AfterFor(v, t), v, t, k + 1)
    <2>1. k + 1 \in Nat
        BY <1>1
    <2> QED BY <1>2, <2>1, AfterExists, Zenon DEF AfterFor
<1>5. PICK A, B : A = AfterFor(v, s) /\ B = AfterFor(v, t)
    OBVIOUS
<1>6. B[0] = v /\ \A n \in 1 .. k + 1 : B[n] = RefApply(B[n - 1], t[n])
    <2>1. k + 1 \in Nat /\ AfterEq(B, v, t, k + 1)
        BY <1>1, <1>4, <1>5
    <2> QED BY <2>1, AfterSteps DEF Steps
<1>7. \A n \in 1 .. k : B[n] = RefApply(B[n - 1], s[n])
    BY <1>1, <1>2, <1>6
<1>8. A[k] = B[k]
    <2>1. AfterEq(A, v, s, k) /\ Steps(B, v, s, k)
        BY <1>1, <1>3, <1>5, <1>6, <1>7 DEF Steps
    <2>2. \A n \in 0 .. k : A[n] = B[n]
        BY <1>1, <2>1, AfterUnique
    <2> QED BY <1>1, <2>2
<1>9. B[k + 1] = RefApply(B[k], op)
    <2>1. k + 1 \in 1 .. k + 1 /\ (k + 1) - 1 = k
        BY <1>1
    <2> QED BY <1>2, <1>6, <2>1
<1>10. RefFor(v, t) = RefApply(RefFor(v, s), op)
    BY <1>1, <1>2, <1>5, <1>8, <1>9 DEF RefFor
<1>11. RefFor(v, <<>>) = v
    <2>1. PICK e : e = <<>>
        OBVIOUS
    <2>2. Len(e) = 0 /\ 0 \in Nat
        BY <2>1
    <2>3. AfterEq(AfterFor(v, e), v, e, 0)
        BY <2>2, AfterExists, Zenon DEF AfterFor
    <2>4. AfterFor(v, e)[0] = v
        BY <2>2, <2>3, AfterSteps DEF Steps
    <2> QED BY <2>1, <2>2, <2>4 DEF RefFor
<1> QED BY <1>1, <1>10, <1>11

\* RefAfter is this for the transaction's operations.
LEMMA RefAfterIs == RefAfter = RefFor(view, ops) /\ RefAfter' = RefFor(view', ops')
<1>1. RefAfter = RefFor(view, ops)
    BY Zenon DEF RefAfter, RefFor, AfterFor, AfterEq
<1>2. RefAfter' = RefFor(view', ops')
    BY Zenon DEF RefAfter, RefFor, AfterFor, AfterEq
<1> QED BY <1>1, <1>2

\* No operation gives an object a number that is none.
LEMMA ApplyIds ==
    ASSUME NEW v, DOMAIN v \subseteq Ids, NEW op, OpOK(op)
    PROVE  DOMAIN RefApply(v, op) \subseteq Ids
<1>1. op.type \in {WRITE, UPDATE, UPDINPLACE, REMOVE} /\ op.id1 \in Ids
    BY DEF OpOK, Op
<1>2. op.type \in {WRITE, UPDATE} => op.id2 \in Ids
    BY DEF OpOK
<1>3. \A f, id, y : DOMAIN With(f, id, y) = DOMAIN f \cup {id}
    BY DEF With
<1>4. \A f, ids : DOMAIN Without(f, ids) = DOMAIN f \ ids
    BY DEF Without
<1>5. /\ WRITE # UPDATE /\ WRITE # UPDINPLACE /\ WRITE # REMOVE
      /\ UPDATE # UPDINPLACE /\ UPDATE # REMOVE /\ UPDINPLACE # REMOVE
    BY DEF WRITE, UPDATE, UPDINPLACE, REMOVE
<1>6. CASE op.type = WRITE
    <2>1. RefApply(v, op) = With(v, op.id2, RefPut(RefNone, op.kv))
        BY <1>5, <1>6, Zenon DEF RefApply
    <2>2. DOMAIN RefApply(v, op) = DOMAIN v \cup {op.id2}
        BY <1>3, <2>1, Zenon
    <2> QED BY <1>2, <1>6, <2>2
<1>7. CASE op.type = UPDATE
    <2>1. RefApply(v, op) = With(Without(v, {op.id1}), op.id2, RefPut(v[op.id1], op.kv))
        BY <1>7, <1>5, Zenon DEF RefApply
    <2>2. DOMAIN RefApply(v, op) = (DOMAIN v \ {op.id1}) \cup {op.id2}
        <3>1. DOMAIN Without(v, {op.id1}) = DOMAIN v \ {op.id1}
            BY <1>4, Zenon
        <3>2. PICK f, y : f = Without(v, {op.id1}) /\ y = RefPut(v[op.id1], op.kv)
            OBVIOUS
        <3>3. DOMAIN With(f, op.id2, y) = DOMAIN f \cup {op.id2}
            BY <1>3, Zenon
        <3> QED BY <2>1, <3>1, <3>2, <3>3, Zenon
    <2> QED BY <1>2, <1>7, <2>2
<1>8. CASE op.type = UPDINPLACE
    <2>1. RefApply(v, op) = With(v, op.id1, [RefPut(v[op.id1], op.kv) EXCEPT !.klen = v[op.id1].klen])
        BY <1>8, <1>5, Zenon DEF RefApply
    <2>2. DOMAIN RefApply(v, op) = DOMAIN v \cup {op.id1}
        BY <1>3, <2>1, Zenon
    <2> QED BY <1>1, <2>2
<1>9. CASE op.type = REMOVE
    <2>1. RefApply(v, op) = Without(v, {op.id1})
        BY <1>9, <1>5, Zenon DEF RefApply
    <2>2. DOMAIN RefApply(v, op) = DOMAIN v \ {op.id1}
        BY <1>4, <2>1, Zenon
    <2> QED BY <2>2
<1> QED BY <1>1, <1>6, <1>7, <1>8, <1>9

-----------------------------------------------------------------------------
(* Blocks. *)

\* What clients put fits into a block.
LEMMA ArgFacts ==
    ASSUME begun \in Nat, ops \in Seq(Op), NEW kv \in Args
    PROVE  /\ kv \in Kv /\ kv.off + Len(kv.data) <= MaxVal
           /\ kv.klen \in 1 .. MaxKey /\ kv.off \in Nat /\ kv.data \in Seq(Nat) /\ Len(kv.data) \in Nat
           /\ \A j \in 1 .. Len(kv.data) : kv.data[j] \in Nat
<1>1. PICK s \in Shapes : kv \in [klen : KeyLens, off : {s.off}, data : [1 .. s.len -> {Fresh} \cup Words]]
    BY DEF Args
<1>10. PICK k \in KeyLens, d \in [1 .. s.len -> {Fresh} \cup Words] : kv = [klen |-> k, off |-> s.off, data |-> d]
    BY <1>1
<1>2. s.off \in Nat /\ s.len \in Nat /\ s.off + s.len <= MaxVal /\ k \in 1 .. MaxKey /\ MaxVal \in Nat
    BY PutAssumption
<1>4. {Fresh} \cup Words \subseteq Nat
    <2>1. MaxOps * begun \in Nat /\ Len(ops) \in Nat
        BY PutAssumption
    <2>2. Fresh \in Nat
        BY <2>1 DEF Fresh
    <2> QED BY <2>2, PutAssumption
<1>5. \A j \in 1 .. s.len : d[j] \in Nat
    BY <1>4
<1>6. d \in Seq(Nat) /\ Len(d) = s.len /\ \A j \in 1 .. s.len : d[j] \in Nat
    BY <1>2, <1>5
<1>7. kv = [klen |-> k, off |-> s.off, data |-> d]
    BY <1>10
<1>8. kv.klen = k /\ kv.off = s.off /\ kv.data = d
    BY <1>7
<1>9. kv \in Kv
    BY <1>2, <1>6, <1>7 DEF Kv
<1> QED BY <1>2, <1>6, <1>8, <1>9

\* The empty block.
LEMMA ZeroBlockOK == BlockOK(ZeroBlock)
<1>1. MaxKey \in Nat /\ MaxVal \in Nat
    BY PutAssumption
<1>2. [i \in Area |-> 0] \in [Area -> Nat]
    OBVIOUS
<1> QED BY <1>1, <1>2 DEF BlockOK, ZeroBlock

\* A record of the right fields is a block.
LEMMA BlockIs ==
    ASSUME NEW s, NEW v \in Nat, NEW k \in 0 .. MaxKey, NEW l \in 0 .. MaxVal, NEW a \in [Area -> Nat]
    PROVE  BlockOK([sum |-> s, ver |-> v, klen |-> k, vlen |-> l, area |-> a])
BY DEF BlockOK

\* backend_set_zero.
LEMMA SetZeroOK == ASSUME NEW b, BlockOK(b) PROVE BlockOK(SetZero(b))
<1>1. PICK a : a = [i \in Area |-> IF i < b.klen + b.vlen THEN 0 ELSE b.area[i]]
    OBVIOUS
<1>2. a \in [Area -> Nat]
    BY <1>1 DEF BlockOK
<1>3. SetZero(b) = [sum |-> NoSum, ver |-> 0, klen |-> 0, vlen |-> 0, area |-> a]
    BY <1>1 DEF SetZero, ZeroBlock
<1>4. MaxKey \in Nat /\ MaxVal \in Nat
    BY PutAssumption
<1>5. 0 \in 0 .. MaxKey /\ 0 \in 0 .. MaxVal /\ 0 \in Nat
    BY <1>4
<1> QED BY <1>2, <1>3, <1>5, BlockIs

\* A header of the list is put into a block.
LEMMA RefreshOK == ASSUME NEW b, BlockOK(b), NEW m \in Headers PROVE BlockOK(Refresh(b, m))
<1>1. PICK s : s = Sum([b EXCEPT !.ver = m.ver, !.vlen = m.len], MaxKey + m.len)
    OBVIOUS
<1>2. Refresh(b, m) = [sum |-> s, ver |-> m.ver, klen |-> b.klen, vlen |-> m.len, area |-> b.area]
    <2>1. Refresh(b, m) = [[b EXCEPT !.ver = m.ver, !.vlen = m.len] EXCEPT !.sum = s]
        BY <1>1, Zenon DEF Refresh, WithSum
    <2> QED BY <2>1 DEF BlockOK
<1> QED BY <1>2, BlockIs DEF BlockOK, Headers

\* Bytes of the value that pmb_tput leaves.
LEMMA ByteOK ==
    ASSUME NEW b, BlockOK(b), NEW old, BlockOK(old), NEW kv, kv.off \in Nat, kv.data \in Seq(Nat),
           kv.off + Len(kv.data) <= MaxVal, NEW j \in 0 .. MaxVal - 1
    PROVE  ValueByte(b, old, kv, j) \in Nat
<1>1. MaxKey \in Nat /\ MaxVal \in Nat /\ Len(kv.data) \in Nat
    BY PutAssumption
<1>2. MaxKey + j \in Area
    BY <1>1 DEF Area
<1>3. b.area[MaxKey + j] \in Nat /\ old.area[MaxKey + j] \in Nat
    BY <1>2 DEF BlockOK
<1>4. kv.off <= j /\ j < kv.off + Len(kv.data) => kv.data[j - kv.off + 1] \in Nat
    <2> SUFFICES ASSUME kv.off <= j, j < kv.off + Len(kv.data) PROVE kv.data[j - kv.off + 1] \in Nat
        OBVIOUS
    <2>1. j - kv.off + 1 \in 1 .. Len(kv.data)
        BY <1>1
    <2> QED BY <2>1
<1> QED BY <1>3, <1>4 DEF ValueByte

\* pmb_tput.
LEMMA PutBlockOK ==
    ASSUME NEW b, BlockOK(b), NEW old, BlockOK(old), NEW kv, kv.off \in Nat, kv.data \in Seq(Nat),
           kv.off + Len(kv.data) <= MaxVal, kv.klen \in 1 .. MaxKey
    PROVE  BlockOK(PutBlock(b, old, kv))
<1> DEFINE end == kv.off + Len(kv.data)
           len == IF kv.data # <<>> THEN Larger(end, old.vlen) ELSE end
           ar == [i \in Area |-> IF i < kv.klen THEN KeyByte
                                 ELSE IF i < MaxKey \/ kv.data = <<>> THEN b.area[i]
                                 ELSE ValueByte(b, old, kv, i - MaxKey)]
<1>1. MaxKey \in Nat /\ MaxVal \in Nat /\ Len(kv.data) \in Nat
    BY PutAssumption
<1>2. PICK l, a : l = len /\ a = ar
    OBVIOUS
<1>3. PICK s : s = Sum([b EXCEPT !.klen = kv.klen, !.vlen = l, !.ver = old.ver + 1, !.area = a], MaxKey + l)
    OBVIOUS
<1>4. PutBlock(b, old, kv) =
        [[b EXCEPT !.klen = kv.klen, !.vlen = l, !.ver = old.ver + 1, !.area = a] EXCEPT !.sum = s]
    BY <1>2, <1>3, Zenon DEF PutBlock, WithSum
<1>5. PutBlock(b, old, kv) = [sum |-> s, ver |-> old.ver + 1, klen |-> kv.klen, vlen |-> l, area |-> a]
    BY <1>4 DEF BlockOK
<1>6. l \in 0 .. MaxVal
    BY <1>1, <1>2 DEF Larger, BlockOK
<1>7. a \in [Area -> Nat]
    <2>1. ASSUME NEW i \in Area PROVE ar[i] \in Nat
        <3>1. b.area[i] \in Nat /\ KeyByte \in Nat
            BY DEF BlockOK, KeyByte
        <3>2. i < MaxKey \/ i - MaxKey \in 0 .. MaxVal - 1
            BY <1>1 DEF Area
        <3>3. ~ (i < MaxKey) => ValueByte(b, old, kv, i - MaxKey) \in Nat
            BY <3>2, ByteOK
        <3> QED BY <3>1, <3>3
    <2> HIDE DEF ar
    <2>2. a = [i \in Area |-> ar[i]]
        BY <1>2 DEF ar
    <2> QED BY <2>1, <2>2
<1>8. old.ver + 1 \in Nat /\ kv.klen \in 0 .. MaxKey
    BY <1>1 DEF BlockOK
<1> QED BY <1>5, <1>6, <1>7, <1>8, BlockIs

-----------------------------------------------------------------------------
(* The log. *)

\* Sizes of operations and of the log.
LEMMA Sizes ==
    /\ Entry = 3 /\ MaxVal \in Nat /\ MaxOps \in Nat /\ Widest \in Nat /\ Widest >= 3
    /\ MaxOps * Widest \in Nat /\ LogWords = 0 .. MaxOps * Widest + 3
    /\ \A op : OpOK(op) => Extra(op) \in Nat /\ 3 + Extra(op) <= Widest
    /\ \A k \in Nat : k < MaxOps => k * Widest + Widest <= MaxOps * Widest
<1>1. Entry = 3 /\ MaxVal \in Nat /\ MaxOps \in Nat
    BY PutAssumption DEF Entry
<1>2. MaxVal \div 2 \in Nat
    BY <1>1
<1>3. Widest \in Nat /\ Widest >= 3 /\ Widest = 3 + MaxVal \div 2
    BY <1>1, <1>2 DEF Widest
<1>4. ASSUME NEW k \in Nat, k < MaxOps PROVE k * Widest + Widest <= MaxOps * Widest
    <2>1. PICK W \in Nat : W = Widest
        BY <1>3
    <2>2. PICK d \in Nat : MaxOps = (k + 1) + d
        <3>1. MaxOps - (k + 1) \in Nat /\ MaxOps = (k + 1) + (MaxOps - (k + 1))
            BY <1>1, <1>4
        <3> QED BY <3>1
    <2>3. d * W \in Nat /\ k * W \in Nat
        BY <2>1
    <2>4. MaxOps * W = k * W + W + d * W
        BY <2>1, <2>2
    <2> QED BY <2>1, <2>3, <2>4
<1>5. ASSUME NEW op, OpOK(op) PROVE Extra(op) \in Nat /\ 3 + Extra(op) <= Widest
    BY <1>2, <1>3, <1>5 DEF OpOK, Extra, SmallLens
<1>6. MaxOps * Widest \in Nat
    BY <1>1, <1>3
<1>7. LogWords = 0 .. MaxOps * Widest + 3
    BY <1>1 DEF LogWords, Widest
<1> QED BY <1>1, <1>3, <1>4, <1>5, <1>6, <1>7

\* The words stand for the operation.
Spells(words, op) ==
    /\ words \in Seq(Nat) /\ Len(words) = Entry + Extra(op)
    /\ words[1] = op.type /\ words[2] = op.id1
    /\ op.type = UPDATE => words[3] = op.id2
    /\ op.type = UPDINPLACE =>
          /\ words[3] = Len(op.kv.data) * Shift + op.kv.off
          /\ \A j \in 1 .. Len(op.kv.data) : words[Entry + j] = op.kv.data[j]

\* The log after an operation: the old words below the size, then the new.
LEMMA Recorded ==
    ASSUME Shapely, Logged, pc = "open", Len(ops) < MaxOps,
           NEW op, OpOK(op), NEW words, Spells(words, op), Record(words, op)
    PROVE  /\ log' \in [LogWords -> Nat] /\ size' \in LogWords
           /\ size' = size + 3 + Extra(op) /\ size \in Nat /\ size' <= (Len(ops) + 1) * Widest
           /\ \A i \in 0 .. size - 1 : log'[i] = log[i]
           /\ \A i \in 1 .. Len(words) : log'[size + i - 1] = words[i]
<1>1. /\ Len(ops) \in Nat /\ size \in LogWords /\ log \in [LogWords -> Nat]
      /\ size <= Len(ops) * Widest
    BY DEF Shapely, Logged
<1>2. PICK L \in Nat, W \in Nat, M \in Nat : L = Len(ops) /\ W = Widest /\ M = MaxOps * Widest
    BY <1>1, Sizes
<1>3. L * W \in Nat /\ L * W + W <= M /\ (L + 1) * W = L * W + W
    <2>1. L * W \in Nat /\ (L + 1) * W = L * W + W
        BY <1>2
    <2>2. L < MaxOps
        BY <1>2
    <2>3. L * Widest + Widest <= MaxOps * Widest
        BY <1>2, <2>2, Sizes, Zenon
    <2> QED BY <1>2, <2>1, <2>3
<1>4. PICK E \in Nat : E = Extra(op) /\ 3 + E <= W
    BY <1>2, Sizes
<1>5. LogWords = 0 .. M + 3 /\ size \in Nat /\ size <= L * W
    BY <1>1, <1>2, Sizes
<1>6. Len(words) = 3 + E /\ words \in Seq(Nat) /\ \A i \in 1 .. 3 + E : words[i] \in Nat
    <2>1. Len(words) = 3 + E /\ words \in Seq(Nat)
        BY <1>4, Sizes DEF Spells
    <2> QED BY <2>1
<1>7. size' = size + (3 + E)
    BY <1>6 DEF Record
<1>8. size' \in LogWords /\ size' <= (L + 1) * W /\ size + (3 + E) <= M
    BY <1>3, <1>4, <1>5, <1>7
<1>9. \A i \in LogWords : log'[i] = IF size <= i /\ i < size + (3 + E) THEN words[i - size + 1] ELSE log[i]
    BY <1>6 DEF Record
<1>10. log' \in [LogWords -> Nat]
    <2>1. ASSUME NEW i \in LogWords PROVE log'[i] \in Nat
        <3>1. CASE size <= i /\ i < size + (3 + E)
            <4>1. i - size + 1 \in 1 .. 3 + E
                BY <1>5, <3>1
            <4> QED BY <1>6, <1>9, <3>1, <4>1
        <3>2. CASE ~ (size <= i /\ i < size + (3 + E))
            BY <1>1, <1>9, <3>2
        <3> QED BY <3>1, <3>2
    <2>2. log' = [i \in LogWords |-> log'[i]]
        BY DEF Record
    <2> QED BY <2>1, <2>2
<1>11. ASSUME NEW i \in 0 .. size - 1 PROVE log'[i] = log[i]
    <2>1. i \in LogWords /\ ~ (size <= i)
        BY <1>5, <1>3
    <2> QED BY <1>9, <2>1
<1>12. ASSUME NEW i \in 1 .. 3 + E PROVE log'[size + i - 1] = words[i]
    <2>1. /\ size + i - 1 \in LogWords /\ size <= size + i - 1 /\ size + i - 1 < size + (3 + E)
          /\ (size + i - 1) - size + 1 = i
        BY <1>5, <1>8
    <2> QED BY <1>9, <2>1
<1>13. size' = size + 3 + Extra(op)
    BY <1>4, <1>5, <1>7
<1>14. size' <= (Len(ops) + 1) * Widest
    BY <1>2, <1>8
<1> QED BY <1>1, <1>5, <1>6, <1>8, <1>10, <1>11, <1>12, <1>13, <1>14

\* Words that stay say the same.
LEMMA WordsStay ==
    ASSUME NEW l, NEW m, NEW op, OpOK(op), NEW p \in Nat, NEW z \in Nat, p + 3 + Extra(op) <= z,
           \A i \in 0 .. z - 1 : m[i] = l[i], WordsOf(l, op, p)
    PROVE  WordsOf(m, op, p)
<1>1. Extra(op) \in Nat /\ Entry = 3
    BY Sizes
<1>2. p \in 0 .. z - 1 /\ p + 1 \in 0 .. z - 1 /\ p + 2 \in 0 .. z - 1
    BY <1>1
<1>3. m[p] = l[p] /\ m[p + 1] = l[p + 1] /\ m[p + 2] = l[p + 2]
    BY <1>2
<1>4. ASSUME op.type = UPDINPLACE, NEW j \in 1 .. Len(op.kv.data)
      PROVE  m[p + Entry + j - 1] = op.kv.data[j]
    <2>1. Len(op.kv.data) = Extra(op)
        BY <1>4 DEF Extra
    <2>2. p + Entry + j - 1 \in 0 .. z - 1
        BY <1>1, <2>1
    <2> QED BY <1>4, <2>2 DEF WordsOf
<1> QED BY <1>3, <1>4 DEF WordsOf

\* An operation more: it is in the log, behind the others.
LEMMA RecordKeeps ==
    ASSUME PInv, pc = "open", pc' = pc, Len(ops) < MaxOps,
           NEW op, OpOK(op), NEW words, Spells(words, op), Record(words, op), view' = view
    PROVE  /\ Placed' /\ Logged' /\ log' \in [LogWords -> Nat] /\ size' \in LogWords
           /\ ops' \in Seq(Op) /\ (\A n \in 1 .. Len(ops') : OpOK(ops'[n])) /\ Len(ops') <= MaxOps
           /\ DOMAIN RefAfter' \subseteq Ids
<1>1. /\ log' \in [LogWords -> Nat] /\ size' \in LogWords
      /\ size' = size + 3 + Extra(op) /\ size \in Nat /\ size' <= (Len(ops) + 1) * Widest
      /\ \A i \in 0 .. size - 1 : log'[i] = log[i]
      /\ \A i \in 1 .. Len(words) : log'[size + i - 1] = words[i]
    BY Recorded DEF PInv
<1>2. ops \in Seq(Op) /\ op \in Op /\ ops' = Append(ops, op) /\ \A n \in 1 .. Len(ops) : OpOK(ops[n])
    BY DEF Record, PInv, Shapely, OpOK
<1>3. /\ Placed' /\ Len(ops') = Len(ops) + 1 /\ Len(ops) \in Nat
      /\ \A n \in 1 .. Len(ops) + 1 : Place'[n] = Place[n]
      /\ Place'[Len(ops) + 2] = Place[Len(ops) + 1] + Entry + Extra(op)
      /\ \A n \in 1 .. Len(ops) : ops'[n] = ops[n]
      /\ ops'[Len(ops) + 1] = op
    BY <1>2, PlaceAppend DEF PInv
<1>4. PICK L \in Nat : L = Len(ops)
    BY <1>3
<1>5. Entry = 3 /\ Extra(op) \in Nat
    BY Sizes
<1>6. /\ Place[L + 1] = size
      /\ \A n \in 1 .. L : Place[n] \in Nat /\ Place[n] + 3 + Extra(ops[n]) <= size
                           /\ WordsOf(log, ops[n], Place[n])
    BY <1>4, <1>5 DEF PInv, Logged, Placed
<1>7. Place'[L + 2] = size'
    BY <1>1, <1>3, <1>4, <1>5, <1>6
<1>8. WordsOf(log', op, size)
    <2>1. Len(words) = 3 + Extra(op)
        BY <1>5 DEF Spells
    <2>2. log'[size] = words[1] /\ log'[size + 1] = words[2] /\ log'[size + 2] = words[3]
        <3>1. 1 \in 1 .. Len(words) /\ 2 \in 1 .. Len(words) /\ 3 \in 1 .. Len(words)
            BY <1>5, <2>1
        <3>2. log'[size + 1 - 1] = words[1] /\ log'[size + 2 - 1] = words[2] /\ log'[size + 3 - 1] = words[3]
            BY <1>1, <3>1
        <3>3. size + 1 - 1 = size /\ size + 2 - 1 = size + 1 /\ size + 3 - 1 = size + 2
            BY <1>1
        <3> QED BY <3>2, <3>3
    <2>3. ASSUME op.type = UPDINPLACE, NEW j \in 1 .. Len(op.kv.data)
          PROVE  log'[size + Entry + j - 1] = op.kv.data[j]
        <3>1. Extra(op) = Len(op.kv.data)
            BY <2>3 DEF Extra
        <3>2. 3 + j \in 1 .. Len(words) /\ size + (3 + j) - 1 = size + 3 + j - 1
            BY <1>1, <1>5, <2>1, <3>1
        <3>3. log'[size + (3 + j) - 1] = words[3 + j]
            BY <1>1, <3>2
        <3>4. words[3 + j] = op.kv.data[j]
            BY <1>5, <2>3 DEF Spells
        <3> QED BY <1>5, <3>2, <3>3, <3>4
    <2> QED BY <2>2, <2>3 DEF WordsOf, Spells
<1>9. ASSUME NEW n \in 1 .. L + 1
      PROVE  Place'[n] + Entry + Extra(ops'[n]) <= size' /\ WordsOf(log', ops'[n], Place'[n])
    <2>1. CASE n = L + 1
        BY <1>1, <1>3, <1>4, <1>5, <1>6, <1>8, <2>1
    <2>2. CASE n # L + 1
        <3>1. n \in 1 .. L
            BY <2>2
        <3>2. Place'[n] = Place[n] /\ ops'[n] = ops[n] /\ OpOK(ops[n])
            BY <1>2, <1>3, <1>4, <3>1
        <3>3. Place[n] \in Nat /\ Place[n] + 3 + Extra(ops[n]) <= size /\ WordsOf(log, ops[n], Place[n])
            BY <1>6, <3>1
        <3>4. Extra(ops[n]) \in Nat
            BY <3>2, Sizes
        <3>5. WordsOf(log', ops[n], Place[n])
            BY <1>1, <3>2, <3>3, WordsStay
        <3> QED BY <1>1, <1>5, <3>2, <3>3, <3>4, <3>5
    <2> QED BY <2>1, <2>2
<1>10. Logged'
    BY <1>1, <1>3, <1>4, <1>7, <1>9 DEF Logged
<1>11. ops' \in Seq(Op) /\ (\A n \in 1 .. Len(ops') : OpOK(ops'[n])) /\ Len(ops') <= MaxOps
    BY <1>2, <1>3, Sizes
<1>12. DOMAIN RefAfter' \subseteq Ids
    <2>1. RefAfter' = RefApply(RefAfter, op)
        BY <1>2, RefAfterIs, RefAppend
    <2>2. DOMAIN RefAfter \subseteq Ids
        BY DEF PInv, Shapely
    <2> QED BY <2>1, <2>2, ApplyIds
<1> QED BY <1>1, <1>3, <1>10, <1>11, <1>12

-----------------------------------------------------------------------------
(* Every step keeps the invariant. *)

\* The places and the reference depend on operations and objects alone.
LEMMA SameOps == ASSUME UNCHANGED <<ops, view>> PROVE Place' = Place /\ RefAfter' = RefAfter
BY PlaceIs, RefAfterIs

\* What a step within a transaction has to show that records nothing.
LEMMA StepKeeps ==
    ASSUME PInv, UNCHANGED <<log, size, ops, view, begun>>, pc # "idle",
           pc' \in {"open", "execute", "abort", "check"},
           blk' = [id \in Ids |-> blk'[id]], \A id \in Ids : BlockOK(blk'[id]),
           free' \subseteq Ids, pos' \in LogWords, list' \in Seq(Headers), Walks'
    PROVE  PInv'
<1>1. Place' = Place /\ RefAfter' = RefAfter
    BY SameOps
<1>2. Placed'
    BY <1>1 DEF PInv, Placed
<1>3. Logged'
    BY <1>1 DEF PInv, Logged
<1>4. Shapely'
    BY <1>1 DEF PInv, Shapely
<1> QED BY <1>2, <1>3, <1>4 DEF PInv

\* What a step that records an operation has to show.
LEMMA OpKeeps ==
    ASSUME PInv, CanLog, NEW op, OpOK(op), NEW words, Spells(words, op), Record(words, op),
           UNCHANGED <<pc, pos, list, view, begun>>,
           blk' = [id \in Ids |-> blk'[id]], \A id \in Ids : BlockOK(blk'[id]), free' \subseteq Ids
    PROVE  PInv'
<1>1. pc = "open" /\ Len(ops) < MaxOps
    BY DEF CanLog
<1>2. /\ Placed' /\ Logged' /\ log' \in [LogWords -> Nat] /\ size' \in LogWords
      /\ ops' \in Seq(Op) /\ (\A n \in 1 .. Len(ops') : OpOK(ops'[n])) /\ Len(ops') <= MaxOps
      /\ DOMAIN RefAfter' \subseteq Ids
    BY <1>1, RecordKeeps
<1>3. Walks'
    BY <1>1 DEF PInv, Walks
<1>4. Shapely'
    BY <1>1, <1>2 DEF PInv, Shapely
<1> QED BY <1>2, <1>3, <1>4 DEF PInv

\* The blocks after one of them was changed.
LEMMA OneBlock ==
    ASSUME PInv, NEW id \in Ids, NEW b, BlockOK(b), blk' = [blk EXCEPT ![id] = b]
    PROVE  blk' = [jd \in Ids |-> blk'[jd]] /\ \A jd \in Ids : BlockOK(blk'[jd])
<1>1. blk = [jd \in Ids |-> blk[jd]] /\ \A jd \in Ids : BlockOK(blk[jd])
    BY DEF PInv, Shapely
<1>2. \A jd \in Ids : blk'[jd] = IF jd = id THEN b ELSE blk[jd]
    BY <1>1
<1>3. blk' = [jd \in Ids |-> blk'[jd]]
    BY <1>1
<1> QED BY <1>1, <1>2, <1>3

\* Words of the log are numbers.
LEMMA WordFacts ==
    ASSUME PInv, pc # "idle", Len(ops) < MaxOps
    PROVE  log[size + 2] \in Nat
<1>1. /\ Len(ops) \in Nat /\ size \in LogWords /\ log \in [LogWords -> Nat]
      /\ size <= Len(ops) * Widest
    BY DEF PInv, Shapely, Logged
<1>2. PICK L \in Nat, W \in Nat, M \in Nat : L = Len(ops) /\ W = Widest /\ M = MaxOps * Widest
    BY <1>1, Sizes
<1>3. L * W \in Nat /\ L * W + W <= M
    <2>1. L * W \in Nat
        BY <1>2
    <2>2. L < MaxOps
        BY <1>2
    <2>3. L * Widest + Widest <= MaxOps * Widest
        BY <1>2, <2>2, Sizes, Zenon
    <2> QED BY <1>2, <2>1, <2>3
<1>4. LogWords = 0 .. M + 3 /\ size \in Nat /\ size <= L * W /\ W >= 3
    BY <1>1, <1>2, Sizes
<1>5. size + 2 \in LogWords
    BY <1>3, <1>4
<1> QED BY <1>1, <1>5

\* pmb_tput of a new object.
LEMMA NewKeeps == ASSUME PInv, NEW kv \in Args, TPutNew(kv) PROVE PInv'
<1> DEFINE op == [type |-> WRITE, id1 |-> Popped, id2 |-> Popped, kv |-> kv]
           words == <<WRITE, Popped, log[size + 2]>>
<1>1. begun \in Nat /\ ops \in Seq(Op) /\ free \subseteq Ids /\ free # {} /\ CanLog /\ pc = "open"
    BY DEF PInv, Shapely, TPutNew, CanLog
<1>2. /\ kv \in Kv /\ kv.off + Len(kv.data) <= MaxVal
      /\ kv.klen \in 1 .. MaxKey /\ kv.off \in Nat /\ kv.data \in Seq(Nat)
    BY <1>1, ArgFacts
<1>3. PICK x : x = Popped
    OBVIOUS
<1>4. x \in free /\ x \in Ids /\ x \in 0 .. NBlocks /\ x \in Nat
    <2>1. x \in free
        BY <1>1, <1>3, PoppedFree
    <2> QED BY <1>1, <2>1, PutAssumption DEF Ids
<1>5. OpOK(op)
    BY <1>2, <1>3, <1>4 DEF OpOK, Op, WRITE, UPDATE, UPDINPLACE, REMOVE
<1>6. Spells(words, op)
    <2>1. log[size + 2] \in Nat
        BY <1>1, WordFacts DEF CanLog
    <2>2. Extra(op) = 0
        BY DEF Extra, WRITE, UPDINPLACE
    <2> QED BY <1>3, <1>4, <2>1, <2>2 DEF Spells, Entry, WRITE, UPDATE, UPDINPLACE
<1>7. Record(words, op) /\ UNCHANGED <<pc, pos, list, view, begun>> /\ free' \subseteq Ids
    BY <1>1 DEF TPutNew
<1> HIDE DEF op, words
<1>8. blk' = [id \in Ids |-> blk'[id]] /\ \A id \in Ids : BlockOK(blk'[id])
    <2>1. BlockOK(PutBlock(blk[x], ZeroBlock, kv))
        BY <1>2, <1>4, ZeroBlockOK, PutBlockOK DEF PInv, Shapely
    <2>2. blk' = [blk EXCEPT ![x] = PutBlock(blk[x], ZeroBlock, kv)]
        BY <1>3 DEF TPutNew
    <2> QED BY <1>4, <2>1, <2>2, OneBlock
<1> QED BY <1>1, <1>5, <1>6, <1>7, <1>8, OpKeeps

\* pmb_tput of an object that is replaced.
LEMMA UpdateKeeps == ASSUME PInv, NEW id \in Ids, NEW kv \in Args, TPutUpdate(id, kv) PROVE PInv'
<1> DEFINE op == [type |-> UPDATE, id1 |-> id, id2 |-> Popped, kv |-> kv]
           words == <<UPDATE, id, Popped>>
<1>1. begun \in Nat /\ ops \in Seq(Op) /\ free \subseteq Ids /\ free # {} /\ CanLog /\ pc = "open"
    BY DEF PInv, Shapely, TPutUpdate, CanLog
<1>2. /\ kv \in Kv /\ kv.off + Len(kv.data) <= MaxVal
      /\ kv.klen \in 1 .. MaxKey /\ kv.off \in Nat /\ kv.data \in Seq(Nat)
    BY <1>1, ArgFacts
<1>3. PICK x : x = Popped
    OBVIOUS
<1>4. x \in free /\ x \in Ids /\ x \in 0 .. NBlocks /\ x \in Nat /\ id \in Nat
    <2>1. x \in free
        BY <1>1, <1>3, PoppedFree
    <2> QED BY <1>1, <2>1, PutAssumption DEF Ids
<1>5. OpOK(op)
    BY <1>2, <1>3, <1>4 DEF OpOK, Op, WRITE, UPDATE, UPDINPLACE, REMOVE
<1>6. Spells(words, op)
    <2>1. Extra(op) = 0
        BY DEF Extra, UPDATE, UPDINPLACE
    <2> QED BY <1>3, <1>4, <2>1 DEF Spells, Entry, UPDATE, UPDINPLACE
<1>7. Record(words, op) /\ UNCHANGED <<pc, pos, list, view, begun>> /\ free' \subseteq Ids
    BY <1>1 DEF TPutUpdate
<1> HIDE DEF op, words
<1>8. blk' = [jd \in Ids |-> blk'[jd]] /\ \A jd \in Ids : BlockOK(blk'[jd])
    <2>1. BlockOK(PutBlock(blk[x], blk[id], kv))
        BY <1>2, <1>4, PutBlockOK DEF PInv, Shapely
    <2>2. blk' = [blk EXCEPT ![x] = PutBlock(blk[x], blk[id], kv)]
        BY <1>3 DEF TPutUpdate
    <2> QED BY <1>4, <2>1, <2>2, OneBlock
<1> QED BY <1>1, <1>5, <1>6, <1>7, <1>8, OpKeeps

\* pmb_tput of an object that is patched.
LEMMA SmallKeeps == ASSUME PInv, NEW id \in Ids, NEW kv \in Args, TPutSmall(id, kv) PROVE PInv'
<1> DEFINE op == [type |-> UPDINPLACE, id1 |-> id, id2 |-> 0, kv |-> kv]
           words == <<UPDINPLACE, id, Len(kv.data) * Shift + kv.off>> \o kv.data
<1>1. begun \in Nat /\ ops \in Seq(Op) /\ CanLog /\ pc = "open" /\ Len(kv.data) \in SmallLens
    BY DEF PInv, Shapely, TPutSmall, CanLog
<1>2. /\ kv \in Kv /\ kv.off + Len(kv.data) <= MaxVal /\ Len(kv.data) \in Nat
      /\ kv.klen \in 1 .. MaxKey /\ kv.off \in Nat /\ kv.data \in Seq(Nat)
    BY <1>1, ArgFacts
<1>3. id \in Nat /\ 0 \in 0 .. NBlocks
    BY PutAssumption DEF Ids
<1>5. OpOK(op)
    BY <1>1, <1>2, <1>3 DEF OpOK, Op, WRITE, UPDATE, UPDINPLACE, REMOVE
<1>6. Spells(words, op)
    <2>1. Extra(op) = Len(kv.data)
        BY DEF Extra
    <2>2. PICK w \in Nat : w = Len(kv.data) * Shift + kv.off
        BY <1>2 DEF Shift
    <2>3. PICK d \in Seq(Nat) : d = kv.data
        BY <1>2
    <2>4. PICK s : s = <<UPDINPLACE, id, w>> \o d
        OBVIOUS
    <2>5. /\ s \in Seq(Nat) /\ Len(s) = 3 + Len(d)
          /\ s[1] = UPDINPLACE /\ s[2] = id /\ s[3] = w /\ \A j \in 1 .. Len(d) : s[3 + j] = d[j]
        BY <1>3, <2>2, <2>3, <2>4 DEF UPDINPLACE
    <2>6. words = s
        BY <2>2, <2>3, <2>4
    <2>7. /\ op.type = UPDINPLACE /\ op.id1 = id /\ op.kv = kv /\ UPDINPLACE # UPDATE /\ Entry = 3
        BY DEF UPDINPLACE, UPDATE, Entry
    <2> HIDE DEF op, words
    <2> QED BY <2>1, <2>2, <2>3, <2>5, <2>6, <2>7 DEF Spells
<1>7. Record(words, op) /\ UNCHANGED <<pc, pos, list, view, begun, blk, free>>
    BY DEF TPutSmall
<1> HIDE DEF op, words
<1>8. /\ blk' = [jd \in Ids |-> blk'[jd]] /\ \A jd \in Ids : BlockOK(blk'[jd])
      /\ free' \subseteq Ids
    BY <1>7 DEF PInv, Shapely
<1> QED BY <1>1, <1>5, <1>6, <1>7, <1>8, OpKeeps

\* pmb_tdel.
LEMMA RemoveKeeps == ASSUME PInv, NEW id \in Ids, TDel(id) PROVE PInv'
<1> DEFINE op == [type |-> REMOVE, id1 |-> id, id2 |-> 0]
           words == <<REMOVE, id, log[size + 2]>>
<1>1. CanLog /\ pc = "open"
    BY DEF TDel, CanLog
<1>2. id \in Nat /\ log[size + 2] \in Nat
    BY <1>1, WordFacts, PutAssumption DEF Ids, CanLog
<1>3. OpOK(op)
    BY DEF OpOK, Op, WRITE, UPDATE, UPDINPLACE, REMOVE
<1>4. Spells(words, op)
    <2>1. Extra(op) = 0
        BY DEF Extra, REMOVE, UPDINPLACE
    <2> QED BY <1>2, <2>1 DEF Spells, Entry, REMOVE, UPDATE, UPDINPLACE
<1>5. Record(words, op) /\ UNCHANGED <<pc, pos, list, view, begun, blk, free>>
    BY DEF TDel
<1> HIDE DEF op, words
<1>6. /\ blk' = [jd \in Ids |-> blk'[jd]] /\ \A jd \in Ids : BlockOK(blk'[jd])
      /\ free' \subseteq Ids
    BY <1>5 DEF PInv, Shapely
<1> QED BY <1>1, <1>3, <1>4, <1>5, <1>6, OpKeeps

\* The size of the log of a transaction, and steps of one entry.
LEMMA Strides ==
    ASSUME PInv, pc # "idle"
    PROVE  /\ 0 \in LogWords /\ size \in Nat /\ pos \in Nat
           /\ pos < size => pos + Entry \in LogWords /\ pos + 1 \in LogWords /\ pos + 2 \in LogWords
           /\ \A i \in 0 .. size - 1 : i \in LogWords /\ log[i] \in Nat
<1>1. /\ Len(ops) \in Nat /\ Len(ops) <= MaxOps /\ size \in LogWords /\ pos \in LogWords
      /\ size <= Len(ops) * Widest /\ log \in [LogWords -> Nat]
    BY DEF PInv, Shapely, Logged
<1>2. PICK L \in Nat, W \in Nat, M \in Nat : L = Len(ops) /\ W = Widest /\ M = MaxOps * Widest
    BY <1>1, Sizes
<1>3. L * W \in Nat /\ L * W <= M
    <2>1. L * W \in Nat
        BY <1>2
    <2>2. CASE L < MaxOps
        <3>1. L * Widest + Widest <= MaxOps * Widest
            BY <1>2, <2>2, Sizes, Zenon
        <3> QED BY <1>2, <2>1, <3>1
    <2>3. CASE L = MaxOps
        BY <1>2, <2>1, <2>3
    <2> QED BY <1>1, <1>2, <2>2, <2>3, Sizes
<1>4. LogWords = 0 .. M + 3 /\ size \in Nat /\ size <= L * W /\ Entry = 3 /\ pos \in Nat
    BY <1>1, <1>2, Sizes
<1>5. \A i \in 0 .. size - 1 : i \in LogWords
    BY <1>3, <1>4
<1>6. pos < size => pos + Entry \in LogWords /\ pos + 1 \in LogWords /\ pos + 2 \in LogWords
    BY <1>3, <1>4
<1>7. 0 \in LogWords
    BY <1>4
<1> QED BY <1>1, <1>4, <1>5, <1>6, <1>7

\* A walk stands at operation n of the transaction, execute with fewer headers.
Stands(n) ==
    /\ n \in 1 .. Len(ops) /\ pos = Place[n] /\ OpOK(ops[n]) /\ WordsOf(log, ops[n], pos)
    /\ Type = ops[n].type /\ Id1 = ops[n].id1 /\ Id1 \in Ids
    /\ pos + Entry + Extra(ops[n]) = Place[n + 1] /\ pos + Entry + Extra(ops[n]) <= size
    /\ Type = UPDINPLACE => /\ Id2 \div Shift = Extra(ops[n]) /\ Id2 % Shift = ops[n].kv.off
                            /\ ops[n].kv.off \in Nat /\ ops[n].kv.off + Extra(ops[n]) <= MaxVal
AtOp(n) == Stands(n) /\ Len(list) < n

\* At a place before the size it does, and reads what was logged.
LEMMA AtPlace ==
    ASSUME PInv, pc # "idle", NEW n \in 1 .. Len(ops) + 1, pos = Place[n]
    PROVE  (n = Len(ops) + 1 /\ pos = size) \/ (pos < size /\ Stands(n))
<1>2. Place[Len(ops) + 1] = size /\ Len(ops) \in Nat /\ size \in Nat /\ pos \in Nat
    BY Strides DEF PInv, Logged, Shapely
<1> SUFFICES ASSUME n # Len(ops) + 1 PROVE pos < size /\ Stands(n)
    BY <1>2
<1>3. n \in 1 .. Len(ops)
    BY <1>2
<1>4. /\ Place[n] + Entry + Extra(ops[n]) <= size /\ WordsOf(log, ops[n], Place[n])
      /\ OpOK(ops[n]) /\ Place[n + 1] = Place[n] + Entry + Extra(ops[n])
    BY <1>3 DEF PInv, Logged, Placed, Shapely
<1>5. Type = ops[n].type /\ Id1 = ops[n].id1
    BY <1>4 DEF WordsOf, Type, Id1
<1>6. Id1 \in Ids
    BY <1>4, <1>5 DEF OpOK, Op
<1>7. ASSUME Type = UPDINPLACE
      PROVE  /\ Id2 \div Shift = Extra(ops[n]) /\ Id2 % Shift = ops[n].kv.off
             /\ ops[n].kv.off \in Nat /\ ops[n].kv.off + Extra(ops[n]) <= MaxVal
    <2>1. PICK l, o : l = Extra(ops[n]) /\ o = ops[n].kv.off
        OBVIOUS
    <2>2. l = Len(ops[n].kv.data)
        BY <1>5, <1>7, <2>1 DEF Extra
    <2>3. ops[n].kv \in Kv /\ ops[n].kv.off + Len(ops[n].kv.data) <= MaxVal
        BY <1>4, <1>5, <1>7 DEF OpOK, UPDINPLACE, REMOVE
    <2>4. l \in Nat /\ o \in 0 .. MaxVal /\ MaxVal \in Nat /\ o + l <= MaxVal
        BY <2>1, <2>2, <2>3, PutAssumption DEF Kv
    <2>5. Id2 = l * Shift + o
        BY <1>4, <1>5, <1>7, <2>1, <2>2 DEF WordsOf, Id2
    <2>6. o \in 0 .. 99
        BY <2>4, ShiftAssumption DEF Shift
    <2>7. (l * 100 + o) \div 100 = l /\ (l * 100 + o) % 100 = o
        BY <2>4, <2>6
    <2>8. Id2 = l * 100 + o
        BY <2>5 DEF Shift
    <2>9. Shift = 100
        BY DEF Shift
    <2>10. Id2 \div Shift = l /\ Id2 % Shift = o
        BY <2>7, <2>8, <2>9, Zenon
    <2> QED BY <2>1, <2>4, <2>10
<1>8. pos < size
    BY <1>2, <1>4, Sizes
<1> QED BY <1>3, <1>4, <1>5, <1>6, <1>7, <1>8 DEF Stands

\* Execute, while it has not reached the size.
LEMMA AtEntry == ASSUME PInv, pc = "execute", pos < size PROVE \E n \in 1 .. Len(ops) : AtOp(n)
<1>1. PICK n \in 1 .. Len(ops) + 1 : pos = Place[n] /\ Len(list) < n
    BY DEF PInv, Walks
<1>2. size \in Nat /\ pos \in Nat
    BY Strides
<1>3. Stands(n)
    BY <1>1, <1>2, AtPlace
<1> QED BY <1>1, <1>3 DEF AtOp, Stands

\* It goes on to the next operation.
LEMMA WalkOn ==
    ASSUME PInv, pc = "execute", pc' = pc, UNCHANGED <<ops, view>>, NEW n, AtOp(n),
           pos' = pos + Entry + Extra(ops[n]), Len(list') \in Nat, Len(list') <= Len(list) + 1,
           Len(list) \in Nat,
           \A k, l \in 1 .. Len(list') : list'[k].id = list'[l].id => k = l
    PROVE  Walks'
<1>1. n \in 1 .. Len(ops) /\ pos' = Place[n + 1] /\ Len(list) < n /\ Len(ops) \in Nat
    BY DEF AtOp, Stands, PInv, Shapely
<1>2. Place' = Place /\ Len(ops') = Len(ops)
    BY SameOps
<1>3. n + 1 \in 1 .. Len(ops) + 1 /\ Len(list') < n + 1
    BY <1>1
<1> QED BY <1>1, <1>2, <1>3 DEF Walks

\* Execute: a replaced or removed object.
LEMMA ReleaseKeeps == ASSUME PInv, ExecRelease PROVE PInv'
<1>1. /\ pc = "execute" /\ pos < size /\ Type \in {UPDATE, REMOVE} /\ pos' = pos + Entry
      /\ UNCHANGED <<log, size, pc, list, view, ops, begun>>
    BY DEF ExecRelease, Executing
<1>2. PICK n \in 1 .. Len(ops) : AtOp(n)
    BY <1>1, AtEntry
<1>3. Extra(ops[n]) = 0 /\ Id1 \in Ids
    BY <1>1, <1>2 DEF AtOp, Stands, Extra, UPDATE, REMOVE, UPDINPLACE
<1>4. pos' = pos + Entry + Extra(ops[n]) /\ pos' \in LogWords
    BY <1>1, <1>3, Strides DEF Entry
<1>5. list \in Seq(Headers) /\ Len(list) \in Nat
    BY DEF PInv, Shapely
<1>6. \A k, l \in 1 .. Len(list') : list'[k].id = list'[l].id => k = l
    BY <1>1 DEF PInv, Walks
<1>7. Walks'
    BY <1>1, <1>2, <1>4, <1>5, <1>6, WalkOn
<1>8. /\ blk' = [id \in Ids |-> blk'[id]] /\ \A id \in Ids : BlockOK(blk'[id])
      /\ free' \subseteq Ids
    <2>1. CASE blk[Id1].sum # NoSum
        <3>1. blk' = [blk EXCEPT ![Id1] = SetZero(blk[Id1])] /\ free' = free \cup {Id1}
            BY <1>3, <2>1 DEF ExecRelease
        <3>2. PICK x \in Ids : x = Id1
            BY <1>3
        <3>3. BlockOK(SetZero(blk[x]))
            BY SetZeroOK DEF PInv, Shapely
        <3>4. blk' = [blk EXCEPT ![x] = SetZero(blk[x])]
            BY <3>1, <3>2
        <3>5. free' \subseteq Ids
            BY <1>3, <3>1 DEF PInv, Shapely
        <3> QED BY <3>3, <3>4, <3>5, OneBlock
    <2>2. CASE ~ (blk[Id1].sum # NoSum)
        <3>1. blk' = blk /\ free' = free
            BY <2>2 DEF ExecRelease
        <3> QED BY <3>1 DEF PInv, Shapely
    <2> QED BY <2>1, <2>2
<1> QED BY <1>1, <1>4, <1>5, <1>7, <1>8, StepKeeps

\* Execute: an entry without effect.
LEMMA SkipKeeps == ASSUME PInv, ExecSkip PROVE PInv'
<1>1. /\ pc = "execute" /\ pos < size /\ Type \notin {UPDATE, REMOVE, UPDINPLACE} /\ pos' = pos + Entry
      /\ UNCHANGED <<blk, free, log, size, pc, list, view, ops, begun>>
    BY DEF ExecSkip
<1>2. PICK n \in 1 .. Len(ops) : AtOp(n)
    BY <1>1, AtEntry
<1>3. Extra(ops[n]) = 0
    BY <1>1, <1>2 DEF AtOp, Stands, Extra
<1>4. pos' = pos + Entry + Extra(ops[n]) /\ pos' \in LogWords
    BY <1>1, <1>3, Strides DEF Entry
<1>5. list \in Seq(Headers) /\ Len(list) \in Nat
    BY DEF PInv, Shapely
<1>6. \A k, l \in 1 .. Len(list') : list'[k].id = list'[l].id => k = l
    BY <1>1 DEF PInv, Walks
<1>7. Walks'
    BY <1>1, <1>2, <1>4, <1>5, <1>6, WalkOn
<1>8. /\ blk' = [id \in Ids |-> blk'[id]] /\ \A id \in Ids : BlockOK(blk'[id])
      /\ free' \subseteq Ids
    BY <1>1 DEF PInv, Shapely
<1> QED BY <1>1, <1>4, <1>5, <1>7, <1>8, StepKeeps

\* tx_slot_meta_upd_add gives every block one header, and at most one is new.
LEMMA MetaUpdOK ==
    ASSUME PInv, NEW id \in Ids, NEW e \in 0 .. MaxVal
    PROVE  /\ MetaUpdAdd(id, e) \in Seq(Headers) /\ Len(list) \in Nat
           /\ Len(MetaUpdAdd(id, e)) \in Nat /\ Len(MetaUpdAdd(id, e)) <= Len(list) + 1
           /\ \A k \in 1 .. Len(MetaUpdAdd(id, e)) :
                 \/ MetaUpdAdd(id, e)[k].id = id
                 \/ \E l \in 1 .. Len(list) : list[l].id = MetaUpdAdd(id, e)[k].id
           /\ \A k, l \in 1 .. Len(MetaUpdAdd(id, e)) :
                 MetaUpdAdd(id, e)[k].id = MetaUpdAdd(id, e)[l].id => k = l
<1>1. list \in Seq(Headers) /\ Len(list) \in Nat /\ DOMAIN list = 1 .. Len(list)
    BY DEF PInv, Shapely
<1>2. \A k, l \in 1 .. Len(list) : list[k].id = list[l].id => k = l
    BY DEF PInv, Walks
<1>3. MaxVal \in Nat
    BY PutAssumption
<1> DEFINE found == {n \in DOMAIN list : list[n].id = id}
           grow(m) == [m EXCEPT !.ver = @ + 1, !.len = Larger(@, e)]
<1>4. ASSUME NEW m \in Headers PROVE grow(m) \in Headers /\ grow(m).id = m.id
    <2>1. /\ m = [id |-> m.id, ver |-> m.ver, len |-> m.len]
          /\ m.id \in Ids /\ m.ver \in Nat /\ m.len \in 0 .. MaxVal
        BY DEF Headers
    <2>2. m.ver + 1 \in Nat /\ Larger(m.len, e) \in 0 .. MaxVal
        BY <1>3, <2>1 DEF Larger
    <2>3. PICK i \in Ids, v \in Nat, l \in 0 .. MaxVal : m = [id |-> i, ver |-> v, len |-> l]
        BY <2>1
    <2>4. PICK z \in 0 .. MaxVal, w \in Nat : z = Larger(l, e) /\ w = v + 1
        BY <2>2, <2>3
    <2>5. grow(m) = [id |-> i, ver |-> w, len |-> z]
        <3>1. m.ver + 1 = w /\ Larger(m.len, e) = z
            BY <2>3, <2>4
        <3>2. grow(m) = [m EXCEPT !.ver = w, !.len = z]
            BY <3>1, Zenon
        <3> HIDE DEF grow
        <3>3. PICK x : x = [m EXCEPT !.ver = w, !.len = z]
            OBVIOUS
        <3>4. DOMAIN x = {"id", "ver", "len"} /\ x.id = i /\ x.ver = w /\ x.len = z
            BY <2>3, <3>3
        <3>5. x = [id |-> i, ver |-> w, len |-> z]
            BY <2>3, <3>3, <3>4
        <3> QED BY <3>2, <3>3, <3>5, Zenon
    <2>6. [id |-> i, ver |-> w, len |-> z] \in Headers
        BY DEF Headers
    <2> HIDE DEF grow
    <2> QED BY <2>3, <2>5, <2>6
<1>5. CASE found = {}
    <2>1. [id |-> id, ver |-> blk[id].ver, len |-> blk[id].vlen] \in Headers
        BY DEF PInv, Shapely, BlockOK, Headers
    <2>2. PICK m : m = grow([id |-> id, ver |-> blk[id].ver, len |-> blk[id].vlen])
        OBVIOUS
    <2>3. m \in Headers /\ m.id = id
        BY <1>4, <2>1, <2>2
    <2>4. MetaUpdAdd(id, e) = Append(list, m)
        BY <1>5, <2>2 DEF MetaUpdAdd
    <2>5. PICK u : u = Append(list, m)
        OBVIOUS
    <2>6. /\ u \in Seq(Headers) /\ Len(u) = Len(list) + 1 /\ u[Len(list) + 1] = m
          /\ \A k \in 1 .. Len(list) : u[k] = list[k]
        BY <1>1, <2>3, <2>5
    <2>7. \A k \in 1 .. Len(list) : list[k].id # id
        BY <1>1, <1>5
    <2>8. ASSUME NEW k \in 1 .. Len(u), NEW l \in 1 .. Len(u), u[k].id = u[l].id PROVE k = l
        <3>1. CASE k \in 1 .. Len(list) /\ l \in 1 .. Len(list)
            BY <1>2, <2>6, <2>8, <3>1
        <3>2. CASE k \notin 1 .. Len(list) \/ l \notin 1 .. Len(list)
            <4>1. k = Len(list) + 1 \/ l = Len(list) + 1
                BY <1>1, <2>6, <3>2
            <4> QED BY <1>1, <2>3, <2>6, <2>7, <2>8, <4>1
        <3> QED BY <3>1, <3>2
    <2>9. ASSUME NEW k \in 1 .. Len(u) PROVE u[k].id = id \/ \E l \in 1 .. Len(list) : list[l].id = u[k].id
        <3>1. CASE k \in 1 .. Len(list)
            BY <2>6, <3>1
        <3>2. CASE k \notin 1 .. Len(list)
            <4>1. k = Len(list) + 1
                BY <1>1, <2>6, <3>2
            <4> QED BY <2>3, <2>6, <4>1
        <3> QED BY <3>1, <3>2
    <2> QED BY <1>1, <2>4, <2>5, <2>6, <2>8, <2>9
<1>6. CASE found # {}
    <2>1. MetaUpdAdd(id, e) = [n \in DOMAIN list |-> IF n \in found THEN grow(list[n]) ELSE list[n]]
        BY <1>6 DEF MetaUpdAdd
    <2> DEFINE y(n) == IF n \in found THEN grow(list[n]) ELSE list[n]
    <2>2. ASSUME NEW n \in 1 .. Len(list) PROVE y(n) \in Headers /\ y(n).id = list[n].id
        <3>1. list[n] \in Headers
            BY <1>1
        <3>2. grow(list[n]) \in Headers /\ grow(list[n]).id = list[n].id
            BY <1>4, <3>1
        <3> HIDE DEF grow
        <3> QED BY <3>1, <3>2
    <2> HIDE DEF y, grow, found
    <2>3. PICK u : u = [n \in 1 .. Len(list) |-> y(n)]
        OBVIOUS
    <2>4. MetaUpdAdd(id, e) = u
        BY <1>1, <2>1, <2>3 DEF y
    <2>5. u \in Seq(Headers) /\ Len(u) = Len(list) /\ \A n \in 1 .. Len(list) : u[n].id = list[n].id
        BY <1>1, <2>2, <2>3
    <2> QED BY <1>1, <1>2, <2>4, <2>5
<1> QED BY <1>5, <1>6

\* Execute: a small update.
LEMMA PatchKeeps == ASSUME PInv, ExecPatch PROVE PInv'
<1>1. /\ pc = "execute" /\ pos < size /\ Type = UPDINPLACE
      /\ UNCHANGED <<free, log, size, pc, view, ops, begun>>
    BY DEF ExecPatch, Executing
<1>2. PICK n \in 1 .. Len(ops) : AtOp(n)
    BY <1>1, AtEntry
<1>3. PICK l, o, x : l = Extra(ops[n]) /\ o = ops[n].kv.off /\ x = Id1 /\ x \in Ids
    BY <1>2 DEF AtOp, Stands
<1>4. /\ Id2 \div Shift = l /\ Id2 % Shift = o /\ o \in Nat /\ o + l <= MaxVal
      /\ pos + Entry + l <= size /\ OpOK(ops[n])
    BY <1>1, <1>2, <1>3 DEF AtOp, Stands
<1>5. l \in Nat /\ MaxVal \in Nat /\ MaxKey \in Nat
    BY <1>3, <1>4, Sizes, PutAssumption
<1>6. PICK a : a = [i \in Area |-> IF MaxKey + o <= i /\ i < MaxKey + o + l
                                   THEN log[pos + Entry + i - (MaxKey + o)] ELSE blk[x].area[i]]
    OBVIOUS
<1>7. a \in [Area -> Nat]
    <2>1. blk[x].area \in [Area -> Nat]
        BY <1>3 DEF PInv, Shapely, BlockOK
    <2>2. size \in Nat /\ pos \in Nat /\ \A i \in 0 .. size - 1 : log[i] \in Nat
        BY <1>1, Strides
    <2>3. Area \subseteq Int
        BY DEF Area
    <2>4. ASSUME NEW i \in Area, MaxKey + o <= i, i < MaxKey + o + l
          PROVE  log[pos + Entry + i - (MaxKey + o)] \in Nat
        <3>1. pos + Entry + i - (MaxKey + o) \in 0 .. size - 1
            BY <1>4, <1>5, <2>2, <2>3, <2>4 DEF Entry
        <3> QED BY <2>2, <3>1
    <2> QED BY <1>6, <2>1, <2>4
<1>8. /\ pos' = pos + Entry + l /\ list' = MetaUpdAdd(x, o + l)
      /\ blk' = [blk EXCEPT ![x] = [blk[x] EXCEPT !.area = a]]
    BY <1>3, <1>4, <1>6, Zenon DEF ExecPatch
<1>9. BlockOK([blk[x] EXCEPT !.area = a])
    <2>1. BlockOK(blk[x])
        BY <1>3 DEF PInv, Shapely
    <2>2. [blk[x] EXCEPT !.area = a]
            = [sum |-> blk[x].sum, ver |-> blk[x].ver, klen |-> blk[x].klen, vlen |-> blk[x].vlen, area |-> a]
        BY <2>1 DEF BlockOK
    <2> QED BY <1>7, <2>1, <2>2, BlockIs DEF BlockOK
<1>10. blk' = [id \in Ids |-> blk'[id]] /\ \A id \in Ids : BlockOK(blk'[id])
    BY <1>3, <1>8, <1>9, OneBlock
<1>11. o + l \in 0 .. MaxVal
    BY <1>4, <1>5
<1>12. /\ list' \in Seq(Headers) /\ Len(list) \in Nat
       /\ Len(list') \in Nat /\ Len(list') <= Len(list) + 1
       /\ \A j, k \in 1 .. Len(list') : list'[j].id = list'[k].id => j = k
    BY <1>3, <1>8, <1>11, MetaUpdOK
<1>13. Walks'
    BY <1>1, <1>2, <1>3, <1>8, <1>12, WalkOn
<1>14. pos' \in LogWords
    <2>1. size \in Nat /\ pos \in Nat /\ size \in LogWords
        BY <1>1, Strides DEF PInv, Shapely
    <2>2. PICK M \in Nat : LogWords = 0 .. M + 3
        BY Sizes
    <2> QED BY <1>4, <1>5, <1>8, <2>1, <2>2 DEF Entry
<1>15. free' \subseteq Ids
    BY <1>1 DEF PInv, Shapely
<1> QED BY <1>1, <1>10, <1>12, <1>13, <1>14, <1>15, StepKeeps

\* Between transactions nothing is asked of the log.
LEMMA Resting ==
    ASSUME PInv, pc' \in {"idle", "open"}, ops' = <<>>, list' = <<>>, pc' = "open" => size' = 0,
           blk' = [id \in Ids |-> blk'[id]], \A id \in Ids : BlockOK(blk'[id]), free' \subseteq Ids,
           log' = log, size' \in LogWords, pos' \in LogWords, begun' \in Nat,
           DOMAIN view' \subseteq Ids
    PROVE  PInv'
<1>1. ops' \in Seq(Op) /\ Len(ops') = 0
    OBVIOUS
<1>2. RefAfter' = view'
    <2>1. RefAfter' = RefFor(view', <<>>)
        BY RefAfterIs
    <2>2. PICK v, y : v = view' /\ y = [type |-> REMOVE, id1 |-> 1, id2 |-> 0]
        OBVIOUS
    <2>3. RefFor(v, <<>>) = v
        <3>1. <<>> \in Seq({y})
            OBVIOUS
        <3>2. y \in {y}
            OBVIOUS
        <3> QED BY <3>1, <3>2, RefAppend
    <2> QED BY <2>1, <2>2, <2>3
<1>3. MaxOps \in Nat
    BY PutAssumption
<1>4. Shapely'
    BY <1>1, <1>2, <1>3 DEF Shapely, PInv
<1>5. Placed' /\ Place'[1] = 0
    BY <1>1, PlaceIs, PlaceNone DEF Placed, PlacesOf
<1>6. Logged'
    BY <1>1, <1>5, Sizes DEF Logged
<1>7. Walks'
    BY DEF Walks
<1> QED BY <1>4, <1>5, <1>6, <1>7 DEF PInv

\* Execute: the headers that wait, and the end.
LEMMA EndKeeps == ASSUME PInv, ExecEnd PROVE PInv'
<1>1. /\ pc' = "idle" /\ pos' = 0 /\ list' = <<>> /\ ops' = <<>> /\ view' = RefAfter
      /\ UNCHANGED <<free, log, size, begun>> /\ pc = "execute"
    BY DEF ExecEnd
<1> DEFINE h(id) == list[CHOOSE n \in DOMAIN list : list[n].id = id]
           y(id) == IF \E n \in DOMAIN list : list[n].id = id THEN Refresh(blk[id], h(id)) ELSE blk[id]
<1>2. blk' = [id \in Ids |-> y(id)]
    BY DEF ExecEnd
<1>3. ASSUME NEW id \in Ids PROVE BlockOK(y(id))
    <2>1. BlockOK(blk[id])
        BY DEF PInv, Shapely
    <2>2. CASE \E n \in DOMAIN list : list[n].id = id
        <3>1. PICK n \in DOMAIN list : n = CHOOSE k \in DOMAIN list : list[k].id = id
            BY <2>2, Zenon
        <3>2. list[n] \in Headers
            BY <3>1 DEF PInv, Shapely
        <3>3. h(id) = list[n]
            BY <3>1
        <3>4. BlockOK(Refresh(blk[id], h(id)))
            BY <2>1, <3>2, <3>3, RefreshOK
        <3> QED BY <2>2, <3>4
    <2>3. CASE ~ \E n \in DOMAIN list : list[n].id = id
        BY <2>1, <2>3
    <2> QED BY <2>2, <2>3
<1> HIDE DEF y
<1>4. blk' = [id \in Ids |-> blk'[id]] /\ \A id \in Ids : BlockOK(blk'[id])
    BY <1>2, <1>3
<1>5. free' \subseteq Ids /\ size' \in LogWords /\ begun' \in Nat /\ DOMAIN view' \subseteq Ids
    BY <1>1 DEF PInv, Shapely
<1>6. pos' \in LogWords
    BY <1>1, Strides
<1> QED BY <1>1, <1>4, <1>5, <1>6, Resting

\* 0 is a word.
LEMMA FirstWord == 0 \in LogWords
<1>1. PICK M \in Nat : LogWords = 0 .. M + 3
    BY Sizes
<1> QED BY <1>1

\* pmb_tx_begin.
LEMMA BeginKeeps == ASSUME PInv, Begin PROVE PInv'
<1>1. /\ pc' = "open" /\ size' = 0 /\ ops' = <<>> /\ begun' = begun + 1 /\ pc = "idle"
      /\ UNCHANGED <<blk, free, log, pos, list, view>>
    BY DEF Begin
<1>2. /\ blk' = [id \in Ids |-> blk'[id]] /\ (\A id \in Ids : BlockOK(blk'[id])) /\ free' \subseteq Ids
      /\ pos' \in LogWords /\ begun' \in Nat /\ DOMAIN view' \subseteq Ids
    BY <1>1 DEF PInv, Shapely
<1>3. list' = <<>>
    BY <1>1 DEF PInv, Walks
<1> QED BY <1>1, <1>2, <1>3, FirstWord, Resting

\* A walk starts: execute at the first operation.
LEMMA StartKeeps == ASSUME PInv, TxExecute \/ TxAbort \/ Crash PROVE PInv'
<1>1. /\ pc = "open" /\ pc' \in {"execute", "abort", "check"} /\ pos' = 0
      /\ UNCHANGED <<blk, free, log, size, list, view, ops, begun>>
    BY DEF TxExecute, TxAbort, Crash
<1>2. /\ blk' = [id \in Ids |-> blk'[id]] /\ (\A id \in Ids : BlockOK(blk'[id])) /\ free' \subseteq Ids
      /\ list' \in Seq(Headers)
    BY <1>1 DEF PInv, Shapely
<1>3. Place' = Place /\ Place[1] = 0 /\ Len(ops) \in Nat /\ list' = <<>> /\ list = <<>>
    BY <1>1, SameOps DEF PInv, Placed, Shapely, Walks
<1>4. 1 \in 1 .. Len(ops) + 1 /\ Len(list') < 1
    BY <1>3
<1>5. Walks'
    BY <1>1, <1>3, <1>4 DEF Walks
<1> QED BY <1>1, <1>2, <1>5, FirstWord, StepKeeps

\* The walks that undo, an entry.
LEMMA UndoKeeps == ASSUME PInv, AbortEntry \/ CheckEntry PROVE PInv'
<1>1. /\ pc \in {"abort", "check"} /\ pos < size /\ pos' = pos + Entry
      /\ blk' = [id \in Ids |-> IF id = NewId THEN SetZero(blk[id]) ELSE blk[id]]
      /\ free' \subseteq free \cup Ids
      /\ UNCHANGED <<log, size, pc, list, view, ops, begun>>
    <2>1. CASE AbortEntry
        BY <2>1 DEF AbortEntry
    <2>2. CASE CheckEntry
        <3>1. ~ (pos >= size) /\ size \in Nat /\ pos \in Nat
            BY <2>2, Strides DEF CheckEntry, CheckOver
        <3> QED BY <2>2, <3>1 DEF CheckEntry
    <2> QED BY <2>1, <2>2
<1>2. ASSUME NEW id \in Ids PROVE BlockOK(IF id = NewId THEN SetZero(blk[id]) ELSE blk[id])
    BY SetZeroOK DEF PInv, Shapely
<1>3. blk' = [id \in Ids |-> blk'[id]] /\ \A id \in Ids : BlockOK(blk'[id])
    BY <1>1, <1>2
<1>4. free' \subseteq Ids /\ list' \in Seq(Headers)
    BY <1>1 DEF PInv, Shapely
<1>5. pos' \in LogWords
    BY <1>1, Strides
<1>6. Walks'
    BY <1>1 DEF PInv, Walks
<1>7. pc # "idle" /\ pc' \in {"open", "execute", "abort", "check"}
    BY <1>1
<1> QED BY <1>1, <1>3, <1>4, <1>5, <1>6, <1>7, StepKeeps

\* The walks that undo, the end.
LEMMA UndoneKeeps == ASSUME PInv, AbortEnd \/ CheckEnd PROVE PInv'
<1>1. /\ pc \in {"abort", "check"} /\ pc' = "idle" /\ pos' = 0 /\ ops' = <<>>
      /\ list' \in {list, <<>>} /\ UNCHANGED <<blk, log, size, view, begun>>
      /\ free' \subseteq free \cup Ids
    BY DEF AbortEnd, CheckEnd
<1>2. /\ blk' = [id \in Ids |-> blk'[id]] /\ (\A id \in Ids : BlockOK(blk'[id])) /\ free' \subseteq Ids
      /\ size' \in LogWords /\ begun' \in Nat /\ DOMAIN view' \subseteq Ids
    BY <1>1 DEF PInv, Shapely
<1>3. list' = <<>>
    BY <1>1 DEF PInv, Walks
<1> QED BY <1>1, <1>2, <1>3, FirstWord, Resting

\* Nothing happens.
LEMMA StutterKeeps == ASSUME PInv, UNCHANGED vars PROVE PInv'
<1>1. UNCHANGED <<blk, free, log, size, pc, pos, list, view, ops, begun>>
    BY DEF vars
<1>2. Place' = Place /\ RefAfter' = RefAfter
    BY <1>1, SameOps
<1>3. Shapely'
    BY <1>1, <1>2 DEF PInv, Shapely
<1>4. Placed' /\ Logged' /\ Walks'
    BY <1>1, <1>2 DEF PInv, Placed, Logged, Walks
<1> QED BY <1>3, <1>4 DEF PInv

-----------------------------------------------------------------------------
(* The theorems. *)

\* The invariant holds of a new store.
LEMMA PInvInit == ASSUME Init PROVE PInv
<1>1. /\ blk = [id \in Ids |-> ZeroBlock] /\ free = Ids /\ log = [i \in LogWords |-> 0] /\ size = 0
      /\ pc = "idle" /\ pos = 0 /\ list = <<>> /\ view = <<>> /\ ops = <<>> /\ begun = 0
    BY DEF Init
<1>2. RefAfter = <<>>
    <2>1. RefAfter = RefFor(<<>>, <<>>)
        BY <1>1, RefAfterIs
    <2>2. PICK v, y, s : v = <<>> /\ y \in {0} /\ s = <<>>
        OBVIOUS
    <2>3. s \in Seq({0})
        BY <2>2
    <2>4. RefFor(v, <<>>) = v
        BY <2>2, <2>3, RefAppend
    <2> QED BY <2>1, <2>2, <2>4
<1>3. blk = [id \in Ids |-> blk[id]] /\ \A id \in Ids : BlockOK(blk[id])
    BY <1>1, ZeroBlockOK
<1>4. log \in [LogWords -> Nat] /\ size \in LogWords /\ pos \in LogWords
    BY <1>1, FirstWord
<1>5. list \in Seq(Headers) /\ ops \in Seq(Op) /\ Len(ops) = 0 /\ MaxOps \in Nat
    BY <1>1, PutAssumption
<1>6. DOMAIN view \subseteq Ids
    BY <1>1
<1>7. Shapely
    <2> HIDE DEF Ids
    <2> QED BY <1>1, <1>2, <1>3, <1>4, <1>5, <1>6 DEF Shapely
<1>8. Placed
    BY <1>1, PlaceNone
<1>9. Logged /\ Walks
    BY <1>1 DEF Logged, Walks
<1> QED BY <1>7, <1>8, <1>9 DEF PInv

\* Every step keeps it.
LEMMA PInvStep == ASSUME PInv, [Next]_vars PROVE PInv'
<1>1. ASSUME NEW kv \in Args, TPutNew(kv) PROVE PInv'
    BY <1>1, NewKeeps
<1>2. ASSUME NEW id \in Ids, NEW kv \in Args, TPutUpdate(id, kv) PROVE PInv'
    BY <1>2, UpdateKeeps
<1>3. ASSUME NEW id \in Ids, NEW kv \in Args, TPutSmall(id, kv) PROVE PInv'
    BY <1>3, SmallKeeps
<1>4. ASSUME NEW id \in Ids, TDel(id) PROVE PInv'
    BY <1>4, RemoveKeeps
<1>5. CASE Begin
    BY <1>5, BeginKeeps
<1>6. CASE TxExecute \/ TxAbort \/ Crash
    BY <1>6, StartKeeps
<1>7. CASE ExecRelease
    BY <1>7, ReleaseKeeps
<1>8. CASE ExecPatch
    BY <1>8, PatchKeeps
<1>9. CASE ExecSkip
    BY <1>9, SkipKeeps
<1>10. CASE ExecEnd
    BY <1>10, EndKeeps
<1>11. CASE AbortEntry \/ CheckEntry
    BY <1>11, UndoKeeps
<1>12. CASE AbortEnd \/ CheckEnd
    BY <1>12, UndoneKeeps
<1>13. CASE UNCHANGED vars
    BY <1>13, StutterKeeps
<1> QED BY <1>1, <1>2, <1>3, <1>4, <1>5, <1>6, <1>7, <1>8, <1>9, <1>10, <1>11, <1>12, <1>13 DEF Next

\* The log holds the transaction's operations, one behind the other and as
\* they were asked for, and execute stands at one of them or at the end.
THEOREM PutInvariant == Spec => []PInv
<1>1. Init => PInv
    BY PInvInit
<1>2. PInv /\ [Next]_vars => PInv'
    BY PInvStep
<1> QED BY <1>1, <1>2, PTL DEF Spec

\* Blocks, log and list keep their types: no walk leaves the words of the
\* slot and no value the area of its block, whatever lengths clients put.
THEOREM PutType == Spec => []TypeOK
<1>1. PInv => TypeOK
    <2>1. ASSUME PInv PROVE TypeOK
        <3>1. \A id \in Ids : blk[id].area \in [Area -> Nat] /\ blk[id].klen \in 0 .. MaxKey
                               /\ blk[id].vlen \in 0 .. MaxVal /\ blk[id].ver \in Nat
            BY <2>1 DEF PInv, Shapely, BlockOK
        <3>2. \A n \in DOMAIN list : list[n].id \in Ids
            <4>1. list \in Seq(Headers)
                BY <2>1 DEF PInv, Shapely
            <4>2. \A n \in DOMAIN list : list[n] \in Headers
                BY <4>1
            <4> QED BY <4>2 DEF Headers
        <3> QED BY <2>1, <3>1, <3>2 DEF PInv, Shapely, TypeOK
    <2> QED BY <2>1
<1> QED BY <1>1, PutInvariant, PTL

\* tx_slot_execute meets the operations of its transaction, all of them and
\* nothing else, with the numbers, offsets and payloads that were logged.
THEOREM PutExecuteExact == Spec => []ExecuteExact
<1>1. PInv => ExecuteExact
    <2> SUFFICES ASSUME PInv, pc = "execute"
                 PROVE  \E n \in DOMAIN Place :
                          /\ pos = Place[n]
                          /\ (n = Len(ops) + 1) = (pos >= size)
                          /\ n <= Len(ops) =>
                                /\ Type = ops[n].type /\ Id1 = ops[n].id1
                                /\ Type = UPDATE => Id2 = ops[n].id2
                                /\ Type = UPDINPLACE =>
                                      /\ Id2 = Len(ops[n].kv.data) * Shift + ops[n].kv.off
                                      /\ \A j \in DOMAIN ops[n].kv.data :
                                            log[pos + Entry + j - 1] = ops[n].kv.data[j]
        BY DEF ExecuteExact
    <2>1. PICK n \in 1 .. Len(ops) + 1 : pos = Place[n]
        BY DEF PInv, Walks
    <2>2. n \in DOMAIN Place /\ Len(ops) \in Nat /\ Place[Len(ops) + 1] = size /\ size \in Nat
        BY Strides DEF PInv, Placed, Shapely, Logged
    <2>3. ASSUME n \in 1 .. Len(ops)
          PROVE  /\ Place[n] + Entry + Extra(ops[n]) <= size /\ WordsOf(log, ops[n], Place[n])
                 /\ Extra(ops[n]) \in Nat /\ Place[n] \in Nat /\ OpOK(ops[n])
        BY <2>3, <2>1, Sizes DEF PInv, Logged, Shapely, Placed
    <2>4. (n = Len(ops) + 1) = (pos >= size)
        <3>1. CASE n = Len(ops) + 1
            BY <2>1, <2>2, <3>1
        <3>2. CASE n \in 1 .. Len(ops)
            <4>1. pos < size /\ pos \in Nat
                BY <2>1, <2>2, <2>3, <3>2 DEF Entry
            <4>2. n # Len(ops) + 1
                BY <2>2, <3>2
            <4> QED BY <2>2, <4>1, <4>2
        <3> QED BY <2>2, <3>1, <3>2
    <2>5. ASSUME n <= Len(ops)
          PROVE  /\ Type = ops[n].type /\ Id1 = ops[n].id1
                 /\ Type = UPDATE => Id2 = ops[n].id2
                 /\ Type = UPDINPLACE =>
                       /\ Id2 = Len(ops[n].kv.data) * Shift + ops[n].kv.off
                       /\ \A j \in DOMAIN ops[n].kv.data :
                             log[pos + Entry + j - 1] = ops[n].kv.data[j]
        <3>1. n \in 1 .. Len(ops)
            BY <2>2, <2>5
        <3>2. WordsOf(log, ops[n], pos) /\ OpOK(ops[n])
            BY <2>1, <2>3, <3>1
        <3>3. Type = ops[n].type /\ Id1 = ops[n].id1 /\ (Type = UPDATE => Id2 = ops[n].id2)
            BY <3>2 DEF WordsOf, Type, Id1, Id2
        <3>4. ASSUME Type = UPDINPLACE
              PROVE  /\ Id2 = Len(ops[n].kv.data) * Shift + ops[n].kv.off
                     /\ \A j \in DOMAIN ops[n].kv.data :
                           log[pos + Entry + j - 1] = ops[n].kv.data[j]
            <4>1. ops[n].type = UPDINPLACE
                BY <3>3, <3>4
            <4>2. ops[n].kv \in Kv
                BY <3>2, <4>1 DEF OpOK, UPDINPLACE, REMOVE
            <4>3. DOMAIN ops[n].kv.data = 1 .. Len(ops[n].kv.data)
                BY <4>2 DEF Kv
            <4>4. /\ Id2 = Len(ops[n].kv.data) * Shift + ops[n].kv.off
                  /\ \A j \in 1 .. Len(ops[n].kv.data) : log[pos + Entry + j - 1] = ops[n].kv.data[j]
                BY <3>2, <4>1, Zenon DEF WordsOf, Id2
            <4> QED BY <4>3, <4>4
        <3> QED BY <3>3, <3>4
    <2> QED BY <2>1, <2>2, <2>4, <2>5
<1> QED BY <1>1, PutInvariant, PTL

\* The headers that wait are those of blocks that this transaction updates in
\* place.
Waits == \A k \in 1 .. Len(list) : list[k].id \in Patched

\* A small update adds the one of its own block.
LEMMA PatchWaits == ASSUME PInv, Waits, ExecPatch PROVE Waits'
<1>1. pc = "execute" /\ pos < size /\ Type = UPDINPLACE /\ ops' = ops
    BY DEF ExecPatch, Executing
<1>2. PICK n \in 1 .. Len(ops) : AtOp(n)
    BY <1>1, AtEntry
<1>3. PICK e, x : e = (Id2 % Shift) + (Id2 \div Shift) /\ x = Id1 /\ list' = MetaUpdAdd(x, e)
    BY DEF ExecPatch
<1>4. x \in Ids /\ x = ops[n].id1 /\ ops[n].type = UPDINPLACE /\ OpOK(ops[n])
    BY <1>1, <1>2, <1>3 DEF AtOp, Stands
<1>5. e \in 0 .. MaxVal
    <2>1. e = ops[n].kv.off + Extra(ops[n]) /\ ops[n].kv.off \in Nat /\ ops[n].kv.off + Extra(ops[n]) <= MaxVal
        BY <1>1, <1>2, <1>3 DEF AtOp, Stands
    <2>2. Extra(ops[n]) \in Nat
        BY <1>4, Sizes
    <2> QED BY <2>1, <2>2, PutAssumption
<1>6. x \in Patched
    <2>1. n \in DOMAIN ops
        BY DEF PInv, Shapely
    <2> QED BY <1>4, <2>1 DEF Patched
<1>7. ASSUME NEW k \in 1 .. Len(list') PROVE list'[k].id \in Patched
    <2>1. list'[k].id = x \/ \E l \in 1 .. Len(list) : list[l].id = list'[k].id
        BY <1>3, <1>4, <1>5, MetaUpdOK
    <2> QED BY <1>6, <2>1 DEF Waits
<1>8. Patched' = Patched
    BY <1>1 DEF Patched
<1> QED BY <1>7, <1>8 DEF Waits

\* So does every step.
LEMMA WaitsStep == ASSUME PInv, PInv', Waits, [Next]_vars PROVE Waits'
<1>1. CASE pc' # "execute"
    <2>1. list' = <<>>
        BY <1>1 DEF PInv, Walks
    <2> QED BY <2>1 DEF Waits
<1>2. CASE pc' = "execute" /\ ~ ExecPatch
    <2>1. ops' = ops /\ list' = list
        BY <1>2 DEF Next, vars, Begin, TPutNew, TPutUpdate, TPutSmall, TDel, CanLog, TxExecute, ExecRelease,
                    ExecSkip, ExecEnd, TxAbort, AbortEntry, AbortEnd, Crash, CheckEntry, CheckEnd
    <2> QED BY <2>1 DEF Waits, Patched
<1>3. CASE ExecPatch
    BY <1>3, PatchWaits
<1> QED BY <1>1, <1>2, <1>3

\* tx_slot_meta_upd_add keeps no more entries than the transaction has blocks
\* that it updates in place, for every sequence of operations: a list of that
\* many entries would do, however many small updates each block gets.
THEOREM PutListFits == Spec => []ListFits
<1>1. Init => Waits
    BY DEF Init, Waits
<1>2. PInv /\ PInv' /\ Waits /\ [Next]_vars => Waits'
    BY WaitsStep
<1>3. PInv /\ Waits => ListFits
    <2> SUFFICES ASSUME PInv, Waits PROVE Len(list) <= Cardinality(Patched)
        BY DEF ListFits
    <2>1. Len(list) \in Nat /\ NBlocks \in Nat
        BY PutAssumption DEF PInv, Shapely
    <2>2. ASSUME NEW n \in Nat PROVE IsFiniteSet(1 .. n) /\ Cardinality(1 .. n) = n
        <3>1. IsFiniteSet(1 .. n) /\ Cardinality(1 .. n) = IF 1 > n THEN 0 ELSE (n - 1) + 1
            BY FS_Interval
        <3> QED BY <3>1
    <2>3. Patched \in SUBSET Ids
        <3>1. DOMAIN ops = 1 .. Len(ops) /\ \A n \in 1 .. Len(ops) : ops[n].id1 \in Ids
            BY DEF PInv, Shapely, OpOK, Op
        <3> QED BY <3>1 DEF Patched
    <2>4. IsFiniteSet(Ids)
        BY <2>1, <2>2 DEF Ids
    <2>5. IsFiniteSet(Patched)
        BY <2>3, <2>4, FS_Subset
    <2>6. PICK f : f = [k \in 1 .. Len(list) |-> list[k].id]
        OBVIOUS
    <2>7. \A k, l \in 1 .. Len(list) : list[k].id = list[l].id => k = l
        BY DEF PInv, Walks
    <2>8. f \in Injection(1 .. Len(list), Patched)
        BY <2>6, <2>7 DEF Injection, IsInjective, Waits
    <2>9. Cardinality(1 .. Len(list)) <= Cardinality(Patched)
        BY <2>5, <2>8, FS_Injection
    <2> QED BY <2>1, <2>2, <2>9
<1> QED BY <1>1, <1>2, <1>3, PutInvariant, PTL DEF Spec

-----------------------------------------------------------------------------
(* Blocks and the objects they hold. *)

\* An object of the reference, and a block with its key and bytes
RefOK(o) ==
    /\ o.ver \in Nat /\ o.klen \in 0 .. MaxKey /\ o.len \in 0 .. MaxVal
    /\ DOMAIN o.bytes \subseteq 0 .. o.len - 1
Body(b, o) ==
    /\ RefOK(o) /\ b.klen = o.klen
    /\ \A j \in DOMAIN o.bytes : b.area[MaxKey + j] = o.bytes[j]

\* The block holds the object, and recovery would keep it.
Holds(b, o) == Body(b, o) /\ b.ver = o.ver /\ b.vlen = o.len /\ Verifies(b)

\* What a small update does to an object
Patch(o, kv) == [RefPut(o, kv) EXCEPT !.klen = o.klen]

\* Bytes that fit into a block.
Fits(kv) == kv.off \in Nat /\ kv.data \in Seq(Nat) /\ kv.off + Len(kv.data) <= MaxVal /\ kv.klen \in 1 .. MaxKey

\* A fresh checksum verifies.
LEMMA SumVerifies ==
    ASSUME NEW s, NEW v, NEW k, NEW l, NEW a,
           s = Sum([sum |-> NoSum, ver |-> v, klen |-> k, vlen |-> l, area |-> a], MaxKey + l)
    PROVE  Verifies([sum |-> s, ver |-> v, klen |-> k, vlen |-> l, area |-> a])
<1>1. PICK f : f = [i \in 0 .. (MaxKey + l) - 1 |-> a[i]]
    OBVIOUS
<1>2. s = <<v, k, l, f>>
    BY <1>1 DEF Sum
<1>3. PICK b : b = [sum |-> s, ver |-> v, klen |-> k, vlen |-> l, area |-> a]
    OBVIOUS
<1>4. b.sum = s /\ b.vlen = l /\ Sum(b, MaxKey + l) = <<v, k, l, f>>
    BY <1>1, <1>3 DEF Sum
<1>5. s # NoSum
    BY <1>2 DEF NoSum
<1> QED BY <1>2, <1>3, <1>4, <1>5 DEF Verifies

\* The sum of a block does not depend on the one it has.
LEMMA SumOf ==
    ASSUME NEW b, NEW n
    PROVE  Sum(b, n) = Sum([sum |-> NoSum, ver |-> b.ver, klen |-> b.klen, vlen |-> b.vlen, area |-> b.area], n)
BY DEF Sum

\* What is put into an object is an object.
LEMMA RefPutOK ==
    ASSUME NEW o, RefOK(o), NEW kv, Fits(kv), NEW e, e = kv.off + Len(kv.data)
    PROVE  /\ RefOK(RefPut(o, kv)) /\ RefOK(Patch(o, kv))
           /\ RefPut(o, kv).klen = kv.klen /\ Patch(o, kv).klen = o.klen
           /\ RefPut(o, kv).ver = o.ver + 1 /\ Patch(o, kv).ver = o.ver + 1
           /\ RefPut(o, kv).len = Larger(e, o.len)
           /\ Patch(o, kv).len = Larger(e, o.len)
           /\ Patch(o, kv).bytes = RefPut(o, kv).bytes
           /\ DOMAIN RefPut(o, kv).bytes = DOMAIN o.bytes \cup (kv.off .. e - 1)
           /\ \A j \in DOMAIN RefPut(o, kv).bytes : RefPut(o, kv).bytes[j] =
                 IF j \in kv.off .. e - 1 THEN kv.data[j - kv.off + 1] ELSE o.bytes[j]
<1> DEFINE new == kv.off .. e - 1
<1>0. PICK w : w = [j \in DOMAIN o.bytes \cup new |->
                      IF j \in new THEN kv.data[j - kv.off + 1] ELSE o.bytes[j]]
    OBVIOUS
<1>1. PICK d, v, l : /\ d = DOMAIN o.bytes \cup new
                     /\ v = o.ver + 1 /\ l = Larger(e, o.len)
    OBVIOUS
<1>2. RefPut(o, kv) = [klen |-> kv.klen, ver |-> v, len |-> l, bytes |-> w]
    <2>1. RefPut(o, kv) = [klen |-> kv.klen, ver |-> o.ver + 1, len |-> Larger(e, o.len), bytes |-> w]
        <3>1. PICK n : n = new
            OBVIOUS
        <3>2. RefPut(o, kv) = [klen |-> kv.klen, ver |-> o.ver + 1, len |-> Larger(e, o.len),
                               bytes |-> [j \in DOMAIN o.bytes \cup n |->
                                  IF j \in n THEN kv.data[j - kv.off + 1] ELSE o.bytes[j]]]
            BY <3>1 DEF RefPut
        <3> HIDE DEF new
        <3> QED BY <1>0, <3>1, <3>2
    <2> QED BY <1>1, <2>1, Zenon
<1>3. PICK p : p = [klen |-> o.klen, ver |-> v, len |-> l, bytes |-> w]
    OBVIOUS
<1>4. Patch(o, kv) = p
    BY <1>2, <1>3 DEF Patch
<1>5. MaxVal \in Nat /\ MaxKey \in Nat /\ e \in Nat
    BY PutAssumption DEF Fits
<1>6. v \in Nat /\ l \in 0 .. MaxVal /\ DOMAIN w = d /\ d \subseteq 0 .. l - 1
    <2>1. /\ o.ver \in Nat /\ o.len \in 0 .. MaxVal /\ DOMAIN o.bytes \subseteq 0 .. o.len - 1
          /\ kv.off \in Nat /\ e <= MaxVal
        BY DEF Fits, RefOK
    <2>2. v \in Nat /\ l \in 0 .. MaxVal /\ o.len <= l /\ e <= l
        BY <1>1, <1>5, <2>1 DEF Larger
    <2>3. new \subseteq 0 .. l - 1 /\ 0 .. o.len - 1 \subseteq 0 .. l - 1
        BY <1>5, <2>1, <2>2
    <2>4. DOMAIN w = d
        BY <1>0, <1>1
    <2> QED BY <1>1, <2>1, <2>2, <2>3, <2>4
<1>7. kv.klen \in 0 .. MaxKey /\ o.klen \in 0 .. MaxKey
    BY <1>5 DEF Fits, RefOK
<1>8. RefOK(RefPut(o, kv)) /\ RefOK(p)
    <2>1. PICK q : q = [klen |-> kv.klen, ver |-> v, len |-> l, bytes |-> w]
        OBVIOUS
    <2>2. q.ver = v /\ q.klen = kv.klen /\ q.len = l /\ q.bytes = w
        BY <2>1
    <2>3. p.ver = v /\ p.klen = o.klen /\ p.len = l /\ p.bytes = w
        BY <1>3
    <2>4. RefOK(q) /\ RefOK(p)
        BY <1>6, <1>7, <2>2, <2>3 DEF RefOK
    <2> QED BY <1>2, <2>1, <2>4
<1>9. /\ RefPut(o, kv).klen = kv.klen /\ RefPut(o, kv).ver = v /\ RefPut(o, kv).len = l
      /\ RefPut(o, kv).bytes = w
    BY <1>2
<1>10. p.klen = o.klen /\ p.ver = v /\ p.len = l /\ p.bytes = w
    BY <1>3
<1>11. \A j \in d : w[j] = IF j \in new THEN kv.data[j - kv.off + 1] ELSE o.bytes[j]
    BY <1>0, <1>1
<1> HIDE DEF new
<1>12. DOMAIN RefPut(o, kv).bytes = DOMAIN o.bytes \cup new
    BY <1>1, <1>6, <1>9
<1>13. \A j \in DOMAIN RefPut(o, kv).bytes : RefPut(o, kv).bytes[j] =
            IF j \in new THEN kv.data[j - kv.off + 1] ELSE o.bytes[j]
    BY <1>6, <1>9, <1>11
<1> QED BY <1>1, <1>4, <1>8, <1>9, <1>10, <1>12, <1>13, Zenon DEF new

\* pmb_tput leaves in the block what the reference says, if it found the old
\* object in its block.
LEMMA PutHolds ==
    ASSUME NEW b, BlockOK(b), NEW old, BlockOK(old), NEW kv, Fits(kv), NEW o, RefOK(o),
           old.ver = o.ver, old.vlen = o.len,
           \A j \in DOMAIN o.bytes : old.area[MaxKey + j] = o.bytes[j],
           kv.data = <<>> => o.len = 0
    PROVE  Holds(PutBlock(b, old, kv), RefPut(o, kv))
<1>1. PICK e : e = kv.off + Len(kv.data)
    OBVIOUS
<1> DEFINE new == kv.off .. e - 1
           len == IF kv.data # <<>> THEN Larger(e, old.vlen) ELSE e
           ar == [i \in Area |-> IF i < kv.klen THEN KeyByte
                                 ELSE IF i < MaxKey \/ kv.data = <<>> THEN b.area[i]
                                 ELSE ValueByte(b, old, kv, i - MaxKey)]
<1>2. PICK p : p = RefPut(o, kv)
    OBVIOUS
<1>3. /\ RefOK(p) /\ p.klen = kv.klen /\ p.ver = o.ver + 1 /\ p.len = Larger(e, o.len)
      /\ DOMAIN p.bytes = DOMAIN o.bytes \cup new
      /\ \A j \in DOMAIN p.bytes : p.bytes[j] = IF j \in new THEN kv.data[j - kv.off + 1] ELSE o.bytes[j]
    BY <1>1, <1>2, RefPutOK
<1>4. MaxKey \in Nat /\ MaxVal \in Nat /\ Len(kv.data) \in Nat /\ e \in Nat
    BY <1>1, PutAssumption DEF Fits
<1>5. PICK l, a : l = len /\ a = ar
    OBVIOUS
<1>6. PICK s : s = Sum([b EXCEPT !.klen = kv.klen, !.vlen = l, !.ver = old.ver + 1, !.area = a], MaxKey + l)
    OBVIOUS
<1>7. PutBlock(b, old, kv) = [sum |-> s, ver |-> old.ver + 1, klen |-> kv.klen, vlen |-> l, area |-> a]
    <2>1. PutBlock(b, old, kv) =
            [[b EXCEPT !.klen = kv.klen, !.vlen = l, !.ver = old.ver + 1, !.area = a] EXCEPT !.sum = s]
        BY <1>1, <1>5, <1>6, Zenon DEF PutBlock, WithSum
    <2> QED BY <2>1 DEF BlockOK
<1>8. Verifies(PutBlock(b, old, kv))
    <2>1. PICK c : c = [b EXCEPT !.klen = kv.klen, !.vlen = l, !.ver = old.ver + 1, !.area = a]
        OBVIOUS
    <2>2. c.ver = old.ver + 1 /\ c.klen = kv.klen /\ c.vlen = l /\ c.area = a
        BY <2>1 DEF BlockOK
    <2>3. s = Sum([sum |-> NoSum, ver |-> old.ver + 1, klen |-> kv.klen, vlen |-> l, area |-> a], MaxKey + l)
        <3>1. s = Sum(c, MaxKey + l)
            BY <1>6, <2>1, Zenon
        <3>2. s = Sum([sum |-> NoSum, ver |-> c.ver, klen |-> c.klen, vlen |-> c.vlen, area |-> c.area], MaxKey + l)
            BY <3>1, SumOf, Zenon
        <3> QED BY <2>2, <3>2, Zenon
    <2> QED BY <1>7, <2>3, SumVerifies
<1>9. l = Larger(e, o.len)
    BY <1>1, <1>4, <1>5 DEF Larger, RefOK, Fits
<1>10. ASSUME NEW j \in DOMAIN p.bytes PROVE a[MaxKey + j] = p.bytes[j]
    <2>1. j \in 0 .. p.len - 1 /\ p.len \in 0 .. MaxVal /\ j \in Nat /\ j < MaxVal
        BY <1>3, <1>4 DEF RefOK
    <2>2. kv.data # <<>>
        <3> SUFFICES ASSUME kv.data = <<>> PROVE FALSE
            OBVIOUS
        <3>1. e = kv.off /\ o.len = 0
            BY <1>1 DEF Fits
        <3>2. new = {} /\ 0 .. o.len - 1 = {}
            BY <1>4, <3>1
        <3> QED BY <1>3, <3>2 DEF RefOK
    <2>3. MaxKey + j \in Area /\ ~ (MaxKey + j < kv.klen) /\ ~ (MaxKey + j < MaxKey)
          /\ (MaxKey + j) - MaxKey = j
        <3>1. kv.klen \in 1 .. MaxKey
            BY DEF Fits
        <3>2. MaxKey + j \in 0 .. MaxKey + MaxVal - 1
            BY <1>4, <2>1
        <3> HIDE DEF ar, len, new
        <3>3. ~ (MaxKey + j < kv.klen) /\ ~ (MaxKey + j < MaxKey) /\ (MaxKey + j) - MaxKey = j
            BY <1>4, <2>1, <3>1
        <3> QED BY <3>2, <3>3 DEF Area
    <2>4. a[MaxKey + j] = ValueByte(b, old, kv, j)
        <3>1. a[MaxKey + j] = ValueByte(b, old, kv, (MaxKey + j) - MaxKey)
            BY <1>5, <2>2, <2>3
        <3> QED BY <2>3, <3>1
    <2>5. CASE j \in new
        <3>1. kv.off <= j /\ j < e
            BY <1>4, <2>5 DEF Fits
        <3>2. ValueByte(b, old, kv, j) = kv.data[j - kv.off + 1]
            BY <1>1, <3>1 DEF ValueByte
        <3> QED BY <1>3, <2>4, <2>5, <3>2
    <2>6. CASE j \notin new
        <3>1. j \in DOMAIN o.bytes /\ j \in 0 .. o.len - 1 /\ o.len \in Nat
            BY <1>3, <1>4, <2>6 DEF RefOK
        <3>2. ~ (kv.off <= j /\ j < e) /\ kv.off \in Nat
            BY <1>4, <2>1, <2>6 DEF Fits
        <3>3. j < Smaller(kv.off, old.vlen) \/ (e <= j /\ j < old.vlen)
            BY <1>4, <2>1, <3>1, <3>2 DEF Smaller
        <3>4. ValueByte(b, old, kv, j) = old.area[MaxKey + j]
            BY <1>1, <3>2, <3>3 DEF ValueByte
        <3> QED BY <1>3, <2>4, <2>6, <3>1, <3>4
    <2> QED BY <2>5, <2>6
<1>11. PICK q : q = PutBlock(b, old, kv)
    OBVIOUS
<1>12. q.ver = old.ver + 1 /\ q.klen = kv.klen /\ q.vlen = l /\ q.area = a
    BY <1>7, <1>11
<1>13. Holds(q, p)
    BY <1>3, <1>8, <1>9, <1>10, <1>11, <1>12 DEF Holds, Body
<1> QED BY <1>2, <1>11, <1>13

\* A refreshed header.
LEMMA RefreshHolds ==
    ASSUME NEW b, BlockOK(b), NEW m, NEW o, Body(b, o), m.ver = o.ver, m.len = o.len
    PROVE  Holds(Refresh(b, m), o)
<1>1. PICK s : s = Sum([b EXCEPT !.ver = m.ver, !.vlen = m.len], MaxKey + m.len)
    OBVIOUS
<1>2. Refresh(b, m) = [sum |-> s, ver |-> m.ver, klen |-> b.klen, vlen |-> m.len, area |-> b.area]
    <2>1. Refresh(b, m) = [[b EXCEPT !.ver = m.ver, !.vlen = m.len] EXCEPT !.sum = s]
        BY <1>1, Zenon DEF Refresh, WithSum
    <2> QED BY <2>1 DEF BlockOK
<1>3. PICK c : c = [b EXCEPT !.ver = m.ver, !.vlen = m.len]
    OBVIOUS
<1>4. c.ver = m.ver /\ c.klen = b.klen /\ c.vlen = m.len /\ c.area = b.area
    BY <1>3 DEF BlockOK
<1>5. s = Sum([sum |-> NoSum, ver |-> m.ver, klen |-> b.klen, vlen |-> m.len, area |-> b.area], MaxKey + m.len)
    <2>1. s = Sum(c, MaxKey + m.len)
        BY <1>1, <1>3, Zenon
    <2>2. s = Sum([sum |-> NoSum, ver |-> c.ver, klen |-> c.klen, vlen |-> c.vlen, area |-> c.area], MaxKey + m.len)
        BY <2>1, SumOf, Zenon
    <2> QED BY <1>4, <2>2, Zenon
<1>6. Verifies(Refresh(b, m))
    BY <1>2, <1>5, SumVerifies
<1>7. PICK q : q = Refresh(b, m)
    OBVIOUS
<1>8. q.ver = m.ver /\ q.klen = b.klen /\ q.vlen = m.len /\ q.area = b.area
    BY <1>2, <1>7
<1>9. Holds(q, o)
    BY <1>6, <1>7, <1>8 DEF Holds, Body
<1> QED BY <1>7, <1>9

\* A block that a small update was copied into.
LEMMA PatchBody ==
    ASSUME NEW b, BlockOK(b), NEW o, Body(b, o), NEW kv, Fits(kv), NEW a,
           a = [i \in Area |-> IF MaxKey + kv.off <= i /\ i < MaxKey + kv.off + Len(kv.data)
                               THEN kv.data[(i - (MaxKey + kv.off)) + 1] ELSE b.area[i]]
    PROVE  Body([b EXCEPT !.area = a], Patch(o, kv))
<1>1. PICK e, p, c : e = kv.off + Len(kv.data) /\ p = Patch(o, kv) /\ c = [b EXCEPT !.area = a]
    OBVIOUS
<1> DEFINE new == kv.off .. e - 1
<1>2. RefOK(o)
    BY DEF Body
<1>3. /\ RefOK(p) /\ p.klen = o.klen
      /\ DOMAIN p.bytes = DOMAIN o.bytes \cup new
      /\ \A j \in DOMAIN p.bytes : p.bytes[j] = IF j \in new THEN kv.data[j - kv.off + 1] ELSE o.bytes[j]
    BY <1>1, <1>2, RefPutOK
<1>4. MaxKey \in Nat /\ MaxVal \in Nat /\ Len(kv.data) \in Nat /\ e \in Nat /\ kv.off \in Nat
    BY <1>1, PutAssumption DEF Fits
<1>5. c.klen = b.klen /\ c.area = a
    BY <1>1 DEF BlockOK
<1>6. ASSUME NEW j \in DOMAIN p.bytes PROVE a[MaxKey + j] = p.bytes[j]
    <2>1. j \in 0 .. p.len - 1 /\ p.len \in 0 .. MaxVal /\ j \in Nat /\ j < MaxVal
        BY <1>3, <1>4 DEF RefOK
    <2>2. MaxKey + j \in Area /\ (MaxKey + j) - (MaxKey + kv.off) = j - kv.off
        BY <1>4, <2>1 DEF Area
    <2>3. CASE j \in new
        <3>1. MaxKey + kv.off <= MaxKey + j /\ MaxKey + j < MaxKey + kv.off + Len(kv.data)
            BY <1>1, <1>4, <2>3
        <3>2. a[MaxKey + j] = kv.data[((MaxKey + j) - (MaxKey + kv.off)) + 1]
            BY <2>2, <3>1
        <3>3. a[MaxKey + j] = kv.data[j - kv.off + 1]
            BY <2>2, <3>2, Zenon
        <3>4. p.bytes[j] = IF j \in new THEN kv.data[j - kv.off + 1] ELSE o.bytes[j]
            BY <1>3, Zenon
        <3>5. p.bytes[j] = kv.data[j - kv.off + 1]
            BY <2>3, <3>4, Zenon
        <3> QED BY <3>3, <3>5, Zenon
    <2>4. CASE j \notin new
        <3>1. ~ (MaxKey + kv.off <= MaxKey + j /\ MaxKey + j < MaxKey + kv.off + Len(kv.data))
            <4>1. PICK k \in Nat, f \in Nat, n \in Nat : k = MaxKey /\ f = kv.off /\ n = Len(kv.data)
                BY <1>4
            <4>2. j \notin f .. f + n - 1
                BY <1>1, <2>4, <4>1
            <4>3. ~ (k + f <= k + j /\ k + j < k + f + n)
                BY <2>1, <4>2
            <4> QED BY <4>1, <4>3, Zenon
        <3>2. a[MaxKey + j] = b.area[MaxKey + j]
            BY <2>2, <3>1
        <3>3. j \in DOMAIN o.bytes
            BY <1>3, <2>4
        <3> QED BY <1>3, <2>4, <3>2, <3>3 DEF Body
    <2> QED BY <2>3, <2>4
<1>7. Body(c, p)
    BY <1>3, <1>5, <1>6 DEF Body
<1> QED BY <1>1, <1>7

-----------------------------------------------------------------------------
(* The invariant of blocks and reference, when payloads do not shift a walk. *)

Fills(op) == op.type \in {WRITE, UPDATE}
Takes(op) == op.type \in {UPDATE, REMOVE}
Patches(op, id) == op.type = UPDINPLACE /\ op.id1 = id

\* Block and list together show the object.
Shows(id, o) ==
    \/ /\ \A m \in 1 .. Len(list) : list[m].id # id
       /\ Holds(blk[id], o)
    \/ /\ Body(blk[id], o)
       /\ \E m \in 1 .. Len(list) : list[m].id = id /\ list[m].ver = o.ver /\ list[m].len = o.len

\* g is what the small updates among s make of an object, up to o.
Chain(g, id, s, o) ==
    /\ \A k \in 1 .. Len(s) : g[k] = IF Patches(s[k], id) THEN Patch(g[k - 1], s[k].kv) ELSE g[k - 1]
    /\ g[Len(s)] = o
    /\ (\A k \in 1 .. Len(s) : ~ Patches(s[k], id)) => g[0] = o

\* In the reference a new object has its number in both places.
Named == \A k \in 1 .. Len(ops) : ops[k].type = WRITE => ops[k].id1 = ops[k].id2

\* Until execute starts, the objects are in their blocks as before.
Kept == pc # "execute" => list = <<>> /\ \A id \in DOMAIN view : Holds(blk[id], view[id])

\* What is no object is free, or filled by an operation from n on.
UndoAt(n) ==
    /\ free \cap DOMAIN view = {}
    /\ \A k \in 1 .. Len(ops) : Fills(ops[k]) => ops[k].id2 \notin DOMAIN view
    /\ \A id \in Ids \ DOMAIN view :
          \/ \E k \in n .. Len(ops) : Fills(ops[k]) /\ ops[k].id2 = id
          \/ blk[id].sum = NoSum /\ (pc # "check" => id \in free)
Undo ==
    /\ pc \in {"idle", "open"} => UndoAt(1)
    /\ pc \in {"abort", "check"} =>
          /\ \A k \in 1 .. Len(ops) : Extra(ops[k]) = 0
          /\ \E n \in 1 .. Len(ops) + 1 : pos = Place[n] /\ UndoAt(n)

\* What will be no object is free, or taken by one operation from n on; what
\* will be one is shown as the operations before n have left it.
RedoAt(n) ==
    /\ free \cap DOMAIN RefAfter = {}
    /\ \A id \in free : blk[id].sum = NoSum
    /\ \A id \in Ids \ DOMAIN RefAfter :
          id \in free \/ \E k \in n .. Len(ops) : Takes(ops[k]) /\ ops[k].id1 = id
    /\ \A k \in n .. Len(ops) : Takes(ops[k]) =>
          /\ ops[k].id1 \notin DOMAIN RefAfter /\ ops[k].id1 \notin free /\ blk[ops[k].id1].sum # NoSum
          /\ \A l \in k + 1 .. Len(ops) : Takes(ops[l]) => ops[k].id1 # ops[l].id1
    /\ \A k \in 1 .. Len(ops) : ops[k].type = UPDINPLACE => ops[k].id1 \in DOMAIN RefAfter
    /\ \A m \in 1 .. Len(list) : list[m].id \in DOMAIN RefAfter
    /\ \A id \in DOMAIN RefAfter : \E g : Chain(g, id, ops, RefAfter[id]) /\ Shows(id, g[n - 1])
Redo ==
    /\ pc = "open" => RedoAt(1)
    /\ pc = "execute" => \E n \in 1 .. Len(ops) + 1 : pos = Place[n] /\ RedoAt(n)

QInv == PInv /\ Named /\ Kept /\ Undo /\ Redo

\* What a call that records an operation does to blocks, list and reference.
Effect(op, T, F) ==
    /\ T = IF Takes(op) THEN {op.id1} ELSE {}
    /\ F = IF Fills(op) THEN {op.id2} ELSE {}
    /\ T \subseteq DOMAIN RefAfter /\ F \subseteq free /\ free' = free \ F
    /\ Takes(op) => \A k \in 1 .. Len(ops) : ~ Patches(ops[k], op.id1)
    /\ op.type = UPDINPLACE => op.id1 \in DOMAIN RefAfter
    /\ op.type = WRITE => op.id1 = op.id2
    /\ \A id \in Ids \ F : blk'[id] = blk[id]
    /\ DOMAIN RefAfter' = (DOMAIN RefAfter \ T) \cup F
    /\ \A id \in F : Holds(blk'[id], RefAfter'[id])
    /\ \A id \in DOMAIN RefAfter' \ F :
          RefAfter'[id] = IF Patches(op, id) THEN Patch(RefAfter[id], op.kv) ELSE RefAfter[id]

\* Chains grow with the operations.
LEMMA ChainGrows ==
    ASSUME NEW s \in Seq(Op), NEW op \in Op, NEW id, NEW o, NEW g, Chain(g, id, s, o), NEW p,
           p = IF Patches(op, id) THEN Patch(o, op.kv) ELSE o
    PROVE  \E h : Chain(h, id, Append(s, op), p) /\ h[0] = g[0]
<1>0. Len(s) \in Nat
    OBVIOUS
<1>1. PICK k, t : k = Len(s) /\ t = Append(s, op) /\ k \in Nat
    BY <1>0, Zenon
<1>2. Len(t) = k + 1 /\ t[k + 1] = op /\ \A n \in 1 .. k : t[n] = s[n]
    BY <1>1
<1>3. PICK h : h = [n \in 0 .. k + 1 |-> IF n = k + 1 THEN p ELSE g[n]]
    OBVIOUS
<1>4. h[k + 1] = p /\ (\A n \in 0 .. k : h[n] = g[n]) /\ h[0] = g[0]
    BY <1>1, <1>3
<1>5. g[k] = o
    BY <1>1 DEF Chain
<1>6. ASSUME NEW n \in 1 .. k + 1
      PROVE  h[n] = IF Patches(t[n], id) THEN Patch(h[n - 1], t[n].kv) ELSE h[n - 1]
    <2>1. CASE n \in 1 .. k
        <3>1. n - 1 \in 0 .. k /\ n \in 0 .. k
            BY <1>1, <2>1
        <3>2. g[n] = IF Patches(s[n], id) THEN Patch(g[n - 1], s[n].kv) ELSE g[n - 1]
            BY <1>1, <2>1 DEF Chain
        <3> QED BY <1>2, <1>4, <2>1, <3>1, <3>2
    <2>2. CASE n = k + 1
        <3>1. n - 1 = k /\ k \in 0 .. k
            BY <1>1, <2>2
        <3>2. h[n - 1] = o
            BY <1>4, <1>5, <3>1
        <3> QED BY <1>2, <1>4, <2>2, <3>2
    <2> QED BY <1>1, <2>1, <2>2
<1>7. ASSUME \A n \in 1 .. k + 1 : ~ Patches(t[n], id) PROVE h[0] = p
    <2>1. ~ Patches(op, id) /\ k + 1 \in 1 .. k + 1 /\ \A n \in 1 .. k : n \in 1 .. k + 1
        BY <1>1, <1>2, <1>7
    <2>2. \A n \in 1 .. k : ~ Patches(s[n], id)
        BY <1>2, <1>7, <2>1
    <2>3. g[0] = o
        BY <1>1, <2>2 DEF Chain
    <2> QED BY <1>4, <2>1, <2>3
<1>8. Chain(h, id, t, p)
    BY <1>2, <1>4, <1>6, <1>7 DEF Chain
<1> QED BY <1>1, <1>4, <1>8

\* A chain of an object that no operation updates in place.
LEMMA ChainRests ==
    ASSUME NEW s \in Seq(Op), NEW id, NEW o, \A k \in 1 .. Len(s) : ~ Patches(s[k], id)
    PROVE  \E g : Chain(g, id, s, o) /\ g[0] = o
<1>1. PICK k : k = Len(s) /\ k \in Nat
    OBVIOUS
<1>2. PICK g : g = [n \in 0 .. k |-> o]
    OBVIOUS
<1>3. \A n \in 0 .. k : g[n] = o
    BY <1>2
<1>4. 0 \in 0 .. k /\ k \in 0 .. k /\ \A n \in 1 .. k : n \in 0 .. k /\ n - 1 \in 0 .. k
    BY <1>1
<1>5. Chain(g, id, s, o)
    BY <1>1, <1>3, <1>4 DEF Chain
<1> QED BY <1>3, <1>4, <1>5

\* What a step within a transaction that records an operation has to show:
\* objects to be.
LEMMA NotedRedo ==
    ASSUME QInv, PInv', pc = "open", UNCHANGED <<pc, list, view>>, NEW op, OpOK(op),
           ops' = Append(ops, op), NEW T, NEW F, Effect(op, T, F)
    PROVE  RedoAt(1)'
<1>1. /\ ops \in Seq(Op) /\ Len(ops) \in Nat /\ op \in Op /\ list = <<>>
      /\ DOMAIN RefAfter \subseteq Ids /\ DOMAIN RefAfter' \subseteq Ids /\ free \subseteq Ids
    BY DEF QInv, PInv, Shapely, Walks, OpOK
<1>2. PICK N : N = Len(ops) /\ N \in Nat
    BY <1>1
<1>3. Len(ops') = N + 1 /\ ops'[N + 1] = op /\ \A k \in 1 .. N : ops'[k] = ops[k]
    BY <1>1, <1>2
<1>4. RedoAt(1)
    BY DEF QInv, Redo
<1>5. PICK R, Q : R = RefAfter /\ Q = RefAfter'
    OBVIOUS
<1>6. /\ T = (IF Takes(op) THEN {op.id1} ELSE {}) /\ F = (IF Fills(op) THEN {op.id2} ELSE {})
      /\ T \subseteq DOMAIN R /\ F \subseteq free /\ free' = free \ F
      /\ (Takes(op) => \A k \in 1 .. N : ~ Patches(ops[k], op.id1))
      /\ (op.type = UPDINPLACE => op.id1 \in DOMAIN R)
      /\ (\A id \in Ids \ F : blk'[id] = blk[id])
      /\ DOMAIN Q = (DOMAIN R \ T) \cup F
      /\ (\A id \in F : Holds(blk'[id], Q[id]))
      /\ \A id \in DOMAIN Q \ F : Q[id] = IF Patches(op, id) THEN Patch(R[id], op.kv) ELSE R[id]
    BY <1>2, <1>5 DEF Effect
<1>7. /\ free \cap DOMAIN R = {} /\ (\A id \in free : blk[id].sum = NoSum)
      /\ \A id \in Ids \ DOMAIN R : id \in free \/ \E k \in 1 .. N : Takes(ops[k]) /\ ops[k].id1 = id
    BY <1>2, <1>4, <1>5 DEF RedoAt
<1>8. \A k \in 1 .. N : Takes(ops[k]) =>
          /\ ops[k].id1 \notin DOMAIN R /\ ops[k].id1 \notin free /\ blk[ops[k].id1].sum # NoSum
          /\ \A l \in k + 1 .. N : Takes(ops[l]) => ops[k].id1 # ops[l].id1
    BY <1>2, <1>4, <1>5 DEF RedoAt
<1>9. \A k \in 1 .. N : ops[k].type = UPDINPLACE => ops[k].id1 \in DOMAIN R
    BY <1>2, <1>4, <1>5 DEF RedoAt
<1>10. \A id \in DOMAIN R : \E g : Chain(g, id, ops, R[id]) /\ Holds(blk[id], g[0])
    <2>1. Len(list) = 0 /\ 1 - 1 = 0
        BY <1>1
    <2>2. \A id \in DOMAIN R : \E g : Chain(g, id, ops, R[id]) /\ Shows(id, g[0])
        BY <1>4, <1>5, <2>1 DEF RedoAt
    <2> QED BY <2>1, <2>2 DEF Shows
<1>11. op.type = UPDINPLACE => T = {} /\ F = {}
    BY <1>6 DEF Takes, Fills, UPDINPLACE, UPDATE, WRITE, REMOVE
<1>12. \A k \in 1 .. N : ops[k].id1 \in Ids
    BY <1>1, <1>2 DEF QInv, PInv, Shapely, OpOK, Op
<1>13. \A k \in 1 .. N + 1 : k = N + 1 \/ k \in 1 .. N
    BY <1>2
\* Free blocks.
<1>14. /\ free' \cap DOMAIN Q = {} /\ \A id \in free' : blk'[id].sum = NoSum
    BY <1>1, <1>6, <1>7
<1>15. \A id \in Ids \ DOMAIN Q : id \in free' \/ \E k \in 1 .. N + 1 : Takes(ops'[k]) /\ ops'[k].id1 = id
    <2> TAKE id \in Ids \ DOMAIN Q
    <2>1. CASE id \in T
        <3>1. Takes(op) /\ op.id1 = id /\ N + 1 \in 1 .. N + 1
            BY <1>2, <1>6, <2>1
        <3> QED BY <1>3, <3>1
    <2>2. CASE id \notin T
        <3>1. id \in Ids \ DOMAIN R /\ id \notin F
            BY <1>6, <2>2
        <3>2. CASE id \in free
            BY <1>6, <3>1, <3>2
        <3>3. CASE \E k \in 1 .. N : Takes(ops[k]) /\ ops[k].id1 = id
            <4>1. PICK k \in 1 .. N : Takes(ops[k]) /\ ops[k].id1 = id
                BY <3>3
            <4>2. k \in 1 .. N + 1
                BY <1>2
            <4> QED BY <1>3, <4>1, <4>2
        <3> QED BY <1>7, <3>1, <3>2, <3>3
    <2> QED BY <2>1, <2>2
\* Blocks that are taken.
<1>16. ASSUME NEW id \in DOMAIN R PROVE blk[id].sum # NoSum
    BY <1>10 DEF Holds, Verifies
<1>17. ASSUME NEW k \in 1 .. N + 1, Takes(ops'[k])
       PROVE  /\ ops'[k].id1 \notin DOMAIN Q /\ ops'[k].id1 \notin free' /\ blk'[ops'[k].id1].sum # NoSum
              /\ \A l \in k + 1 .. N + 1 : Takes(ops'[l]) => ops'[k].id1 # ops'[l].id1
    <2>1. CASE k \in 1 .. N
        <3>1. PICK x \in Ids : x = ops[k].id1
            BY <1>12, <2>1
        <3>2. x \notin DOMAIN R /\ x \notin free /\ blk[x].sum # NoSum /\ ops'[k].id1 = x /\ Takes(ops[k])
            BY <1>3, <1>8, <1>17, <2>1, <3>1
        <3>3. x \notin DOMAIN Q /\ x \notin free' /\ blk'[x] = blk[x]
            BY <1>6, <3>2
        <3>4. ASSUME NEW l \in k + 1 .. N + 1, Takes(ops'[l]) PROVE x # ops'[l].id1
            <4>1. CASE l = N + 1
                BY <1>3, <1>6, <3>2, <3>4, <4>1
            <4>2. CASE l # N + 1
                <5>1. l \in k + 1 .. N /\ l \in 1 .. N
                    BY <1>2, <2>1, <4>2
                <5> QED BY <1>3, <1>8, <2>1, <3>1, <3>2, <3>4, <5>1
            <4> QED BY <4>1, <4>2
        <3> QED BY <3>2, <3>3, <3>4
    <2>2. CASE k = N + 1
        <3>1. Takes(op) /\ ops'[k].id1 = op.id1 /\ op.id1 \in T /\ op.id1 \in DOMAIN R
            BY <1>3, <1>6, <1>17, <2>2
        <3>2. op.id1 \notin DOMAIN Q /\ op.id1 \notin free' /\ blk'[op.id1] = blk[op.id1]
            BY <1>1, <1>5, <1>6, <1>7, <3>1
        <3>3. k + 1 .. N + 1 = {}
            BY <1>2, <2>2
        <3> QED BY <1>16, <3>1, <3>2, <3>3
    <2> QED BY <1>13, <2>1, <2>2
\* Blocks that are updated in place.
<1>18. ASSUME NEW k \in 1 .. N + 1, ops'[k].type = UPDINPLACE PROVE ops'[k].id1 \in DOMAIN Q
    <2>1. CASE k \in 1 .. N
        <3>1. ops[k].id1 \in DOMAIN R /\ Patches(ops[k], ops[k].id1) /\ ops'[k] = ops[k]
            BY <1>3, <1>9, <1>18, <2>1 DEF Patches
        <3>2. ops[k].id1 \notin T
            BY <1>6, <2>1, <3>1
        <3> QED BY <1>6, <3>1, <3>2
    <2>2. CASE k = N + 1
        BY <1>3, <1>6, <1>11, <1>18, <2>2
    <2> QED BY <1>13, <2>1, <2>2
\* Objects to be.
<1>19. ASSUME NEW id \in DOMAIN Q PROVE \E g : Chain(g, id, ops', Q[id]) /\ Holds(blk'[id], g[0])
    <2>1. CASE id \in F
        <3>1. ASSUME NEW k \in 1 .. N + 1 PROVE ~ Patches(ops'[k], id)
            <4>1. CASE k \in 1 .. N
                BY <1>3, <1>6, <1>7, <1>9, <2>1, <4>1 DEF Patches
            <4>2. CASE k = N + 1
                BY <1>3, <1>11, <2>1, <4>2 DEF Patches
            <4> QED BY <1>13, <4>1, <4>2
        <3>2. ops' \in Seq(Op)
            BY DEF PInv, Shapely
        <3>3. PICK s, o : s = ops' /\ o = Q[id]
            OBVIOUS
        <3>4. s \in Seq(Op) /\ \A k \in 1 .. Len(s) : ~ Patches(s[k], id)
            BY <1>3, <3>1, <3>2, <3>3
        <3>5. \E g : Chain(g, id, s, o) /\ g[0] = o
            BY <3>4, ChainRests
        <3> QED BY <1>6, <2>1, <3>3, <3>5
    <2>2. CASE id \notin F
        <3>1. id \in DOMAIN R /\ blk'[id] = blk[id]
            BY <1>1, <1>5, <1>6, <2>2
        <3>2. PICK g : Chain(g, id, ops, R[id]) /\ Holds(blk[id], g[0])
            BY <1>10, <3>1
        <3>3. Q[id] = IF Patches(op, id) THEN Patch(R[id], op.kv) ELSE R[id]
            BY <1>6, <2>2
        <3>4. PICK s, o, p : s = ops /\ o = R[id] /\ p = Q[id]
            OBVIOUS
        <3>5. \E h : Chain(h, id, Append(s, op), p) /\ h[0] = g[0]
            BY <1>1, <3>2, <3>3, <3>4, ChainGrows
        <3> QED BY <3>1, <3>2, <3>4, <3>5
    <2> QED BY <2>1, <2>2
<1>20. Len(list') = 0 /\ 1 - 1 = 0
    BY <1>1
<1>21. \A id \in DOMAIN Q : \E g : Chain(g, id, ops', Q[id]) /\ Shows(id, g[1 - 1])'
    BY <1>19, <1>20 DEF Shows
<1> QED BY <1>3, <1>5, <1>14, <1>15, <1>17, <1>18, <1>20, <1>21 DEF RedoAt

\* The same: objects before, and so the invariant.
LEMMA Noted ==
    ASSUME QInv, PInv', pc = "open", UNCHANGED <<pc, list, view>>, NEW op, OpOK(op),
           ops' = Append(ops, op), NEW T, NEW F, Effect(op, T, F)
    PROVE  QInv'
<1>1. /\ ops \in Seq(Op) /\ Len(ops) \in Nat /\ op \in Op /\ DOMAIN view \subseteq Ids
    BY DEF QInv, PInv, Shapely, OpOK
<1>2. PICK N : N = Len(ops) /\ N \in Nat
    BY <1>1
<1>3. Len(ops') = N + 1 /\ ops'[N + 1] = op /\ \A k \in 1 .. N : ops'[k] = ops[k]
    BY <1>1, <1>2
<1>4. \A k \in 1 .. N + 1 : k = N + 1 \/ k \in 1 .. N
    BY <1>2
<1>5. /\ F = (IF Fills(op) THEN {op.id2} ELSE {}) /\ F \subseteq free /\ free' = free \ F
      /\ (op.type = WRITE => op.id1 = op.id2) /\ (\A id \in Ids \ F : blk'[id] = blk[id])
    BY DEF Effect
<1>6. /\ free \cap DOMAIN view = {}
      /\ \A k \in 1 .. N : Fills(ops[k]) => ops[k].id2 \notin DOMAIN view
      /\ \A id \in Ids \ DOMAIN view :
            \/ \E k \in 1 .. N : Fills(ops[k]) /\ ops[k].id2 = id
            \/ blk[id].sum = NoSum /\ id \in free
    BY <1>2 DEF QInv, Undo, UndoAt
<1>7. Named'
    BY <1>2, <1>3, <1>4, <1>5 DEF QInv, Named
<1>8. Kept'
    BY <1>1, <1>5, <1>6 DEF QInv, Kept
<1>9. /\ free' \cap DOMAIN view = {}
      /\ \A k \in 1 .. N + 1 : Fills(ops'[k]) => ops'[k].id2 \notin DOMAIN view
    BY <1>3, <1>4, <1>5, <1>6
<1>10. ASSUME NEW id \in Ids \ DOMAIN view
       PROVE  \/ \E k \in 1 .. N + 1 : Fills(ops'[k]) /\ ops'[k].id2 = id
              \/ blk'[id].sum = NoSum /\ id \in free'
    <2>1. CASE id \in F
        <3>1. N + 1 \in 1 .. N + 1 /\ Fills(op) /\ op.id2 = id
            BY <1>2, <1>5, <2>1
        <3> QED BY <1>3, <3>1
    <2>2. CASE id \notin F /\ \E k \in 1 .. N : Fills(ops[k]) /\ ops[k].id2 = id
        <3>1. PICK k \in 1 .. N : Fills(ops[k]) /\ ops[k].id2 = id
            BY <2>2
        <3>2. k \in 1 .. N + 1
            BY <1>2
        <3> QED BY <1>3, <3>1, <3>2
    <2>3. CASE id \notin F /\ blk[id].sum = NoSum /\ id \in free
        BY <1>5, <2>3
    <2> QED BY <1>6, <2>1, <2>2, <2>3
<1>11. UndoAt(1)'
    BY <1>3, <1>9, <1>10 DEF UndoAt
<1>12. Undo' /\ Redo'
    BY <1>11, NotedRedo DEF Undo, Redo
<1> QED BY <1>7, <1>8, <1>12 DEF QInv

\* The reference after one more operation.
LEMMA RefNext ==
    ASSUME PInv, view' = view, NEW op, OpOK(op), ops' = Append(ops, op)
    PROVE  RefAfter' = RefApply(RefAfter, op)
<1>1. ops \in Seq(Op) /\ op \in Op
    BY DEF PInv, Shapely, OpOK
<1>2. PICK v, s : v = view /\ s = ops
    OBVIOUS
<1>3. RefFor(v, Append(s, op)) = RefApply(RefFor(v, s), op)
    BY <1>1, <1>2, RefAppend
<1> QED BY <1>2, <1>3, RefAfterIs

\* A function without some of its arguments.
LEMMA WithoutAt ==
    ASSUME NEW f, NEW ids
    PROVE  /\ DOMAIN Without(f, ids) = DOMAIN f \ ids
           /\ \A x \in DOMAIN f \ ids : Without(f, ids)[x] = f[x]
BY DEF Without

\* The operations are four.
LEMMA Types ==
    /\ WRITE # UPDATE /\ WRITE # UPDINPLACE /\ WRITE # REMOVE
    /\ UPDATE # UPDINPLACE /\ UPDATE # REMOVE /\ UPDINPLACE # REMOVE
BY DEF WRITE, UPDATE, UPDINPLACE, REMOVE

\* What each of them does to the reference.
LEMMA ApplyWrite ==
    ASSUME NEW v, NEW op, op.type = WRITE
    PROVE  /\ DOMAIN RefApply(v, op) = DOMAIN v \cup {op.id2} /\ RefApply(v, op)[op.id2] = RefPut(RefNone, op.kv)
           /\ \A id \in DOMAIN v \ {op.id2} : RefApply(v, op)[id] = v[id]
<1>0. PICK h : h = RefApply(v, op)
    OBVIOUS
<1>1. PICK y, x : y = RefPut(RefNone, op.kv) /\ x = op.id2
    OBVIOUS
<1>2. h = With(v, x, y)
    BY <1>0, <1>1, Types, Zenon DEF RefApply
<1>3. /\ DOMAIN h = DOMAIN v \cup {x} /\ h[x] = y /\ \A id \in DOMAIN v \ {x} : h[id] = v[id]
    <2>1. /\ DOMAIN With(v, x, y) = DOMAIN v \cup {x} /\ With(v, x, y)[x] = y
          /\ \A id \in DOMAIN v \ {x} : With(v, x, y)[id] = v[id]
        BY DEF With
    <2> QED BY <1>2, <2>1, Zenon
<1> QED BY <1>0, <1>1, <1>3

\* UPDATE.
LEMMA ApplyUpdate ==
    ASSUME NEW v, NEW op, op.type = UPDATE
    PROVE  /\ DOMAIN RefApply(v, op) = (DOMAIN v \ {op.id1}) \cup {op.id2} /\ RefApply(v, op)[op.id2] = RefPut(v[op.id1], op.kv)
           /\ \A id \in DOMAIN v \ {op.id1, op.id2} : RefApply(v, op)[id] = v[id]
<1>0. PICK h : h = RefApply(v, op)
    OBVIOUS
<1>1. PICK y, x, f, z : y = RefPut(v[op.id1], op.kv) /\ x = op.id2 /\ z = {op.id1} /\ f = Without(v, z)
    OBVIOUS
<1>2. h = With(f, x, y)
    BY <1>0, <1>1, Types, Zenon DEF RefApply
<1>3. DOMAIN h = DOMAIN f \cup {x} /\ h[x] = y /\ \A id \in DOMAIN f \ {x} : h[id] = f[id]
    <2>1. /\ DOMAIN With(f, x, y) = DOMAIN f \cup {x} /\ With(f, x, y)[x] = y
          /\ \A id \in DOMAIN f \ {x} : With(f, x, y)[id] = f[id]
        BY DEF With
    <2> QED BY <1>2, <2>1, Zenon
<1>4. DOMAIN f = DOMAIN v \ z /\ \A id \in DOMAIN v \ z : f[id] = v[id]
    <2>1. /\ DOMAIN Without(v, z) = DOMAIN v \ z
          /\ \A id \in DOMAIN v \ z : Without(v, z)[id] = v[id]
        BY WithoutAt, Zenon
    <2> QED BY <1>1, <2>1, Zenon
<1> QED BY <1>0, <1>1, <1>3, <1>4

\* UPDINPLACE.
LEMMA ApplySmall ==
    ASSUME NEW v, NEW op, op.type = UPDINPLACE
    PROVE  /\ DOMAIN RefApply(v, op) = DOMAIN v \cup {op.id1} /\ RefApply(v, op)[op.id1] = Patch(v[op.id1], op.kv)
           /\ \A id \in DOMAIN v \ {op.id1} : RefApply(v, op)[id] = v[id]
<1>0. PICK h : h = RefApply(v, op)
    OBVIOUS
<1>1. PICK y, x : y = Patch(v[op.id1], op.kv) /\ x = op.id1
    OBVIOUS
<1>2. h = With(v, x, y)
    BY <1>0, <1>1, Types, Zenon DEF RefApply, Patch
<1>3. /\ DOMAIN h = DOMAIN v \cup {x} /\ h[x] = y /\ \A id \in DOMAIN v \ {x} : h[id] = v[id]
    <2>1. /\ DOMAIN With(v, x, y) = DOMAIN v \cup {x} /\ With(v, x, y)[x] = y
          /\ \A id \in DOMAIN v \ {x} : With(v, x, y)[id] = v[id]
        BY DEF With
    <2> QED BY <1>2, <2>1, Zenon
<1> QED BY <1>0, <1>1, <1>3

\* REMOVE.
LEMMA ApplyRemove ==
    ASSUME NEW v, NEW op, op.type = REMOVE
    PROVE  DOMAIN RefApply(v, op) = DOMAIN v \ {op.id1} /\ \A id \in DOMAIN v \ {op.id1} : RefApply(v, op)[id] = v[id]
<1>0. PICK h : h = RefApply(v, op)
    OBVIOUS
<1>1. PICK z : z = {op.id1}
    OBVIOUS
<1>2. h = Without(v, z)
    BY <1>0, <1>1, Types, Zenon DEF RefApply
<1>3. DOMAIN h = DOMAIN v \ z /\ \A id \in DOMAIN v \ z : h[id] = v[id]
    BY <1>2, WithoutAt
<1> QED BY <1>0, <1>1, <1>3

\* The object that nothing has written.
LEMMA RefNoneOK == RefOK(RefNone) /\ RefNone.ver = 0 /\ RefNone.len = 0 /\ DOMAIN RefNone.bytes = {}
<1>1. PICK e : e = [j \in {} |-> 0]
    OBVIOUS
<1>2. DOMAIN e = {}
    BY <1>1
<1>3. RefNone.klen = 0 /\ RefNone.ver = 0 /\ RefNone.len = 0 /\ RefNone.bytes = e
    BY <1>1 DEF RefNone
<1>4. MaxKey \in Nat /\ MaxVal \in Nat
    BY PutAssumption
<1> QED BY <1>2, <1>3, <1>4 DEF RefOK

\* Objects that the transaction has not updated in place are in their blocks.
LEMMA OpenHolds ==
    ASSUME QInv, pc = "open", NEW id \in Objects \ Patched
    PROVE  /\ Holds(blk[id], RefAfter[id]) /\ id \in DOMAIN RefAfter /\ id \notin free
           /\ \A k \in 1 .. Len(ops) : ~ Patches(ops[k], id)
<1>1. DOMAIN ops = 1 .. Len(ops) /\ Len(list) = 0 /\ 1 - 1 = 0
    BY DEF QInv, PInv, Shapely, Walks
<1>2. id \in DOMAIN RefAfter /\ \A k \in 1 .. Len(ops) : ~ Patches(ops[k], id)
    BY <1>1 DEF Objects, Patched, Patches
<1>3. RedoAt(1)
    BY DEF QInv, Redo
<1>4. PICK g : Chain(g, id, ops, RefAfter[id]) /\ Shows(id, g[0])
    BY <1>1, <1>2, <1>3 DEF RedoAt
<1>5. g[0] = RefAfter[id]
    BY <1>2, <1>4 DEF Chain
<1>6. Holds(blk[id], g[0])
    BY <1>1, <1>4 DEF Shows
<1> QED BY <1>2, <1>3, <1>5, <1>6 DEF RedoAt

\* pmb_tput of a new object.
LEMMA NewQ == ASSUME QInv, NEW kv \in Args, TPutNew(kv) PROVE QInv'
<1> DEFINE op == [type |-> WRITE, id1 |-> Popped, id2 |-> Popped, kv |-> kv]
<1>0. PInv /\ PInv'
    BY NewKeeps DEF QInv
<1>1. begun \in Nat /\ ops \in Seq(Op) /\ free \subseteq Ids /\ free # {} /\ CanLog /\ pc = "open"
    BY <1>0 DEF PInv, Shapely, TPutNew, CanLog
<1>2. /\ kv \in Kv /\ kv.off + Len(kv.data) <= MaxVal
      /\ kv.klen \in 1 .. MaxKey /\ kv.off \in Nat /\ kv.data \in Seq(Nat)
    BY <1>1, ArgFacts
<1>3. PICK x : x = Popped
    OBVIOUS
<1>4. x \in free /\ x \in Ids /\ x \in 0 .. NBlocks
    <2>1. x \in free
        BY <1>1, <1>3, PoppedFree
    <2> QED BY <1>1, <2>1, PutAssumption DEF Ids
<1>5. OpOK(op)
    BY <1>2, <1>3, <1>4 DEF OpOK, Op, WRITE, UPDATE, UPDINPLACE, REMOVE
<1>6. op.type = WRITE /\ op.id1 = x /\ op.id2 = x /\ op.kv = kv
    BY <1>3
<1>7. /\ ops' = Append(ops, op) /\ UNCHANGED <<pc, list, view>> /\ free' = free \ {x}
    BY <1>3 DEF TPutNew, Record
<1> HIDE DEF op
<1>8. /\ Fills(op) /\ ~ Takes(op) /\ op.type # UPDINPLACE /\ \A id : ~ Patches(op, id)
    BY <1>6 DEF Fills, Takes, Patches, WRITE, UPDATE, REMOVE, UPDINPLACE
<1>9. \A id \in Ids \ {x} : blk'[id] = blk[id]
    BY <1>0, <1>3, <1>4 DEF TPutNew, PInv, Shapely
<1>10. blk'[x] = PutBlock(blk[x], ZeroBlock, kv)
    BY <1>0, <1>3, <1>4 DEF TPutNew, PInv, Shapely
<1>11. PICK R, Q : R = RefAfter /\ Q = RefAfter'
    OBVIOUS
<1>12. Q = RefApply(R, op)
    BY <1>0, <1>5, <1>7, <1>11, RefNext
<1>13. /\ DOMAIN Q = DOMAIN R \cup {x} /\ Q[x] = RefPut(RefNone, kv)
       /\ \A id \in DOMAIN R \ {x} : Q[id] = R[id]
    <2>1. /\ DOMAIN RefApply(R, op) = DOMAIN R \cup {op.id2} /\ RefApply(R, op)[op.id2] = RefPut(RefNone, op.kv)
          /\ \A id \in DOMAIN R \ {op.id2} : RefApply(R, op)[id] = R[id]
        BY <1>6, ApplyWrite, Zenon
    <2> QED BY <1>6, <1>12, <2>1, Zenon
<1>14. Holds(blk'[x], Q[x])
    <2>1. Fits(kv) /\ BlockOK(blk[x])
        BY <1>0, <1>2, <1>4 DEF Fits, PInv, Shapely
    <2>2. ZeroBlock.ver = 0 /\ ZeroBlock.vlen = 0
        BY DEF ZeroBlock
    <2>3. Holds(PutBlock(blk[x], ZeroBlock, kv), RefPut(RefNone, kv))
        BY <2>1, <2>2, ZeroBlockOK, RefNoneOK, PutHolds
    <2> QED BY <1>10, <1>13, <2>3
<1>15. Effect(op, {}, {x})
    BY <1>4, <1>6, <1>7, <1>8, <1>9, <1>11, <1>13, <1>14 DEF Effect
<1> QED BY <1>0, <1>1, <1>5, <1>7, <1>15, Noted

\* pmb_tput of an object that is replaced.
LEMMA UpdateQ ==
    ASSUME QInv, NEW id \in Ids, NEW kv \in Args, TPutUpdate(id, kv), 2 <= MaxVal PROVE QInv'
<1> DEFINE op == [type |-> UPDATE, id1 |-> id, id2 |-> Popped, kv |-> kv]
<1>0. PInv /\ PInv'
    BY UpdateKeeps DEF QInv
<1>1. /\ begun \in Nat /\ ops \in Seq(Op) /\ free \subseteq Ids /\ free # {} /\ CanLog /\ pc = "open"
      /\ id \in Objects \ Patched /\ Len(kv.data) \notin SmallLens
    BY <1>0 DEF PInv, Shapely, TPutUpdate, CanLog
<1>2. /\ kv \in Kv /\ kv.off + Len(kv.data) <= MaxVal
      /\ kv.klen \in 1 .. MaxKey /\ kv.off \in Nat /\ kv.data \in Seq(Nat)
    BY <1>1, ArgFacts
<1>3. PICK x : x = Popped
    OBVIOUS
<1>4. x \in free /\ x \in Ids /\ x \in 0 .. NBlocks
    <2>1. x \in free
        BY <1>1, <1>3, PoppedFree
    <2> QED BY <1>1, <2>1, PutAssumption DEF Ids
<1>5. OpOK(op)
    BY <1>2, <1>3, <1>4 DEF OpOK, Op, WRITE, UPDATE, UPDINPLACE, REMOVE
<1>6. op.type = UPDATE /\ op.id1 = id /\ op.id2 = x /\ op.kv = kv
    BY <1>3
<1>7. /\ ops' = Append(ops, op) /\ UNCHANGED <<pc, list, view>> /\ free' = free \ {x}
    BY <1>3 DEF TPutUpdate, Record
<1> HIDE DEF op
<1>8. /\ Fills(op) /\ Takes(op) /\ op.type # UPDINPLACE /\ op.type # WRITE /\ \A jd : ~ Patches(op, jd)
    BY <1>6 DEF Fills, Takes, Patches, WRITE, UPDATE, REMOVE, UPDINPLACE
<1>9. \A jd \in Ids \ {x} : blk'[jd] = blk[jd]
    BY <1>0, <1>3, <1>4 DEF TPutUpdate, PInv, Shapely
<1>10. blk'[x] = PutBlock(blk[x], blk[id], kv)
    BY <1>0, <1>3, <1>4 DEF TPutUpdate, PInv, Shapely
<1>11. PICK R, Q : R = RefAfter /\ Q = RefAfter'
    OBVIOUS
<1>12. Q = RefApply(R, op)
    BY <1>0, <1>5, <1>7, <1>11, RefNext
<1>13. /\ DOMAIN Q = (DOMAIN R \ {id}) \cup {x} /\ Q[x] = RefPut(R[id], kv)
       /\ \A jd \in DOMAIN R \ {id, x} : Q[jd] = R[jd]
    <2>1. /\ DOMAIN RefApply(R, op) = (DOMAIN R \ {op.id1}) \cup {op.id2}
          /\ RefApply(R, op)[op.id2] = RefPut(R[op.id1], op.kv)
          /\ \A jd \in DOMAIN R \ {op.id1, op.id2} : RefApply(R, op)[jd] = R[jd]
        BY <1>6, ApplyUpdate, Zenon
    <2> QED BY <1>6, <1>12, <2>1, Zenon
<1>14. /\ Holds(blk[id], R[id]) /\ id \in DOMAIN R /\ id \notin free
       /\ \A k \in 1 .. Len(ops) : ~ Patches(ops[k], id)
    BY <1>1, <1>11, OpenHolds
<1>15. Holds(blk'[x], Q[x])
    <2>1. Fits(kv) /\ BlockOK(blk[x]) /\ BlockOK(blk[id])
        BY <1>0, <1>2, <1>4 DEF Fits, PInv, Shapely
    <2>2. kv.data # <<>>
        <3> SUFFICES ASSUME kv.data = <<>> PROVE FALSE
            OBVIOUS
        <3>1. Len(kv.data) = 0 /\ MaxVal \in Nat /\ MaxVal \div 2 >= 1
            BY PutAssumption
        <3> QED BY <1>1, <3>1 DEF SmallLens
    <2>3. PICK o, b, c : o = R[id] /\ b = blk[x] /\ c = blk[id]
        OBVIOUS
    <2>4. /\ RefOK(o) /\ c.ver = o.ver /\ c.vlen = o.len
          /\ \A j \in DOMAIN o.bytes : c.area[MaxKey + j] = o.bytes[j]
        BY <1>14, <2>3 DEF Holds, Body
    <2>5. Holds(PutBlock(b, c, kv), RefPut(o, kv))
        BY <2>1, <2>2, <2>3, <2>4, PutHolds
    <2> QED BY <1>10, <1>13, <2>3, <2>5
<1>16. Effect(op, {id}, {x})
    BY <1>4, <1>6, <1>7, <1>8, <1>9, <1>11, <1>13, <1>14, <1>15 DEF Effect
<1> QED BY <1>0, <1>1, <1>5, <1>7, <1>16, Noted

\* pmb_tput of an object that is patched.
LEMMA SmallQ == ASSUME QInv, NEW id \in Ids, NEW kv \in Args, TPutSmall(id, kv) PROVE QInv'
<1> DEFINE op == [type |-> UPDINPLACE, id1 |-> id, id2 |-> 0, kv |-> kv]
<1>0. PInv /\ PInv'
    BY SmallKeeps DEF QInv
<1>1. begun \in Nat /\ ops \in Seq(Op) /\ pc = "open" /\ Len(kv.data) \in SmallLens /\ id \in DOMAIN RefAfter
    BY <1>0 DEF PInv, Shapely, TPutSmall, CanLog, Objects
<1>2. /\ kv \in Kv /\ kv.off + Len(kv.data) <= MaxVal /\ 0 \in 0 .. NBlocks
    BY <1>1, ArgFacts, PutAssumption
<1>5. OpOK(op)
    BY <1>1, <1>2 DEF OpOK, Op, WRITE, UPDATE, UPDINPLACE, REMOVE
<1>6. op.type = UPDINPLACE /\ op.id1 = id /\ op.kv = kv
    OBVIOUS
<1>7. /\ ops' = Append(ops, op) /\ UNCHANGED <<pc, list, view, blk, free>>
    BY DEF TPutSmall, Record
<1> HIDE DEF op
<1>8. /\ ~ Fills(op) /\ ~ Takes(op) /\ op.type # WRITE /\ \A jd : Patches(op, jd) <=> jd = id
    BY <1>6 DEF Fills, Takes, Patches, WRITE, UPDATE, REMOVE, UPDINPLACE
<1>11. PICK R, Q : R = RefAfter /\ Q = RefAfter'
    OBVIOUS
<1>12. Q = RefApply(R, op)
    BY <1>0, <1>5, <1>7, <1>11, RefNext
<1>13. /\ DOMAIN Q = DOMAIN R /\ Q[id] = Patch(R[id], kv)
       /\ \A jd \in DOMAIN R \ {id} : Q[jd] = R[jd]
    <2>1. /\ DOMAIN RefApply(R, op) = DOMAIN R \cup {op.id1} /\ RefApply(R, op)[op.id1] = Patch(R[op.id1], op.kv)
          /\ \A jd \in DOMAIN R \ {op.id1} : RefApply(R, op)[jd] = R[jd]
        BY <1>6, ApplySmall, Zenon
    <2>2. /\ DOMAIN Q = DOMAIN R \cup {id} /\ Q[id] = Patch(R[id], kv)
          /\ \A jd \in DOMAIN R \ {id} : Q[jd] = R[jd]
        BY <1>6, <1>12, <2>1, Zenon
    <2> QED BY <1>1, <1>11, <2>2
<1>14. \A jd \in DOMAIN Q : Q[jd] = IF Patches(op, jd) THEN Patch(R[jd], op.kv) ELSE R[jd]
    BY <1>6, <1>8, <1>13
<1>16. Effect(op, {}, {})
    BY <1>1, <1>6, <1>7, <1>8, <1>11, <1>13, <1>14 DEF Effect
<1> QED BY <1>0, <1>1, <1>5, <1>7, <1>16, Noted

\* pmb_tdel.
LEMMA RemoveQ == ASSUME QInv, NEW id \in Ids, TDel(id) PROVE QInv'
<1> DEFINE op == [type |-> REMOVE, id1 |-> id, id2 |-> 0]
<1>0. PInv /\ PInv'
    BY RemoveKeeps DEF QInv
<1>1. pc = "open" /\ id \in Objects \ Patched
    BY DEF TDel, CanLog
<1>5. OpOK(op)
    BY DEF OpOK, Op, WRITE, UPDATE, UPDINPLACE, REMOVE
<1>6. op.type = REMOVE /\ op.id1 = id
    OBVIOUS
<1>7. /\ ops' = Append(ops, op) /\ UNCHANGED <<pc, list, view, blk, free>>
    BY DEF TDel, Record
<1> HIDE DEF op
<1>8. /\ ~ Fills(op) /\ Takes(op) /\ op.type # WRITE /\ op.type # UPDINPLACE /\ \A jd : ~ Patches(op, jd)
    BY <1>6 DEF Fills, Takes, Patches, WRITE, UPDATE, REMOVE, UPDINPLACE
<1>11. PICK R, Q : R = RefAfter /\ Q = RefAfter'
    OBVIOUS
<1>12. Q = RefApply(R, op)
    BY <1>0, <1>5, <1>7, <1>11, RefNext
<1>13. DOMAIN Q = DOMAIN R \ {id} /\ \A jd \in DOMAIN R \ {id} : Q[jd] = R[jd]
    BY <1>6, <1>12, ApplyRemove
<1>14. id \in DOMAIN R /\ \A k \in 1 .. Len(ops) : ~ Patches(ops[k], id)
    BY <1>1, <1>11, OpenHolds
<1>16. Effect(op, {id}, {})
    BY <1>6, <1>7, <1>8, <1>11, <1>13, <1>14 DEF Effect
<1> QED BY <1>0, <1>1, <1>5, <1>7, <1>16, Noted

\* Without operations the reference is the objects.
LEMMA RefEmpty == (ops = <<>> => RefAfter = view) /\ (ops' = <<>> => RefAfter' = view')
<1>1. \A v : RefFor(v, <<>>) = v
    <2> TAKE v
    <2>1. PICK y, s : y \in {0} /\ s = <<>>
        OBVIOUS
    <2>2. s \in Seq({0})
        BY <2>1
    <2> QED BY <2>1, <2>2, RefAppend
<1> QED BY <1>1, RefAfterIs

\* Between transactions: what is an object is in its block, what is none is free.
LEMMA RestingQ ==
    ASSUME PInv', pc' = "idle", ops' = <<>>, list' = <<>>,
           \A id \in DOMAIN view' : Holds(blk'[id], view'[id]) /\ id \notin free',
           \A id \in Ids \ DOMAIN view' : blk'[id].sum = NoSum /\ id \in free'
    PROVE  QInv'
<1>1. Len(ops') = 0 /\ 1 .. 0 = {}
    OBVIOUS
<1>2. Named' /\ Kept'
    BY <1>1 DEF Named, Kept
<1>3. UndoAt(1)'
    BY <1>1 DEF UndoAt
<1> QED BY <1>2, <1>3 DEF QInv, Undo, Redo

\* The other way round.
LEMMA RestsQ ==
    ASSUME QInv, pc = "idle"
    PROVE  /\ \A id \in DOMAIN view : Holds(blk[id], view[id]) /\ id \notin free
           /\ \A id \in Ids \ DOMAIN view : blk[id].sum = NoSum /\ id \in free
<1>1. UndoAt(1) /\ ops = <<>>
    BY DEF QInv, Undo, PInv, Shapely
<1>2. Len(ops) = 0 /\ 1 .. 0 = {}
    BY <1>1
<1> QED BY <1>1, <1>2 DEF UndoAt, QInv, Kept

\* A new store.
LEMMA InitQ == ASSUME Init PROVE QInv
<1>1. /\ blk = [id \in Ids |-> ZeroBlock] /\ free = Ids
      /\ pc = "idle" /\ list = <<>> /\ view = <<>> /\ ops = <<>>
    BY DEF Init
<1>2. Len(ops) = 0 /\ 1 .. 0 = {} /\ DOMAIN view = {}
    BY <1>1
<1>3. \A id \in Ids : blk[id].sum = NoSum
    BY <1>1 DEF ZeroBlock
<1>4. Named /\ Kept
    BY <1>1, <1>2 DEF Named, Kept
<1>5. UndoAt(1)
    BY <1>1, <1>2, <1>3 DEF UndoAt
<1> QED BY <1>1, <1>4, <1>5, PInvInit DEF QInv, Undo, Redo

\* pmb_tx_begin.
LEMMA BeginQ == ASSUME QInv, Begin PROVE QInv'
<1>1. /\ pc = "idle" /\ pc' = "open" /\ ops' = <<>> /\ UNCHANGED <<blk, free, list, view>>
    BY DEF Begin
<1>2. PInv' /\ list' = <<>> /\ RefAfter' = view /\ DOMAIN view \subseteq Ids /\ free \subseteq Ids
    BY <1>1, BeginKeeps, RefEmpty DEF QInv, PInv, Walks, Shapely
<1>3. /\ \A id \in DOMAIN view : Holds(blk[id], view[id]) /\ id \notin free
      /\ \A id \in Ids \ DOMAIN view : blk[id].sum = NoSum /\ id \in free
    BY <1>1, RestsQ
<1>4. Len(ops') = 0 /\ 1 .. 0 = {} /\ Len(list') = 0 /\ 1 - 1 = 0
    BY <1>1, <1>2
<1>5. Named' /\ Kept'
    BY <1>1, <1>2, <1>3, <1>4 DEF Named, Kept
<1>6. UndoAt(1)'
    BY <1>1, <1>3, <1>4 DEF UndoAt
<1>7. \A id \in DOMAIN view : \E g : Chain(g, id, ops', view[id]) /\ Holds(blk[id], g[0])
    <2> TAKE id \in DOMAIN view
    <2>1. PICK s, o : s = <<>> /\ o = view[id]
        OBVIOUS
    <2>2. s \in Seq(Op) /\ \A k \in 1 .. Len(s) : ~ Patches(s[k], id)
        BY <2>1
    <2>3. \E g : Chain(g, id, s, o) /\ g[0] = o
        BY <2>2, ChainRests
    <2> QED BY <1>1, <1>3, <2>1, <2>3
<1>8. \A id \in DOMAIN view : \E g : Chain(g, id, ops', view[id]) /\ Shows(id, g[1 - 1])'
    BY <1>1, <1>4, <1>7 DEF Shows
<1>9. /\ free' \cap DOMAIN view = {} /\ (\A id \in free' : blk'[id].sum = NoSum)
      /\ \A id \in Ids \ DOMAIN view : id \in free'
    BY <1>1, <1>2, <1>3
<1>10. RedoAt(1)'
    BY <1>2, <1>4, <1>8, <1>9 DEF RedoAt
<1> QED BY <1>1, <1>2, <1>5, <1>6, <1>10 DEF QInv, Undo, Redo

\* A walk starts: to execute, or to undo what has no payloads.
LEMMA StartQ == ASSUME QInv, TxExecute \/ TxAbort \/ Crash, "shift" \notin Workload PROVE QInv'
<1>1. /\ pc = "open" /\ pc' \in {"execute", "abort", "check"} /\ pos' = 0
      /\ UNCHANGED <<blk, free, log, size, list, view, ops, begun>>
    BY DEF TxExecute, TxAbort, Crash
<1>2. PInv' /\ Place' = Place /\ RefAfter' = RefAfter /\ Place[1] = 0 /\ Len(ops) \in Nat /\ DOMAIN ops = 1 .. Len(ops)
    BY <1>1, StartKeeps, SameOps DEF QInv, PInv, Placed, Shapely
<1>3. 1 \in 1 .. Len(ops) + 1
    BY <1>2
<1>4. Named' /\ Kept'
    BY <1>1 DEF QInv, Named, Kept
<1>5. pc' = "execute" => RedoAt(1)'
    <2>1. RedoAt(1)
        BY <1>1 DEF QInv, Redo
    <2>2. \A id, o : Shows(id, o)' <=> Shows(id, o)
        BY <1>1 DEF Shows
    <2> QED BY <1>1, <1>2, <2>1, <2>2 DEF RedoAt
<1>6. UndoAt(1)'
    <2>1. UndoAt(1)
        BY <1>1 DEF QInv, Undo
    <2> QED BY <1>1, <2>1 DEF UndoAt
<1>7. pc' # "execute" => \A k \in 1 .. Len(ops) : Extra(ops[k]) = 0
    <2> SUFFICES ASSUME pc' # "execute", NEW k \in 1 .. Len(ops) PROVE Extra(ops[k]) = 0
        OBVIOUS
    <2>1. MayUndo
        BY DEF TxExecute, TxAbort, Crash
    <2>2. ops[k].type = UPDINPLACE => ops[k].kv.data = <<>>
        BY <1>2, <2>1 DEF MayUndo
    <2> QED BY <2>2 DEF Extra
<1>8. Undo'
    BY <1>1, <1>2, <1>3, <1>6, <1>7 DEF Undo
<1>9. Redo'
    BY <1>1, <1>2, <1>3, <1>5 DEF Redo
<1> QED BY <1>2, <1>4, <1>8, <1>9 DEF QInv

\* A block that was cleared.
LEMMA ZeroSum == \A b : SetZero(b).sum = NoSum
BY DEF SetZero, ZeroBlock

\* The walks that undo, an entry: without payloads they meet the operations.
LEMMA UndoQ == ASSUME QInv, AbortEntry \/ CheckEntry PROVE QInv'
<1>1. /\ pc \in {"abort", "check"} /\ pos < size /\ pos' = pos + Entry
      /\ blk' = [id \in Ids |-> IF id = NewId THEN SetZero(blk[id]) ELSE blk[id]]
      /\ free' = (IF pc = "abort" THEN free \cup ({NewId} \cap Ids) ELSE free)
      /\ UNCHANGED <<log, size, pc, list, view, ops, begun>>
    <2>1. CASE AbortEntry
        BY <2>1 DEF AbortEntry
    <2>2. CASE CheckEntry
        <3>1. pc = "check" /\ ~ (pos >= size)
            BY <2>2 DEF CheckEntry, CheckOver
        <3>2. size \in Nat /\ pos \in Nat
            BY <3>1, Strides DEF QInv
        <3> QED BY <2>2, <3>1, <3>2 DEF CheckEntry
    <2> QED BY <2>1, <2>2
<1>2. /\ PInv /\ PInv' /\ Place' = Place /\ Len(ops) \in Nat /\ pos \in Nat /\ size \in Nat
      /\ pc # "idle" /\ DOMAIN view \subseteq Ids
    <2>1. PInv /\ pc # "idle"
        BY <1>1 DEF QInv
    <2>2. PInv'
        BY <2>1, UndoKeeps
    <2>3. pos \in Nat /\ size \in Nat
        BY <2>1, Strides
    <2>4. Place' = Place
        BY <1>1, SameOps
    <2>5. Len(ops) \in Nat /\ DOMAIN view \subseteq Ids
        BY <2>1 DEF PInv, Shapely
    <2> QED BY <2>1, <2>2, <2>3, <2>4, <2>5
<1>3. PICK n \in 1 .. Len(ops) + 1 : pos = Place[n] /\ UndoAt(n)
    BY <1>1 DEF QInv, Undo
<1>4. Stands(n)
    BY <1>1, <1>2, <1>3, AtPlace
<1>5. \A k \in 1 .. Len(ops) : Extra(ops[k]) = 0
    BY <1>1 DEF QInv, Undo
<1>6. n \in 1 .. Len(ops) /\ pos' = Place[n + 1] /\ n + 1 \in 1 .. Len(ops) + 1
    BY <1>1, <1>2, <1>4, <1>5 DEF Stands, Entry
<1>7. IF Fills(ops[n]) THEN NewId = ops[n].id2 ELSE NewId \notin Ids
    <2>1. /\ Type = ops[n].type /\ Id1 = ops[n].id1 /\ (ops[n].type = UPDATE => Id2 = ops[n].id2)
        BY <1>4 DEF Stands, WordsOf, Id2
    <2>2. ops[n].type = WRITE => ops[n].id1 = ops[n].id2
        BY <1>6 DEF QInv, Named
    <2>3. 0 \notin Ids
        BY PutAssumption DEF Ids
    <2> QED BY <2>1, <2>2, <2>3, Types DEF NewId, Fills
<1>8. PICK z : z = NewId
    OBVIOUS
<1>9. /\ free \cap DOMAIN view = {}
      /\ \A k \in 1 .. Len(ops) : Fills(ops[k]) => ops[k].id2 \notin DOMAIN view
      /\ \A id \in Ids \ DOMAIN view :
            \/ \E k \in n .. Len(ops) : Fills(ops[k]) /\ ops[k].id2 = id
            \/ blk[id].sum = NoSum /\ (pc # "check" => id \in free)
    BY <1>3 DEF UndoAt
<1>10. z \notin DOMAIN view
    BY <1>2, <1>6, <1>7, <1>8, <1>9
<1>11. \A id \in Ids : blk'[id] = IF id = z THEN SetZero(blk[id]) ELSE blk[id]
    BY <1>1, <1>8
<1>12. ASSUME NEW id \in Ids \ DOMAIN view
       PROVE  \/ \E k \in n + 1 .. Len(ops) : Fills(ops[k]) /\ ops[k].id2 = id
              \/ blk'[id].sum = NoSum /\ (pc # "check" => id \in free')
    <2>1. CASE id = z
        BY <1>1, <1>8, <1>11, <2>1, ZeroSum
    <2>2. CASE id # z /\ blk[id].sum = NoSum /\ (pc # "check" => id \in free)
        BY <1>1, <1>11, <2>2
    <2>3. CASE id # z /\ \E k \in n .. Len(ops) : Fills(ops[k]) /\ ops[k].id2 = id
        <3>1. PICK k \in n .. Len(ops) : Fills(ops[k]) /\ ops[k].id2 = id
            BY <2>3
        <3>2. k # n
            BY <1>7, <1>8, <2>3, <3>1
        <3>3. k \in n + 1 .. Len(ops)
            BY <1>2, <1>6, <3>2
        <3> QED BY <3>1, <3>3
    <2> QED BY <1>9, <2>1, <2>2, <2>3
<1>13. free' \cap DOMAIN view = {}
    BY <1>1, <1>8, <1>9, <1>10
<1>14. UndoAt(n + 1)'
    BY <1>1, <1>9, <1>12, <1>13 DEF UndoAt
<1>15. Undo'
    BY <1>1, <1>2, <1>5, <1>6, <1>14 DEF Undo
<1>16. Named' /\ Kept'
    BY <1>1, <1>2, <1>10, <1>11 DEF QInv, Named, Kept
<1> QED BY <1>1, <1>2, <1>15, <1>16 DEF QInv, Redo

\* The walks that undo, the end.
LEMMA UndoneQ == ASSUME QInv, AbortEnd \/ CheckEnd PROVE QInv'
<1>1. /\ pc \in {"abort", "check"} /\ pc' = "idle" /\ ops' = <<>> /\ UNCHANGED <<blk, view>>
      /\ pos >= size \/ (Id1 = 0 /\ Id2 = 0)
    BY DEF AbortEnd, CheckEnd, CheckOver
<1>2. /\ PInv /\ PInv' /\ Len(ops) \in Nat /\ pos \in Nat /\ size \in Nat /\ list' = <<>>
      /\ pc # "idle" /\ DOMAIN view \subseteq Ids
    <2>1. PInv /\ pc # "idle"
        BY <1>1 DEF QInv
    <2>2. PInv'
        BY <2>1, UndoneKeeps
    <2>3. pos \in Nat /\ size \in Nat
        BY <2>1, Strides
    <2>4. list' = <<>>
        BY <1>1, <2>2 DEF PInv, Walks
    <2>5. Len(ops) \in Nat /\ DOMAIN view \subseteq Ids
        BY <2>1 DEF PInv, Shapely
    <2> QED BY <2>1, <2>2, <2>3, <2>4, <2>5
<1>3. PICK n \in 1 .. Len(ops) + 1 : pos = Place[n] /\ UndoAt(n)
    BY <1>1 DEF QInv, Undo
<1>4. n = Len(ops) + 1
    <2>1. SUFFICES ASSUME pos < size, Stands(n) PROVE FALSE
        BY <1>2, <1>3, AtPlace
    <2>2. Id1 \in Ids
        BY <2>1 DEF Stands
    <2>3. Id1 # 0
        BY <2>2, PutAssumption DEF Ids
    <2> QED BY <1>1, <1>2, <2>1, <2>3
<1>5. n .. Len(ops) = {}
    BY <1>2, <1>4
<1>6. /\ free \cap DOMAIN view = {}
      /\ \A id \in Ids \ DOMAIN view : blk[id].sum = NoSum /\ (pc # "check" => id \in free)
    BY <1>3, <1>5 DEF UndoAt
<1>7. \A id \in DOMAIN view : Holds(blk[id], view[id])
    BY <1>1 DEF QInv, Kept
<1>8. /\ \A id \in DOMAIN view : id \notin free'
      /\ \A id \in Ids \ DOMAIN view : id \in free'
    <2>1. CASE AbortEnd
        BY <1>6, <2>1 DEF AbortEnd
    <2>2. CASE CheckEnd
        <3>1. free' = {id \in Ids : ~ Verifies(blk[id])}
            BY <2>2 DEF CheckEnd
        <3>2. \A id \in DOMAIN view : Verifies(blk[id])
            BY <1>7 DEF Holds
        <3>3. \A id \in Ids \ DOMAIN view : ~ Verifies(blk[id])
            BY <1>6 DEF Verifies
        <3> QED BY <3>1, <3>2, <3>3
    <2> QED BY <2>1, <2>2
<1> QED BY <1>1, <1>2, <1>6, <1>7, <1>8, RestingQ

\* Nothing happens.
LEMMA StutterQ == ASSUME QInv, UNCHANGED vars PROVE QInv'
<1>1. UNCHANGED <<blk, free, log, size, pc, pos, list, view, ops, begun>>
    BY DEF vars
<1>2. Place' = Place /\ RefAfter' = RefAfter /\ PInv'
    BY <1>1, SameOps, StutterKeeps DEF QInv
<1>3. \A id, o : Shows(id, o)' <=> Shows(id, o)
    BY <1>1 DEF Shows
<1>4. \A n : (RedoAt(n)' <=> RedoAt(n)) /\ (UndoAt(n)' <=> UndoAt(n))
    BY <1>1, <1>2, <1>3 DEF RedoAt, UndoAt
<1>5. Undo' /\ Redo'
    BY <1>1, <1>2, <1>4 DEF QInv, Undo, Redo
<1>6. Named' /\ Kept'
    BY <1>1 DEF QInv, Named, Kept
<1> QED BY <1>2, <1>5, <1>6 DEF QInv

\* Execute stands at an operation that it has not done.
LEMMA ExecAt ==
    ASSUME QInv, pc = "execute"
    PROVE  \E n \in 1 .. Len(ops) + 1 :
              /\ pos = Place[n] /\ RedoAt(n) /\ Len(ops) \in Nat
              /\ pos < size => Stands(n) /\ n \in 1 .. Len(ops)
              /\ pos >= size => n = Len(ops) + 1
<1>1. PInv /\ pc # "idle"
    BY DEF QInv
<1>2. pos \in Nat /\ size \in Nat /\ Len(ops) \in Nat
    BY <1>1, Strides DEF PInv, Shapely
<1>3. PICK n \in 1 .. Len(ops) + 1 : pos = Place[n] /\ RedoAt(n)
    BY DEF QInv, Redo
<1>4. (n = Len(ops) + 1 /\ pos = size) \/ (pos < size /\ Stands(n))
    BY <1>1, <1>3, AtPlace
<1>5. pos < size => Stands(n) /\ n \in 1 .. Len(ops)
    BY <1>2, <1>4 DEF Stands
<1>6. pos >= size => n = Len(ops) + 1
    BY <1>2, <1>4
<1> QED BY <1>2, <1>3, <1>5, <1>6

\* It goes on to the next one.
LEMMA ExecOn ==
    ASSUME QInv, PInv', pc = "execute", UNCHANGED <<pc, ops, view>>, NEW n \in 1 .. Len(ops), Len(ops) \in Nat,
           pos' = Place[n + 1], RedoAt(n + 1)'
    PROVE  QInv'
<1>1. Place' = Place /\ n + 1 \in 1 .. Len(ops) + 1
    BY SameOps
<1>2. Redo' /\ Undo' /\ Kept' /\ Named'
    BY <1>1 DEF QInv, Redo, Undo, Kept, Named
<1> QED BY <1>2 DEF QInv

\* Execute: a replaced or removed object.
LEMMA ReleaseQ == ASSUME QInv, ExecRelease PROVE QInv'
<1>1. /\ pc = "execute" /\ pos < size /\ Type \in {UPDATE, REMOVE} /\ pos' = pos + Entry
      /\ UNCHANGED <<log, size, pc, list, view, ops, begun>>
    BY DEF ExecRelease, Executing
<1>2. PInv /\ PInv' /\ RefAfter' = RefAfter
    BY <1>1, ReleaseKeeps, SameOps DEF QInv
<1>3. PICK n \in 1 .. Len(ops) + 1 :
         pos = Place[n] /\ RedoAt(n) /\ Len(ops) \in Nat /\ Stands(n) /\ n \in 1 .. Len(ops)
    BY <1>1, ExecAt
<1>4. PICK x, R, N : x = Id1 /\ R = RefAfter /\ N = Len(ops)
    OBVIOUS
<1>5. /\ x \in Ids /\ x = ops[n].id1 /\ Takes(ops[n]) /\ Extra(ops[n]) = 0 /\ pos' = Place[n + 1]
      /\ \A id : ~ Patches(ops[n], id)
    BY <1>1, <1>3, <1>4, Types DEF Stands, Takes, Extra, Patches, Entry
<1>6. n \in n .. N /\ n \in 1 .. N /\ N \in Nat /\ \A k \in n .. N : k = n \/ k \in n + 1 .. N
    BY <1>3, <1>4
<1>7. /\ free \cap DOMAIN R = {} /\ (\A id \in free : blk[id].sum = NoSum)
      /\ \A id \in Ids \ DOMAIN R : id \in free \/ \E k \in n .. N : Takes(ops[k]) /\ ops[k].id1 = id
    BY <1>3, <1>4 DEF RedoAt
<1>8. \A k \in n .. N : Takes(ops[k]) =>
          /\ ops[k].id1 \notin DOMAIN R /\ ops[k].id1 \notin free /\ blk[ops[k].id1].sum # NoSum
          /\ \A l \in k + 1 .. N : Takes(ops[l]) => ops[k].id1 # ops[l].id1
    BY <1>3, <1>4 DEF RedoAt
<1>9. /\ \A k \in 1 .. N : ops[k].type = UPDINPLACE => ops[k].id1 \in DOMAIN R
      /\ \A m \in 1 .. Len(list) : list[m].id \in DOMAIN R
      /\ \A id \in DOMAIN R : \E g : Chain(g, id, ops, R[id]) /\ Shows(id, g[n - 1])
    BY <1>3, <1>4 DEF RedoAt
<1>10. /\ x \notin DOMAIN R /\ x \notin free /\ blk[x].sum # NoSum
       /\ \A l \in n + 1 .. N : Takes(ops[l]) => x # ops[l].id1
    BY <1>5, <1>6, <1>8
<1>11. blk' = [blk EXCEPT ![x] = SetZero(blk[x])] /\ free' = free \cup {x}
    BY <1>4, <1>5, <1>10 DEF ExecRelease
<1>12. blk'[x] = SetZero(blk[x]) /\ \A id \in Ids \ {x} : blk'[id] = blk[id]
    BY <1>2, <1>5, <1>11 DEF PInv, Shapely
<1>13. free \subseteq Ids /\ DOMAIN R \subseteq Ids /\ \A k \in 1 .. N : ops[k].id1 \in Ids
    BY <1>2, <1>4 DEF PInv, Shapely, OpOK, Op
<1>14. free' \cap DOMAIN R = {} /\ \A id \in free' : blk'[id].sum = NoSum
    BY <1>7, <1>10, <1>11, <1>12, <1>13, ZeroSum
<1>15. \A id \in Ids \ DOMAIN R : id \in free' \/ \E k \in n + 1 .. N : Takes(ops[k]) /\ ops[k].id1 = id
    BY <1>5, <1>6, <1>7, <1>11
<1>16. \A k \in n + 1 .. N : k \in n .. N /\ k \in 1 .. N
    BY <1>6
<1>17. \A k \in n + 1 .. N : Takes(ops[k]) =>
          /\ ops[k].id1 \notin DOMAIN R /\ ops[k].id1 \notin free' /\ blk'[ops[k].id1].sum # NoSum
          /\ \A l \in k + 1 .. N : Takes(ops[l]) => ops[k].id1 # ops[l].id1
    BY <1>8, <1>10, <1>11, <1>12, <1>13, <1>16
<1>18. ASSUME NEW id \in DOMAIN R PROVE \E g : Chain(g, id, ops, R[id]) /\ Shows(id, g[(n + 1) - 1])'
    <2>1. PICK g : Chain(g, id, ops, R[id]) /\ Shows(id, g[n - 1])
        BY <1>9
    <2>2. g[n] = g[n - 1] /\ (n + 1) - 1 = n
        BY <1>4, <1>5, <1>6, <2>1 DEF Chain
    <2>3. blk'[id] = blk[id] /\ list' = list
        BY <1>1, <1>10, <1>12, <1>13
    <2>4. Shows(id, g[n])'
        BY <2>1, <2>2, <2>3 DEF Shows
    <2> QED BY <2>1, <2>2, <2>4
<1>19. RedoAt(n + 1)'
    BY <1>1, <1>2, <1>4, <1>9, <1>14, <1>15, <1>17, <1>18 DEF RedoAt
<1> QED BY <1>1, <1>2, <1>3, <1>5, <1>19, ExecOn

\* Execute: an entry without effect.
LEMMA SkipQ == ASSUME QInv, ExecSkip PROVE QInv'
<1>1. /\ pc = "execute" /\ pos < size /\ Type \notin {UPDATE, REMOVE, UPDINPLACE} /\ pos' = pos + Entry
      /\ UNCHANGED <<blk, free, log, size, pc, list, view, ops, begun>>
    BY DEF ExecSkip
<1>2. PInv /\ PInv' /\ RefAfter' = RefAfter
    BY <1>1, SkipKeeps, SameOps DEF QInv
<1>3. PICK n \in 1 .. Len(ops) + 1 :
         pos = Place[n] /\ RedoAt(n) /\ Len(ops) \in Nat /\ Stands(n) /\ n \in 1 .. Len(ops)
    BY <1>1, ExecAt
<1>4. PICK R, N : R = RefAfter /\ N = Len(ops)
    OBVIOUS
<1>5. ~ Takes(ops[n]) /\ Extra(ops[n]) = 0 /\ pos' = Place[n + 1] /\ \A id : ~ Patches(ops[n], id)
    BY <1>1, <1>3 DEF Stands, Takes, Extra, Patches, Entry
<1>6. n \in 1 .. N /\ N \in Nat /\ (\A k \in n .. N : k = n \/ k \in n + 1 .. N)
      /\ \A k \in n + 1 .. N : k \in n .. N
    BY <1>3, <1>4
<1>7. /\ free \cap DOMAIN R = {} /\ (\A id \in free : blk[id].sum = NoSum)
      /\ \A id \in Ids \ DOMAIN R : id \in free \/ \E k \in n .. N : Takes(ops[k]) /\ ops[k].id1 = id
    BY <1>3, <1>4 DEF RedoAt
<1>8. \A k \in n .. N : Takes(ops[k]) =>
          /\ ops[k].id1 \notin DOMAIN R /\ ops[k].id1 \notin free /\ blk[ops[k].id1].sum # NoSum
          /\ \A l \in k + 1 .. N : Takes(ops[l]) => ops[k].id1 # ops[l].id1
    BY <1>3, <1>4 DEF RedoAt
<1>9. /\ \A k \in 1 .. N : ops[k].type = UPDINPLACE => ops[k].id1 \in DOMAIN R
      /\ \A m \in 1 .. Len(list) : list[m].id \in DOMAIN R
      /\ \A id \in DOMAIN R : \E g : Chain(g, id, ops, R[id]) /\ Shows(id, g[n - 1])
    BY <1>3, <1>4 DEF RedoAt
<1>10. \A id \in Ids \ DOMAIN R : id \in free \/ \E k \in n + 1 .. N : Takes(ops[k]) /\ ops[k].id1 = id
    BY <1>5, <1>6, <1>7
<1>11. ASSUME NEW id \in DOMAIN R PROVE \E g : Chain(g, id, ops, R[id]) /\ Shows(id, g[(n + 1) - 1])'
    <2>1. PICK g : Chain(g, id, ops, R[id]) /\ Shows(id, g[n - 1])
        BY <1>9
    <2>2. g[n] = g[n - 1] /\ (n + 1) - 1 = n
        BY <1>4, <1>5, <1>6, <2>1 DEF Chain
    <2>3. Shows(id, g[n])'
        BY <1>1, <2>1, <2>2 DEF Shows
    <2> QED BY <2>1, <2>2, <2>3
<1>12. RedoAt(n + 1)'
    BY <1>1, <1>2, <1>4, <1>6, <1>7, <1>8, <1>9, <1>10, <1>11 DEF RedoAt
<1> QED BY <1>1, <1>2, <1>3, <1>5, <1>12, ExecOn

\* What tx_slot_meta_upd_add leaves in the list: the entries of other blocks,
\* and one of this block that has grown.
Grown(u, id, e) ==
    /\ Len(list) \in Nat /\ Len(u) \in Nat /\ Len(list) <= Len(u)
    /\ \A m \in 1 .. Len(list) : list[m].id # id => u[m] = list[m]
    /\ \A m \in 1 .. Len(u) : u[m].id # id => m \in 1 .. Len(list) /\ u[m] = list[m]
    /\ \A m \in 1 .. Len(list) : list[m].id = id =>
          /\ u[m].id = id /\ u[m].ver = list[m].ver + 1 /\ u[m].len = Larger(list[m].len, e)
    /\ (\A m \in 1 .. Len(list) : list[m].id # id) =>
          \E m \in 1 .. Len(u) : /\ u[m].id = id /\ u[m].ver = blk[id].ver + 1
                                 /\ u[m].len = Larger(blk[id].vlen, e)

\* It does leave that.
LEMMA MetaUpdIs == ASSUME PInv, NEW id \in Ids, NEW e \in 0 .. MaxVal PROVE Grown(MetaUpdAdd(id, e), id, e)
<1>0. PICK u : u = MetaUpdAdd(id, e)
    OBVIOUS
<1> SUFFICES Grown(u, id, e)
    BY <1>0
<1>1. list \in Seq(Headers) /\ Len(list) \in Nat /\ DOMAIN list = 1 .. Len(list)
    BY DEF PInv, Shapely
<1> DEFINE found == {n \in DOMAIN list : list[n].id = id}
           grow(m) == [m EXCEPT !.ver = @ + 1, !.len = Larger(@, e)]
<1>2. ASSUME NEW m, NEW i, NEW v, NEW l, m = [id |-> i, ver |-> v, len |-> l]
      PROVE  grow(m).id = i /\ grow(m).ver = v + 1 /\ grow(m).len = Larger(l, e)
    <2>1. m.ver = v /\ m.len = l
        BY <1>2
    <2>2. PICK w, z : w = m.ver + 1 /\ z = Larger(m.len, e)
        OBVIOUS
    <2>3. grow(m) = [m EXCEPT !.ver = w, !.len = z]
        BY <2>2, Zenon
    <2> HIDE DEF grow
    <2>4. PICK x : x = [m EXCEPT !.ver = w, !.len = z]
        OBVIOUS
    <2>5. x.id = i /\ x.ver = w /\ x.len = z
        BY <1>2, <2>4
    <2> QED BY <2>1, <2>2, <2>3, <2>4, <2>5
<1>3. CASE found = {}
    <2>1. PICK h, g : h = [id |-> id, ver |-> blk[id].ver, len |-> blk[id].vlen] /\ g = grow(h)
        OBVIOUS
    <2>2. g.id = id /\ g.ver = blk[id].ver + 1 /\ g.len = Larger(blk[id].vlen, e)
        BY <1>2, <2>1
    <2>3. u = Append(list, g)
        BY <1>0, <1>3, <2>1 DEF MetaUpdAdd
    <2> HIDE DEF grow
    <2>4. PICK N : N = Len(list) /\ N \in Nat
        BY <1>1
    <2>5. Len(u) = N + 1 /\ u[N + 1] = g /\ \A m \in 1 .. N : u[m] = list[m]
        BY <1>1, <2>3, <2>4
    <2>6. \A m \in 1 .. N : list[m].id # id
        BY <1>1, <1>3, <2>4
    <2>7. N + 1 \in 1 .. N + 1 /\ \A m \in 1 .. N + 1 : m = N + 1 \/ m \in 1 .. N
        BY <2>4
    <2>8. \E m \in 1 .. Len(u) : /\ u[m].id = id /\ u[m].ver = blk[id].ver + 1
                                 /\ u[m].len = Larger(blk[id].vlen, e)
        BY <2>2, <2>5, <2>7
    <2>9. \A m \in 1 .. Len(u) : u[m].id # id => m \in 1 .. N /\ u[m] = list[m]
        BY <2>2, <2>5, <2>7
    <2>10. Len(u) \in Nat /\ N <= Len(u)
        BY <2>4, <2>5
    <2> QED BY <2>4, <2>5, <2>6, <2>8, <2>9, <2>10 DEF Grown
<1>4. CASE found # {}
    <2> DEFINE y(n) == IF n \in found THEN grow(list[n]) ELSE list[n]
    <2>1. u = [n \in 1 .. Len(list) |-> y(n)]
        BY <1>0, <1>1, <1>4 DEF MetaUpdAdd
    <2>2. PICK N : N = Len(list) /\ N \in Nat
        BY <1>1
    <2>3. ASSUME NEW m \in 1 .. N, list[m].id = id
          PROVE  y(m).id = id /\ y(m).ver = list[m].ver + 1 /\ y(m).len = Larger(list[m].len, e)
        <3>1. list[m] = [id |-> list[m].id, ver |-> list[m].ver, len |-> list[m].len]
            <4>1. list[m] \in Headers
                BY <1>1, <2>2
            <4> QED BY <4>1 DEF Headers
        <3>2. y(m) = grow(list[m])
            BY <1>1, <2>2, <2>3
        <3>3. PICK h, i, v, l : h = list[m] /\ i = list[m].id /\ v = list[m].ver /\ l = list[m].len
            OBVIOUS
        <3>4. h = [id |-> i, ver |-> v, len |-> l]
            BY <3>1, <3>3
        <3>5. grow(h).id = i /\ grow(h).ver = v + 1 /\ grow(h).len = Larger(l, e)
            BY <1>2, <3>4
        <3> HIDE DEF grow, y
        <3> QED BY <2>3, <3>2, <3>3, <3>5
    <2>4. ASSUME NEW m \in 1 .. N, list[m].id # id PROVE y(m) = list[m]
        BY <2>4
    <2>5. PICK k \in 1 .. N : list[k].id = id
        BY <1>1, <1>4, <2>2
    <2> HIDE DEF y, found, grow
    <2>6. Len(u) = N /\ \A m \in 1 .. N : u[m] = y(m)
        BY <2>1, <2>2
    <2>7. \A m \in 1 .. N : list[m].id = id \/ u[m] = list[m]
        BY <2>4, <2>6
    <2>8. \A m \in 1 .. N : list[m].id = id =>
                 u[m].id = id /\ u[m].ver = list[m].ver + 1 /\ u[m].len = Larger(list[m].len, e)
        BY <2>3, <2>6
    <2>9. Len(u) \in Nat /\ N <= Len(u)
        BY <2>2, <2>6
    <2> QED BY <2>2, <2>5, <2>6, <2>7, <2>8, <2>9 DEF Grown
<1> QED BY <1>3, <1>4

\* A block and its header after a small update, and those of other objects.
LEMMA PatchShows ==
    ASSUME PInv, PInv', NEW x \in Ids, NEW kv, Fits(kv), NEW l, l = Len(kv.data), NEW a,
           a = [i \in Area |-> IF MaxKey + kv.off <= i /\ i < MaxKey + kv.off + l
                               THEN kv.data[(i - (MaxKey + kv.off)) + 1] ELSE blk[x].area[i]],
           blk' = [blk EXCEPT ![x] = [blk[x] EXCEPT !.area = a]],
           list' = MetaUpdAdd(x, kv.off + l)
    PROVE  /\ \A o : Shows(x, o) => Shows(x, Patch(o, kv))'
           /\ \A id \in Ids \ {x} : \A o : Shows(id, o) => Shows(id, o)'
<1>1. PICK e : e = kv.off + l
    OBVIOUS
<1>2. e \in 0 .. MaxVal /\ MaxVal \in Nat
    BY <1>1, PutAssumption DEF Fits
<1>3. PICK u : u = list'
    OBVIOUS
<1>4. u = MetaUpdAdd(x, e)
    BY <1>1, <1>3
<1>5. /\ Len(list) \in Nat /\ Len(u) \in Nat /\ Len(list) <= Len(u)
      /\ \A m \in 1 .. Len(list) : list[m].id # x => u[m] = list[m]
      /\ \A m \in 1 .. Len(u) : u[m].id # x => m \in 1 .. Len(list) /\ u[m] = list[m]
      /\ \A m \in 1 .. Len(list) : list[m].id = x =>
             /\ u[m].id = x /\ u[m].ver = list[m].ver + 1 /\ u[m].len = Larger(list[m].len, e)
      /\ (\A m \in 1 .. Len(list) : list[m].id # x) =>
             \E m \in 1 .. Len(u) : /\ u[m].id = x /\ u[m].ver = blk[x].ver + 1
                                    /\ u[m].len = Larger(blk[x].vlen, e)
    <2>1. Grown(u, x, e)
        BY <1>2, <1>4, MetaUpdIs
    <2> QED BY <2>1 DEF Grown
<1>6. \A m \in 1 .. Len(list) : m \in 1 .. Len(u)
    BY <1>5
<1>7. blk'[x] = [blk[x] EXCEPT !.area = a] /\ BlockOK(blk[x]) /\ \A id \in Ids \ {x} : blk'[id] = blk[id]
    BY DEF PInv, Shapely
<1>8. ASSUME NEW id \in Ids \ {x}, NEW o, Shows(id, o) PROVE Shows(id, o)'
    <2>1. CASE (\A m \in 1 .. Len(list) : list[m].id # id) /\ Holds(blk[id], o)
        <3>1. \A m \in 1 .. Len(u) : u[m].id # id
            BY <1>5, <1>8, <2>1
        <3> QED BY <1>3, <1>7, <2>1, <3>1 DEF Shows
    <2>2. CASE /\ Body(blk[id], o)
               /\ \E m \in 1 .. Len(list) : list[m].id = id /\ list[m].ver = o.ver /\ list[m].len = o.len
        <3>1. PICK m \in 1 .. Len(list) : list[m].id = id /\ list[m].ver = o.ver /\ list[m].len = o.len
            BY <2>2
        <3>2. m \in 1 .. Len(u) /\ u[m] = list[m]
            BY <1>5, <1>6, <1>8, <3>1
        <3> QED BY <1>3, <1>7, <2>2, <3>1, <3>2 DEF Shows
    <2> QED BY <1>8, <2>1, <2>2 DEF Shows
<1>9. ASSUME NEW o, Shows(x, o) PROVE Shows(x, Patch(o, kv))'
    <2>1. Body(blk[x], o) /\ RefOK(o)
        BY <1>9 DEF Shows, Holds, Body
    <2>2. PICK b, p : b = blk[x] /\ p = Patch(o, kv)
        OBVIOUS
    <2>3. Body(blk'[x], p)
        <3>1. a = [i \in Area |-> IF MaxKey + kv.off <= i /\ i < MaxKey + kv.off + Len(kv.data)
                                  THEN kv.data[(i - (MaxKey + kv.off)) + 1] ELSE b.area[i]]
            BY <2>2
        <3>2. Body([b EXCEPT !.area = a], Patch(o, kv))
            BY <1>7, <2>1, <2>2, <3>1, PatchBody
        <3> QED BY <1>7, <2>2, <3>2
    <2>4. p.ver = o.ver + 1 /\ p.len = Larger(e, o.len)
        BY <1>1, <2>1, <2>2, RefPutOK
    <2>5. Larger(o.len, e) = Larger(e, o.len)
        BY <1>2, <2>1 DEF Larger, RefOK
    <2>6. \E m \in 1 .. Len(u) : u[m].id = x /\ u[m].ver = p.ver /\ u[m].len = p.len
        <3>1. CASE (\A m \in 1 .. Len(list) : list[m].id # x) /\ Holds(blk[x], o)
            <4>1. blk[x].ver = o.ver /\ blk[x].vlen = o.len
                BY <3>1 DEF Holds
            <4> QED BY <1>5, <2>4, <2>5, <3>1, <4>1
        <3>2. CASE \E m \in 1 .. Len(list) : list[m].id = x /\ list[m].ver = o.ver /\ list[m].len = o.len
            BY <1>5, <1>6, <2>4, <2>5, <3>2
        <3> QED BY <1>9, <3>1, <3>2 DEF Shows
    <2>7. Shows(x, p)'
        BY <1>3, <2>3, <2>6 DEF Shows
    <2> QED BY <2>2, <2>7
<1> QED BY <1>8, <1>9

\* Execute: a small update.
LEMMA PatchQ == ASSUME QInv, ExecPatch PROVE QInv'
<1>1. /\ pc = "execute" /\ pos < size /\ Type = UPDINPLACE
      /\ UNCHANGED <<free, log, size, pc, view, ops, begun>>
    BY DEF ExecPatch, Executing
<1>2. PInv /\ PInv' /\ RefAfter' = RefAfter
    BY <1>1, PatchKeeps, SameOps DEF QInv
<1>3. PICK n \in 1 .. Len(ops) + 1 :
         pos = Place[n] /\ RedoAt(n) /\ Len(ops) \in Nat /\ Stands(n) /\ n \in 1 .. Len(ops)
    BY <1>1, ExecAt
<1>4. PICK x, R, N, kv, l, o : x = Id1 /\ R = RefAfter /\ N = Len(ops) /\ kv = ops[n].kv
                               /\ l = Len(kv.data) /\ o = kv.off
    OBVIOUS
<1>5. /\ x \in Ids /\ x = ops[n].id1 /\ ops[n].type = UPDINPLACE /\ OpOK(ops[n]) /\ Extra(ops[n]) = l
      /\ Id2 \div Shift = l /\ Id2 % Shift = o /\ o \in Nat /\ o + l <= MaxVal
      /\ Place[n + 1] = pos + Entry + l
    BY <1>1, <1>3, <1>4 DEF Stands, Extra
<1>6. ~ Takes(ops[n]) /\ Patches(ops[n], x) /\ \A id : id # x => ~ Patches(ops[n], id)
    BY <1>5, Types DEF Takes, Patches
<1>7. Fits(kv) /\ l \in Nat
    <2>1. ops[n].kv \in Kv
        BY <1>5, Types DEF OpOK
    <2>2. kv.klen \in KeyLens /\ kv.data \in Seq(Nat)
        BY <1>4, <2>1 DEF Kv
    <2>3. kv.klen \in 1 .. MaxKey
        BY <2>2, PutAssumption
    <2>4. l \in Nat
        BY <1>4, <2>2
    <2> QED BY <1>4, <1>5, <2>2, <2>3, <2>4 DEF Fits
<1>8. PICK a : a = [i \in Area |-> IF MaxKey + o <= i /\ i < MaxKey + o + l
                                   THEN log[pos + Entry + i - (MaxKey + o)] ELSE blk[x].area[i]]
    OBVIOUS
<1>9. /\ pos' = pos + Entry + l /\ list' = MetaUpdAdd(x, o + l)
      /\ blk' = [blk EXCEPT ![x] = [blk[x] EXCEPT !.area = a]]
    BY <1>4, <1>5, <1>8, Zenon DEF ExecPatch
<1>10. a = [i \in Area |-> IF MaxKey + o <= i /\ i < MaxKey + o + l
                           THEN kv.data[(i - (MaxKey + o)) + 1] ELSE blk[x].area[i]]
    <2>1. \A j \in 1 .. l : log[pos + Entry + j - 1] = kv.data[j]
        BY <1>1, <1>2, <1>3, <1>4, <1>5 DEF PInv, Logged, WordsOf
    <2>2. pos \in Int /\ MaxKey \in Int /\ Area \subseteq Int
        <3>1. pos \in Nat
            BY <1>1, <1>2, Strides
        <3> QED BY <3>1, PutAssumption DEF Area
    <2>3. ASSUME NEW i \in Area, MaxKey + o <= i, i < MaxKey + o + l
          PROVE  log[pos + Entry + i - (MaxKey + o)] = kv.data[(i - (MaxKey + o)) + 1]
        <3>1. PICK j : j = (i - (MaxKey + o)) + 1
            OBVIOUS
        <3>2. j \in 1 .. l /\ pos + Entry + i - (MaxKey + o) = pos + Entry + j - 1
            BY <1>5, <1>7, <2>2, <2>3, <3>1 DEF Entry
        <3> QED BY <2>1, <3>1, <3>2
    <2> QED BY <1>8, <2>3
<1>11. /\ \A p : Shows(x, p) => Shows(x, Patch(p, kv))'
       /\ \A id \in Ids \ {x} : \A p : Shows(id, p) => Shows(id, p)'
    BY <1>2, <1>4, <1>5, <1>7, <1>9, <1>10, PatchShows
<1>12. \A id \in Ids : blk'[id].sum = blk[id].sum
    <2>1. BlockOK(blk[x]) /\ blk'[x] = [blk[x] EXCEPT !.area = a] /\ \A id \in Ids \ {x} : blk'[id] = blk[id]
        BY <1>2, <1>5, <1>9 DEF PInv, Shapely
    <2>2. blk'[x].sum = blk[x].sum
        BY <2>1 DEF BlockOK
    <2> QED BY <2>1, <2>2
<1>13. n \in 1 .. N /\ N \in Nat /\ (\A k \in n .. N : k = n \/ k \in n + 1 .. N)
       /\ \A k \in n + 1 .. N : k \in n .. N /\ k \in 1 .. N
    BY <1>3, <1>4
<1>14. /\ free \cap DOMAIN R = {} /\ (\A id \in free : blk[id].sum = NoSum)
       /\ \A id \in Ids \ DOMAIN R : id \in free \/ \E k \in n .. N : Takes(ops[k]) /\ ops[k].id1 = id
    BY <1>3, <1>4 DEF RedoAt
<1>15. \A k \in n .. N : Takes(ops[k]) =>
          /\ ops[k].id1 \notin DOMAIN R /\ ops[k].id1 \notin free /\ blk[ops[k].id1].sum # NoSum
          /\ \A m \in k + 1 .. N : Takes(ops[m]) => ops[k].id1 # ops[m].id1
    BY <1>3, <1>4 DEF RedoAt
<1>16. /\ \A k \in 1 .. N : ops[k].type = UPDINPLACE => ops[k].id1 \in DOMAIN R
       /\ \A m \in 1 .. Len(list) : list[m].id \in DOMAIN R
       /\ \A id \in DOMAIN R : \E g : Chain(g, id, ops, R[id]) /\ Shows(id, g[n - 1])
    BY <1>3, <1>4 DEF RedoAt
<1>17. free \subseteq Ids /\ DOMAIN R \subseteq Ids /\ \A k \in 1 .. N : ops[k].id1 \in Ids
    BY <1>2, <1>4 DEF PInv, Shapely, OpOK, Op
<1>18. \A id \in Ids \ DOMAIN R : id \in free \/ \E k \in n + 1 .. N : Takes(ops[k]) /\ ops[k].id1 = id
    BY <1>6, <1>13, <1>14
<1>19. \A k \in n + 1 .. N : Takes(ops[k]) =>
          /\ ops[k].id1 \notin DOMAIN R /\ ops[k].id1 \notin free /\ blk'[ops[k].id1].sum # NoSum
          /\ \A m \in k + 1 .. N : Takes(ops[m]) => ops[k].id1 # ops[m].id1
    BY <1>12, <1>13, <1>15, <1>17
<1>20. \A id \in free : blk'[id].sum = NoSum
    BY <1>12, <1>14, <1>17
<1>21. \A m \in 1 .. Len(list') : list'[m].id \in DOMAIN R
    <2>1. o + l \in 0 .. MaxVal /\ x \in DOMAIN R
        BY <1>5, <1>7, <1>13, <1>16, PutAssumption
    <2>2. Grown(list', x, o + l)
        BY <1>2, <1>5, <1>9, <2>1, MetaUpdIs
    <2> QED BY <1>16, <2>1, <2>2 DEF Grown
<1>22. ASSUME NEW id \in DOMAIN R PROVE \E g : Chain(g, id, ops, R[id]) /\ Shows(id, g[(n + 1) - 1])'
    <2>1. PICK g : Chain(g, id, ops, R[id]) /\ Shows(id, g[n - 1])
        BY <1>16
    <2>2. g[n] = (IF Patches(ops[n], id) THEN Patch(g[n - 1], kv) ELSE g[n - 1]) /\ (n + 1) - 1 = n
        BY <1>4, <1>13, <2>1 DEF Chain
    <2>3. CASE id = x
        BY <1>6, <1>11, <2>1, <2>2, <2>3
    <2>4. CASE id # x
        BY <1>6, <1>11, <1>17, <2>1, <2>2, <2>4
    <2> QED BY <2>3, <2>4
<1>23. RedoAt(n + 1)'
    BY <1>1, <1>2, <1>4, <1>14, <1>16, <1>18, <1>19, <1>20, <1>21, <1>22 DEF RedoAt
<1> QED BY <1>1, <1>2, <1>3, <1>5, <1>9, <1>23, ExecOn

\* The end of execute refreshes the headers in the list.
LEMMA EndQ == ASSUME QInv, ExecEnd PROVE QInv'
<1>1. /\ pc = "execute" /\ pos >= size /\ pc' = "idle" /\ list' = <<>> /\ ops' = <<>> /\ view' = RefAfter
      /\ free' = free
    BY DEF ExecEnd
<1>2. PInv /\ PInv'
    BY EndKeeps DEF QInv
<1>3. PICK n \in 1 .. Len(ops) + 1 : RedoAt(n) /\ Len(ops) \in Nat /\ n = Len(ops) + 1
    BY <1>1, ExecAt
<1>4. PICK R, N : R = RefAfter /\ N = Len(ops) /\ N \in Nat
    BY <1>3
<1>5. n .. N = {} /\ n - 1 = N
    BY <1>3, <1>4
<1>6. /\ free \cap DOMAIN R = {} /\ (\A id \in free : blk[id].sum = NoSum)
      /\ \A id \in Ids \ DOMAIN R : id \in free
      /\ \A m \in 1 .. Len(list) : list[m].id \in DOMAIN R
      /\ \A id \in DOMAIN R : \E g : Chain(g, id, ops, R[id]) /\ Shows(id, g[n - 1])
    BY <1>3, <1>4, <1>5 DEF RedoAt
<1>7. DOMAIN R \subseteq Ids /\ DOMAIN list = 1 .. Len(list)
    BY <1>2, <1>4 DEF PInv, Shapely
<1>8. ASSUME NEW id \in Ids, \A m \in 1 .. Len(list) : list[m].id # id PROVE blk'[id] = blk[id]
    BY <1>7, <1>8 DEF ExecEnd
<1>9. ASSUME NEW id \in Ids, NEW m \in 1 .. Len(list), list[m].id = id
      PROVE  blk'[id] = Refresh(blk[id], list[m])
    <2>1. PICK k : k = CHOOSE j \in DOMAIN list : list[j].id = id
        OBVIOUS
    <2>2. k \in 1 .. Len(list) /\ list[k].id = id
        BY <1>7, <1>9, <2>1
    <2>3. k = m
        BY <1>2, <1>9, <2>2 DEF PInv, Walks
    <2>4. blk'[id] = Refresh(blk[id], list[CHOOSE j \in DOMAIN list : list[j].id = id])
        BY <1>7, <1>9 DEF ExecEnd
    <2> QED BY <2>1, <2>3, <2>4
<1>10. ASSUME NEW id \in DOMAIN R PROVE Holds(blk'[id], R[id]) /\ id \notin free
    <2>1. PICK g : Chain(g, id, ops, R[id]) /\ Shows(id, g[n - 1])
        BY <1>6
    <2>2. g[N] = R[id]
        BY <1>4, <2>1 DEF Chain
    <2>3. Shows(id, R[id]) /\ id \in Ids /\ BlockOK(blk[id])
        BY <1>2, <1>5, <1>7, <2>1, <2>2 DEF PInv, Shapely
    <2>4. CASE (\A m \in 1 .. Len(list) : list[m].id # id) /\ Holds(blk[id], R[id])
        BY <1>6, <1>8, <2>3, <2>4
    <2>5. CASE /\ Body(blk[id], R[id])
               /\ \E m \in 1 .. Len(list) : list[m].id = id /\ list[m].ver = R[id].ver /\ list[m].len = R[id].len
        <3>1. PICK m \in 1 .. Len(list) : list[m].id = id /\ list[m].ver = R[id].ver /\ list[m].len = R[id].len
            BY <2>5
        <3>2. Holds(Refresh(blk[id], list[m]), R[id])
            BY <2>3, <2>5, <3>1, RefreshHolds
        <3> QED BY <1>6, <1>9, <2>3, <3>1, <3>2
    <2> QED BY <2>3, <2>4, <2>5 DEF Shows
<1>11. ASSUME NEW id \in Ids \ DOMAIN R PROVE blk'[id].sum = NoSum /\ id \in free
    <2>1. \A m \in 1 .. Len(list) : list[m].id # id
        BY <1>6
    <2> QED BY <1>6, <1>8, <2>1
<1> QED BY <1>1, <1>2, <1>4, <1>10, <1>11, RestingQ

\* Every step keeps it, unless transactions with payloads are undone.
LEMMA QInvStep == ASSUME QInv, [Next]_vars, "shift" \notin Workload, 2 <= MaxVal PROVE QInv'
<1>1. CASE Begin
    BY <1>1, BeginQ
<1>2. ASSUME NEW kv \in Args, TPutNew(kv) PROVE QInv'
    BY <1>2, NewQ
<1>3. ASSUME NEW id \in Ids, NEW kv \in Args, TPutUpdate(id, kv) PROVE QInv'
    BY <1>3, UpdateQ
<1>4. ASSUME NEW id \in Ids, NEW kv \in Args, TPutSmall(id, kv) PROVE QInv'
    BY <1>4, SmallQ
<1>5. ASSUME NEW id \in Ids, TDel(id) PROVE QInv'
    BY <1>5, RemoveQ
<1>6. CASE ExecRelease
    BY <1>6, ReleaseQ
<1>7. CASE ExecPatch
    BY <1>7, PatchQ
<1>8. CASE ExecSkip
    BY <1>8, SkipQ
<1>9. CASE ExecEnd
    BY <1>9, EndQ
<1>10. CASE TxExecute \/ TxAbort \/ Crash
    BY <1>10, StartQ
<1>11. CASE AbortEntry \/ CheckEntry
    BY <1>11, UndoQ
<1>12. CASE AbortEnd \/ CheckEnd
    BY <1>12, UndoneQ
<1>13. CASE UNCHANGED vars
    BY <1>13, StutterQ
<1> QED BY <1>1, <1>2, <1>3, <1>4, <1>5, <1>6, <1>7, <1>8, <1>9, <1>10, <1>11, <1>12, <1>13 DEF Next

\* The inductive invariant of the blocks, the log and the objects that clients
\* have put: what the log still has to do, done, gives the objects.  Small
\* updates exist only where max_val_len is 2 or more, and abort and check miss
\* blocks when a payload shifts their walk (AbortClears).
THEOREM PutObjects == ("shift" \notin Workload /\ 2 <= MaxVal) => (Spec => []QInv)
<1> SUFFICES ASSUME "shift" \notin Workload, 2 <= MaxVal PROVE Spec => []QInv
    OBVIOUS
<1>1. Init => QInv
    BY InitQ
<1>2. QInv /\ [Next]_vars => QInv'
    BY QInvStep
<1> QED BY <1>1, <1>2, PTL DEF Spec

\* pmb_get between transactions gives the key, the length, the version and
\* every byte that pmb_tput was given, whatever writes, updates and small
\* updates of however many transactions, committed, aborted or cut off by a
\* crash, went before.
THEOREM PutReadsAsWritten == ("shift" \notin Workload /\ 2 <= MaxVal) => (Spec => []ReadsAsWritten)
<1> SUFFICES ASSUME "shift" \notin Workload, 2 <= MaxVal PROVE Spec => []ReadsAsWritten
    OBVIOUS
<1>1. QInv => ReadsAsWritten
    <2> SUFFICES ASSUME QInv, pc = "idle", NEW id \in DOMAIN view
                 PROVE  /\ blk[id].klen = view[id].klen /\ blk[id].vlen = view[id].len
                        /\ blk[id].ver = view[id].ver
                        /\ \A j \in DOMAIN view[id].bytes : blk[id].area[MaxKey + j] = view[id].bytes[j]
        BY DEF ReadsAsWritten
    <2>1. Holds(blk[id], view[id])
        BY RestsQ
    <2> QED BY <2>1 DEF Holds, Body
<1>2. Spec => []QInv
    BY PutObjects
<1> QED BY <1>1, <1>2, PTL

\* Between transactions recovery_thread would keep exactly the objects: their
\* checksums verify after whatever was patched into their blocks, and every
\* other block is on free_list and does not verify.
THEOREM PutScanExact == ("shift" \notin Workload /\ 2 <= MaxVal) => (Spec => []ScanExact)
<1> SUFFICES ASSUME "shift" \notin Workload, 2 <= MaxVal PROVE Spec => []ScanExact
    OBVIOUS
<1>1. QInv => ScanExact
    <2> SUFFICES ASSUME QInv, pc = "idle", NEW id \in Ids
                 PROVE  /\ Verifies(blk[id]) <=> id \in DOMAIN view
                        /\ id \in free <=> id \notin DOMAIN view
        BY DEF ScanExact
    <2>1. CASE id \in DOMAIN view
        <3>1. Holds(blk[id], view[id]) /\ id \notin free
            BY <2>1, RestsQ
        <3> QED BY <2>1, <3>1 DEF Holds
    <2>2. CASE id \notin DOMAIN view
        <3>1. blk[id].sum = NoSum /\ id \in free
            BY <2>2, RestsQ
        <3>2. ~ Verifies(blk[id])
            BY <3>1 DEF Verifies
        <3> QED BY <2>2, <3>1, <3>2
    <2> QED BY <2>1, <2>2
<1>2. Spec => []QInv
    BY PutObjects
<1> QED BY <1>1, <1>2, PTL
=============================================================================

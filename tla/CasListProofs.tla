--------------------------- MODULE CasListProofs ---------------------------
(***************************************************************************)
(* CasList for every set of identifiers: its links stay canonical, its     *)
(* size stays exact, and it implements FreeSet.                            *)
(***************************************************************************)
EXTENDS CasList, FiniteSetTheorems, SequenceTheorems, WellFoundedInduction, TLAPS

LinkType == [begin : Ids, end : Ids]

\* The inductive invariant: the checked invariants, and that the list stands
\* for a finite set, without which its cardinality would mean nothing.
Inv ==
    /\ TypeOK
    /\ Canonical
    /\ IsFiniteSet(Members(links))
    /\ SizeExact

-----------------------------------------------------------------------------
\* A non-empty set of naturals has a least element.
LEMMA LeastNat ==
    ASSUME NEW T \in SUBSET Nat, T # {}
    PROVE  \E x \in T : \A y \in T : x <= y
<1>1. \E x \in T : \A y \in T : ~ (<<y, x>> \in OpToRel(<, Nat))
    BY NatLessThanWellFounded, WFMin
<1>2. PICK x \in T : \A y \in T : ~ (<<y, x>> \in OpToRel(<, Nat))
    BY <1>1
<1>3. \A y \in T : ~ (y < x)
    BY <1>2, Zenon DEF OpToRel
<1> QED BY <1>3

\* The walk over a non-empty list settles at some link, and the value is
\* above every link before that one.
LEMMA WalkSettles ==
    ASSUME NEW ls, RangeList(ls), ls # << >>, NEW v \in Ids
    PROVE  /\ LinkFor(ls, v) \in 1 .. Len(ls)
           /\ SettlesAt(ls, LinkFor(ls, v), v)
           /\ \A j \in 1 .. (LinkFor(ls, v) - 1) : ~ SettlesAt(ls, j, v)
<1> DEFINE T == {i \in 1 .. Len(ls) : SettlesAt(ls, i, v)}
<1>1. Len(ls) \in Nat \ {0}
    BY EmptySeq DEF RangeList
<1>2. Len(ls) \in T
    BY <1>1 DEF SettlesAt
<1>3. T \in SUBSET Nat
    BY <1>1
<1>4. PICK x \in T : \A y \in T : x <= y
    BY <1>2, <1>3, LeastNat
<1>5. \A j \in 1 .. (x - 1) : ~ SettlesAt(ls, j, v)
    BY <1>1, <1>4
<1> QED BY <1>4, <1>5 DEF LinkFor

-----------------------------------------------------------------------------
\* Where the walk stops, the value is new to the list unless it is in that
\* very link.
LEMMA NewValue ==
    ASSUME NEW ls, RangeList(ls), CanonicalList(ls), NEW v \in Ids,
           NEW i \in 1 .. Len(ls), SettlesAt(ls, i, v),
           \A j \in 1 .. (i - 1) : ~ SettlesAt(ls, j, v),
           ~ InRange(ls[i], v)
    PROVE  /\ v \notin Members(ls)
           /\ \A j \in 1 .. (i - 1) : ls[j].end + 1 < v
           /\ i > 1 => ls[i].begin - 1 <= v
           /\ \A j \in 1 .. Len(ls) : j > i => v < ls[j].begin
<1>1. /\ Len(ls) \in Nat
      /\ \A j \in 1 .. Len(ls) : ls[j] \in LinkType
    BY LenProperties DEF RangeList, LinkType
<1>2. v \in Nat /\ \A j \in 1 .. Len(ls) : ls[j].begin \in Nat /\ ls[j].end \in Nat
    BY <1>1, IdsAssumption DEF LinkType
<1>3. \A j \in 1 .. (i - 1) : ls[j].end + 1 < v
    BY <1>1, <1>2 DEF SettlesAt
<1>4. i > 1 => ls[i].begin - 1 <= v
    <2> HAVE i > 1
    <2>1. i - 1 \in 1 .. (i - 1) /\ ~ SettlesAt(ls, i - 1, v) /\ (i - 1) + 1 = i
        BY <1>1
    <2> QED BY <2>1, <1>1, <1>2 DEF SettlesAt
<1>5. \A j \in 1 .. Len(ls) : j > i => v < ls[j].begin
    <2> SUFFICES ASSUME NEW j \in 1 .. Len(ls), j > i PROVE v < ls[j].begin
        OBVIOUS
    <2>1. i + 1 \in 1 .. Len(ls) /\ i # Len(ls)
        BY <1>1
    <2>2. ls[i].end + 1 < ls[j].begin
        BY DEF CanonicalList
    <2>3. ls[i + 1].begin <= ls[j].begin
        <3>1. CASE j = i + 1
            BY <1>2, <2>1, <3>1
        <3>2. CASE j # i + 1
            <4>1. i + 1 < j
                BY <1>1, <3>2
            <4>2. /\ ls[i + 1].end + 1 < ls[j].begin
                  /\ ls[i + 1].begin <= ls[i + 1].end
                BY <2>1, <4>1 DEF CanonicalList
            <4>3. /\ ls[i + 1].begin \in Nat /\ ls[i + 1].end \in Nat
                  /\ ls[j].begin \in Nat
                BY <1>2, <2>1
            <4> QED BY <4>2, <4>3
        <3> QED BY <3>1, <3>2
    <2>4. v <= ls[i].end + 1 \/ v < ls[i + 1].begin - 1
        BY <2>1 DEF SettlesAt
    <2>5. /\ v \in Nat /\ ls[i].end \in Nat /\ ls[i + 1].begin \in Nat
          /\ ls[j].begin \in Nat
        BY <1>2, <2>1
    <2> DEFINE ie == ls[i].end
               nb == ls[i + 1].begin
               jb == ls[j].begin
    <2>6. /\ v \in Nat /\ ie \in Nat /\ nb \in Nat /\ jb \in Nat
          /\ ie + 1 < jb /\ nb <= jb /\ (v <= ie + 1 \/ v < nb - 1)
        BY <2>2, <2>3, <2>4, <2>5
    <2> HIDE DEF ie, nb, jb
    <2>7. v < jb
        BY <2>6
    <2> QED BY <2>7 DEF jb
<1>6. v \notin Members(ls)
    <2> SUFFICES ASSUME NEW j \in 1 .. Len(ls), InRange(ls[j], v) PROVE FALSE
        BY DEF Members
    <2>1. /\ v \in Nat /\ ls[j].begin \in Nat /\ ls[j].end \in Nat
          /\ ls[j].begin <= v /\ v <= ls[j].end
        BY <1>2 DEF InRange
    <2>2. CASE j < i
        <3>1. j \in 1 .. (i - 1)
            BY <1>1, <2>2
        <3>2. ls[j].end + 1 < v
            BY <1>3, <3>1
        <3> QED BY <2>1, <3>2
    <2>3. CASE j > i
        <3>1. v < ls[j].begin
            BY <1>5, <2>3
        <3> QED BY <2>1, <3>1
    <2>4. CASE j = i
        BY <2>4
    <2> QED BY <1>1, <2>2, <2>3, <2>4
<1> QED BY <1>3, <1>4, <1>5, <1>6
-----------------------------------------------------------------------------
\* What a list built position by position is: a sequence of links.
LEMMA BuiltList ==
    ASSUME NEW n \in Nat, NEW ls \in [1 .. n -> LinkType]
    PROVE  ls \in Seq(LinkType) /\ Len(ls) = n
OBVIOUS

\* A new link put before every link above it keeps the list canonical and
\* adds exactly its value.
LEMMA InsertKeeps ==
    ASSUME NEW ls, RangeList(ls), CanonicalList(ls), NEW v \in Ids,
           NEW p \in 1 .. Len(ls) + 1,
           \A j \in 1 .. Len(ls) : j < p => ls[j].end + 1 < v,
           \A j \in 1 .. Len(ls) : j >= p => v + 1 < ls[j].begin
    PROVE  /\ RangeList(InsertLink(ls, p, v))
           /\ CanonicalList(InsertLink(ls, p, v))
           /\ Members(InsertLink(ls, p, v)) = Members(ls) \cup {v}
<1> DEFINE n == Len(ls)
           new == InsertLink(ls, p, v)
<1>1. /\ n \in Nat
      /\ ls \in [1 .. n -> LinkType]
    BY LenProperties DEF RangeList, LinkType
<1>2. /\ v \in Nat
      /\ \A j \in 1 .. n : ls[j].begin \in Nat /\ ls[j].end \in Nat
    BY <1>1, IdsAssumption DEF LinkType
<1>3. Link(v, v) \in LinkType
    BY DEF Link, LinkType
<1>4. new \in [1 .. n + 1 -> LinkType]
    BY <1>1, <1>3 DEF InsertLink
<1>5. new \in Seq(LinkType) /\ Len(new) = n + 1
    BY <1>1, <1>4, BuiltList
<1>6. /\ \A k \in 1 .. n + 1 : k < p => k \in 1 .. n /\ new[k] = ls[k]
      /\ new[p] = Link(v, v)
      /\ \A k \in 1 .. n + 1 : k > p => k - 1 \in 1 .. n /\ new[k] = ls[k - 1]
    BY <1>1 DEF InsertLink
<1>7. /\ Link(v, v).begin = v /\ Link(v, v).end = v
    BY DEF Link
<1> HIDE DEF n, new
<1>8. RangeList(new)
    <2>1. \A k \in 1 .. n : ls[k].begin .. ls[k].end \subseteq Ids
        BY DEF RangeList, n
    <2>2. v .. v \subseteq Ids
        BY <1>2
    <2>3. ASSUME NEW k \in 1 .. n + 1
          PROVE  new[k].begin .. new[k].end \subseteq Ids
        <3>1. CASE k = p
            BY <1>6, <1>7, <2>2, <3>1
        <3>2. CASE k # p
            <4>1. PICK j \in 1 .. n : new[k] = ls[j]
                BY <1>1, <1>6, <3>2 DEF n
            <4> QED BY <2>1, <4>1
        <3> QED BY <3>1, <3>2
    <2> QED BY <1>5, <2>3 DEF RangeList, LinkType
<1>9. CanonicalList(new)
    <2>0. \A j \in 1 .. n : ls[j].begin <= ls[j].end
        BY DEF CanonicalList, n
    <2>1. ASSUME NEW k \in 1 .. n + 1 PROVE new[k].begin <= new[k].end
        <3>1. CASE k = p
            BY <1>2, <1>6, <1>7, <3>1
        <3>2. CASE k # p
            <4>1. PICK j \in 1 .. n : new[k] = ls[j]
                BY <1>1, <1>6, <3>2 DEF n
            <4> QED BY <2>0, <4>1
        <3> QED BY <3>1, <3>2
    <2>2. ASSUME NEW k \in 1 .. n + 1, NEW m \in 1 .. n + 1, k < m
          PROVE  new[k].end + 1 < new[m].begin
        <3>1. CASE m < p
            BY <1>1, <1>6, <2>2, <3>1 DEF CanonicalList, n
        <3>2. CASE m = p
            BY <1>1, <1>6, <1>7, <2>2, <3>2 DEF n
        <3>3. CASE m > p /\ k < p
            BY <1>1, <1>6, <2>2, <3>3 DEF CanonicalList, n
        <3>4. CASE m > p /\ k = p
            BY <1>1, <1>2, <1>6, <1>7, <2>2, <3>4 DEF n
        <3>5. CASE m > p /\ k > p
            BY <1>1, <1>6, <2>2, <3>5 DEF CanonicalList, n
        <3> QED BY <1>1, <3>1, <3>2, <3>3, <3>4, <3>5 DEF n
    <2> QED BY <1>5, <2>1, <2>2 DEF CanonicalList
<1>10. Members(new) = Members(ls) \cup {v}
    <2>1. ASSUME NEW w \in Ids, NEW k \in 1 .. n + 1, InRange(new[k], w)
          PROVE  w = v \/ \E j \in 1 .. n : InRange(ls[j], w)
        <3>1. CASE k = p
            BY <1>2, <1>6, <1>7, <2>1, <3>1, IdsAssumption DEF InRange
        <3>2. CASE k # p
            BY <1>1, <1>6, <2>1, <3>2 DEF n
        <3> QED BY <3>1, <3>2
    <2>2. ASSUME NEW w \in Ids, NEW j \in 1 .. n, InRange(ls[j], w)
          PROVE  \E k \in 1 .. n + 1 : InRange(new[k], w)
        <3>1. CASE j < p
            BY <1>1, <1>6, <2>2, <3>1 DEF n
        <3>2. CASE j >= p
            <4>1. j + 1 \in 1 .. n + 1 /\ j + 1 > p /\ (j + 1) - 1 = j
                BY <1>1, <3>2 DEF n
            <4> QED BY <1>6, <2>2, <4>1
        <3> QED BY <1>1, <3>1, <3>2 DEF n
    <2>3. p \in 1 .. n + 1 /\ InRange(new[p], v)
        BY <1>2, <1>6, <1>7 DEF InRange, n
    <2>4. \A w \in Ids : (\E k \in 1 .. n + 1 : InRange(new[k], w))
                            <=> (w = v \/ \E j \in 1 .. n : InRange(ls[j], w))
        BY <2>1, <2>2, <2>3
    <2> QED BY <1>5, <2>4 DEF Members, n
<1> QED BY <1>8, <1>9, <1>10 DEF new

\* A link replaced by one that keeps clear of its neighbours keeps the list
\* canonical; the values are those of the new link and of the other links.
LEMMA ReplaceKeeps ==
    ASSUME NEW ls, RangeList(ls), CanonicalList(ls),
           NEW i \in 1 .. Len(ls), NEW b \in Ids, NEW e \in Ids,
           b <= e, b .. e \subseteq Ids,
           \A j \in 1 .. Len(ls) : j < i => ls[j].end + 1 < b,
           \A j \in 1 .. Len(ls) : j > i => e + 1 < ls[j].begin
    PROVE  /\ RangeList([ls EXCEPT ![i] = Link(b, e)])
           /\ CanonicalList([ls EXCEPT ![i] = Link(b, e)])
           /\ \A w : w \in Members([ls EXCEPT ![i] = Link(b, e)]) <=>
                    /\ w \in Ids
                    /\ \/ b <= w /\ w <= e
                       \/ \E j \in 1 .. Len(ls) : j # i /\ InRange(ls[j], w)
<1> DEFINE n == Len(ls)
           new == [ls EXCEPT ![i] = Link(b, e)]
<1>1. /\ n \in Nat
      /\ ls \in [1 .. n -> LinkType]
    BY LenProperties DEF RangeList, LinkType
<1>2. /\ Link(b, e) \in LinkType
      /\ Link(b, e).begin = b /\ Link(b, e).end = e
    BY DEF Link, LinkType
<1>3. new \in [1 .. n -> LinkType]
    BY <1>1, <1>2
<1>4. new \in Seq(LinkType) /\ Len(new) = n
    BY <1>1, <1>3, BuiltList
<1>5. new[i] = Link(b, e) /\ \A j \in 1 .. n : j # i => new[j] = ls[j]
    BY <1>1
<1> HIDE DEF n, new
<1>6. RangeList(new)
    <2>1. \A k \in 1 .. n : new[k].begin .. new[k].end \subseteq Ids
        BY <1>2, <1>5 DEF RangeList, n
    <2> QED BY <1>4, <2>1 DEF RangeList, LinkType
<1>7. CanonicalList(new)
    <2>1. \A k \in 1 .. n : new[k].begin <= new[k].end
        BY <1>2, <1>5 DEF CanonicalList, n
    <2>2. ASSUME NEW k \in 1 .. n, NEW m \in 1 .. n, k < m
          PROVE  new[k].end + 1 < new[m].begin
        BY <1>1, <1>2, <1>5, <2>2 DEF CanonicalList, n
    <2> QED BY <1>4, <2>1, <2>2 DEF CanonicalList
<1>8. \A w \in Ids : (\E k \in 1 .. n : InRange(new[k], w)) <=>
                    \/ b <= w /\ w <= e
                    \/ \E j \in 1 .. n : j # i /\ InRange(ls[j], w)
    BY <1>2, <1>5 DEF InRange, n
<1> QED BY <1>4, <1>6, <1>7, <1>8 DEF Members, new, n

\* A link that meets the next one is merged with it: the value between them
\* is the only one added.
LEMMA MergeKeeps ==
    ASSUME NEW ls, RangeList(ls), CanonicalList(ls),
           NEW i \in 1 .. Len(ls), i < Len(ls), NEW v \in Ids,
           v = ls[i].end + 1, ls[i].end + 2 = ls[i + 1].begin
    PROVE  /\ RangeList(GrowUp(ls, i))
           /\ CanonicalList(GrowUp(ls, i))
           /\ Members(GrowUp(ls, i)) = Members(ls) \cup {v}
<1> DEFINE n == Len(ls)
           new == GrowUp(ls, i)
           both == Link(ls[i].begin, ls[i + 1].end)
<1>1. /\ n \in Nat
      /\ ls \in [1 .. n -> LinkType]
    BY LenProperties DEF RangeList, LinkType
<1>2. /\ v \in Nat
      /\ \A j \in 1 .. n : ls[j].begin \in Ids /\ ls[j].end \in Ids
      /\ \A j \in 1 .. n : ls[j].begin \in Nat /\ ls[j].end \in Nat
    BY <1>1, IdsAssumption DEF LinkType
<1>3. i + 1 \in 1 .. n /\ n - 1 \in Nat
    BY <1>1
<1>4. /\ both \in LinkType
      /\ both.begin = ls[i].begin /\ both.end = ls[i + 1].end
    BY <1>2, <1>3 DEF Link, LinkType
<1>5. new = [k \in 1 .. n - 1 |-> IF k < i THEN ls[k]
                                  ELSE IF k = i THEN both ELSE ls[k + 1]]
    BY DEF GrowUp
<1>a. /\ ls[i].begin \in Nat /\ ls[i].end \in Nat /\ ls[i].begin <= ls[i].end
      /\ ls[i + 1].begin \in Nat /\ ls[i + 1].end \in Nat
      /\ ls[i + 1].begin <= ls[i + 1].end
      /\ v = ls[i].end + 1 /\ ls[i].end + 2 = ls[i + 1].begin
    BY <1>2, <1>3 DEF CanonicalList
<1> DEFINE lb == ls[i].begin
           le == ls[i].end
           hb == ls[i + 1].begin
           he == ls[i + 1].end
<1>b. /\ lb \in Nat /\ le \in Nat /\ lb <= le /\ hb \in Nat /\ he \in Nat /\ hb <= he
      /\ v = le + 1 /\ le + 2 = hb /\ v \in Nat
    BY <1>2, <1>a
<1>e. both.begin = lb /\ both.end = he
    BY <1>4
<1> HIDE DEF n, new, both, lb, le, hb, he
<1>c. lb <= he /\ lb <= v /\ v <= he
    BY <1>b
<1>d. \A w \in Int : lb <= w /\ w <= he <=>
                        (lb <= w /\ w <= le) \/ w = v \/ (hb <= w /\ w <= he)
    BY <1>b
<1>6. /\ \A k \in 1 .. n - 1 : k < i => k \in 1 .. n /\ new[k] = ls[k]
      /\ i \in 1 .. n - 1 /\ new[i] = both
      /\ \A k \in 1 .. n - 1 : k > i => k + 1 \in 1 .. n /\ new[k] = ls[k + 1]
    BY <1>1, <1>3, <1>5 DEF n
<1>7. new \in [1 .. n - 1 -> LinkType]
    BY <1>1, <1>3, <1>4, <1>5, <1>6
<1>8. new \in Seq(LinkType) /\ Len(new) = n - 1
    BY <1>3, <1>7, BuiltList
<1>9. RangeList(new)
    <2>1. both.begin .. both.end \subseteq Ids
        <3>1. /\ ls[i].begin .. ls[i].end \subseteq Ids
              /\ ls[i + 1].begin .. ls[i + 1].end \subseteq Ids
            BY <1>3 DEF RangeList, n
        <3>2. lb .. le \subseteq Ids /\ hb .. he \subseteq Ids
            BY <3>1 DEF lb, le, hb, he
        <3>3. ASSUME NEW w \in both.begin .. both.end PROVE w \in Ids
            <4>1. w \in Int /\ lb <= w /\ w <= he
                BY <1>b, <1>e
            <4>2. w \in lb .. le \/ w = v \/ w \in hb .. he
                BY <1>b, <1>d, <4>1
            <4> QED BY <3>2, <4>2
        <3> QED BY <3>3
    <2>2. ASSUME NEW k \in 1 .. n - 1
          PROVE  new[k].begin .. new[k].end \subseteq Ids
        <3>1. CASE k = i
            BY <1>6, <2>1, <3>1
        <3>2. CASE k # i
            <4>1. PICK j \in 1 .. n : new[k] = ls[j]
                BY <1>1, <1>6, <3>2 DEF n
            <4> QED BY <4>1 DEF RangeList, n
        <3> QED BY <3>1, <3>2
    <2> QED BY <1>8, <2>2 DEF RangeList, LinkType
<1>10. CanonicalList(new)
    <2>1. \A k \in 1 .. n - 1 : new[k].begin <= new[k].end
        <3>1. \A j \in 1 .. n : ls[j].begin <= ls[j].end
            BY DEF CanonicalList, n
        <3>2. ASSUME NEW k \in 1 .. n - 1 PROVE new[k].begin <= new[k].end
            <4>1. CASE k = i
                BY <1>6, <1>c, <1>e, <4>1
            <4>2. CASE k # i
                <5>1. PICK j \in 1 .. n : new[k] = ls[j]
                    BY <1>1, <1>6, <4>2 DEF n
                <5> QED BY <3>1, <5>1
            <4> QED BY <4>1, <4>2
        <3> QED BY <3>2
    <2>2. ASSUME NEW k \in 1 .. n - 1, NEW m \in 1 .. n - 1, k < m
          PROVE  new[k].end + 1 < new[m].begin
        <3>1. CASE m < i
            <4>1. k \in 1 .. n /\ m \in 1 .. n /\ new[k] = ls[k] /\ new[m] = ls[m]
                BY <1>3, <1>6, <2>2, <3>1
            <4> QED BY <2>2, <4>1 DEF CanonicalList, n
        <3>2. CASE m = i
            BY <1>3, <1>4, <1>6, <2>2, <3>2 DEF CanonicalList, n
        <3>3. CASE m > i /\ k < i
            BY <1>3, <1>6, <2>2, <3>3 DEF CanonicalList, n
        <3>4. CASE m > i /\ k = i
            <4>1. m + 1 \in 1 .. n /\ i + 1 < m + 1 /\ new[m] = ls[m + 1]
                BY <1>3, <1>6, <3>4
            <4> QED BY <1>3, <1>4, <1>6, <3>4, <4>1 DEF CanonicalList, n
        <3>5. CASE m > i /\ k > i
            <4>1. /\ m + 1 \in 1 .. n /\ k + 1 \in 1 .. n /\ k + 1 < m + 1
                  /\ new[m] = ls[m + 1] /\ new[k] = ls[k + 1]
                BY <1>3, <1>6, <2>2, <3>5
            <4> QED BY <4>1 DEF CanonicalList, n
        <3> QED BY <1>6, <3>1, <3>2, <3>3, <3>4, <3>5
    <2> QED BY <1>8, <2>1, <2>2 DEF CanonicalList
<1>11. Members(new) = Members(ls) \cup {v}
    <2>0. \A w \in Ids : w \in Nat
        BY IdsAssumption
    <2>1. ASSUME NEW w \in Ids, NEW k \in 1 .. n - 1, InRange(new[k], w)
          PROVE  w = v \/ \E j \in 1 .. n : InRange(ls[j], w)
        <3>1. CASE k = i
            <4>0. lb <= w /\ w <= he /\ w \in Int
                BY <1>6, <1>e, <2>0, <2>1, <3>1 DEF InRange
            <4>1. InRange(ls[i], w) \/ w = v \/ InRange(ls[i + 1], w)
                BY <1>d, <4>0 DEF InRange, lb, le, hb, he
            <4> QED BY <4>1, <1>3 DEF n
        <3>2. CASE k # i
            BY <1>3, <1>6, <2>1, <3>2
        <3> QED BY <3>1, <3>2
    <2>2. ASSUME NEW w \in Ids, NEW j \in 1 .. n, InRange(ls[j], w)
          PROVE  \E k \in 1 .. n - 1 : InRange(new[k], w)
        <3>1. CASE j < i
            BY <1>3, <1>6, <2>2, <3>1
        <3>2. CASE j = i \/ j = i + 1
            <4>1. lb <= w /\ w <= he
                <5>1. w \in Int
                    BY <2>0
                <5>2. (lb <= w /\ w <= le) \/ (hb <= w /\ w <= he)
                    BY <2>2, <3>2 DEF lb, le, hb, he, InRange
                <5> QED BY <1>d, <5>1, <5>2
            <4>2. InRange(new[i], w)
                BY <1>6, <1>e, <4>1 DEF InRange
            <4> QED BY <1>6, <4>2
        <3>3. CASE j > i + 1
            <4>1. j - 1 \in 1 .. n - 1 /\ j - 1 > i /\ (j - 1) + 1 = j
                BY <1>1, <1>3, <3>3
            <4> QED BY <1>6, <2>2, <4>1
        <3> QED BY <3>1, <3>2, <3>3, <1>3
    <2>3. \E k \in 1 .. n - 1 : InRange(new[k], v)
        <3>1. InRange(new[i], v)
            BY <1>6, <1>c, <1>e DEF InRange
        <3> QED BY <1>6, <3>1
    <2>4. \A w \in Ids : (\E k \in 1 .. n - 1 : InRange(new[k], w))
                            <=> (w = v \/ \E j \in 1 .. n : InRange(ls[j], w))
        BY <2>1, <2>2, <2>3
    <2> QED BY <1>8, <2>4 DEF Members, n
<1> QED BY <1>9, <1>10, <1>11 DEF new

-----------------------------------------------------------------------------
\* Wherever the walk settles a new value, the list stays canonical and the
\* value is added to what it stands for.
LEMMA PutAtKeeps ==
    ASSUME NEW ls, RangeList(ls), CanonicalList(ls), NEW v \in Ids,
           NEW i \in 1 .. Len(ls), SettlesAt(ls, i, v),
           \A j \in 1 .. (i - 1) : ~ SettlesAt(ls, j, v),
           ~ InRange(ls[i], v)
    PROVE  /\ RangeList(PutAt(ls, i, v))
           /\ CanonicalList(PutAt(ls, i, v))
           /\ Members(PutAt(ls, i, v)) = Members(ls) \cup {v}
<1> DEFINE n == Len(ls)
           new == PutAt(ls, i, v)
<1>1. i \in 1 .. Len(ls)
    OBVIOUS
<1>2. /\ \A j \in 1 .. (i - 1) : ls[j].end + 1 < v
      /\ i > 1 => ls[i].begin - 1 <= v
      /\ \A j \in 1 .. Len(ls) : j > i => v < ls[j].begin
    BY NewValue
<1>3. /\ n \in Nat
      /\ \A j \in 1 .. n : ls[j] \in LinkType
    BY LenProperties DEF RangeList, LinkType
<1>4. /\ v \in Nat
      /\ \A j \in 1 .. n : ls[j].begin \in Ids /\ ls[j].end \in Ids
      /\ \A j \in 1 .. n : ls[j].begin \in Nat /\ ls[j].end \in Nat
    BY <1>3, IdsAssumption DEF LinkType
<1>5. /\ ls[i].begin <= ls[i].end
      /\ ls[i].begin .. ls[i].end \subseteq Ids
      /\ \A j \in 1 .. n : j > i => ls[i].end + 1 < ls[j].begin
    BY <1>1, <1>3 DEF CanonicalList, RangeList
<1>6. CASE v = ls[i].begin - 1
    <2>1. new = [ls EXCEPT ![i] = Link(v, ls[i].end)]
        BY <1>6 DEF PutAt
    <2>2. v <= ls[i].end /\ v .. ls[i].end \subseteq Ids
        <3>1. v <= ls[i].end
            BY <1>1, <1>4, <1>5, <1>6
        <3>2. \A w \in v .. ls[i].end : w = v \/ w \in ls[i].begin .. ls[i].end
            BY <1>1, <1>4, <1>6
        <3> QED BY <1>5, <3>1, <3>2
    <2>3. \A j \in 1 .. Len(ls) : j < i => ls[j].end + 1 < v
        BY <1>1, <1>2, <1>3
    <2>4. ls[i].end \in Ids
        BY <1>1, <1>4
    <2> DEFINE e == ls[i].end
    <2>a. \A j \in 1 .. Len(ls) : j > i => e + 1 < ls[j].begin
        BY <1>5
    <2>b. e \in Ids /\ v <= e /\ v .. e \subseteq Ids
        BY <2>2, <2>4
    <2> HIDE DEF e, new
    <2>c. /\ RangeList([ls EXCEPT ![i] = Link(v, e)])
          /\ CanonicalList([ls EXCEPT ![i] = Link(v, e)])
          /\ \A w : w \in Members([ls EXCEPT ![i] = Link(v, e)]) <=>
                /\ w \in Ids
                /\ \/ v <= w /\ w <= e
                   \/ \E j \in 1 .. Len(ls) : j # i /\ InRange(ls[j], w)
        BY <1>1, <2>3, <2>a, <2>b, ReplaceKeeps
    <2>5. /\ RangeList(new)
          /\ CanonicalList(new)
          /\ \A w : w \in Members(new) <=>
                /\ w \in Ids
                /\ \/ v <= w /\ w <= ls[i].end
                   \/ \E j \in 1 .. Len(ls) : j # i /\ InRange(ls[j], w)
        BY <2>1, <2>c DEF e
    <2>6. \A w \in Ids : v <= w /\ w <= ls[i].end <=> w = v \/ InRange(ls[i], w)
        BY <1>1, <1>4, <1>5, <1>6, IdsAssumption DEF InRange
    <2>7. Members(new) = Members(ls) \cup {v}
        BY <1>1, <2>5, <2>6 DEF Members
    <2> QED BY <2>5, <2>7 DEF new
<1>7. CASE v = ls[i].end + 1
    <2>0. new = GrowUp(ls, i)
        BY <1>1, <1>4, <1>5, <1>7 DEF PutAt
    <2>1. CASE i < Len(ls) /\ ls[i].end + 2 = ls[i + 1].begin
        BY <1>1, <1>7, <2>0, <2>1, MergeKeeps
    <2>2. CASE ~ (i < Len(ls) /\ ls[i].end + 2 = ls[i + 1].begin)
        <3>1. new = [ls EXCEPT ![i] = Link(ls[i].begin, v)]
            BY <1>7, <2>0, <2>2 DEF GrowUp
        <3>2. ls[i].begin <= v /\ ls[i].begin .. v \subseteq Ids
            <4>1. ls[i].begin <= v
                BY <1>1, <1>4, <1>5, <1>7
            <4>2. \A w \in ls[i].begin .. v : w = v \/ w \in ls[i].begin .. ls[i].end
                BY <1>1, <1>4, <1>7
            <4> QED BY <1>5, <4>1, <4>2
        <3>3. \A j \in 1 .. Len(ls) : j < i => ls[j].end + 1 < ls[i].begin
            BY <1>1 DEF CanonicalList
        <3>4. \A j \in 1 .. Len(ls) : j > i => v + 1 < ls[j].begin
            <4> SUFFICES ASSUME NEW j \in 1 .. Len(ls), j > i PROVE v + 1 < ls[j].begin
                OBVIOUS
            <4>1. i + 1 \in 1 .. Len(ls) /\ i < Len(ls)
                BY <1>1, <1>3
            <4>2. ls[i].end + 1 < ls[i + 1].begin /\ ls[i + 1].begin <= ls[j].begin
                <5>1. j = i + 1 \/ i + 1 < j
                    BY <1>1, <1>3
                <5>2. i + 1 < j => ls[i + 1].end + 1 < ls[j].begin
                    BY <4>1 DEF CanonicalList
                <5>3. ls[i + 1].begin <= ls[i + 1].end
                    BY <4>1 DEF CanonicalList
                <5> QED BY <1>4, <1>5, <4>1, <5>1, <5>2, <5>3
            <4>3. ls[i].end + 2 # ls[i + 1].begin
                BY <2>2, <4>1
            <4>4. /\ ls[i].end \in Nat /\ ls[i + 1].begin \in Nat
                  /\ ls[j].begin \in Nat /\ v = ls[i].end + 1
                BY <1>1, <1>4, <1>7, <4>1
            <4> DEFINE ie == ls[i].end
                       nb == ls[i + 1].begin
                       jb == ls[j].begin
            <4>5. /\ ie \in Nat /\ nb \in Nat /\ jb \in Nat /\ v = ie + 1
                  /\ ie + 1 < nb /\ nb <= jb /\ ie + 2 # nb
                BY <4>2, <4>3, <4>4
            <4> HIDE DEF ie, nb, jb
            <4>6. v + 1 < jb
                BY <4>5
            <4> QED BY <4>6 DEF jb
        <3>5. ls[i].begin \in Ids
            BY <1>1, <1>4
        <3> DEFINE b == ls[i].begin
        <3>a. \A j \in 1 .. Len(ls) : j < i => ls[j].end + 1 < b
            BY <3>3
        <3>b. b \in Ids /\ b <= v /\ b .. v \subseteq Ids
            BY <3>2, <3>5
        <3> HIDE DEF b, new
        <3>c. /\ RangeList([ls EXCEPT ![i] = Link(b, v)])
              /\ CanonicalList([ls EXCEPT ![i] = Link(b, v)])
              /\ \A w : w \in Members([ls EXCEPT ![i] = Link(b, v)]) <=>
                    /\ w \in Ids
                    /\ \/ b <= w /\ w <= v
                       \/ \E j \in 1 .. Len(ls) : j # i /\ InRange(ls[j], w)
            BY <1>1, <3>4, <3>a, <3>b, ReplaceKeeps
        <3>6. /\ RangeList(new)
              /\ CanonicalList(new)
              /\ \A w : w \in Members(new) <=>
                    /\ w \in Ids
                    /\ \/ ls[i].begin <= w /\ w <= v
                       \/ \E j \in 1 .. Len(ls) : j # i /\ InRange(ls[j], w)
            BY <3>1, <3>c DEF b
        <3>7. \A w \in Ids : ls[i].begin <= w /\ w <= v <=> w = v \/ InRange(ls[i], w)
            BY <1>1, <1>4, <1>5, <1>7, IdsAssumption DEF InRange
        <3>8. Members(new) = Members(ls) \cup {v}
            BY <1>1, <3>6, <3>7 DEF Members
        <3> QED BY <3>6, <3>8 DEF new
    <2> QED BY <2>1, <2>2
<1>8. CASE v < ls[i].begin - 1
    <2>1. new = InsertLink(ls, i, v)
        BY <1>1, <1>4, <1>5, <1>8 DEF PutAt
    <2>2. \A j \in 1 .. Len(ls) : j < i => ls[j].end + 1 < v
        BY <1>1, <1>2, <1>3
    <2>3. \A j \in 1 .. Len(ls) : j >= i => v + 1 < ls[j].begin
        <3> SUFFICES ASSUME NEW j \in 1 .. Len(ls), j >= i PROVE v + 1 < ls[j].begin
            OBVIOUS
        <3>1. /\ ls[i].begin \in Nat /\ ls[i].end \in Nat /\ ls[j].begin \in Nat
              /\ v \in Nat
            BY <1>1, <1>4
        <3>2. CASE j = i
            BY <1>8, <3>1, <3>2
        <3>3. CASE j # i
            <4>1. j > i
                BY <1>1, <1>3, <3>3
            <4>2. ls[i].end + 1 < ls[j].begin /\ ls[i].begin <= ls[i].end
                BY <1>5, <4>1
            <4> DEFINE ib == ls[i].begin
                       ie == ls[i].end
                       jb == ls[j].begin
            <4>3. /\ v \in Nat /\ ib \in Nat /\ ie \in Nat /\ jb \in Nat
                  /\ v < ib - 1 /\ ib <= ie /\ ie + 1 < jb
                BY <1>8, <3>1, <4>2
            <4> HIDE DEF ib, ie, jb
            <4>4. v + 1 < jb
                BY <4>3
            <4> QED BY <4>4 DEF jb
        <3> QED BY <3>2, <3>3
    <2>4. i \in 1 .. Len(ls) + 1
        BY <1>1, <1>3
    <2> QED BY <2>1, <2>2, <2>3, <2>4, InsertKeeps
<1>9. CASE v > ls[i].end + 1
    <2>1. new = InsertLink(ls, i + 1, v)
        BY <1>1, <1>4, <1>5, <1>9 DEF PutAt
    <2>2. \A j \in 1 .. Len(ls) : j < i + 1 => ls[j].end + 1 < v
        BY <1>1, <1>2, <1>3, <1>9
    <2>3. \A j \in 1 .. Len(ls) : j >= i + 1 => v + 1 < ls[j].begin
        <3> SUFFICES ASSUME NEW j \in 1 .. Len(ls), j >= i + 1 PROVE v + 1 < ls[j].begin
            OBVIOUS
        <3>1. i + 1 \in 1 .. Len(ls) /\ i # Len(ls)
            BY <1>1, <1>3
        <3>2. v < ls[i + 1].begin - 1
            BY <1>1, <1>4, <1>9, <3>1 DEF SettlesAt
        <3>3. ls[i + 1].begin <= ls[j].begin
            <4>1. j = i + 1 \/ i + 1 < j
                BY <1>1, <1>3
            <4>2. i + 1 < j => ls[i + 1].end + 1 < ls[j].begin
                BY <3>1 DEF CanonicalList
            <4>3. ls[i + 1].begin <= ls[i + 1].end
                BY <3>1 DEF CanonicalList
            <4> QED BY <1>4, <3>1, <4>1, <4>2, <4>3
        <3> QED BY <1>4, <3>1, <3>2, <3>3
    <2>4. i + 1 \in 1 .. Len(ls) + 1
        BY <1>1, <1>3
    <2> QED BY <2>1, <2>2, <2>3, <2>4, InsertKeeps
<1>10. \/ v = ls[i].begin - 1 \/ v = ls[i].end + 1
       \/ v < ls[i].begin - 1 \/ v > ls[i].end + 1
    <2>1. ls[i].begin \in Nat /\ ls[i].end \in Nat /\ v \in Nat
        BY <1>1, <1>4
    <2>2. ~ (ls[i].begin <= v /\ v <= ls[i].end)
        BY DEF InRange
    <2> QED BY <2>1, <2>2
<1> QED BY <1>6, <1>7, <1>8, <1>9, <1>10

\* The same for the link the walk stops at.
LEMMA PutKeeps ==
    ASSUME NEW ls, RangeList(ls), CanonicalList(ls), ls # << >>, NEW v \in Ids,
           ~ InRange(ls[LinkFor(ls, v)], v)
    PROVE  /\ RangeList(PutAt(ls, LinkFor(ls, v), v))
           /\ CanonicalList(PutAt(ls, LinkFor(ls, v), v))
           /\ Members(PutAt(ls, LinkFor(ls, v), v)) = Members(ls) \cup {v}
           /\ v \notin Members(ls)
<1>1. /\ LinkFor(ls, v) \in 1 .. Len(ls)
      /\ SettlesAt(ls, LinkFor(ls, v), v)
      /\ \A j \in 1 .. (LinkFor(ls, v) - 1) : ~ SettlesAt(ls, j, v)
    BY WalkSettles
<1>2. /\ RangeList(PutAt(ls, LinkFor(ls, v), v))
      /\ CanonicalList(PutAt(ls, LinkFor(ls, v), v))
      /\ Members(PutAt(ls, LinkFor(ls, v), v)) = Members(ls) \cup {v}
    BY <1>1, PutAtKeeps
<1>3. v \notin Members(ls)
    BY <1>1, NewValue
<1> QED BY <1>2, <1>3

\* A list of a single link stands for its range.
LEMMA OneLink ==
    ASSUME NEW b \in Ids, NEW e \in Ids, b <= e, b .. e \subseteq Ids
    PROVE  /\ RangeList(<<Link(b, e)>>)
           /\ CanonicalList(<<Link(b, e)>>)
           /\ Members(<<Link(b, e)>>) = b .. e
<1> DEFINE ls == <<Link(b, e)>>
<1>1. /\ Link(b, e) \in LinkType
      /\ Link(b, e).begin = b /\ Link(b, e).end = e
    BY DEF Link, LinkType
<1>2. /\ ls \in Seq(LinkType) /\ Len(ls) = 1
      /\ \A i \in 1 .. 1 : ls[i] = Link(b, e)
    BY <1>1
<1> HIDE DEF ls
<1>3. RangeList(ls) /\ CanonicalList(ls)
    BY <1>1, <1>2 DEF RangeList, CanonicalList, LinkType
<1>4. \A w \in Ids : (\E i \in 1 .. 1 : InRange(ls[i], w)) <=> b <= w /\ w <= e
    BY <1>1, <1>2 DEF InRange
<1>5. Members(ls) = {w \in Ids : b <= w /\ w <= e}
    BY <1>2, <1>4 DEF Members
<1>6. {w \in Ids : b <= w /\ w <= e} = b .. e
    <2>1. b \in Nat /\ e \in Nat /\ \A w \in Ids : w \in Nat
        BY IdsAssumption
    <2>2. \A w : w \in b .. e => w \in Ids /\ b <= w /\ w <= e
        BY <2>1
    <2>3. \A w \in Ids : b <= w /\ w <= e => w \in b .. e
        BY <2>1
    <2> QED BY <2>2, <2>3
<1> QED BY <1>3, <1>5, <1>6 DEF ls

-----------------------------------------------------------------------------
\* A pop takes the smallest value, and only that one, whether it shortens
\* the head, or empties it and moves the next link into it.
LEMMA PopKeeps ==
    ASSUME NEW ls, RangeList(ls), CanonicalList(ls), ls # << >>
    PROVE  /\ RangeList(PopLinks(ls))
           /\ CanonicalList(PopLinks(ls))
           /\ Members(PopLinks(ls)) = Members(ls) \ {ls[1].begin}
           /\ ls[1].begin \in Members(ls)
           /\ \A w \in Members(ls) : ls[1].begin <= w
<1> DEFINE n == Len(ls)
           first == ls[1].begin
<1>0. ls \in Seq(LinkType)
    BY DEF RangeList, LinkType
<1>1. /\ n \in Nat /\ n >= 1
      /\ ls \in [1 .. n -> LinkType]
    <2>1. n \in Nat \ {0}
        BY <1>0, EmptySeq
    <2> QED BY <1>0, <2>1, LenProperties
<1>2. /\ \A j \in 1 .. n : ls[j].begin \in Ids /\ ls[j].end \in Ids
      /\ \A j \in 1 .. n : ls[j].begin \in Nat /\ ls[j].end \in Nat
      /\ \A w \in Ids : w \in Nat
    BY <1>1, IdsAssumption DEF LinkType
<1>3. /\ 1 \in 1 .. n
      /\ first <= ls[1].end
      /\ \A j \in 1 .. n : j > 1 => ls[1].end + 1 < ls[j].begin
      /\ first \in Ids /\ ls[1].end \in Ids
      /\ first .. ls[1].end \subseteq Ids
    BY <1>1, <1>2 DEF CanonicalList, RangeList
<1>4. first \in Members(ls)
    BY <1>2, <1>3 DEF Members, InRange
<1>5. \A w \in Ids : \A j \in 1 .. n : InRange(ls[j], w) => first <= w
    BY <1>1, <1>2, <1>3 DEF InRange
<1>6. \A w \in Members(ls) : first <= w
    BY <1>5 DEF Members
<1>7. CASE first + 1 > ls[1].end
    <2>1. PopLinks(ls) = Tail(ls)
        BY <1>7 DEF PopLinks
    <2>2. /\ Tail(ls) \in Seq(LinkType)
          /\ Len(Tail(ls)) = n - 1
          /\ \A k \in 1 .. n - 1 : Tail(ls)[k] = ls[k + 1] /\ k + 1 \in 1 .. n
        BY <1>1, HeadTailProperties DEF RangeList, LinkType
    <2>3. RangeList(Tail(ls))
        <3>1. \A k \in 1 .. n - 1 : Tail(ls)[k].begin .. Tail(ls)[k].end \subseteq Ids
            BY <2>2 DEF RangeList
        <3> QED BY <2>2, <3>1 DEF RangeList, LinkType
    <2>4. CanonicalList(Tail(ls))
        <3>1. \A k \in 1 .. n - 1 : Tail(ls)[k].begin <= Tail(ls)[k].end
            BY <2>2 DEF CanonicalList
        <3>2. ASSUME NEW k \in 1 .. n - 1, NEW m \in 1 .. n - 1, k < m
              PROVE  Tail(ls)[k].end + 1 < Tail(ls)[m].begin
            <4>1. k + 1 \in 1 .. n /\ m + 1 \in 1 .. n /\ k + 1 < m + 1
                BY <2>2, <3>2, <1>1
            <4> QED BY <2>2, <4>1 DEF CanonicalList
        <3> QED BY <2>2, <3>1, <3>2 DEF CanonicalList
    <2>5. ASSUME NEW w \in Ids
          PROVE  (\E k \in 1 .. n - 1 : InRange(Tail(ls)[k], w))
                    <=> w # first /\ \E j \in 1 .. n : InRange(ls[j], w)
        <3>1. ASSUME NEW k \in 1 .. n - 1, InRange(Tail(ls)[k], w)
              PROVE  w # first /\ InRange(ls[k + 1], w) /\ k + 1 \in 1 .. n
            BY <1>1, <1>2, <1>3, <2>2, <3>1 DEF InRange
        <3>2. ASSUME NEW j \in 1 .. n, InRange(ls[j], w), w # first
              PROVE  \E k \in 1 .. n - 1 : InRange(Tail(ls)[k], w)
            <4>1. j # 1
                BY <1>2, <1>3, <1>7, <3>2 DEF InRange
            <4>2. j - 1 \in 1 .. n - 1 /\ (j - 1) + 1 = j
                BY <1>1, <4>1
            <4> QED BY <2>2, <3>2, <4>2
        <3> QED BY <3>1, <3>2
    <2>6. Members(Tail(ls)) = Members(ls) \ {first}
        BY <2>2, <2>5 DEF Members
    <2> QED BY <1>4, <1>6, <2>1, <2>3, <2>4, <2>6
<1>8. CASE ~ (first + 1 > ls[1].end)
    <2> DEFINE b == first + 1
               e == ls[1].end
    <2>1. PopLinks(ls) = [ls EXCEPT ![1] = Link(b, e)]
        BY <1>8 DEF PopLinks
    <2>2. b \in Nat /\ e \in Nat /\ b <= e /\ b \in first .. e
        BY <1>2, <1>3, <1>8
    <2>3. b \in Ids /\ e \in Ids /\ b .. e \subseteq Ids
        <3>1. b .. e \subseteq first .. ls[1].end
            BY <1>2, <1>3, <2>2
        <3> QED BY <1>3, <2>2, <3>1
    <2>4. /\ \A j \in 1 .. Len(ls) : j < 1 => ls[j].end + 1 < b
          /\ \A j \in 1 .. Len(ls) : j > 1 => e + 1 < ls[j].begin
        BY <1>1, <1>3
    <2> HIDE DEF b, e
    <2>5. /\ RangeList([ls EXCEPT ![1] = Link(b, e)])
          /\ CanonicalList([ls EXCEPT ![1] = Link(b, e)])
          /\ \A w : w \in Members([ls EXCEPT ![1] = Link(b, e)]) <=>
                /\ w \in Ids
                /\ \/ b <= w /\ w <= e
                   \/ \E j \in 1 .. Len(ls) : j # 1 /\ InRange(ls[j], w)
        BY <1>3, <2>2, <2>3, <2>4, ReplaceKeeps
    <2>6. ASSUME NEW w \in Ids
          PROVE  (\/ b <= w /\ w <= e
                  \/ \E j \in 1 .. Len(ls) : j # 1 /\ InRange(ls[j], w))
                    <=> w # first /\ \E j \in 1 .. Len(ls) : InRange(ls[j], w)
        <3>1. b <= w /\ w <= e <=> w # first /\ InRange(ls[1], w)
            BY <1>2, <1>3 DEF InRange, b, e
        <3>2. \A j \in 1 .. Len(ls) : j # 1 /\ InRange(ls[j], w) => w # first
            BY <1>1, <1>2, <1>3 DEF InRange
        <3> QED BY <1>3, <3>1, <3>2
    <2>7. Members([ls EXCEPT ![1] = Link(b, e)]) = Members(ls) \ {first}
        BY <2>5, <2>6 DEF Members
    <2> QED BY <1>4, <1>6, <2>1, <2>5, <2>7
<1> QED BY <1>7, <1>8

-----------------------------------------------------------------------------
\* caslist_new builds a list that satisfies the invariant.
LEMMA InitInv == Init => Inv
<1> SUFFICES ASSUME NEW begin \in Ids \cup {0}, NEW end \in Ids \cup {0},
                    begin .. end \subseteq Ids \cup {0}, New(begin, end)
             PROVE  Inv
    BY DEF Init
<1>0. begin \in Nat /\ end \in Nat
    BY IdsAssumption
<1>1. CASE begin = 0
    <2>1. links = << >> /\ size = 0 /\ out = 0
        BY <1>1 DEF New
    <2>2. RangeList(links) /\ CanonicalList(links)
        BY <2>1 DEF RangeList, CanonicalList
    <2>3. Members(links) = {}
        BY <2>1 DEF Members
    <2> QED BY <2>1, <2>2, <2>3, FS_EmptySet DEF Inv, TypeOK, Canonical, SizeExact
<1>2. CASE begin # 0
    <2>1. /\ links = <<Link(begin, end)>> /\ size = (end - begin) + 1 /\ out = 0
          /\ begin <= end
        BY <1>0, <1>2 DEF New
    <2>2. begin \in Ids /\ end \in Ids /\ begin .. end \subseteq Ids
        BY <1>0, <1>2, <2>1
    <2>4. RangeList(links) /\ CanonicalList(links) /\ Members(links) = begin .. end
        BY <2>1, <2>2, OneLink
    <2>6. IsFiniteSet(Members(links)) /\ Cardinality(Members(links)) = size
        BY <1>0, <2>1, <2>4, FS_Interval
    <2>7. size \in Nat
        BY <1>0, <2>1
    <2> QED BY <2>1, <2>4, <2>6, <2>7 DEF Inv, TypeOK, Canonical, SizeExact
<1> QED BY <1>1, <1>2

\* A pop is a pop of the abstract set, and keeps the invariant.
LEMMA PopStep == Inv /\ Pop => Inv' /\ Abstract!FSPop
<1> SUFFICES ASSUME Inv, Pop PROVE Inv' /\ Abstract!FSPop
    OBVIOUS
<1> USE DEF Inv, TypeOK, Canonical, SizeExact
<1>1. CASE links = << >> /\ out' = 0 /\ UNCHANGED <<links, size>>
    <2>1. Members(links) = {} /\ Members(links') = Members(links)
        BY <1>1 DEF Members
    <2> QED BY <1>1, <2>1 DEF Abstract!FSPop
<1>2. CASE links # << >> /\ out' = links[1].begin /\ links' = PopLinks(links)
            /\ size' = size - 1
    <2>1. /\ RangeList(links') /\ CanonicalList(links')
          /\ Members(links') = Members(links) \ {out'}
          /\ out' \in Members(links)
          /\ \A w \in Members(links) : out' <= w
        BY <1>2, PopKeeps
    <2>2. /\ IsFiniteSet(Members(links'))
          /\ Cardinality(Members(links')) = size - 1
        BY <2>1, FS_RemoveElement
    <2>3. Cardinality(Members(links')) \in Nat
        BY <2>2, FS_CardinalityType
    <2>4. out' \in Ids
        BY <2>1 DEF Members
    <2> QED BY <1>2, <2>1, <2>2, <2>3, <2>4 DEF Abstract!FSPop
<1> QED BY <1>1, <1>2 DEF Pop

\* A push is a push into the abstract set, and keeps the invariant.
LEMMA PushStep ==
    ASSUME Inv, NEW v \in Ids \cup {0}, Push(v)
    PROVE  Inv' /\ Abstract!FSPush(v)
<1> USE DEF Inv, TypeOK, Canonical, SizeExact
<1>0. \A w \in Ids : w # 0
    BY IdsAssumption
<1>1. CASE v = 0 /\ UNCHANGED <<links, size>>
    BY <1>1 DEF Push, Abstract!FSPush
<1>2. CASE v # 0 /\ links = << >> /\ links' = <<Link(v, v)>> /\ size' = size + 1
    <2>1. v \in Ids /\ v \in Nat /\ v <= v /\ v .. v = {v}
        BY <1>2, IdsAssumption
    <2>2. RangeList(links') /\ CanonicalList(links') /\ Members(links') = v .. v
        BY <1>2, <2>1, OneLink
    <2>3. RangeList(links') /\ CanonicalList(links') /\ Members(links') = {v}
        BY <2>1, <2>2
    <2>4. Members(links) = {}
        BY <1>2 DEF Members
    <2>5. size = 0 /\ IsFiniteSet(Members(links')) /\ Cardinality(Members(links')) = 1
        <3>1. IsFiniteSet({v}) /\ Cardinality({v}) = 1
            BY FS_Singleton
        <3>2. Cardinality({}) = 0
            BY FS_EmptySet
        <3> QED BY <2>3, <2>4, <3>1, <3>2
    <2> QED BY <1>2, <2>3, <2>4, <2>5 DEF Push, Abstract!FSPush
<1>3. CASE v # 0 /\ links # << >> /\ InRange(links[LinkFor(links, v)], v)
            /\ UNCHANGED <<links, size>>
    <2>1. v \in Members(links)
        BY <1>3, WalkSettles DEF Members
    <2> QED BY <1>3, <2>1 DEF Push, Abstract!FSPush
<1>4. CASE v # 0 /\ links # << >> /\ ~ InRange(links[LinkFor(links, v)], v)
            /\ links' = PutAt(links, LinkFor(links, v), v) /\ size' = size + 1
    <2>1. /\ RangeList(links') /\ CanonicalList(links')
          /\ Members(links') = Members(links) \cup {v}
          /\ v \notin Members(links)
        BY <1>4, PutKeeps
    <2>2. /\ IsFiniteSet(Members(links'))
          /\ Cardinality(Members(links')) = size + 1
        BY <2>1, FS_AddElement
    <2> QED BY <1>4, <2>1, <2>2 DEF Push, Abstract!FSPush
<1> QED BY <1>1, <1>2, <1>3, <1>4 DEF Push, PushNew

\* A step that changes nothing.
LEMMA StutterStep == Inv /\ UNCHANGED vars => Inv' /\ UNCHANGED Abstract!fsVars
BY DEF Inv, TypeOK, Canonical, SizeExact, vars, Abstract!fsVars

\* The invariant holds in every reachable state.
THEOREM CasListInvariant == Spec => []Inv
<1>1. Init => Inv
    BY InitInv
<1>2. Inv /\ [Next]_vars => Inv'
    BY PopStep, PushStep, StutterStep DEF Next
<1> QED BY <1>1, <1>2, PTL DEF Spec

\* For every set of identifiers, the links are well-formed ranges.
THEOREM CasListType == Spec => []TypeOK
<1>1. Inv => TypeOK
    BY DEF Inv
<1> QED BY <1>1, CasListInvariant, PTL

\* For every set of identifiers, no sequence of caslist_push and caslist_pop
\* calls leaves links that overlap, touch or are out of order.
THEOREM CasListCanonical == Spec => []Canonical
<1>1. Inv => Canonical
    BY DEF Inv
<1> QED BY <1>1, CasListInvariant, PTL

\* For every set of identifiers, the counter read by caslist_size is the
\* number of distinct values in the list.
THEOREM CasListSizeExact == Spec => []SizeExact
<1>1. Inv => SizeExact
    BY DEF Inv
<1> QED BY <1>1, CasListInvariant, PTL

\* For every set of identifiers, caslist.c implements a set whose smallest
\* member is popped.
THEOREM CasListImplementsFreeSet == Spec => ImplementsFreeSet
<1>1. Init => Abstract!FSInit
    <2> SUFFICES ASSUME NEW begin \in Ids \cup {0}, NEW end \in Ids \cup {0},
                        begin .. end \subseteq Ids \cup {0}, New(begin, end)
                 PROVE  Abstract!FSInit
        BY DEF Init
    <2>0. begin \in Nat /\ end \in Nat
        BY IdsAssumption
    <2>1. CASE begin = 0
        BY <2>1 DEF New, Members, Abstract!FSInit
    <2>2. CASE begin # 0
        <3>1. links = <<Link(begin, end)>> /\ out = 0 /\ begin <= end
            BY <2>0, <2>2 DEF New
        <3>3. begin \in Ids /\ end \in Ids /\ begin .. end \subseteq Ids
            BY <2>0, <2>2, <3>1
        <3>4. Members(links) = begin .. end
            BY <3>1, <3>3, OneLink
        <3> QED BY <3>1, <3>3, <3>4 DEF Abstract!FSInit
    <2> QED BY <2>1, <2>2
<1>2. Inv /\ [Next]_vars => [Abstract!FSNext]_Abstract!fsVars
    BY PopStep, PushStep, StutterStep DEF Next, Abstract!FSNext
<1> QED BY <1>1, <1>2, CasListInvariant, PTL DEF Spec, ImplementsFreeSet, Abstract!FSSpec
=============================================================================

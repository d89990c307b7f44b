------------------------------ MODULE CasList ------------------------------
(***************************************************************************)
(* src/src/caslist.c: the sorted list of ranges behind every pool of the   *)
(* store (free data blocks, free meta blocks, free transaction slots,      *)
(* objects found at the initial scan).                                     *)
(*                                                                         *)
(* The head range lives in the caslist structure and the others in a chain *)
(* of caslist_links; here they are one sequence, links[1] being the head.  *)
(* A head with begin = end = 0, the code's empty list, is << >>.  Every    *)
(* operation runs from lock to unlock of the list's mutex, so each one is  *)
(* a single action.                                                        *)
(***************************************************************************)
EXTENDS Integers, Sequences, FiniteSets

CONSTANT
    Ids         \* the values that may be kept: block or slot numbers, never 0

ASSUME IdsAssumption == Ids \subseteq Nat \ {0}

VARIABLES
    links,      \* the ranges [begin, end], in list order
    size,       \* the counter that caslist_size returns
    out         \* *val of the last caslist_pop, 0 before it or if it failed

vars == <<links, size, out>>

Link(b, e) == [begin |-> b, end |-> e]

InRange(r, v) == r.begin <= v /\ v <= r.end

\* The values a list of ranges stands for.
Members(ls) == {v \in Ids : \E i \in 1 .. Len(ls) : InRange(ls[i], v)}

-----------------------------------------------------------------------------
\* caslist_new(begin, end): begin > end and begin = 0 < end are refused.
New(begin, end) ==
    /\ ~ (begin > end \/ (begin = 0 /\ end > 0))
    /\ links = IF begin = 0 THEN << >> ELSE <<Link(begin, end)>>
    /\ size = IF begin = 0 THEN 0 ELSE (end - begin) + 1
    /\ out = 0

Init == \E begin, end \in Ids \cup {0} :
            begin .. end \subseteq Ids \cup {0} /\ New(begin, end)

-----------------------------------------------------------------------------
\* A fault: the exhausted head is dropped without fetching the next link.
PopLinksDropsNext(ls) ==
    IF ls[1].begin + 1 > ls[1].end
    THEN << >>
    ELSE [ls EXCEPT ![1] = Link(@.begin + 1, @.end)]

\* A fault: the test for an exhausted head is off by one.
PopLinksKeepsEmpty(ls) ==
    IF ls[1].begin > ls[1].end
    THEN Tail(ls)
    ELSE [ls EXCEPT ![1] = Link(@.begin + 1, @.end)]

\* Head range with its first value removed; the next link moves into the
\* head when that exhausts it.
PopLinks(ls) ==
    IF ls[1].begin + 1 > ls[1].end
    THEN Tail(ls)
    ELSE [ls EXCEPT ![1] = Link(@.begin + 1, @.end)]

\* caslist_pop
Pop ==
    \/ /\ links = << >>
       /\ out' = 0
       /\ UNCHANGED <<links, size>>
    \/ /\ links # << >>
       /\ out' = links[1].begin
       /\ links' = PopLinks(links)
       /\ size' = size - 1

-----------------------------------------------------------------------------
\* The walk of caslist_push and _caslist_put settles v at link i, and does
\* not pass it on to link i + 1, when v is in, below or just above link i,
\* when there is no next link, or when v is well below the next one.
SettlesAt(ls, i, v) ==
    \/ v <= ls[i].end + 1
    \/ i = Len(ls)
    \/ v < ls[i + 1].begin - 1

\* The link at which the walk from the head stops.
LinkFor(ls, v) ==
    CHOOSE i \in 1 .. Len(ls) :
        /\ SettlesAt(ls, i, v)
        /\ \A j \in 1 .. (i - 1) : ~ SettlesAt(ls, j, v)

\* The list with a new link for v put at position i.
InsertLink(ls, i, v) ==
    [k \in 1 .. Len(ls) + 1 |->
        IF k < i THEN ls[k] ELSE IF k = i THEN Link(v, v) ELSE ls[k - 1]]

\* A fault: the grown link is never merged with the next one.
GrowUpNoMerge(ls, i) == [ls EXCEPT ![i] = Link(@.begin, @.end + 1)]

\* Link i grows upwards by one value and absorbs the next link if they meet.
GrowUp(ls, i) ==
    IF i < Len(ls) /\ ls[i].end + 2 = ls[i + 1].begin
    THEN [k \in 1 .. Len(ls) - 1 |->
            IF k < i THEN ls[k]
            ELSE IF k = i THEN Link(ls[i].begin, ls[i + 1].end)
            ELSE ls[k + 1]]
    ELSE [ls EXCEPT ![i] = Link(@.begin, @.end + 1)]

\* The list after v was put at link i, where v is not in link i.
PutAt(ls, i, v) ==
    IF v = ls[i].begin - 1 THEN [ls EXCEPT ![i] = Link(v, @.end)]
    ELSE IF v = ls[i].end + 1 THEN GrowUp(ls, i)
    ELSE IF v < ls[i].begin - 1 THEN InsertLink(ls, i, v)
    ELSE InsertLink(ls, i + 1, v)

\* A fault: size counts a value that a link already holds.
PushNewCountsTwice(v) ==
    \/ /\ links = << >>
       /\ links' = <<Link(v, v)>>
       /\ size' = size + 1
    \/ /\ links # << >>
       /\ LET i == LinkFor(links, v)
          IN  /\ size' = size + 1
              /\ links' = IF InRange(links[i], v) THEN links ELSE PutAt(links, i, v)

\* caslist_push of a value other than 0
PushNew(v) ==
    \/ /\ links = << >>
       /\ links' = <<Link(v, v)>>
       /\ size' = size + 1
    \/ /\ links # << >>
       /\ LET i == LinkFor(links, v)
          IN  \/ InRange(links[i], v) /\ UNCHANGED <<links, size>>
              \/ /\ ~ InRange(links[i], v)
                 /\ links' = PutAt(links, i, v)
                 /\ size' = size + 1

\* caslist_push; it does not touch *val of an earlier pop.
Push(v) ==
    /\ UNCHANGED out
    /\ \/ v = 0 /\ UNCHANGED <<links, size>>
       \/ v # 0 /\ PushNew(v)

Next == Pop \/ \E v \in Ids \cup {0} : Push(v)

Spec == Init /\ [][Next]_vars

-----------------------------------------------------------------------------
\* A list of ranges of identifiers.
RangeList(ls) ==
    /\ ls \in Seq([begin : Ids, end : Ids])
    /\ \A i \in 1 .. Len(ls) : ls[i].begin .. ls[i].end \subseteq Ids

\* A list of ranges that are not empty, ascend, and leave a gap between them.
CanonicalList(ls) ==
    /\ \A i \in 1 .. Len(ls) : ls[i].begin <= ls[i].end
    /\ \A i, j \in 1 .. Len(ls) : i < j => ls[i].end + 1 < ls[j].begin

\* Every link is a range of identifiers; size and out are numbers.
TypeOK ==
    /\ RangeList(links)
    /\ size \in Nat
    /\ out \in Ids \cup {0}

\* The links are non-empty, ascending, disjoint and never adjacent: neither a
\* push between two links nor a pop that empties the head leaves two links
\* that should be one, or one out of order.
Canonical == CanonicalList(links)

\* caslist_size is the number of distinct values in the list, whatever was
\* pushed twice, merged or popped (pmb_nfree reports it).
SizeExact == size = Cardinality(Members(links))

\* A caslist is a set whose smallest value is popped: no value is lost by a
\* merge, delivered twice, or delivered although it was not pushed.
Abstract == INSTANCE FreeSet WITH avail <- Members(links)
ImplementsFreeSet == Abstract!FSSpec
=============================================================================

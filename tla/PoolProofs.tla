----------------------------- MODULE PoolProofs -----------------------------
(***************************************************************************)
(* For every layout, any options and any history of opens, transactions,   *)
(* synchronisations and power failures: the sync thread never outlives the *)
(* mapping, slots and blocks lie apart, the log is stored before an        *)
(* execution destroys anything, and what was synchronised is read back.    *)
(* All of it with two windows of the code left out, in which it is not so: *)
(* Torn and Overlap of Pool.                                               *)
(***************************************************************************)
EXTENDS Pool, WellFoundedInduction, TLAPS

\* The pool is opened with the lengths it was created with.  The block sizes
\* are not mentioned: they are what an open compares.
Steady ==
    \A o, q \in Opts : /\ o.entries = q.entries /\ o.key = q.key
                       /\ o.data_size = q.data_size /\ o.meta_size = q.meta_size

\* backend_persist_all, which starts at the log and goes on for the length of
\* the two regions, reaches all of the log.
Reach ==
    \A o \in Opts :
        o.entries * SlotSize(o) <= Map(Superblock(o), o).datasize + Map(Superblock(o), o).metasize

-----------------------------------------------------------------------------
(* The layout that a superblock s stands for. *)

Some == CHOOSE o \in Opts : TRUE
Lay(s) == [sb |-> s, map |-> Map(s, Some)]
Sp(s, i) == SlotPage(Lay(s), i)
Numbers(s) == Ids(Lay(s).map)
Index(s) == 0 .. s.tx_slots_count - 1
Reached(s, p) == Lay(s).map.tx_log <= p * Align /\ p * Align < PersistedTo(Lay(s).map)

-----------------------------------------------------------------------------
(* The invariant of what is mapped. *)

\* The handle belongs to the saved superblock, and a pool without one is new.
HandleOK ==
    /\ sb = None \/ \E o \in Opts : sb = Superblock(o)
    /\ h # None => sb # None /\ \E o \in Opts : h = Handle(o, sb)
    /\ sb = None => /\ mem = [p \in Pages |-> Blank] /\ disk = mem
                    /\ objs = <<>> /\ safe = {}

\* The thread exists only between pmb_open and the join of pmb_close.
ThreadOK ==
    /\ thread \in {"none", "sleep", "persist"} /\ closing \in {"no", "join", "unmap"}
    /\ h = None => thread = "none" /\ closing = "no"
    /\ h # None /\ h.o.sync # THSYNC => thread = "none"
    /\ closing = "unmap" => thread = "none"
    /\ closing # "no" => \A i \in Slots : tx[i] = "idle"

\* What a page holds.  The numbers in a log are those of data blocks, and no log
\* outlasts its transaction.
PagesOK(m) ==
    /\ m \in [Pages -> {Blank} \cup Logs \cup Parts]
    /\ \A p \in Pages : m[p].is = "log" =>
          m[p].status # "empty" /\ m[p].puts \cup m[p].dels \subseteq Numbers(sb)

TxOK ==
    h # None =>
        /\ tx \in [Index(sb) -> TxStates]
        /\ \A i \in Index(sb) : tx[i] # "idle" =>
              /\ mem[Sp(sb, i)].is = "log"
              /\ mem[Sp(sb, i)].status = "processing" <=> tx[i] \in {"begun", "open"}
        /\ \A i \in Index(sb) : i # 0 =>
              /\ tx[i] = "idle" => mem[Sp(sb, i)].is # "log"
              /\ tx[i] = "begun" => mem[Sp(sb, i)].puts = {}

CountsOK == free \subseteq Nat /\ safe \subseteq DOMAIN objs /\ begun \in Nat

\* What running transactions have put, what they are going to take away, and
\* what an abort has given back while the slot still names it
PutBy(i) ==
    IF tx[i] \in {"open", "committed", "zeroed", "aborted"} THEN mem[Sp(sb, i)].puts ELSE {}
TakenBy(i) == IF tx[i] \in {"open", "committed"} THEN mem[Sp(sb, i)].dels ELSE {}
ReturnedBy(i) == IF tx[i] = "undone" THEN mem[Sp(sb, i)].puts ELSE {}

\* No two transactions name a block, and none that is free, but for what an
\* abort has given back: that is still free.
Apart ==
    h # None =>
        \A i \in Index(sb) :
            /\ ReturnedBy(i) \subseteq free
            /\ PutBy(i) \cap free = {} /\ TakenBy(i) \cap free = {}
            /\ \A j \in Index(sb) :
                  /\ TakenBy(i) \cap PutBy(j) = {}
                  /\ i # j => PutBy(i) \cap PutBy(j) = {} /\ TakenBy(i) \cap TakenBy(j) = {}

\* What is free is no object, what was put is one.
Written ==
    h # None =>
        /\ \A id \in free \cap Numbers(sb) : ~ IsObject(Lay(sb), mem, id)
        /\ \A i \in Index(sb) : \A id \in PutBy(i) :
              \E v \in Vals : Holds(Lay(sb), mem, id, v, Some.key)

MInv ==
    /\ HandleOK /\ ThreadOK /\ PagesOK(mem) /\ PagesOK(disk) /\ TxOK /\ CountsOK
    /\ Apart /\ Written

-----------------------------------------------------------------------------
(* The invariant of what is stored. *)

\* An executed object in the part of the pool that is synchronised
Kept(id) ==
    id \in DOMAIN objs /\ \A p \in PagesOf(Lay(sb), id) : (p + 1) * Align <= PersistedTo(Lay(sb).map)

\* It is what the program sees; after a synchronisation, what is stored too.
Whole ==
    \A id \in DOMAIN objs :
        /\ id \in Numbers(sb) /\ objs[id].key = Some.key
        /\ Kept(id) => Holds(Lay(sb), mem, id, objs[id].val, Some.key)
        /\ Kept(id) /\ id \in safe => Holds(Lay(sb), disk, id, objs[id].val, Some.key)

\* No log that a transaction or the next tx_log_check may act on names it as
\* new, and none that is committed as removed.
Unlisted ==
    \A id \in DOMAIN objs : Kept(id) =>
        \A i \in Index(sb) :
            /\ h # None => id \notin PutBy(i) /\ (tx[i] = "committed" => id \notin TakenBy(i))
            /\ h = None /\ i # 0 /\ mem[Sp(sb, i)].is = "log" => id \notin mem[Sp(sb, i)].puts
            /\ id \in safe /\ i # 0 /\ disk[Sp(sb, i)].is = "log" => id \notin disk[Sp(sb, i)].puts

\* What is called safe is reached by backend_persist_all.
SafeKept == \A id \in safe : Kept(id)

SInv == Whole /\ Unlisted /\ SafeKept
-----------------------------------------------------------------------------
(* Arithmetic. *)

\* A quotient, by what it is multiplied with.
LEMMA Quotient ==
    ASSUME NEW x \in Nat, NEW a \in Nat \ {0}
    PROVE  x \div a \in Nat /\ a * (x \div a) <= x /\ x < a * (x \div a) + a
OBVIOUS

\* A product grows with its first factor.
LEMMA Grows ==
    ASSUME NEW a \in Nat, NEW b \in Nat, NEW c \in Nat, b <= c
    PROVE  b * a \in Nat /\ c * a \in Nat /\ b * a <= c * a
<1>1. PICK d \in Nat : c = b + d
    <2>1. c - b \in Nat /\ c = b + (c - b)
        OBVIOUS
    <2> QED BY <2>1
<1>2. d * a \in Nat
    OBVIOUS
<1>3. c * a = b * a + d * a
    BY <1>1
<1> QED BY <1>2, <1>3

\* By a whole factor at least.
LEMMA GrowsBy ==
    ASSUME NEW a \in Nat, NEW b \in Nat, NEW c \in Nat, b < c
    PROVE  b * a \in Nat /\ c * a \in Nat /\ b * a + a <= c * a
<1>1. (b + 1) * a <= c * a /\ c * a \in Nat
    BY Grows
<1>2. (b + 1) * a = b * a + a /\ b * a \in Nat
    OBVIOUS
<1> QED BY <1>1, <1>2

\* A multiple of a is divided by a exactly.
LEMMA Exact ==
    ASSUME NEW k \in Nat, NEW a \in Nat \ {0}
    PROVE  (k * a) \div a = k
<1> DEFINE q == (k * a) \div a
<1>1. q \in Nat /\ q * a <= k * a /\ k * a < q * a + a /\ k * a \in Nat
    <2>1. k * a \in Nat
        OBVIOUS
    <2>2. a * q = q * a
        BY <2>1, Quotient
    <2> QED BY <2>1, <2>2, Quotient
<1> HIDE DEF q
<1>2. ~ (k < q)
    BY <1>1, GrowsBy
<1>3. ~ (q < k)
    BY <1>1, GrowsBy
<1>4. q = k
    BY <1>1, <1>2, <1>3
<1> QED BY <1>4 DEF q

\* roundup gives whole pages, enough of them.
LEMMA Roundup ==
    ASSUME NEW n \in Nat
    PROVE  \E k \in Nat : /\ roundup(n) = k * Align
                          /\ n <= k * Align
                          /\ n > 0 => k >= 1
<1> DEFINE k == (n + Align - 1) \div Align
<1>1. n + Align - 1 \in Nat /\ Align \in Nat \ {0}
    BY AlignAssumption
<1>2. k \in Nat /\ n + Align - 1 < Align * k + Align
    BY <1>1, Quotient
<1>3. Align * k = k * Align /\ Align * k \in Nat
    BY <1>1, <1>2
<1>4. roundup(n) = k * Align
    BY DEF roundup
<1> HIDE DEF k
<1>5. n <= k * Align
    BY <1>1, <1>2, <1>3
<1>6. n > 0 => k >= 1
    <2> SUFFICES ASSUME n > 0, k = 0 PROVE FALSE
        BY <1>2
    <2>1. k * Align = 0
        BY <1>1
    <2> QED BY <1>5, <2>1
<1> QED BY <1>2, <1>4, <1>5, <1>6

-----------------------------------------------------------------------------
(* The layout. *)

\* A size below the word size does not wrap.
LEMMA NoWrap ==
    ASSUME NEW x \in Nat, NEW w \in Nat \ {0}, x < w
    PROVE  x % w = x
<1>1. x = w * (x \div w) + (x % w) /\ x % w \in Nat /\ x \div w \in Nat
    OBVIOUS
<1>2. x \div w = 0
    <2> SUFFICES ASSUME x \div w >= 1 PROVE FALSE
        BY <1>1
    <2>1. 1 * w <= (x \div w) * w
        BY <1>1, Grows
    <2> QED BY <1>1, <2>1
<1> QED BY <1>1, <1>2

\* The options, and what a new pool saves of them.
LEMMA OptionFacts ==
    ASSUME NEW o \in Opts
    PROVE  /\ o \in Options /\ Fits(o)
           /\ o.data_size + o.meta_size <= NPages * Align
           /\ Superblock(o).bsize = DataBlockSize(o)
           /\ Superblock(o).tx_slots_count = o.entries
           /\ Superblock(o).tx_slot_size = SlotSize(o)
           /\ o.entries \in Nat /\ o.entries >= 1 /\ o.entries <= LogSize
           /\ o.data_size \in Nat /\ o.meta_size \in Nat /\ o.key \in Nat /\ o.val \in Nat
BY OptsAssumption DEF Options, Fits, Superblock

\* Slots and blocks are whole pages, at least one.
LEMMA WholePages ==
    ASSUME NEW o \in Opts
    PROVE  \E t, s, k \in Nat : /\ s >= 1 /\ k >= 1
                                /\ roundup(SuperLen) = t * Align
                                /\ SlotSize(o) = s * Align
                                /\ DataBlockSize(o) = k * Align
<1>1. PICK t \in Nat : roundup(SuperLen) = t * Align
    BY LenAssumption, Roundup
<1>2. LogSize \div o.entries \in Nat /\ LogSize \div o.entries > 0
    <2> DEFINE q == LogSize \div o.entries
    <2>1. o.entries \in Nat \ {0} /\ LogSize \in Nat /\ o.entries <= LogSize
        BY OptionFacts, LenAssumption
    <2>2. q \in Nat /\ LogSize < o.entries * q + o.entries
        BY <2>1, Quotient
    <2> HIDE DEF q
    <2>3. q # 0
        <3> SUFFICES ASSUME q = 0 PROVE FALSE
            OBVIOUS
        <3>1. o.entries * q = 0
            BY <2>1
        <3> QED BY <2>1, <2>2, <3>1
    <2> QED BY <2>2, <2>3 DEF q
<1>3. PICK s \in Nat : SlotSize(o) = s * Align /\ s >= 1
    BY <1>2, Roundup DEF SlotSize
<1>4. HdrLen + o.key + o.val \in Nat /\ HdrLen + o.key + o.val > 0
    BY OptionFacts, LenAssumption
<1>5. PICK k \in Nat : DataBlockSize(o) = k * Align /\ k >= 1
    BY <1>4, Roundup DEF DataBlockSize
<1> QED BY <1>1, <1>3, <1>5

\* Any options give the same layout for a superblock.
LEMMA SameMap ==
    ASSUME Steady, NEW o \in Opts, NEW x
    PROVE  Map(x, o) = Lay(x).map /\ Some \in Opts /\ o.key = Some.key /\ o.entries = Some.entries
<1>1. Some \in Opts
    BY DEF Some
<1>2. /\ o.entries = Some.entries /\ o.data_size = Some.data_size
      /\ o.meta_size = Some.meta_size /\ o.key = Some.key
    BY <1>1 DEF Steady
<1>3. SlotSize(o) = SlotSize(Some)
    BY <1>2 DEF SlotSize
<1> QED BY <1>1, <1>2, <1>3 DEF Map, Lay

\* The regions in pages: t before the log, s in a slot, k in a block, n blocks.
LEMMA Regions ==
    ASSUME Steady, NEW o \in Opts, NEW t \in Nat, NEW s \in Nat, NEW k \in Nat, s >= 1, k >= 1,
           roundup(SuperLen) = t * Align, SlotSize(o) = s * Align, DataBlockSize(o) = k * Align
    PROVE  LET m == Map(Superblock(o), o)
               d == t + o.entries * s
           IN /\ m.tx_log = t * Align /\ m.data = d * Align
              /\ m.data_nlba \in Nat /\ m.data_nlba >= 2
              /\ d + m.data_nlba * k <= NPages /\ d \in Nat
              /\ m.datasize \in Nat /\ m.metasize \in Nat
<1> DEFINE m == Map(Superblock(o), o)
           e == o.entries
           b == k * Align
           data == t * Align + e * (s * Align)
           n == (o.data_size - data) \div b
<1>0. /\ Align \in Nat /\ Align >= 1 /\ Word \in Nat \ {0} /\ NPages \in Nat /\ e \in Nat
      /\ o.data_size \in Nat /\ o.meta_size \in Nat /\ o.data_size + o.meta_size <= NPages * Align
    BY AlignAssumption, WordAssumption, PagesAssumption, OptionFacts
<1>1. data + 2 * b <= o.data_size /\ o.data_size + o.meta_size < Word
    BY OptionFacts DEF Fits
<1>2. data = (t + e * s) * Align /\ data \in Nat /\ t + e * s \in Nat
    BY <1>0
<1>3. b \in Nat /\ b >= 1
    <2>1. 1 * Align <= k * Align /\ k * Align \in Nat
        BY <1>0, Grows
    <2> QED BY <2>1, <1>0
<1> HIDE DEF b, data
<1>4. o.data_size - data \in Nat /\ o.data_size - data < Word /\ o.data_size - data >= 2 * b
    BY <1>0, <1>1, <1>2, <1>3
<1>5. (o.data_size - data) % Word = o.data_size - data
    BY <1>0, <1>4, NoWrap
<1>6. n \in Nat /\ b * n <= o.data_size - data /\ o.data_size - data < b * n + b
    BY <1>3, <1>4, Quotient
<1>7. /\ m.tx_log = t * Align /\ m.data = data
      /\ m.datasize = o.data_size - data /\ m.data_nlba = n
      /\ m.metasize = (o.data_size + o.meta_size - ((data + n * b) % Word)) % Word
    <2>1. Superblock(o).bsize = b /\ SlotSize(o) = s * Align
        BY OptionFacts DEF b
    <2>2. /\ m.tx_log = t * Align /\ m.data = data
          /\ m.datasize = (o.data_size - data) % Word
          /\ m.data_nlba = ((o.data_size - data) % Word) \div b
        BY <2>1, Zenon DEF Map, data
    <2>3. m.metasize = (o.data_size + o.meta_size
                          - ((data + (((o.data_size - data) % Word) \div b) * b) % Word)) % Word
        BY <2>1, Zenon DEF Map, data
    <2> QED BY <2>2, <2>3, <1>5, Zenon
<1> HIDE DEF n, m
<1>8. n >= 2
    <2> SUFFICES ASSUME n < 2 PROVE FALSE
        BY <1>6
    <2>1. n * b + b <= 2 * b
        BY <1>3, <1>6, GrowsBy
    <2> QED BY <2>1, <1>3, <1>4, <1>6
<1>9. (t + e * s) + n * k <= NPages
    <2>1. ((t + e * s) + n * k) * Align = data + n * b
        <3>1. n * (k * Align) = (n * k) * Align
            BY <1>0, <1>6
        <3>2. n * k \in Nat
            BY <1>6
        <3>3. ((t + e * s) + n * k) * Align = (t + e * s) * Align + (n * k) * Align
            BY <3>2, <1>0, <1>2
        <3> QED BY <3>1, <3>3, <1>2 DEF b
    <2>2. data + n * b <= NPages * Align /\ n * b = b * n
        BY <1>0, <1>2, <1>3, <1>6
    <2> DEFINE w == (t + e * s) + n * k
    <2>3. w \in Nat /\ NPages * Align \in Nat
        BY <1>0, <1>2, <1>6
    <2>4. w * Align <= NPages * Align
        BY <2>1, <2>2
    <2> HIDE DEF w
    <2>5. ~ (NPages < w)
        <3> SUFFICES ASSUME NPages < w PROVE FALSE
            OBVIOUS
        <3>1. NPages * Align + Align <= w * Align /\ w * Align \in Nat
            BY <2>3, <1>0, GrowsBy
        <3> QED BY <3>1, <2>3, <2>4, <1>0
    <2>6. w <= NPages
        BY <2>3, <2>5, <1>0
    <2> QED BY <2>6 DEF w
<1>10. m.metasize \in Nat
    <2>1. data + n * b \in Nat
        BY <1>2, <1>3, <1>6
    <2>2. \A x \in Int : x % Word \in Nat
        BY <1>0
    <2> DEFINE y == (data + n * b) % Word
    <2>3. y \in Nat
        BY <2>1, <2>2
    <2> HIDE DEF y
    <2>4. o.data_size + o.meta_size - y \in Int
        BY <1>0, <2>3
    <2>5. m.metasize = (o.data_size + o.meta_size - y) % Word
        BY <1>7, Zenon DEF y
    <2> QED BY <2>2, <2>4, <2>5
<1> QED BY <1>2, <1>4, <1>6, <1>7, <1>8, <1>9, <1>10 DEF m

\* What the rest of the proof needs to know of a layout: slots and blocks are
\* pages of the file and lie apart, and a synchronisation that reaches all of
\* a block reaches the log, which lies before it.
Placed(x) ==
    /\ x \in {Superblock(o) : o \in Opts} /\ Numbers(x) \subseteq Nat
    /\ \A i \in Index(x) : Sp(x, i) \in Pages /\ tx_direct(x, Lay(x).map, i) # Null
    /\ \A i, j \in Index(x) : Sp(x, i) = Sp(x, j) => i = j
    /\ \A id \in Numbers(x) : /\ PagesOf(Lay(x), id) \subseteq Pages
                              /\ FirstPage(Lay(x), id) \in PagesOf(Lay(x), id)
                              /\ \A p \in PagesOf(Lay(x), id) : p - FirstPage(Lay(x), id) \in Nat
    /\ \A id, jd \in Numbers(x) :
          id # jd => PagesOf(Lay(x), id) \cap PagesOf(Lay(x), jd) = {}
    /\ \A id \in Numbers(x) : \A i \in Index(x) : Sp(x, i) \notin PagesOf(Lay(x), id)
    /\ \A id \in Numbers(x) :
          (\A p \in PagesOf(Lay(x), id) : (p + 1) * Align <= PersistedTo(Lay(x).map)) =>
              /\ \A p \in PagesOf(Lay(x), id) : Reached(x, p)
              /\ \A i \in Index(x) : Reached(x, Sp(x, i))
    /\ Reach => \A i \in Index(x) : Reached(x, Sp(x, i))

\* Where a slot is, in pages.
LEMMA SlotAt ==
    ASSUME NEW x, NEW t \in Nat, NEW s \in Nat, NEW e \in Nat, NEW i \in 0 .. e - 1,
           x.tx_slots_count = e, x.tx_slot_size = s * Align, Lay(x).map.tx_log = t * Align
    PROVE  Sp(x, i) = t + i * s /\ tx_direct(x, Lay(x).map, i) # Null
<1>1. Align \in Nat \ {0} /\ i \in Nat /\ i < e
    BY AlignAssumption
<1>2. Lay(x).sb = x
    BY DEF Lay
<1>3. tx_direct(x, Lay(x).map, i) = t * Align + i * (s * Align)
    BY <1>1, Zenon DEF tx_direct
<1>4. t * Align + i * (s * Align) = (t + i * s) * Align /\ t + i * s \in Nat
    BY <1>1
<1>5. Sp(x, i) = ((t + i * s) * Align) \div Align
    BY <1>2, <1>3, <1>4 DEF Sp, SlotPage
<1>6. tx_direct(x, Lay(x).map, i) # Null
    <2>1. (t + i * s) * Align \in Nat
        BY <1>1, <1>4
    <2>2. tx_direct(x, Lay(x).map, i) \in Nat
        BY <1>3, <1>4, <2>1
    <2> QED BY <2>2 DEF Null
<1> QED BY <1>1, <1>4, <1>5, <1>6, Exact

\* Where a block is, in pages.
LEMMA BlockAt ==
    ASSUME NEW x, NEW d \in Nat, NEW k \in Nat, NEW n \in Nat, k >= 1, NEW id \in 1 .. n - 1,
           x.bsize = k * Align, Lay(x).map.data = d * Align, Lay(x).map.data_nlba = n
    PROVE  /\ FirstPage(Lay(x), id) = d + id * k
           /\ PagesOf(Lay(x), id) = (d + id * k) .. (d + id * k) + k - 1
<1>1. Align \in Nat \ {0} /\ id \in Nat /\ id < n
    BY AlignAssumption
<1>2. Lay(x).sb = x
    BY DEF Lay
<1>3. direct(x, Lay(x).map, id) = d * Align + id * (k * Align)
    BY <1>1, Zenon DEF direct
<1>4. d * Align + id * (k * Align) = (d + id * k) * Align /\ d + id * k \in Nat
    BY <1>1
<1>5. FirstPage(Lay(x), id) = d + id * k
    <2>1. FirstPage(Lay(x), id) = ((d + id * k) * Align) \div Align
        BY <1>2, <1>3, <1>4 DEF FirstPage
    <2> QED BY <1>1, <1>4, <2>1, Exact
<1>6. BlockSizeOf(x, Lay(x).map, id) \div Align = k
    <2>1. BlockSizeOf(x, Lay(x).map, id) = k * Align
        BY <1>1, Zenon DEF BlockSizeOf
    <2> QED BY <1>1, <2>1, Exact
<1>7. direct(x, Lay(x).map, id) # Null
    <2>1. (d + id * k) * Align \in Nat
        BY <1>1, <1>4
    <2>2. direct(x, Lay(x).map, id) \in Nat
        BY <1>3, <1>4, <2>1
    <2> QED BY <2>2 DEF Null
<1> QED BY <1>2, <1>5, <1>6, <1>7, Zenon DEF PagesOf

\* Every superblock that a pool can have is of this kind.
LEMMA Places == ASSUME Steady, NEW o \in Opts PROVE Placed(Superblock(o))
<1> DEFINE x == Superblock(o)
           m == Lay(x).map
           e == o.entries
           n == m.data_nlba
<1>1. PICK t \in Nat, s \in Nat, k \in Nat :
        /\ s >= 1 /\ k >= 1
        /\ roundup(SuperLen) = t * Align /\ SlotSize(o) = s * Align /\ DataBlockSize(o) = k * Align
    BY WholePages
<1> DEFINE d == t + e * s
<1>2. /\ m.tx_log = t * Align /\ m.data = d * Align /\ n \in Nat /\ n >= 2
      /\ d + n * k <= NPages /\ d \in Nat /\ m.datasize \in Nat /\ m.metasize \in Nat
    <2>1. Map(Superblock(o), o) = m
        BY SameMap
    <2> QED BY <1>1, <2>1, Regions
<1>3. x.tx_slots_count = e /\ x.tx_slot_size = s * Align /\ x.bsize = k * Align /\ e \in Nat /\ e >= 1
    BY <1>1, OptionFacts
<1>4. Index(x) = 0 .. e - 1 /\ Numbers(x) = 1 .. n - 1
    BY <1>3 DEF Index, Numbers, Ids
<1>5. Align \in Nat /\ Align >= 1 /\ NPages \in Nat
    BY AlignAssumption, PagesAssumption
<1>6. PersistedTo(m) = t * Align + m.datasize + m.metasize /\ PersistedTo(m) \in Nat
    BY <1>2, <1>5 DEF PersistedTo
<1>7. Reach => (e * s) * Align <= m.datasize + m.metasize
    <2>1. Map(Superblock(o), o) = m
        BY SameMap
    <2>2. e * (s * Align) = (e * s) * Align
        BY <1>3, <1>5
    <2> QED BY <1>1, <2>1, <2>2 DEF Reach
<1>8. x \in {Superblock(q) : q \in Opts}
    OBVIOUS
<1>8a. Lay(x).map.data_nlba = n /\ d <= NPages /\ n * k \in Nat
    <2>1. n * k \in Nat
        BY <1>2
    <2> HIDE DEF d, n
    <2> QED BY <2>1, <1>2, <1>5 DEF n
<1> HIDE DEF x, d, n
<1> DEFINE F(id) == d + id * k
<1>9. ASSUME NEW i \in Index(x)
      PROVE  /\ i \in Nat /\ i < e /\ i * s \in Nat /\ i * s + s <= e * s
             /\ Sp(x, i) = t + i * s /\ Sp(x, i) \in Nat /\ t <= Sp(x, i) /\ Sp(x, i) < d
             /\ tx_direct(x, Lay(x).map, i) # Null
    <2>1. i \in Nat /\ i < e
        BY <1>3, <1>4
    <2>2. i * s \in Nat /\ i * s + s <= e * s /\ e * s \in Nat
        BY <2>1, <1>3, GrowsBy
    <2>3. Sp(x, i) = t + i * s /\ tx_direct(x, Lay(x).map, i) # Null
        BY <1>2, <1>3, <1>4, SlotAt
    <2> QED BY <1>1, <2>1, <2>2, <2>3 DEF d
<1>10. ASSUME NEW id \in Numbers(x)
       PROVE  /\ id \in Nat /\ id < n /\ id >= 1 /\ F(id) \in Nat /\ d <= F(id) /\ F(id) + k <= d + n * k
              /\ FirstPage(Lay(x), id) = F(id) /\ PagesOf(Lay(x), id) = F(id) .. F(id) + k - 1
    <2>1. id \in 1 .. n - 1
        BY <1>4
    <2>2. id \in Nat /\ id < n /\ id >= 1
        BY <2>1, <1>2
    <2>3. id * k \in Nat /\ n * k \in Nat /\ id * k + k <= n * k
        BY <2>2, <1>2, GrowsBy
    <2>4. FirstPage(Lay(x), id) = F(id) /\ PagesOf(Lay(x), id) = F(id) .. F(id) + k - 1
        BY <1>1, <1>2, <1>3, <1>8a, <2>1, BlockAt
    <2>5. F(id) \in Nat /\ d <= F(id) /\ F(id) + k <= d + n * k
        BY <1>2, <2>3
    <2> QED BY <2>2, <2>4, <2>5
<1>11. /\ Numbers(x) \subseteq Nat
       /\ \A i \in Index(x) : Sp(x, i) \in Pages /\ tx_direct(x, Lay(x).map, i) # Null
    <2>1. \A i \in Index(x) : Sp(x, i) \in Pages
        BY <1>2, <1>5, <1>9, <1>8a DEF Pages
    <2> QED BY <1>9, <1>10, <2>1
<1>12. ASSUME NEW i \in Index(x), NEW j \in Index(x), Sp(x, i) = Sp(x, j) PROVE i = j
    <2>1. ~ (i < j)
        <3> SUFFICES ASSUME i < j PROVE FALSE
            OBVIOUS
        <3>1. i * s + s <= j * s
            BY <1>9, GrowsBy
        <3> QED BY <1>1, <1>9, <1>12, <3>1
    <2>2. ~ (j < i)
        <3> SUFFICES ASSUME j < i PROVE FALSE
            OBVIOUS
        <3>1. j * s + s <= i * s
            BY <1>9, GrowsBy
        <3> QED BY <1>1, <1>9, <1>12, <3>1
    <2>3. i \in Nat /\ j \in Nat
        BY <1>9
    <2> QED BY <2>1, <2>2, <2>3
<1>13. ASSUME NEW id \in Numbers(x)
       PROVE  /\ PagesOf(Lay(x), id) \subseteq Pages
              /\ FirstPage(Lay(x), id) \in PagesOf(Lay(x), id)
              /\ \A p \in PagesOf(Lay(x), id) : p - FirstPage(Lay(x), id) \in Nat
    <2> DEFINE f == F(id)
    <2>1. f \in Nat /\ f + k <= NPages
        BY <1>2, <1>5, <1>10, <1>8a
    <2>2. FirstPage(Lay(x), id) = f /\ PagesOf(Lay(x), id) = f .. f + k - 1
        BY <1>10
    <2> HIDE DEF f
    <2> QED BY <1>1, <1>5, <2>1, <2>2 DEF Pages
<1>14. ASSUME NEW id \in Numbers(x), NEW jd \in Numbers(x), id # jd
       PROVE  PagesOf(Lay(x), id) \cap PagesOf(Lay(x), jd) = {}
    <2>1. ASSUME NEW a \in Numbers(x), NEW b \in Numbers(x), a < b
          PROVE  F(a) + k <= F(b)
        <3>1. a * k + k <= b * k /\ a * k \in Nat /\ b * k \in Nat
            BY <2>1, <1>10, GrowsBy
        <3> QED BY <3>1, <1>2
    <2>2. id < jd \/ jd < id
        BY <1>10, <1>14
    <2> HIDE DEF F
    <2> QED BY <2>1, <2>2, <1>10
<1>15. ASSUME NEW id \in Numbers(x), NEW i \in Index(x) PROVE Sp(x, i) \notin PagesOf(Lay(x), id)
    <2> DEFINE f == F(id)
               a == Sp(x, i)
    <2>1. a \in Nat /\ a < d /\ d \in Nat
        BY <1>2, <1>9
    <2>2. f \in Nat /\ d <= f /\ PagesOf(Lay(x), id) = f .. f + k - 1
        BY <1>10
    <2> HIDE DEF f, a
    <2>3. a \notin f .. f + k - 1
        BY <2>1, <2>2
    <2> QED BY <2>2, <2>3 DEF a
<1>16. ASSUME NEW p \in Nat, NEW q \in Nat, t <= p, p < q, q * Align <= PersistedTo(m)
       PROVE  Reached(x, p)
    <2>1. t * Align <= p * Align /\ p * Align + Align <= q * Align /\ p * Align \in Nat /\ q * Align \in Nat
        BY <1>5, <1>16, Grows, GrowsBy
    <2>2. p * Align < PersistedTo(m)
        BY <2>1, <1>5, <1>6, <1>16
    <2> QED BY <2>1, <2>2, <1>2 DEF Reached
<1>17. ASSUME NEW id \in Numbers(x),
              \A p \in PagesOf(Lay(x), id) : (p + 1) * Align <= PersistedTo(m)
       PROVE  /\ \A p \in PagesOf(Lay(x), id) : Reached(x, p)
              /\ \A i \in Index(x) : Reached(x, Sp(x, i))
    <2> HIDE DEF F, m
    <2>0. t <= d
        <3>1. e * s \in Nat
            BY <1>3
        <3> QED BY <3>1 DEF d
    <2>1. ASSUME NEW p \in PagesOf(Lay(x), id) PROVE p \in Nat /\ d <= p
        BY <1>1, <1>2, <1>10
    <2>2. ASSUME NEW p \in PagesOf(Lay(x), id) PROVE Reached(x, p)
        BY <2>0, <2>1, <1>2, <1>16, <1>17
    <2>3. ASSUME NEW i \in Index(x) PROVE Reached(x, Sp(x, i))
        <3>1. F(id) \in PagesOf(Lay(x), id)
            BY <1>1, <1>10
        <3>2. F(id) \in Nat /\ Sp(x, i) < F(id) + 1 /\ F(id) + 1 \in Nat /\ (F(id) + 1) * Align <= PersistedTo(m)
            BY <3>1, <2>1, <1>2, <1>9, <1>17
        <3> QED BY <3>2, <1>9, <1>16
    <2> QED BY <2>2, <2>3
<1>18. ASSUME Reach, NEW i \in Index(x) PROVE Reached(x, Sp(x, i))
    <2>1. d * Align <= PersistedTo(m)
        <3>1. e * s \in Nat
            BY <1>3
        <3>2. d * Align = t * Align + (e * s) * Align
            BY <3>1, <1>5 DEF d
        <3>3. t * Align \in Nat /\ (e * s) * Align \in Nat
            BY <3>1, <1>5
        <3> QED BY <3>2, <3>3, <1>2, <1>6, <1>7, <1>18
    <2> QED BY <2>1, <1>2, <1>9, <1>16
<1>19. Placed(x)
    BY <1>8, <1>11, <1>12, <1>13, <1>14, <1>15, <1>17, <1>18 DEF Placed, x
<1> QED BY <1>19 DEF x

-----------------------------------------------------------------------------
(* Pages of blocks and slots. *)

\* The handle sees the layout of the superblock.
LEMMA Mapped ==
    ASSUME Steady, HandleOK, h # None
    PROVE  /\ sb # None /\ Placed(sb) /\ h.o \in Opts /\ h.o.key = Some.key
           /\ h.sb = sb /\ h.map = Lay(sb).map
           /\ Slots = Index(sb) /\ Ids(h.map) = Numbers(sb)
<1>1. PICK o \in Opts : h = Handle(o, sb)
    BY DEF HandleOK
<1>2. PICK q \in Opts : sb = Superblock(q)
    BY DEF HandleOK
<1>3. sb # None /\ Placed(sb)
    BY <1>2, Places DEF HandleOK
<1>4. h.o = o /\ h.sb = sb /\ h.map = Map(sb, o)
    BY <1>1 DEF Handle
<1>5. h.map = Lay(sb).map /\ o.key = Some.key /\ o.entries = Some.entries
    BY <1>4, SameMap
<1>6. sb.tx_slots_count = o.entries
    BY <1>2, <1>5, OptionFacts, SameMap
<1>7. Slots = Index(sb)
    BY <1>4, <1>6 DEF Slots, Index
<1> QED BY <1>3, <1>4, <1>5, <1>7 DEF Numbers

\* So do the operators that depend on nothing else.
LEMMA SameView ==
    ASSUME NEW g, NEW x, g.sb = x, g.map = Lay(x).map
    PROVE  /\ \A id : PagesOf(g, id) = PagesOf(Lay(x), id) /\ FirstPage(g, id) = FirstPage(Lay(x), id)
           /\ \A i : SlotPage(g, i) = Sp(x, i)
           /\ \A m, id : IsObject(g, m, id) = IsObject(Lay(x), m, id)
           /\ \A m, id, v, key : Holds(g, m, id, v, key) = Holds(Lay(x), m, id, v, key)
           /\ \A m, ids : ZeroBlocks(g, m, ids) = ZeroBlocks(Lay(x), m, ids)
           /\ \A m : PersistAll(g, m) = PersistAll(Lay(x), m)
<1>1. Lay(x).sb = x
    BY DEF Lay
<1>2. \A id : PagesOf(g, id) = PagesOf(Lay(x), id) /\ FirstPage(g, id) = FirstPage(Lay(x), id)
    BY <1>1, Zenon DEF PagesOf, FirstPage
<1>3. \A i : SlotPage(g, i) = Sp(x, i)
    BY <1>1, Zenon DEF SlotPage, Sp
<1>4. \A m, id, v, key : Holds(g, m, id, v, key) = Holds(Lay(x), m, id, v, key)
    BY <1>2, Zenon DEF Holds
<1>5. \A m, id : IsObject(g, m, id) = IsObject(Lay(x), m, id)
    <2> SUFFICES ASSUME NEW m, NEW id PROVE IsObject(g, m, id) = IsObject(Lay(x), m, id)
        OBVIOUS
    <2>1. FirstPage(g, id) = FirstPage(Lay(x), id)
        BY <1>2
    <2>2. \A v, key : Holds(g, m, id, v, key) = Holds(Lay(x), m, id, v, key)
        BY <1>4
    <2> QED BY <2>1, <2>2 DEF IsObject
<1>6. \A m, ids : ZeroBlocks(g, m, ids) = ZeroBlocks(Lay(x), m, ids)
    <2>1. \A ids : {PagesOf(g, id) : id \in ids} = {PagesOf(Lay(x), id) : id \in ids}
        BY <1>2
    <2> QED BY <2>1, Zenon DEF ZeroBlocks
<1>7. \A m : PersistAll(g, m) = PersistAll(Lay(x), m)
    BY Zenon DEF PersistAll
<1> QED BY <1>2, <1>3, <1>4, <1>5, <1>6, <1>7

\* A block whose pages stay stays what it is.
LEMMA SameBlock ==
    ASSUME NEW x, Placed(x), NEW id \in Numbers(x), NEW m, NEW w,
           \A p \in PagesOf(Lay(x), id) : m[p] = w[p]
    PROVE  /\ IsObject(Lay(x), m, id) <=> IsObject(Lay(x), w, id)
           /\ \A v, key : Holds(Lay(x), m, id, v, key) <=> Holds(Lay(x), w, id, v, key)
<1>1. FirstPage(Lay(x), id) \in PagesOf(Lay(x), id)
    BY DEF Placed
<1>2. \A v, key : Holds(Lay(x), m, id, v, key) <=> Holds(Lay(x), w, id, v, key)
    BY Zenon DEF Holds
<1>3. m[FirstPage(Lay(x), id)] = w[FirstPage(Lay(x), id)]
    BY <1>1
<1> QED BY <1>2, <1>3, Zenon DEF IsObject

\* A whole object is one, and its first page tells its value.
LEMMA WholeIsObject ==
    ASSUME NEW x, Placed(x), NEW id \in Numbers(x), NEW m, NEW v, NEW key,
           Holds(Lay(x), m, id, v, key)
    PROVE  IsObject(Lay(x), m, id) /\ m[FirstPage(Lay(x), id)].val = v
<1>1. FirstPage(Lay(x), id) \in PagesOf(Lay(x), id)
    BY DEF Placed
<1>2. m[FirstPage(Lay(x), id)] = Part(v, key, FirstPage(Lay(x), id) - FirstPage(Lay(x), id))
    BY <1>1, Zenon DEF Holds
<1>3. /\ m[FirstPage(Lay(x), id)].is = "object" /\ m[FirstPage(Lay(x), id)].val = v
      /\ m[FirstPage(Lay(x), id)].key = key
    BY <1>2 DEF Part
<1> QED BY <1>3 DEF IsObject

\* A block whose first page is blank is no object.
LEMMA BlankIsNone ==
    ASSUME NEW x, NEW id, NEW m, m[FirstPage(Lay(x), id)] = Blank
    PROVE  ~ IsObject(Lay(x), m, id)
BY DEF IsObject, Blank

\* w are the pages m with the blocks ids zeroed.
Zeroes(x, m, w, ids) ==
    /\ DOMAIN w = Pages /\ w = [p \in Pages |-> w[p]]
    /\ \A p \in Pages : w[p] = m[p] \/ w[p] = Blank
    /\ \A i \in Index(x) : w[Sp(x, i)] = m[Sp(x, i)]
    /\ \A id \in Numbers(x) \ ids : \A p \in PagesOf(Lay(x), id) : w[p] = m[p]
    /\ \A id \in ids : w[FirstPage(Lay(x), id)] = Blank

\* What backend_set_zero does, page by page.
LEMMA Zeroing ==
    ASSUME NEW x, Placed(x), NEW ids \in SUBSET Numbers(x), NEW m
    PROVE  Zeroes(x, m, ZeroBlocks(Lay(x), m, ids), ids)
<1> DEFINE gone == UNION {PagesOf(Lay(x), id) : id \in ids}
           z == [p \in Pages |-> IF p \in gone THEN Blank ELSE m[p]]
<1>1. ZeroBlocks(Lay(x), m, ids) = z
    BY DEF ZeroBlocks
<1>2. \A i \in Index(x) : Sp(x, i) \in Pages /\ Sp(x, i) \notin gone
    <2>1. \A i \in Index(x) : Sp(x, i) \in Pages
        BY DEF Placed
    <2>2. \A id \in ids : \A i \in Index(x) : Sp(x, i) \notin PagesOf(Lay(x), id)
        BY DEF Placed
    <2> QED BY <2>1, <2>2
<1>3. \A id \in Numbers(x) \ ids : \A p \in PagesOf(Lay(x), id) : p \in Pages /\ p \notin gone
    BY DEF Placed
<1>4. \A id \in ids : FirstPage(Lay(x), id) \in Pages /\ FirstPage(Lay(x), id) \in gone
    BY DEF Placed
<1> HIDE DEF gone
<1> QED BY <1>1, <1>2, <1>3, <1>4 DEF Zeroes

\* What the synchronisations do, page by page.
LEMMA Storing ==
    ASSUME NEW g, NEW m, NEW S, NEW is, disk \in [Pages -> S], m \in [Pages -> S]
    PROVE  /\ TxPersist(g, m, is) \in [Pages -> S] /\ PersistAll(g, m) \in [Pages -> S]
           /\ \A p \in Pages : TxPersist(g, m, is)[p] \in {m[p], disk[p]}
           /\ \A p \in Pages : PersistAll(g, m)[p] \in {m[p], disk[p]}
<1>1. /\ PersistAll(g, m) \in [Pages -> S]
      /\ \A p \in Pages : PersistAll(g, m)[p] \in {m[p], disk[p]}
    BY DEF PersistAll
<1> DEFINE sel == [p \in Pages |-> IF \E i \in is : p = SlotPage(g, i) THEN m[p] ELSE disk[p]]
<1>2. sel \in [Pages -> S] /\ \A p \in Pages : sel[p] \in {m[p], disk[p]}
    OBVIOUS
<1>3. TxPersist(g, m, is) \in {disk, sel, PersistAll(g, m)}
    BY DEF TxPersist
<1> HIDE DEF sel
<1> QED BY <1>1, <1>2, <1>3

-----------------------------------------------------------------------------
(* The sync thread. *)

\* A handle is one.
LEMMA HandleNotNone ==
    ASSUME NEW o, NEW x
    PROVE  /\ Handle(o, x) # None /\ Handle(o, x).o = o /\ Handle(o, x).sb = x
           /\ Superblock(o) # None
<1>1. "o" \in DOMAIN Handle(o, x) /\ "o" \notin DOMAIN None
    BY DEF Handle, None
<1>2. "bsize" \in DOMAIN Superblock(o) /\ "bsize" \notin DOMAIN None
    BY DEF Superblock, None
<1>3. Handle(o, x).o = o /\ Handle(o, x).sb = x
    BY DEF Handle
<1> QED BY <1>1, <1>2, <1>3

ThreadInv == ThreadOK /\ (sb = None => h = None)

\* The actions of a transaction leave handle and thread alone.
TxActions ==
    \E i \in Slots : \/ TxBegin(i) \/ TxInit(i) \/ TxCommit(i) \/ ExecZero(i) \/ ExecEnd(i)
                     \/ TxAbort(i) \/ AbortZero(i) \/ AbortEnd(i)
                     \/ \E v \in Vals : TPut(i, v)
                     \/ \E id \in Ids(h.map) : TDel(i, id)

LEMMA TxActionFrame == TxActions => Up /\ UNCHANGED <<sb, h, thread, closing>>
BY DEF TxActions, TxBegin, TxInit, TxCommit, ExecZero, ExecEnd, TxAbort, AbortZero, AbortEnd, TPut, TDel

LEMMA NextCases ==
    Next => \/ \E o \in Opts : Create(o) \/ Reopen(o)
            \/ TxActions
            \/ ThreadWake \/ ThreadPersist \/ ThreadCancelled
            \/ Close \/ CloseJoin \/ CloseUnmap \/ PowerFail
BY DEF Next, TxActions

\* The thread's place, step by step.
LEMMA ThreadStep == ASSUME ThreadInv, [Next]_vars PROVE ThreadInv'
<1> USE DEF ThreadInv, ThreadOK
<1>1. CASE UNCHANGED vars
    BY <1>1 DEF vars, Slots
<1>2. ASSUME NEW o \in Opts, Create(o) \/ Reopen(o) PROVE ThreadInv'
    <2>1. PICK g : Attach(g) /\ g # None /\ closing' = closing /\ h = None /\ sb' # None
        <3>1. CASE Create(o)
            BY <3>1, HandleNotNone DEF Create
        <3>2. CASE Reopen(o)
            BY <3>2, HandleNotNone DEF Reopen
        <3> QED BY <1>2, <3>1, <3>2
    <2>2. closing = "no" /\ h' = g /\ thread' = (IF g.o.sync = THSYNC THEN "sleep" ELSE "none")
        BY <2>1 DEF Attach
    <2> QED BY <2>1, <2>2
<1>3. CASE TxActions
    BY <1>3, TxActionFrame DEF Up
<1>4. CASE ThreadWake
    BY <1>4 DEF ThreadWake, Slots
<1>5. CASE ThreadPersist
    BY <1>5 DEF ThreadPersist, Slots
<1>6. CASE ThreadCancelled
    BY <1>6 DEF ThreadCancelled, Slots
<1>7. CASE Close
    BY <1>7 DEF Close, Slots, Up
<1>8. CASE CloseJoin
    BY <1>8 DEF CloseJoin, Slots
<1>9. CASE CloseUnmap
    BY <1>9 DEF CloseUnmap
<1>10. CASE PowerFail
    BY <1>10 DEF PowerFail
<1> QED BY <1>1, <1>2, <1>3, <1>4, <1>5, <1>6, <1>7, <1>8, <1>9, <1>10, NextCases

\* The sync thread synchronises a pool only while it is mapped, with any
\* options and whatever power failures, opens and closes come.
THEOREM PoolThreadMapped == Spec => []ThreadMapped
<1>1. Init => ThreadInv
    BY DEF Init, ThreadInv, ThreadOK
<1>2. ThreadInv /\ [Next]_vars => ThreadInv'
    BY ThreadStep
<1>3. ThreadInv => ThreadMapped
    BY DEF ThreadInv, ThreadOK, ThreadMapped
<1> QED BY <1>1, <1>2, <1>3, PTL DEF Spec

-----------------------------------------------------------------------------
(* Transactions keep the invariant of what is mapped. *)

PageSet == {Blank} \cup Logs \cup Parts
Disjoint(P, Q) == P \cap Q = {}

\* What a step of slot i has to show.
LEMMA TxKeeps ==
    ASSUME Steady, MInv, Up, NEW i \in Index(sb),
           NEW st \in TxStates,
           UNCHANGED <<sb, h, thread, closing>>, tx' = [tx EXCEPT ![i] = st],
           PagesOK(mem)', PagesOK(disk)', CountsOK',
           \A j \in Index(sb) \ {i} : mem'[Sp(sb, j)] = mem[Sp(sb, j)],
           st # "idle" => /\ mem'[Sp(sb, i)].is = "log"
                          /\ mem'[Sp(sb, i)].status = "processing" <=> st \in {"begun", "open"},
           st = "idle" => mem'[Sp(sb, i)].is # "log",
           st = "begun" /\ i # 0 => mem'[Sp(sb, i)].puts = {},
           NEW P, NEW T, PutBy(i)' = P, TakenBy(i)' = T, ReturnedBy(i)' \subseteq free',
           \A j \in Index(sb) \ {i} : ReturnedBy(j) \subseteq free',
           Disjoint(P, free'), Disjoint(T, free'), Disjoint(T, P),
           \A j \in Index(sb) \ {i} :
               /\ Disjoint(PutBy(j), free') /\ Disjoint(TakenBy(j), free')
               /\ Disjoint(P, PutBy(j)) /\ Disjoint(T, PutBy(j))
               /\ Disjoint(TakenBy(j), P) /\ Disjoint(T, TakenBy(j)),
           \A id \in free' \cap Numbers(sb) : ~ IsObject(Lay(sb), mem', id),
           \A id \in P : \E v \in Vals : Holds(Lay(sb), mem', id, v, Some.key),
           \A j \in Index(sb) \ {i} : \A id \in PutBy(j) :
               \E v \in Vals : Holds(Lay(sb), mem', id, v, Some.key)
    PROVE  MInv'
<1>0. h # None /\ sb # None /\ Placed(sb)
    BY Mapped DEF Up, MInv
<1>1. HandleOK' /\ ThreadOK'
    BY <1>0 DEF MInv, HandleOK, ThreadOK, Up
<1>2. tx \in [Index(sb) -> TxStates]
    BY <1>0 DEF MInv, TxOK
<1>3. /\ tx' \in [Index(sb) -> TxStates]
      /\ tx'[i] = st /\ \A j \in Index(sb) \ {i} : tx'[j] = tx[j]
    BY <1>2
<1>4. TxOK'
    <2>1. \A j \in Index(sb) \ {i} :
             /\ tx[j] # "idle" => /\ mem[Sp(sb, j)].is = "log"
                                  /\ mem[Sp(sb, j)].status = "processing" <=> tx[j] \in {"begun", "open"}
             /\ tx[j] = "idle" /\ j # 0 => mem[Sp(sb, j)].is # "log"
             /\ tx[j] = "begun" /\ j # 0 => mem[Sp(sb, j)].puts = {}
        BY <1>0 DEF MInv, TxOK
    <2> QED BY <1>0, <1>3, <2>1 DEF TxOK
<1>5. \A j \in Index(sb) \ {i} : /\ PutBy(j)' = PutBy(j) /\ TakenBy(j)' = TakenBy(j)
                                 /\ ReturnedBy(j)' = ReturnedBy(j)
    BY <1>3 DEF PutBy, TakenBy, ReturnedBy
<1>6. Apart'
    <2>1. \A j, k \in Index(sb) :
             /\ Disjoint(TakenBy(j), PutBy(k))
             /\ j # k => Disjoint(PutBy(j), PutBy(k)) /\ Disjoint(TakenBy(j), TakenBy(k))
        BY <1>0 DEF MInv, Apart, Disjoint
    <2>2. \A j \in Index(sb) : /\ Disjoint(PutBy(j)', free') /\ Disjoint(TakenBy(j)', free')
                               /\ ReturnedBy(j)' \subseteq free'
        BY <1>5
    <2>3. \A j, k \in Index(sb) :
             /\ Disjoint(TakenBy(j)', PutBy(k)')
             /\ j # k => Disjoint(PutBy(j)', PutBy(k)') /\ Disjoint(TakenBy(j)', TakenBy(k)')
        <3>1. \A A, B : Disjoint(A, B) => Disjoint(B, A)
            BY DEF Disjoint
        <3> QED BY <1>5, <2>1, <3>1
    <2> QED BY <2>2, <2>3 DEF Apart, Disjoint
<1>7. Written'
    BY <1>5 DEF Written
<1> QED BY <1>1, <1>4, <1>6, <1>7 DEF MInv

\* w are the pages m with log written into slot i.
Writes(m, w, i, log) ==
    /\ w[Sp(sb, i)] = log
    /\ \A j \in Index(sb) \ {i} : w[Sp(sb, j)] = m[Sp(sb, j)]
    /\ \A id \in Numbers(sb) : \A p \in PagesOf(Lay(sb), id) : w[p] = m[p]
    /\ \A p \in Pages : w[p] = m[p] \/ w[p] = log
    /\ w \in [Pages -> PageSet]

\* A write into a slot leaves everything else.
LEMMA SlotWrite ==
    ASSUME Placed(sb), NEW i \in Index(sb), NEW m \in [Pages -> PageSet], NEW log \in PageSet
    PROVE  Writes(m, [m EXCEPT ![Sp(sb, i)] = log], i, log)
BY DEF Placed, Writes

\* What is known of a transaction that is under way in slot i.
LEMMA Running ==
    ASSUME Steady, MInv, Up, NEW i \in Slots
    PROVE  /\ Placed(sb) /\ i \in Index(sb) /\ SlotPage(h, i) = Sp(sb, i) /\ TheLog(i) = mem[Sp(sb, i)]
           /\ mem \in [Pages -> PageSet] /\ disk \in [Pages -> PageSet] /\ DOMAIN mem = Pages
           /\ tx \in [Index(sb) -> TxStates]
           /\ tx[i] # "idle" =>
                /\ TheLog(i) \in Logs /\ TheLog(i).is = "log"
                /\ TheLog(i).status = "processing" <=> tx[i] \in {"begun", "open"}
                /\ TheLog(i).puts \subseteq Numbers(sb) /\ TheLog(i).dels \subseteq Numbers(sb)
           /\ tx[i] \in {"open", "committed", "zeroed", "aborted"} => PutBy(i) = TheLog(i).puts
           /\ tx[i] \in {"open", "committed"} => TakenBy(i) = TheLog(i).dels
           /\ tx[i] \in {"idle", "begun", "undone"} => PutBy(i) = {}
           /\ tx[i] \notin {"open", "committed"} => TakenBy(i) = {}
           /\ tx[i] = "undone" => ReturnedBy(i) = TheLog(i).puts
           /\ tx[i] # "undone" => ReturnedBy(i) = {}
           /\ free \subseteq Nat
<1>1. /\ h # None /\ Placed(sb) /\ i \in Index(sb) /\ SlotPage(h, i) = Sp(sb, i)
    BY Mapped, SameView DEF Up, MInv
<1>2. TheLog(i) = mem[Sp(sb, i)]
    BY <1>1 DEF TheLog
<1>3. mem \in [Pages -> PageSet] /\ disk \in [Pages -> PageSet]
    BY DEF MInv, PagesOK, PageSet
<1>4. Sp(sb, i) \in Pages
    BY <1>1 DEF Placed
<1>5. tx \in [Index(sb) -> TxStates] /\ free \subseteq Nat
    BY <1>1 DEF MInv, TxOK, CountsOK
<1>6. ASSUME tx[i] # "idle"
      PROVE  /\ TheLog(i) \in Logs /\ TheLog(i).is = "log"
             /\ TheLog(i).status = "processing" <=> tx[i] \in {"begun", "open"}
             /\ TheLog(i).puts \subseteq Numbers(sb) /\ TheLog(i).dels \subseteq Numbers(sb)
    <2>1. mem[Sp(sb, i)].is = "log" /\ (mem[Sp(sb, i)].status = "processing" <=> tx[i] \in {"begun", "open"})
        BY <1>1, <1>6 DEF MInv, TxOK
    <2>2. mem[Sp(sb, i)] \in Logs
        BY <2>1, <1>3, <1>4 DEF PageSet, Blank, Parts
    <2>3. mem[Sp(sb, i)].puts \cup mem[Sp(sb, i)].dels \subseteq Numbers(sb)
        BY <2>1, <1>4 DEF MInv, PagesOK
    <2> QED BY <2>1, <2>2, <2>3, <1>2
<1> QED BY <1>1, <1>2, <1>3, <1>5, <1>6 DEF PutBy, TakenBy, ReturnedBy

\* Other transactions' blocks are apart from each other and from slot i's.
LEMMA ApartFacts ==
    ASSUME MInv, Up, NEW i \in Index(sb)
    PROVE  /\ Disjoint(PutBy(i), free) /\ Disjoint(TakenBy(i), free) /\ Disjoint(TakenBy(i), PutBy(i))
           /\ \A j \in Index(sb) : ReturnedBy(j) \subseteq free
           /\ \A j \in Index(sb) \ {i} :
                 /\ Disjoint(PutBy(j), free) /\ Disjoint(TakenBy(j), free)
                 /\ Disjoint(PutBy(i), PutBy(j)) /\ Disjoint(TakenBy(i), PutBy(j))
                 /\ Disjoint(TakenBy(j), PutBy(i)) /\ Disjoint(TakenBy(i), TakenBy(j))
BY DEF MInv, Apart, Up, Disjoint

\* Blocks that have been put are numbers of the pool, and whole.
LEMMA PutFacts ==
    ASSUME Steady, MInv, Up
    PROVE  /\ \A j \in Index(sb) : PutBy(j) \subseteq Numbers(sb) /\ TakenBy(j) \subseteq Numbers(sb)
           /\ \A j \in Index(sb) : \A id \in PutBy(j) :
                 \E v \in Vals : Holds(Lay(sb), mem, id, v, Some.key)
           /\ \A id \in free \cap Numbers(sb) : ~ IsObject(Lay(sb), mem, id)
<1>1. Slots = Index(sb) /\ h # None
    BY Mapped DEF MInv, Up
<1>2. \A j \in Index(sb) : PutBy(j) \subseteq Numbers(sb) /\ TakenBy(j) \subseteq Numbers(sb)
    BY <1>1, Running DEF PutBy, TakenBy
<1> QED BY <1>1, <1>2 DEF MInv, Written

\* A step that writes only into slots leaves blocks as they are.
LEMMA BlocksStay ==
    ASSUME Steady, MInv, Up,
           \A id \in Numbers(sb) : \A p \in PagesOf(Lay(sb), id) : mem'[p] = mem[p]
    PROVE  /\ \A j \in Index(sb) : \A id \in PutBy(j) :
                 \E v \in Vals : Holds(Lay(sb), mem', id, v, Some.key)
           /\ \A id \in free \cap Numbers(sb) : ~ IsObject(Lay(sb), mem', id)
<1>1. Placed(sb)
    BY Mapped DEF MInv, Up
<1>2. \A id \in Numbers(sb) :
         /\ IsObject(Lay(sb), mem', id) <=> IsObject(Lay(sb), mem, id)
         /\ \A v, key : Holds(Lay(sb), mem', id, v, key) <=> Holds(Lay(sb), mem, id, v, key)
    BY <1>1, SameBlock
<1> QED BY <1>2, PutFacts

\* The pages after a write of a log into a slot
LEMMA SlotPagesOK ==
    ASSUME PagesOK(mem), sb' = sb, mem' \in [Pages -> PageSet],
           \A p \in Pages : mem'[p].is = "log" =>
               \/ mem'[p] = mem[p]
               \/ /\ mem'[p].status # "empty"
                  /\ mem'[p].puts \cup mem'[p].dels \subseteq Numbers(sb)
    PROVE  PagesOK(mem)'
BY DEF PagesOK, PageSet

\* The pages stored afterwards: each one the old or the new one.
LEMMA DiskPagesOK ==
    ASSUME PagesOK(disk), PagesOK(mem)', sb' = sb, disk' \in [Pages -> PageSet],
           \A p \in Pages : disk'[p] \in {mem'[p], disk[p]}
    PROVE  PagesOK(disk)'
BY DEF PagesOK, PageSet

\* What a step of slot i leaves: the other slots, and the blocks not in ids;
\* what it stores is what the program sees.
Effect(i, ids) ==
    /\ \A j \in Index(sb) \ {i} : mem'[Sp(sb, j)] = mem[Sp(sb, j)] /\ tx'[j] = tx[j]
    /\ \A p \in Pages : disk'[p] \in {mem'[p], disk[p]}
    /\ \A jd \in Numbers(sb) \ ids : \A p \in PagesOf(Lay(sb), jd) : mem'[p] = mem[p]

\* Steps that set up the log of a slot without blocks of its own.
LEMMA SetUpKeeps ==
    ASSUME Steady, MInv, Up, NEW i \in Slots, NEW st \in {"begun", "open"},
           tx[i] \in {"idle", "begun"}, tx' = [tx EXCEPT ![i] = st],
           UNCHANGED <<sb, h, thread, closing, free, disk, objs, safe>>, begun' \in Nat,
           NEW log \in Logs, mem' = [mem EXCEPT ![Sp(sb, i)] = log],
           log.status = "processing", log.puts \cup log.dels \subseteq Numbers(sb),
           st = "open" \/ i # 0 => log.puts = {}, st = "open" => log.dels = {}
    PROVE  MInv' /\ Effect(i, {})
<1>1. /\ Placed(sb) /\ i \in Index(sb) /\ mem \in [Pages -> PageSet] /\ DOMAIN mem = Pages
      /\ tx \in [Index(sb) -> TxStates]
    BY Running
<1>2. log \in PageSet /\ log.is = "log" /\ st \in TxStates /\ st # "idle"
    BY DEF PageSet, Logs, TxStates
<1>4. /\ mem'[Sp(sb, i)] = log /\ \A j \in Index(sb) \ {i} : mem'[Sp(sb, j)] = mem[Sp(sb, j)]
      /\ \A id \in Numbers(sb) : \A p \in PagesOf(Lay(sb), id) : mem'[p] = mem[p]
      /\ mem' \in [Pages -> PageSet]
    <2>1. Writes(mem, mem', i, log)
        BY <1>1, <1>2, SlotWrite
    <2> QED BY <2>1 DEF Writes
<1>5. PagesOK(mem)'
    <2>1. \A p \in Pages : mem'[p] = mem[p] \/ mem'[p] = log
        BY <1>1
    <2> QED BY <2>1, <1>4, SlotPagesOK DEF MInv
<1>6. PagesOK(disk)' /\ CountsOK'
    BY DEF MInv, PagesOK, CountsOK
<1>7. PutBy(i)' = {} /\ TakenBy(i)' = {} /\ ReturnedBy(i)' = {} /\ tx'[i] = st
    BY <1>1, <1>4 DEF PutBy, TakenBy, ReturnedBy
<1>8. \A j \in Index(sb) \ {i} : /\ Disjoint(PutBy(j), free') /\ Disjoint(TakenBy(j), free')
                                 /\ ReturnedBy(j) \subseteq free'
    BY <1>1, ApartFacts
<1>9. \A S : Disjoint({}, S) /\ Disjoint(S, {})
    BY DEF Disjoint
<1>10. /\ \A j \in Index(sb) \ {i} : \A id \in PutBy(j) :
             \E v \in Vals : Holds(Lay(sb), mem', id, v, Some.key)
       /\ \A id \in free' \cap Numbers(sb) : ~ IsObject(Lay(sb), mem', id)
    BY <1>4, BlocksStay
<1>11. Effect(i, {})
    BY <1>1, <1>4 DEF Effect
<1>12. /\ mem'[Sp(sb, i)].is = "log" /\ mem'[Sp(sb, i)].status = "processing"
       /\ st = "begun" /\ i # 0 => mem'[Sp(sb, i)].puts = {}
    BY <1>2, <1>4
<1>13. ReturnedBy(i)' \subseteq free'
    BY <1>7
<1>14. MInv'
    BY <1>1, <1>2, <1>4, <1>5, <1>6, <1>7, <1>8, <1>9, <1>10, <1>12, <1>13, TxKeeps
<1> QED BY <1>11, <1>14

\* pmb_tx_begin, the status: the log of slot 0 may still name blocks.
LEMMA BeginKeeps == ASSUME Steady, MInv, NEW i \in Slots, TxBegin(i) PROVE MInv' /\ Effect(i, {})
<1> DEFINE old == TheLog(i)
           log == IF old.is = "log" THEN [old EXCEPT !.status = "processing"]
                  ELSE Log("processing", {}, {})
<1>0. Up /\ tx[i] = "idle"
    BY DEF TxBegin
<1>1. /\ Placed(sb) /\ i \in Index(sb) /\ SlotPage(h, i) = Sp(sb, i) /\ old = mem[Sp(sb, i)]
      /\ mem \in [Pages -> PageSet] /\ Sp(sb, i) \in Pages
    BY <1>0, Running DEF Placed
<1>2. /\ UNCHANGED <<sb, h, thread, closing, free, disk, objs, safe>> /\ begun' \in Nat
      /\ tx' = [tx EXCEPT ![i] = "begun"] /\ mem' = [mem EXCEPT ![Sp(sb, i)] = log]
    BY <1>1 DEF TxBegin, WriteLog, MInv, CountsOK
<1>3. CASE old.is = "log"
    <2>1. old \in Logs
        BY <1>1, <1>3 DEF PageSet, Blank, Parts
    <2>2. old.puts \cup old.dels \subseteq Numbers(sb)
        BY <1>1, <1>3 DEF MInv, PagesOK
    <2>3. log = [old EXCEPT !.status = "processing"]
        BY <1>3
    <2>4. /\ log \in Logs /\ log.status = "processing"
          /\ log.puts \cup log.dels \subseteq Numbers(sb)
        BY <2>1, <2>2, <2>3 DEF Logs
    <2>5. i = 0
        BY <1>0, <1>1, <1>3 DEF MInv, TxOK, Up
    <2> HIDE DEF log
    <2> QED BY <1>0, <1>2, <2>4, <2>5, SetUpKeeps
<1>4. CASE old.is # "log"
    <2>1. log = Log("processing", {}, {})
        BY <1>4
    <2>2. log \in Logs /\ log.status = "processing" /\ log.puts = {} /\ log.dels = {}
        BY <2>1 DEF Log, Logs
    <2> HIDE DEF log
    <2> QED BY <1>0, <1>2, <2>2, SetUpKeeps
<1> QED BY <1>3, <1>4

\* pmb_tx_begin, the size: the log is empty.
LEMMA InitKeeps == ASSUME Steady, MInv, NEW i \in Slots, TxInit(i) PROVE MInv' /\ Effect(i, {})
<1> DEFINE log == Log("processing", {}, {})
<1>0. Up /\ tx[i] = "begun"
    BY DEF TxInit
<1>1. SlotPage(h, i) = Sp(sb, i)
    BY <1>0, Running
<1>2. /\ UNCHANGED <<sb, h, thread, closing, free, disk, objs, safe>> /\ begun' \in Nat
      /\ tx' = [tx EXCEPT ![i] = "open"] /\ mem' = [mem EXCEPT ![Sp(sb, i)] = log]
    BY <1>1 DEF TxInit, WriteLog, MInv, CountsOK
<1>3. log \in Logs /\ log.status = "processing" /\ log.puts = {} /\ log.dels = {}
    BY DEF Log, Logs
<1> HIDE DEF log
<1> QED BY <1>0, <1>2, <1>3, SetUpKeeps

\* What Named leaves out.
LEMMA NotNamed ==
    ASSUME Steady, MInv, Up, NEW id, id \notin Named
    PROVE  \A j \in Index(sb) : id \notin PutBy(j) /\ id \notin TakenBy(j)
<1>1. Slots = Index(sb)
    BY Mapped DEF MInv, Up
<1>2. \A j \in Index(sb) : tx[j] \notin {"idle", "begun"} =>
                                id \notin TheLog(j).puts /\ id \notin TheLog(j).dels
    BY <1>1 DEF Named
<1> QED BY <1>1, <1>2, Running DEF PutBy, TakenBy

\* pmb_tdel.
LEMMA DelKeeps == ASSUME Steady, MInv, NEW i \in Slots, NEW id \in Ids(h.map), TDel(i, id) PROVE MInv' /\ Effect(i, {})
<1> DEFINE old == TheLog(i)
           log == [old EXCEPT !.dels = @ \cup {id}]
<1>0. Up /\ tx[i] = "open" /\ id \notin Named /\ IsObject(h, mem, id)
    BY DEF TDel
<1>1. /\ Placed(sb) /\ i \in Index(sb) /\ SlotPage(h, i) = Sp(sb, i) /\ old = mem[Sp(sb, i)]
      /\ mem \in [Pages -> PageSet] /\ DOMAIN mem = Pages
      /\ tx \in [Index(sb) -> TxStates]
      /\ old \in Logs /\ old.is = "log" /\ old.status = "processing"
      /\ old.puts \subseteq Numbers(sb) /\ old.dels \subseteq Numbers(sb)
      /\ PutBy(i) = old.puts /\ TakenBy(i) = old.dels
    BY <1>0, Running
<1>2. /\ UNCHANGED <<sb, h, thread, closing, free, disk, objs, safe, begun, tx>>
      /\ mem' = [mem EXCEPT ![Sp(sb, i)] = log]
    BY <1>1 DEF TDel, WriteLog
<1>3. id \in Numbers(sb) /\ id \in Nat /\ IsObject(Lay(sb), mem, id)
    BY <1>0, <1>1, Mapped, SameView DEF MInv, Up, Placed
<1>4. /\ log \in Logs /\ log.is = "log" /\ log.status = "processing"
      /\ log.puts = old.puts /\ log.dels = old.dels \cup {id}
    BY <1>1, <1>3 DEF Logs
<1> HIDE DEF log, old
<1>5. /\ mem'[Sp(sb, i)] = log /\ \A j \in Index(sb) \ {i} : mem'[Sp(sb, j)] = mem[Sp(sb, j)]
      /\ \A jd \in Numbers(sb) : \A p \in PagesOf(Lay(sb), jd) : mem'[p] = mem[p]
      /\ mem' \in [Pages -> PageSet]
    <2>1. Writes(mem, mem', i, log)
        BY <1>1, <1>2, <1>4, SlotWrite DEF PageSet
    <2> QED BY <2>1 DEF Writes
<1>6. PagesOK(mem)'
    <2>1. \A p \in Pages : mem'[p] = mem[p] \/ mem'[p] = log
        BY <1>1, <1>2
    <2>2. log.status # "empty" /\ log.puts \cup log.dels \subseteq Numbers(sb)
        BY <1>1, <1>3, <1>4
    <2> QED BY <2>1, <2>2, <1>2, <1>5, SlotPagesOK DEF MInv
<1>7. PagesOK(disk)' /\ CountsOK'
    BY <1>2 DEF MInv, PagesOK, CountsOK
<1>8. tx' = [tx EXCEPT ![i] = "open"]
    BY <1>0, <1>1, <1>2
<1>9. PutBy(i)' = PutBy(i) /\ TakenBy(i)' = TakenBy(i) \cup {id}
    BY <1>0, <1>1, <1>2, <1>4, <1>5 DEF PutBy, TakenBy
<1>10. id \notin free /\ \A j \in Index(sb) : id \notin PutBy(j) /\ id \notin TakenBy(j)
    BY <1>0, <1>3, NotNamed, PutFacts
<1>11. /\ Disjoint(PutBy(i), free) /\ Disjoint(TakenBy(i) \cup {id}, free)
       /\ Disjoint(TakenBy(i) \cup {id}, PutBy(i))
       /\ \A j \in Index(sb) \ {i} :
            /\ Disjoint(PutBy(j), free) /\ Disjoint(TakenBy(j), free)
            /\ Disjoint(PutBy(i), PutBy(j)) /\ Disjoint(TakenBy(i) \cup {id}, PutBy(j))
            /\ Disjoint(TakenBy(j), PutBy(i)) /\ Disjoint(TakenBy(i) \cup {id}, TakenBy(j))
    BY <1>0, <1>1, <1>10, ApartFacts DEF Disjoint
<1>12. /\ \A j \in Index(sb) : \A jd \in PutBy(j) :
             \E v \in Vals : Holds(Lay(sb), mem', jd, v, Some.key)
       /\ \A jd \in free' \cap Numbers(sb) : ~ IsObject(Lay(sb), mem', jd)
    BY <1>0, <1>2, <1>5, BlocksStay
<1>13. Effect(i, {})
    BY <1>1, <1>2, <1>5 DEF Effect
<1>14. /\ "open" \in TxStates
       /\ ReturnedBy(i)' \subseteq free' /\ \A j \in Index(sb) \ {i} : ReturnedBy(j) \subseteq free'
    BY <1>0, <1>1, <1>2, ApartFacts DEF ReturnedBy, TxStates
<1>15. MInv'
    BY <1>0, <1>14, <1>1, <1>2, <1>4, <1>5, <1>6, <1>7, <1>8, <1>9, <1>11, <1>12, TxKeeps
<1> QED BY <1>13, <1>15

\* A set of numbers that is not empty has a least one.
LEMMA LeastFree ==
    ASSUME NEW S \in SUBSET Nat, S # {}
    PROVE  (CHOOSE x \in S : \A y \in S : x <= y) \in S
<1>1. PICK x \in S : \A y \in S : ~ (<<y, x>> \in OpToRel(<, Nat))
    BY NatLessThanWellFounded, WFMin
<1>2. \A y \in S : ~ (y < x)
    BY <1>1, Zenon DEF OpToRel
<1>3. \E z \in S : \A y \in S : z <= y
    BY <1>2
<1> QED BY <1>3

\* pmb_tput of a new object.
LEMMA PutKeeps == ASSUME Steady, ~ Overlap, MInv, NEW i \in Slots, NEW v \in Vals, TPut(i, v) PROVE MInv' /\ Effect(i, free)
<1> DEFINE old == TheLog(i)
           id == CHOOSE x \in free : \A y \in free : x <= y
<1>0. Up /\ tx[i] = "open" /\ free # {}
    BY DEF TPut
<1>1. /\ Placed(sb) /\ i \in Index(sb) /\ SlotPage(h, i) = Sp(sb, i) /\ old = mem[Sp(sb, i)]
      /\ mem \in [Pages -> PageSet] /\ DOMAIN mem = Pages
      /\ tx \in [Index(sb) -> TxStates]
      /\ old \in Logs /\ old.is = "log" /\ old.status = "processing"
      /\ old.puts \subseteq Numbers(sb) /\ old.dels \subseteq Numbers(sb)
      /\ PutBy(i) = old.puts /\ TakenBy(i) = old.dels /\ free \subseteq Nat
    BY <1>0, Running
<1>2. id \in free
    BY <1>0, <1>1, LeastFree
<1>3. /\ UNCHANGED <<sb, h, thread, closing, disk, objs, safe, begun, tx>>
      /\ id \in Ids(h.map) /\ free' = free \ {id}
      /\ mem' = [p \in Pages |->
                    IF p = SlotPage(h, i) THEN [old EXCEPT !.puts = @ \cup {id}]
                    ELSE IF p \in PagesOf(h, id) THEN Part(v, h.o.key, p - FirstPage(h, id))
                    ELSE mem[p]]
    BY DEF TPut
<1> HIDE DEF id
<1>4. /\ id \in Numbers(sb) /\ id \in Nat /\ h.o.key = Some.key /\ Some.key \in Nat
      /\ PagesOf(h, id) = PagesOf(Lay(sb), id) /\ FirstPage(h, id) = FirstPage(Lay(sb), id)
    BY <1>0, <1>1, <1>3, Mapped, SameView, OptionFacts DEF MInv, Up, Placed
<1> DEFINE log == [old EXCEPT !.puts = @ \cup {id}]
           part(p) == Part(v, Some.key, p - FirstPage(Lay(sb), id))
<1>5. mem' = [p \in Pages |-> IF p = Sp(sb, i) THEN log
                               ELSE IF p \in PagesOf(Lay(sb), id) THEN part(p) ELSE mem[p]]
    BY <1>1, <1>3, <1>4
<1>6. /\ log \in Logs /\ log.is = "log" /\ log.status = "processing"
      /\ log.puts = old.puts \cup {id} /\ log.dels = old.dels
    BY <1>1, <1>4 DEF Logs
<1>7. \A p \in PagesOf(Lay(sb), id) : part(p) \in Parts /\ part(p).is = "object" /\ p \in Pages
    BY <1>1, <1>4 DEF Placed, Part, Parts
<1>8. \A p \in PagesOf(Lay(sb), id) : part(p) = Part(v, Some.key, p - FirstPage(Lay(sb), id))
    OBVIOUS
<1> HIDE DEF log, old, part
<1>9. /\ mem'[Sp(sb, i)] = log /\ \A j \in Index(sb) \ {i} : mem'[Sp(sb, j)] = mem[Sp(sb, j)]
      /\ \A jd \in Numbers(sb) \ {id} : \A p \in PagesOf(Lay(sb), jd) : mem'[p] = mem[p]
      /\ \A p \in PagesOf(Lay(sb), id) : mem'[p] = part(p)
    <2>1. Sp(sb, i) \in Pages /\ \A j \in Index(sb) \ {i} :
              Sp(sb, j) \in Pages /\ Sp(sb, j) # Sp(sb, i) /\ Sp(sb, j) \notin PagesOf(Lay(sb), id)
        BY <1>1, <1>4 DEF Placed
    <2>2. \A jd \in Numbers(sb) : \A p \in PagesOf(Lay(sb), jd) : p \in Pages /\ p # Sp(sb, i)
        BY <1>1 DEF Placed
    <2>3. \A jd \in Numbers(sb) \ {id} : \A p \in PagesOf(Lay(sb), jd) : p \notin PagesOf(Lay(sb), id)
        BY <1>1, <1>4 DEF Placed
    <2> QED BY <1>4, <1>5, <2>1, <2>2, <2>3
<1>10. mem' \in [Pages -> PageSet]
    BY <1>1, <1>5, <1>6, <1>7 DEF PageSet
<1>11. PagesOK(mem)'
    <2>1. \A p \in Pages : mem'[p].is = "log" => mem'[p] = mem[p] \/ mem'[p] = log
        BY <1>5, <1>7
    <2>2. log.status # "empty" /\ log.puts \cup log.dels \subseteq Numbers(sb)
        BY <1>1, <1>4, <1>6
    <2> QED BY <2>1, <2>2, <1>3, <1>10, SlotPagesOK DEF MInv
<1>12. PagesOK(disk)' /\ CountsOK'
    BY <1>3 DEF MInv, PagesOK, CountsOK
<1>13. tx' = [tx EXCEPT ![i] = "open"]
    BY <1>0, <1>1, <1>3
<1>14. PutBy(i)' = PutBy(i) \cup {id} /\ TakenBy(i)' = TakenBy(i)
    BY <1>0, <1>1, <1>3, <1>6, <1>9 DEF PutBy, TakenBy
<1>15. /\ Disjoint(PutBy(i) \cup {id}, free') /\ Disjoint(TakenBy(i), free')
       /\ Disjoint(TakenBy(i), PutBy(i) \cup {id})
       /\ \A j \in Index(sb) \ {i} :
            /\ Disjoint(PutBy(j), free') /\ Disjoint(TakenBy(j), free')
            /\ Disjoint(PutBy(i) \cup {id}, PutBy(j)) /\ Disjoint(TakenBy(i), PutBy(j))
            /\ Disjoint(TakenBy(j), PutBy(i) \cup {id}) /\ Disjoint(TakenBy(i), TakenBy(j))
    BY <1>0, <1>1, <1>2, <1>3, ApartFacts DEF Disjoint
<1>16. \A jd \in Numbers(sb) \ {id} :
          /\ IsObject(Lay(sb), mem', jd) <=> IsObject(Lay(sb), mem, jd)
          /\ \A u, key : Holds(Lay(sb), mem', jd, u, key) <=> Holds(Lay(sb), mem, jd, u, key)
    BY <1>1, <1>9, SameBlock
<1>17. Holds(Lay(sb), mem', id, v, Some.key)
    BY <1>8, <1>9 DEF Holds
<1>18. \A j \in Index(sb) : \A jd \in PutBy(j) :
            \E u \in Vals : Holds(Lay(sb), mem', jd, u, Some.key)
    BY <1>0, <1>16, <1>17, PutFacts
<1>19. \A jd \in free' \cap Numbers(sb) : ~ IsObject(Lay(sb), mem', jd)
    BY <1>0, <1>3, <1>16, PutFacts
<1>20. \A jd \in PutBy(i) \cup {id} : \E u \in Vals : Holds(Lay(sb), mem', jd, u, Some.key)
    BY <1>1, <1>17, <1>18
<1>21. PICK P : P = PutBy(i) \cup {id}
    OBVIOUS
<1>22. /\ mem'[Sp(sb, i)].is = "log"
       /\ mem'[Sp(sb, i)].status = "processing"
    BY <1>6, <1>9
<1>23. \A j \in Index(sb) \ {i} : mem'[Sp(sb, j)] = mem[Sp(sb, j)]
    BY <1>9
<1>24. Effect(i, free)
    BY <1>1, <1>2, <1>3, <1>9 DEF Effect
<1>25. /\ "open" \in TxStates
       /\ ReturnedBy(i)' \subseteq free' /\ \A j \in Index(sb) \ {i} : ReturnedBy(j) \subseteq free'
    <2>1. Slots = Index(sb) /\ \A j \in Slots : tx[j] # "undone"
        BY <1>0, Mapped DEF TPut, MInv, Up
    <2> QED BY <1>1, <1>3, <2>1 DEF ReturnedBy, TxStates
<1>26. MInv'
    BY <1>0, <1>25, <1>1, <1>3, <1>11, <1>12, <1>13, <1>14, <1>15, <1>18, <1>19, <1>20, <1>21, <1>22, <1>23, TxKeeps
<1> QED BY <1>24, <1>26

\* pmb_tx_commit.
LEMMA CommitKeeps == ASSUME Steady, MInv, NEW i \in Slots, TxCommit(i) PROVE MInv' /\ Effect(i, {})
<1> DEFINE old == TheLog(i)
           log == [old EXCEPT !.status = "committed"]
<1>0. Up /\ tx[i] = "open"
    BY DEF TxCommit
<1>1. /\ Placed(sb) /\ i \in Index(sb) /\ SlotPage(h, i) = Sp(sb, i) /\ old = mem[Sp(sb, i)]
      /\ mem \in [Pages -> PageSet] /\ disk \in [Pages -> PageSet] /\ DOMAIN mem = Pages
      /\ tx \in [Index(sb) -> TxStates]
      /\ old \in Logs /\ old.is = "log"
      /\ old.puts \subseteq Numbers(sb) /\ old.dels \subseteq Numbers(sb)
      /\ PutBy(i) = old.puts /\ TakenBy(i) = old.dels
    BY <1>0, Running
<1>2. /\ UNCHANGED <<sb, h, thread, closing, free, begun>>
      /\ tx' = [tx EXCEPT ![i] = "committed"]
      /\ mem' = [mem EXCEPT ![Sp(sb, i)] = log]
      /\ disk' = TxPersist(h, mem', {i})
      /\ DOMAIN objs' = DOMAIN objs \ old.dels /\ safe' = safe \ old.dels
    BY <1>1 DEF TxCommit, WriteLog, Drop
<1>3. /\ log \in Logs /\ log.is = "log" /\ log.status = "committed"
      /\ log.puts = old.puts /\ log.dels = old.dels
    BY <1>1 DEF Logs
<1> HIDE DEF log, old
<1>4. /\ mem'[Sp(sb, i)] = log /\ \A j \in Index(sb) \ {i} : mem'[Sp(sb, j)] = mem[Sp(sb, j)]
      /\ \A jd \in Numbers(sb) : \A p \in PagesOf(Lay(sb), jd) : mem'[p] = mem[p]
      /\ mem' \in [Pages -> PageSet]
    <2>1. Writes(mem, mem', i, log)
        BY <1>1, <1>2, <1>3, SlotWrite DEF PageSet
    <2> QED BY <2>1 DEF Writes
<1>5. PagesOK(mem)'
    <2>1. \A p \in Pages : mem'[p] = mem[p] \/ mem'[p] = log
        BY <1>1, <1>2
    <2>2. log.status # "empty" /\ log.puts \cup log.dels \subseteq Numbers(sb)
        BY <1>1, <1>3
    <2> QED BY <2>1, <2>2, <1>2, <1>4, SlotPagesOK DEF MInv
<1>6. PagesOK(disk)'
    BY <1>1, <1>2, <1>4, <1>5, Storing, DiskPagesOK DEF MInv
<1>7. CountsOK'
    BY <1>2 DEF MInv, CountsOK
<1>8. PutBy(i)' = PutBy(i) /\ TakenBy(i)' = TakenBy(i)
    BY <1>0, <1>1, <1>2, <1>3, <1>4 DEF PutBy, TakenBy
<1>9. /\ \A j \in Index(sb) : \A jd \in PutBy(j) :
             \E v \in Vals : Holds(Lay(sb), mem', jd, v, Some.key)
      /\ \A jd \in free' \cap Numbers(sb) : ~ IsObject(Lay(sb), mem', jd)
    BY <1>0, <1>2, <1>4, BlocksStay
<1>10. mem'[Sp(sb, i)].is = "log" /\ mem'[Sp(sb, i)].status # "processing"
    BY <1>3, <1>4
<1>11. PICK P, T : P = PutBy(i) /\ T = TakenBy(i)
    OBVIOUS
<1>12. Effect(i, {})
    BY <1>1, <1>2, <1>4, Storing DEF Effect
<1>13. /\ "committed" \in TxStates
       /\ ReturnedBy(i)' \subseteq free' /\ \A j \in Index(sb) \ {i} : ReturnedBy(j) \subseteq free'
    BY <1>0, <1>1, <1>2, ApartFacts DEF ReturnedBy, TxStates
<1>14. MInv'
    BY <1>0, <1>13, <1>1, <1>2, <1>4, <1>5, <1>6, <1>7, <1>8, <1>9, <1>10, <1>11, ApartFacts, TxKeeps
<1> QED BY <1>12, <1>14

\* Blocks that are zeroed, of no other transaction: they are objects no more.
LEMMA ZeroStays ==
    ASSUME Steady, MInv, Up, NEW ids \in SUBSET Numbers(sb),
           \A jd \in Numbers(sb) \ ids : \A p \in PagesOf(Lay(sb), jd) : mem'[p] = mem[p],
           \A jd \in ids : mem'[FirstPage(Lay(sb), jd)] = Blank
    PROVE  /\ \A j \in Index(sb) : Disjoint(ids, PutBy(j)) =>
                 \A jd \in PutBy(j) : \E v \in Vals : Holds(Lay(sb), mem', jd, v, Some.key)
           /\ \A jd \in (free \cup ids) \cap Numbers(sb) : ~ IsObject(Lay(sb), mem', jd)
<1>1. Placed(sb)
    BY Mapped DEF MInv, Up
<1>2. \A jd \in Numbers(sb) \ ids :
         /\ IsObject(Lay(sb), mem', jd) <=> IsObject(Lay(sb), mem, jd)
         /\ \A v, key : Holds(Lay(sb), mem', jd, v, key) <=> Holds(Lay(sb), mem, jd, v, key)
    BY <1>1, SameBlock
<1>3. \A jd \in ids : ~ IsObject(Lay(sb), mem', jd)
    BY BlankIsNone
<1> QED BY <1>2, <1>3, PutFacts DEF Disjoint

\* pmb_tx_execute, the removals.
LEMMA ZeroKeeps == ASSUME Steady, MInv, NEW i \in Slots, ExecZero(i) PROVE MInv' /\ Effect(i, TakenBy(i))
<1> DEFINE old == TheLog(i)
<1>0. Up /\ tx[i] = "committed"
    BY DEF ExecZero
<1>1. /\ Placed(sb) /\ i \in Index(sb) /\ SlotPage(h, i) = Sp(sb, i) /\ old = mem[Sp(sb, i)]
      /\ mem \in [Pages -> PageSet] /\ DOMAIN mem = Pages
      /\ tx \in [Index(sb) -> TxStates]
      /\ old \in Logs /\ old.is = "log" /\ old.status # "processing"
      /\ old.puts \subseteq Numbers(sb) /\ old.dels \subseteq Numbers(sb)
      /\ PutBy(i) = old.puts /\ TakenBy(i) = old.dels
    BY <1>0, Running
<1>2. /\ UNCHANGED <<sb, h, thread, closing, disk, objs, safe, begun>>
      /\ tx' = [tx EXCEPT ![i] = "zeroed"]
      /\ mem' = ZeroBlocks(Lay(sb), mem, old.dels) /\ free' = free \cup old.dels
    <2>1. h.sb = sb /\ h.map = Lay(sb).map
        BY <1>0, Mapped DEF MInv, Up
    <2>2. ZeroBlocks(h, mem, old.dels) = ZeroBlocks(Lay(sb), mem, old.dels)
        BY <2>1, SameView
    <2> QED BY <2>2 DEF ExecZero
<1> HIDE DEF old
<1>3. /\ \A p \in Pages : mem'[p] = mem[p] \/ mem'[p] = Blank
      /\ DOMAIN mem' = Pages
      /\ \A j \in Index(sb) : mem'[Sp(sb, j)] = mem[Sp(sb, j)]
      /\ \A jd \in Numbers(sb) \ old.dels : \A p \in PagesOf(Lay(sb), jd) : mem'[p] = mem[p]
      /\ \A jd \in old.dels : mem'[FirstPage(Lay(sb), jd)] = Blank
    <2>1. Zeroes(sb, mem, mem', old.dels)
        BY <1>1, <1>2, Zeroing
    <2> QED BY <2>1 DEF Zeroes
<1>4. mem' \in [Pages -> PageSet]
    <2>1. mem' = [p \in Pages |-> mem'[p]]
        BY <1>2 DEF ZeroBlocks
    <2> QED BY <1>1, <1>3, <2>1 DEF PageSet
<1>5. PagesOK(mem)'
    <2>1. Blank.is # "log"
        BY DEF Blank
    <2> QED BY <1>2, <1>3, <1>4, <2>1, SlotPagesOK DEF MInv
<1>6. PagesOK(disk)'
    BY <1>2 DEF MInv, PagesOK
<1>7. CountsOK'
    BY <1>1, <1>2 DEF MInv, CountsOK, Placed
<1>8. PutBy(i)' = PutBy(i) /\ TakenBy(i)' = {}
    BY <1>0, <1>1, <1>2, <1>3 DEF PutBy, TakenBy
<1>9. /\ Disjoint(PutBy(i), free') /\ Disjoint({}, free') /\ Disjoint({}, PutBy(i))
      /\ \A j \in Index(sb) \ {i} :
            /\ Disjoint(PutBy(j), free') /\ Disjoint(TakenBy(j), free')
            /\ Disjoint(PutBy(i), PutBy(j)) /\ Disjoint({}, PutBy(j))
            /\ Disjoint(TakenBy(j), PutBy(i)) /\ Disjoint({}, TakenBy(j))
    BY <1>0, <1>1, <1>2, ApartFacts DEF Disjoint
<1>10. \A j \in Index(sb) : Disjoint(old.dels, PutBy(j))
    BY <1>0, <1>1, ApartFacts
<1>11. /\ \A j \in Index(sb) : \A jd \in PutBy(j) :
             \E v \in Vals : Holds(Lay(sb), mem', jd, v, Some.key)
       /\ \A jd \in free' \cap Numbers(sb) : ~ IsObject(Lay(sb), mem', jd)
    BY <1>0, <1>1, <1>2, <1>3, <1>10, ZeroStays
<1>12. mem'[Sp(sb, i)].is = "log" /\ mem'[Sp(sb, i)].status # "processing"
    BY <1>1, <1>3
<1>13. PICK P : P = PutBy(i)
    OBVIOUS
<1>14. Effect(i, TakenBy(i))
    BY <1>1, <1>2, <1>3 DEF Effect
<1>15. /\ "zeroed" \in TxStates
       /\ ReturnedBy(i)' \subseteq free' /\ \A j \in Index(sb) \ {i} : ReturnedBy(j) \subseteq free'
    BY <1>0, <1>1, <1>2, ApartFacts DEF ReturnedBy, TxStates
<1>16. MInv'
    BY <1>0, <1>15, <1>1, <1>2, <1>3, <1>5, <1>6, <1>7, <1>8, <1>9, <1>11, <1>12, <1>13, TxKeeps
<1> QED BY <1>14, <1>16

\* A slot is emptied.
LEMMA EmptyKeeps ==
    ASSUME Steady, MInv, Up, NEW i \in Slots, tx[i] # "idle", tx' = [tx EXCEPT ![i] = "idle"],
           WriteLog(i, Blank), disk' = TxPersist(h, mem', {i}),
           UNCHANGED <<sb, h, thread, closing, free, begun>>, safe' \subseteq DOMAIN objs'
    PROVE  MInv' /\ Effect(i, {})
<1>1. /\ Placed(sb) /\ i \in Index(sb) /\ SlotPage(h, i) = Sp(sb, i)
      /\ mem \in [Pages -> PageSet] /\ disk \in [Pages -> PageSet] /\ DOMAIN mem = Pages
      /\ tx \in [Index(sb) -> TxStates]
    BY Running
<1>2. mem' = [mem EXCEPT ![Sp(sb, i)] = Blank]
    BY <1>1 DEF WriteLog
<1>3. Blank \in PageSet /\ Blank.is # "log"
    BY DEF PageSet, Blank
<1>4. /\ mem'[Sp(sb, i)] = Blank /\ \A j \in Index(sb) \ {i} : mem'[Sp(sb, j)] = mem[Sp(sb, j)]
      /\ \A jd \in Numbers(sb) : \A p \in PagesOf(Lay(sb), jd) : mem'[p] = mem[p]
      /\ mem' \in [Pages -> PageSet]
    <2>1. Writes(mem, mem', i, Blank)
        BY <1>1, <1>2, <1>3, SlotWrite DEF PageSet
    <2> QED BY <2>1 DEF Writes
<1>5. PagesOK(mem)'
    <2>1. \A p \in Pages : mem'[p] = mem[p] \/ mem'[p] = Blank
        BY <1>1, <1>2
    <2> QED BY <2>1, <1>3, <1>4, SlotPagesOK DEF MInv
<1>6. PagesOK(disk)'
    BY <1>1, <1>4, <1>5, Storing, DiskPagesOK DEF MInv
<1>7. CountsOK'
    BY DEF MInv, CountsOK
<1>8. PutBy(i)' = {} /\ TakenBy(i)' = {} /\ ReturnedBy(i)' = {}
    BY <1>1 DEF PutBy, TakenBy, ReturnedBy
<1>9. /\ \A j \in Index(sb) : \A jd \in PutBy(j) :
             \E v \in Vals : Holds(Lay(sb), mem', jd, v, Some.key)
      /\ \A jd \in free' \cap Numbers(sb) : ~ IsObject(Lay(sb), mem', jd)
    BY <1>4, BlocksStay
<1>10. \A S : Disjoint({}, S) /\ Disjoint(S, {})
    BY DEF Disjoint
<1>11. \A j \in Index(sb) \ {i} : /\ Disjoint(PutBy(j), free') /\ Disjoint(TakenBy(j), free')
                                  /\ ReturnedBy(j) \subseteq free'
    BY <1>1, ApartFacts
<1>12. Effect(i, {})
    BY <1>1, <1>4, Storing DEF Effect
<1>13. "idle" \in TxStates /\ ReturnedBy(i)' \subseteq free'
    BY <1>8 DEF TxStates
<1>14. MInv'
    BY <1>1, <1>3, <1>4, <1>5, <1>6, <1>7, <1>8, <1>9, <1>10, <1>11, <1>13, TxKeeps
<1> QED BY <1>12, <1>14

\* pmb_tx_execute, the end.
LEMMA EndKeeps == ASSUME Steady, ~ Torn, MInv, NEW i \in Slots, ExecEnd(i) PROVE MInv' /\ Effect(i, {})
<1>1. /\ Up /\ tx[i] # "idle" /\ tx' = [tx EXCEPT ![i] = "idle"]
      /\ WriteLog(i, Blank) /\ disk' = TxPersist(h, mem', {i})
      /\ UNCHANGED <<sb, h, thread, closing, free, begun>>
    BY DEF ExecEnd, Zeroed
<1>2. safe' \subseteq DOMAIN objs'
    <2>1. DOMAIN objs' = DOMAIN objs \cup TheLog(i).puts /\ safe \subseteq DOMAIN objs
        BY DEF ExecEnd, MInv, CountsOK
    <2>2. safe' = safe \/ safe' = safe \cup NowSafe(objs', disk')
        BY DEF ExecEnd
    <2>3. NowSafe(objs', disk') \subseteq DOMAIN objs'
        BY DEF NowSafe
    <2> QED BY <2>1, <2>2, <2>3
<1> QED BY <1>1, <1>2, EmptyKeeps

\* pmb_tx_abort, the mark.
LEMMA AbortKeeps == ASSUME Steady, MInv, NEW i \in Slots, TxAbort(i) PROVE MInv' /\ Effect(i, {})
<1> DEFINE old == TheLog(i)
           log == [old EXCEPT !.status = "aborted"]
<1>0. Up /\ tx[i] \in {"open", "committed"}
    BY DEF TxAbort
<1>1. /\ Placed(sb) /\ i \in Index(sb) /\ SlotPage(h, i) = Sp(sb, i) /\ old = mem[Sp(sb, i)]
      /\ mem \in [Pages -> PageSet] /\ disk \in [Pages -> PageSet] /\ DOMAIN mem = Pages
      /\ tx \in [Index(sb) -> TxStates]
      /\ old \in Logs /\ old.is = "log"
      /\ old.puts \subseteq Numbers(sb) /\ old.dels \subseteq Numbers(sb)
      /\ PutBy(i) = old.puts
    BY <1>0, Running
<1>2. /\ UNCHANGED <<sb, h, thread, closing, free, objs, safe, begun>>
      /\ tx' = [tx EXCEPT ![i] = "aborted"]
      /\ mem' = [mem EXCEPT ![Sp(sb, i)] = log]
      /\ disk' = TxPersist(h, mem', {i})
    BY <1>1 DEF TxAbort, WriteLog
<1>3. /\ log \in Logs /\ log.is = "log" /\ log.status = "aborted"
      /\ log.puts = old.puts /\ log.dels = old.dels
    BY <1>1 DEF Logs
<1> HIDE DEF log, old
<1>4. /\ mem'[Sp(sb, i)] = log /\ \A j \in Index(sb) \ {i} : mem'[Sp(sb, j)] = mem[Sp(sb, j)]
      /\ \A jd \in Numbers(sb) : \A p \in PagesOf(Lay(sb), jd) : mem'[p] = mem[p]
      /\ mem' \in [Pages -> PageSet]
    <2>1. Writes(mem, mem', i, log)
        BY <1>1, <1>2, <1>3, SlotWrite DEF PageSet
    <2> QED BY <2>1 DEF Writes
<1>5. PagesOK(mem)'
    <2>1. \A p \in Pages : mem'[p] = mem[p] \/ mem'[p] = log
        BY <1>1, <1>2
    <2>2. log.status # "empty" /\ log.puts \cup log.dels \subseteq Numbers(sb)
        BY <1>1, <1>3
    <2> QED BY <2>1, <2>2, <1>2, <1>4, SlotPagesOK DEF MInv
<1>6. PagesOK(disk)'
    BY <1>1, <1>2, <1>4, <1>5, Storing, DiskPagesOK DEF MInv
<1>7. CountsOK'
    BY <1>2 DEF MInv, CountsOK
<1>8. PutBy(i)' = PutBy(i) /\ TakenBy(i)' = {} /\ ReturnedBy(i)' = {}
    BY <1>0, <1>1, <1>2, <1>3, <1>4 DEF PutBy, TakenBy, ReturnedBy
<1>9. /\ \A j \in Index(sb) : \A jd \in PutBy(j) :
             \E v \in Vals : Holds(Lay(sb), mem', jd, v, Some.key)
      /\ \A jd \in free' \cap Numbers(sb) : ~ IsObject(Lay(sb), mem', jd)
    BY <1>0, <1>2, <1>4, BlocksStay
<1>10. mem'[Sp(sb, i)].is = "log" /\ mem'[Sp(sb, i)].status # "processing"
    BY <1>3, <1>4
<1>11. PICK P : P = PutBy(i)
    OBVIOUS
<1>12. Effect(i, {})
    BY <1>1, <1>2, <1>4, Storing DEF Effect
<1>13. /\ "aborted" \in TxStates
       /\ ReturnedBy(i)' \subseteq free' /\ \A j \in Index(sb) \ {i} : ReturnedBy(j) \subseteq free'
    BY <1>0, <1>1, <1>2, <1>8, ApartFacts DEF TxStates
<1>14. \A S : Disjoint({}, S) /\ Disjoint(S, {})
    BY DEF Disjoint
<1>15. MInv'
    BY <1>0, <1>1, <1>2, <1>4, <1>5, <1>6, <1>7, <1>8, <1>9, <1>10, <1>11, <1>13, <1>14, ApartFacts, TxKeeps
<1> QED BY <1>12, <1>15

\* pmb_tx_abort, the blocks: they are free again, and still in the log.
LEMMA UndoKeeps == ASSUME Steady, MInv, NEW i \in Slots, AbortZero(i) PROVE MInv' /\ Effect(i, PutBy(i))
<1> DEFINE old == TheLog(i)
<1>0. Up /\ tx[i] = "aborted"
    BY DEF AbortZero
<1>1. /\ Placed(sb) /\ i \in Index(sb) /\ SlotPage(h, i) = Sp(sb, i) /\ old = mem[Sp(sb, i)]
      /\ mem \in [Pages -> PageSet] /\ DOMAIN mem = Pages
      /\ tx \in [Index(sb) -> TxStates]
      /\ old \in Logs /\ old.is = "log" /\ old.status # "processing"
      /\ old.puts \subseteq Numbers(sb) /\ PutBy(i) = old.puts
    BY <1>0, Running
<1>2. /\ UNCHANGED <<sb, h, thread, closing, disk, objs, safe, begun>>
      /\ tx' = [tx EXCEPT ![i] = "undone"]
      /\ mem' = ZeroBlocks(Lay(sb), mem, old.puts) /\ free' = free \cup old.puts
    <2>1. h.sb = sb /\ h.map = Lay(sb).map
        BY <1>0, Mapped DEF MInv, Up
    <2>2. ZeroBlocks(h, mem, old.puts) = ZeroBlocks(Lay(sb), mem, old.puts)
        BY <2>1, SameView
    <2> QED BY <2>2 DEF AbortZero
<1> HIDE DEF old
<1>3. /\ \A p \in Pages : mem'[p] = mem[p] \/ mem'[p] = Blank
      /\ DOMAIN mem' = Pages
      /\ \A j \in Index(sb) : mem'[Sp(sb, j)] = mem[Sp(sb, j)]
      /\ \A jd \in Numbers(sb) \ old.puts : \A p \in PagesOf(Lay(sb), jd) : mem'[p] = mem[p]
      /\ \A jd \in old.puts : mem'[FirstPage(Lay(sb), jd)] = Blank
    <2>1. Zeroes(sb, mem, mem', old.puts)
        BY <1>1, <1>2, Zeroing
    <2> QED BY <2>1 DEF Zeroes
<1>4. mem' \in [Pages -> PageSet]
    <2>1. mem' = [p \in Pages |-> mem'[p]]
        BY <1>2 DEF ZeroBlocks
    <2> QED BY <1>1, <1>3, <2>1 DEF PageSet
<1>5. PagesOK(mem)'
    <2>1. Blank.is # "log"
        BY DEF Blank
    <2> QED BY <1>2, <1>3, <1>4, <2>1, SlotPagesOK DEF MInv
<1>6. PagesOK(disk)'
    BY <1>2 DEF MInv, PagesOK
<1>7. CountsOK'
    BY <1>1, <1>2 DEF MInv, CountsOK, Placed
<1>8. PutBy(i)' = {} /\ TakenBy(i)' = {} /\ ReturnedBy(i)' = old.puts
    BY <1>0, <1>1, <1>2, <1>3 DEF PutBy, TakenBy, ReturnedBy
<1>9. /\ \A j \in Index(sb) \ {i} :
            /\ Disjoint(PutBy(j), free') /\ Disjoint(TakenBy(j), free')
            /\ ReturnedBy(j) \subseteq free'
      /\ \A j \in Index(sb) \ {i} : Disjoint(old.puts, PutBy(j))
    BY <1>0, <1>1, <1>2, ApartFacts DEF Disjoint
<1>10. \A S : Disjoint({}, S) /\ Disjoint(S, {})
    BY DEF Disjoint
<1>11. /\ \A j \in Index(sb) \ {i} : \A jd \in PutBy(j) :
             \E v \in Vals : Holds(Lay(sb), mem', jd, v, Some.key)
       /\ \A jd \in free' \cap Numbers(sb) : ~ IsObject(Lay(sb), mem', jd)
    BY <1>0, <1>1, <1>2, <1>3, <1>9, ZeroStays
<1>12. mem'[Sp(sb, i)].is = "log" /\ mem'[Sp(sb, i)].status # "processing"
    BY <1>1, <1>3
<1>13. "undone" \in TxStates /\ ReturnedBy(i)' \subseteq free'
    BY <1>2, <1>8 DEF TxStates
<1>14. Effect(i, PutBy(i))
    BY <1>1, <1>2, <1>3 DEF Effect
<1>15. MInv'
    BY <1>0, <1>1, <1>2, <1>3, <1>5, <1>6, <1>7, <1>8, <1>9, <1>10, <1>11, <1>12, <1>13, TxKeeps
<1> QED BY <1>14, <1>15

\* pmb_tx_abort, the end.
LEMMA AbortEndKeeps == ASSUME Steady, MInv, NEW i \in Slots, AbortEnd(i) PROVE MInv' /\ Effect(i, {})
<1>1. /\ Up /\ tx[i] # "idle" /\ tx' = [tx EXCEPT ![i] = "idle"]
      /\ WriteLog(i, Blank) /\ disk' = TxPersist(h, mem', {i})
      /\ UNCHANGED <<sb, h, thread, closing, free, begun>> /\ safe' \subseteq DOMAIN objs'
    BY DEF AbortEnd, MInv, CountsOK
<1> QED BY <1>1, EmptyKeeps

-----------------------------------------------------------------------------
(* Opening, closing, synchronising and power failures keep it too. *)

\* A pool that nobody uses: no slot has put or taken anything.
LEMMA IdleKeeps ==
    ASSUME HandleOK', ThreadOK', PagesOK(mem)', PagesOK(disk)', CountsOK',
           h' # None => /\ tx' = [i \in Index(sb') |-> "idle"]
                        /\ \A i \in Index(sb') : i # 0 => mem'[Sp(sb', i)].is # "log"
                        /\ \A id \in free' \cap Numbers(sb') : ~ IsObject(Lay(sb'), mem', id)
    PROVE  MInv'
<1>1. h' # None => \A i \in Index(sb') : /\ PutBy(i)' = {} /\ TakenBy(i)' = {}
                                              /\ ReturnedBy(i)' = {}
    BY DEF PutBy, TakenBy, ReturnedBy
<1>2. TxOK'
    BY DEF TxOK, TxStates
<1>3. Apart' /\ Written'
    BY <1>1 DEF Apart, Written
<1> QED BY <1>2, <1>3 DEF MInv

\* The thread's part of the invariant is kept by every step.
LEMMA ThreadKeeps == ASSUME MInv, [Next]_vars PROVE ThreadOK'
<1>1. ThreadInv
    BY DEF MInv, HandleOK, ThreadInv
<1> QED BY <1>1, ThreadStep DEF ThreadInv

\* pmb_open of a new pool.
LEMMA CreateKeeps == ASSUME Steady, MInv, NEW o \in Opts, Create(o), Next PROVE MInv'
<1>1. /\ sb = None /\ sb' = Superblock(o) /\ h' = Handle(o, Superblock(o))
      /\ tx' = [i \in 0 .. o.entries - 1 |-> "idle"]
      /\ free' = 1 .. Map(Superblock(o), o).data_nlba
      /\ UNCHANGED <<mem, disk, objs, safe, begun>>
    BY HandleNotNone DEF Create, Attach
<1>2. Placed(sb') /\ sb' # None /\ Index(sb') = 0 .. o.entries - 1
    BY <1>1, Places, HandleNotNone, OptionFacts DEF Index
<1>3. mem' = [p \in Pages |-> Blank] /\ disk' = mem'
    BY <1>1 DEF MInv, HandleOK
<1>4. HandleOK'
    BY <1>1, <1>2, HandleNotNone DEF HandleOK
<1>5. Blank.is # "log" /\ Blank \in PageSet
    BY DEF Blank, PageSet
<1>6. PagesOK(mem)' /\ PagesOK(disk)'
    BY <1>3, <1>5 DEF PagesOK
<1>7. CountsOK'
    <2>1. Map(Superblock(o), o).data_nlba \in Nat
        BY WholePages, Regions
    <2> QED BY <1>1, <2>1 DEF MInv, CountsOK
<1>8. \A i \in Index(sb') : mem'[Sp(sb', i)].is # "log"
    BY <1>2, <1>3, <1>5 DEF Placed
<1>9. \A id \in Numbers(sb') : ~ IsObject(Lay(sb'), mem', id)
    <2>1. \A id \in Numbers(sb') : mem'[FirstPage(Lay(sb'), id)] = Blank
        BY <1>2, <1>3 DEF Placed
    <2> QED BY <2>1, BlankIsNone
<1>10. ThreadOK'
    BY ThreadKeeps
<1> QED BY <1>1, <1>2, <1>4, <1>6, <1>7, <1>8, <1>9, <1>10, IdleKeeps

\* The slots that recovery looks into are those with a log, but for the first.
LEMMA Checks ==
    ASSUME Steady, Placed(sb), PagesOK(mem), NEW o \in Opts
    PROVE  Checked(Handle(o, sb)) = {i \in Index(sb) \ {0} : mem[Sp(sb, i)].is = "log"}
<1>1. PICK q \in Opts : sb = Superblock(q)
    BY DEF Placed
<1>2. /\ sb.tx_slots_count = o.entries /\ o.entries \in Nat
      /\ Handle(o, sb).o = o /\ Handle(o, sb).sb = sb /\ Handle(o, sb).map = Lay(sb).map
    BY <1>1, SameMap, OptionFacts DEF Handle
<1>3. \A i : SlotPage(Handle(o, sb), i) = Sp(sb, i)
    BY <1>2, SameView
<1>4. \A i \in 1 .. o.entries : tx_direct(sb, Lay(sb).map, i) # Null <=> i \in Index(sb)
    BY <1>2 DEF Placed, Index, tx_direct
<1>5. Index(sb) \ {0} = {i \in 1 .. o.entries : i \in Index(sb)}
    BY <1>2 DEF Index
<1>6. \A i \in Index(sb) : mem[Sp(sb, i)].is = "log" => mem[Sp(sb, i)].status # "empty"
    BY DEF PagesOK, Placed
<1> QED BY <1>2, <1>3, <1>4, <1>5, <1>6 DEF Checked

\* The numbers that recovery undoes.
Undone == UNION {mem[Sp(sb, i)].puts : i \in {j \in Index(sb) \ {0} : mem[Sp(sb, j)].is = "log"}}

\* What pmb_open of an existing pool does, page by page.
LEMMA Reopening ==
    ASSUME Steady, MInv, NEW o \in Opts, Reopen(o)
    PROVE  /\ Placed(sb) /\ sb # None /\ UNCHANGED <<sb, objs, safe, begun>>
           /\ h = None /\ h' = Handle(o, sb) /\ h' # None /\ tx' = [i \in Index(sb) |-> "idle"]
           /\ mem' \in [Pages -> PageSet] /\ disk' \in [Pages -> PageSet]
           /\ \A p \in Pages : mem'[p] \in {mem[p], Blank} /\ disk'[p] \in {mem'[p], disk[p]}
           /\ \A i \in Index(sb) \ {0} : mem'[Sp(sb, i)].is # "log"
           /\ \A id \in Numbers(sb) \ Undone : \A p \in PagesOf(Lay(sb), id) : mem'[p] = mem[p]
           /\ free' = {id \in Numbers(sb) : ~ IsObject(Lay(sb), mem', id)}
<1> DEFINE g == Handle(o, sb)
           C == {i \in Index(sb) \ {0} : mem[Sp(sb, i)].is = "log"}
           w == ZeroBlocks(Lay(sb), mem, Undone)
<1>1. sb # None /\ h = None
    BY DEF Reopen
<1>2. PICK q \in Opts : sb = Superblock(q)
    BY <1>1 DEF MInv, HandleOK
<1>3. Placed(sb)
    BY <1>2, Places
<1>4. /\ g.sb = sb /\ g.map = Lay(sb).map /\ g.o = o /\ g # None
      /\ Index(sb) = 0 .. o.entries - 1
    BY <1>2, SameMap, OptionFacts, HandleNotNone DEF Handle, Index
<1>5. Checked(g) = C
    BY <1>3, Checks DEF MInv
<1>6. /\ \A i : SlotPage(g, i) = Sp(sb, i)
      /\ \A m, ids : ZeroBlocks(g, m, ids) = ZeroBlocks(Lay(sb), m, ids)
      /\ \A m, id : IsObject(g, m, id) = IsObject(Lay(sb), m, id)
    BY <1>4, SameView
<1>7. Ids(g.map) = Numbers(sb)
    BY <1>4 DEF Numbers
<1> HIDE DEF g
<1>8. UNION {mem[SlotPage(g, i)].puts : i \in Checked(g)} = Undone
    BY <1>5, <1>6 DEF Undone
<1>9. /\ h' = g /\ tx' = [i \in 0 .. g.o.entries - 1 |-> "idle"] /\ UNCHANGED <<sb, objs, safe, begun>>
      /\ mem' = [p \in Pages |-> IF \E i \in Checked(g) : p = SlotPage(g, i) THEN Blank
                                 ELSE ZeroBlocks(g, mem, UNION {mem[SlotPage(g, i)].puts : i \in Checked(g)})[p]]
      /\ disk' = TxPersist(g, mem', Checked(g))
      /\ free' = {id \in Ids(g.map) : ~ IsObject(g, mem', id)}
    BY DEF Reopen, Attach, g
<1>10. mem' = [p \in Pages |-> IF \E i \in C : p = Sp(sb, i) THEN Blank ELSE w[p]]
    <2>1. ZeroBlocks(g, mem, UNION {mem[SlotPage(g, i)].puts : i \in Checked(g)}) = w
        BY <1>6, <1>8
    <2> QED BY <1>5, <1>6, <1>9, <2>1
<1>11. free' = {id \in Numbers(sb) : ~ IsObject(Lay(sb), mem', id)}
    BY <1>6, <1>7, <1>9
<1>12. Undone \in SUBSET Numbers(sb)
    BY <1>3 DEF Undone, MInv, PagesOK, Placed
<1>13. Zeroes(sb, mem, w, Undone)
    BY <1>3, <1>12, Zeroing
<1> HIDE DEF w
<1>14. mem \in [Pages -> PageSet] /\ disk \in [Pages -> PageSet] /\ Blank \in PageSet /\ Blank.is # "log"
    BY DEF MInv, PagesOK, PageSet, Blank
<1>15. \A p \in Pages : mem'[p] \in {mem[p], Blank}
    BY <1>10, <1>13 DEF Zeroes
<1>16. mem' \in [Pages -> PageSet]
    BY <1>10, <1>14, <1>15
<1>17. disk' \in [Pages -> PageSet] /\ \A p \in Pages : disk'[p] \in {mem'[p], disk[p]}
    BY <1>9, <1>14, <1>16, Storing
<1>18. \A i \in Index(sb) \ {0} : mem'[Sp(sb, i)].is # "log"
    <2>1. \A i \in Index(sb) : Sp(sb, i) \in Pages
        BY <1>3 DEF Placed
    <2>2. \A i \in C : mem'[Sp(sb, i)] = Blank
        BY <1>10, <2>1
    <2>3. \A i \in (Index(sb) \ {0}) \ C : mem[Sp(sb, i)].is # "log"
        OBVIOUS
    <2> HIDE DEF C
    <2>4. \A i \in (Index(sb) \ {0}) \ C : mem'[Sp(sb, i)] \in {mem[Sp(sb, i)], Blank}
        BY <1>15, <2>1
    <2> QED BY <1>14, <2>2, <2>3, <2>4
<1>19. \A id \in Numbers(sb) \ Undone : \A p \in PagesOf(Lay(sb), id) : mem'[p] = mem[p]
    <2>1. \A id \in Numbers(sb) : \A p \in PagesOf(Lay(sb), id) : p \in Pages /\ \A i \in C : p # Sp(sb, i)
        BY <1>3 DEF Placed
    <2>2. \A id \in Numbers(sb) \ Undone : \A p \in PagesOf(Lay(sb), id) : w[p] = mem[p]
        BY <1>13 DEF Zeroes
    <2> HIDE DEF C
    <2> QED BY <1>10, <2>1, <2>2
<1> QED BY <1>1, <1>3, <1>4, <1>9, <1>11, <1>15, <1>16, <1>17, <1>18, <1>19 DEF g

\* pmb_open of an existing pool.
LEMMA ReopenKeeps == ASSUME Steady, MInv, NEW o \in Opts, Reopen(o), Next PROVE MInv'
<1>1. /\ Placed(sb) /\ sb # None /\ UNCHANGED <<sb, objs, safe, begun>>
      /\ h' = Handle(o, sb) /\ h' # None /\ tx' = [i \in Index(sb) |-> "idle"]
      /\ mem' \in [Pages -> PageSet] /\ disk' \in [Pages -> PageSet]
      /\ \A p \in Pages : mem'[p] \in {mem[p], Blank} /\ disk'[p] \in {mem'[p], disk[p]}
      /\ \A i \in Index(sb) \ {0} : mem'[Sp(sb, i)].is # "log"
      /\ free' = {id \in Numbers(sb) : ~ IsObject(Lay(sb), mem', id)}
    BY Reopening
<1>2. HandleOK' /\ CountsOK'
    BY <1>1 DEF MInv, HandleOK, CountsOK, Placed
<1>3. PagesOK(mem)'
    <2>1. Blank.is # "log"
        BY DEF Blank
    <2> QED BY <1>1, <2>1, SlotPagesOK DEF MInv
<1>4. PagesOK(disk)'
    BY <1>1, <1>3, DiskPagesOK DEF MInv
<1>5. ThreadOK'
    BY ThreadKeeps
<1>6. \A id \in free' \cap Numbers(sb) : ~ IsObject(Lay(sb), mem', id)
    BY <1>1
<1> QED BY <1>1, <1>2, <1>3, <1>4, <1>5, <1>6, IdleKeeps

\* Steps of the thread and of pmb_close that leave slots, lists and pages.
LEMMA QuietKeeps ==
    ASSUME MInv, Next, UNCHANGED <<sb, h, tx, free, mem, objs, begun>>, PagesOK(disk)',
           safe' \subseteq DOMAIN objs, sb = None => disk' = disk /\ safe' = safe
    PROVE  MInv'
<1>1. HandleOK' /\ CountsOK' /\ PagesOK(mem)'
    BY DEF MInv, HandleOK, CountsOK, PagesOK
<1>2. \A i : PutBy(i)' = PutBy(i) /\ TakenBy(i)' = TakenBy(i) /\ ReturnedBy(i)' = ReturnedBy(i)
    BY DEF PutBy, TakenBy, ReturnedBy
<1>3. TxOK' /\ Apart' /\ Written'
    BY <1>2 DEF MInv, TxOK, Apart, Written
<1>4. ThreadOK'
    BY ThreadKeeps
<1> QED BY <1>1, <1>3, <1>4 DEF MInv

\* The sync thread's backend_persist_all.
LEMMA PersistKeeps == ASSUME Steady, MInv, ThreadPersist, Next PROVE MInv'
<1>1. /\ UNCHANGED <<sb, h, tx, free, mem, objs, begun>> /\ safe' \subseteq DOMAIN objs
      /\ disk' = PersistAll(h, mem) /\ thread = "persist"
    BY DEF ThreadPersist, NowSafe, MInv, CountsOK
<1>2. sb # None
    BY <1>1 DEF MInv, HandleOK, ThreadOK
<1>3. mem \in [Pages -> PageSet] /\ disk \in [Pages -> PageSet]
    BY DEF MInv, PagesOK, PageSet
<1>4. disk' \in [Pages -> PageSet] /\ \A p \in Pages : disk'[p] \in {mem[p], disk[p]}
    BY <1>1, <1>3, Storing
<1>5. PagesOK(disk)'
    BY <1>1, <1>4 DEF MInv, PagesOK, PageSet
<1> QED BY <1>1, <1>2, <1>5, QuietKeeps

\* The last step of pmb_close.
LEMMA UnmapKeeps == ASSUME Steady, MInv, CloseUnmap, Next PROVE MInv'
<1>1. UNCHANGED <<sb, mem, disk, objs, safe, begun>> /\ h' = None /\ free' = {}
    BY DEF CloseUnmap
<1>2. HandleOK' /\ CountsOK' /\ PagesOK(mem)' /\ PagesOK(disk)'
    BY <1>1 DEF MInv, HandleOK, CountsOK, PagesOK
<1>3. ThreadOK'
    BY ThreadKeeps
<1> QED BY <1>1, <1>2, <1>3, IdleKeeps

\* A power failure leaves of every page the old or the new content.
LEMMA Failing ==
    ASSUME MInv, PowerFail
    PROVE  /\ UNCHANGED <<sb, safe, begun>> /\ h' = None /\ free' = {} /\ disk' = mem' /\ Up
           /\ mem' \in [Pages -> PageSet] /\ \A p \in Pages : mem'[p] \in {mem[p], disk[p]}
           /\ objs' = [id \in safe |-> objs[id]]
<1>1. mem \in [Pages -> PageSet] /\ disk \in [Pages -> PageSet]
    BY DEF MInv, PagesOK, PageSet
<1>2. PICK kept : mem' = [p \in Pages |-> IF p \in kept THEN mem[p] ELSE disk[p]]
    BY DEF PowerFail
<1>3. mem' \in [Pages -> PageSet] /\ \A p \in Pages : mem'[p] \in {mem[p], disk[p]}
    BY <1>1, <1>2
<1> QED BY <1>3 DEF PowerFail

\* Power fails.
LEMMA PowerKeeps == ASSUME Steady, MInv, PowerFail, Next PROVE MInv'
<1>1. /\ UNCHANGED <<sb, safe, begun>> /\ h' = None /\ free' = {} /\ disk' = mem' /\ Up
      /\ mem' \in [Pages -> PageSet] /\ \A p \in Pages : mem'[p] \in {mem[p], disk[p]}
      /\ objs' = [id \in safe |-> objs[id]]
    BY Failing
<1>2. HandleOK' /\ CountsOK'
    BY <1>1 DEF MInv, HandleOK, CountsOK, Up
<1>3. PagesOK(mem)' /\ PagesOK(disk)'
    BY <1>1 DEF MInv, PagesOK, PageSet
<1>4. ThreadOK'
    BY ThreadKeeps
<1> QED BY <1>1, <1>2, <1>3, <1>4, IdleKeeps

-----------------------------------------------------------------------------
(* The pool as the program sees it. *)

\* Every step keeps the invariant of what is mapped.
LEMMA MInvStep == ASSUME Steady, ~ Torn, ~ Overlap, MInv, [Next]_vars PROVE MInv'
<1>1. CASE UNCHANGED vars
    <2>1. UNCHANGED <<sb, h, tx, free, mem, disk, thread, closing, objs, safe, begun>>
        BY <1>1 DEF vars
    <2>2. ThreadOK'
        BY ThreadKeeps
    <2>3. \A i : PutBy(i)' = PutBy(i) /\ TakenBy(i)' = TakenBy(i) /\ ReturnedBy(i)' = ReturnedBy(i)
        BY <2>1 DEF PutBy, TakenBy, ReturnedBy
    <2>4. HandleOK' /\ PagesOK(mem)' /\ PagesOK(disk)' /\ TxOK' /\ CountsOK'
        BY <2>1 DEF MInv, HandleOK, PagesOK, TxOK, CountsOK
    <2>5. Apart' /\ Written'
        BY <2>1, <2>3 DEF MInv, Apart, Written
    <2> QED BY <2>2, <2>4, <2>5 DEF MInv
<1>2. CASE Next
    <2>1. ASSUME NEW o \in Opts, Create(o) \/ Reopen(o) PROVE MInv'
        BY <1>2, <2>1, CreateKeeps, ReopenKeeps
    <2>2. CASE TxActions
        BY <2>2, BeginKeeps, InitKeeps, PutKeeps, DelKeeps, CommitKeeps, ZeroKeeps, EndKeeps,
           AbortKeeps, UndoKeeps, AbortEndKeeps DEF TxActions
    <2>3. CASE ThreadWake \/ ThreadCancelled \/ Close \/ CloseJoin
        <3>1. UNCHANGED <<sb, h, tx, free, mem, disk, objs, safe, begun>>
            BY <2>3 DEF ThreadWake, ThreadCancelled, Close, CloseJoin
        <3>2. PagesOK(disk)' /\ safe' \subseteq DOMAIN objs
            BY <3>1 DEF MInv, PagesOK, CountsOK
        <3> QED BY <1>2, <3>1, <3>2, QuietKeeps
    <2>4. CASE ThreadPersist
        BY <1>2, <2>4, PersistKeeps
    <2>5. CASE CloseUnmap
        BY <1>2, <2>5, UnmapKeeps
    <2>6. CASE PowerFail
        BY <1>2, <2>6, PowerKeeps
    <2> QED BY <1>2, <2>1, <2>2, <2>3, <2>4, <2>5, <2>6, NextCases
<1> QED BY <1>1, <1>2

\* And so does the first state.
LEMMA MInvInit == Init => MInv
<1> SUFFICES ASSUME Init PROVE MInv
    OBVIOUS
<1>1. Blank.is # "log" /\ Blank \in PageSet
    BY DEF Blank, PageSet
<1>2. PagesOK(mem) /\ PagesOK(disk)
    BY <1>1 DEF Init, PagesOK
<1>3. HandleOK /\ ThreadOK /\ TxOK /\ Apart /\ Written
    BY DEF Init, HandleOK, ThreadOK, TxOK, Apart, Written
<1>4. CountsOK
    BY PowerAssumption DEF Init, CountsOK
<1> QED BY <1>2, <1>3, <1>4 DEF MInv

\* The slots of running transactions hold their logs, no two transactions
\* name a block, and what they have put is whole.  This is so as long as the pool
\* is opened with the lengths it was created with, no failure falls between
\* the stores of tx_slot_init, and nobody takes a block while the slot of an
\* abort that has returned it still names it.
THEOREM PoolInvariant == Steady /\ ~ Torn /\ ~ Overlap => (Spec => []MInv)
<1> SUFFICES ASSUME Steady, ~ Torn, ~ Overlap PROVE Spec => []MInv
    OBVIOUS
<1>1. MInv /\ [Next]_vars => MInv'
    BY MInvStep
<1> QED BY <1>1, MInvInit, PTL DEF Spec

\* Types, and no block lies over the slot of a running transaction, for any
\* sizes of file, slots and blocks, the same windows left out.
THEOREM PoolType == Steady /\ ~ Torn /\ ~ Overlap => (Spec => []TypeOK)
<1> SUFFICES ASSUME Steady, ~ Torn, ~ Overlap PROVE Spec => []TypeOK
    OBVIOUS
<1>1. MInv => TypeOK
    <2> SUFFICES ASSUME MInv PROVE TypeOK
        OBVIOUS
    <2>1. sb = None \/ sb \in {Superblock(o) : o \in Opts}
        BY DEF MInv, HandleOK
    <2>2. h = None \/ h \in {Handle(o, sb) : o \in Opts}
        BY DEF MInv, HandleOK
    <2>3. h # None => tx \in [Slots -> TxStates]
        BY Mapped DEF MInv, TxOK
    <2>4. \A i \in Slots : tx[i] # "idle" =>
             TheLog(i) \in Logs /\ (TheLog(i).status = "processing" <=> tx[i] \in {"begun", "open"})
        <3>1. ASSUME NEW i \in Slots, tx[i] # "idle" PROVE Up
            BY <3>1 DEF MInv, ThreadOK, Up, Slots
        <3> QED BY <3>1, Running
    <2>5. /\ free \subseteq Nat /\ safe \subseteq DOMAIN objs /\ begun \in Nat
          /\ thread \in {"none", "sleep", "persist"} /\ closing \in {"no", "join", "unmap"}
        BY DEF MInv, CountsOK, ThreadOK
    <2>6. /\ \A p \in Pages : mem[p] \in {Blank} \cup Logs \cup Parts
          /\ \A p \in Pages : disk[p] \in {Blank} \cup Logs \cup Parts
        BY DEF MInv, PagesOK
    <2> QED BY <2>1, <2>2, <2>3, <2>4, <2>5, <2>6 DEF TypeOK
<1>2. Spec => []MInv
    BY PoolInvariant
<1> QED BY <1>1, <1>2, PTL

-----------------------------------------------------------------------------
(* The log is stored before an execution. *)

Ahead ==
    Up /\ h.o.sync \in {SYNC, SELSYNC} =>
        \A i \in Index(sb) : tx[i] \in {"committed", "zeroed"} => disk[Sp(sb, i)] = mem[Sp(sb, i)]

\* The property in terms of the layout.
LEMMA AheadIs == ASSUME Steady, MInv PROVE LogAhead <=> Ahead
<1>1. CASE ~ Up
    BY <1>1 DEF LogAhead, Ahead
<1>2. CASE Up
    <2>1. Slots = Index(sb) /\ \A i : SlotPage(h, i) = Sp(sb, i)
        BY <1>2, Mapped, SameView DEF MInv, Up
    <2> QED BY <2>1 DEF LogAhead, Ahead, TheLog
<1> QED BY <1>1, <1>2

\* backend_tx_persist stores the slot, with either of the two sync types.
LEMMA SlotStored ==
    ASSUME Steady, Reach, MInv, Up, h.o.sync \in {SYNC, SELSYNC}, NEW i \in Index(sb), NEW m
    PROVE  TxPersist(h, m, {i})[Sp(sb, i)] = m[Sp(sb, i)]
<1>1. Placed(sb) /\ h.sb = sb /\ h.map = Lay(sb).map
    BY Mapped DEF MInv, Up
<1>2. Sp(sb, i) \in Pages /\ Reached(sb, Sp(sb, i)) /\ SlotPage(h, i) = Sp(sb, i)
    BY <1>1, SameView DEF Placed
<1>3. CASE h.o.sync = SYNC
    <2>1. PersistAll(h, m)[Sp(sb, i)] = m[Sp(sb, i)]
        BY <1>1, <1>2 DEF PersistAll, Reached
    <2> QED BY <1>3, <2>1 DEF TxPersist
<1>4. CASE h.o.sync = SELSYNC
    BY <1>2, <1>4 DEF TxPersist, SYNC, SELSYNC
<1> QED BY <1>3, <1>4

\* What a transaction's step has to show for it.
LEMMA TxAhead ==
    ASSUME Ahead, UNCHANGED <<sb, h, closing>>, NEW i \in Index(sb), NEW ids, Effect(i, ids), Placed(sb), Up,
           h.o.sync \in {SYNC, SELSYNC} /\ tx'[i] \in {"committed", "zeroed"} =>
               disk'[Sp(sb, i)] = mem'[Sp(sb, i)]
    PROVE  Ahead'
<1> SUFFICES ASSUME h.o.sync \in {SYNC, SELSYNC}, NEW j \in Index(sb), tx'[j] \in {"committed", "zeroed"}
             PROVE  disk'[Sp(sb, j)] = mem'[Sp(sb, j)]
    BY DEF Ahead, Up
<1>1. CASE j = i
    BY <1>1
<1>2. CASE j # i
    <2>1. Sp(sb, j) \in Pages
        BY DEF Placed
    <2>2. mem'[Sp(sb, j)] = mem[Sp(sb, j)] /\ tx'[j] = tx[j]
        BY <1>2 DEF Effect
    <2>3. disk'[Sp(sb, j)] \in {mem'[Sp(sb, j)], disk[Sp(sb, j)]}
        BY <2>1 DEF Effect
    <2>4. disk[Sp(sb, j)] = mem[Sp(sb, j)]
        BY <2>2 DEF Ahead
    <2> QED BY <2>2, <2>3, <2>4
<1> QED BY <1>1, <1>2

\* Every step keeps it.
LEMMA AheadStep == ASSUME Steady, ~ Torn, ~ Overlap, Reach, MInv, Ahead, [Next]_vars PROVE Ahead'
<1>1. CASE UNCHANGED vars
    BY <1>1 DEF vars, Ahead, Up
<1>2. ASSUME NEW o \in Opts, Create(o) \/ Reopen(o) PROVE Ahead'
    <2>1. \A i \in Index(sb') : tx'[i] = "idle"
        <3>1. CASE Create(o)
            <4>1. sb' = Superblock(o) /\ tx' = [i \in 0 .. o.entries - 1 |-> "idle"]
                BY <3>1, HandleNotNone DEF Create, Attach
            <4> QED BY <4>1, OptionFacts DEF Index
        <3>2. CASE Reopen(o)
            BY <3>2, Reopening
        <3> QED BY <1>2, <3>1, <3>2
    <2> QED BY <2>1 DEF Ahead
<1>3. ASSUME NEW i \in Slots, TxBegin(i) \/ TxInit(i) \/ TxCommit(i) \/ ExecZero(i) \/ ExecEnd(i)
             \/ TxAbort(i) \/ AbortZero(i) \/ AbortEnd(i)
             \/ (\E v \in Vals : TPut(i, v)) \/ (\E id \in Ids(h.map) : TDel(i, id))
      PROVE  Ahead'
    <2>0. Up /\ UNCHANGED <<sb, h, closing>>
        BY <1>3 DEF TxBegin, TxInit, TxCommit, ExecZero, ExecEnd, TxAbort, AbortZero, AbortEnd, TPut, TDel
    <2>1. /\ Placed(sb) /\ i \in Index(sb) /\ SlotPage(h, i) = Sp(sb, i)
          /\ tx \in [Index(sb) -> TxStates]
        BY <2>0, Running
    <2>2. CASE TxBegin(i) \/ TxInit(i) \/ (\E v \in Vals : TPut(i, v)) \/ (\E id \in Ids(h.map) : TDel(i, id))
        <3>1. tx'[i] \in {"begun", "open"}
            BY <2>1, <2>2 DEF TxBegin, TxInit, TPut, TDel
        <3>2. \E ids : Effect(i, ids)
            BY <2>2, BeginKeeps, InitKeeps, PutKeeps, DelKeeps
        <3> QED BY <3>1, <3>2, <2>0, <2>1, TxAhead
    <2>3. CASE ExecEnd(i) \/ TxAbort(i) \/ AbortZero(i) \/ AbortEnd(i)
        <3>1. tx'[i] \in {"idle", "aborted", "undone"}
            BY <2>1, <2>3 DEF ExecEnd, TxAbort, AbortZero, AbortEnd
        <3>2. \E ids : Effect(i, ids)
            BY <2>3, EndKeeps, AbortKeeps, UndoKeeps, AbortEndKeeps
        <3> QED BY <3>1, <3>2, <2>0, <2>1, TxAhead
    <2>4. CASE TxCommit(i)
        <3>1. disk' = TxPersist(h, mem', {i})
            BY <2>4 DEF TxCommit
        <3>2. h.o.sync \in {SYNC, SELSYNC} => disk'[Sp(sb, i)] = mem'[Sp(sb, i)]
            BY <3>1, <2>0, <2>1, SlotStored
        <3>3. Effect(i, {})
            BY <2>4, CommitKeeps
        <3> QED BY <3>2, <3>3, <2>0, <2>1, TxAhead
    <2>5. CASE ExecZero(i)
        <3>1. disk' = disk /\ tx[i] = "committed" /\ mem' = ZeroBlocks(h, mem, TheLog(i).dels)
            BY <2>5 DEF ExecZero
        <3>2. mem'[Sp(sb, i)] = mem[Sp(sb, i)]
            <4>1. ZeroBlocks(h, mem, TheLog(i).dels) = ZeroBlocks(Lay(sb), mem, TheLog(i).dels)
                BY <2>0, Mapped, SameView DEF MInv, Up
            <4>2. TheLog(i).dels \subseteq Numbers(sb)
                BY <2>0, <3>1, Running
            <4>3. Zeroes(sb, mem, ZeroBlocks(Lay(sb), mem, TheLog(i).dels), TheLog(i).dels)
                BY <2>1, <4>2, Zeroing
            <4> QED BY <2>1, <3>1, <4>1, <4>3 DEF Zeroes
        <3>3. h.o.sync \in {SYNC, SELSYNC} => disk[Sp(sb, i)] = mem[Sp(sb, i)]
            BY <2>0, <2>1, <3>1 DEF Ahead
        <3>4. Effect(i, TakenBy(i))
            BY <2>5, ZeroKeeps
        <3>5. h.o.sync \in {SYNC, SELSYNC} => disk'[Sp(sb, i)] = mem'[Sp(sb, i)]
            BY <3>1, <3>2, <3>3
        <3> QED BY <3>4, <3>5, <2>0, <2>1, TxAhead
    <2> QED BY <1>3, <2>2, <2>3, <2>4, <2>5
<1>4. CASE ThreadWake \/ ThreadCancelled \/ Close \/ CloseJoin \/ ThreadPersist
    <2>1. UNCHANGED <<sb, h, tx, mem>> /\ (closing' = "no" => closing = "no")
        BY <1>4 DEF ThreadWake, ThreadCancelled, Close, CloseJoin, ThreadPersist
    <2>2. mem \in [Pages -> PageSet] /\ disk \in [Pages -> PageSet]
        BY DEF MInv, PagesOK, PageSet
    <2>3. \A p \in Pages : disk'[p] \in {mem[p], disk[p]}
        BY <1>4, <2>2, Storing DEF ThreadWake, ThreadCancelled, Close, CloseJoin, ThreadPersist
    <2>4. Up => \A i \in Index(sb) : Sp(sb, i) \in Pages
        BY Mapped DEF MInv, Up, Placed
    <2> QED BY <2>1, <2>3, <2>4 DEF Ahead, Up
<1>5. CASE CloseUnmap \/ PowerFail
    BY <1>5 DEF CloseUnmap, PowerFail, Ahead, Up
<1>6. TxActions => \E i \in Slots : TxBegin(i) \/ TxInit(i) \/ TxCommit(i) \/ ExecZero(i) \/ ExecEnd(i)
             \/ TxAbort(i) \/ AbortZero(i) \/ AbortEnd(i)
             \/ (\E v \in Vals : TPut(i, v)) \/ (\E id \in Ids(h.map) : TDel(i, id))
    BY DEF TxActions
<1> QED BY <1>1, <1>2, <1>3, <1>4, <1>5, <1>6, NextCases

\* With PMB_SYNC and PMB_SELSYNC the log of a transaction is on storage before
\* its execution destroys anything, if backend_persist_all reaches the log and
\* outside the windows of Torn and Overlap.
THEOREM PoolLogAhead == Steady /\ Reach /\ ~ Torn /\ ~ Overlap => (Spec => []LogAhead)
<1> SUFFICES ASSUME Steady, Reach, ~ Torn, ~ Overlap PROVE Spec => []LogAhead
    OBVIOUS
<1>1. Init => Ahead
    BY DEF Init, Ahead, Up
<1>2. MInv /\ Ahead /\ [Next]_vars => Ahead'
    BY AheadStep
<1>3. MInv /\ Ahead => LogAhead
    BY AheadIs
<1>4. Spec => []MInv
    BY PoolInvariant
<1> QED BY <1>1, <1>2, <1>3, <1>4, PTL DEF Spec

-----------------------------------------------------------------------------
(* What was synchronised is read back. *)

\* A block that backend_persist_all reaches, all of it
Fine(s, id) == \A p \in PagesOf(Lay(s), id) : (p + 1) * Align <= PersistedTo(Lay(s).map)

\* Page p is stored as the program sees it after the step, if it is reached.
StoresReached == \A p \in Pages : Reached(sb, p) => disk'[p] = mem'[p]

\* Steps that leave the pool open: what they have to show for the objects in
\* memory is enough for what is stored.
LEMMA Onward ==
    ASSUME Placed(sb), MInv', SInv, sb' = sb, h' # None,
           \A p \in Pages : disk'[p] \in {mem'[p], disk[p]},
           \A id \in DOMAIN objs' :
               /\ id \in Numbers(sb) /\ objs'[id].key = Some.key
               /\ Fine(sb, id) => Holds(Lay(sb), mem', id, objs'[id].val, Some.key),
           \A id \in DOMAIN objs' : Fine(sb, id) =>
               \A j \in Index(sb) : id \notin PutBy(j)' /\ (tx'[j] = "committed" => id \notin TakenBy(j)'),
           \A id \in safe' : Fine(sb, id),
           \/ StoresReached
           \/ \A id \in safe' : Fine(sb, id) => id \in safe /\ id \in DOMAIN objs /\ objs'[id] = objs[id]
    PROVE  SInv'
<1>1. \A id : Kept(id)' <=> id \in DOMAIN objs' /\ Fine(sb, id)
    BY DEF Kept, Fine
<1>2. \A id : Kept(id) <=> id \in DOMAIN objs /\ Fine(sb, id)
    BY DEF Kept, Fine
<1>3. ASSUME NEW id \in DOMAIN objs', Fine(sb, id), id \in safe'
      PROVE  Holds(Lay(sb), disk', id, objs'[id].val, Some.key)
    <2>1. id \in Numbers(sb) /\ Holds(Lay(sb), mem', id, objs'[id].val, Some.key)
        BY <1>3
    <2>2. PagesOf(Lay(sb), id) \subseteq Pages /\ \A p \in PagesOf(Lay(sb), id) : Reached(sb, p)
        BY <1>3, <2>1 DEF Placed, Fine
    <2>3. CASE StoresReached
        BY <2>1, <2>2, <2>3 DEF Holds, StoresReached
    <2>4. CASE id \in safe /\ id \in DOMAIN objs /\ objs'[id] = objs[id]
        <3>1. Holds(Lay(sb), disk, id, objs'[id].val, Some.key)
            BY <1>2, <1>3, <2>4 DEF SInv, Whole
        <3> QED BY <2>1, <2>2, <3>1 DEF Holds
    <2> QED BY <1>3, <2>3, <2>4
<1>4. ASSUME NEW id \in DOMAIN objs', Fine(sb, id), id \in safe', NEW j \in Index(sb), j # 0,
             disk'[Sp(sb, j)].is = "log"
      PROVE  id \notin disk'[Sp(sb, j)].puts
    <2>1. Sp(sb, j) \in Pages /\ Reached(sb, Sp(sb, j))
        BY <1>4 DEF Placed, Fine
    <2>2. CASE disk'[Sp(sb, j)] = mem'[Sp(sb, j)]
        <3>1. tx'[j] # "idle"
            BY <1>4, <2>2 DEF MInv, TxOK
        <3>2. tx'[j] = "begun" => mem'[Sp(sb, j)].puts = {}
            BY <1>4 DEF MInv, TxOK
        <3>3. CASE tx'[j] = "undone"
            <4>1. mem'[Sp(sb, j)].puts \subseteq free'
                BY <3>3 DEF MInv, Apart, ReturnedBy
            <4>2. IsObject(Lay(sb), mem', id)
                BY <1>4, WholeIsObject
            <4>3. id \in Numbers(sb)
                BY <1>4
            <4>4. id \notin free'
                BY <4>2, <4>3 DEF MInv, Written
            <4> QED BY <2>2, <4>1, <4>4
        <3>4. CASE tx'[j] \in {"open", "committed", "zeroed", "aborted"}
            <4>1. PutBy(j)' = mem'[Sp(sb, j)].puts
                BY <3>4 DEF PutBy
            <4> QED BY <1>4, <2>2, <4>1
        <3>5. tx'[j] \in TxStates
            BY DEF MInv, TxOK
        <3> QED BY <2>2, <3>1, <3>2, <3>3, <3>4, <3>5 DEF TxStates
    <2>3. CASE disk'[Sp(sb, j)] = disk[Sp(sb, j)] /\ ~ StoresReached
        <3>1. id \in safe /\ id \in DOMAIN objs
            BY <1>4, <2>3
        <3> QED BY <1>2, <1>4, <2>3, <3>1 DEF SInv, Unlisted
    <2>4. StoresReached => disk'[Sp(sb, j)] = mem'[Sp(sb, j)]
        BY <2>1 DEF StoresReached
    <2> QED BY <2>1, <2>2, <2>3, <2>4
<1>5. Whole'
    BY <1>1, <1>3 DEF Whole
<1>6. Unlisted'
    BY <1>1, <1>4 DEF Unlisted
<1>7. SafeKept'
    BY <1>1 DEF SafeKept, MInv, CountsOK
<1> QED BY <1>5, <1>6, <1>7 DEF SInv

\* What is known of an object that is kept, while the pool is open.
LEMMA KeptFacts ==
    ASSUME Steady, MInv, SInv, Up, NEW id \in DOMAIN objs
    PROVE  /\ id \in Numbers(sb) /\ objs[id].key = Some.key
           /\ Fine(sb, id) =>
                 /\ Holds(Lay(sb), mem, id, objs[id].val, Some.key) /\ id \notin free
                 /\ \A j \in Index(sb) : id \notin PutBy(j) /\ (tx[j] = "committed" => id \notin TakenBy(j))
<1>1. Placed(sb) /\ h # None
    BY Mapped DEF MInv, Up
<1>2. id \in Numbers(sb) /\ objs[id].key = Some.key
    BY DEF SInv, Whole
<1>3. ASSUME Fine(sb, id)
      PROVE  /\ Holds(Lay(sb), mem, id, objs[id].val, Some.key) /\ id \notin free
             /\ \A j \in Index(sb) : id \notin PutBy(j) /\ (tx[j] = "committed" => id \notin TakenBy(j))
    <2>1. Kept(id)
        BY <1>3 DEF Kept, Fine
    <2>2. Holds(Lay(sb), mem, id, objs[id].val, Some.key)
        BY <2>1 DEF SInv, Whole
    <2>3. id \notin free
        BY <1>1, <1>2, <2>2, WholeIsObject, PutFacts
    <2> QED BY <1>1, <2>1, <2>2, <2>3 DEF SInv, Unlisted
<1> QED BY <1>2, <1>3

\* Steps of slot i that do not end a transaction: no new objects.
LEMMA TxOnward ==
    ASSUME Steady, MInv, MInv', SInv, Up, NEW i \in Index(sb), UNCHANGED <<sb, h>>,
           NEW ids, Effect(i, ids),
           DOMAIN objs' \subseteq DOMAIN objs, \A id \in DOMAIN objs' : objs'[id] = objs[id],
           safe' \subseteq safe,
           \A id \in DOMAIN objs' : Fine(sb, id) => 
               id \notin ids /\ id \notin PutBy(i)' /\ (tx'[i] = "committed" => id \notin TakenBy(i)')
    PROVE  SInv'
<1>1. Placed(sb) /\ h # None
    BY Mapped DEF MInv, Up
<1>2. ASSUME NEW id \in DOMAIN objs'
      PROVE  /\ id \in Numbers(sb) /\ objs'[id].key = Some.key
             /\ Fine(sb, id) => Holds(Lay(sb), mem', id, objs'[id].val, Some.key)
    <2>1. id \in Numbers(sb) /\ objs'[id].key = Some.key
        BY KeptFacts
    <2>2. ASSUME Fine(sb, id) PROVE Holds(Lay(sb), mem', id, objs'[id].val, Some.key)
        <3>1. Holds(Lay(sb), mem, id, objs'[id].val, Some.key)
            BY <2>2, KeptFacts
        <3>2. \A p \in PagesOf(Lay(sb), id) : mem'[p] = mem[p]
            BY <2>1, <2>2 DEF Effect
        <3> QED BY <3>1, <3>2 DEF Holds
    <2> QED BY <2>1, <2>2
<1>3. ASSUME NEW id \in DOMAIN objs', Fine(sb, id), NEW j \in Index(sb)
      PROVE  id \notin PutBy(j)' /\ (tx'[j] = "committed" => id \notin TakenBy(j)')
    <2>1. CASE j = i
        BY <1>3, <2>1
    <2>2. CASE j # i
        <3>1. mem'[Sp(sb, j)] = mem[Sp(sb, j)] /\ tx'[j] = tx[j]
            BY <2>2 DEF Effect
        <3>2. PutBy(j)' = PutBy(j) /\ TakenBy(j)' = TakenBy(j)
            BY <3>1 DEF PutBy, TakenBy
        <3> QED BY <1>3, <3>1, <3>2, KeptFacts
    <2> QED BY <2>1, <2>2
<1>4. \A p \in Pages : disk'[p] \in {mem'[p], disk[p]}
    BY DEF Effect
<1>5. \A id \in safe' : Fine(sb, id) /\ id \in safe /\ id \in DOMAIN objs /\ objs'[id] = objs[id]
    BY DEF MInv, CountsOK, SInv, SafeKept, Kept, Fine
<1> QED BY <1>1, <1>2, <1>3, <1>4, <1>5, Onward

\* What a transaction's steps do to its lists.
LEMMA PutByAfter ==
    ASSUME Steady, MInv, NEW i \in Slots
    PROVE  /\ TxBegin(i) => PutBy(i)' = {}
           /\ \A id \in Ids(h.map) : TDel(i, id) => PutBy(i)' = PutBy(i)
           /\ \A v \in Vals : TPut(i, v) => PutBy(i)' \subseteq PutBy(i) \cup free
           /\ TxCommit(i) => PutBy(i)' = PutBy(i) /\ TakenBy(i)' = TheLog(i).dels
           /\ ExecZero(i) => PutBy(i)' = PutBy(i)
           /\ TxAbort(i) => PutBy(i)' = PutBy(i)
           /\ TxInit(i) \/ AbortZero(i) \/ AbortEnd(i) \/ ExecEnd(i) => PutBy(i)' = {}
<1>1. ASSUME TxBegin(i) PROVE PutBy(i)' = {}
    <2>1. i \in Index(sb) /\ tx \in [Index(sb) -> TxStates]
        BY <1>1, Running DEF TxBegin
    <2>2. tx'[i] = "begun"
        BY <1>1, <2>1 DEF TxBegin
    <2> QED BY <2>2 DEF PutBy
<1>2. ASSUME NEW id \in Ids(h.map), TDel(i, id) PROVE PutBy(i)' = PutBy(i)
    <2>0. Up /\ tx[i] = "open"
        BY <1>2 DEF TDel
    <2>1. /\ i \in Index(sb) /\ SlotPage(h, i) = Sp(sb, i) /\ Sp(sb, i) \in Pages /\ DOMAIN mem = Pages
          /\ TheLog(i) = mem[Sp(sb, i)] /\ TheLog(i) \in Logs
        BY <2>0, Running DEF Placed
    <2>2. mem'[Sp(sb, i)] = [TheLog(i) EXCEPT !.dels = @ \cup {id}] /\ sb' = sb /\ tx' = tx
        BY <1>2, <2>1 DEF TDel, WriteLog
    <2>3. mem'[Sp(sb, i)].puts = TheLog(i).puts
        BY <2>1, <2>2 DEF Logs
    <2> QED BY <2>0, <2>1, <2>2, <2>3 DEF PutBy
<1>3. ASSUME NEW v \in Vals, TPut(i, v) PROVE PutBy(i)' \subseteq PutBy(i) \cup free
    <2> DEFINE id == CHOOSE x \in free : \A y \in free : x <= y
    <2>0. Up /\ tx[i] = "open" /\ free # {}
        BY <1>3 DEF TPut
    <2>1. /\ i \in Index(sb) /\ SlotPage(h, i) = Sp(sb, i) /\ Sp(sb, i) \in Pages
          /\ TheLog(i) = mem[Sp(sb, i)] /\ TheLog(i) \in Logs /\ free \subseteq Nat
        BY <2>0, Running DEF Placed
    <2>2. id \in free
        BY <2>0, <2>1, LeastFree
    <2>3. mem'[Sp(sb, i)] = [TheLog(i) EXCEPT !.puts = @ \cup {id}] /\ sb' = sb /\ tx' = tx
        BY <1>3, <2>1 DEF TPut
    <2> HIDE DEF id
    <2>4. mem'[Sp(sb, i)].puts = TheLog(i).puts \cup {id}
        BY <2>1, <2>3 DEF Logs
    <2> QED BY <2>0, <2>1, <2>2, <2>3, <2>4 DEF PutBy
<1>4. ASSUME TxCommit(i) PROVE PutBy(i)' = PutBy(i) /\ TakenBy(i)' = TheLog(i).dels
    <2>0. Up /\ tx[i] = "open"
        BY <1>4 DEF TxCommit
    <2>1. /\ i \in Index(sb) /\ SlotPage(h, i) = Sp(sb, i) /\ Sp(sb, i) \in Pages /\ DOMAIN mem = Pages
          /\ TheLog(i) = mem[Sp(sb, i)] /\ TheLog(i) \in Logs
          /\ tx \in [Index(sb) -> TxStates]
        BY <2>0, Running DEF Placed
    <2>2. /\ mem'[Sp(sb, i)] = [TheLog(i) EXCEPT !.status = "committed"] /\ sb' = sb
          /\ tx'[i] = "committed"
        BY <1>4, <2>1 DEF TxCommit, WriteLog
    <2>3. mem'[Sp(sb, i)].puts = TheLog(i).puts /\ mem'[Sp(sb, i)].dels = TheLog(i).dels
        BY <2>1, <2>2 DEF Logs
    <2> QED BY <2>0, <2>1, <2>2, <2>3 DEF PutBy, TakenBy
<1>5. ASSUME ExecZero(i) PROVE PutBy(i)' = PutBy(i)
    <2>0. Up /\ tx[i] = "committed" /\ sb' = sb
        BY <1>5 DEF ExecZero
    <2>1. /\ i \in Index(sb) /\ Placed(sb) /\ TheLog(i).dels \subseteq Numbers(sb)
          /\ tx \in [Index(sb) -> TxStates]
        BY <2>0, Running
    <2>2. ZeroBlocks(h, mem, TheLog(i).dels) = ZeroBlocks(Lay(sb), mem, TheLog(i).dels)
        BY <2>0, Mapped, SameView DEF MInv, Up
    <2>3. Zeroes(sb, mem, ZeroBlocks(Lay(sb), mem, TheLog(i).dels), TheLog(i).dels)
        BY <2>1, Zeroing
    <2>4. mem'[Sp(sb, i)] = mem[Sp(sb, i)] /\ tx'[i] = "zeroed"
        BY <1>5, <2>1, <2>2, <2>3 DEF Zeroes, ExecZero
    <2> QED BY <2>0, <2>4 DEF PutBy
<1>6. ASSUME TxAbort(i) PROVE PutBy(i)' = PutBy(i)
    <2>0. Up /\ tx[i] \in {"open", "committed"} /\ tx[i] # "idle"
        BY <1>6 DEF TxAbort
    <2>1. /\ i \in Index(sb) /\ SlotPage(h, i) = Sp(sb, i) /\ Sp(sb, i) \in Pages /\ DOMAIN mem = Pages
          /\ TheLog(i) = mem[Sp(sb, i)] /\ TheLog(i) \in Logs
          /\ tx \in [Index(sb) -> TxStates]
        BY <2>0, Running DEF Placed
    <2>2. /\ mem'[Sp(sb, i)] = [TheLog(i) EXCEPT !.status = "aborted"] /\ sb' = sb
          /\ tx'[i] = "aborted"
        BY <1>6, <2>1 DEF TxAbort, WriteLog
    <2>3. mem'[Sp(sb, i)].puts = TheLog(i).puts
        BY <2>1, <2>2 DEF Logs
    <2> QED BY <2>0, <2>1, <2>2, <2>3 DEF PutBy
<1>7. ASSUME TxInit(i) PROVE PutBy(i)' = {}
    <2>0. Up
        BY <1>7 DEF TxInit
    <2>1. /\ i \in Index(sb) /\ SlotPage(h, i) = Sp(sb, i) /\ Sp(sb, i) \in Pages /\ DOMAIN mem = Pages
        BY <2>0, Running DEF Placed
    <2>2. mem'[Sp(sb, i)] = Log("processing", {}, {}) /\ sb' = sb
        BY <1>7, <2>1 DEF TxInit, WriteLog
    <2>3. mem'[Sp(sb, i)].puts = {}
        BY <2>2 DEF Log
    <2> QED BY <2>2, <2>3 DEF PutBy
<1>8. ASSUME AbortZero(i) \/ AbortEnd(i) \/ ExecEnd(i) PROVE PutBy(i)' = {}
    <2>1. i \in Index(sb) /\ tx \in [Index(sb) -> TxStates]
        BY <1>8, Running DEF AbortZero, AbortEnd, ExecEnd
    <2>2. tx'[i] \in {"idle", "undone"}
        BY <1>8, <2>1 DEF AbortZero, AbortEnd, ExecEnd
    <2> QED BY <2>2 DEF PutBy
<1> QED BY <1>1, <1>2, <1>3, <1>4, <1>5, <1>6, <1>7, <1>8

\* Steps of a transaction before its end.
LEMMA TxStored ==
    ASSUME Steady, ~ Overlap, MInv, SInv, NEW i \in Slots,
           \/ TxBegin(i) \/ TxInit(i) \/ TxCommit(i) \/ ExecZero(i)
           \/ TxAbort(i) \/ AbortZero(i) \/ AbortEnd(i)
           \/ (\E v \in Vals : TPut(i, v)) \/ (\E id \in Ids(h.map) : TDel(i, id))
    PROVE  SInv'
<1>0. Up /\ UNCHANGED <<sb, h>>
    BY DEF TxBegin, TxInit, TxCommit, ExecZero, TxAbort, AbortZero, AbortEnd, TPut, TDel
<1>1. /\ i \in Index(sb) /\ tx \in [Index(sb) -> TxStates]
    BY <1>0, Running
<1>2. CASE TxBegin(i) \/ TxInit(i) \/ TxAbort(i) \/ AbortEnd(i) \/ \E id \in Ids(h.map) : TDel(i, id)
    <2>1. MInv' /\ Effect(i, {}) /\ UNCHANGED <<objs, safe>> /\ tx'[i] # "committed"
        BY <1>1, <1>2, BeginKeeps, InitKeeps, AbortKeeps, AbortEndKeeps, DelKeeps
           DEF TxBegin, TxInit, TxAbort, AbortEnd, TDel
    <2>2. PutBy(i)' \subseteq PutBy(i)
        BY <1>2, PutByAfter
    <2>3. \A id \in DOMAIN objs : Fine(sb, id) => id \notin PutBy(i)'
        BY <1>0, <1>1, <2>2, KeptFacts
    <2> QED BY <1>0, <1>1, <2>1, <2>3, TxOnward
<1>3. CASE \E v \in Vals : TPut(i, v)
    <2>1. MInv' /\ Effect(i, free) /\ UNCHANGED <<objs, safe>> /\ tx'[i] = "open"
        BY <1>1, <1>3, PutKeeps DEF TPut
    <2>2. PutBy(i)' \subseteq PutBy(i) \cup free
        BY <1>3, PutByAfter
    <2>3. \A id \in DOMAIN objs : Fine(sb, id) => id \notin PutBy(i)' /\ id \notin free
        BY <1>0, <1>1, <2>2, KeptFacts
    <2>4. PICK F : F = free
        OBVIOUS
    <2> QED BY <1>0, <1>1, <2>1, <2>3, <2>4, TxOnward
<1>4. CASE TxCommit(i)
    <2>1. /\ MInv' /\ Effect(i, {})
          /\ objs' = [id \in DOMAIN objs \ TheLog(i).dels |-> objs[id]] /\ safe' = safe \ TheLog(i).dels
        BY <1>4, CommitKeeps DEF TxCommit, Drop
    <2>2. PutBy(i)' = PutBy(i) /\ TakenBy(i)' = TheLog(i).dels
        BY <1>4, PutByAfter
    <2>3. DOMAIN objs' = DOMAIN objs \ TheLog(i).dels /\ \A id \in DOMAIN objs' : objs'[id] = objs[id]
        BY <2>1
    <2>4. \A id \in DOMAIN objs' : Fine(sb, id) => id \notin PutBy(i)' /\ id \notin TakenBy(i)'
        BY <1>0, <1>1, <2>2, <2>3, KeptFacts
    <2> QED BY <1>0, <1>1, <2>1, <2>3, <2>4, TxOnward
<1>5. CASE ExecZero(i)
    <2>1. /\ MInv' /\ Effect(i, TakenBy(i)) /\ UNCHANGED <<objs, safe>>
          /\ tx[i] = "committed" /\ tx'[i] = "zeroed"
        BY <1>1, <1>5, ZeroKeeps DEF ExecZero
    <2>2. PutBy(i)' = PutBy(i)
        BY <1>5, PutByAfter
    <2>3. \A id \in DOMAIN objs : Fine(sb, id) => id \notin PutBy(i)' /\ id \notin TakenBy(i)
        BY <1>0, <1>1, <2>1, <2>2, KeptFacts
    <2>4. PICK T : T = TakenBy(i)
        OBVIOUS
    <2> QED BY <1>0, <1>1, <2>1, <2>3, <2>4, TxOnward
<1>6. CASE AbortZero(i)
    <2>1. MInv' /\ Effect(i, PutBy(i)) /\ UNCHANGED <<objs, safe>> /\ tx'[i] = "undone"
        BY <1>1, <1>6, UndoKeeps DEF AbortZero
    <2>2. PutBy(i)' = {}
        BY <1>6, PutByAfter
    <2>3. \A id \in DOMAIN objs : Fine(sb, id) => id \notin PutBy(i)
        BY <1>0, <1>1, KeptFacts
    <2>4. PICK P : P = PutBy(i)
        OBVIOUS
    <2> QED BY <1>0, <1>1, <2>1, <2>2, <2>3, <2>4, TxOnward
<1> QED BY <1>2, <1>3, <1>4, <1>5, <1>6

\* backend_persist_all stores every page it reaches.
LEMMA AllStored ==
    ASSUME Steady, MInv, h # None, NEW m, disk' = PersistAll(h, m), NEW p \in Pages, Reached(sb, p)
    PROVE  disk'[p] = m[p]
<1>1. h.map = Lay(sb).map
    BY Mapped DEF MInv
<1> QED BY <1>1 DEF PersistAll, Reached

\* pmb_tx_execute, the end: the transaction's objects are executed.
LEMMA EndStored == ASSUME Steady, ~ Torn, MInv, SInv, NEW i \in Slots, ExecEnd(i) PROVE SInv'
<1> DEFINE puts == TheLog(i).puts
<1>0. Up /\ UNCHANGED <<sb, h>> /\ tx[i] = "zeroed"
    BY DEF ExecEnd
<1>1. /\ Placed(sb) /\ i \in Index(sb) /\ h # None /\ h.o.key = Some.key
      /\ tx \in [Index(sb) -> TxStates]
      /\ PutBy(i) = puts /\ puts \subseteq Numbers(sb)
      /\ \A id : FirstPage(h, id) = FirstPage(Lay(sb), id)
    BY <1>0, Running, Mapped, SameView DEF MInv, Up
<1>2. MInv' /\ Effect(i, {}) /\ tx'[i] = "idle" /\ PutBy(i)' = {}
    BY <1>1, EndKeeps, PutByAfter DEF ExecEnd
<1>3. /\ DOMAIN objs' = DOMAIN objs \cup puts
      /\ \A id \in DOMAIN objs' : id \notin puts => objs'[id] = objs[id]
      /\ \A id \in puts : objs'[id] = [val |-> mem[FirstPage(Lay(sb), id)].val, key |-> Some.key]
      /\ disk' = TxPersist(h, mem', {i})
      /\ safe' = IF h.o.sync = SYNC THEN safe \cup NowSafe(objs', disk') ELSE safe
    BY <1>1 DEF ExecEnd
<1> HIDE DEF puts
<1>4. ASSUME NEW id \in Numbers(sb), NEW v, Holds(Lay(sb), mem, id, v, Some.key)
      PROVE  Holds(Lay(sb), mem', id, v, Some.key)
    BY <1>2, <1>4 DEF Effect, Holds
<1>5. ASSUME NEW id \in DOMAIN objs'
      PROVE  /\ id \in Numbers(sb) /\ objs'[id].key = Some.key
             /\ Fine(sb, id) => Holds(Lay(sb), mem', id, objs'[id].val, Some.key)
    <2>1. CASE id \in puts
        <3>1. objs'[id].val = mem[FirstPage(Lay(sb), id)].val /\ objs'[id].key = Some.key
            BY <1>3, <2>1
        <3>2. PICK v \in Vals : Holds(Lay(sb), mem, id, v, Some.key)
            BY <1>0, <1>1, <2>1, PutFacts
        <3>3. mem[FirstPage(Lay(sb), id)].val = v
            BY <1>1, <2>1, <3>2, WholeIsObject
        <3> QED BY <1>1, <1>4, <2>1, <3>1, <3>2, <3>3
    <2>2. CASE id \notin puts
        <3>1. id \in DOMAIN objs /\ objs'[id] = objs[id]
            BY <1>3, <2>2
        <3> QED BY <1>0, <1>4, <3>1, KeptFacts
    <2> QED BY <2>1, <2>2
<1>6. ASSUME NEW id \in DOMAIN objs', Fine(sb, id), NEW j \in Index(sb)
      PROVE  id \notin PutBy(j)' /\ (tx'[j] = "committed" => id \notin TakenBy(j)')
    <2>1. CASE j = i
        BY <1>2, <2>1
    <2>2. CASE j # i
        <3>1. mem'[Sp(sb, j)] = mem[Sp(sb, j)] /\ tx'[j] = tx[j]
            BY <1>2, <2>2 DEF Effect
        <3>2. PutBy(j)' = PutBy(j) /\ TakenBy(j)' = TakenBy(j)
            BY <1>0, <3>1 DEF PutBy, TakenBy
        <3>3. id \in puts => id \notin PutBy(j) /\ id \notin TakenBy(j)
            BY <1>0, <1>1, <2>2, ApartFacts DEF Disjoint
        <3>4. id \notin puts => id \in DOMAIN objs
            BY <1>3
        <3> QED BY <1>0, <1>6, <3>1, <3>2, <3>3, <3>4, KeptFacts
    <2> QED BY <2>1, <2>2
<1>7. \A p \in Pages : disk'[p] \in {mem'[p], disk[p]}
    BY <1>2 DEF Effect
<1>10. \A id \in safe' : Fine(sb, id)
    <2>1. \A id \in safe : Fine(sb, id)
        BY DEF SInv, SafeKept, Kept, Fine
    <2>2. h.map = Lay(sb).map /\ \A id : PagesOf(h, id) = PagesOf(Lay(sb), id)
        BY <1>0, Mapped, SameView DEF MInv, Up
    <2>3. \A id \in NowSafe(objs', disk') : Fine(sb, id)
        BY <2>2 DEF NowSafe, Synced, Fine
    <2> QED BY <1>3, <2>1, <2>3
<1>8. CASE h.o.sync = SYNC
    <2>1. disk' = PersistAll(h, mem')
        BY <1>3, <1>8 DEF TxPersist
    <2>2. StoresReached
        BY <1>1, <2>1, AllStored DEF StoresReached
    <2> QED BY <1>0, <1>1, <1>2, <1>5, <1>6, <1>7, <1>10, <2>2, Onward
<1>9. CASE h.o.sync # SYNC
    <2>1. ASSUME NEW id \in safe', Fine(sb, id)
          PROVE  id \in safe /\ id \in DOMAIN objs /\ objs'[id] = objs[id]
        <3>1. id \in safe /\ id \in DOMAIN objs
            BY <1>3, <1>9, <2>1 DEF MInv, CountsOK
        <3>2. id \notin puts
            BY <1>0, <1>1, <2>1, <3>1, KeptFacts
        <3> QED BY <1>3, <3>1, <3>2
    <2> QED BY <1>0, <1>1, <1>2, <1>5, <1>6, <1>7, <1>10, <2>1, Onward
<1> QED BY <1>8, <1>9

\* Steps of the thread and of pmb_close, as long as the pool is mapped.
LEMMA QuietStored ==
    ASSUME Steady, MInv, MInv', SInv,
           \/ ThreadWake \/ ThreadPersist \/ ThreadCancelled \/ Close \/ CloseJoin
    PROVE  SInv'
<1>1. h # None /\ UNCHANGED <<sb, h, tx, mem, objs>>
    BY DEF ThreadWake, ThreadPersist, ThreadCancelled, Close, CloseJoin, Up, MInv, ThreadOK
<1>2. Placed(sb)
    BY <1>1, Mapped DEF MInv
<1>3. \A p \in Pages : disk'[p] \in {mem'[p], disk[p]}
    BY <1>1, Storing DEF ThreadWake, ThreadPersist, ThreadCancelled, Close, CloseJoin, MInv, PagesOK
<1>4. \A id : Kept(id) <=> id \in DOMAIN objs /\ Fine(sb, id)
    BY DEF Kept, Fine
<1>5. \A id \in DOMAIN objs' :
          /\ id \in Numbers(sb) /\ objs'[id].key = Some.key
          /\ Fine(sb, id) => Holds(Lay(sb), mem', id, objs'[id].val, Some.key)
    BY <1>1, <1>4 DEF SInv, Whole
<1>6. \A j : PutBy(j)' = PutBy(j) /\ TakenBy(j)' = TakenBy(j)
    BY <1>1 DEF PutBy, TakenBy
<1>7. \A id \in DOMAIN objs' : Fine(sb, id) =>
          \A j \in Index(sb) : id \notin PutBy(j)' /\ (tx'[j] = "committed" => id \notin TakenBy(j)')
    BY <1>1, <1>4, <1>6 DEF SInv, Unlisted
<1>10. \A id \in safe' : Fine(sb, id)
    <2>1. \A id \in safe : Fine(sb, id)
        BY DEF SInv, SafeKept, Kept, Fine
    <2>2. h.map = Lay(sb).map /\ \A id : PagesOf(h, id) = PagesOf(Lay(sb), id)
        BY <1>1, Mapped, SameView DEF MInv
    <2>3. \A id \in NowSafe(objs, disk') : Fine(sb, id)
        BY <2>2 DEF NowSafe, Synced, Fine
    <2>4. safe' = safe \/ safe' = safe \cup NowSafe(objs, disk')
        BY DEF ThreadWake, ThreadPersist, ThreadCancelled, Close, CloseJoin
    <2> QED BY <2>1, <2>3, <2>4
<1>8. CASE ThreadPersist
    <2>1. disk' = PersistAll(h, mem)
        BY <1>8 DEF ThreadPersist
    <2>2. StoresReached
        BY <1>1, <2>1, AllStored DEF StoresReached
    <2> QED BY <1>1, <1>2, <1>3, <1>5, <1>7, <1>10, <2>2, Onward
<1>9. CASE ~ ThreadPersist
    <2>1. safe' = safe /\ safe \subseteq DOMAIN objs
        BY <1>9 DEF ThreadWake, ThreadCancelled, Close, CloseJoin, MInv, CountsOK
    <2> QED BY <1>1, <1>2, <1>3, <1>5, <1>7, <1>10, <2>1, Onward
<1> QED BY <1>8, <1>9

\* pmb_open of an existing pool: recovery undoes no executed object.
LEMMA ReopenStored == ASSUME Steady, MInv, MInv', SInv, NEW o \in Opts, Reopen(o) PROVE SInv'
<1>1. /\ Placed(sb) /\ sb # None /\ UNCHANGED <<sb, objs, safe, begun>>
      /\ h = None /\ h' # None /\ tx' = [i \in Index(sb) |-> "idle"]
      /\ \A p \in Pages : mem'[p] \in {mem[p], Blank} /\ disk'[p] \in {mem'[p], disk[p]}
      /\ \A id \in Numbers(sb) \ Undone : \A p \in PagesOf(Lay(sb), id) : mem'[p] = mem[p]
    BY Reopening
<1>2. \A id : Kept(id) <=> id \in DOMAIN objs /\ Fine(sb, id)
    BY DEF Kept, Fine
<1>3. \A id \in DOMAIN objs : Fine(sb, id) => id \notin Undone
    BY <1>1, <1>2 DEF SInv, Unlisted, Undone
<1>4. \A id \in DOMAIN objs' :
          /\ id \in Numbers(sb) /\ objs'[id].key = Some.key
          /\ Fine(sb, id) => Holds(Lay(sb), mem', id, objs'[id].val, Some.key)
    <2> SUFFICES ASSUME NEW id \in DOMAIN objs
                 PROVE  /\ id \in Numbers(sb) /\ objs[id].key = Some.key
                        /\ Fine(sb, id) => Holds(Lay(sb), mem', id, objs[id].val, Some.key)
        BY <1>1
    <2>1. id \in Numbers(sb) /\ objs[id].key = Some.key
        BY DEF SInv, Whole
    <2>2. ASSUME Fine(sb, id) PROVE Holds(Lay(sb), mem', id, objs[id].val, Some.key)
        <3>1. Holds(Lay(sb), mem, id, objs[id].val, Some.key)
            BY <1>2, <2>2 DEF SInv, Whole
        <3>2. \A p \in PagesOf(Lay(sb), id) : mem'[p] = mem[p]
            BY <1>1, <1>3, <2>1, <2>2
        <3> QED BY <3>1, <3>2 DEF Holds
    <2> QED BY <2>1, <2>2
<1>5. \A j \in Index(sb) : PutBy(j)' = {} /\ TakenBy(j)' = {}
    BY <1>1 DEF PutBy, TakenBy
<1>6. \A id \in safe' : Fine(sb, id) /\ id \in safe /\ id \in DOMAIN objs /\ objs'[id] = objs[id]
    BY <1>1 DEF MInv, CountsOK, SInv, SafeKept, Kept, Fine
<1> QED BY <1>1, <1>4, <1>5, <1>6, Onward

\* The last step of pmb_close: no transaction was under way.
LEMMA UnmapStored == ASSUME Steady, MInv, SInv, CloseUnmap PROVE SInv'
<1>1. /\ h # None /\ h' = None /\ UNCHANGED <<sb, mem, disk, objs, safe>>
      /\ \A i \in Slots : tx[i] = "idle"
    BY DEF CloseUnmap, MInv, ThreadOK
<1>2. Slots = Index(sb)
    BY <1>1, Mapped DEF MInv
<1>3. \A i \in Index(sb) : i # 0 => mem[Sp(sb, i)].is # "log"
    BY <1>1, <1>2 DEF MInv, TxOK
<1>4. \A id : Kept(id)' <=> Kept(id)
    BY <1>1 DEF Kept
<1>5. Whole'
    BY <1>1, <1>4 DEF SInv, Whole
<1>6. Unlisted'
    BY <1>1, <1>3, <1>4 DEF SInv, Unlisted
<1>7. SafeKept'
    BY <1>1, <1>4 DEF SInv, SafeKept
<1> QED BY <1>5, <1>6, <1>7 DEF SInv

\* Power fails: every page keeps the old or the new content, and an object that
\* was synchronised has the same in both.
LEMMA PowerStored == ASSUME Steady, MInv, SInv, PowerFail PROVE SInv'
<1>1. /\ UNCHANGED <<sb, safe>> /\ h' = None /\ disk' = mem' /\ Up
      /\ \A p \in Pages : mem'[p] \in {mem[p], disk[p]}
      /\ objs' = [id \in safe |-> objs[id]]
    BY Failing
<1>2. Placed(sb) /\ h # None /\ safe \subseteq DOMAIN objs
    BY <1>1, Mapped DEF MInv, Up, CountsOK
<1>3. DOMAIN objs' = safe /\ \A id \in safe : objs'[id] = objs[id]
    BY <1>1
<1>4. \A id : Kept(id)' <=> Kept(id) /\ id \in safe
    BY <1>1, <1>2, <1>3 DEF Kept
<1>5. ASSUME NEW id \in safe, Kept(id) PROVE Holds(Lay(sb), mem', id, objs[id].val, Some.key)
    <2>1. /\ Holds(Lay(sb), mem, id, objs[id].val, Some.key)
          /\ Holds(Lay(sb), disk, id, objs[id].val, Some.key) /\ id \in Numbers(sb)
        BY <1>2, <1>5 DEF SInv, Whole
    <2>2. PagesOf(Lay(sb), id) \subseteq Pages
        BY <1>2, <2>1 DEF Placed
    <2> QED BY <1>1, <2>1, <2>2 DEF Holds
<1>6. ASSUME NEW id \in safe, Kept(id), NEW i \in Index(sb), i # 0, mem'[Sp(sb, i)].is = "log"
      PROVE  id \notin mem'[Sp(sb, i)].puts
    <2>1. Sp(sb, i) \in Pages
        BY <1>2 DEF Placed
    <2>2. CASE mem'[Sp(sb, i)] = mem[Sp(sb, i)]
        <3>1. tx[i] # "idle"
            BY <1>2, <1>6, <2>2 DEF MInv, TxOK
        <3>2. id \in DOMAIN objs /\ Fine(sb, id)
            BY <1>6 DEF Kept, Fine
        <3>3. id \notin PutBy(i) /\ id \notin free
            BY <1>1, <3>2, KeptFacts
        <3>4. tx[i] = "begun" => mem[Sp(sb, i)].puts = {}
            BY <1>2, <1>6 DEF MInv, TxOK
        <3>5. tx[i] = "undone" => mem[Sp(sb, i)].puts \subseteq free
            BY <1>2 DEF MInv, Apart, ReturnedBy
        <3>6. tx[i] \in TxStates
            BY <1>2 DEF MInv, TxOK
        <3> QED BY <2>2, <3>1, <3>3, <3>4, <3>5, <3>6 DEF PutBy, TxStates
    <2>3. CASE mem'[Sp(sb, i)] = disk[Sp(sb, i)]
        BY <1>2, <1>6, <2>3 DEF SInv, Unlisted
    <2> QED BY <1>1, <2>1, <2>2, <2>3
<1>7. Whole'
    <2>1. \A id \in safe : id \in Numbers(sb) /\ objs[id].key = Some.key
        BY <1>2 DEF SInv, Whole
    <2> QED BY <1>1, <1>3, <1>4, <1>5, <2>1 DEF Whole
<1>8. Unlisted'
    BY <1>1, <1>3, <1>4, <1>6 DEF Unlisted
<1>9. SafeKept'
    BY <1>1, <1>4 DEF SInv, SafeKept
<1> QED BY <1>7, <1>8, <1>9 DEF SInv

\* Every step keeps the invariant of what is stored.
LEMMA SInvStep == ASSUME Steady, ~ Torn, ~ Overlap, MInv, SInv, [Next]_vars PROVE SInv'
<1>1. CASE UNCHANGED vars
    <2>1. UNCHANGED <<sb, h, tx, mem, disk, objs, safe>>
        BY <1>1 DEF vars
    <2>2. \A id : Kept(id)' <=> Kept(id)
        BY <2>1 DEF Kept
    <2>3. \A j : PutBy(j)' = PutBy(j) /\ TakenBy(j)' = TakenBy(j)
        BY <2>1 DEF PutBy, TakenBy
    <2>4. Whole'
        BY <2>1, <2>2 DEF SInv, Whole
    <2>5. Unlisted'
        BY <2>1, <2>2, <2>3 DEF SInv, Unlisted
    <2>6. SafeKept'
        BY <2>1, <2>2 DEF SInv, SafeKept
    <2> QED BY <2>4, <2>5, <2>6 DEF SInv
<1>2. MInv'
    BY MInvStep
<1>3. ASSUME NEW o \in Opts, Create(o) PROVE SInv'
    <2>1. DOMAIN objs' = {} /\ safe' = {}
        BY <1>3 DEF Create, MInv, HandleOK
    <2> QED BY <2>1 DEF SInv, Whole, Unlisted, SafeKept
<1>4. ASSUME NEW o \in Opts, Reopen(o) PROVE SInv'
    BY <1>2, <1>4, ReopenStored
<1>5. CASE TxActions
    <2>1. PICK i \in Slots : TxBegin(i) \/ TxInit(i) \/ TxCommit(i) \/ ExecZero(i) \/ ExecEnd(i)
             \/ TxAbort(i) \/ AbortZero(i) \/ AbortEnd(i)
             \/ (\E v \in Vals : TPut(i, v)) \/ (\E id \in Ids(h.map) : TDel(i, id))
        BY <1>5 DEF TxActions
    <2> QED BY <2>1, TxStored, EndStored
<1>6. CASE ThreadWake \/ ThreadPersist \/ ThreadCancelled \/ Close \/ CloseJoin
    BY <1>2, <1>6, QuietStored
<1>7. CASE CloseUnmap
    BY <1>7, UnmapStored
<1>8. CASE PowerFail
    BY <1>8, PowerStored
<1> QED BY <1>1, <1>3, <1>4, <1>5, <1>6, <1>7, <1>8, NextCases

\* Executed objects in the part of the pool that backend_persist_all reaches
\* are whole, the synchronised ones on storage too, and no log that may still
\* be acted on names them: neither one that an abort has half undone nor what
\* an earlier transaction left in a slot, outside the windows of Torn and Overlap.
THEOREM PoolStoredInvariant == Steady /\ ~ Torn /\ ~ Overlap => (Spec => []SInv)
<1> SUFFICES ASSUME Steady, ~ Torn, ~ Overlap PROVE Spec => []SInv
    OBVIOUS
<1>1. Init => SInv
    <2>1. Init => DOMAIN objs = {} /\ safe = {}
        BY DEF Init
    <2> QED BY <2>1 DEF SInv, Whole, Unlisted, SafeKept
<1>2. MInv /\ SInv /\ [Next]_vars => SInv'
    BY SInvStep
<1>3. Spec => []MInv
    BY PoolInvariant
<1> QED BY <1>1, <1>2, <1>3, PTL DEF Spec

\* An executed object that a synchronisation has stored is read back with its
\* value after any number of transactions, closes, opens and power failures, for
\* any sizes, as long as the pool is opened with the lengths it was created
\* with.  ~ Torn and ~ Overlap leave out a failure inside tx_slot_init and a
\* block that is taken while an abort that returned it goes on: in both windows
\* the code does lose such an object.
THEOREM PoolSurvives == Steady /\ ~ Torn /\ ~ Overlap => (Spec => []Survives)
<1> SUFFICES ASSUME Steady, ~ Torn, ~ Overlap PROVE Spec => []Survives
    OBVIOUS
<1>1. MInv /\ SInv => Survives
    <2> SUFFICES ASSUME MInv, SInv, h # None, NEW id \in safe
                 PROVE  objs[id].key = h.o.key /\ Holds(h, mem, id, objs[id].val, objs[id].key)
        BY DEF Survives
    <2>1. /\ h.map = Lay(sb).map /\ h.o.key = Some.key /\ h.sb = sb
        BY Mapped DEF MInv
    <2>2. /\ PagesOf(h, id) = PagesOf(Lay(sb), id)
          /\ \A m, v, key : Holds(h, m, id, v, key) = Holds(Lay(sb), m, id, v, key)
        BY <2>1, SameView
    <2>3. Kept(id)
        BY DEF SInv, SafeKept
    <2>4. /\ objs[id].key = Some.key
          /\ Holds(Lay(sb), mem, id, objs[id].val, Some.key)
        BY <2>3 DEF SInv, Whole, Kept
    <2> QED BY <2>1, <2>2, <2>4
<1>2. Spec => []MInv
    BY PoolInvariant
<1>3. Spec => []SInv
    BY PoolStoredInvariant
<1> QED BY <1>1, <1>2, <1>3, PTL
=============================================================================

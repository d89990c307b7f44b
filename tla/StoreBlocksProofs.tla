------------------------- MODULE StoreBlocksProofs -------------------------
(***************************************************************************)
(* Who owns a block, for every number of clients, slots and blocks: no     *)
(* block is handed out twice, none is lost, what is on a free list reads   *)
(* as no object, and executed objects keep their value, under the workloads *)
(* that Ordinary describes.                                                *)
(***************************************************************************)
EXTENDS StoreRollbackProofs, FiniteSetTheorems

\* The use of the store for which the blocks are safe.  The library meets an
\* ordinary caller: a transaction is executed only once it is committed, its
\* operations name objects that exist, that it has not taken away, and of the
\* region the call is for.  The last data block, which shares its address with
\* the first meta block, is not used next to meta objects.  The list of blocks
\* to refresh reads as zero as far as a transaction can fill it.  The process
\* does not end in the middle of an abort, nor of a transaction that takes
\* away what it has put, nor inside tx_slot_init.  And no payload's bytes
\* happen to read as an entry of the log.
Ordinary ==
    /\ ~ Fresh
    /\ ~ May("early") /\ ~ May("absent") /\ ~ May("again") /\ ~ May("cross")
    /\ ~ May("torn") /\ ~ May("alike")
    /\ ~ (May("meta") /\ May("brim"))
    /\ May("crash") => ~ May("abort") /\ ~ May("own")
    /\ \A n \in Clean : MaxLog <= 2 * n

-----------------------------------------------------------------------------
(* Logs. *)

\* The blocks that can hold objects: of the two that share an address, one.
Usable == {id \in DataIds : id # D - 1 \/ ~ May("meta")}
            \cup {id \in MetaIds : May("meta")}

TakeAt(e, id) == e.op \in {"UPDATE", "REMOVE"} /\ e.id1 = id
PatchAt(e, id) == e.op = "UPDINPLACE" /\ e.id1 = id

EntryOK(e) ==
    /\ e.op \in Ops \cup {"TEXT", "BLANK"}
    /\ e.op \in {"WRITE", "UPDATE", "UPDINPLACE"} => e.val \in Vals
    /\ e.op \in Ops => e.id1 \in Usable
    /\ e.op = "UPDATE" => e.id2 \in Usable
    /\ e.op = "UPDINPLACE" => e.id1 \in DataIds
    /\ e.op \in {"TEXT", "BLANK"} => e.id1 = 0

\* What a log says of a block: it is written afresh once at most, taken away
\* once at most, taken away or patched but not both, and it is written before
\* it is taken away or patched.
Once(log) ==
    \A k, l \in 1 .. Len(log) : \A id \in Ids :
        /\ NewAt(log[k], id) /\ NewAt(log[l], id) => k = l
        /\ TakeAt(log[k], id) /\ TakeAt(log[l], id) => k = l
        /\ ~ (TakeAt(log[k], id) /\ PatchAt(log[l], id))
        /\ NewAt(log[k], id) /\ (TakeAt(log[l], id) \/ PatchAt(log[l], id)) => k < l /\ May("own")

Shape(log) ==
    /\ Len(log) <= MaxLog
    /\ \A k \in 1 .. Len(log) : EntryOK(log[k])
    /\ \A k \in 1 .. Len(log) : log[k].op = "UPDINPLACE" =>
            k < Len(log) /\ log[k + 1].op \in {"TEXT", "BLANK"}
    /\ Once(log)

-----------------------------------------------------------------------------
(* What a client whose walk over log is at pc and pos has to do with block id. *)

Early == {"begin", "open", "put", "putmeta", "committed"}
Working == Early \cup {"exec", "free"}

\* The walk has pushed the block.
Given(log, pc, pos, id) ==
    \E k \in 1 .. Len(log) :
        /\ k < pos
        /\ \/ pc \in {"exec", "free"} /\ TakeAt(log[k], id)
           \/ pc \notin {"exec", "free"} /\ MakesNew(log[k]) /\ NewBlock(log[k]) = id

\* It wrote the block afresh and has not pushed it.
OwnsIn(log, pc, pos, id) ==
    /\ pc # "idle"
    /\ \E k \in 1 .. Len(log) : NewAt(log[k], id)
    /\ ~ Given(log, pc, pos, id)

\* It has zeroed the block and not pushed it yet.
LimboIn(log, pc, pos, id) == pc = "free" /\ log[pos].id1 = id

HoldsIn(log, pc, pos, id) == OwnsIn(log, pc, pos, id) \/ LimboIn(log, pc, pos, id)

\* It is going to take the block away or to patch it.
ClaimsIn(log, pc, pos, id) ==
    /\ pc \in Working
    /\ \E k \in 1 .. Len(log) :
        \/ PatchAt(log[k], id)
        \/ TakeAt(log[k], id) /\ k >= pos /\ (pc = "free" => k # pos)

\* The put of the block has logged it and not written it yet.
InPutIn(log, pc, id) == pc \in {"put", "putmeta"} /\ NewAt(log[Len(log)], id)

\* Stride k has put a value into the block, and it was the last one to do so.
Wrote(log, pos, k, id) == NewAt(log[k], id) \/ (PatchAt(log[k], id) /\ k < pos)
LastWrote(log, pos, k, id) ==
    Wrote(log, pos, k, id) /\ \A j \in 1 .. Len(log) : Wrote(log, pos, j, id) => j <= k

\* Where a client stands in its log.
PlaceIn(log, pc, pos) ==
    /\ pc \in Early => pos = 0
    /\ pc \in {"abort", "abfree"} => May("abort")
    /\ pc = "free" => log[pos].op \in {"UPDATE", "REMOVE"}
    /\ pc = "abfree" => MakesNew(log[pos])
    /\ pc = "put" => \E b \in DataIds : NewAt(log[Len(log)], b)
    /\ pc = "putmeta" => \E b \in MetaIds : NewAt(log[Len(log)], b)

\* The blocks to refresh are among those the log patches, and no more than
\* the walk has passed.
RefreshIn(log, pc, pos, u) ==
    pc \in {"exec", "free"} =>
        /\ 2 * Cardinality(DOMAIN u) <= pos - 1
        /\ \A id \in DOMAIN u : \E k \in 1 .. Len(log) : PatchAt(log[k], id)

\* A block that the client owns and has written holds the last value put into
\* it, under a checksum that verifies unless it is to be refreshed.
ContentIn(log, pc, pos, u, m) ==
    \A id \in Ids :
        /\ pc \in Working
        /\ OwnsIn(log, pc, pos, id) /\ ~ LimboIn(log, pc, pos, id) /\ ~ InPutIn(log, pc, id)
        => /\ m[Direct(id)].sum # "zero"
           /\ m[Direct(id)].sum = Region(id) \/ id \in DOMAIN u
           /\ \A k \in 1 .. Len(log) :
                LastWrote(log, pos, k, id) => m[Direct(id)].val = log[k].val

\* A block about to be pushed is zero.
ZeroedIn(log, pc, pos, m) ==
    /\ pc = "free" => m[Direct(log[pos].id1)].sum = "zero"
    /\ pc = "abfree" /\ log[pos].op # "BLANK" => m[Direct(NewBlock(log[pos]))].sum = "zero"

-----------------------------------------------------------------------------
(* The invariant. *)

Idx(c) == cl[c].tx - 1
Frees == free \cup mfree

Owns(c, id) == OwnsIn(Log(c), cl[c].pc, cl[c].pos, id)
Holds(c, id) == HoldsIn(Log(c), cl[c].pc, cl[c].pos, id)
Claims(c, id) == ClaimsIn(Log(c), cl[c].pc, cl[c].pos, id)

\* Nobody else has to do with the block.
Alone(c, id) == \A d \in Clients \ {c} : ~ Holds(d, id) /\ ~ Claims(d, id)

Shapes == \A i \in Index : Shape(slot[i].log)

PrivateOK(c) ==
    /\ PlaceIn(Log(c), cl[c].pc, cl[c].pos)
    /\ RefreshIn(Log(c), cl[c].pc, cl[c].pos, upd[Idx(c)])
    /\ ContentIn(Log(c), cl[c].pc, cl[c].pos, upd[Idx(c)], cell)
    /\ ZeroedIn(Log(c), cl[c].pc, cl[c].pos, cell)

Privates == \A c \in Clients : cl[c].pc # "idle" => PrivateOK(c)

\* A block is held by one client at most, which is the only one to have to do
\* with it; what a client claims is an object or its own.
Apart ==
    /\ \A c \in Clients : \A id \in Ids :
        /\ Holds(c, id) => obj[id] = None /\ id \notin Frees
        /\ Claims(c, id) => obj[id] # None \/ Owns(c, id)
    /\ \A c \in Clients : \A d \in Clients \ {c} : \A id \in Ids :
        /\ ~ (Holds(c, id) /\ Holds(d, id))
        /\ ~ (Claims(c, id) /\ Claims(d, id))

\* An object is intact but for what an execution is going to refresh; a free
\* block is no object.
ObjAt(id) ==
    obj[id] # None =>
        /\ id \in Usable /\ id \notin Frees
        /\ cell[Direct(id)].val = obj[id]
        /\ cell[Direct(id)].sum # "zero"
        /\ cell[Direct(id)].sum = Region(id) \/ InFlux(id)

FreeAt(id) == id \in Frees => ~ Valid(cell, id)

Points == \A id \in Ids : ObjAt(id) /\ FreeAt(id)

\* No block is lost.
AccountedAt(id) == obj[id] # None \/ id \in Frees \/ \E c \in Clients : Holds(c, id)

Accounted == Up /\ ~ May("late") => \A id \in Ids : AccountedAt(id)

\* The content of the blocks: no checksum verifies for a block that is not used.
CellsOK ==
    /\ \A id \in Ids : Valid(cell, id) => id \in Usable
    /\ \A a \in Addrs : cell[a].sum # "zero" => cell[a].val \in Vals

Regions == free \subseteq DataIds /\ mfree \subseteq MetaIds

\* Blocks to refresh, and logs that tx_log_check would read, are a client's.
RefreshOwned ==
    \A i \in Index : DOMAIN upd[i] # {} =>
        \E c \in Clients : cl[c].tx = i + 1 /\ cl[c].pc \in {"exec", "free"}

LogsOwned ==
    Up => \A i \in Checked : slot[i].status # "EMPTY" =>
            \E c \in Clients : cl[c].tx = i + 1 /\ cl[c].pc # "release"

\* During pmb_open the blocks that tx_log_check zeroes are no objects.
Recovering ==
    ~ Up => /\ free = {} /\ mfree = {} /\ rec.idx >= 1
            /\ \A i \in Index : DOMAIN upd[i] = {}
            /\ \A i \in Checked : i < rec.idx => slot[i].status = "EMPTY"
            /\ \A i \in Checked, id \in Ids :
                slot[i].status # "EMPTY" /\ (\E k \in 1 .. Len(slot[i].log) : NewAt(slot[i].log[k], id)) => obj[id] = None

CleanOK == clean \in [Index -> Clean]

BInv ==
    /\ IInv /\ Marked
    /\ Shapes /\ Privates /\ Apart /\ Points /\ Accounted /\ CellsOK /\ Regions
    /\ RefreshOwned /\ LogsOwned /\ Recovering /\ CleanOK

-----------------------------------------------------------------------------
(* Blocks. *)

\* Blocks that can hold objects are blocks.
LEMMA UsableIds == Usable \subseteq Ids /\ 0 \notin Ids /\ Ids = DataIds \cup MetaIds
BY DAssumption, MAssumption DEF Usable, Ids, DataIds, MetaIds

\* No two of them share an address, and none has that of block 0.
LEMMA DirectApart ==
    ASSUME NEW x \in Usable \cup {0}, NEW y \in Usable, x # y
    PROVE  Direct(x) # Direct(y)
BY DAssumption, MAssumption DEF Usable, Ids, DataIds, MetaIds, Direct

\* The two blocks that share an address belong to different regions.
LEMMA RegionApart ==
    ASSUME NEW x \in Ids \cup {0}, NEW y \in Ids, x # y, Direct(x) = Direct(y)
    PROVE  Region(x) # Region(y)
BY DAssumption, MAssumption DEF Ids, Direct, Region

\* A write to one block leaves the blocks that are not used without a checksum
\* that verifies.
LEMMA WriteCells ==
    ASSUME BlocksOK, BlocksOK', CellsOK, NEW x \in Usable \cup {0},
           \A a \in Addrs \ {Direct(x)} : cell'[a] = cell[a],
           cell'[Direct(x)].sum \in {"zero", "bad", cell[Direct(x)].sum}
             \/ (x \in Usable /\ cell'[Direct(x)].sum = Region(x)),
           cell'[Direct(x)].sum # "zero" => cell'[Direct(x)].val \in Vals
    PROVE  /\ CellsOK'
           /\ \A id \in Usable \ {x} : cell'[Direct(id)] = cell[Direct(id)]
<1>1. \A id \in Ids \cup {0} : Direct(id) \in Addrs
    BY DirectAddr
<1>2. x \in Ids \cup {0}
    BY UsableIds
<1>3. \A id \in Usable \ {x} : cell'[Direct(id)] = cell[Direct(id)]
    BY <1>1, DirectApart, UsableIds
<1>4. ASSUME NEW id \in Ids, Valid(cell', id) PROVE id \in Usable
    <2>1. CASE Direct(id) # Direct(x)
        BY <1>1, <1>4, <2>1 DEF CellsOK, Valid, Exists
    <2>2. CASE Direct(id) = Direct(x) /\ cell'[Direct(x)].sum = cell[Direct(x)].sum
        BY <1>4, <2>2 DEF CellsOK, Valid, Exists
    <2>3. CASE Direct(id) = Direct(x) /\ cell'[Direct(x)].sum \in {"zero", "bad"}
        BY <1>4, <2>3 DEF Valid, Exists, Region
    <2>4. CASE Direct(id) = Direct(x) /\ x \in Usable /\ cell'[Direct(x)].sum = Region(x)
        BY <1>2, <1>4, <2>4, RegionApart DEF Valid, Exists
    <2> QED BY <2>1, <2>2, <2>3, <2>4
<1>5. \A a \in Addrs : cell'[a].sum # "zero" => cell'[a].val \in Vals
    BY DEF CellsOK
<1> QED BY <1>3, <1>4, <1>5 DEF CellsOK

-----------------------------------------------------------------------------
(* What a log says of the blocks a client has to do with. *)

\* An empty log is well-formed and has to do with no block.
LEMMA EmptyShape ==
    /\ Len(<< >>) = 0 /\ Shape(<< >>)
    /\ \A pc, pos, id : ~ OwnsIn(<< >>, pc, pos, id) /\ ~ ClaimsIn(<< >>, pc, pos, id)
<1>1. Len(<< >>) = 0 /\ 1 .. 0 = {}
    OBVIOUS
<1>2. Shape(<< >>)
    BY <1>1, MaxAssumption DEF Shape, Once
<1>3. \A pc, pos, id : ~ OwnsIn(<< >>, pc, pos, id) /\ ~ ClaimsIn(<< >>, pc, pos, id)
    BY <1>1 DEF OwnsIn, ClaimsIn
<1> QED BY <1>1, <1>2, <1>3

\* A client that is not idle has a well-formed log.
LEMMA LogFacts ==
    ASSUME IInv, Shapes, NEW c \in Clients, cl[c].pc # "idle"
    PROVE  /\ Log(c) \in Seq(Stride) /\ Shape(Log(c)) /\ Len(Log(c)) \in Nat
           /\ Idx(c) \in Index /\ Up
           /\ cl[c].pc \notin {"begin", "release"} => Log(c) = slot[Idx(c)].log
           /\ cl[c].pc \in {"begin", "release"} => Log(c) = << >>
           /\ cl[c].pos \in Nat /\ cl[c].pc \in PCs /\ c \in Holding
           /\ \A k \in 1 .. Len(Log(c)) : Log(c)[k] \in Stride /\ EntryOK(Log(c)[k])
<1>1. /\ LogOK(Log(c)) /\ Len(Log(c)) \in Nat /\ Idx(c) \in Index /\ Up /\ c \in Holding
      /\ cl[c] \in Client
    BY HeldSlot DEF Idx
<1>2. /\ cl[c].pc \notin {"begin", "release"} => Log(c) = slot[Idx(c)].log
      /\ cl[c].pc \in {"begin", "release"} => Log(c) = << >>
    BY DEF Log, Idx
<1>3. Shape(Log(c))
    BY <1>1, <1>2, EmptyShape DEF Shapes
<1> QED BY <1>1, <1>2, <1>3 DEF LogOK, Shape, Client

\* What a client holds or claims can hold an object.
LEMMA HasUsable ==
    ASSUME NEW log \in Seq(Stride), Shape(log), NEW pc, NEW pos,
           pc = "free" => pos \in 1 .. Len(log) /\ log[pos].op \in {"UPDATE", "REMOVE"},
           NEW id, HoldsIn(log, pc, pos, id) \/ ClaimsIn(log, pc, pos, id)
    PROVE  id \in Usable
<1>1. \A k \in 1 .. Len(log) : EntryOK(log[k])
    BY DEF Shape
<1>2. CASE OwnsIn(log, pc, pos, id)
    BY <1>1, <1>2 DEF OwnsIn, NewAt, EntryOK, Ops
<1>3. CASE LimboIn(log, pc, pos, id)
    BY <1>1, <1>3 DEF LimboIn, EntryOK, Ops
<1>4. CASE ClaimsIn(log, pc, pos, id)
    BY <1>1, <1>4 DEF ClaimsIn, TakeAt, PatchAt, EntryOK, Ops
<1> QED BY <1>2, <1>3, <1>4 DEF HoldsIn

\* The same for a client of the store.
LEMMA HasUsableClient ==
    ASSUME BInv, NEW c \in Clients, NEW id, Holds(c, id) \/ Claims(c, id)
    PROVE  id \in Usable /\ cl[c].pc # "idle"
<1>1. cl[c].pc # "idle"
    BY DEF Holds, HoldsIn, OwnsIn, LimboIn, Claims, ClaimsIn, Working, Early
<1>2. Log(c) \in Seq(Stride) /\ Shape(Log(c))
    BY <1>1, LogFacts DEF BInv
<1>3. cl[c].pc = "free" => /\ cl[c].pos \in 1 .. Len(Log(c))
                           /\ Log(c)[cl[c].pos].op \in {"UPDATE", "REMOVE"}
    BY <1>1 DEF BInv, IInv, WalksOK, Standing, Privates, PrivateOK, PlaceIn
<1> QED BY <1>1, <1>2, <1>3, HasUsable DEF Holds, Claims

\* An abort owns the block that it has zeroed.
LEMMA AbfreeOwns ==
    ASSUME NEW log \in Seq(Stride), Shape(log), NEW pc \in {"abort", "abfree"},
           NEW pos \in 1 .. Len(log), log[pos].op \in {"WRITE", "UPDATE"}
    PROVE  OwnsIn(log, pc, pos, NewBlock(log[pos])) /\ NewBlock(log[pos]) \in Usable
<1> DEFINE x == NewBlock(log[pos])
<1>1. x \in Usable /\ NewAt(log[pos], x)
    BY DEF Shape, EntryOK, NewBlock, NewAt, Ops
<1>2. x \in Ids /\ x # 0
    BY <1>1, UsableIds
<1> HIDE DEF x
<1>3. ASSUME NEW k \in 1 .. Len(log), k < pos, MakesNew(log[k]), NewBlock(log[k]) = x PROVE FALSE
    <2>1. EntryOK(log[k])
        BY DEF Shape
    <2>2. NewAt(log[k], x)
        BY <1>2, <1>3, <2>1 DEF EntryOK, Ops, MakesNew, NewBlock, NewAt
    <2>3. k = pos
        BY <1>1, <1>2, <2>2 DEF Shape, Once
    <2> QED BY <1>3, <2>3
<1> QED BY <1>1, <1>3 DEF OwnsIn, Given, x

-----------------------------------------------------------------------------
(* Steps of one client. *)

\* Who holds or claims a block is the only one to have to do with it.
LEMMA AloneHas ==
    ASSUME BInv, NEW c \in Clients, NEW id \in Ids, Holds(c, id) \/ Claims(c, id)
    PROVE  Alone(c, id)
<1> SUFFICES ASSUME NEW d \in Clients \ {c} PROVE ~ Holds(d, id) /\ ~ Claims(d, id)
    BY DEF Alone
<1>1. \A e \in Clients : Owns(e, id) => Holds(e, id)
    BY DEF Owns, Holds, HoldsIn
<1> QED BY <1>1 DEF BInv, Apart

\* Nobody has to do with a free block.
LEMMA AloneFree ==
    ASSUME BInv, NEW c \in Clients, NEW id \in Ids, id \in Frees
    PROVE  Alone(c, id) /\ ~ Holds(c, id) /\ ~ Claims(c, id) /\ obj[id] = None
<1>1. \A e \in Clients : Owns(e, id) => Holds(e, id)
    BY DEF Owns, Holds, HoldsIn
<1>2. obj[id] = None
    BY DEF BInv, Points, ObjAt
<1>3. \A e \in Clients : ~ Holds(e, id) /\ ~ Claims(e, id)
    BY <1>1, <1>2 DEF BInv, Apart
<1> QED BY <1>2, <1>3 DEF Alone

\* A client whose log and place are the same has to do with the same blocks.
LEMMA SameClient ==
    ASSUME NEW d \in Clients, cl'[d] = cl[d],
           cl[d].pc # "idle" => slot'[Idx(d)] = slot[Idx(d)]
    PROVE  \A id : /\ Holds(d, id)' <=> Holds(d, id)
                   /\ Claims(d, id)' <=> Claims(d, id)
                   /\ Owns(d, id)' <=> Owns(d, id)
<1>1. CASE cl[d].pc = "idle"
    BY <1>1 DEF Holds, HoldsIn, OwnsIn, LimboIn, Claims, ClaimsIn, Working, Early, Owns
<1>2. CASE cl[d].pc # "idle"
    <2>1. Log(d)' = Log(d)
        BY <1>2 DEF Log, Idx
    <2> QED BY <2>1 DEF Holds, Claims, Owns
<1> QED BY <1>1, <1>2

\* A step of client c that changes the blocks in X and no others, and that has
\* nobody else's blocks in X.
Acts(c, X) ==
    /\ \A d \in Clients \ {c} :
        /\ cl'[d] = cl[d]
        /\ cl[d].pc # "idle" => slot'[Idx(d)] = slot[Idx(d)] /\ upd'[Idx(d)] = upd[Idx(d)]
    /\ \A x \in X : Alone(c, x)
    /\ \A id \in Ids \ X :
        /\ obj'[id] = obj[id]
        /\ id \in Frees' <=> id \in Frees
        /\ Holds(c, id)' <=> Holds(c, id)
        /\ InFlux(id) => InFlux(id)'
    /\ \A id \in Usable \ X : cell'[Direct(id)] = cell[Direct(id)]

\* What it leaves behind: the blocks in X are in order, and what it claims is
\* an object or its own.
Settles(c, X) ==
    /\ \A x \in X \cap Ids :
        /\ Holds(c, x)' => obj'[x] = None /\ x \notin Frees'
        /\ ObjAt(x)' /\ FreeAt(x)'
        /\ ~ May("late") => AccountedAt(x)'
    /\ \A id \in Ids : Claims(c, id)' => (obj'[id] # None \/ Owns(c, id)') /\ Alone(c, id)
    /\ cl'[c].pc # "idle" => PrivateOK(c)'

\* The other clients find their logs and blocks as they were.
LEMMA OthersKeep ==
    ASSUME BInv, NEW c \in Clients, NEW X, Acts(c, X), NEW d \in Clients \ {c}, cl[d].pc # "idle"
    PROVE  PrivateOK(d)'
<1>1. cl'[d] = cl[d] /\ slot'[Idx(d)] = slot[Idx(d)] /\ upd'[Idx(d)] = upd[Idx(d)]
    BY DEF Acts
<1>2. Log(d)' = Log(d) /\ Idx(d)' = Idx(d)
    BY <1>1 DEF Log, Idx
<1>3. PrivateOK(d) /\ Standing(d)
    BY DEF BInv, Privates, IInv, WalksOK
<1>4. Log(d) \in Seq(Stride) /\ Shape(Log(d))
    BY LogFacts DEF BInv
<1>5. \A id \in Ids : Holds(d, id) => id \in Usable \ X
    BY HasUsableClient DEF Acts, Alone
<1>6. \A id \in Ids : Holds(d, id) => cell'[Direct(id)] = cell[Direct(id)]
    BY <1>5 DEF Acts
<1>7. ContentIn(Log(d), cl[d].pc, cl[d].pos, upd[Idx(d)], cell')
    <2>1. \A id \in Ids : OwnsIn(Log(d), cl[d].pc, cl[d].pos, id) =>
                cell'[Direct(id)] = cell[Direct(id)]
        BY <1>6 DEF Holds, HoldsIn
    <2>2. ContentIn(Log(d), cl[d].pc, cl[d].pos, upd[Idx(d)], cell)
        BY <1>3 DEF PrivateOK
    <2> QED BY <2>1, <2>2 DEF ContentIn
<1>8. ZeroedIn(Log(d), cl[d].pc, cl[d].pos, cell')
    <2> DEFINE e == Log(d)[cl[d].pos]
    <2>0. ZeroedIn(Log(d), cl[d].pc, cl[d].pos, cell)
        BY <1>3 DEF PrivateOK
    <2>1. ASSUME cl[d].pc = "free" PROVE cell'[Direct(e.id1)] = cell[Direct(e.id1)]
        <3>1. Holds(d, e.id1)
            BY <2>1 DEF Holds, HoldsIn, LimboIn
        <3>2. e.id1 \in Ids
            BY <3>1, HasUsableClient, UsableIds
        <3> QED BY <1>6, <3>1, <3>2
    <2>2. ASSUME cl[d].pc = "abfree", e.op # "BLANK"
          PROVE  cell'[Direct(NewBlock(e))] = cell[Direct(NewBlock(e))]
        <3>1. cl[d].pos \in 1 .. Len(Log(d)) /\ MakesNew(e)
            BY <1>3, <2>2 DEF Standing, PrivateOK, PlaceIn
        <3>2. e.op \in {"WRITE", "UPDATE"}
            BY <1>4, <2>2, <3>1 DEF MakesNew, Shape, EntryOK, Ops
        <3>3. Holds(d, NewBlock(e)) /\ NewBlock(e) \in Ids
            BY <1>4, <2>2, <3>1, <3>2, AbfreeOwns, UsableIds DEF Holds, HoldsIn
        <3> QED BY <1>6, <3>3
    <2> QED BY <2>0, <2>1, <2>2 DEF ZeroedIn
<1> QED BY <1>1, <1>2, <1>3, <1>7, <1>8 DEF PrivateOK

\* Such a step keeps the clients apart.
LEMMA ApartKeep ==
    ASSUME BInv, NEW c \in Clients, NEW X, Acts(c, X), Settles(c, X)
    PROVE  Apart'
<1>1. ASSUME NEW d \in Clients \ {c}
      PROVE  \A id : /\ Holds(d, id)' <=> Holds(d, id)
                     /\ Claims(d, id)' <=> Claims(d, id)
                     /\ Owns(d, id)' <=> Owns(d, id)
    BY SameClient DEF Acts
<1>2. \A id \in Ids \ X : /\ obj'[id] = obj[id] /\ (id \in Frees' <=> id \in Frees)
                          /\ Holds(c, id)' <=> Holds(c, id)
    BY DEF Acts
<1>3. \A x \in X : Alone(c, x)
    BY DEF Acts
<1>4. \A x \in X \cap Ids : Holds(c, x)' => obj'[x] = None /\ x \notin Frees'
    BY DEF Settles
<1>5. \A id \in Ids : Claims(c, id)' => (obj'[id] # None \/ Owns(c, id)') /\ Alone(c, id)
    BY DEF Settles
<1>6. Apart
    BY DEF BInv
<1>7. ASSUME NEW id \in Ids, Holds(c, id)' PROVE obj'[id] = None /\ id \notin Frees' /\ Alone(c, id)
    <2>1. CASE id \in X
        BY <1>3, <1>4, <1>7, <2>1
    <2>2. CASE id \notin X
        BY <1>2, <1>6, <1>7, <2>2, AloneHas DEF Apart
    <2> QED BY <2>1, <2>2
<1>8. ASSUME NEW d \in Clients \ {c}, NEW id \in Ids
      PROVE  /\ Holds(d, id)' => obj'[id] = None /\ id \notin Frees'
             /\ Claims(d, id)' => obj'[id] # None \/ Owns(d, id)'
    <2>1. CASE id \in X
        BY <1>1, <1>3, <2>1 DEF Alone
    <2>2. CASE id \notin X
        BY <1>1, <1>2, <1>6, <2>2 DEF Apart
    <2> QED BY <2>1, <2>2
<1>9. ASSUME NEW d \in Clients \ {c}, NEW id \in Ids
      PROVE  ~ (Holds(c, id)' /\ Holds(d, id)') /\ ~ (Claims(c, id)' /\ Claims(d, id)')
    BY <1>1, <1>5, <1>7 DEF Alone
<1>10. ASSUME NEW d \in Clients \ {c}, NEW e \in Clients \ {c}, d # e, NEW id \in Ids
       PROVE  ~ (Holds(e, id)' /\ Holds(d, id)') /\ ~ (Claims(e, id)' /\ Claims(d, id)')
    BY <1>1, <1>6, <1>10 DEF Apart
<1>11. \A d \in Clients : \A id \in Ids :
        /\ Holds(d, id)' => obj'[id] = None /\ id \notin Frees'
        /\ Claims(d, id)' => obj'[id] # None \/ Owns(d, id)'
    BY <1>5, <1>7, <1>8
<1>12. \A d \in Clients : \A e \in Clients \ {d} : \A id \in Ids :
        ~ (Holds(d, id)' /\ Holds(e, id)') /\ ~ (Claims(d, id)' /\ Claims(e, id)')
    BY <1>9, <1>10
<1> QED BY <1>11, <1>12 DEF Apart

\* It keeps every block intact, free or accounted for.
LEMMA PointsKeep ==
    ASSUME BInv, NEW c \in Clients, NEW X, Acts(c, X), Settles(c, X), CellsOK', Up
    PROVE  Points' /\ Accounted'
<1>1. \A id \in Ids \ X : /\ obj'[id] = obj[id] /\ (id \in Frees' <=> id \in Frees)
                          /\ Holds(c, id)' <=> Holds(c, id)
                          /\ InFlux(id) => InFlux(id)'
    BY DEF Acts
<1>2. \A id \in Usable \ X : cell'[Direct(id)] = cell[Direct(id)]
    BY DEF Acts
<1>3. ASSUME NEW id \in Ids \ X PROVE ObjAt(id)' /\ FreeAt(id)'
    <2>1. ObjAt(id) /\ FreeAt(id)
        BY DEF BInv, Points
    <2>2. ObjAt(id)'
        BY <1>1, <1>2, <2>1 DEF ObjAt
    <2>3. Valid(cell', id) => id \in Usable
        BY DEF CellsOK
    <2>4. FreeAt(id)'
        BY <1>1, <1>2, <2>1, <2>3 DEF FreeAt, Valid, Exists
    <2> QED BY <2>2, <2>4
<1>4. Points'
    BY <1>3 DEF Points, Settles
<1>5. ASSUME ~ May("late"), NEW id \in Ids \ X PROVE AccountedAt(id)'
    <2>1. AccountedAt(id)
        BY <1>5 DEF BInv, Accounted
    <2>2. ASSUME NEW d \in Clients, Holds(d, id) PROVE Holds(d, id)'
        <3>1. CASE d = c
            BY <1>1, <2>2, <3>1
        <3>2. CASE d # c
            BY <2>2, <3>2, SameClient DEF Acts
        <3> QED BY <3>1, <3>2
    <2> QED BY <1>1, <2>1, <2>2 DEF AccountedAt
<1>6. Accounted'
    BY <1>5 DEF Accounted, Settles
<1> QED BY <1>4, <1>6

\* A step of one client keeps the invariant when it leaves its own blocks in
\* order.
LEMMA ActsKeep ==
    ASSUME BInv, NEW c \in Clients, NEW X, Acts(c, X), Settles(c, X), Up, UNCHANGED <<rec, clean>>,
           IInv', Marked', Shapes', CellsOK', Regions', RefreshOwned', LogsOwned'
    PROVE  BInv'
<1>1. Privates'
    BY OthersKeep DEF Privates, Settles, Acts
<1>2. Apart' /\ Points' /\ Accounted'
    BY ApartKeep, PointsKeep
<1>3. Recovering' /\ CleanOK'
    BY DEF Recovering, Up, BInv, CleanOK
<1> QED BY <1>1, <1>2, <1>3 DEF BInv

\* Nothing is to be refreshed for a client that does not execute.
LEMMA NoRefresh ==
    ASSUME BInv, NEW c \in Clients, cl[c].pc # "idle", cl[c].pc \notin {"exec", "free"}
    PROVE  DOMAIN upd[Idx(c)] = {}
<1>1. Idx(c) \in Index /\ c \in Holding /\ cl[c].tx \in SlotIds
    BY HeldSlot DEF BInv, Idx
<1>2. ASSUME NEW d \in Clients, cl[d].tx = Idx(c) + 1, cl[d].pc \in {"exec", "free"} PROVE FALSE
    <2>1. cl[d].tx = cl[c].tx
        BY <1>1, <1>2, NSlotsAssumption DEF SlotIds, Idx
    <2>2. d \in Holding
        BY <1>2, HeldSlot DEF BInv
    <2>3. d = c
        BY <1>1, <2>1, <2>2 DEF BInv, IInv, SlotExclusive
    <2> QED BY <1>2, <2>3
<1> QED BY <1>1, <1>2 DEF BInv, RefreshOwned

\* A client that keeps its slot leaves the slots of the others alone.
LEMMA MoveFrame ==
    ASSUME BInv, NEW c \in Clients, cl[c].pc # "idle", NEW p \in PCs \ {"idle"}, NEW q,
           Moves(c, p, q), UNCHANGED rec,
           \A i \in Index \ {Idx(c)} : slot'[i] = slot[i] /\ upd'[i] = upd[i],
           p \in {"exec", "free"} \/ DOMAIN upd'[Idx(c)] = {},
           p = "release" => slot'[Idx(c)].status = "EMPTY"
    PROVE  /\ \A d \in Clients \ {c} :
                /\ cl'[d] = cl[d]
                /\ cl[d].pc # "idle" => slot'[Idx(d)] = slot[Idx(d)] /\ upd'[Idx(d)] = upd[Idx(d)]
           /\ Idx(c)' = Idx(c) /\ cl'[c].pc = p /\ cl'[c].pos = q
           /\ RefreshOwned' /\ LogsOwned'
<1>0. Idx(c) \in Index /\ cl[c].tx \in SlotIds /\ IInv
    BY HeldSlot DEF BInv, Idx
<1>1. ASSUME NEW d \in Clients \ {c}, cl[d].pc # "idle" PROVE Idx(d) \in Index \ {Idx(c)}
    BY <1>0, <1>1, SlotsDiffer DEF Idx
<1>2. \A d \in Clients : cl'[d].tx = cl[d].tx
    BY DEF Moves
<1>3. \A d \in Clients \ {c} : cl'[d] = cl[d]
    BY DEF Moves
<1>4. cl[c].tx = Idx(c) + 1
    BY <1>0, NSlotsAssumption DEF Idx, SlotIds
<1>5. RefreshOwned'
    <2> SUFFICES ASSUME NEW i \in Index, DOMAIN upd'[i] # {}
                 PROVE  \E d \in Clients : cl'[d].tx = i + 1 /\ cl'[d].pc \in {"exec", "free"}
        BY DEF RefreshOwned
    <2>1. CASE i = Idx(c)
        BY <1>2, <1>4, <2>1 DEF Moves
    <2>2. CASE i # Idx(c)
        <3>1. PICK d \in Clients : cl[d].tx = i + 1 /\ cl[d].pc \in {"exec", "free"}
            BY <2>2 DEF BInv, RefreshOwned
        <3>2. d # c
            BY <1>0, <1>4, <2>2, <3>1, NSlotsAssumption DEF Index
        <3> QED BY <1>3, <3>1, <3>2
    <2> QED BY <2>1, <2>2
<1>6. LogsOwned'
    <2> SUFFICES ASSUME Up, NEW i \in Checked, slot'[i].status # "EMPTY"
                 PROVE  \E d \in Clients : cl'[d].tx = i + 1 /\ cl'[d].pc # "release"
        BY DEF LogsOwned, Up
    <2>1. i \in Index
        BY CheckedIndex
    <2>2. CASE i = Idx(c)
        BY <1>2, <1>4, <2>2 DEF Moves
    <2>3. CASE i # Idx(c)
        <3>1. slot'[i] = slot[i]
            BY <2>1, <2>3
        <3>2. PICK d \in Clients : cl[d].tx = i + 1 /\ cl[d].pc # "release"
            BY <3>1 DEF BInv, LogsOwned
        <3>3. d # c
            BY <1>0, <1>4, <2>1, <2>3, <3>2, NSlotsAssumption DEF Index
        <3> QED BY <1>3, <3>2, <3>3
    <2> QED BY <2>2, <2>3
<1> QED BY <1>1, <1>2, <1>3, <1>5, <1>6 DEF Moves, Idx

\* The other logs are as they were.
LEMMA ShapesKeep ==
    ASSUME Shapes, NEW i \in Index, Shape(slot'[i].log),
           \A j \in Index \ {i} : slot'[j] = slot[j]
    PROVE  Shapes'
BY DEF Shapes

\* Who does not move keeps what it has to do with, wherever nothing is at stake.
LEMMA FluxKeep ==
    ASSUME UNCHANGED upd
    PROVE  \A id : InFlux(id)' <=> InFlux(id)
BY DEF InFlux

-----------------------------------------------------------------------------
(* Adding to a log. *)

\* Log log2 is log and entry e, with a payload after it if e has one.
Extends(log, log2, e) ==
    /\ log2 \in Seq(Stride)
    /\ Len(log2) = IF e.op = "UPDINPLACE" THEN Len(log) + 2 ELSE Len(log) + 1
    /\ \A k \in 1 .. Len(log) : log2[k] = log[k]
    /\ log2[Len(log) + 1] = e
    /\ e.op = "UPDINPLACE" =>
        log2[Len(log) + 2].op \in {"TEXT", "BLANK"} /\ log2[Len(log) + 2].id1 = 0

\* The entry may be added: its blocks are new to the log, or it takes away or
\* patches what the log has not taken away.
MayAdd(log, e) ==
    /\ e \in Stride /\ EntryOK(e) /\ e.op \in Ops
    /\ \A k \in 1 .. Len(log) : \A id \in Ids :
        /\ NewAt(e, id) => ~ NewAt(log[k], id) /\ ~ TakeAt(log[k], id) /\ ~ PatchAt(log[k], id)
        /\ TakeAt(e, id) => /\ ~ TakeAt(log[k], id) /\ ~ PatchAt(log[k], id)
                            /\ NewAt(log[k], id) => May("own")
        /\ PatchAt(e, id) => ~ TakeAt(log[k], id) /\ (NewAt(log[k], id) => May("own"))
    /\ \A id \in Ids : ~ (NewAt(e, id) /\ TakeAt(e, id))

\* Positions of the longer log.
LEMMA ExtendsAt ==
    ASSUME NEW log \in Seq(Stride), NEW log2, NEW e, Extends(log, log2, e), NEW k \in 1 .. Len(log2)
    PROVE  \/ k \in 1 .. Len(log) /\ log2[k] = log[k]
           \/ k = Len(log) + 1 /\ log2[k] = e
           \/ /\ k = Len(log) + 2 /\ e.op = "UPDINPLACE"
              /\ log2[k].op \in {"TEXT", "BLANK"} /\ log2[k].id1 = 0
<1>1. Len(log) \in Nat
    BY LenProperties
<1> QED BY <1>1 DEF Extends

\* The longer log is well-formed.
LEMMA ExtendsShape ==
    ASSUME NEW log \in Seq(Stride), Shape(log), NEW log2, NEW e, Extends(log, log2, e),
           MayAdd(log, e), Len(log2) <= MaxLog
    PROVE  Shape(log2)
<1>0. Len(log) \in Nat /\ Len(log2) \in Nat
    BY LenProperties DEF Extends
<1>1. ASSUME NEW k \in 1 .. Len(log2) PROVE EntryOK(log2[k])
    <2>1. CASE k \in 1 .. Len(log) /\ log2[k] = log[k]
        BY <2>1 DEF Shape
    <2>2. CASE log2[k] = e
        BY <2>2 DEF MayAdd
    <2>3. CASE log2[k].op \in {"TEXT", "BLANK"} /\ log2[k].id1 = 0
        BY <2>3 DEF EntryOK, Ops
    <2> QED BY <2>1, <2>2, <2>3, ExtendsAt
<1>2. ASSUME NEW k \in 1 .. Len(log2), log2[k].op = "UPDINPLACE"
      PROVE  k < Len(log2) /\ log2[k + 1].op \in {"TEXT", "BLANK"}
    <2>1. CASE k \in 1 .. Len(log) /\ log2[k] = log[k]
        <3>1. k < Len(log) /\ log[k + 1].op \in {"TEXT", "BLANK"}
            BY <1>2, <2>1 DEF Shape
        <3>2. k + 1 \in 1 .. Len(log)
            BY <1>0, <2>1, <3>1
        <3> QED BY <1>0, <3>1, <3>2 DEF Extends
    <2>2. CASE k = Len(log) + 1 /\ log2[k] = e
        BY <1>0, <1>2, <2>2 DEF Extends
    <2> QED BY <1>2, <2>1, <2>2, ExtendsAt
<1>3. ASSUME NEW k \in 1 .. Len(log2), NEW l \in 1 .. Len(log2), NEW id \in Ids
      PROVE  /\ NewAt(log2[k], id) /\ NewAt(log2[l], id) => k = l
             /\ TakeAt(log2[k], id) /\ TakeAt(log2[l], id) => k = l
             /\ ~ (TakeAt(log2[k], id) /\ PatchAt(log2[l], id))
             /\ NewAt(log2[k], id) /\ (TakeAt(log2[l], id) \/ PatchAt(log2[l], id))
                    => k < l /\ May("own")
    <2>0. ASSUME NEW j, log2[j].op \in {"TEXT", "BLANK"}
          PROVE  ~ NewAt(log2[j], id) /\ ~ TakeAt(log2[j], id) /\ ~ PatchAt(log2[j], id)
        BY <2>0 DEF NewAt, TakeAt, PatchAt
    <2>1. CASE k \in 1 .. Len(log) /\ l \in 1 .. Len(log)
        <3>1. log2[k] = log[k] /\ log2[l] = log[l]
            BY <2>1 DEF Extends
        <3> QED BY <2>1, <3>1 DEF Shape, Once
    <2>2. CASE k \in 1 .. Len(log) /\ l = Len(log) + 1
        <3>1. log2[k] = log[k] /\ log2[l] = e /\ k < l
            BY <1>0, <2>2 DEF Extends
        <3> QED BY <2>2, <3>1 DEF MayAdd
    <2>3. CASE k = Len(log) + 1 /\ l \in 1 .. Len(log)
        <3>1. log2[k] = e /\ log2[l] = log[l]
            BY <1>0, <2>3 DEF Extends
        <3> QED BY <2>3, <3>1 DEF MayAdd
    <2>4. CASE k = Len(log) + 1 /\ l = Len(log) + 1
        <3>1. log2[k] = e /\ log2[l] = e /\ k = l
            BY <2>4 DEF Extends
        <3>2. ~ (TakeAt(e, id) /\ PatchAt(e, id)) /\ ~ (NewAt(e, id) /\ PatchAt(e, id))
            BY DEF TakeAt, PatchAt, NewAt
        <3> QED BY <3>1, <3>2 DEF MayAdd
    <2>5. CASE log2[k].op \in {"TEXT", "BLANK"} \/ log2[l].op \in {"TEXT", "BLANK"}
        BY <2>0, <2>5
    <2>6. \/ k \in 1 .. Len(log) \/ k = Len(log) + 1 \/ log2[k].op \in {"TEXT", "BLANK"}
        BY ExtendsAt
    <2>7. \/ l \in 1 .. Len(log) \/ l = Len(log) + 1 \/ log2[l].op \in {"TEXT", "BLANK"}
        BY ExtendsAt
    <2> QED BY <2>1, <2>2, <2>3, <2>4, <2>5, <2>6, <2>7
<1> QED BY <1>1, <1>2, <1>3 DEF Shape, Once

\* Before it walks over its log, a client owns what the log writes afresh and
\* claims all that it takes away or patches.
LEMMA EarlyHas ==
    ASSUME NEW log, NEW pc \in Early, Len(log) \in Nat, NEW id
    PROVE  /\ OwnsIn(log, pc, 0, id) <=> \E k \in 1 .. Len(log) : NewAt(log[k], id)
           /\ HoldsIn(log, pc, 0, id) <=> \E k \in 1 .. Len(log) : NewAt(log[k], id)
           /\ ClaimsIn(log, pc, 0, id) <=>
                \E k \in 1 .. Len(log) : TakeAt(log[k], id) \/ PatchAt(log[k], id)
<1>1. ~ Given(log, pc, 0, id)
    BY DEF Given
<1>2. ~ LimboIn(log, pc, 0, id) /\ pc # "idle" /\ pc \in Working /\ pc # "free"
    BY DEF LimboIn, Early, Working
<1>3. \A k \in 1 .. Len(log) : k >= 0
    OBVIOUS
<1> QED BY <1>1, <1>2, <1>3 DEF OwnsIn, HoldsIn, ClaimsIn

\* What the new entry adds.
LEMMA ExtendsHas ==
    ASSUME NEW log \in Seq(Stride), NEW log2, NEW e, Extends(log, log2, e),
           NEW pc \in Early, NEW pc2 \in Early, NEW id
    PROVE  /\ OwnsIn(log2, pc2, 0, id) <=> OwnsIn(log, pc, 0, id) \/ NewAt(e, id)
           /\ HoldsIn(log2, pc2, 0, id) <=> HoldsIn(log, pc, 0, id) \/ NewAt(e, id)
           /\ ClaimsIn(log2, pc2, 0, id) <=>
                ClaimsIn(log, pc, 0, id) \/ TakeAt(e, id) \/ PatchAt(e, id)
<1>0. Len(log) \in Nat /\ Len(log2) \in Nat
    BY LenProperties DEF Extends
<1>1. \A k \in 1 .. Len(log) : k \in 1 .. Len(log2) /\ log2[k] = log[k]
    BY <1>0 DEF Extends
<1>2. Len(log) + 1 \in 1 .. Len(log2) /\ log2[Len(log) + 1] = e
    BY <1>0 DEF Extends
<1>3. \A k \in 1 .. Len(log2) :
        \/ k \in 1 .. Len(log) /\ log2[k] = log[k]
        \/ log2[k] = e
        \/ ~ NewAt(log2[k], id) /\ ~ TakeAt(log2[k], id) /\ ~ PatchAt(log2[k], id)
    <2> SUFFICES ASSUME NEW k \in 1 .. Len(log2), log2[k].op \in {"TEXT", "BLANK"}
                 PROVE  ~ NewAt(log2[k], id) /\ ~ TakeAt(log2[k], id) /\ ~ PatchAt(log2[k], id)
        BY ExtendsAt
    <2> QED BY DEF NewAt, TakeAt, PatchAt
<1>4. (\E k \in 1 .. Len(log2) : NewAt(log2[k], id)) <=>
        (\E k \in 1 .. Len(log) : NewAt(log[k], id)) \/ NewAt(e, id)
    BY <1>1, <1>2, <1>3
<1>5. (\E k \in 1 .. Len(log2) : TakeAt(log2[k], id) \/ PatchAt(log2[k], id)) <=>
        (\E k \in 1 .. Len(log) : TakeAt(log[k], id) \/ PatchAt(log[k], id))
            \/ TakeAt(e, id) \/ PatchAt(e, id)
    BY <1>1, <1>2, <1>3
<1> QED BY <1>0, <1>4, <1>5, EarlyHas

\* The blocks that were written keep their content.
LEMMA ExtendsContent ==
    ASSUME NEW log \in Seq(Stride), NEW log2, NEW e, Extends(log, log2, e),
           NEW pc2 \in Early, NEW u, NEW m, ContentIn(log, "open", 0, u, m),
           \A id \in Ids : NewAt(e, id) => InPutIn(log2, pc2, id)
    PROVE  ContentIn(log2, pc2, 0, u, m)
<1>0. Len(log) \in Nat /\ Len(log2) \in Nat
    BY LenProperties DEF Extends
<1> SUFFICES ASSUME NEW id \in Ids, OwnsIn(log2, pc2, 0, id), ~ InPutIn(log2, pc2, id)
             PROVE  /\ m[Direct(id)].sum # "zero"
                    /\ m[Direct(id)].sum = Region(id) \/ id \in DOMAIN u
                    /\ \A k \in 1 .. Len(log2) :
                        LastWrote(log2, 0, k, id) => m[Direct(id)].val = log2[k].val
    BY DEF ContentIn
<1>1. ~ NewAt(e, id)
    OBVIOUS
<1>2. OwnsIn(log, "open", 0, id)
    BY <1>1, ExtendsHas DEF Early
<1>3. ~ LimboIn(log, "open", 0, id) /\ ~ InPutIn(log, "open", id) /\ "open" \in Working
    BY DEF LimboIn, InPutIn, Working, Early
<1>4. /\ m[Direct(id)].sum # "zero"
      /\ m[Direct(id)].sum = Region(id) \/ id \in DOMAIN u
      /\ \A k \in 1 .. Len(log) : LastWrote(log, 0, k, id) => m[Direct(id)].val = log[k].val
    BY <1>2, <1>3 DEF ContentIn
<1>5. ASSUME NEW k \in 1 .. Len(log2), LastWrote(log2, 0, k, id)
      PROVE  m[Direct(id)].val = log2[k].val
    <2>1. NewAt(log2[k], id)
        BY <1>0, <1>5 DEF LastWrote, Wrote
    <2>2. log2[k].op \notin {"TEXT", "BLANK"}
        BY <2>1 DEF NewAt
    <2>3. k \in 1 .. Len(log) /\ log2[k] = log[k]
        BY <1>1, <2>1, <2>2, ExtendsAt
    <2>4. ASSUME NEW j \in 1 .. Len(log), Wrote(log, 0, j, id) PROVE j <= k
        <3>1. NewAt(log[j], id) /\ log2[j] = log[j] /\ j \in 1 .. Len(log2)
            BY <1>0, <2>4 DEF Wrote, Extends
        <3> QED BY <1>5, <3>1 DEF LastWrote, Wrote
    <2>5. LastWrote(log, 0, k, id)
        BY <2>1, <2>3, <2>4 DEF LastWrote, Wrote
    <2> QED BY <1>4, <2>3, <2>5
<1> QED BY <1>4, <1>5

\* An operation adds one entry, and its payload, to the log of its client.
LEMMA RecordExtends ==
    ASSUME IInv, NEW c \in Clients, cl[c].pc = "open", NEW e \in Stride, NEW strides, Record(c, strides),
           \/ strides = <<e>> /\ e.op # "UPDINPLACE"
           \/ /\ e.op = "UPDINPLACE"
              /\ \E f \in Stride : strides = <<e, f>> /\ f.op \in {"TEXT", "BLANK"} /\ f.id1 = 0
    PROVE  /\ Extends(Log(c), slot'[Idx(c)].log, e)
           /\ \A i \in Index \ {Idx(c)} : slot'[i] = slot[i]
<1> DEFINE i == Idx(c)
           log == Log(c)
           log2 == log \o strides
<1>0. /\ i \in Index /\ slot \in [Index -> Slot] /\ slot[i] \in Slot
      /\ log \in Seq(Stride) /\ Len(log) \in Nat /\ log = slot[i].log
    BY HeldSlot DEF IInv, SlotsOK, LogOK, Idx, Log
<1>1. slot' = [slot EXCEPT ![i] = [slot[i] EXCEPT !.log = log2]]
    BY <1>0 DEF Record, Idx
<1> HIDE DEF log2
<1>2. slot'[i].log = log2 /\ \A j \in Index \ {i} : slot'[j] = slot[j]
    BY <1>0, <1>1 DEF Slot
<1> HIDE DEF i, log
<1>3. CASE strides = <<e>> /\ e.op # "UPDINPLACE"
    <2>1. <<e>> \in Seq(Stride) /\ Len(<<e>>) = 1 /\ <<e>>[1] = e
        OBVIOUS
    <2>2. /\ log2 \in Seq(Stride) /\ Len(log2) = Len(log) + 1
          /\ \A k \in 1 .. Len(log) + 1 : log2[k] = IF k <= Len(log) THEN log[k] ELSE <<e>>[k - Len(log)]
        BY <1>0, <1>3, <2>1, ConcatProperties DEF log2
    <2>3. log2[Len(log) + 1] = e
        <3>1. Len(log) + 1 \in 1 .. Len(log) + 1 /\ ~ (Len(log) + 1 <= Len(log))
            /\ Len(log) + 1 - Len(log) = 1
            BY <1>0
        <3> QED BY <2>1, <2>2, <3>1
    <2>4. \A k \in 1 .. Len(log) : log2[k] = log[k]
        BY <1>0, <2>2
    <2>5. Extends(log, log2, e)
        BY <1>3, <2>2, <2>3, <2>4 DEF Extends
    <2> QED BY <1>2, <2>5 DEF i, log
<1>4. CASE /\ e.op = "UPDINPLACE"
           /\ \E f \in Stride : strides = <<e, f>> /\ f.op \in {"TEXT", "BLANK"} /\ f.id1 = 0
    <2>0. PICK f \in Stride : strides = <<e, f>> /\ f.op \in {"TEXT", "BLANK"} /\ f.id1 = 0
        BY <1>4
    <2>1. <<e, f>> \in Seq(Stride) /\ Len(<<e, f>>) = 2 /\ <<e, f>>[1] = e /\ <<e, f>>[2] = f
        OBVIOUS
    <2>2. /\ log2 \in Seq(Stride) /\ Len(log2) = Len(log) + 2
          /\ \A k \in 1 .. Len(log) + 2 : log2[k] = IF k <= Len(log) THEN log[k] ELSE <<e, f>>[k - Len(log)]
        BY <1>0, <2>0, <2>1, ConcatProperties DEF log2
    <2>3. log2[Len(log) + 1] = e
        <3>1. Len(log) + 1 \in 1 .. Len(log) + 2 /\ ~ (Len(log) + 1 <= Len(log))
            /\ Len(log) + 1 - Len(log) = 1
            BY <1>0
        <3> QED BY <2>1, <2>2, <3>1
    <2>4. log2[Len(log) + 2] = f
        <3>1. Len(log) + 2 \in 1 .. Len(log) + 2 /\ ~ (Len(log) + 2 <= Len(log))
            /\ Len(log) + 2 - Len(log) = 2
            BY <1>0
        <3> QED BY <2>1, <2>2, <3>1
    <2>5. \A k \in 1 .. Len(log) : log2[k] = log[k]
        BY <1>0, <2>2
    <2>6. Extends(log, log2, e)
        BY <1>4, <2>0, <2>2, <2>3, <2>4, <2>5 DEF Extends
    <2> QED BY <1>2, <2>6 DEF i, log
<1> QED BY <1>3, <1>4

\* An operation keeps the invariant when its new block is a free one and the
\* block that it names is an object, or the client's own, that nobody else has
\* to do with.
LEMMA AddKeeps ==
    ASSUME BInv, IInv', Marked', NEW c \in Clients, cl[c].pc = "open",
           NEW e, Extends(Log(c), slot'[Idx(c)].log, e), MayAdd(Log(c), e),
           \A i \in Index \ {Idx(c)} : slot'[i] = slot[i],
           Len(slot'[Idx(c)].log) <= MaxLog,
           NEW p \in {"open", "put", "putmeta"}, Moves(c, p, cl[c].pos),
           UNCHANGED <<cell, upd, clean, rec, obj>>, Regions',
           \A id \in Ids : NewAt(e, id) => id \in Frees /\ id \notin Frees',
           \A id \in Ids : ~ NewAt(e, id) => (id \in Frees' <=> id \in Frees),
           p = "open" => \A id \in Ids : ~ NewAt(e, id),
           p = "put" => \E b \in DataIds : NewAt(e, b),
           p = "putmeta" => \E b \in MetaIds : NewAt(e, b),
           \A id \in Ids : TakeAt(e, id) \/ PatchAt(e, id) =>
                (obj[id] # None \/ Owns(c, id)) /\ Alone(c, id)
    PROVE  BInv'
<1> DEFINE log == Log(c)
           log2 == slot'[Idx(c)].log
           X == {id \in Ids : NewAt(e, id)}
<1>1. /\ log \in Seq(Stride) /\ Shape(log) /\ Idx(c) \in Index /\ Up /\ cl[c].pc \in Early
      /\ PrivateOK(c) /\ Len(log) \in Nat
    BY LogFacts DEF BInv, Privates, Early
<1>2. cl[c].pos = 0
    BY <1>1 DEF PrivateOK, PlaceIn
<1>3. p \in Early /\ p \in PCs \ {"idle"} /\ p \notin {"exec", "free"}
    BY DEF Early, PCs
<1>4. DOMAIN upd[Idx(c)] = {} /\ \A i \in Index : upd'[i] = upd[i]
    BY NoRefresh
<1>5. /\ \A d \in Clients \ {c} :
            /\ cl'[d] = cl[d]
            /\ cl[d].pc # "idle" => slot'[Idx(d)] = slot[Idx(d)] /\ upd'[Idx(d)] = upd[Idx(d)]
      /\ Idx(c)' = Idx(c) /\ cl'[c].pc = p /\ cl'[c].pos = cl[c].pos
      /\ RefreshOwned' /\ LogsOwned'
    BY <1>1, <1>3, <1>4, MoveFrame
<1>6. Log(c)' = log2 /\ cl'[c].pc = p /\ cl'[c].pos = 0
    BY <1>2, <1>5 DEF Log, Idx
<1>7. Shape(log2)
    BY <1>1, ExtendsShape
<1>8. Shapes'
    BY <1>1, <1>7, ShapesKeep DEF BInv
<1>9. ASSUME NEW id PROVE /\ Owns(c, id)' <=> Owns(c, id) \/ NewAt(e, id)
                          /\ Holds(c, id)' <=> Holds(c, id) \/ NewAt(e, id)
                          /\ Claims(c, id)' <=> Claims(c, id) \/ TakeAt(e, id) \/ PatchAt(e, id)
    BY <1>1, <1>2, <1>3, <1>6, ExtendsHas DEF Owns, Holds, Claims
<1>10. \A id : InFlux(id)' <=> InFlux(id)
    BY FluxKeep
<1>11. \A id \in X : Alone(c, id) /\ obj[id] = None
    BY AloneFree
<1>12. Acts(c, X)
    BY <1>5, <1>9, <1>10, <1>11 DEF Acts
<1>13. CellsOK'
    BY DEF BInv, CellsOK
<1>14. ASSUME NEW id \in Ids, Claims(c, id)' PROVE (obj'[id] # None \/ Owns(c, id)') /\ Alone(c, id)
    <2>1. CASE Claims(c, id)
        BY <1>9, <2>1, AloneHas DEF BInv, Apart
    <2>2. CASE TakeAt(e, id) \/ PatchAt(e, id)
        BY <1>9, <2>2
    <2> QED BY <1>9, <1>14, <2>1, <2>2
<1>15. PrivateOK(c)'
    <2>0. p # "open" => Len(log2) = Len(log) + 1 /\ log2[Len(log2)] = e
        <3>1. p # "open" => e.op # "UPDINPLACE"
            BY DEF NewAt
        <3> QED BY <3>1 DEF Extends
    <2>1. PlaceIn(log2, p, 0)
        BY <2>0 DEF PlaceIn, Early
    <2>2. RefreshIn(log2, p, 0, upd'[Idx(c)])
        BY <1>3 DEF RefreshIn
    <2>3. ContentIn(log, "open", 0, upd[Idx(c)], cell)
        BY <1>1, <1>2 DEF PrivateOK
    <2>4. \A id \in Ids : NewAt(e, id) => InPutIn(log2, p, id)
        BY <2>0 DEF InPutIn
    <2>5. ContentIn(log2, p, 0, upd[Idx(c)], cell)
        BY <1>1, <1>3, <2>3, <2>4, ExtendsContent
    <2>6. ZeroedIn(log2, p, 0, cell)
        BY DEF ZeroedIn
    <2> QED BY <1>5, <1>6, <2>1, <2>2, <2>5, <2>6 DEF PrivateOK
<1>16. Settles(c, X)
    <2>1. \A x \in X : Holds(c, x)' /\ obj'[x] = None /\ x \notin Frees'
        BY <1>9, <1>11
    <2>2. \A x \in X : ObjAt(x)' /\ FreeAt(x)' /\ AccountedAt(x)'
        BY <2>1 DEF ObjAt, FreeAt, AccountedAt
    <2> QED BY <1>14, <1>15, <2>1, <2>2 DEF Settles
<1> QED BY <1>1, <1>5, <1>8, <1>12, <1>13, <1>16, ActsKeep

\* What an ordinary transaction may name: an object, or what it has put and
\* not taken away, that no other transaction names.
LEMMA TargetFacts ==
    ASSUME BInv, Ordinary, NEW c \in Clients, cl[c].pc = "open", NEW id \in Targets(c)
    PROVE  /\ id \in Usable /\ id \in Ids
           /\ obj[id] # None \/ Owns(c, id)
           /\ Alone(c, id)
           /\ \A k \in 1 .. Len(Log(c)) : /\ ~ TakeAt(Log(c)[k], id)
                                          /\ NewAt(Log(c)[k], id) => May("own")
<1>0. /\ Log(c) \in Seq(Stride) /\ Shape(Log(c)) /\ cl[c].pos = 0 /\ cl[c].pc \in Early
      /\ DOMAIN Log(c) = 1 .. Len(Log(c)) /\ Len(Log(c)) \in Nat
    BY LogFacts DEF BInv, Privates, PrivateOK, PlaceIn, Early
<1>1. id \in Ids
    BY UsableIds DEF Targets
<1>2. obj[id] # None \/ (id \in News(Log(c)) /\ May("own"))
    BY DEF Targets, Ordinary
<1>3. id \in News(Log(c)) <=> Owns(c, id)
    BY <1>0, NewsAt, EarlyHas DEF Owns
<1>4. id \in Usable
    <2>1. CASE obj[id] # None
        BY <1>1, <2>1 DEF BInv, Points, ObjAt
    <2>2. CASE Owns(c, id)
        BY <2>2, HasUsableClient DEF Owns, Holds, HoldsIn
    <2> QED BY <1>2, <1>3, <2>1, <2>2
<1>5. Alone(c, id)
    <2> SUFFICES ASSUME NEW d \in Clients \ {c}, Holds(d, id) \/ Claims(d, id) PROVE FALSE
        BY DEF Alone
    <2>1. cl[d].pc # "idle"
        BY HasUsableClient
    <2>2. d \in Holding /\ Len(Log(d)) \in Nat /\ DOMAIN Log(d) = 1 .. Len(Log(d))
        BY <2>1, LogFacts DEF BInv
    <2>3. id \notin Named(Log(d))
        BY <2>2 DEF Targets
    <2>4. \A k \in 1 .. Len(Log(d)) :
            ~ NewAt(Log(d)[k], id) /\ ~ TakeAt(Log(d)[k], id) /\ ~ PatchAt(Log(d)[k], id)
        BY <2>2, <2>3 DEF Named, News, Olds, Smalls, NewAt, TakeAt, PatchAt
    <2>5. ~ LimboIn(Log(d), cl[d].pc, cl[d].pos, id)
        <3> SUFFICES ASSUME cl[d].pc = "free", Log(d)[cl[d].pos].id1 = id PROVE FALSE
            BY DEF LimboIn
        <3>1. cl[d].pos \in 1 .. Len(Log(d)) /\ Log(d)[cl[d].pos].op \in {"UPDATE", "REMOVE"}
            BY <2>1 DEF BInv, IInv, WalksOK, Standing, Privates, PrivateOK, PlaceIn
        <3> QED BY <2>4, <3>1 DEF TakeAt
    <2> QED BY <2>4, <2>5 DEF Holds, HoldsIn, OwnsIn, Claims, ClaimsIn
<1>6. \A k \in 1 .. Len(Log(c)) : ~ TakeAt(Log(c)[k], id)
    <2>1. id \notin Olds(Log(c))
        BY DEF Targets, Ordinary
    <2> QED BY <1>0, <2>1 DEF Olds, TakeAt
<1>7. ASSUME NEW k \in 1 .. Len(Log(c)), NewAt(Log(c)[k], id) PROVE May("own")
    <2>1. Owns(c, id)
        BY <1>0, <1>7, EarlyHas DEF Owns
    <2>2. obj[id] = None
        BY <1>1, <2>1 DEF BInv, Apart, Owns, Holds, HoldsIn
    <2> QED BY <1>2, <2>2
<1> QED BY <1>1, <1>2, <1>3, <1>4, <1>5, <1>6, <1>7

\* Nothing of a log that is still open concerns a free block.
LEMMA FreeUnnamed ==
    ASSUME BInv, NEW c \in Clients, cl[c].pc = "open", NEW b \in Ids, b \in Frees
    PROVE  \A k \in 1 .. Len(Log(c)) :
            ~ NewAt(Log(c)[k], b) /\ ~ TakeAt(Log(c)[k], b) /\ ~ PatchAt(Log(c)[k], b)
<1>0. Len(Log(c)) \in Nat /\ cl[c].pos = 0 /\ cl[c].pc \in Early
    BY LogFacts DEF BInv, Privates, PrivateOK, PlaceIn, Early
<1>1. ~ Holds(c, b) /\ ~ Claims(c, b)
    BY AloneFree
<1> QED BY <1>0, <1>1, EarlyHas DEF Holds, Claims

\* pmb_tput and pmb_tput_meta up to the log entry.
LEMMA PutKeeps ==
    ASSUME BInv, Ordinary, IInv', Marked', NEW c \in Clients, NEW old \in Victims(c) \cup {0}, NEW v \in Vals,
           TPut(c, old, v) \/ (May("meta") /\ TPutMeta(c, old, v))
    PROVE  BInv'
<1>0. cl[c].pc = "open" /\ Len(Log(c)) + 1 <= MaxLog
    BY DEF TPut, TPutMeta, CanLog
<1>1. PICK b, p :
        /\ Record(c, <<PutEntry(old, b, v)>>) /\ Goto(c, p) /\ b \in Usable
        /\ \/ p = "put" /\ b \in free /\ free' = free \ {b} /\ mfree' = mfree
           \/ p = "putmeta" /\ b \in mfree /\ mfree' = mfree \ {b} /\ free' = free
    <2>1. CASE TPut(c, old, v)
        <3>1. PICK b \in free : /\ b # D - 1 \/ May("brim") \/ ~ May("meta")
                                /\ free' = free \ {b} /\ Record(c, <<PutEntry(old, b, v)>>)
            BY <2>1 DEF TPut
        <3>2. b \in Usable
            BY <3>1 DEF Ordinary, Usable, BInv, Regions
        <3> QED BY <2>1, <3>1, <3>2 DEF TPut
    <2>2. CASE May("meta") /\ TPutMeta(c, old, v)
        <3>1. PICK b \in mfree : mfree' = mfree \ {b} /\ Record(c, <<PutEntry(old, b, v)>>)
            BY <2>2 DEF TPutMeta
        <3>2. b \in Usable
            BY <2>2, <3>1 DEF Usable, BInv, Regions
        <3> QED BY <2>2, <3>1, <3>2 DEF TPutMeta
    <2> QED BY <2>1, <2>2
<1>2. b \in Ids /\ b # 0 /\ b \in Frees /\ Regions' /\ DataIds \cap MetaIds = {} /\ old \in Ids \cup {0}
    <2>1. DataIds \cap MetaIds = {}
        BY DAssumption DEF DataIds, MetaIds
    <2>2. old \in Ids \cup {0}
        BY UsableIds DEF Victims, Targets
    <2>3. b \in Ids /\ b # 0
        BY <1>1, UsableIds
    <2>4. b \in Frees /\ Regions'
        BY <1>1 DEF BInv, Regions, Frees
    <2> QED BY <2>1, <2>2, <2>3, <2>4
<1>3. b \notin Frees' /\ \A id \in Ids \ {b} : id \in Frees' <=> id \in Frees
    BY <1>1, <1>2 DEF Frees, BInv, Regions
<1> DEFINE e == PutEntry(old, b, v)
<1>4. /\ e \in Stride /\ e.op \in {"WRITE", "UPDATE"} /\ e.val = v
      /\ e.op = "WRITE" => e.id1 = b /\ old = 0
      /\ e.op = "UPDATE" => e.id1 = old /\ e.id2 = b /\ old # 0
    BY <1>2, EntryType DEF PutEntry, Entry, Ops
<1>5. Record(c, <<e>>)
    BY <1>1
<1> HIDE DEF e
<1>6. \A id : (NewAt(e, id) <=> id = b) /\ (TakeAt(e, id) <=> id = old /\ old # 0) /\ ~ PatchAt(e, id)
    BY <1>2, <1>4 DEF NewAt, TakeAt, PatchAt
<1>7. ASSUME old # 0
      PROVE  /\ old \in Usable /\ Alone(c, old)
             /\ obj[old] # None \/ Owns(c, old)
             /\ \A k \in 1 .. Len(Log(c)) : /\ ~ TakeAt(Log(c)[k], old) /\ ~ PatchAt(Log(c)[k], old)
                                            /\ NewAt(Log(c)[k], old) => May("own")
    <2>1. old \in Victims(c) /\ old \in Targets(c)
        BY <1>7 DEF Victims
    <2>2. old \notin Smalls(Log(c))
        BY <2>1 DEF Victims, Ordinary
    <2>3. DOMAIN Log(c) = 1 .. Len(Log(c))
        BY <1>0, LogFacts DEF BInv
    <2>4. \A k \in 1 .. Len(Log(c)) : ~ PatchAt(Log(c)[k], old)
        BY <2>2, <2>3 DEF Smalls, PatchAt
    <2> QED BY <1>0, <2>1, <2>4, TargetFacts
<1>8. \A k \in 1 .. Len(Log(c)) :
            ~ NewAt(Log(c)[k], b) /\ ~ TakeAt(Log(c)[k], b) /\ ~ PatchAt(Log(c)[k], b)
    BY <1>0, <1>2, FreeUnnamed
<1>9. old # b
    <2>1. obj[b] = None /\ ~ Holds(c, b)
        BY <1>2, AloneFree
    <2> QED BY <1>2, <1>7, <2>1 DEF Holds, HoldsIn, Owns
<1>10. EntryOK(e)
    BY <1>1, <1>4, <1>7 DEF EntryOK, Ops
<1>11. MayAdd(Log(c), e)
    BY <1>4, <1>6, <1>7, <1>8, <1>9, <1>10 DEF MayAdd, Ops
<1>12. Extends(Log(c), slot'[Idx(c)].log, e) /\ \A i \in Index \ {Idx(c)} : slot'[i] = slot[i]
    BY <1>0, <1>4, <1>5, RecordExtends DEF BInv
<1>13. Len(slot'[Idx(c)].log) <= MaxLog
    BY <1>0, <1>4, <1>12 DEF Extends
<1>14. p \in {"open", "put", "putmeta"} /\ p # "open" /\ Moves(c, p, cl[c].pos)
    BY <1>1, GotoMoves DEF BInv, IInv, PCs
<1>15. UNCHANGED <<cell, upd, clean, rec, obj>>
    BY DEF TPut, TPutMeta, metas, history
<1>16. /\ p = "put" => \E x \in DataIds : NewAt(e, x)
       /\ p = "putmeta" => \E x \in MetaIds : NewAt(e, x)
    BY <1>1, <1>6 DEF BInv, Regions
<1>17. /\ \A id \in Ids : NewAt(e, id) => id \in Frees /\ id \notin Frees'
       /\ \A id \in Ids : ~ NewAt(e, id) => (id \in Frees' <=> id \in Frees)
       /\ \A id \in Ids : TakeAt(e, id) \/ PatchAt(e, id) =>
                (obj[id] # None \/ Owns(c, id)) /\ Alone(c, id)
    BY <1>2, <1>3, <1>6, <1>7
<1> QED BY <1>0, <1>2, <1>11, <1>12, <1>13, <1>14, <1>15, <1>16, <1>17, AddKeeps

\* The update in place and the removal: an entry about one block.
LEMMA NameKeeps ==
    ASSUME BInv, Ordinary, IInv', Marked', NEW c \in Clients, NEW id \in Targets(c),
           \/ id < D /\ \E v \in Vals : TPutSmall(c, id, v)
           \/ id \in Victims(c) /\ TDel(c, id)
    PROVE  BInv'
<1>0. cl[c].pc = "open"
    BY DEF TPutSmall, TDel, CanLog
<1>1. /\ id \in Usable /\ id \in Ids
      /\ obj[id] # None \/ Owns(c, id)
      /\ Alone(c, id)
      /\ \A k \in 1 .. Len(Log(c)) : /\ ~ TakeAt(Log(c)[k], id)
                                     /\ NewAt(Log(c)[k], id) => May("own")
    BY <1>0, TargetFacts
<1>2. UNCHANGED <<cell, lists, metas, cl, rec, history>>
    BY DEF TPutSmall, TDel
<1>3. Regions' /\ Frees' = Frees
    BY <1>2 DEF BInv, Regions, Frees, lists
<1>4. Moves(c, "open", cl[c].pos)
    BY <1>0, <1>2, StayMoves DEF BInv, IInv
<1>5. PICK e \in Stride :
        /\ Extends(Log(c), slot'[Idx(c)].log, e) /\ \A i \in Index \ {Idx(c)} : slot'[i] = slot[i]
        /\ Len(slot'[Idx(c)].log) <= MaxLog /\ EntryOK(e)
        /\ e.op \in {"UPDINPLACE", "REMOVE"} /\ e.id1 = id
        /\ e.op = "REMOVE" => id \in Victims(c)
    <2>1. CASE id < D /\ \E v \in Vals : TPutSmall(c, id, v)
        <3>1. PICK v \in Vals : TPutSmall(c, id, v)
            BY <2>1
        <3>2. PICK f \in Payloads : Record(c, <<Entry("UPDINPLACE", id, 0, v), f>>)
            BY <3>1 DEF TPutSmall
        <3> DEFINE e == Entry("UPDINPLACE", id, 0, v)
        <3>a. f \in Stride /\ f.op \in {"TEXT", "BLANK"} /\ f.id1 = 0
            <4>1. PayloadOps \subseteq {"TEXT", "BLANK"}
                BY DEF Ordinary, PayloadOps
            <4>2. PICK op \in PayloadOps : f = Entry(op, 0, 0, None)
                BY <4>1 DEF Payloads
            <4> QED BY <4>1, <4>2, PayloadType DEF Entry
        <3>3. /\ e \in Stride /\ e.op = "UPDINPLACE" /\ e.id1 = id /\ e.val \in Vals
              /\ f \in Stride /\ f.op \in {"TEXT", "BLANK"} /\ f.id1 = 0
            BY <1>1, <3>a, EntryType DEF Entry, Ops
        <3>4. Record(c, <<e, f>>)
            BY <3>2
        <3> HIDE DEF e
        <3>5. Extends(Log(c), slot'[Idx(c)].log, e) /\ \A i \in Index \ {Idx(c)} : slot'[i] = slot[i]
            BY <1>0, <3>3, <3>4, RecordExtends DEF BInv
        <3>6. Len(slot'[Idx(c)].log) <= MaxLog
            BY <3>1, <3>3, <3>5 DEF Extends, TPutSmall, CanLog
        <3>7. EntryOK(e)
            BY <1>1, <2>1, <3>3, DAssumption, MAssumption DEF EntryOK, Ops, Ids, DataIds
        <3> QED BY <3>3, <3>5, <3>6, <3>7
    <2>2. CASE id \in Victims(c) /\ TDel(c, id)
        <3> DEFINE e == Entry("REMOVE", id, 0, None)
        <3>1. e \in Stride /\ e.op = "REMOVE" /\ e.id1 = id
            BY <1>1, EntryType DEF Entry, Ops
        <3>2. Record(c, <<e>>)
            BY <2>2 DEF TDel
        <3> HIDE DEF e
        <3>3. Extends(Log(c), slot'[Idx(c)].log, e) /\ \A i \in Index \ {Idx(c)} : slot'[i] = slot[i]
            BY <1>0, <3>1, <3>2, RecordExtends DEF BInv
        <3>4. Len(slot'[Idx(c)].log) <= MaxLog
            BY <2>2, <3>1, <3>3 DEF Extends, TDel, CanLog
        <3>5. EntryOK(e)
            BY <1>1, <3>1 DEF EntryOK, Ops
        <3> QED BY <2>2, <3>1, <3>3, <3>4, <3>5
    <2> QED BY <2>1, <2>2
<1>6. \A x : /\ ~ NewAt(e, x)
             /\ TakeAt(e, x) \/ PatchAt(e, x) => x = id
             /\ TakeAt(e, x) => e.op = "REMOVE"
    BY <1>5 DEF NewAt, TakeAt, PatchAt
<1>7. ASSUME e.op = "REMOVE", NEW k \in 1 .. Len(Log(c)) PROVE ~ PatchAt(Log(c)[k], id)
    <2>1. id \notin Smalls(Log(c))
        BY <1>5, <1>7 DEF Victims, Ordinary
    <2>2. DOMAIN Log(c) = 1 .. Len(Log(c))
        BY <1>0, LogFacts DEF BInv
    <2> QED BY <2>1, <2>2 DEF Smalls, PatchAt
<1>8. MayAdd(Log(c), e)
    BY <1>1, <1>5, <1>6, <1>7 DEF MayAdd, Ops
<1>9. \A x \in Ids : TakeAt(e, x) \/ PatchAt(e, x) => (obj[x] # None \/ Owns(c, x)) /\ Alone(c, x)
    BY <1>1, <1>6
<1>10. UNCHANGED <<cell, upd, clean, rec, obj>>
    BY <1>2 DEF metas, history
<1>11. /\ \A x \in Ids : NewAt(e, x) => x \in Frees /\ x \notin Frees'
       /\ \A x \in Ids : ~ NewAt(e, x) => (x \in Frees' <=> x \in Frees)
       /\ \A x \in Ids : ~ NewAt(e, x)
    BY <1>3, <1>6
<1> QED BY <1>0, <1>3, <1>4, <1>5, <1>8, <1>9, <1>10, <1>11, AddKeeps

\* Every operation of a transaction.
LEMMA OperationKeeps ==
    ASSUME BInv, Ordinary, IInv', Marked', NEW c \in Clients, Operation(c)
    PROVE  BInv'
<1>1. \A id : DataCall(id) => id < D
    BY DEF DataCall, Ordinary
<1>2. Victims(c) \subseteq Targets(c)
    BY DEF Victims
<1> QED BY <1>1, <1>2, PutKeeps, NameKeeps DEF Operation

-----------------------------------------------------------------------------
(* Moving over a log. *)

\* A client that moves to p and q, with the same log, holds the same blocks,
\* claims no others, and finds things there as they have to be.
LEMMA WalkKeeps ==
    ASSUME BInv, IInv', Marked', NEW c \in Clients, cl[c].pc \notin {"idle", "begin", "release"},
           NEW p \in PCs \ {"idle", "begin", "release"}, NEW q, Moves(c, p, q),
           UNCHANGED <<cell, upd, clean, rec, obj, free, mfree>>,
           slot'[Idx(c)].log = Log(c), \A i \in Index \ {Idx(c)} : slot'[i] = slot[i],
           p \in {"exec", "free"} \/ cl[c].pc \notin {"exec", "free"},
           \A id \in Ids : /\ HoldsIn(Log(c), p, q, id) <=> Holds(c, id)
                           /\ OwnsIn(Log(c), p, q, id) <=> Owns(c, id)
                           /\ ClaimsIn(Log(c), p, q, id) => Claims(c, id),
           PlaceIn(Log(c), p, q), RefreshIn(Log(c), p, q, upd[Idx(c)]),
           ContentIn(Log(c), p, q, upd[Idx(c)], cell), ZeroedIn(Log(c), p, q, cell)
    PROVE  BInv'
<1>1. Idx(c) \in Index /\ Up /\ Shape(Log(c))
    BY LogFacts DEF BInv
<1>2. p \in {"exec", "free"} \/ DOMAIN upd'[Idx(c)] = {}
    BY NoRefresh
<1>3. /\ \A d \in Clients \ {c} :
            /\ cl'[d] = cl[d]
            /\ cl[d].pc # "idle" => slot'[Idx(d)] = slot[Idx(d)] /\ upd'[Idx(d)] = upd[Idx(d)]
      /\ Idx(c)' = Idx(c) /\ cl'[c].pc = p /\ cl'[c].pos = q
      /\ RefreshOwned' /\ LogsOwned'
    BY <1>2, MoveFrame
<1>4. Log(c)' = Log(c)
    BY <1>3 DEF Log, Idx
<1>5. \A id \in Ids : /\ Holds(c, id)' <=> Holds(c, id)
                      /\ Owns(c, id)' <=> Owns(c, id)
                      /\ Claims(c, id)' => Claims(c, id)
    BY <1>3, <1>4 DEF Holds, Owns, Claims
<1>6. Shapes'
    BY <1>1, ShapesKeep DEF BInv
<1>7. CellsOK' /\ Regions' /\ Frees' = Frees
    BY DEF BInv, CellsOK, Regions, Frees
<1>8. Acts(c, {})
    BY <1>3, <1>5, <1>7, FluxKeep DEF Acts
<1>9. PrivateOK(c)'
    BY <1>3, <1>4 DEF PrivateOK
<1>10. Settles(c, {})
    BY <1>5, <1>9, AloneHas DEF Settles, BInv, Apart
<1> QED BY <1>1, <1>3, <1>6, <1>7, <1>8, <1>10, ActsKeep

\* Blocks keep their content when the same strides have been carried out.
LEMMA ContentSame ==
    ASSUME NEW log, NEW pc, NEW pos, NEW u, NEW m, ContentIn(log, pc, pos, u, m), NEW p, NEW q,
           p \in Working => pc \in Working,
           \A id \in Ids :
                OwnsIn(log, p, q, id) /\ ~ LimboIn(log, p, q, id) /\ ~ InPutIn(log, p, id)
                => OwnsIn(log, pc, pos, id) /\ ~ LimboIn(log, pc, pos, id) /\ ~ InPutIn(log, pc, id),
           \A id \in Ids, k \in 1 .. Len(log) : Wrote(log, q, k, id) <=> Wrote(log, pos, k, id)
    PROVE  ContentIn(log, p, q, u, m)
<1>1. \A id \in Ids, k \in 1 .. Len(log) : LastWrote(log, q, k, id) <=> LastWrote(log, pos, k, id)
    BY DEF LastWrote
<1> QED BY <1>1 DEF ContentIn

\* pmb_tx_commit
LEMMA CommitKeeps ==
    ASSUME BInv, IInv', Marked', NEW c \in Clients, TxCommit(c)
    PROVE  BInv'
<1> DEFINE log == Log(c)
           i == Idx(c)
<1>0. cl[c].pc = "open" /\ cl[c].pc # "idle"
    BY DEF TxCommit
<1>1. /\ Len(log) \in Nat /\ cl[c].pos = 0 /\ PrivateOK(c) /\ i \in Index /\ slot[i] \in Slot
      /\ log = slot[i].log
    BY <1>0, LogFacts DEF BInv, Privates, PrivateOK, PlaceIn, Early, IInv, SlotsOK
<1>2. Moves(c, "committed", 0)
    BY <1>1, GotoMoves DEF TxCommit, BInv, IInv, PCs
<1>3. slot'[i].log = log /\ \A j \in Index \ {i} : slot'[j] = slot[j]
    <2> DEFINE s == [slot[i] EXCEPT !.status = "COMMITED", !.flch = Checksum(Log(c))]
    <2>1. slot' = [slot EXCEPT ![i] = s] /\ s.log = slot[i].log
        BY <1>1 DEF TxCommit, SetStatus, Slot, Idx, BInv, IInv, SlotsOK
    <2> HIDE DEF s, log
    <2> QED BY <1>1, <2>1 DEF BInv, IInv, SlotsOK
<1>4. UNCHANGED <<cell, upd, clean, rec, obj, free, mfree>>
    BY DEF TxCommit, lists, metas, history
<1>5. \A id : /\ HoldsIn(log, "committed", 0, id) <=> HoldsIn(log, "open", 0, id)
              /\ OwnsIn(log, "committed", 0, id) <=> OwnsIn(log, "open", 0, id)
              /\ ClaimsIn(log, "committed", 0, id) <=> ClaimsIn(log, "open", 0, id)
    BY <1>1, EarlyHas DEF Early
<1>6. ContentIn(log, "committed", 0, upd[i], cell)
    <2>1. ContentIn(log, "open", 0, upd[i], cell)
        BY <1>0, <1>1 DEF PrivateOK
    <2>2. "open" \in Working
        BY DEF Working, Early
    <2>3. \A id : ~ LimboIn(log, "open", 0, id) /\ ~ InPutIn(log, "open", id)
        BY DEF LimboIn, InPutIn
    <2> HIDE DEF log, i
    <2> QED BY <1>5, <2>1, <2>2, <2>3, ContentSame
<1>7. /\ PlaceIn(log, "committed", 0) /\ RefreshIn(log, "committed", 0, upd[i])
      /\ ZeroedIn(log, "committed", 0, cell)
    BY DEF PlaceIn, RefreshIn, ZeroedIn, Early
<1>8. "committed" \in PCs \ {"idle", "begin", "release"}
    BY DEF PCs
<1> QED BY <1>0, <1>1, <1>2, <1>3, <1>4, <1>5, <1>6, <1>7, <1>8, WalkKeeps DEF Holds, Owns, Claims

\* pmb_tx_execute starts its walk.
LEMMA ExecuteKeeps ==
    ASSUME BInv, IInv', Marked', NEW c \in Clients, TxExecute(c)
    PROVE  BInv'
<1> DEFINE log == Log(c)
           i == Idx(c)
<1>0. cl[c].pc = "committed" /\ cl[c].pc # "idle" /\ cl[c].pc \notin {"exec", "free"}
    BY DEF TxExecute
<1>1. Len(log) \in Nat /\ cl[c].pos = 0 /\ PrivateOK(c) /\ i \in Index /\ log = slot[i].log
    BY <1>0, LogFacts DEF BInv, Privates, PrivateOK, PlaceIn, Early
<1>2. Moves(c, "exec", 1)
    BY SetMoves DEF TxExecute, BInv, IInv, PCs
<1>3. UNCHANGED <<slot, cell, upd, clean, rec, obj, free, mfree>>
    BY DEF TxExecute, lists, metas, history, persistent
<1>4. \A k \in 1 .. Len(log) : ~ (k < 1) /\ k >= 1 /\ k >= 0 /\ ~ (k < 0)
    BY <1>1
<1>5. \A id : ~ Given(log, "exec", 1, id) /\ ~ LimboIn(log, "exec", 1, id)
    BY <1>4 DEF Given, LimboIn
<1>6. \A id : /\ OwnsIn(log, "exec", 1, id) <=> \E k \in 1 .. Len(log) : NewAt(log[k], id)
              /\ HoldsIn(log, "exec", 1, id) <=> \E k \in 1 .. Len(log) : NewAt(log[k], id)
              /\ ClaimsIn(log, "exec", 1, id) =>
                    \E k \in 1 .. Len(log) : TakeAt(log[k], id) \/ PatchAt(log[k], id)
    BY <1>5 DEF OwnsIn, HoldsIn, ClaimsIn
<1>7. \A id : /\ HoldsIn(log, "exec", 1, id) <=> HoldsIn(log, "committed", 0, id)
              /\ OwnsIn(log, "exec", 1, id) <=> OwnsIn(log, "committed", 0, id)
              /\ ClaimsIn(log, "exec", 1, id) => ClaimsIn(log, "committed", 0, id)
    BY <1>1, <1>6, EarlyHas DEF Early
<1>8. ContentIn(log, "exec", 1, upd[i], cell)
    <2>1. ContentIn(log, "committed", 0, upd[i], cell)
        BY <1>0, <1>1 DEF PrivateOK
    <2>2. "committed" \in Working
        BY DEF Working, Early
    <2>3. \A id : ~ LimboIn(log, "committed", 0, id) /\ ~ InPutIn(log, "committed", id)
        BY DEF LimboIn, InPutIn
    <2>4. \A id \in Ids, k \in 1 .. Len(log) : Wrote(log, 1, k, id) <=> Wrote(log, 0, k, id)
        BY <1>4 DEF Wrote
    <2> HIDE DEF log, i
    <2> QED BY <1>7, <2>1, <2>2, <2>3, <2>4, ContentSame
<1>9. RefreshIn(log, "exec", 1, upd[i])
    <2>1. DOMAIN upd[i] = {}
        BY <1>0, NoRefresh
    <2>2. Cardinality(DOMAIN upd[i]) = 0
        BY <2>1, FS_EmptySet
    <2> QED BY <2>1, <2>2 DEF RefreshIn
<1>10. PlaceIn(log, "exec", 1) /\ ZeroedIn(log, "exec", 1, cell)
    BY DEF PlaceIn, ZeroedIn, Early
<1>11. "exec" \in PCs \ {"idle", "begin", "release"}
    BY DEF PCs
<1> QED BY <1>0, <1>1, <1>2, <1>3, <1>7, <1>8, <1>9, <1>10, <1>11, WalkKeeps DEF Holds, Owns, Claims

\* pmb_tx_abort starts its walk.
LEMMA AbortKeeps ==
    ASSUME BInv, IInv', Marked', NEW c \in Clients, TxAbort(c)
    PROVE  BInv'
<1> DEFINE log == Log(c)
           i == Idx(c)
<1>0. /\ cl[c].pc \in Early /\ cl[c].pc \notin {"idle", "begin", "release"}
      /\ cl[c].pc \notin {"exec", "free"} /\ May("abort")
    BY DEF TxAbort, Early
<1>1. /\ Len(log) \in Nat /\ cl[c].pos = 0 /\ PrivateOK(c) /\ i \in Index /\ slot[i] \in Slot
      /\ log = slot[i].log
    BY <1>0, LogFacts DEF BInv, Privates, PrivateOK, PlaceIn, IInv, SlotsOK
<1>2. Moves(c, "abort", 1)
    BY SetMoves DEF TxAbort, BInv, IInv, PCs
<1>3. slot'[i].log = log /\ \A j \in Index \ {i} : slot'[j] = slot[j]
    <2> DEFINE s == [slot[i] EXCEPT !.status = "ABORTED", !.flch = Checksum(Log(c))]
    <2>1. slot' = [slot EXCEPT ![i] = s] /\ s.log = slot[i].log
        BY <1>1 DEF TxAbort, SetStatus, Slot, Idx, BInv, IInv, SlotsOK
    <2> HIDE DEF s, log
    <2> QED BY <1>1, <2>1 DEF BInv, IInv, SlotsOK
<1>4. UNCHANGED <<cell, upd, clean, rec, obj, free, mfree>>
    BY DEF TxAbort, lists, metas, history
<1>5. \A id : ~ Given(log, "abort", 1, id) /\ ~ LimboIn(log, "abort", 1, id)
    BY <1>1 DEF Given, LimboIn
<1>6. "abort" \notin Working
    BY DEF Working, Early
<1>7. \A id : /\ HoldsIn(log, "abort", 1, id) <=> Holds(c, id)
              /\ OwnsIn(log, "abort", 1, id) <=> Owns(c, id)
              /\ ClaimsIn(log, "abort", 1, id) => Claims(c, id)
    BY <1>0, <1>1, <1>5, <1>6, EarlyHas DEF OwnsIn, HoldsIn, ClaimsIn, Holds, Owns
<1>8. /\ ContentIn(log, "abort", 1, upd[i], cell)
      /\ PlaceIn(log, "abort", 1) /\ RefreshIn(log, "abort", 1, upd[i])
      /\ ZeroedIn(log, "abort", 1, cell)
    BY <1>0, <1>6 DEF PlaceIn, RefreshIn, ZeroedIn, Early, ContentIn
<1>9. "abort" \in PCs \ {"idle", "begin", "release"}
    BY DEF PCs
<1> QED BY <1>0, <1>1, <1>2, <1>3, <1>4, <1>7, <1>8, <1>9, WalkKeeps

\* The blocks to refresh are finitely many.
LEMMA RefreshFinite ==
    ASSUME IInv, NEW i \in Index
    PROVE  IsFiniteSet(DOMAIN upd[i]) /\ Cardinality(DOMAIN upd[i]) \in Nat
<1>1. IsFiniteSet(Ids)
    BY FS_Interval, DAssumption, MAssumption DEF Ids
<1>2. DOMAIN upd[i] \in SUBSET Ids
    BY DEF IInv, MetasOK
<1>3. IsFiniteSet(DOMAIN upd[i])
    BY <1>1, <1>2, FS_Subset
<1> QED BY <1>3, FS_CardinalityType

\* What a client claims exists, and what it still has to take away it claims.
LEMMA ClaimedExists ==
    ASSUME BInv, NEW c \in Clients, cl[c].pc = "exec", NEW id \in Ids, Claims(c, id)
    PROVE  Exists(cell, id) /\ id \in Usable
<1>1. id \in Usable
    BY HasUsableClient
<1>2. CASE obj[id] # None
    BY <1>1, <1>2 DEF BInv, Points, ObjAt, Exists
<1>3. CASE Owns(c, id)
    <2>1. ContentIn(Log(c), cl[c].pc, cl[c].pos, upd[Idx(c)], cell)
        BY DEF BInv, Privates, PrivateOK
    <2>2. /\ cl[c].pc \in Working
          /\ ~ LimboIn(Log(c), cl[c].pc, cl[c].pos, id) /\ ~ InPutIn(Log(c), cl[c].pc, id)
        BY DEF Working, LimboIn, InPutIn
    <2> QED BY <1>1, <1>3, <2>1, <2>2 DEF ContentIn, Owns, Exists
<1> QED BY <1>1, <1>2, <1>3 DEF BInv, Apart

\* Execution passes over an entry.
LEMMA ExecSkipKeeps ==
    ASSUME BInv, IInv', Marked', NEW c \in Clients, ExecSkip(c)
    PROVE  BInv'
<1> DEFINE log == Log(c)
           i == Idx(c)
           pos == cl[c].pos
<1>0. cl[c].pc = "exec" /\ ~ AtEnd(c) /\ cl[c].pc # "idle"
    BY DEF ExecSkip, Walking
<1>1. /\ log \in Seq(Stride) /\ Len(log) \in Nat /\ PrivateOK(c) /\ i \in Index /\ log = slot[i].log
      /\ pos \in 1 .. Len(log) /\ EntryOK(log[pos])
    BY <1>0, LogFacts, HereOK DEF BInv, Privates
<1>2. log[pos].op \notin {"UPDATE", "REMOVE", "UPDINPLACE"}
    <2>1. ASSUME log[pos].op \in {"UPDATE", "REMOVE"} PROVE FALSE
        <3>1. log[pos].id1 \in Ids
            BY <1>1, <2>1, UsableIds DEF EntryOK, Ops
        <3>2. Claims(c, log[pos].id1)
            BY <1>0, <1>1, <2>1 DEF Claims, ClaimsIn, TakeAt, Working
        <3> QED BY <1>0, <2>1, <3>1, <3>2, ClaimedExists DEF ExecSkip, Here
    <2> QED BY <2>1 DEF ExecSkip, Here
<1>3. Moves(c, "exec", pos + 1)
    BY StepMoves DEF ExecSkip, BInv, IInv, PCs
<1>4. UNCHANGED <<slot, cell, upd, clean, rec, obj, free, mfree>>
    BY DEF ExecSkip, lists, metas, history, persistent
<1>5. \A id : ~ TakeAt(log[pos], id) /\ ~ PatchAt(log[pos], id)
    BY <1>2 DEF TakeAt, PatchAt
<1>6. \A k \in 1 .. Len(log) : /\ k < pos + 1 <=> k < pos \/ k = pos
                               /\ k >= pos + 1 => k >= pos
    BY <1>1
<1>7. \A id : Given(log, "exec", pos + 1, id) <=> Given(log, "exec", pos, id)
    BY <1>5, <1>6 DEF Given
<1>8. \A id : /\ HoldsIn(log, "exec", pos + 1, id) <=> HoldsIn(log, "exec", pos, id)
              /\ OwnsIn(log, "exec", pos + 1, id) <=> OwnsIn(log, "exec", pos, id)
              /\ ClaimsIn(log, "exec", pos + 1, id) => ClaimsIn(log, "exec", pos, id)
    BY <1>6, <1>7 DEF HoldsIn, OwnsIn, LimboIn, ClaimsIn
<1>9. ContentIn(log, "exec", pos + 1, upd[i], cell)
    <2>1. ContentIn(log, "exec", pos, upd[i], cell)
        BY <1>0, <1>1 DEF PrivateOK
    <2>2. \A id : ~ LimboIn(log, "exec", pos, id) /\ ~ InPutIn(log, "exec", id)
        BY DEF LimboIn, InPutIn
    <2>3. \A id \in Ids, k \in 1 .. Len(log) : Wrote(log, pos + 1, k, id) <=> Wrote(log, pos, k, id)
        BY <1>5, <1>6 DEF Wrote
    <2> HIDE DEF log, i, pos
    <2> QED BY <1>8, <2>1, <2>2, <2>3, ContentSame
<1>10. RefreshIn(log, "exec", pos + 1, upd[i])
    <2>1. RefreshIn(log, "exec", pos, upd[i])
        BY <1>0, <1>1 DEF PrivateOK
    <2>2. Cardinality(DOMAIN upd[i]) \in Nat
        BY <1>1, RefreshFinite DEF BInv
    <2> QED BY <1>1, <2>1, <2>2 DEF RefreshIn
<1>11. PlaceIn(log, "exec", pos + 1) /\ ZeroedIn(log, "exec", pos + 1, cell)
    BY DEF PlaceIn, ZeroedIn, Early
<1>12. "exec" \in PCs \ {"idle", "begin", "release"}
    BY DEF PCs
<1> QED BY <1>0, <1>1, <1>3, <1>4, <1>8, <1>9, <1>10, <1>11, <1>12, WalkKeeps DEF Holds, Owns, Claims

\* An abort passes over an entry.
LEMMA AbortSkipKeeps ==
    ASSUME BInv, IInv', Marked', NEW c \in Clients, AbortSkip(c)
    PROVE  BInv'
<1> DEFINE log == Log(c)
           i == Idx(c)
           pos == cl[c].pos
<1>0. cl[c].pc = "abort" /\ cl[c].pc # "idle" /\ cl[c].pc \notin {"exec", "free"} /\ ~ MakesNew(log[pos])
    BY DEF AbortSkip, Here
<1>1. pos \in Nat /\ PrivateOK(c) /\ i \in Index /\ log = slot[i].log /\ Len(log) \in Nat
    BY <1>0, LogFacts DEF BInv, Privates
<1>2. May("abort")
    BY <1>0, <1>1 DEF PrivateOK, PlaceIn
<1>3. Moves(c, "abort", pos + 1)
    BY StepMoves DEF AbortSkip, BInv, IInv, PCs
<1>4. UNCHANGED <<slot, cell, upd, clean, rec, obj, free, mfree>>
    BY DEF AbortSkip, lists, metas, history, persistent
<1>5. \A k \in 1 .. Len(log) : k < pos + 1 <=> k < pos \/ k = pos
    BY <1>1
<1>6. \A id : Given(log, "abort", pos + 1, id) <=> Given(log, "abort", pos, id)
    BY <1>0, <1>5 DEF Given
<1>7. "abort" \notin Working
    BY DEF Working, Early
<1>8. \A id : /\ HoldsIn(log, "abort", pos + 1, id) <=> HoldsIn(log, "abort", pos, id)
              /\ OwnsIn(log, "abort", pos + 1, id) <=> OwnsIn(log, "abort", pos, id)
              /\ ~ ClaimsIn(log, "abort", pos + 1, id)
    BY <1>6, <1>7 DEF HoldsIn, OwnsIn, LimboIn, ClaimsIn
<1>9. /\ ContentIn(log, "abort", pos + 1, upd[i], cell)
      /\ PlaceIn(log, "abort", pos + 1) /\ RefreshIn(log, "abort", pos + 1, upd[i])
      /\ ZeroedIn(log, "abort", pos + 1, cell)
    BY <1>2, <1>7 DEF PlaceIn, RefreshIn, ZeroedIn, Early, ContentIn
<1>10. "abort" \in PCs \ {"idle", "begin", "release"}
    BY DEF PCs
<1> QED BY <1>0, <1>1, <1>3, <1>4, <1>8, <1>9, <1>10, WalkKeeps DEF Holds, Owns

-----------------------------------------------------------------------------
(* Writing one block, and pushing one. *)

\* A client that moves to p and q, with the same log, and does something to
\* block x, which is its own affair.
LEMMA TouchKeeps ==
    ASSUME BInv, IInv', Marked', NEW c \in Clients, cl[c].pc \notin {"idle", "begin", "release"},
           NEW p \in PCs \ {"idle", "begin", "release"}, NEW q, Moves(c, p, q), UNCHANGED <<slot, clean, rec>>,
           \A i \in Index \ {Idx(c)} : upd'[i] = upd[i],
           p \in {"exec", "free"} \/ DOMAIN upd'[Idx(c)] = {},
           NEW x \in Usable \cup {0}, x \in Ids => Alone(c, x), CellsOK', Regions',
           \A id \in Usable \ {x} : cell'[Direct(id)] = cell[Direct(id)],
           \A id \in Ids \ {x} : /\ obj'[id] = obj[id]
                                 /\ id \in Frees' <=> id \in Frees
                                 /\ InFlux(id) => InFlux(id)'
                                 /\ HoldsIn(Log(c), p, q, id) <=> Holds(c, id),
           x \in Ids => /\ HoldsIn(Log(c), p, q, x) => obj'[x] = None /\ x \notin Frees'
                        /\ ObjAt(x)' /\ FreeAt(x)'
                        /\ obj'[x] # None \/ x \in Frees' \/ HoldsIn(Log(c), p, q, x),
           \A id \in Ids : ClaimsIn(Log(c), p, q, id) =>
                Claims(c, id) /\ (obj'[id] # None \/ OwnsIn(Log(c), p, q, id)),
           PlaceIn(Log(c), p, q), RefreshIn(Log(c), p, q, upd'[Idx(c)]),
           ContentIn(Log(c), p, q, upd'[Idx(c)], cell'), ZeroedIn(Log(c), p, q, cell')
    PROVE  BInv'
<1> DEFINE X == {x} \cap Ids
<1>1. Idx(c) \in Index /\ Up
    BY LogFacts DEF BInv
<1>2. /\ \A d \in Clients \ {c} :
            /\ cl'[d] = cl[d]
            /\ cl[d].pc # "idle" => slot'[Idx(d)] = slot[Idx(d)] /\ upd'[Idx(d)] = upd[Idx(d)]
      /\ Idx(c)' = Idx(c) /\ cl'[c].pc = p /\ cl'[c].pos = q
      /\ RefreshOwned' /\ LogsOwned'
    BY MoveFrame
<1>3. Log(c)' = Log(c)
    BY <1>2 DEF Log, Idx
<1>4. \A id : /\ Holds(c, id)' <=> HoldsIn(Log(c), p, q, id)
              /\ Owns(c, id)' <=> OwnsIn(Log(c), p, q, id)
              /\ Claims(c, id)' <=> ClaimsIn(Log(c), p, q, id)
    BY <1>2, <1>3 DEF Holds, Owns, Claims
<1>5. Shapes'
    BY DEF BInv, Shapes
<1>6. Acts(c, X)
    BY <1>2, <1>4, UsableIds DEF Acts
<1>7. PrivateOK(c)'
    BY <1>2, <1>3 DEF PrivateOK
<1>8. \A id \in Ids : Claims(c, id)' => (obj'[id] # None \/ Owns(c, id)') /\ Alone(c, id)
    BY <1>4, AloneHas
<1>9. \A id \in X : /\ Holds(c, id)' => obj'[id] = None /\ id \notin Frees'
                    /\ ObjAt(id)' /\ FreeAt(id)' /\ AccountedAt(id)'
    <2> SUFFICES ASSUME x \in Ids
                 PROVE  /\ Holds(c, x)' => obj'[x] = None /\ x \notin Frees'
                        /\ ObjAt(x)' /\ FreeAt(x)' /\ AccountedAt(x)'
        OBVIOUS
    <2>1. AccountedAt(x)'
        BY <1>4 DEF AccountedAt
    <2> QED BY <1>4, <2>1
<1>10. Settles(c, X)
    BY <1>7, <1>8, <1>9 DEF Settles
<1> QED BY <1>1, <1>2, <1>5, <1>6, <1>10, ActsKeep

\* The rest of a put: the block is written.
LEMMA PutWriteKeeps ==
    ASSUME BInv, IInv', Marked', NEW c \in Clients, TPutWrite(c)
    PROVE  BInv'
<1> DEFINE log == Log(c)
           i == Idx(c)
           n == Len(log)
           e == log[n]
<1>0. cl[c].pc \in {"put", "putmeta"} /\ cl[c].pc # "idle" /\ cl[c].pc \in Early
    BY DEF TPutWrite, Early
<1>1. /\ log \in Seq(Stride) /\ Shape(log) /\ n \in Nat /\ PrivateOK(c) /\ i \in Index
      /\ cl[c].pos = 0 /\ n \in 1 .. n /\ e \in Stride /\ EntryOK(e)
    <2>1. n \in 1 .. n
        BY <1>0, HeldSlot DEF BInv, IInv, WalksOK, Standing
    <2> QED BY <1>0, <2>1, LogFacts DEF BInv, Privates, PrivateOK, PlaceIn
<1>2. PICK x \in Ids :
        NewAt(e, x) /\ (cl[c].pc = "put" => x \in DataIds) /\ (cl[c].pc = "putmeta" => x \in MetaIds)
    BY <1>0, <1>1, UsableIds DEF PrivateOK, PlaceIn
<1>3. /\ \A id : NewAt(e, id) <=> id = x
      /\ x = IF e.op = "WRITE" THEN e.id1 ELSE e.id2
      /\ x \in Usable /\ e.val \in Vals
      /\ Region(x) = IF cl[c].pc = "put" THEN "data" ELSE "meta"
    <2>1. x = (IF e.op = "WRITE" THEN e.id1 ELSE e.id2) /\ \A id : NewAt(e, id) <=> id = x
        BY <1>2 DEF NewAt
    <2>2. x \in Usable /\ e.val \in Vals
        BY <1>1, <1>2 DEF EntryOK, NewAt, Ops
    <2>3. Region(x) = IF cl[c].pc = "put" THEN "data" ELSE "meta"
        BY <1>0, <1>2, DAssumption DEF Region, DataIds, MetaIds
    <2> QED BY <2>1, <2>2, <2>3
<1> DEFINE new == [sum |-> IF cl[c].pc = "put" THEN "data" ELSE "meta",
                   ver |-> IF e.op = "WRITE" THEN 1 ELSE cell[Direct(e.id1)].ver + 1,
                   val |-> e.val]
<1>4. cell' = [cell EXCEPT ![Direct(x)] = new] /\ new.sum = Region(x) /\ new.val = e.val
    BY <1>3 DEF TPutWrite
<1> HIDE DEF new
<1>5. cell'[Direct(x)] = new /\ \A a \in Addrs \ {Direct(x)} : cell'[a] = cell[a]
    BY <1>3, <1>4, DirectAddr DEF BInv, IInv, BlocksOK
<1>6. CellsOK' /\ \A id \in Usable \ {x} : cell'[Direct(id)] = cell[Direct(id)]
    BY <1>3, <1>4, <1>5, WriteCells DEF BInv, IInv
<1>7. UNCHANGED <<slot, free, mfree, upd, clean, rec, obj>> /\ Moves(c, "open", 0)
    BY <1>1, GotoMoves DEF TPutWrite, lists, metas, history, BInv, IInv, PCs
<1>8. Regions' /\ Frees' = Frees /\ DOMAIN upd[i] = {}
    BY <1>0, <1>7, NoRefresh DEF BInv, Regions, Frees
<1> HIDE DEF e, n, i
<1>9. \A id : /\ HoldsIn(log, "open", 0, id) <=> Holds(c, id)
              /\ OwnsIn(log, "open", 0, id) <=> Owns(c, id)
              /\ ClaimsIn(log, "open", 0, id) <=> Claims(c, id)
    <2>1. "open" \in Early /\ Len(log) \in Nat
        BY <1>1 DEF Early, n
    <2> QED BY <1>0, <1>1, <2>1, EarlyHas DEF Holds, Owns, Claims
<1>10. Owns(c, x) /\ Holds(c, x) /\ Alone(c, x) /\ obj[x] = None /\ x \notin Frees
    <2>1. Owns(c, x)
        BY <1>0, <1>1, <1>3, EarlyHas DEF Owns, n, e
    <2>2. Holds(c, x)
        BY <2>1 DEF Owns, Holds, HoldsIn
    <2> QED BY <1>3, <2>1, <2>2, AloneHas DEF BInv, Apart
<1>11. ContentIn(log, "open", 0, upd'[i], cell')
    <2>1. ASSUME NEW id \in Ids, OwnsIn(log, "open", 0, id)
          PROVE  /\ cell'[Direct(id)].sum # "zero"
                 /\ cell'[Direct(id)].sum = Region(id) \/ id \in DOMAIN upd'[i]
                 /\ \A k \in 1 .. Len(log) :
                        LastWrote(log, 0, k, id) => cell'[Direct(id)].val = log[k].val
        <3>1. CASE id = x
            <4>1. \A k \in 1 .. Len(log) : Wrote(log, 0, k, id) => k = n
                BY <1>1, <1>3, <3>1 DEF Wrote, Shape, Once, e, n
            <4>2. \A k \in 1 .. Len(log) : LastWrote(log, 0, k, id) => log[k] = e
                BY <4>1 DEF LastWrote, e
            <4>3. Region(x) # "zero"
                BY DEF Region
            <4> QED BY <1>4, <1>5, <3>1, <4>2, <4>3
        <3>2. CASE id # x
            <4>1. Owns(c, id) /\ Holds(c, id)
                BY <1>9, <2>1 DEF Holds, Owns, HoldsIn
            <4>2. cell'[Direct(id)] = cell[Direct(id)]
                BY <1>6, <3>2, <4>1, HasUsableClient
            <4>3. ~ InPutIn(log, cl[c].pc, id)
                BY <1>3, <3>2 DEF InPutIn, e, n
            <4>4. ~ LimboIn(log, cl[c].pc, cl[c].pos, id) /\ cl[c].pc \in Working
                BY <1>0 DEF LimboIn, Working, Early
            <4>5. ContentIn(log, cl[c].pc, 0, upd[i], cell)
                BY <1>1 DEF PrivateOK, i
            <4> QED BY <1>1, <1>7, <2>1, <4>1, <4>2, <4>3, <4>4, <4>5 DEF ContentIn, Owns
        <3> QED BY <3>1, <3>2
    <2> QED BY <2>1 DEF ContentIn
<1>12. /\ PlaceIn(log, "open", 0) /\ RefreshIn(log, "open", 0, upd'[i])
       /\ ZeroedIn(log, "open", 0, cell')
    BY DEF PlaceIn, RefreshIn, ZeroedIn, Early
<1>13. ObjAt(x)' /\ FreeAt(x)'
    BY <1>7, <1>8, <1>10 DEF ObjAt, FreeAt
<1>14. \A id \in Ids : ClaimsIn(log, "open", 0, id) =>
            Claims(c, id) /\ (obj'[id] # None \/ OwnsIn(log, "open", 0, id))
    <2>1. obj' = obj
        BY <1>7
    <2>2. \A id \in Ids : Claims(c, id) => obj[id] # None \/ Owns(c, id)
        BY DEF BInv, Apart
    <2> HIDE DEF log
    <2> QED BY <1>9, <2>1, <2>2
<1>15. /\ "open" \in PCs \ {"idle"} /\ DOMAIN upd'[i] = {}
       /\ \A id : InFlux(id) => InFlux(id)'
       /\ \A j \in Index \ {i} : upd'[j] = upd[j]
    BY <1>7, <1>8, FluxKeep DEF PCs
<1>16. /\ \A id \in Ids \ {x} : /\ obj'[id] = obj[id] /\ (id \in Frees' <=> id \in Frees)
                                /\ InFlux(id) => InFlux(id)'
                                /\ HoldsIn(log, "open", 0, id) <=> Holds(c, id)
       /\ HoldsIn(log, "open", 0, x) /\ obj'[x] = None /\ x \notin Frees'
    BY <1>7, <1>8, <1>9, <1>10, <1>15
<1>17. UNCHANGED <<slot, clean, rec>>
    BY <1>7
<1> USE DEF i
<1> QED BY <1>0, <1>3, <1>6, <1>7, <1>8, <1>10, <1>11, <1>12, <1>13, <1>14, <1>15, <1>16, <1>17, TouchKeeps

\* Writing zeros to one block.
LEMMA ZeroCells ==
    ASSUME BInv, NEW x \in Usable \cup {0}, cell' = SetZero(cell, x), BlocksOK'
    PROVE  /\ CellsOK' /\ cell'[Direct(x)] = ZeroBlock
           /\ \A id \in Usable \ {x} : cell'[Direct(id)] = cell[Direct(id)]
<1>1. Direct(x) \in Addrs /\ cell \in [Addrs -> Block]
    BY DirectAddr, UsableIds DEF BInv, IInv, BlocksOK
<1>2. cell'[Direct(x)] = ZeroBlock /\ \A a \in Addrs \ {Direct(x)} : cell'[a] = cell[a]
    BY <1>1 DEF SetZero
<1>3. cell'[Direct(x)].sum = "zero"
    BY <1>2 DEF ZeroBlock
<1>4. cell'[Direct(x)].sum \in {"zero", "bad", cell[Direct(x)].sum}
    BY <1>3
<1>5. BlocksOK /\ CellsOK
    BY DEF BInv, IInv
<1> QED BY <1>2, <1>3, <1>4, <1>5, WriteCells

\* What an execution is about to take away it claims, and nothing else of its
\* log names the block once that is done.
LEMMA TakenOnce ==
    ASSUME NEW log \in Seq(Stride), Shape(log), NEW pos \in 1 .. Len(log), NEW x \in Ids,
           TakeAt(log[pos], x)
    PROVE  /\ ClaimsIn(log, "exec", pos, x)
           /\ ~ ClaimsIn(log, "free", pos, x) /\ ~ ClaimsIn(log, "exec", pos + 1, x)
           /\ \A k \in 1 .. Len(log) : TakeAt(log[k], x) => k = pos
           /\ \A k \in 1 .. Len(log) : ~ PatchAt(log[k], x)
<1>1. \A k \in 1 .. Len(log) : (TakeAt(log[k], x) => k = pos) /\ ~ PatchAt(log[k], x)
    BY DEF Shape, Once
<1>2. ClaimsIn(log, "exec", pos, x)
    BY DEF ClaimsIn, Working
<1>3. ~ ClaimsIn(log, "free", pos, x)
    BY <1>1 DEF ClaimsIn
<1>4. ~ (pos >= pos + 1)
    OBVIOUS
<1>5. ~ ClaimsIn(log, "exec", pos + 1, x)
    BY <1>1, <1>4 DEF ClaimsIn
<1> QED BY <1>1, <1>2, <1>3, <1>5

\* Execution zeroes a block that it takes away.
LEMMA ExecZeroKeeps ==
    ASSUME BInv, IInv', Marked', NEW c \in Clients, ExecZero(c)
    PROVE  BInv'
<1> DEFINE log == Log(c)
           i == Idx(c)
           pos == cl[c].pos
<1>0. cl[c].pc = "exec" /\ ~ AtEnd(c) /\ cl[c].pc # "idle" /\ log[pos].op \in {"UPDATE", "REMOVE"}
    BY DEF ExecZero, Walking, Here
<1>1. /\ log \in Seq(Stride) /\ Shape(log) /\ PrivateOK(c) /\ i \in Index
      /\ pos \in 1 .. Len(log) /\ EntryOK(log[pos])
    BY <1>0, LogFacts, HereOK DEF BInv, Privates
<1>2. PICK x \in Usable : x = log[pos].id1
    BY <1>0, <1>1 DEF EntryOK, Ops
<1>3. x \in Ids /\ TakeAt(log[pos], x)
    BY <1>0, <1>2, UsableIds DEF TakeAt
<1>4. Claims(c, x) /\ Alone(c, x) /\ ~ ClaimsIn(log, "free", pos, x)
    <2>1. ClaimsIn(log, "exec", pos, x) /\ ~ ClaimsIn(log, "free", pos, x)
        BY <1>1, <1>3, TakenOnce
    <2>2. Claims(c, x)
        BY <1>0, <2>1 DEF Claims
    <2> QED BY <1>3, <2>1, <2>2, AloneHas
<1>5. cell' = SetZero(cell, x) /\ obj' = [obj EXCEPT ![x] = None]
    BY <1>2 DEF ExecZero, Here
<1>6. /\ CellsOK' /\ cell'[Direct(x)] = ZeroBlock
      /\ \A id \in Usable \ {x} : cell'[Direct(id)] = cell[Direct(id)]
    BY <1>5, ZeroCells DEF IInv
<1>7. obj'[x] = None /\ \A id \in Ids \ {x} : obj'[id] = obj[id]
    BY <1>3, <1>5 DEF BInv, IInv, HistoryOK
<1>8. UNCHANGED <<slot, clean, rec, upd, free, mfree>> /\ Moves(c, "free", pos)
    BY GotoMoves DEF ExecZero, lists, metas, BInv, IInv, PCs
<1>9. Frees' = Frees /\ Regions' /\ x \notin Frees
    <2>1. \A id \in Ids : Owns(c, id) => Holds(c, id)
        BY DEF Owns, Holds, HoldsIn
    <2>2. x \notin Frees
        BY <1>3, <1>4, <2>1 DEF BInv, Apart, Points, ObjAt
    <2> QED BY <1>8, <2>2 DEF Frees, Regions, BInv
<1>10. \A id : /\ LimboIn(log, "free", pos, id) <=> id = x
               /\ ~ LimboIn(log, "exec", pos, id)
               /\ OwnsIn(log, "free", pos, id) <=> OwnsIn(log, "exec", pos, id)
               /\ ClaimsIn(log, "free", pos, id) => ClaimsIn(log, "exec", pos, id)
    BY <1>2 DEF LimboIn, OwnsIn, Given, ClaimsIn, Working
<1>11. \A id : /\ Holds(c, id) <=> HoldsIn(log, "exec", pos, id)
               /\ Owns(c, id) <=> OwnsIn(log, "exec", pos, id)
               /\ Claims(c, id) <=> ClaimsIn(log, "exec", pos, id)
    BY <1>0 DEF Holds, Owns, Claims
<1>12. /\ ContentIn(log, "exec", pos, upd[i], cell)
       /\ RefreshIn(log, "exec", pos, upd[i])
    BY <1>0, <1>1 DEF PrivateOK
<1> HIDE DEF log, i, pos
<1>13. \A id \in Ids \ {x} : HoldsIn(log, "free", pos, id) <=> Holds(c, id)
    BY <1>10, <1>11 DEF HoldsIn
<1>14. \A id \in Ids : ClaimsIn(log, "free", pos, id) =>
            Claims(c, id) /\ (obj'[id] # None \/ OwnsIn(log, "free", pos, id))
    <2>1. \A id \in Ids : Claims(c, id) => obj[id] # None \/ Owns(c, id)
        BY DEF BInv, Apart
    <2> QED BY <1>4, <1>7, <1>10, <1>11, <2>1
<1>15. ContentIn(log, "free", pos, upd[i], cell')
    <2>1. ASSUME NEW id \in Ids, OwnsIn(log, "free", pos, id), ~ LimboIn(log, "free", pos, id)
          PROVE  cell'[Direct(id)] = cell[Direct(id)]
        <3>1. id # x /\ Holds(c, id)
            BY <1>10, <1>11, <2>1 DEF HoldsIn
        <3> QED BY <1>6, <3>1, HasUsableClient
    <2>2. \A id : ~ InPutIn(log, "exec", id) /\ ~ InPutIn(log, "free", id)
        BY DEF InPutIn
    <2>3. ContentIn(log, "free", pos, upd[i], cell)
        <3>1. "exec" \in Working
            BY DEF Working
        <3> QED BY <1>10, <1>12, <2>2, <3>1, ContentSame
    <2> QED BY <2>1, <2>3 DEF ContentIn
<1>16. PlaceIn(log, "free", pos)
    BY <1>0 DEF PlaceIn, Early
<1>17. RefreshIn(log, "free", pos, upd[i])
    BY <1>12 DEF RefreshIn
<1>18. ZeroedIn(log, "free", pos, cell')
    BY <1>2, <1>6 DEF ZeroedIn, ZeroBlock
<1>19. ObjAt(x)' /\ FreeAt(x)' /\ x \notin Frees'
    BY <1>7, <1>9 DEF ObjAt, FreeAt
<1>20. HoldsIn(log, "free", pos, x)
    BY <1>10 DEF HoldsIn
<1>21. \A id \in Ids \ {x} : /\ obj'[id] = obj[id]
                             /\ id \in Frees' <=> id \in Frees
                             /\ InFlux(id) => InFlux(id)'
    BY <1>7, <1>8, <1>9, FluxKeep
<1>22. "free" \in PCs \ {"idle"} /\ upd' = upd
    BY <1>8 DEF PCs
<1> QED BY <1>0, <1>4, <1>6, <1>7, <1>8, <1>9, <1>13, <1>14, <1>15, <1>16, <1>17, <1>18, <1>19,
           <1>20, <1>21, <1>22, TouchKeeps DEF log, i

\* An abort zeroes a block that the transaction wrote.
LEMMA AbortZeroKeeps ==
    ASSUME BInv, IInv', Marked', NEW c \in Clients, AbortZero(c)
    PROVE  BInv'
<1> DEFINE log == Log(c)
           i == Idx(c)
           pos == cl[c].pos
<1>0. cl[c].pc = "abort" /\ ~ AtEnd(c) /\ cl[c].pc # "idle" /\ cl[c].pc \notin {"exec", "free"}
      /\ MakesNew(log[pos])
    BY DEF AbortZero, Here
<1>1. /\ log \in Seq(Stride) /\ Shape(log) /\ PrivateOK(c) /\ i \in Index
      /\ pos \in 1 .. Len(log) /\ EntryOK(log[pos])
    BY <1>0, LogFacts, HereOK DEF BInv, Privates
<1>2. PICK x \in Usable \cup {0} : x = NewBlock(log[pos]) /\ (x = 0 <=> log[pos].op = "BLANK")
    BY <1>0, <1>1, UsableIds DEF EntryOK, MakesNew, NewBlock, Ops
<1>3. x \in Ids => Owns(c, x) /\ Holds(c, x) /\ Alone(c, x) /\ obj[x] = None /\ x \notin Frees
    <2> SUFFICES ASSUME x \in Ids
                 PROVE  Owns(c, x) /\ Holds(c, x) /\ Alone(c, x) /\ obj[x] = None /\ x \notin Frees
        OBVIOUS
    <2>1. log[pos].op \in {"WRITE", "UPDATE"}
        BY <1>0, <1>1, <1>2, UsableIds DEF MakesNew, EntryOK, Ops
    <2>2. OwnsIn(log, "abort", pos, x)
        BY <1>1, <1>2, <2>1, AbfreeOwns
    <2>3. Owns(c, x) /\ Holds(c, x)
        BY <1>0, <2>2 DEF Owns, Holds, HoldsIn
    <2> QED BY <2>3, AloneHas DEF BInv, Apart
<1>4. /\ CellsOK' /\ cell'[Direct(x)] = ZeroBlock
      /\ \A id \in Usable \ {x} : cell'[Direct(id)] = cell[Direct(id)]
    <2>1. cell' = SetZero(cell, x)
        BY <1>2 DEF AbortZero, Here
    <2> QED BY <2>1, ZeroCells DEF IInv
<1>5. UNCHANGED <<slot, clean, rec, upd, free, mfree, obj>> /\ Moves(c, "abfree", pos)
    BY GotoMoves DEF AbortZero, lists, metas, history, BInv, IInv, PCs
<1>6. Frees' = Frees /\ Regions' /\ DOMAIN upd[i] = {}
    BY <1>0, <1>5, NoRefresh DEF Frees, Regions, BInv
<1>7. "abfree" \notin Working
    BY DEF Working, Early
<1>8. \A id : /\ HoldsIn(log, "abfree", pos, id) <=> Holds(c, id)
              /\ ~ ClaimsIn(log, "abfree", pos, id)
    BY <1>0, <1>7 DEF Holds, HoldsIn, OwnsIn, Given, LimboIn, ClaimsIn
<1>9. /\ ContentIn(log, "abfree", pos, upd[i], cell')
      /\ PlaceIn(log, "abfree", pos) /\ RefreshIn(log, "abfree", pos, upd[i])
    BY <1>0, <1>1, <1>7 DEF ContentIn, PlaceIn, RefreshIn, Early, PrivateOK
<1>10. ZeroedIn(log, "abfree", pos, cell')
    BY <1>2, <1>4 DEF ZeroedIn, ZeroBlock
<1>11. x \in Ids => ObjAt(x)' /\ FreeAt(x)' /\ x \notin Frees' /\ obj'[x] = None
    BY <1>3, <1>5, <1>6 DEF ObjAt, FreeAt
<1>12. \A id \in Ids \ {x} : /\ obj'[id] = obj[id]
                             /\ id \in Frees' <=> id \in Frees
                             /\ InFlux(id) => InFlux(id)'
    BY <1>5, <1>6, FluxKeep
<1>13. "abfree" \in PCs \ {"idle"} /\ upd' = upd
    BY <1>5 DEF PCs
<1> HIDE DEF log, i, pos
<1> QED BY <1>0, <1>3, <1>4, <1>5, <1>6, <1>8, <1>9, <1>10, <1>11, <1>12, <1>13, TouchKeeps DEF log, i

\* caslist_push of a block, to the list of its region.
LEMMA PushFrees ==
    ASSUME BInv, NEW x \in Usable \cup {0}, Push(x)
    PROVE  Regions' /\ \A id \in Ids : id \in Frees' <=> id \in Frees \/ id = x
<1>1. DataIds \cap MetaIds = {} /\ 0 \notin DataIds /\ \A id \in Ids : id >= D <=> id \in MetaIds
    BY DAssumption, MAssumption DEF DataIds, MetaIds, Ids
<1>2. CASE x \in DataIds
    <2>1. ~ (x >= D)
        BY <1>2, DAssumption DEF DataIds
    <2> QED BY <1>2, <2>1 DEF Push, Frees, BInv, Regions
<1>3. CASE x \in MetaIds
    <2>1. x >= D /\ x \notin DataIds
        BY <1>1, <1>3, DAssumption DEF MetaIds
    <2> QED BY <1>3, <2>1 DEF Push, Frees, BInv, Regions
<1>4. CASE x = 0
    <2>1. ~ (x >= D) /\ x \notin DataIds /\ x \notin Ids
        BY <1>1, <1>4, DAssumption, UsableIds
    <2> QED BY <2>1 DEF Push, Frees, BInv, Regions
<1> QED BY <1>2, <1>3, <1>4, UsableIds

\* Execution pushes the block that it has zeroed.
LEMMA ExecFreeKeeps ==
    ASSUME BInv, IInv', Marked', NEW c \in Clients, ExecFree(c)
    PROVE  BInv'
<1> DEFINE log == Log(c)
           i == Idx(c)
           pos == cl[c].pos
<1>0. cl[c].pc = "free" /\ cl[c].pc # "idle"
    BY DEF ExecFree
<1>1. /\ log \in Seq(Stride) /\ Shape(log) /\ Len(log) \in Nat /\ PrivateOK(c) /\ i \in Index
      /\ pos \in 1 .. Len(log) /\ EntryOK(log[pos]) /\ log[pos].op \in {"UPDATE", "REMOVE"}
    BY <1>0, LogFacts, HereOK DEF BInv, Privates, PrivateOK, PlaceIn
<1>2. PICK x \in Usable : x = log[pos].id1
    BY <1>0, <1>1 DEF EntryOK, Ops
<1>3. x \in Ids /\ (\A id : TakeAt(log[pos], id) <=> id = x) /\ \A id : ~ PatchAt(log[pos], id)
    BY <1>1, <1>2, UsableIds DEF TakeAt, PatchAt
<1>4. Holds(c, x) /\ Alone(c, x) /\ obj[x] = None /\ ~ ClaimsIn(log, "exec", pos + 1, x)
    <2>1. Holds(c, x)
        BY <1>0, <1>2 DEF Holds, HoldsIn, LimboIn
    <2>2. ~ ClaimsIn(log, "exec", pos + 1, x)
        BY <1>1, <1>3, TakenOnce
    <2> QED BY <1>3, <2>1, <2>2, AloneHas DEF BInv, Apart
<1>5. UNCHANGED <<slot, cell, clean, rec, upd, obj>> /\ Moves(c, "exec", pos + 1) /\ Push(x)
    BY <1>2, StepMoves DEF ExecFree, Here, persistent, metas, history, BInv, IInv, PCs
<1>6. Regions' /\ CellsOK' /\ \A id \in Ids : id \in Frees' <=> id \in Frees \/ id = x
    BY <1>5, PushFrees DEF BInv, CellsOK
<1>7. \A k \in 1 .. Len(log) : /\ k < pos + 1 <=> k < pos \/ k = pos
                               /\ k >= pos + 1 <=> k >= pos /\ k # pos
    BY <1>1
<1>8. \A id : /\ Given(log, "exec", pos + 1, id) <=> Given(log, "free", pos, id) \/ id = x
              /\ LimboIn(log, "free", pos, id) <=> id = x
              /\ ~ LimboIn(log, "exec", pos + 1, id)
    <2>1. \A id : Given(log, "exec", pos + 1, id) <=> Given(log, "free", pos, id) \/ id = x
        BY <1>1, <1>3, <1>7 DEF Given
    <2> QED BY <1>2, <2>1 DEF LimboIn
<1>9. \A id : /\ OwnsIn(log, "exec", pos + 1, id) <=> OwnsIn(log, "free", pos, id) /\ id # x
              /\ ClaimsIn(log, "exec", pos + 1, id) => ClaimsIn(log, "free", pos, id)
    BY <1>7, <1>8 DEF OwnsIn, ClaimsIn, Working
<1>10. \A id : /\ Holds(c, id) <=> HoldsIn(log, "free", pos, id)
               /\ Owns(c, id) <=> OwnsIn(log, "free", pos, id)
               /\ Claims(c, id) <=> ClaimsIn(log, "free", pos, id)
    BY <1>0 DEF Holds, Owns, Claims
<1>11. /\ ContentIn(log, "free", pos, upd[i], cell)
       /\ RefreshIn(log, "free", pos, upd[i]) /\ ZeroedIn(log, "free", pos, cell)
    BY <1>0, <1>1 DEF PrivateOK
<1>12. RefreshIn(log, "exec", pos + 1, upd[i])
    <2>1. Cardinality(DOMAIN upd[i]) \in Nat
        BY <1>1, RefreshFinite DEF BInv
    <2> QED BY <1>1, <1>11, <2>1 DEF RefreshIn
<1>13. ContentIn(log, "exec", pos + 1, upd[i], cell)
    <2>1. \A id : ~ InPutIn(log, "exec", id) /\ ~ InPutIn(log, "free", id)
        BY DEF InPutIn
    <2>2. \A id \in Ids, k \in 1 .. Len(log) : Wrote(log, pos + 1, k, id) <=> Wrote(log, pos, k, id)
        BY <1>3, <1>7 DEF Wrote
    <2>3. "free" \in Working
        BY DEF Working
    <2> HIDE DEF log, i, pos
    <2> QED BY <1>8, <1>9, <1>11, <2>1, <2>2, <2>3, ContentSame
<1> HIDE DEF log, i, pos
<1>14. \A id \in Ids \ {x} : HoldsIn(log, "exec", pos + 1, id) <=> Holds(c, id)
    BY <1>8, <1>9, <1>10 DEF HoldsIn
<1>15. \A id \in Ids : ClaimsIn(log, "exec", pos + 1, id) =>
            Claims(c, id) /\ (obj'[id] # None \/ OwnsIn(log, "exec", pos + 1, id))
    <2>1. \A id \in Ids : Claims(c, id) => obj[id] # None \/ Owns(c, id)
        BY DEF BInv, Apart
    <2> QED BY <1>4, <1>5, <1>9, <1>10, <2>1
<1>16. PlaceIn(log, "exec", pos + 1) /\ ZeroedIn(log, "exec", pos + 1, cell')
    BY DEF PlaceIn, Early, ZeroedIn
<1>17. ObjAt(x)' /\ FreeAt(x)' /\ x \in Frees' /\ obj'[x] = None
    <2>1. ~ Valid(cell', x)
        BY <1>2, <1>5, <1>11 DEF ZeroedIn, Valid, Exists
    <2> QED BY <1>3, <1>4, <1>5, <1>6, <2>1 DEF ObjAt, FreeAt
<1>18. ~ HoldsIn(log, "exec", pos + 1, x)
    BY <1>8, <1>9 DEF HoldsIn
<1>19. \A id \in Ids \ {x} : /\ obj'[id] = obj[id]
                             /\ id \in Frees' <=> id \in Frees
                             /\ InFlux(id) => InFlux(id)'
    BY <1>5, <1>6, FluxKeep
<1>20. "exec" \in PCs \ {"idle"} /\ upd' = upd /\ cell' = cell
    BY <1>5 DEF PCs
<1> QED BY <1>0, <1>4, <1>5, <1>6, <1>12, <1>13, <1>14, <1>15, <1>16, <1>17, <1>18, <1>19, <1>20,
           TouchKeeps DEF log, i

\* An abort pushes the block that it has zeroed.
LEMMA AbortFreeKeeps ==
    ASSUME BInv, IInv', Marked', NEW c \in Clients, AbortFree(c)
    PROVE  BInv'
<1> DEFINE log == Log(c)
           i == Idx(c)
           pos == cl[c].pos
<1>0. cl[c].pc = "abfree" /\ cl[c].pc # "idle" /\ cl[c].pc \notin {"exec", "free"}
    BY DEF AbortFree
<1>1. /\ log \in Seq(Stride) /\ Shape(log) /\ Len(log) \in Nat /\ PrivateOK(c) /\ i \in Index
      /\ pos \in 1 .. Len(log) /\ EntryOK(log[pos]) /\ MakesNew(log[pos]) /\ May("abort")
    BY <1>0, LogFacts, HereOK DEF BInv, Privates, PrivateOK, PlaceIn
<1>2. PICK x \in Usable \cup {0} : x = NewBlock(log[pos]) /\ (x = 0 <=> log[pos].op = "BLANK")
    BY <1>1, UsableIds DEF EntryOK, MakesNew, NewBlock, Ops
<1>3. x \in Ids => Holds(c, x) /\ Alone(c, x) /\ obj[x] = None /\ ~ Valid(cell, x)
    <2> SUFFICES ASSUME x \in Ids
                 PROVE  Holds(c, x) /\ Alone(c, x) /\ obj[x] = None /\ ~ Valid(cell, x)
        OBVIOUS
    <2>1. log[pos].op \in {"WRITE", "UPDATE"}
        BY <1>1, <1>2, UsableIds DEF MakesNew, EntryOK, Ops
    <2>2. OwnsIn(log, "abfree", pos, x)
        BY <1>1, <1>2, <2>1, AbfreeOwns
    <2>3. Holds(c, x)
        BY <1>0, <2>2 DEF Holds, HoldsIn
    <2>4. cell[Direct(x)].sum = "zero"
        BY <1>0, <1>1, <1>2, <2>1 DEF PrivateOK, ZeroedIn
    <2> QED BY <2>3, <2>4, AloneHas DEF BInv, Apart, Valid, Exists
<1>4. UNCHANGED <<slot, cell, clean, rec, upd, obj>> /\ Moves(c, "abort", pos + 1) /\ Push(x)
    BY <1>2, StepMoves DEF AbortFree, Here, persistent, metas, history, BInv, IInv, PCs
<1>5. Regions' /\ CellsOK' /\ \A id \in Ids : id \in Frees' <=> id \in Frees \/ id = x
    BY <1>4, PushFrees DEF BInv, CellsOK
<1>6. \A k \in 1 .. Len(log) : k < pos + 1 <=> k < pos \/ k = pos
    BY <1>1
<1>7. \A id : Given(log, "abort", pos + 1, id) <=> Given(log, "abfree", pos, id) \/ id = x
    BY <1>1, <1>2, <1>6 DEF Given
<1>8. "abort" \notin Working /\ DOMAIN upd[i] = {}
    BY <1>0, NoRefresh DEF Working, Early
<1>9. \A id : /\ HoldsIn(log, "abort", pos + 1, id) <=> Holds(c, id) /\ id # x
              /\ ~ ClaimsIn(log, "abort", pos + 1, id)
    BY <1>0, <1>7, <1>8 DEF Holds, HoldsIn, OwnsIn, LimboIn, ClaimsIn
<1>10. /\ ContentIn(log, "abort", pos + 1, upd[i], cell')
       /\ PlaceIn(log, "abort", pos + 1) /\ RefreshIn(log, "abort", pos + 1, upd[i])
       /\ ZeroedIn(log, "abort", pos + 1, cell')
    BY <1>1, <1>8 DEF ContentIn, PlaceIn, RefreshIn, Early, ZeroedIn
<1>11. x \in Ids => ObjAt(x)' /\ FreeAt(x)' /\ x \in Frees' /\ obj'[x] = None
    BY <1>3, <1>4, <1>5 DEF ObjAt, FreeAt
<1>12. \A id \in Ids \ {x} : /\ obj'[id] = obj[id]
                             /\ id \in Frees' <=> id \in Frees
                             /\ InFlux(id) => InFlux(id)'
    BY <1>4, <1>5, FluxKeep
<1>13. "abort" \in PCs \ {"idle"} /\ upd' = upd /\ cell' = cell
    BY <1>4 DEF PCs
<1> HIDE DEF log, i, pos
<1> QED BY <1>0, <1>3, <1>4, <1>5, <1>8, <1>9, <1>10, <1>11, <1>12, <1>13, TouchKeeps DEF log, i

\* Execution patches a block.
LEMMA ExecPatchKeeps ==
    ASSUME BInv, Ordinary, IInv', Marked', NEW c \in Clients, ExecPatch(c)
    PROVE  BInv'
<1> DEFINE log == Log(c)
           i == Idx(c)
           pos == cl[c].pos
<1>0. cl[c].pc = "exec" /\ ~ AtEnd(c) /\ cl[c].pc # "idle" /\ log[pos].op = "UPDINPLACE"
    BY DEF ExecPatch, Walking, Here
<1>1. /\ log \in Seq(Stride) /\ Shape(log) /\ Len(log) \in Nat /\ PrivateOK(c) /\ i \in Index
      /\ pos \in 1 .. Len(log) /\ EntryOK(log[pos])
    BY <1>0, LogFacts, HereOK DEF BInv, Privates
<1>2. PICK x \in Usable : x = log[pos].id1
    BY <1>0, <1>1 DEF EntryOK, Ops
<1>3. PICK v \in Vals : v = log[pos].val
    BY <1>0, <1>1 DEF EntryOK
<1>4. /\ x \in Ids /\ (\A id : PatchAt(log[pos], id) <=> id = x)
      /\ \A id : ~ TakeAt(log[pos], id) /\ ~ NewAt(log[pos], id)
    BY <1>0, <1>2, UsableIds DEF TakeAt, PatchAt, NewAt
<1>5. /\ pos < Len(log) /\ pos + 1 \in 1 .. Len(log) /\ Len(log) <= MaxLog
      /\ \A id : ~ TakeAt(log[pos + 1], id) /\ ~ PatchAt(log[pos + 1], id) /\ ~ NewAt(log[pos + 1], id)
    <2>1. pos < Len(log) /\ log[pos + 1].op \in {"TEXT", "BLANK"} /\ Len(log) <= MaxLog
        BY <1>0, <1>1 DEF Shape
    <2>2. pos + 1 \in 1 .. Len(log)
        BY <1>1, <2>1
    <2> QED BY <2>1, <2>2 DEF TakeAt, PatchAt, NewAt
<1>6. Claims(c, x) /\ Alone(c, x) /\ Exists(cell, x) /\ cell[Direct(x)].sum # "zero"
    <2>1. Claims(c, x)
        BY <1>0, <1>1, <1>4 DEF Claims, ClaimsIn, Working
    <2> QED BY <1>0, <1>4, <2>1, AloneHas, ClaimedExists DEF Exists
<1>7. /\ cell' = [cell EXCEPT ![Direct(x)] = Patched(cell[Direct(x)], v)]
      /\ upd' = [upd EXCEPT ![i] = MetaUpdAdd(upd[i], clean[i], x, cell[Direct(x)].ver)]
      /\ obj' = [obj EXCEPT ![x] = IF obj[x] = None THEN None ELSE v]
    BY <1>2, <1>3 DEF ExecPatch, Here, Idx
<1>8. UNCHANGED <<slot, clean, rec, free, mfree>> /\ Moves(c, "exec", pos + 2)
    BY StepMoves DEF ExecPatch, lists, BInv, IInv, PCs
<1>9. obj'[x] = (IF obj[x] = None THEN None ELSE v) /\ \A id \in Ids \ {x} : obj'[id] = obj[id]
    BY <1>4, <1>7 DEF BInv, IInv, HistoryOK
<1>10. /\ CellsOK' /\ cell'[Direct(x)].val = v /\ cell'[Direct(x)].sum # "zero"
       /\ \A id \in Usable \ {x} : cell'[Direct(id)] = cell[Direct(id)]
    <2>1. Direct(x) \in Addrs /\ cell \in [Addrs -> Block] /\ cell[Direct(x)] \in Block
        BY <1>4, DirectAddr DEF BInv, IInv, BlocksOK
    <2> DEFINE b == Patched(cell[Direct(x)], v)
    <2>2. b.val = v /\ (b.sum = cell[Direct(x)].sum \/ b.sum = "bad")
        BY <2>1 DEF Patched, Block
    <2>3. cell' = [cell EXCEPT ![Direct(x)] = b]
        BY <1>7
    <2> HIDE DEF b
    <2>4. cell'[Direct(x)] = b /\ \A a \in Addrs \ {Direct(x)} : cell'[a] = cell[a]
        BY <2>1, <2>3
    <2>5. cell'[Direct(x)].sum \in {"zero", "bad", cell[Direct(x)].sum}
        BY <2>2, <2>4
    <2>6. cell'[Direct(x)].val = v /\ cell'[Direct(x)].sum # "zero" /\ v \in Vals
        BY <1>6, <2>2, <2>4
    <2>7. BlocksOK /\ CellsOK /\ BlocksOK'
        BY DEF BInv, IInv
    <2> QED BY <2>4, <2>5, <2>6, <2>7, WriteCells
<1>11. RefreshIn(log, "exec", pos, upd[i]) /\ ContentIn(log, "exec", pos, upd[i], cell)
    BY <1>0, <1>1 DEF PrivateOK
<1>12. /\ DOMAIN upd'[i] = DOMAIN upd[i] \cup {x} /\ \A j \in Index \ {i} : upd'[j] = upd[j]
       /\ RefreshIn(log, "exec", pos + 2, upd'[i])
    <2> DEFINE u == upd[i]
               w == MetaUpdAdd(u, clean[i], x, cell[Direct(x)].ver)
    <2>1. IsFiniteSet(DOMAIN u) /\ Cardinality(DOMAIN u) \in Nat /\ 2 * Cardinality(DOMAIN u) <= pos - 1
        BY <1>1, <1>11, RefreshFinite DEF BInv, RefreshIn
    <2>2. clean[i] \in Nat /\ MaxLog <= 2 * clean[i]
        BY <1>1, CleanAssumption DEF BInv, CleanOK, Ordinary
    <2>3. Cardinality(DOMAIN u) < clean[i]
        BY <1>1, <1>5, <2>1, <2>2, MaxAssumption
    <2>4. /\ DOMAIN w = DOMAIN u \cup {x}
          /\ \/ Cardinality(DOMAIN w) = Cardinality(DOMAIN u)
             \/ Cardinality(DOMAIN w) = Cardinality(DOMAIN u) + 1
        <3> HIDE DEF u
        <3>1. DOMAIN w = DOMAIN u \cup {x}
            BY <2>3 DEF MetaUpdAdd
        <3>2. Cardinality(DOMAIN u \cup {x}) = Cardinality(DOMAIN u)
                \/ Cardinality(DOMAIN u \cup {x}) = Cardinality(DOMAIN u) + 1
            BY <2>1, FS_AddElement
        <3> HIDE DEF w
        <3> QED BY <3>1, <3>2
    <2>5. upd' = [upd EXCEPT ![i] = w] /\ DOMAIN upd = Index
        BY <1>7 DEF BInv, IInv, MetasOK
    <2> HIDE DEF w
    <2>6. upd'[i] = w /\ \A j \in Index \ {i} : upd'[j] = upd[j]
        BY <1>1, <2>5
    <2>7. Cardinality(DOMAIN w) \in Nat /\ 2 * Cardinality(DOMAIN w) <= pos + 2 - 1
        BY <1>1, <2>1, <2>4
    <2>8. \A id \in DOMAIN w : \E k \in 1 .. Len(log) : PatchAt(log[k], id)
        BY <1>1, <1>4, <1>11, <2>4 DEF RefreshIn
    <2>9. RefreshIn(log, "exec", pos + 2, w)
        BY <1>1, <2>7, <2>8 DEF RefreshIn
    <2> QED BY <2>4, <2>6, <2>9
<1>13. \A k \in 1 .. Len(log) : /\ k < pos + 2 <=> k < pos \/ k = pos \/ k = pos + 1
                                /\ k >= pos + 2 => k >= pos
    BY <1>1
<1>14. \A id : Given(log, "exec", pos + 2, id) <=> Given(log, "exec", pos, id)
    BY <1>4, <1>5, <1>13 DEF Given
<1>15. \A id : /\ OwnsIn(log, "exec", pos + 2, id) <=> OwnsIn(log, "exec", pos, id)
               /\ HoldsIn(log, "exec", pos + 2, id) <=> HoldsIn(log, "exec", pos, id)
               /\ ClaimsIn(log, "exec", pos + 2, id) => ClaimsIn(log, "exec", pos, id)
               /\ ~ LimboIn(log, "exec", pos, id) /\ ~ InPutIn(log, "exec", id)
    BY <1>13, <1>14 DEF OwnsIn, HoldsIn, ClaimsIn, LimboIn, InPutIn
<1>16. \A id : /\ Holds(c, id) <=> HoldsIn(log, "exec", pos, id)
               /\ Owns(c, id) <=> OwnsIn(log, "exec", pos, id)
               /\ Claims(c, id) <=> ClaimsIn(log, "exec", pos, id)
    BY <1>0 DEF Holds, Owns, Claims
<1>17. \A id : \A k \in 1 .. Len(log) :
            Wrote(log, pos + 2, k, id) <=> Wrote(log, pos, k, id) \/ (k = pos /\ id = x)
    BY <1>4, <1>5, <1>13 DEF Wrote
<1>18. x \notin Frees /\ (obj[x] # None \/ Owns(c, x))
    <2>1. \A id \in Ids : Owns(c, id) => Holds(c, id)
        BY DEF Owns, Holds, HoldsIn
    <2> QED BY <1>4, <1>6, <2>1 DEF BInv, Apart, Points, ObjAt
<1>19. ContentIn(log, "exec", pos + 2, upd'[i], cell')
    <2> SUFFICES ASSUME NEW id \in Ids, OwnsIn(log, "exec", pos, id)
                 PROVE  /\ cell'[Direct(id)].sum # "zero"
                        /\ cell'[Direct(id)].sum = Region(id) \/ id \in DOMAIN upd'[i]
                        /\ \A k \in 1 .. Len(log) :
                            LastWrote(log, pos + 2, k, id) => cell'[Direct(id)].val = log[k].val
        BY <1>15 DEF ContentIn
    <2>1. CASE id = x
        <3>1. ASSUME NEW k \in 1 .. Len(log), LastWrote(log, pos + 2, k, x) PROVE k = pos
            <4>1. Wrote(log, pos + 2, k, x) /\ pos <= k
                BY <1>1, <1>17, <3>1 DEF LastWrote
            <4>2. Wrote(log, pos, k, x) => k <= pos
                BY <1>1, <1>4 DEF Wrote, Shape, Once
            <4> QED BY <1>1, <1>17, <4>1, <4>2
        <3> QED BY <1>3, <1>10, <1>12, <2>1, <3>1
    <2>2. CASE id # x
        <3>1. cell'[Direct(id)] = cell[Direct(id)]
            <4>1. Holds(c, id)
                BY <1>16 DEF HoldsIn
            <4> QED BY <1>10, <2>2, <4>1, HasUsableClient
        <3>2. \A k \in 1 .. Len(log) : LastWrote(log, pos + 2, k, id) <=> LastWrote(log, pos, k, id)
            BY <1>17, <2>2 DEF LastWrote
        <3>3. "exec" \in Working
            BY DEF Working
        <3> HIDE DEF log, i, pos
        <3> QED BY <1>11, <1>12, <1>15, <3>1, <3>2, <3>3 DEF ContentIn
    <2> QED BY <2>1, <2>2
<1> HIDE DEF log, i, pos
<1>20. /\ \A id : InFlux(id) => InFlux(id)'
       /\ InFlux(x)'
    BY <1>1, <1>12 DEF InFlux
<1>21. ObjAt(x)' /\ FreeAt(x)'
    <2>1. Frees' = Frees
        BY <1>8 DEF Frees
    <2> QED BY <1>9, <1>10, <1>18, <1>20, <2>1 DEF ObjAt, FreeAt
<1>22. /\ HoldsIn(log, "exec", pos + 2, x) => obj'[x] = None /\ x \notin Frees'
       /\ obj'[x] # None \/ HoldsIn(log, "exec", pos + 2, x)
    <2>1. Frees' = Frees
        BY <1>8 DEF Frees
    <2>2. Holds(c, x) => obj[x] = None
        BY <1>4 DEF BInv, Apart
    <2>3. Owns(c, x) => Holds(c, x)
        BY DEF Owns, Holds, HoldsIn
    <2> QED BY <1>3, <1>9, <1>15, <1>16, <1>18, <2>1, <2>2, <2>3, NoneAssumption
<1>23. \A id \in Ids : ClaimsIn(log, "exec", pos + 2, id) =>
            Claims(c, id) /\ (obj'[id] # None \/ OwnsIn(log, "exec", pos + 2, id))
    <2>1. \A id \in Ids : Claims(c, id) => obj[id] # None \/ Owns(c, id)
        BY DEF BInv, Apart
    <2>2. \A id \in Ids : obj[id] # None => obj'[id] # None
        BY <1>3, <1>9, NoneAssumption
    <2> QED BY <1>15, <1>16, <2>1, <2>2
<1>24. \A id \in Ids \ {x} : /\ obj'[id] = obj[id]
                             /\ id \in Frees' <=> id \in Frees
                             /\ InFlux(id) => InFlux(id)'
                             /\ HoldsIn(log, "exec", pos + 2, id) <=> Holds(c, id)
    BY <1>8, <1>9, <1>15, <1>16, <1>20 DEF Frees
<1>25. PlaceIn(log, "exec", pos + 2) /\ ZeroedIn(log, "exec", pos + 2, cell') /\ Regions'
    BY <1>8 DEF PlaceIn, Early, ZeroedIn, Regions, BInv
<1>26. "exec" \in PCs \ {"idle", "begin", "release"}
    BY DEF PCs
<1> QED BY <1>0, <1>6, <1>8, <1>10, <1>12, <1>19, <1>21, <1>22, <1>23, <1>24, <1>25, <1>26,
           TouchKeeps DEF log, i

\* Execution refreshes a block.
LEMMA ExecMetaKeeps ==
    ASSUME BInv, IInv', Marked', NEW c \in Clients, ExecMeta(c)
    PROVE  BInv'
<1> DEFINE log == Log(c)
           i == Idx(c)
           pos == cl[c].pos
<1>0. cl[c].pc = "exec" /\ cl[c].pc # "idle"
    BY DEF ExecMeta
<1>1. /\ log \in Seq(Stride) /\ Shape(log) /\ Len(log) \in Nat /\ PrivateOK(c) /\ i \in Index
      /\ pos \in Nat
    BY <1>0, LogFacts DEF BInv, Privates
<1>2. PICK x \in DOMAIN upd[i] :
        /\ cell' = [cell EXCEPT ![Direct(x)].sum = "data", ![Direct(x)].ver = upd[i][x]]
        /\ upd' = [upd EXCEPT ![i] = [y \in DOMAIN upd[i] \ {x} |-> upd[i][y]]]
    BY DEF ExecMeta, Idx
<1>3. /\ RefreshIn(log, "exec", pos, upd[i]) /\ ContentIn(log, "exec", pos, upd[i], cell)
    BY <1>0, <1>1 DEF PrivateOK
<1>4. PICK k \in 1 .. Len(log) : PatchAt(log[k], x)
    BY <1>2, <1>3 DEF RefreshIn
<1>5. x \in DataIds /\ x \in Ids /\ x \in Usable /\ Region(x) = "data"
    <2>1. x \in DataIds /\ x \in Usable
        BY <1>1, <1>4 DEF Shape, EntryOK, PatchAt, Ops
    <2> QED BY <2>1, UsableIds, DAssumption DEF Region, DataIds
<1>6. Claims(c, x) /\ Alone(c, x) /\ Exists(cell, x) /\ cell[Direct(x)].sum # "zero"
    <2>1. Claims(c, x)
        BY <1>0, <1>4 DEF Claims, ClaimsIn, Working
    <2> QED BY <1>0, <1>5, <2>1, AloneHas, ClaimedExists DEF Exists
<1>7. /\ cell'[Direct(x)].sum = "data" /\ cell'[Direct(x)].val = cell[Direct(x)].val
      /\ \A a \in Addrs \ {Direct(x)} : cell'[a] = cell[a]
    <2>1. Direct(x) \in Addrs /\ cell \in [Addrs -> Block] /\ cell[Direct(x)] \in Block
        BY <1>5, DirectAddr DEF BInv, IInv, BlocksOK
    <2> DEFINE b == [cell[Direct(x)] EXCEPT !.sum = "data", !.ver = upd[i][x]]
    <2>2. cell' = [cell EXCEPT ![Direct(x)] = b]
        BY <1>2, <2>1
    <2>3. b.sum = "data" /\ b.val = cell[Direct(x)].val
        BY <2>1 DEF Block
    <2> HIDE DEF b
    <2> QED BY <2>1, <2>2, <2>3
<1>8. CellsOK' /\ \A id \in Usable \ {x} : cell'[Direct(id)] = cell[Direct(id)]
    <2>1. BlocksOK /\ CellsOK /\ BlocksOK'
        BY DEF BInv, IInv
    <2>2. Direct(x) \in Addrs
        BY <1>5, DirectAddr
    <2>3. cell'[Direct(x)].val \in Vals
        BY <1>6, <1>7, <2>1, <2>2 DEF CellsOK
    <2> QED BY <1>5, <1>7, <2>1, <2>3, WriteCells
<1>9. DOMAIN upd'[i] = DOMAIN upd[i] \ {x} /\ \A j \in Index \ {i} : upd'[j] = upd[j]
    <2>1. DOMAIN upd = Index
        BY DEF BInv, IInv, MetasOK
    <2> DEFINE w == [y \in DOMAIN upd[i] \ {x} |-> upd[i][y]]
    <2>2. DOMAIN w = DOMAIN upd[i] \ {x} /\ upd' = [upd EXCEPT ![i] = w]
        BY <1>2
    <2> HIDE DEF w
    <2> QED BY <1>1, <2>1, <2>2
<1>10. UNCHANGED <<slot, clean, rec, free, mfree, obj>> /\ Moves(c, "exec", pos)
    BY <1>0, StayMoves DEF ExecMeta, lists, history, BInv, IInv
<1>11. RefreshIn(log, "exec", pos, upd'[i])
    <2>1. IsFiniteSet(DOMAIN upd[i]) /\ Cardinality(DOMAIN upd[i]) \in Nat
        BY <1>1, RefreshFinite DEF BInv
    <2>2. Cardinality(DOMAIN upd[i] \ {x}) = Cardinality(DOMAIN upd[i]) - 1
        BY <1>2, <2>1, FS_RemoveElement
    <2>3. /\ 2 * Cardinality(DOMAIN upd[i]) <= pos - 1
          /\ \A id \in DOMAIN upd[i] : \E l \in 1 .. Len(log) : PatchAt(log[l], id)
        BY <1>3 DEF RefreshIn
    <2>4. 2 * Cardinality(DOMAIN upd[i] \ {x}) <= pos - 1
        BY <1>1, <2>1, <2>2, <2>3
    <2> QED BY <1>9, <2>3, <2>4 DEF RefreshIn
<1>12. \A id : /\ Holds(c, id) <=> HoldsIn(log, "exec", pos, id)
               /\ Owns(c, id) <=> OwnsIn(log, "exec", pos, id)
               /\ Claims(c, id) <=> ClaimsIn(log, "exec", pos, id)
    BY <1>0 DEF Holds, Owns, Claims
<1> HIDE DEF log, i, pos
<1>13. ContentIn(log, "exec", pos, upd'[i], cell')
    <2>1. ASSUME NEW id \in Ids, OwnsIn(log, "exec", pos, id)
          PROVE  /\ cell'[Direct(id)].val = cell[Direct(id)].val
                 /\ cell[Direct(id)].sum # "zero" => cell'[Direct(id)].sum # "zero"
                 /\ cell[Direct(id)].sum = Region(id) \/ id \in DOMAIN upd[i]
                        => cell'[Direct(id)].sum = Region(id) \/ id \in DOMAIN upd'[i]
        <3>1. CASE id = x
            BY <1>5, <1>7, <3>1
        <3>2. CASE id # x
            <4>1. Holds(c, id)
                BY <1>12, <2>1 DEF HoldsIn
            <4>2. cell'[Direct(id)] = cell[Direct(id)]
                BY <1>8, <3>2, <4>1, HasUsableClient
            <4> QED BY <1>9, <3>2, <4>2
        <3> QED BY <3>1, <3>2
    <2> QED BY <1>3, <2>1 DEF ContentIn
<1>14. x \notin Frees /\ (obj[x] # None \/ Owns(c, x)) /\ (Owns(c, x) => Holds(c, x))
    <2>1. \A id \in Ids : Owns(c, id) => Holds(c, id)
        BY DEF Owns, Holds, HoldsIn
    <2> QED BY <1>5, <1>6, <2>1 DEF BInv, Apart, Points, ObjAt
<1>15. Frees' = Frees /\ Regions' /\ obj' = obj
    BY <1>10 DEF Frees, Regions, BInv
<1>16. ObjAt(x)' /\ FreeAt(x)'
    <2>1. ObjAt(x)
        BY <1>5 DEF BInv, Points
    <2> QED BY <1>5, <1>7, <1>14, <1>15, <2>1 DEF ObjAt, FreeAt
<1>17. \A id \in Ids \ {x} : InFlux(id) => InFlux(id)'
    BY <1>1, <1>9 DEF InFlux
<1>18. \A id \in Ids : ClaimsIn(log, "exec", pos, id) =>
            Claims(c, id) /\ (obj'[id] # None \/ OwnsIn(log, "exec", pos, id))
    <2>1. \A id \in Ids : Claims(c, id) => obj[id] # None \/ Owns(c, id)
        BY DEF BInv, Apart
    <2> QED BY <1>12, <1>15, <2>1
<1>19. /\ HoldsIn(log, "exec", pos, x) => obj'[x] = None /\ x \notin Frees'
       /\ obj'[x] # None \/ HoldsIn(log, "exec", pos, x)
    <2>1. Holds(c, x) => obj[x] = None
        BY <1>5 DEF BInv, Apart
    <2> QED BY <1>12, <1>14, <1>15, <2>1
<1>20. PlaceIn(log, "exec", pos) /\ ZeroedIn(log, "exec", pos, cell')
    BY DEF PlaceIn, Early, ZeroedIn
<1>21. "exec" \in PCs \ {"idle", "begin", "release"}
    BY DEF PCs
<1>22. \A id \in Ids \ {x} : /\ obj'[id] = obj[id]
                             /\ id \in Frees' <=> id \in Frees
                             /\ InFlux(id) => InFlux(id)'
                             /\ HoldsIn(log, "exec", pos, id) <=> Holds(c, id)
    BY <1>12, <1>15, <1>17
<1> QED BY <1>0, <1>5, <1>6, <1>8, <1>9, <1>10, <1>11, <1>13, <1>15, <1>16, <1>18, <1>19, <1>20, <1>21,
           <1>22, TouchKeeps DEF log, i

-----------------------------------------------------------------------------
(* The end of a transaction. *)

\* A client whose slot is zeroed, and that holds nothing but what becomes objects.
LEMMA EndKeeps ==
    ASSUME BInv, IInv', Marked', NEW c \in Clients, cl[c].pc # "idle", DOMAIN upd[Idx(c)] = {},
           NEW n, n.status = "EMPTY", Shape(n.log),
           slot' = [slot EXCEPT ![Idx(c)] = n], Goto(c, "release"),
           UNCHANGED <<cell, free, mfree, upd, clean, rec>>, NEW X \in SUBSET Ids,
           \A id \in X : Holds(c, id) /\ obj'[id] # None /\ ObjAt(id)',
           \A id \in Ids \ X : ~ Holds(c, id) /\ obj'[id] = obj[id]
    PROVE  BInv'
<1>1. Idx(c) \in Index /\ Up /\ slot \in [Index -> Slot]
    BY LogFacts DEF BInv, IInv, SlotsOK
<1>2. slot'[Idx(c)] = n /\ \A j \in Index \ {Idx(c)} : slot'[j] = slot[j]
    BY <1>1
<1>3. Moves(c, "release", cl[c].pos) /\ "release" \in PCs \ {"idle"}
    BY GotoMoves DEF BInv, IInv, PCs
<1>4. /\ \A d \in Clients \ {c} :
            /\ cl'[d] = cl[d]
            /\ cl[d].pc # "idle" => slot'[Idx(d)] = slot[Idx(d)] /\ upd'[Idx(d)] = upd[Idx(d)]
      /\ Idx(c)' = Idx(c) /\ cl'[c].pc = "release" /\ cl'[c].pos = cl[c].pos
      /\ RefreshOwned' /\ LogsOwned'
    <2>1. \A j \in Index \ {Idx(c)} : slot'[j] = slot[j] /\ upd'[j] = upd[j]
        BY <1>2
    <2>2. DOMAIN upd'[Idx(c)] = {} /\ rec' = rec
        OBVIOUS
    <2> QED BY <1>2, <1>3, <2>1, <2>2, MoveFrame
<1>5. Log(c)' = << >>
    BY <1>4 DEF Log
<1>6. \A id : ~ Holds(c, id)' /\ ~ Claims(c, id)'
    BY <1>4, <1>5, EmptyShape DEF Holds, HoldsIn, LimboIn, Claims
<1>7. Shapes'
    BY <1>1, <1>2, EmptyShape, ShapesKeep DEF BInv
<1>8. CellsOK' /\ Regions' /\ Frees' = Frees
    BY DEF BInv, CellsOK, Regions, Frees
<1>9. \A x \in X : Alone(c, x) /\ x \notin Frees
    BY AloneHas DEF BInv, Apart
<1>10. Acts(c, X)
    <2>1. \A id \in Ids \ X : /\ obj'[id] = obj[id]
                              /\ id \in Frees' <=> id \in Frees
                              /\ Holds(c, id)' <=> Holds(c, id)
                              /\ InFlux(id) => InFlux(id)'
        BY <1>6, <1>8, FluxKeep
    <2> QED BY <1>4, <1>9, <2>1 DEF Acts
<1>11. PrivateOK(c)'
    <2>1. "release" \notin Working /\ "release" \notin Early
        BY DEF Working, Early
    <2>2. /\ PlaceIn(<< >>, "release", cl[c].pos)
          /\ RefreshIn(<< >>, "release", cl[c].pos, upd[Idx(c)])
          /\ ContentIn(<< >>, "release", cl[c].pos, upd[Idx(c)], cell)
          /\ ZeroedIn(<< >>, "release", cl[c].pos, cell)
        BY <2>1 DEF PlaceIn, RefreshIn, ContentIn, ZeroedIn
    <2> QED BY <1>4, <1>5, <2>2 DEF PrivateOK
<1>12. Settles(c, X)
    <2>1. \A x \in X \cap Ids : FreeAt(x)' /\ AccountedAt(x)'
        BY <1>8, <1>9 DEF FreeAt, AccountedAt
    <2> QED BY <1>6, <1>11, <2>1 DEF Settles
<1>13. UNCHANGED <<rec, clean>>
    OBVIOUS
<1> QED BY <1>1, <1>4, <1>7, <1>8, <1>10, <1>12, <1>13, ActsKeep

\* An abort that has come to the end of the log has given everything back.
LEMMA AbortEndKeeps ==
    ASSUME BInv, IInv', Marked', NEW c \in Clients, AbortEnd(c)
    PROVE  BInv'
<1>0. cl[c].pc = "abort" /\ cl[c].pc # "idle" /\ cl[c].pc \notin {"exec", "free"} /\ AtEnd(c)
    BY DEF AbortEnd
<1>1. cl[c].pos \in Nat /\ Len(Log(c)) \in Nat /\ DOMAIN upd[Idx(c)] = {}
    BY <1>0, LogFacts, NoRefresh DEF BInv
<1>2. \A k \in 1 .. Len(Log(c)) : k < cl[c].pos
    BY <1>0, <1>1 DEF AtEnd
<1>3. \A e, id : NewAt(e, id) => MakesNew(e) /\ NewBlock(e) = id
    BY DEF NewAt, MakesNew, NewBlock
<1>4. \A id : ~ Holds(c, id)
    BY <1>0, <1>2, <1>3 DEF Holds, HoldsIn, OwnsIn, LimboIn, Given
<1>5. /\ slot' = [slot EXCEPT ![Idx(c)] = EmptySlot] /\ Goto(c, "release")
      /\ UNCHANGED <<cell, free, mfree, upd, clean, rec, obj>>
    BY DEF AbortEnd, Idx, lists, metas, history
<1>6. EmptySlot.status = "EMPTY" /\ Shape(EmptySlot.log)
    BY EmptyShape DEF EmptySlot
<1> QED BY <1>0, <1>1, <1>4, <1>5, <1>6, EndKeeps

\* The value that a log leaves in a block is the last one put into it.
LEMMA FinalLast ==
    ASSUME NEW log \in Seq(Stride), Len(log) \in Nat, NEW pos \in Nat, pos > Len(log), NEW id,
           \E k \in 1 .. Len(log) : NewAt(log[k], id)
    PROVE  \E k \in 1 .. Len(log) : LastWrote(log, pos, k, id) /\ Final(log, id) = log[k].val
<1> DEFINE puts == {k \in DOMAIN log :
                    \/ log[k].op \in {"WRITE", "UPDINPLACE"} /\ log[k].id1 = id
                    \/ log[k].op = "UPDATE" /\ log[k].id2 = id}
           m == CHOOSE k \in puts : \A j \in puts : j <= k
<1>1. DOMAIN log = 1 .. Len(log) /\ \A k \in 1 .. Len(log) : k < pos
    OBVIOUS
<1>2. \A k : k \in puts <=> k \in 1 .. Len(log) /\ Wrote(log, pos, k, id)
    BY <1>1 DEF Wrote, NewAt, PatchAt
<1>3. puts \in SUBSET (1 .. Len(log)) /\ puts # {}
    BY <1>2 DEF Wrote
<1>4. Final(log, id) = log[m].val
    BY DEF Final
<1> HIDE DEF puts
<1>5. m \in puts /\ \A j \in puts : j <= m
    <2>1. \E x \in puts : \A y \in puts : y <= x
        BY <1>3, GreatestBelow
    <2> QED BY <2>1
<1> HIDE DEF m
<1>6. m \in 1 .. Len(log) /\ LastWrote(log, pos, m, id)
    BY <1>2, <1>5 DEF LastWrote
<1> QED BY <1>4, <1>6

\* backend_tx_set_zero at the end of an execution: what the transaction wrote
\* and did not take away is an object.
LEMMA ExecEndKeeps ==
    ASSUME BInv, IInv', Marked', NEW c \in Clients, ExecEnd(c)
    PROVE  BInv'
<1> DEFINE log == Log(c)
           i == Idx(c)
           pos == cl[c].pos
<1>0. cl[c].pc = "exec" /\ cl[c].pc # "idle" /\ AtEnd(c) /\ DOMAIN upd[i] = {}
    BY DEF ExecEnd, Idx
<1>1. /\ log \in Seq(Stride) /\ Shape(log) /\ Len(log) \in Nat /\ PrivateOK(c) /\ i \in Index
      /\ pos \in Nat /\ pos > Len(log) /\ DOMAIN log = 1 .. Len(log)
    BY <1>0, LogFacts DEF BInv, Privates, AtEnd
<1>2. \A id : Holds(c, id) <=> id \in News(log) \ Olds(log)
    <2>1. \A k \in 1 .. Len(log) : k < pos
        BY <1>1
    <2>2. \A id : Given(log, "exec", pos, id) <=> id \in Olds(log)
        BY <1>1, <2>1 DEF Given, Olds, TakeAt
    <2>3. \A id : id \in News(log) <=> \E k \in 1 .. Len(log) : NewAt(log[k], id)
        BY <1>1, NewsAt
    <2> QED BY <1>0, <2>2, <2>3 DEF Holds, HoldsIn, OwnsIn, LimboIn
<1> DEFINE X == {id \in Ids : Holds(c, id)}
<1>3. obj' = [id \in Ids |-> IF id \in News(log) \ Olds(log) THEN Final(log, id) ELSE obj[id]]
    BY DEF ExecEnd
<1>4. \A id \in Ids : obj'[id] = IF Holds(c, id) THEN Final(log, id) ELSE obj[id]
    BY <1>2, <1>3
<1> DEFINE n == ZeroSlot(slot[i])
<1>5. /\ slot' = [slot EXCEPT ![i] = n] /\ Goto(c, "release")
      /\ UNCHANGED <<cell, free, mfree, upd, clean, rec>>
    BY <1>1 DEF ExecEnd, Idx, lists, metas, BInv, IInv, SlotsOK
<1>11. n.status = "EMPTY" /\ Shape(n.log)
    <2>1. n.status = "EMPTY" /\ n.log = slot[i].log
        BY <1>1 DEF ZeroSlot, Slot, BInv, IInv, SlotsOK
    <2> QED BY <1>1, <2>1 DEF BInv, Shapes
<1>6. ContentIn(log, "exec", pos, upd[i], cell)
    BY <1>0, <1>1 DEF PrivateOK
<1>7. ASSUME NEW id \in Ids, Holds(c, id)
      PROVE  obj'[id] # None /\ ObjAt(id)'
    <2>1. /\ OwnsIn(log, "exec", pos, id) /\ "exec" \in Working
          /\ ~ LimboIn(log, "exec", pos, id) /\ ~ InPutIn(log, "exec", id)
        BY <1>0, <1>7 DEF Holds, HoldsIn, LimboIn, InPutIn, Working
    <2>2. /\ cell[Direct(id)].sum # "zero" /\ cell[Direct(id)].sum = Region(id)
          /\ \A k \in 1 .. Len(log) : LastWrote(log, pos, k, id) => cell[Direct(id)].val = log[k].val
        BY <1>0, <1>6, <2>1 DEF ContentIn
    <2>3. PICK k \in 1 .. Len(log) : LastWrote(log, pos, k, id) /\ Final(log, id) = log[k].val
        BY <1>1, <2>1, FinalLast DEF OwnsIn
    <2>4. log[k].val \in Vals
        BY <1>1, <2>3 DEF LastWrote, Wrote, NewAt, PatchAt, Shape, EntryOK
    <2>5. obj'[id] = cell[Direct(id)].val /\ obj'[id] # None
        BY <1>4, <1>7, <2>2, <2>3, <2>4, NoneAssumption
    <2>6. id \in Usable /\ id \notin Frees /\ Frees' = Frees /\ cell' = cell
        BY <1>5, <1>7, HasUsableClient DEF BInv, Apart, Frees
    <2> QED BY <2>2, <2>5, <2>6 DEF ObjAt
<1> HIDE DEF log, pos
<1>8. \A id \in X : Holds(c, id) /\ obj'[id] # None /\ ObjAt(id)'
    BY <1>7
<1>9. \A id \in Ids \ X : ~ Holds(c, id) /\ obj'[id] = obj[id]
    BY <1>4
<1>10. X \in SUBSET Ids
    OBVIOUS
<1> HIDE DEF X, n
<1> QED BY <1>0, <1>5, <1>8, <1>9, <1>10, <1>11, EndKeeps

\* pmb_tx_begin takes a slot and tx_slot_init marks it.
LEMMA BeginKeeps ==
    ASSUME BInv, IInv', Marked', NEW c \in Clients, TxBegin(c)
    PROVE  BInv'
<1>1. PICK s \in tfree :
        /\ slot' = [slot EXCEPT ![s - 1].status = "PROCESSING", ![s - 1].flch = 0]
        /\ cl' = [cl EXCEPT ![c] = [pc |-> "begin", tx |-> s, pos |-> 0]]
    BY DEF TxBegin
<1>2. cl[c].pc = "idle" /\ Up /\ UNCHANGED <<cell, free, mfree, upd, clean, rec, obj>>
    BY DEF TxBegin, metas, history
<1>3. s \in SlotIds /\ s - 1 \in Index /\ s = (s - 1) + 1
    BY NSlotsAssumption DEF BInv, IInv, ListsOK, SlotIds, Index
<1>4. slot'[s - 1].log = slot[s - 1].log /\ \A j \in Index \ {s - 1} : slot'[j] = slot[j]
    <2> DEFINE n == [slot[s - 1] EXCEPT !.status = "PROCESSING", !.flch = 0]
    <2>1. slot' = [slot EXCEPT ![s - 1] = n] /\ n.log = slot[s - 1].log
        BY <1>1, <1>3 DEF BInv, IInv, SlotsOK, Slot
    <2> HIDE DEF n
    <2> QED BY <1>3, <2>1 DEF BInv, IInv, SlotsOK
<1>5. /\ cl'[c].pc = "begin" /\ cl'[c].tx = s /\ cl'[c].pos = 0
      /\ \A d \in Clients \ {c} : cl'[d] = cl[d]
    BY <1>1 DEF BInv, IInv, ClientsOK
<1>6. \A d \in Clients \ {c} : cl[d].pc # "idle" => slot'[Idx(d)] = slot[Idx(d)]
    <2> SUFFICES ASSUME NEW d \in Clients \ {c}, cl[d].pc # "idle" PROVE Idx(d) \in Index \ {s - 1}
        BY <1>4
    <2>1. d \in Holding /\ cl[d].tx \in SlotIds /\ Idx(d) \in Index
        BY HeldSlot DEF BInv, Idx
    <2>2. cl[d].tx # s
        BY <2>1 DEF BInv, IInv, SlotExclusive
    <2> QED BY <1>3, <2>1, <2>2, NSlotsAssumption DEF Idx, SlotIds
<1>7. Log(c)' = << >> /\ Idx(c)' = s - 1
    BY <1>5 DEF Log, Idx
<1>8. \A id : ~ Holds(c, id)' /\ ~ Claims(c, id)' /\ ~ Holds(c, id)
    BY <1>2, <1>5, <1>7, EmptyShape DEF Holds, HoldsIn, LimboIn, OwnsIn, Claims
<1>9. Shapes'
    <2>1. \A j \in Index : slot'[j].log = slot[j].log
        BY <1>4
    <2> QED BY <2>1 DEF BInv, Shapes
<1>10. CellsOK' /\ Regions' /\ Frees' = Frees
    BY <1>2 DEF BInv, CellsOK, Regions, Frees
<1>11. RefreshOwned'
    BY <1>2, <1>5 DEF BInv, RefreshOwned
<1>12. LogsOwned'
    <2> SUFFICES ASSUME Up, NEW j \in Checked, slot'[j].status # "EMPTY"
                 PROVE  \E d \in Clients : cl'[d].tx = j + 1 /\ cl'[d].pc # "release"
        BY <1>2 DEF LogsOwned, Up
    <2>1. CASE j = s - 1
        BY <1>3, <1>5, <2>1
    <2>2. CASE j # s - 1
        <3>1. j \in Index /\ j + 1 # 0 /\ slot'[j] = slot[j]
            BY <1>4, <2>2, CheckedIndex, NSlotsAssumption DEF Index
        <3>2. PICK d \in Clients : cl[d].tx = j + 1 /\ cl[d].pc # "release"
            BY <3>1 DEF BInv, LogsOwned
        <3>3. cl[c].tx = 0
            BY <1>2 DEF BInv, IInv, ClientsOK
        <3> QED BY <1>5, <3>1, <3>2, <3>3
    <2> QED BY <2>1, <2>2
<1>13. Acts(c, {})
    BY <1>2, <1>5, <1>6, <1>8, <1>10, FluxKeep DEF Acts
<1>14. PrivateOK(c)'
    <2>1. /\ PlaceIn(<< >>, "begin", 0) /\ RefreshIn(<< >>, "begin", 0, upd'[s - 1])
          /\ ZeroedIn(<< >>, "begin", 0, cell')
        BY DEF PlaceIn, RefreshIn, ZeroedIn, Early
    <2>2. ContentIn(<< >>, "begin", 0, upd'[s - 1], cell')
        BY EmptyShape DEF ContentIn
    <2> QED BY <1>5, <1>7, <2>1, <2>2 DEF PrivateOK
<1>15. Settles(c, {})
    BY <1>8, <1>14 DEF Settles
<1>16. UNCHANGED <<rec, clean>>
    BY <1>2
<1> QED BY <1>2, <1>9, <1>10, <1>11, <1>12, <1>13, <1>15, <1>16, ActsKeep

\* The rest of tx_slot_init: the log of the slot is empty.
LEMMA InitKeeps ==
    ASSUME BInv, IInv', Marked', NEW c \in Clients, TxInit(c)
    PROVE  BInv'
<1> DEFINE i == Idx(c)
<1>0. cl[c].pc = "begin" /\ UNCHANGED <<cell, free, mfree, upd, clean, rec, obj>>
    BY DEF TxInit, lists, metas, history
<1>1. /\ Log(c) = << >> /\ cl[c].pos = 0 /\ i \in Index /\ Up
      /\ slot \in [Index -> Slot] /\ DOMAIN upd[i] = {}
    BY <1>0, LogFacts, NoRefresh DEF BInv, Privates, PrivateOK, PlaceIn, Early, IInv, SlotsOK
<1>2. slot'[i].log = << >> /\ \A j \in Index \ {i} : slot'[j] = slot[j]
    <2> DEFINE n == [slot[i] EXCEPT !.log = << >>]
    <2>1. slot' = [slot EXCEPT ![i] = n] /\ n.log = << >>
        BY <1>1 DEF TxInit, Idx, Slot
    <2> HIDE DEF n
    <2> QED BY <1>1, <2>1
<1>3. Moves(c, "open", 0) /\ "open" \in PCs \ {"idle"}
    BY <1>1, GotoMoves DEF TxInit, BInv, IInv, PCs
<1>4. /\ \A d \in Clients \ {c} :
            /\ cl'[d] = cl[d]
            /\ cl[d].pc # "idle" => slot'[Idx(d)] = slot[Idx(d)] /\ upd'[Idx(d)] = upd[Idx(d)]
      /\ Idx(c)' = i /\ cl'[c].pc = "open" /\ cl'[c].pos = 0
      /\ RefreshOwned' /\ LogsOwned'
    <2>1. \A j \in Index \ {i} : slot'[j] = slot[j] /\ upd'[j] = upd[j]
        BY <1>0, <1>2
    <2>2. DOMAIN upd'[i] = {} /\ rec' = rec /\ cl[c].pc # "idle" /\ "open" # "release"
        BY <1>0, <1>1
    <2> QED BY <1>3, <2>1, <2>2, MoveFrame
<1>5. Log(c)' = << >>
    BY <1>2, <1>4 DEF Log, Idx
<1>6. \A id : ~ Holds(c, id)' /\ ~ Claims(c, id)' /\ ~ Holds(c, id)
    BY <1>0, <1>1, <1>4, <1>5, EmptyShape DEF Holds, HoldsIn, LimboIn, Claims
<1>7. Shapes'
    BY <1>1, <1>2, EmptyShape, ShapesKeep DEF BInv
<1>8. CellsOK' /\ Regions' /\ Frees' = Frees
    BY <1>0 DEF BInv, CellsOK, Regions, Frees
<1>9. Acts(c, {})
    BY <1>0, <1>4, <1>6, <1>8, FluxKeep DEF Acts
<1>10. PrivateOK(c)'
    <2>1. /\ PlaceIn(<< >>, "open", 0) /\ RefreshIn(<< >>, "open", 0, upd'[i])
          /\ ZeroedIn(<< >>, "open", 0, cell')
        BY DEF PlaceIn, RefreshIn, ZeroedIn, Early
    <2>2. ContentIn(<< >>, "open", 0, upd'[i], cell')
        BY EmptyShape DEF ContentIn
    <2> QED BY <1>4, <1>5, <2>1, <2>2 DEF PrivateOK
<1>11. Settles(c, {})
    BY <1>6, <1>10 DEF Settles
<1>12. UNCHANGED <<rec, clean>>
    BY <1>0
<1> QED BY <1>1, <1>4, <1>7, <1>8, <1>9, <1>11, <1>12, ActsKeep

\* tx_log_free_slot
LEMMA ReleaseKeeps ==
    ASSUME BInv, IInv', Marked', NEW c \in Clients, TxRelease(c)
    PROVE  BInv'
<1>1. cl[c].pc = "release" /\ cl[c].pc # "idle" /\ UNCHANGED <<cell, slot, free, mfree, upd, clean, rec, obj>>
    BY DEF TxRelease, persistent, metas, history
<1>2. Log(c) = << >> /\ Up
    BY <1>1, LogFacts DEF BInv
<1>3. cl'[c] = Idle /\ \A d \in Clients \ {c} : cl'[d] = cl[d]
    BY DEF TxRelease, BInv, IInv, ClientsOK
<1>4. \A id : ~ Holds(c, id)' /\ ~ Claims(c, id)' /\ ~ Holds(c, id)
    <2>1. \A id : ~ Holds(c, id)
        BY <1>1, <1>2, EmptyShape DEF Holds, HoldsIn, LimboIn
    <2>2. cl'[c].pc = "idle"
        BY <1>3 DEF Idle
    <2> QED BY <2>1, <2>2 DEF Holds, HoldsIn, OwnsIn, LimboIn, Claims, ClaimsIn, Working, Early
<1>5. Shapes' /\ CellsOK' /\ Regions' /\ Frees' = Frees
    BY <1>1 DEF BInv, CellsOK, Regions, Frees, Shapes
<1>6. RefreshOwned'
    BY <1>1, <1>3 DEF BInv, RefreshOwned
<1>7. LogsOwned'
    <2> SUFFICES ASSUME Up, NEW j \in Checked, slot[j].status # "EMPTY"
                 PROVE  \E d \in Clients : cl'[d].tx = j + 1 /\ cl'[d].pc # "release"
        BY <1>1 DEF LogsOwned, Up
    <2>1. PICK d \in Clients : cl[d].tx = j + 1 /\ cl[d].pc # "release"
        BY DEF BInv, LogsOwned
    <2> QED BY <1>1, <1>3, <2>1
<1>8. Acts(c, {})
    BY <1>1, <1>3, <1>4, <1>5, FluxKeep DEF Acts
<1>9. Settles(c, {})
    BY <1>3, <1>4 DEF Settles, Idle
<1>10. UNCHANGED <<rec, clean>>
    BY <1>1
<1> QED BY <1>2, <1>5, <1>6, <1>7, <1>8, <1>9, <1>10, ActsKeep

-----------------------------------------------------------------------------
(* Steps that change a list and no client. *)

\* Such a step changes block x only, which nobody has to do with.
LEMMA ListKeeps ==
    ASSUME BInv, IInv', Marked', NEW c \in Clients, Up, UNCHANGED <<cl, slot, upd, clean, rec>>,
           NEW x \in Ids, \A d \in Clients : ~ Holds(d, x) /\ ~ Claims(d, x),
           CellsOK', Regions', \A id \in Usable \ {x} : cell'[Direct(id)] = cell[Direct(id)],
           \A id \in Ids \ {x} : obj'[id] = obj[id] /\ (id \in Frees' <=> id \in Frees),
           obj'[x] = None, FreeAt(x)', x \in Frees' \/ May("late"),
           cell' = cell \/ cl[c].pc = "idle"
    PROVE  BInv'
<1>1. \A d \in Clients, id \in Ids : /\ Holds(d, id)' <=> Holds(d, id)
                                     /\ Claims(d, id)' <=> Claims(d, id)
                                     /\ Owns(d, id)' <=> Owns(d, id)
    BY SameClient
<1>2. Shapes' /\ RefreshOwned' /\ LogsOwned'
    BY DEF BInv, Shapes, RefreshOwned, LogsOwned, Up
<1>3. Acts(c, {x})
    BY <1>1, FluxKeep DEF Acts, Alone
<1>4. ObjAt(x)' /\ (~ May("late") => AccountedAt(x)')
    BY DEF ObjAt, AccountedAt
<1>5. cl[c].pc # "idle" => PrivateOK(c)'
    <2> SUFFICES ASSUME cl[c].pc # "idle" PROVE PrivateOK(c)'
        OBVIOUS
    <2>1. PrivateOK(c)
        BY DEF BInv, Privates
    <2>2. Log(c)' = Log(c) /\ Idx(c)' = Idx(c) /\ cell' = cell
        BY DEF Log, Idx
    <2> QED BY <2>1, <2>2 DEF PrivateOK
<1>6. \A id \in Ids : Claims(c, id)' => (obj'[id] # None \/ Owns(c, id)') /\ Alone(c, id)
    <2>1. \A id \in Ids : Claims(c, id) => (obj[id] # None \/ Owns(c, id)) /\ Alone(c, id) /\ id # x
        BY AloneHas DEF BInv, Apart
    <2> QED BY <1>1, <2>1
<1>7. Settles(c, {x})
    BY <1>1, <1>4, <1>5, <1>6 DEF Settles
<1>8. UNCHANGED <<rec, clean>>
    OBVIOUS
<1> QED BY <1>2, <1>3, <1>7, <1>8, ActsKeep

\* A put that is refused after its block was popped.
LEMMA PutLateKeeps ==
    ASSUME BInv, IInv', Marked', NEW c \in Clients, TPutLate(c)
    PROVE  BInv'
<1>1. PICK b \in free : free' = free \ {b}
    BY DEF TPutLate
<1>2. Up /\ May("late") /\ UNCHANGED <<cell, slot, mfree, cl, upd, clean, rec, obj>>
    BY DEF TPutLate, persistent, metas, history
<1>3. b \in Ids /\ b \in Frees /\ b \notin Frees' /\ Regions' /\ \A id \in Ids \ {b} : id \in Frees' <=> id \in Frees
    <2>1. DataIds \cap MetaIds = {} /\ b \in DataIds
        BY DAssumption DEF DataIds, MetaIds, BInv, Regions
    <2> QED BY <1>1, <1>2, <2>1, UsableIds DEF Frees, BInv, Regions
<1>4. obj[b] = None /\ \A d \in Clients : ~ Holds(d, b) /\ ~ Claims(d, b)
    BY <1>3, AloneFree
<1>5. FreeAt(b)' /\ CellsOK'
    BY <1>2, <1>3 DEF FreeAt, BInv, CellsOK
<1>6. UNCHANGED <<cl, slot, upd, clean, rec>>
    BY <1>2
<1> QED BY <1>2, <1>3, <1>4, <1>5, <1>6, ListKeeps

\* Nobody has to do with a block that no open transaction names.
LEMMA Unnamed ==
    ASSUME BInv, NEW d \in Clients, NEW id, d \in Holding => id \notin Named(Log(d))
    PROVE  ~ Holds(d, id) /\ ~ Claims(d, id)
<1> SUFFICES ASSUME Holds(d, id) \/ Claims(d, id) PROVE FALSE
    OBVIOUS
<1>1. cl[d].pc # "idle"
    BY HasUsableClient
<1>2. d \in Holding /\ Len(Log(d)) \in Nat /\ DOMAIN Log(d) = 1 .. Len(Log(d))
    BY <1>1, LogFacts DEF BInv
<1>3. \A k \in 1 .. Len(Log(d)) :
        ~ NewAt(Log(d)[k], id) /\ ~ TakeAt(Log(d)[k], id) /\ ~ PatchAt(Log(d)[k], id)
    BY <1>2 DEF Named, News, Olds, Smalls, NewAt, TakeAt, PatchAt
<1>4. ~ LimboIn(Log(d), cl[d].pc, cl[d].pos, id)
    <2> SUFFICES ASSUME cl[d].pc = "free", Log(d)[cl[d].pos].id1 = id PROVE FALSE
        BY DEF LimboIn
    <2>1. cl[d].pos \in 1 .. Len(Log(d)) /\ Log(d)[cl[d].pos].op \in {"UPDATE", "REMOVE"}
        BY <1>1 DEF BInv, IInv, WalksOK, Standing, Privates, PrivateOK, PlaceIn
    <2> QED BY <1>3, <2>1 DEF TakeAt
<1> QED BY <1>3, <1>4 DEF Holds, HoldsIn, OwnsIn, Claims, ClaimsIn

\* pmb_resolve_conflict
LEMMA ConflictKeeps ==
    ASSUME BInv, Ordinary, IInv', Marked', NEW c \in Clients, Conflict(c)
    PROVE  BInv'
<1>1. PICK a, b \in Ids :
        /\ obj[a] # None /\ obj[b] # None /\ DataCall(a) /\ DataCall(b)
        /\ \A d \in Holding : {a, b} \cap Named(Log(d)) = {}
        /\ ResolveConflict(c, a, b)
    BY DEF Conflict
<1>2. PICK x \in {a, b} :
        /\ cell' = SetZero(cell, x) /\ free' = free \cup {x} /\ obj' = [obj EXCEPT ![x] = None]
    BY <1>1 DEF ResolveConflict
<1>3. Up /\ cl[c].pc = "idle" /\ UNCHANGED <<slot, mfree, cl, upd, clean, rec>>
    BY <1>1 DEF ResolveConflict, metas
<1>4. x \in Ids /\ obj[x] # None /\ x < D /\ \A d \in Holding : x \notin Named(Log(d))
    BY <1>1, <1>2 DEF DataCall, Ordinary
<1>5. x \in DataIds /\ x \in Usable
    BY <1>4, DAssumption DEF DataIds, Ids, BInv, Points, ObjAt
<1>6. \A d \in Clients : ~ Holds(d, x) /\ ~ Claims(d, x)
    BY <1>4, Unnamed
<1>7. /\ CellsOK' /\ cell'[Direct(x)] = ZeroBlock
      /\ \A id \in Usable \ {x} : cell'[Direct(id)] = cell[Direct(id)]
    BY <1>2, <1>5, ZeroCells DEF IInv
<1>8. obj'[x] = None /\ \A id \in Ids \ {x} : obj'[id] = obj[id]
    BY <1>2, <1>4 DEF BInv, IInv, HistoryOK
<1>9. Regions' /\ x \in Frees' /\ \A id \in Ids \ {x} : id \in Frees' <=> id \in Frees
    BY <1>2, <1>3, <1>5 DEF Frees, BInv, Regions
<1>10. FreeAt(x)'
    BY <1>7 DEF FreeAt, Valid, Exists, ZeroBlock
<1>11. UNCHANGED <<cl, slot, upd, clean, rec>>
    BY <1>3
<1> QED BY <1>3, <1>4, <1>6, <1>7, <1>8, <1>9, <1>10, <1>11, ListKeeps

-----------------------------------------------------------------------------
(* The end of the process and the next pmb_open. *)

\* Idle clients have to do with no block.
LEMMA IdleHas ==
    ASSUME NEW c \in Clients, cl[c] = Idle, NEW id
    PROVE  ~ Holds(c, id) /\ ~ Claims(c, id)
BY DEF Idle, Holds, HoldsIn, OwnsIn, LimboIn, Claims, ClaimsIn, Working, Early

\* When nobody is in a transaction, it is the blocks that have to be in order.
Quiet ==
    /\ IInv /\ Marked
    /\ \A c \in Clients : cl[c] = Idle
    /\ \A i \in Index : DOMAIN upd[i] = {}
    /\ Up => \A i \in Checked : slot[i].status = "EMPTY"
    /\ Shapes /\ Points /\ Accounted /\ CellsOK /\ Regions /\ Recovering /\ CleanOK

\* That is all there is to the invariant then.
LEMMA QuietInv == Quiet => BInv
<1> SUFFICES ASSUME Quiet PROVE BInv
    OBVIOUS
<1>1. Privates
    BY DEF Quiet, Privates, Idle
<1>2. Apart
    BY IdleHas DEF Quiet, Apart
<1>3. RefreshOwned /\ LogsOwned
    BY DEF Quiet, RefreshOwned, LogsOwned
<1> QED BY <1>1, <1>2, <1>3 DEF Quiet, BInv

\* The same of the state after a step.
LEMMA QuietNext == Quiet' => BInv'
BY QuietInv, PTL

\* An empty store, opened again.
LEMMA BlocksInit ==
    ASSUME Ordinary, Init
    PROVE  BInv
<1>1. IInv /\ Marked
    BY InitStep, MarkedInit
<1>2. Frees = Ids /\ Regions /\ Up
    BY UsableIds DEF Init, InitFree, InitMetaFree, Ordinary, Frees, Regions, Up
<1>3. \A id \in Ids : ~ Valid(cell, id)
    BY DirectAddr DEF Init, Valid, Exists, ZeroBlock
<1>4. Points /\ Accounted
    BY <1>2, <1>3 DEF Points, ObjAt, FreeAt, Accounted, AccountedAt, Init
<1>5. CellsOK
    BY <1>3 DEF CellsOK, Init, ZeroBlock
<1>6. \A i \in Index : slot[i].log = << >> /\ slot[i].status = "EMPTY" /\ DOMAIN upd[i] = {}
    BY DEF Init, EmptySlot, NoUpdates
<1>7. Shapes
    BY <1>6, EmptyShape DEF Shapes
<1>8. Recovering /\ CleanOK /\ \A c \in Clients : cl[c] = Idle
    BY <1>2 DEF Recovering, CleanOK, Init
<1> QED BY <1>1, <1>2, <1>4, <1>5, <1>6, <1>7, <1>8, CheckedIndex, QuietInv DEF Quiet

\* What a log writes afresh is no object, as long as its transaction is there,
\* neither aborts nor takes away what it has put.
LEMMA LoggedNotObject ==
    ASSUME BInv, Up, ~ May("abort"), ~ May("own"), NEW i \in Checked, NEW id \in Ids,
           NEW k \in 1 .. Len(slot[i].log), NewAt(slot[i].log[k], id),
           slot[i].status # "EMPTY", ~ Beginning(i)
    PROVE  obj[id] = None
<1>1. i \in Index
    BY CheckedIndex
<1>3. PICK c \in Clients : cl[c].tx = i + 1 /\ cl[c].pc # "release"
    BY DEF BInv, LogsOwned
<1>2. cl[c].pc # "begin"
    BY <1>3 DEF Beginning
<1>4. cl[c].pc # "idle" /\ Idx(c) = i
    BY <1>1, <1>3, NSlotsAssumption DEF BInv, IInv, ClientsOK, Idx, Index
<1>5. Log(c) = slot[i].log /\ Shape(Log(c)) /\ PrivateOK(c) /\ cl[c].pc \in PCs
    BY <1>2, <1>3, <1>4, LogFacts DEF BInv, Privates
<1>6. ~ Given(Log(c), cl[c].pc, cl[c].pos, id)
    <2>1. CASE cl[c].pc \in {"exec", "free"}
        BY <1>5, <2>1 DEF Given, Shape, Once
    <2>2. CASE cl[c].pc \in Early
        <3>1. cl[c].pos = 0
            BY <1>5, <2>2 DEF PrivateOK, PlaceIn
        <3> QED BY <3>1 DEF Given
    <2>3. cl[c].pc \notin {"abort", "abfree"}
        BY <1>5 DEF PrivateOK, PlaceIn
    <2> QED BY <1>3, <1>4, <1>5, <2>1, <2>2, <2>3 DEF PCs, Early
<1>7. Holds(c, id)
    BY <1>4, <1>5, <1>6 DEF Holds, HoldsIn, OwnsIn
<1> QED BY <1>7 DEF BInv, Apart

\* pmb_close, or a crash.
LEMMA CrashKeeps ==
    ASSUME BInv, Ordinary, IInv', Marked', Crash
    PROVE  BInv'
<1>1. /\ Up /\ May("crash") /\ UNCHANGED <<cell, slot>> /\ free' = {} /\ mfree' = {}
      /\ rec'.phase = "check" /\ rec'.idx = 1 /\ upd' = NoUpdates /\ clean' \in [Index -> Clean]
      /\ \A c \in Clients : cl'[c] = Idle
      /\ \A id \in Ids : obj'[id] = IF InFlux(id) THEN None ELSE obj[id]
      /\ \A i \in Index : ~ Beginning(i)
    BY DEF Crash, persistent, Ordinary
<1>2. ~ Up' /\ Frees' = {} /\ Regions' /\ CleanOK' /\ Accounted'
    BY <1>1 DEF Up, Frees, Regions, CleanOK, Accounted
<1>3. Shapes' /\ CellsOK'
    BY <1>1 DEF BInv, Shapes, CellsOK
<1>4. Points'
    BY <1>1, <1>2 DEF BInv, Points, ObjAt, FreeAt
<1>5. \A i \in Index : DOMAIN upd'[i] = {}
    BY <1>1 DEF NoUpdates
<1>6. ASSUME NEW i \in Checked, NEW id \in Ids, slot[i].status # "EMPTY",
             NEW k \in 1 .. Len(slot[i].log), NewAt(slot[i].log[k], id)
      PROVE  obj'[id] = None
    <2>1. ~ Beginning(i)
        BY <1>1, CheckedIndex
    <2> QED BY <1>1, <1>6, <2>1, LoggedNotObject DEF Ordinary
<1>7. \A i \in Checked : ~ (i < 1)
    BY NSlotsAssumption DEF Checked
<1>8. Recovering'
    BY <1>1, <1>2, <1>5, <1>6, <1>7 DEF Recovering
<1> QED BY <1>1, <1>2, <1>3, <1>4, <1>5, <1>8, QuietNext DEF Quiet

\* A step of tx_log_check changes no object.
LEMMA CheckKeeps ==
    ASSUME BInv, IInv', Marked', ~ Up, ~ Up', UNCHANGED <<cl, free, mfree, upd, clean, obj>>,
           Shapes', CellsOK', Recovering',
           \A id \in Usable : obj[id] # None => cell'[Direct(id)] = cell[Direct(id)]
    PROVE  BInv'
<1>1. \A c \in Clients : cl'[c] = Idle
    BY DEF BInv, IInv, ClientsOK
<1>2. free = {} /\ mfree = {} /\ \A i \in Index : DOMAIN upd[i] = {}
    BY DEF BInv, Recovering
<1>3. Frees' = {} /\ Regions' /\ CleanOK' /\ Accounted'
    BY <1>2 DEF Frees, Regions, BInv, CleanOK, Accounted
<1>4. \A id : InFlux(id)' <=> InFlux(id)
    BY FluxKeep
<1>5. Points'
    BY <1>3, <1>4 DEF BInv, Points, ObjAt, FreeAt
<1> QED BY <1>1, <1>2, <1>3, <1>5, QuietNext DEF Quiet

\* tx_log_check, and the crash of pmb_open.
LEMMA CheckAllKeeps ==
    ASSUME BInv, IInv', Marked', CheckEntry \/ CheckSlotEnd \/ CheckSkip \/ CrashAgain
    PROVE  BInv'
<1>0. /\ ~ Up /\ ~ Up' /\ UNCHANGED <<cl, free, mfree, upd, clean, obj>>
      /\ rec \in [phase : {"up", "check"}, idx : Nat, pos : Nat]
    <2>1. rec \in [phase : {"up", "check"}, idx : Nat, pos : Nat]
        BY DEF BInv, IInv, ClientsOK
    <2>2. UNCHANGED <<cl, free, mfree, upd, clean, obj>> /\ ~ Up
        BY DEF CheckEntry, CheckSlotEnd, CheckSkip, CrashAgain, Checking, Up, lists, metas, history
    <2>3. CASE CrashAgain
        BY <2>1, <2>2, <2>3 DEF CrashAgain, Up
    <2>4. CASE CheckEntry \/ CheckSlotEnd \/ CheckSkip
        <3>1. rec'.phase = rec.phase
            BY <2>1, <2>4 DEF CheckEntry, CheckSlotEnd, CheckSkip
        <3> QED BY <2>1, <2>2, <3>1 DEF Up
    <2> QED BY <2>3, <2>4
<1>1. Recovering
    BY DEF BInv
<1>2. CASE CheckEntry
    <2>1. /\ rec.idx \in Checked /\ rec.idx \in Index /\ slot' = slot /\ rec'.idx = rec.idx
          /\ slot[rec.idx].status # "EMPTY"
        BY <1>0, <1>2, CheckedIndex DEF CheckEntry, Checking
    <2> DEFINE e == slot[rec.idx].log[rec.pos]
    <2>2. /\ rec.pos \in DOMAIN slot[rec.idx].log
          /\ \/ e.op \in Undone /\ cell' = SetZero(cell, NewBlock(e))
             \/ e.op \notin Undone /\ cell' = cell
        BY <1>2, UndoneByCheck DEF BInv
    <2>3. rec.pos \in 1 .. Len(slot[rec.idx].log) /\ EntryOK(e)
        <3>1. slot[rec.idx].log \in Seq(Stride)
            BY <2>1 DEF BInv, IInv, SlotsOK, LogOK
        <3>2. rec.pos \in 1 .. Len(slot[rec.idx].log)
            BY <2>2, <3>1
        <3> QED BY <2>1, <3>2 DEF BInv, Shapes, Shape
    <2> HIDE DEF e
    <2>7. e.op \in Undone => e.op \in {"WRITE", "UPDATE"}
        BY <2>3 DEF Undone, EntryOK, Ops
    <2>8. slot[rec.idx].log[rec.pos] = e
        BY DEF e
    <2>4. Shapes' /\ Recovering'
        BY <1>0, <1>1, <2>1 DEF BInv, Shapes, Recovering
    <2>5. CASE e.op \notin {"WRITE", "UPDATE"}
        <3>1. cell' = cell
            BY <2>2, <2>5, <2>7
        <3>2. CellsOK'
            BY <3>1 DEF BInv, CellsOK
        <3> QED BY <1>0, <2>4, <3>1, <3>2, CheckKeeps
    <2>6. CASE e.op \in {"WRITE", "UPDATE"}
        <3>1. PICK x \in Usable : x = NewBlock(e) /\ NewAt(e, x)
            BY <2>3, <2>6 DEF EntryOK, NewBlock, NewAt, Ops
        <3>2. x \in Ids /\ obj[x] = None
            BY <1>0, <1>1, <2>1, <2>3, <2>8, <3>1, UsableIds DEF Recovering
        <3>3. /\ CellsOK'
              /\ \A id \in Usable \ {x} : cell'[Direct(id)] = cell[Direct(id)]
            BY <2>2, <2>6, <3>1, ZeroCells DEF Undone, IInv
        <3> QED BY <1>0, <2>4, <3>2, <3>3, CheckKeeps
    <2> QED BY <2>5, <2>6
<1>3. CASE CheckSlotEnd \/ CheckSkip \/ CrashAgain
    <2>1. cell' = cell /\ CellsOK'
        BY <1>3 DEF CheckSlotEnd, CheckSkip, CrashAgain, persistent, BInv, CellsOK
    <2>2. ASSUME \A j \in Index : slot'[j] = slot[j] \/ slot'[j] = EmptySlot,
                 rec'.idx >= 1, \A j \in Checked : j < rec'.idx => slot'[j].status = "EMPTY"
          PROVE  BInv'
        <3>1. \A j \in Index : slot'[j].status # "EMPTY" => slot'[j] = slot[j]
            BY <2>2 DEF EmptySlot
        <3>2. Shapes'
            <4>1. Shape(EmptySlot.log)
                BY EmptyShape DEF EmptySlot
            <4> QED BY <2>2, <4>1 DEF BInv, Shapes
        <3>3. ASSUME NEW j \in Checked, NEW id \in Ids, slot'[j].status # "EMPTY",
                     NEW k \in 1 .. Len(slot'[j].log), NewAt(slot'[j].log[k], id)
              PROVE  obj'[id] = None
            <4>1. slot'[j] = slot[j]
                BY <3>1, <3>3, CheckedIndex
            <4> QED BY <1>0, <1>1, <3>3, <4>1 DEF Recovering
        <3>4. Recovering'
            BY <1>0, <1>1, <2>2, <3>3 DEF Recovering
        <3> QED BY <1>0, <2>1, <3>2, <3>4, CheckKeeps
    <2>3. CASE CrashAgain
        <3>1. slot' = slot /\ rec'.idx = 1
            BY <2>3 DEF CrashAgain, persistent
        <3>2. \A j \in Checked : ~ (j < 1)
            BY NSlotsAssumption DEF Checked
        <3> QED BY <2>2, <3>1, <3>2
    <2>4. CASE CheckSkip \/ CheckSlotEnd
        <3>1. rec.idx \in Checked /\ rec.idx \in Index /\ rec'.idx = rec.idx + 1
            BY <1>0, <2>4, CheckedIndex DEF CheckSkip, CheckSlotEnd, Checking
        <3>2. /\ \A j \in Index : slot'[j] = slot[j] \/ slot'[j] = EmptySlot
              /\ slot'[rec.idx].status = "EMPTY"
            <4>1. CASE CheckSkip
                BY <3>1, <4>1 DEF CheckSkip, persistent
            <4>2. CASE CheckSlotEnd
                BY <3>1, <4>2 DEF CheckSlotEnd, EmptySlot, BInv, IInv, SlotsOK
            <4> QED BY <2>4, <4>1, <4>2
        <3>3. rec'.idx >= 1 /\ \A j \in Checked : j < rec'.idx => j < rec.idx \/ j = rec.idx
            BY <1>0, <3>1, CheckedIndex, NSlotsAssumption DEF Index
        <3>4. \A j \in Checked : j < rec'.idx => slot'[j].status = "EMPTY"
            <4>1. \A j \in Checked : j < rec.idx => slot[j].status = "EMPTY"
                BY <1>0, <1>1 DEF Recovering
            <4>2. EmptySlot.status = "EMPTY"
                BY DEF EmptySlot
            <4> QED BY <3>2, <3>3, <4>1, <4>2, CheckedIndex
        <3> QED BY <2>2, <3>2, <3>3, <3>4
    <2> QED BY <1>3, <2>3, <2>4
<1> QED BY <1>2, <1>3

\* recovery
LEMMA ScanKeeps ==
    ASSUME BInv, IInv', Marked', Scan
    PROVE  BInv'
<1>0. /\ ~ Up /\ Up' /\ UNCHANGED <<cell, slot, upd, clean, cl>>
      /\ rec.idx \notin Checked /\ rec \in [phase : {"up", "check"}, idx : Nat, pos : Nat]
    BY DEF Scan, Up, persistent, metas, BInv, IInv, ClientsOK
<1>1. \A c \in Clients : cl'[c] = Idle
    BY <1>0 DEF BInv, IInv, ClientsOK
<1>2. rec.idx >= 1 /\ \A i \in Index : DOMAIN upd[i] = {}
    BY <1>0 DEF BInv, Recovering
<1>3. \A i \in Checked : slot[i].status = "EMPTY"
    <2>1. \A i \in Checked : i < rec.idx
        BY <1>0, <1>2, NSlotsAssumption DEF Checked
    <2> QED BY <1>0, <2>1 DEF BInv, Recovering
<1>4. Regions' /\ \A id \in Ids : id \in Frees' <=> ~ Valid(cell, id)
    BY UsableIds DEF Scan, Leftover, Frees, Regions
<1>5. \A id \in Ids : obj'[id] = IF obj[id] = None /\ Valid(cell, id) THEN cell[Direct(id)].val ELSE obj[id]
    BY DEF Scan
<1>6. ASSUME NEW id \in Ids, Valid(cell, id)
      PROVE  id \in Usable /\ cell[Direct(id)].sum = Region(id) /\ cell[Direct(id)].sum # "zero"
             /\ cell[Direct(id)].val # None
    <2>1. Direct(id) \in Addrs
        BY DirectAddr
    <2> QED BY <1>6, <2>1, NoneAssumption DEF BInv, CellsOK, Valid, Exists
<1>7. ASSUME NEW id \in Ids, obj[id] # None
      PROVE  Valid(cell, id) /\ cell[Direct(id)].val = obj[id]
    <2>1. ~ InFlux(id)
        BY <1>2 DEF InFlux
    <2> QED BY <1>7, <2>1 DEF BInv, Points, ObjAt, Valid, Exists
<1>8. Points'
    <2> SUFFICES ASSUME NEW id \in Ids PROVE ObjAt(id)' /\ FreeAt(id)'
        BY DEF Points
    <2>1. obj'[id] # None => Valid(cell, id) /\ obj'[id] = cell[Direct(id)].val
        BY <1>5, <1>7
    <2> QED BY <1>0, <1>4, <1>6, <2>1 DEF ObjAt, FreeAt
<1>9. Accounted'
    BY <1>4, <1>5, <1>6, <1>7 DEF Accounted, AccountedAt
<1>10. Shapes' /\ CellsOK' /\ Recovering' /\ CleanOK'
    BY <1>0 DEF BInv, Shapes, CellsOK, Recovering, CleanOK
<1> QED BY <1>0, <1>1, <1>2, <1>3, <1>4, <1>8, <1>9, <1>10, QuietNext DEF Quiet

-----------------------------------------------------------------------------
(* The theorems. *)

\* Nothing changes when nothing changes.
LEMMA BlocksStutter ==
    ASSUME BInv, IInv', Marked', UNCHANGED vars
    PROVE  BInv'
<1>1. /\ UNCHANGED <<cell, slot, free, mfree, upd, clean, cl, rec, obj>>
    BY DEF vars
<1>2. /\ \A c : Log(c)' = Log(c) /\ Idx(c)' = Idx(c)
      /\ Frees' = Frees /\ (Up' <=> Up) /\ \A id : InFlux(id)' <=> InFlux(id)
    BY <1>1 DEF Log, Idx, Frees, Up, InFlux
<1>3. \A c, id : /\ Holds(c, id)' <=> Holds(c, id)
                 /\ Owns(c, id)' <=> Owns(c, id)
                 /\ Claims(c, id)' <=> Claims(c, id)
    BY <1>1, <1>2 DEF Holds, Owns, Claims
<1>4. Shapes' /\ CellsOK' /\ Regions' /\ RefreshOwned' /\ LogsOwned' /\ Recovering' /\ CleanOK'
    BY <1>1, <1>2 DEF BInv, Shapes, CellsOK, Regions, RefreshOwned, LogsOwned, Recovering, CleanOK
<1>5. Privates'
    BY <1>1, <1>2 DEF BInv, Privates, PrivateOK
<1>6. Apart'
    BY <1>1, <1>2, <1>3 DEF BInv, Apart
<1>7. Points'
    BY <1>1, <1>2 DEF BInv, Points, ObjAt, FreeAt
<1>8. Accounted'
    BY <1>1, <1>2, <1>3 DEF BInv, Accounted, AccountedAt
<1> QED BY <1>4, <1>5, <1>6, <1>7, <1>8 DEF BInv

\* Every step of an ordinary use of the store keeps the invariant.
LEMMA BlocksStep ==
    ASSUME Ordinary, BInv, [Next]_vars
    PROVE  BInv'
<1>1. IInv' /\ Marked'
    BY NextStep, MarkedStep DEF Ordinary, BInv
<1>2. ASSUME NEW c \in Clients, Execution(c) PROVE BInv'
    BY <1>1, <1>2, ExecuteKeeps, ExecZeroKeeps, ExecFreeKeeps, ExecSkipKeeps, ExecPatchKeeps,
       ExecMetaKeeps, ExecEndKeeps DEF Execution, TxExecuteErr, Ordinary
<1>3. ASSUME NEW c \in Clients, Abortion(c) PROVE BInv'
    BY <1>1, <1>3, AbortKeeps, AbortZeroKeeps, AbortFreeKeeps, AbortSkipKeeps, AbortEndKeeps
       DEF Abortion
<1>4. ASSUME Recovery PROVE BInv'
    BY <1>1, <1>4, CheckAllKeeps, ScanKeeps DEF Recovery
<1>5. ASSUME NEW c \in Clients,
             \/ TxBegin(c) \/ TxInit(c) \/ Operation(c) \/ TPutWrite(c) \/ TPutLate(c) \/ TxCommit(c)
             \/ TxRelease(c) \/ Conflict(c)
      PROVE  BInv'
    BY <1>1, <1>5, BeginKeeps, InitKeeps, OperationKeeps, PutWriteKeeps, PutLateKeeps, CommitKeeps,
       ReleaseKeeps, ConflictKeeps
<1> QED BY <1>1, <1>2, <1>3, <1>4, <1>5, BlocksStutter, CrashKeeps, CheckAllKeeps DEF Next

\* The invariant of the blocks holds in every reachable state of an ordinary
\* use of the store.
THEOREM StoreBlocksInvariant == Ordinary => (Spec => []BInv)
<1> SUFFICES ASSUME Ordinary PROVE Spec => []BInv
    OBVIOUS
<1>1. BInv /\ [Next]_vars => BInv'
    BY BlocksStep
<1>2. Init => BInv
    BY BlocksInit
<1> QED BY <1>1, <1>2, PTL DEF Spec

\* For every number of clients, slots and blocks: no step of other
\* transactions, no crash and no recovery changes an object that was executed,
\* or offers its block for reuse.  Ordinary leaves out that the process ends
\* between the stores of tx_slot_init, and payloads that read as entries: in
\* either case the code does destroy such an object.
THEOREM StoreSettledIntact == Ordinary => (Spec => []SettledIntact)
<1> SUFFICES ASSUME Ordinary PROVE Spec => []SettledIntact
    OBVIOUS
<1>1. BInv => SettledIntact
    BY DEF BInv, Points, ObjAt, SettledIntact, Valid, Exists, Frees
<1>2. Spec => []BInv
    BY StoreBlocksInvariant
<1> QED BY <1>1, <1>2, PTL

\* A removed object never comes back: no block on a free list reads as an
\* object, so that the next pmb_open does not take it for one.
THEOREM StoreFreeIsBlank == Ordinary => (Spec => []FreeIsBlank)
<1> SUFFICES ASSUME Ordinary PROVE Spec => []FreeIsBlank
    OBVIOUS
<1>1. BInv => FreeIsBlank
    BY UsableIds DEF BInv, Points, FreeAt, FreeIsBlank, Frees, Regions
<1>2. Spec => []BInv
    BY StoreBlocksInvariant
<1> QED BY <1>1, <1>2, PTL

\* The blocks that a transaction wrote and has not given back are those its
\* client owns.
LEMMA OwnedOwns ==
    ASSUME BInv, NEW c \in Holding
    PROVE  \A id \in Owned(c) : id \in Ids /\ Holds(c, id)
<1>1. c \in Clients /\ cl[c].pc # "idle"
    BY DEF Holding, BInv, IInv, ClientsOK
<1>2. Len(Log(c)) \in Nat /\ DOMAIN Log(c) = 1 .. Len(Log(c))
    BY <1>1, LogFacts DEF BInv
<1>3. \A id : id \in News(Log(c)) <=> \E k \in 1 .. Len(Log(c)) : NewAt(Log(c)[k], id)
    BY <1>2, NewsAt
<1>4. \A id : Given(Log(c), cl[c].pc, cl[c].pos, id) => id \in GivenBack(c)
    <2>1. CASE cl[c].pc \in {"exec", "free"}
        BY <1>2, <2>1 DEF Given, GivenBack, TakeAt
    <2>2. CASE cl[c].pc \notin {"exec", "free"}
        BY <1>2, <2>2 DEF Given, GivenBack
    <2> QED BY <2>1, <2>2
<1>5. \A id \in Owned(c) : Holds(c, id)
    BY <1>1, <1>3, <1>4 DEF Owned, Holds, HoldsIn, OwnsIn
<1> QED BY <1>1, <1>5, HasUsableClient, UsableIds

\* However many threads pop, log, zero and push, no block is handed out twice:
\* what an open transaction wrote is on no free list, is nobody else's and is
\* no object.
THEOREM StoreBlockExclusive == Ordinary => (Spec => []BlockExclusive)
<1> SUFFICES ASSUME Ordinary PROVE Spec => []BlockExclusive
    OBVIOUS
<1>1. BInv => BlockExclusive
    <2> SUFFICES ASSUME BInv PROVE BlockExclusive
        OBVIOUS
    <2>1. Holding \subseteq Clients
        BY DEF Holding
    <2>2. \A c \in Holding : \A id \in Owned(c) : id \in Ids /\ Holds(c, id)
        BY OwnedOwns
    <2>3. \A c \in Clients : \A id \in Ids : Holds(c, id) => obj[id] = None /\ id \notin free \cup mfree
        BY DEF BInv, Apart, Frees
    <2>4. \A c \in Clients : \A d \in Clients \ {c} : \A id \in Ids : ~ (Holds(c, id) /\ Holds(d, id))
        BY DEF BInv, Apart
    <2>5. \A c \in Holding : Owned(c) \cap (free \cup mfree) = {} /\ \A id \in Owned(c) : obj[id] = None
        BY <2>1, <2>2, <2>3
    <2>6. \A c \in Holding : \A d \in Holding \ {c} : Owned(c) \cap Owned(d) = {}
        BY <2>1, <2>2, <2>4
    <2> QED BY <2>5, <2>6 DEF BlockExclusive
<1>2. Spec => []BInv
    BY StoreBlocksInvariant
<1> QED BY <1>1, <1>2, PTL

\* With no transaction open, a block is free or an object, never both.
LEMMA FreeOrObject ==
    ASSUME BInv, ~ May("late"), Up, Holding = {}
    PROVE  /\ free = DataIds \ {id \in DataIds : obj[id] # None}
           /\ mfree = MetaIds \ {id \in MetaIds : obj[id] # None}
<1>1. \A c \in Clients : \A id : ~ Holds(c, id)
    <2>1. \A c \in Clients : cl[c].pc = "idle"
        BY DEF Holding, BInv, IInv, ClientsOK
    <2> QED BY <2>1 DEF Holds, HoldsIn, OwnsIn, LimboIn
<1>2. \A id \in Ids : obj[id] # None <=> id \notin Frees
    BY <1>1 DEF BInv, Accounted, AccountedAt, Points, ObjAt
<1>3. DataIds \cap MetaIds = {} /\ DataIds \subseteq Ids /\ MetaIds \subseteq Ids
    BY UsableIds, DAssumption DEF DataIds, MetaIds
<1>4. free \subseteq DataIds /\ mfree \subseteq MetaIds
    BY DEF BInv, Regions
<1> QED BY <1>2, <1>3, <1>4 DEF Frees

\* The two sets of a partition.
LEMMA CountRest ==
    ASSUME NEW S, IsFiniteSet(S), NEW T \in SUBSET S
    PROVE  Cardinality(S) - Cardinality(S \ T) = Cardinality(T)
<1>1. S \cap T = T
    OBVIOUS
<1>2. Cardinality(S \ T) = Cardinality(S) - Cardinality(T)
    BY <1>1, FS_Difference
<1>3. IsFiniteSet(T)
    BY FS_Subset
<1>4. Cardinality(S) \in Nat /\ Cardinality(T) \in Nat
    BY <1>3, FS_CardinalityType
<1> QED BY <1>2, <1>4

\* pmb_ntotal - pmb_nfree is the number of objects of the region whenever no
\* transaction is open, as long as no put follows a commit.  A crash inside
\* tx_slot_init, which Ordinary leaves out, would free an executed object.
THEOREM StoreCountExact == Ordinary /\ ~ May("late") => (Spec => []CountExact)
<1> SUFFICES ASSUME Ordinary, ~ May("late") PROVE Spec => []CountExact
    OBVIOUS
<1>1. BInv => CountExact
    <2> SUFFICES ASSUME BInv, Up, Holding = {}
                 PROVE  /\ (D - 1) - Cardinality(free) = Cardinality({id \in DataIds : obj[id] # None})
                        /\ M - Cardinality(mfree) = Cardinality({id \in MetaIds : obj[id] # None})
        BY DEF CountExact
    <2> DEFINE S == {id \in DataIds : obj[id] # None}
               T == {id \in MetaIds : obj[id] # None}
    <2>1. free = DataIds \ S /\ mfree = MetaIds \ T /\ S \in SUBSET DataIds /\ T \in SUBSET MetaIds
        BY FreeOrObject
    <2>2. IsFiniteSet(DataIds) /\ Cardinality(DataIds) = D - 1
        <3>1. D - 1 \in Int /\ ~ (1 > D - 1)
            BY DAssumption
        <3>2. IsFiniteSet(1 .. D - 1) /\ Cardinality(1 .. D - 1) = (D - 1) - 1 + 1
            BY <3>1, FS_Interval
        <3> QED BY <3>2, DAssumption DEF DataIds
    <2>3. IsFiniteSet(MetaIds) /\ Cardinality(MetaIds) = M
        <3>1. D \in Int /\ D + M - 1 \in Int /\ ~ (D > D + M - 1)
            BY DAssumption, MAssumption
        <3>2. /\ IsFiniteSet(D .. D + M - 1)
              /\ Cardinality(D .. D + M - 1) = (D + M - 1) - D + 1
            BY <3>1, FS_Interval
        <3> QED BY <3>2, DAssumption, MAssumption DEF MetaIds
    <2> HIDE DEF S, T
    <2>4. (D - 1) - Cardinality(free) = Cardinality(S)
        BY <2>1, <2>2, CountRest
    <2>5. M - Cardinality(mfree) = Cardinality(T)
        BY <2>1, <2>3, CountRest
    <2> QED BY <2>4, <2>5 DEF S, T
<1>2. Spec => []BInv
    BY StoreBlocksInvariant
<1> QED BY <1>1, <1>2, PTL
=============================================================================

---------------------------- MODULE StoreProofs ----------------------------
(***************************************************************************)
(* Store for every number of clients, slots and blocks: the state keeps    *)
(* its type, and a slot delivered by pmb_tx_begin belongs to one client    *)
(* until that client lets go of it, provided that nobody executes a        *)
(* transaction that was not committed.                                     *)
(***************************************************************************)
EXTENDS Store, SequenceTheorems, WellFoundedInduction, TLAPS

\* The parts of TypeOK, one for each group of variables.
BlocksOK == cell \in [Addrs -> Block]

ListsOK == free \subseteq Ids /\ mfree \subseteq Ids /\ tfree \subseteq SlotIds

MetasOK ==
    /\ clean \in [Index -> Nat]
    /\ DOMAIN upd = Index
    /\ \A i \in Index : DOMAIN upd[i] \subseteq Ids /\ \A x \in DOMAIN upd[i] : upd[i][x] \in Nat

ClientsOK ==
    /\ cl \in [Clients -> Client]
    /\ \A c \in Clients : cl[c].tx = 0 <=> cl[c].pc = "idle"
    /\ rec \in [phase : {"up", "check"}, idx : Nat, pos : Nat]
    /\ ~ Up => \A c \in Clients : cl[c] = Idle

HistoryOK ==
    /\ obj \in [Ids -> Vals \cup {None}]
    /\ drop \subseteq Index \X (Ids \cup {0})
    /\ keep \subseteq Ids \cup {0}

\* The first block of an entry that takes one away or patches one is an id.
LogOK(log) ==
    /\ log \in Seq(Stride)
    /\ \A k \in 1 .. Len(log) :
        log[k].op \in {"UPDATE", "REMOVE", "UPDINPLACE"} => log[k].id1 \in Ids

SlotsOK ==
    /\ slot \in [Index -> Slot]
    /\ \A i \in Index : LogOK(slot[i].log)

\* Where a client stands in its log: a put has logged its block, a walk that
\* has zeroed a block stands at the stride that named it.
Standing(c) ==
    /\ cl[c].pc \in {"exec", "abort"} => cl[c].pos >= 1
    /\ cl[c].pc \in {"free", "abfree"} => cl[c].pos \in 1 .. Len(Log(c))
    /\ cl[c].pc \in {"put", "putmeta"} => Len(Log(c)) >= 1

WalksOK == \A c \in Clients : Standing(c)

\* The inductive invariant.  Types alone are not inductive: an action may read
\* the log of a client at its position only because the client holds the slot
\* alone (SlotExclusive), so that no other client emptied or cut that log.
IInv ==
    /\ BlocksOK /\ ListsOK /\ MetasOK /\ ClientsOK /\ HistoryOK /\ SlotsOK
    /\ SlotExclusive /\ WalksOK

\* The invariant contains the type invariant.
LEMMA IInvType == IInv => TypeOK
BY DEF IInv, TypeOK, BlocksOK, ListsOK, MetasOK, ClientsOK, HistoryOK, SlotsOK

-----------------------------------------------------------------------------
\* Blocks.

\* Every block number has an address in the pool.
LEMMA DirectAddr == ASSUME NEW id \in Ids \cup {0} PROVE Direct(id) \in Addrs
BY DAssumption, MAssumption DEF Direct, Addrs, Ids

\* A zeroed block is a block.
LEMMA ZeroBlockType == ZeroBlock \in Block
BY DEF ZeroBlock, Block, Sums

\* backend_set_zero keeps the blocks well-formed.
LEMMA SetZeroType ==
    ASSUME NEW id \in Ids \cup {0}, BlocksOK
    PROVE  SetZero(cell, id) \in [Addrs -> Block]
BY DirectAddr, ZeroBlockType DEF SetZero, BlocksOK

\* Entries and logs.

\* An entry is a stride.
LEMMA EntryType ==
    ASSUME NEW op \in Ops \cup PayloadOps, NEW a \in Ids \cup {0},
           NEW b \in Ids \cup {0}, NEW v \in Vals \cup {None}
    PROVE  Entry(op, a, b, v) \in Stride
BY DEF Entry, Stride

\* So is a payload, which is no entry of the log's own.
LEMMA PayloadType ==
    ASSUME NEW p \in Payloads
    PROVE  p \in Stride /\ p.op \in PayloadOps /\ p.op \notin Ops
<1>1. PICK op \in PayloadOps, x \in Ids \cup {0} : p = Entry(op, x, 0, None)
    BY DEF Payloads
<1>2. p \in Stride
    BY <1>1, EntryType
<1>3. p.op = op
    BY <1>1 DEF Entry
<1>4. PayloadOps \cap Ops = {}
    BY DEF PayloadOps, Ops
<1> QED BY <1>2, <1>3, <1>4

\* A zeroed slot is well-formed.
LEMMA EmptyLog == LogOK(<< >>) /\ EmptySlot \in Slot
BY DEF LogOK, EmptySlot, Slot, Statuses

\* A log writes block numbers.
LEMMA NewsType ==
    ASSUME NEW log, LogOK(log)
    PROVE  News(log) \subseteq Ids \cup {0}
<1>1. \A k \in DOMAIN log : log[k] \in Stride
    BY DEF LogOK
<1> QED BY <1>1 DEF News, Stride

\* A client that is not idle holds a slot, alone, in a store that is up.
LEMMA HeldSlot ==
    ASSUME IInv, NEW c \in Clients, cl[c].pc # "idle"
    PROVE  /\ cl[c] \in Client
           /\ cl[c].tx \in SlotIds
           /\ cl[c].tx - 1 \in Index
           /\ c \in Holding
           /\ Up
           /\ slot[cl[c].tx - 1] \in Slot
           /\ LogOK(Log(c))
           /\ Len(Log(c)) \in Nat
<1>1. cl[c] \in Client /\ cl[c].tx # 0
    BY DEF IInv, ClientsOK
<1>2. cl[c].tx \in SlotIds
    BY <1>1 DEF Client
<1>3. cl[c].tx - 1 \in Index
    BY <1>2, NSlotsAssumption DEF SlotIds, Index
<1>4. Up
    BY DEF IInv, ClientsOK, Idle
<1>5. slot[cl[c].tx - 1] \in Slot /\ LogOK(Log(c))
    BY <1>3, EmptyLog DEF IInv, SlotsOK, Log
<1>6. Len(Log(c)) \in Nat
    BY <1>5, LenProperties DEF LogOK
<1> QED BY <1>1, <1>2, <1>3, <1>4, <1>5, <1>6 DEF Holding

\* The stride at a position of the log.
LEMMA StrideAt ==
    ASSUME IInv, NEW c \in Clients, cl[c].pc # "idle", NEW k \in 1 .. Len(Log(c))
    PROVE  /\ Log(c)[k] \in Stride
           /\ Log(c)[k].op \in {"UPDATE", "REMOVE", "UPDINPLACE"} => Log(c)[k].id1 \in Ids
<1>1. LogOK(Log(c))
    BY HeldSlot
<1> QED BY <1>1 DEF LogOK

-----------------------------------------------------------------------------
\* Client c, which keeps its slot, is now at p and q; nobody else moved.
Moves(c, p, q) ==
    /\ cl' \in [Clients -> Client]
    /\ cl'[c].pc = p /\ cl'[c].pos = q /\ cl'[c].tx = cl[c].tx
    /\ \A d \in Clients \ {c} : cl'[d] = cl[d]

\* A client that is given another record moves.
LEMMA SetMoves ==
    ASSUME ClientsOK, NEW c \in Clients, NEW p \in PCs, NEW q \in Nat,
           cl' = [cl EXCEPT ![c].pc = p, ![c].pos = q]
    PROVE  Moves(c, p, q)
BY DEF ClientsOK, Client, Moves

\* A change of the place alone is a move.
LEMMA GotoMoves ==
    ASSUME ClientsOK, NEW c \in Clients, NEW p \in PCs, Goto(c, p)
    PROVE  Moves(c, p, cl[c].pos)
BY DEF ClientsOK, Client, Moves, Goto

\* So is a step of the walk.
LEMMA StepMoves ==
    ASSUME ClientsOK, NEW c \in Clients, NEW p \in PCs, NEW n \in Nat, Step(c, p, n)
    PROVE  Moves(c, p, cl[c].pos + n)
<1>1. cl[c].pos + n \in Nat
    BY DEF ClientsOK, Client
<1>2. cl' = [cl EXCEPT ![c].pc = p, ![c].pos = cl[c].pos + n]
    BY DEF Step
<1> QED BY <1>1, <1>2, SetMoves

\* So is no change at all.
LEMMA StayMoves ==
    ASSUME ClientsOK, NEW c \in Clients, UNCHANGED cl
    PROVE  Moves(c, cl[c].pc, cl[c].pos)
BY DEF ClientsOK, Client, Moves

\* A client that keeps its slot and changes at most that slot disturbs nobody:
\* no other client's log is touched.
LEMMA MovedClient ==
    ASSUME IInv, NEW c \in Clients, cl[c].pc # "idle",
           NEW p \in PCs \ {"idle"}, NEW q \in Nat, Moves(c, p, q),
           UNCHANGED <<tfree, rec>>,
           \A i \in Index \ {cl[c].tx - 1} : slot'[i] = slot[i],
           Standing(c)'
    PROVE  ClientsOK' /\ SlotExclusive' /\ WalksOK'
<1>1. cl[c].tx \in SlotIds /\ c \in Holding /\ Up /\ cl[c].tx # 0
    BY HeldSlot DEF Holding
<1>2. \A d \in Clients : cl'[d].tx = cl[d].tx
    BY DEF Moves
<1>3. ClientsOK'
    BY <1>1 DEF IInv, ClientsOK, Moves, Up
<1>4. SlotExclusive'
    BY <1>2 DEF IInv, SlotExclusive, Holding
<1>5. ASSUME NEW d \in Clients PROVE Standing(d)'
    <2>1. CASE d = c
        BY <2>1
    <2>2. CASE d # c /\ cl[d].pc = "idle"
        BY <2>2 DEF Moves, Standing
    <2>3. CASE d # c /\ cl[d].pc # "idle"
        <3>1. d \in Holding /\ cl[d].tx \in SlotIds /\ cl[d].tx - 1 \in Index
            BY <2>3, HeldSlot
        <3>2. cl[d].tx # cl[c].tx
            BY <1>1, <2>3, <3>1 DEF IInv, SlotExclusive
        <3>3. cl[d].tx - 1 # cl[c].tx - 1
            BY <1>1, <3>1, <3>2 DEF SlotIds
        <3>4. slot'[cl[d].tx - 1] = slot[cl[d].tx - 1] /\ cl'[d] = cl[d]
            BY <2>3, <3>1, <3>3 DEF Moves
        <3>5. Standing(d)
            BY DEF IInv, WalksOK
        <3> QED BY <3>4, <3>5 DEF Standing, Log
    <2> QED BY <2>1, <2>2, <2>3
<1> QED BY <1>3, <1>4, <1>5 DEF WalksOK

-----------------------------------------------------------------------------
\* Adding strides to the log of a client.
LEMMA RecordKeeps ==
    ASSUME IInv, NEW c \in Clients, cl[c].pc = "open",
           NEW strides, LogOK(strides), Record(c, strides)
    PROVE  /\ SlotsOK'
           /\ \A i \in Index \ {cl[c].tx - 1} : slot'[i] = slot[i]
           /\ Len(slot'[cl[c].tx - 1].log) = Len(Log(c)) + Len(strides)
<1> DEFINE i == cl[c].tx - 1
           log == Log(c) \o strides
<1>1. i \in Index /\ slot[i] \in Slot /\ LogOK(Log(c)) /\ slot \in [Index -> Slot]
    BY HeldSlot DEF IInv, SlotsOK
<1>2. /\ log \in Seq(Stride)
      /\ Len(log) = Len(Log(c)) + Len(strides)
      /\ \A k \in 1 .. Len(log) :
            log[k] = IF k <= Len(Log(c)) THEN Log(c)[k] ELSE strides[k - Len(Log(c))]
    BY <1>1, ConcatProperties DEF LogOK
<1>3. Len(Log(c)) \in Nat /\ Len(strides) \in Nat
    BY <1>1, LenProperties DEF LogOK
<1>4. LogOK(log)
    <2> SUFFICES ASSUME NEW k \in 1 .. Len(log),
                        log[k].op \in {"UPDATE", "REMOVE", "UPDINPLACE"}
                 PROVE  log[k].id1 \in Ids
        BY <1>2 DEF LogOK
    <2>1. CASE k <= Len(Log(c))
        <3>1. k \in 1 .. Len(Log(c)) /\ log[k] = Log(c)[k]
            BY <1>2, <1>3, <2>1
        <3> QED BY <1>1, <3>1 DEF LogOK
    <2>2. CASE ~ (k <= Len(Log(c)))
        <3>1. k - Len(Log(c)) \in 1 .. Len(strides) /\ log[k] = strides[k - Len(Log(c))]
            BY <1>2, <1>3, <2>2
        <3> QED BY <3>1 DEF LogOK
    <2> QED BY <2>1, <2>2
<1>5. slot' = [slot EXCEPT ![i] = [slot[i] EXCEPT !.log = log]]
    BY DEF Record, Log
<1>6. [slot[i] EXCEPT !.log = log] \in Slot
    BY <1>1, <1>2 DEF Slot
<1>7. slot' \in [Index -> Slot] /\ slot'[i].log = log
    BY <1>1, <1>5, <1>6 DEF Slot
<1>8. \A j \in Index \ {i} : slot'[j] = slot[j]
    BY <1>1, <1>5
<1> QED BY <1>1, <1>2, <1>4, <1>7, <1>8 DEF SlotsOK, IInv

\* A log entry makes a well-formed addition.
LEMMA OneStride ==
    ASSUME NEW e \in Stride,
           e.op \in {"UPDATE", "REMOVE", "UPDINPLACE"} => e.id1 \in Ids
    PROVE  LogOK(<<e>>) /\ Len(<<e>>) = 1
BY DEF LogOK

\* So does an entry with its payload.
LEMMA TwoStrides ==
    ASSUME NEW e \in Stride, NEW f \in Stride,
           e.op \in {"UPDATE", "REMOVE", "UPDINPLACE"} => e.id1 \in Ids,
           f.op \notin {"UPDATE", "REMOVE", "UPDINPLACE"}
    PROVE  LogOK(<<e, f>>)
<1>1. <<e, f>> \in Seq(Stride) /\ Len(<<e, f>>) = 2
    OBVIOUS
<1>2. \A k \in 1 .. 2 : k = 1 \/ k = 2
    OBVIOUS
<1> QED BY <1>1, <1>2 DEF LogOK

\* A put's entry, for a block that came from a list.
LEMMA PutEntryOK ==
    ASSUME NEW old \in Ids \cup {0}, NEW b \in Ids, NEW v \in Vals
    PROVE  LogOK(<<PutEntry(old, b, v)>>) /\ Len(<<PutEntry(old, b, v)>>) = 1
<1>1. PutEntry(old, b, v) \in Stride
    BY EntryType DEF PutEntry, Ops
<1>2. PutEntry(old, b, v).op = "UPDATE" => PutEntry(old, b, v).id1 \in Ids
    BY DEF PutEntry, Entry
<1>3. PutEntry(old, b, v).op \in {"WRITE", "UPDATE"}
    BY DEF PutEntry, Entry
<1> QED BY <1>1, <1>2, <1>3, OneStride

\* The status and checksum of the client's slot change, its log does not.
LEMMA StatusKeeps ==
    ASSUME IInv, NEW c \in Clients, cl[c].pc # "idle",
           NEW status \in Statuses, SetStatus(c, status)
    PROVE  /\ SlotsOK'
           /\ \A i \in Index \ {cl[c].tx - 1} : slot'[i] = slot[i]
<1> DEFINE i == cl[c].tx - 1
           s == [slot[i] EXCEPT !.status = status, !.flch = Checksum(Log(c))]
<1>1. i \in Index /\ slot[i] \in Slot /\ LogOK(Log(c)) /\ Len(Log(c)) \in Nat
    BY HeldSlot
<1>2. slot \in [Index -> Slot] /\ \A j \in Index : LogOK(slot[j].log)
    BY DEF IInv, SlotsOK
<1>3. Checksum(Log(c)) \in Nat
    BY <1>1 DEF Checksum
<1>4. s \in Slot /\ s.log = slot[i].log
    BY <1>1, <1>3 DEF Slot
<1>5. slot' = [slot EXCEPT ![i] = s]
    BY <1>1, <1>2 DEF SetStatus, Slot
<1>6. slot' \in [Index -> Slot] /\ \A j \in Index : slot'[j].log = slot[j].log
    BY <1>1, <1>2, <1>4, <1>5
<1> QED BY <1>1, <1>2, <1>5, <1>6 DEF SlotsOK

\* The client's slot becomes empty.
LEMMA EmptyKeeps ==
    ASSUME IInv, NEW i \in Index, slot' = [slot EXCEPT ![i] = EmptySlot]
    PROVE  /\ SlotsOK'
           /\ \A j \in Index \ {i} : slot'[j] = slot[j]
<1>1. slot' \in [Index -> Slot] /\ slot'[i].log = << >>
    BY EmptyLog DEF IInv, SlotsOK, EmptySlot
<1>2. \A j \in Index \ {i} : slot'[j] = slot[j]
    BY DEF IInv, SlotsOK
<1> QED BY <1>1, <1>2, EmptyLog DEF IInv, SlotsOK

-----------------------------------------------------------------------------
\* The client's slot is zeroed: its log stays as it is.
LEMMA ZeroKeeps ==
    ASSUME IInv, NEW i \in Index, slot' = [slot EXCEPT ![i] = ZeroSlot(@)]
    PROVE  /\ SlotsOK'
           /\ \A j \in Index \ {i} : slot'[j] = slot[j]
<1>1. slot \in [Index -> Slot] /\ \A j \in Index : LogOK(slot[j].log)
    BY DEF IInv, SlotsOK
<1>2. ZeroSlot(slot[i]) \in Slot /\ ZeroSlot(slot[i]).log = slot[i].log
    BY <1>1 DEF ZeroSlot, Slot, Statuses
<1>3. slot' \in [Index -> Slot] /\ \A j \in Index : slot'[j].log = slot[j].log
    BY <1>1, <1>2
<1> QED BY <1>1, <1>3 DEF SlotsOK

\* The actions, one lemma each.

\* pmb_tx_begin up to the status keeps the invariant.
LEMMA TxBeginStep ==
    ASSUME IInv, NEW c \in Clients, TxBegin(c)
    PROVE  IInv'
<1>1. PICK s \in tfree :
        /\ tfree' = tfree \ {s}
        /\ slot' = [slot EXCEPT ![s - 1].status = "PROCESSING", ![s - 1].flch = 0]
        /\ cl' = [cl EXCEPT ![c] = [pc |-> "begin", tx |-> s, pos |-> 0]]
    BY DEF TxBegin
<1>2. s \in SlotIds /\ s # 0 /\ s - 1 \in Index
    BY NSlotsAssumption DEF IInv, ListsOK, SlotIds, Index
<1>3. BlocksOK' /\ ListsOK' /\ MetasOK' /\ HistoryOK'
    BY <1>1 DEF TxBegin, IInv, BlocksOK, ListsOK, MetasOK, HistoryOK, metas, history
<1>4. SlotsOK'
    <2> DEFINE n == [slot[s - 1] EXCEPT !.status = "PROCESSING", !.flch = 0]
    <2>1. n \in Slot /\ n.log = slot[s - 1].log
        BY <1>2 DEF Slot, Statuses, IInv, SlotsOK
    <2>2. slot' = [slot EXCEPT ![s - 1] = n]
        BY <1>1, <1>2 DEF IInv, SlotsOK, Slot
    <2>3. slot' \in [Index -> Slot]
        BY <1>2, <2>1, <2>2 DEF IInv, SlotsOK
    <2>4. \A j \in Index : slot'[j].log = slot[j].log
        BY <1>2, <2>1, <2>2 DEF IInv, SlotsOK
    <2> QED BY <2>3, <2>4 DEF IInv, SlotsOK
<1>5. ClientsOK'
    <2>1. [pc |-> "begin", tx |-> s, pos |-> 0] \in Client
        BY <1>2 DEF Client, PCs
    <2> QED BY <1>1, <1>2, <2>1 DEF TxBegin, IInv, ClientsOK, Up
<1>6. /\ cl'[c] = [pc |-> "begin", tx |-> s, pos |-> 0]
      /\ \A d \in Clients \ {c} : cl'[d] = cl[d]
    BY <1>1 DEF IInv, ClientsOK
<1>7. \A d \in Clients \ {c} : cl[d].tx # 0 => cl[d].tx # s
    BY DEF IInv, SlotExclusive, Holding
<1>8. SlotExclusive'
    BY <1>1, <1>2, <1>6, <1>7 DEF IInv, SlotExclusive, Holding
<1>9. ASSUME NEW d \in Clients PROVE Standing(d)'
    <2>1. CASE d = c
        BY <1>6, <2>1 DEF Standing
    <2>2. CASE d # c /\ cl[d].pc = "idle"
        BY <1>6, <2>2 DEF Standing
    <2>3. CASE d # c /\ cl[d].pc # "idle"
        <3>1. cl[d].tx \in SlotIds /\ cl[d].tx - 1 \in Index /\ cl[d].tx # s
            BY <1>7, <2>3, HeldSlot DEF Holding
        <3>2. slot'[cl[d].tx - 1] = slot[cl[d].tx - 1]
            BY <1>1, <1>2, <3>1 DEF SlotIds, IInv, SlotsOK
        <3> QED BY <1>6, <2>3, <3>2 DEF IInv, WalksOK, Standing, Log
    <2> QED BY <2>1, <2>2, <2>3
<1> QED BY <1>3, <1>4, <1>5, <1>8, <1>9 DEF IInv, WalksOK

\* The rest of tx_slot_init keeps it.
LEMMA TxInitStep ==
    ASSUME IInv, NEW c \in Clients, TxInit(c)
    PROVE  IInv'
<1> DEFINE i == cl[c].tx - 1
           n == [slot[i] EXCEPT !.log = << >>]
<1>0. cl[c].pc # "idle" /\ cl[c].pc \notin {"exec", "abort", "free", "abfree", "put", "putmeta"}
    BY DEF TxInit
<1>1. i \in Index /\ cl[c].pos \in Nat
    BY <1>0, HeldSlot DEF Client
<1>2. slot \in [Index -> Slot] /\ \A j \in Index : LogOK(slot[j].log)
    BY DEF IInv, SlotsOK
<1>3. n \in Slot /\ n.log = << >>
    BY <1>1, <1>2, EmptyLog DEF Slot, EmptySlot
<1>4. slot' = [slot EXCEPT ![i] = n]
    <2>1. slot' = [slot EXCEPT ![i].log = << >>]
        BY DEF TxInit
    <2> QED BY <2>1, <1>1, <1>2, Zenon
<1>5. slot' \in [Index -> Slot] /\ \A j \in Index : slot'[j] = IF j = i THEN n ELSE slot[j]
    BY <1>1, <1>2, <1>3, <1>4
<1>6. SlotsOK'
    BY <1>2, <1>3, <1>5, EmptyLog DEF SlotsOK
<1>7. Moves(c, "open", cl[c].pos)
    BY GotoMoves DEF TxInit, IInv, PCs
<1>8. Standing(c)'
    BY <1>7 DEF Standing, Moves
<1>9. ClientsOK' /\ SlotExclusive' /\ WalksOK'
    BY <1>0, <1>1, <1>5, <1>7, <1>8, MovedClient DEF PCs, TxInit, lists
<1>10. BlocksOK' /\ ListsOK' /\ MetasOK' /\ HistoryOK'
    BY DEF TxInit, IInv, BlocksOK, ListsOK, MetasOK, HistoryOK, lists, metas, history
<1> QED BY <1>6, <1>9, <1>10 DEF IInv

\* pmb_tput and pmb_tput_meta up to the log entry keep it.
LEMMA TPutStep ==
    ASSUME IInv, NEW c \in Clients, NEW old \in Ids \cup {0}, NEW v \in Vals,
           TPut(c, old, v) \/ TPutMeta(c, old, v)
    PROVE  IInv'
<1>0. cl[c].pc = "open"
    BY DEF TPut, TPutMeta, CanLog
<1>1. PICK b \in Ids : Record(c, <<PutEntry(old, b, v)>>)
    BY DEF TPut, TPutMeta, IInv, ListsOK
<1>2. /\ SlotsOK'
      /\ \A i \in Index \ {cl[c].tx - 1} : slot'[i] = slot[i]
      /\ Len(slot'[cl[c].tx - 1].log) = Len(Log(c)) + 1
    BY <1>0, <1>1, PutEntryOK, RecordKeeps
<1>3. Len(Log(c)) \in Nat
    BY <1>0, HeldSlot
<1>4. PICK p \in {"put", "putmeta"} : Goto(c, p)
    BY DEF TPut, TPutMeta
<1>5. Moves(c, p, cl[c].pos) /\ cl[c].pos \in Nat
    BY <1>4, GotoMoves DEF IInv, ClientsOK, Client, PCs
<1>6. Standing(c)'
    <2>1. cl'[c].pc = p /\ cl'[c].tx = cl[c].tx
        BY <1>5 DEF Moves
    <2>2. Len(slot'[cl'[c].tx - 1].log) >= 1
        BY <1>2, <1>3, <2>1
    <2> QED BY <2>1, <2>2 DEF Standing, Log
<1>7. UNCHANGED <<tfree, rec>>
    BY DEF TPut, TPutMeta
<1>8. ClientsOK' /\ SlotExclusive' /\ WalksOK'
    BY <1>0, <1>2, <1>5, <1>6, <1>7, MovedClient DEF PCs
<1>9. BlocksOK' /\ ListsOK' /\ MetasOK' /\ HistoryOK'
    BY DEF TPut, TPutMeta, IInv, BlocksOK, ListsOK, MetasOK, HistoryOK, metas, history
<1> QED BY <1>2, <1>8, <1>9 DEF IInv

\* Writing the block keeps it.
LEMMA TPutWriteStep ==
    ASSUME IInv, NEW c \in Clients, TPutWrite(c)
    PROVE  IInv'
<1> DEFINE e == Log(c)[Len(Log(c))]
           b == IF e.op = "WRITE" THEN e.id1 ELSE e.id2
           new == [sum |-> IF cl[c].pc = "put" THEN "data" ELSE "meta",
                   ver |-> IF e.op = "WRITE" THEN 1 ELSE cell[Direct(e.id1)].ver + 1,
                   val |-> e.val]
<1>0. cl[c].pc \in {"put", "putmeta"}
    BY DEF TPutWrite
<1>1. Len(Log(c)) \in 1 .. Len(Log(c))
    BY <1>0, HeldSlot DEF IInv, WalksOK, Standing
<1>2. e \in Stride
    BY <1>0, <1>1, StrideAt
<1>3. Direct(b) \in Addrs /\ Direct(e.id1) \in Addrs
    BY <1>2, DirectAddr DEF Stride
<1>4. cell[Direct(e.id1)].ver \in Nat
    BY <1>3 DEF IInv, BlocksOK, Block
<1>5. new \in Block
    BY <1>2, <1>4 DEF Block, Sums, Stride
<1>6. cell' = [cell EXCEPT ![Direct(b)] = new]
    BY DEF TPutWrite
<1>7. BlocksOK'
    BY <1>3, <1>5, <1>6 DEF IInv, BlocksOK
<1>8. Moves(c, "open", cl[c].pos) /\ cl[c].pos \in Nat
    BY GotoMoves DEF TPutWrite, IInv, ClientsOK, Client, PCs
<1>9. Standing(c)'
    BY <1>8 DEF Standing, Moves
<1>10. UNCHANGED <<tfree, rec, slot>>
    BY DEF TPutWrite, lists
<1>11. ClientsOK' /\ SlotExclusive' /\ WalksOK'
    BY <1>0, <1>8, <1>9, <1>10, MovedClient DEF PCs
<1>12. ListsOK' /\ MetasOK' /\ HistoryOK' /\ SlotsOK'
    BY DEF TPutWrite, IInv, ListsOK, MetasOK, HistoryOK, SlotsOK, lists, metas, history
<1> QED BY <1>7, <1>11, <1>12 DEF IInv

\* pmb_tput in place and pmb_tdel only add to the log.
LEMMA LoggingStep ==
    ASSUME IInv, NEW c \in Clients, cl[c].pc = "open",
           NEW strides, LogOK(strides), Record(c, strides),
           UNCHANGED <<cell, lists, metas, cl, rec, history>>
    PROVE  IInv'
<1>1. /\ SlotsOK'
      /\ \A i \in Index \ {cl[c].tx - 1} : slot'[i] = slot[i]
    BY RecordKeeps
<1>2. Moves(c, "open", cl[c].pos) /\ cl[c].pos \in Nat
    BY StayMoves DEF IInv, ClientsOK, Client
<1>3. Standing(c)'
    BY <1>2 DEF Standing, Moves
<1>4. ClientsOK' /\ SlotExclusive' /\ WalksOK'
    BY <1>1, <1>2, <1>3, MovedClient DEF PCs, lists
<1>5. BlocksOK' /\ ListsOK' /\ MetasOK' /\ HistoryOK'
    BY DEF IInv, BlocksOK, ListsOK, MetasOK, HistoryOK, lists, metas, history
<1> QED BY <1>1, <1>4, <1>5 DEF IInv

\* A small update keeps it.
LEMMA TPutSmallStep ==
    ASSUME IInv, NEW c \in Clients, NEW id \in Ids, NEW v \in Vals, TPutSmall(c, id, v)
    PROVE  IInv'
<1>1. PICK payload \in Payloads : Record(c, <<Entry("UPDINPLACE", id, 0, v), payload>>)
    BY DEF TPutSmall
<1>2. Entry("UPDINPLACE", id, 0, v) \in Stride /\ payload \in Stride
    BY EntryType, PayloadType DEF Ops
<1>3. LogOK(<<Entry("UPDINPLACE", id, 0, v), payload>>)
    <2>1. Entry("UPDINPLACE", id, 0, v).id1 \in Ids
        BY DEF Entry
    <2>2. payload.op \notin {"UPDATE", "REMOVE", "UPDINPLACE"}
        BY PayloadType DEF Ops
    <2> QED BY <1>2, <2>1, <2>2, TwoStrides
<1> QED BY <1>1, <1>3, LoggingStep DEF TPutSmall, CanLog

\* pmb_tdel keeps it.
LEMMA TDelStep ==
    ASSUME IInv, NEW c \in Clients, NEW id \in Ids, TDel(c, id)
    PROVE  IInv'
<1>1. Entry("REMOVE", id, 0, None) \in Stride /\ Entry("REMOVE", id, 0, None).id1 \in Ids
    BY EntryType DEF Ops, Entry
<1>2. LogOK(<<Entry("REMOVE", id, 0, None)>>)
    BY <1>1, OneStride
<1> QED BY <1>2, LoggingStep DEF TDel, CanLog

\* A put that is refused, and an execution that is not: lists or clients only.
LEMMA TPutLateStep ==
    ASSUME IInv, NEW c \in Clients, TPutLate(c)
    PROVE  IInv'
BY DEF TPutLate, IInv, BlocksOK, ListsOK, MetasOK, ClientsOK, HistoryOK, SlotsOK,
       SlotExclusive, WalksOK, Standing, Holding, Log, Up, persistent, metas, history

\* Commit and abort set the status of the slot.
LEMMA StatusStep ==
    ASSUME IInv, NEW c \in Clients, TxCommit(c) \/ TxAbort(c)
    PROVE  IInv'
<1>0. cl[c].pc # "idle"
    BY DEF TxCommit, TxAbort
<1>1. PICK status \in {"COMMITED", "ABORTED"} : SetStatus(c, status)
    BY DEF TxCommit, TxAbort
<1>2. /\ SlotsOK'
      /\ \A i \in Index \ {cl[c].tx - 1} : slot'[i] = slot[i]
    BY <1>0, <1>1, StatusKeeps DEF Statuses
<1>3. cl[c].pos \in Nat
    BY DEF IInv, ClientsOK, Client
<1>4. Moves(c, "committed", cl[c].pos) \/ Moves(c, "abort", 1)
    BY GotoMoves, SetMoves DEF TxCommit, TxAbort, IInv, PCs
<1>5. UNCHANGED <<tfree, rec>>
    BY DEF TxCommit, TxAbort, lists
<1>6. Standing(c)'
    BY <1>4 DEF Standing, Moves
<1>7. ClientsOK' /\ SlotExclusive' /\ WalksOK'
    BY <1>0, <1>2, <1>3, <1>4, <1>5, <1>6, MovedClient DEF PCs
<1>8. BlocksOK' /\ ListsOK' /\ MetasOK' /\ HistoryOK'
    BY DEF TxCommit, TxAbort, IInv, BlocksOK, ListsOK, MetasOK, HistoryOK, lists, metas, history
<1> QED BY <1>2, <1>7, <1>8 DEF IInv

\* A client moves over its log, or starts to, and changes nothing else.
LEMMA WalkStep ==
    ASSUME IInv, NEW c \in Clients, TxExecute(c) \/ ExecSkip(c) \/ AbortSkip(c)
    PROVE  IInv'
<1>0. cl[c].pc # "idle"
    BY DEF TxExecute, ExecSkip, AbortSkip, Walking
<1>1. cl[c].pos \in Nat /\ (cl[c].pc \in {"exec", "abort"} => cl[c].pos >= 1)
    BY DEF IInv, ClientsOK, Client, WalksOK, Standing
<1>2. PICK p \in {"exec", "abort"}, q \in Nat : q >= 1 /\ Moves(c, p, q)
    <2>1. CASE TxExecute(c)
        <3>1. Moves(c, "exec", 1)
            BY <2>1, SetMoves DEF TxExecute, IInv, PCs
        <3> QED BY <3>1
    <2>2. CASE ExecSkip(c)
        <3>1. Moves(c, "exec", cl[c].pos + 1)
            BY <2>2, StepMoves DEF ExecSkip, IInv, PCs
        <3> QED BY <1>1, <3>1
    <2>3. CASE AbortSkip(c)
        <3>1. Moves(c, "abort", cl[c].pos + 1)
            BY <2>3, StepMoves DEF AbortSkip, IInv, PCs
        <3> QED BY <1>1, <3>1
    <2> QED BY <2>1, <2>2, <2>3
<1>3. Standing(c)'
    BY <1>2 DEF Standing, Moves
<1>4. UNCHANGED <<cell, slot, free, mfree, tfree, upd, clean, rec, obj, drop, keep>>
    BY DEF TxExecute, ExecSkip, AbortSkip, persistent, lists, metas, history
<1>5. ClientsOK' /\ SlotExclusive' /\ WalksOK'
    BY <1>0, <1>2, <1>3, <1>4, MovedClient DEF PCs
<1>6. BlocksOK' /\ ListsOK' /\ MetasOK' /\ HistoryOK' /\ SlotsOK'
    BY <1>4 DEF IInv, BlocksOK, ListsOK, MetasOK, HistoryOK, SlotsOK
<1> QED BY <1>5, <1>6 DEF IInv

\* A walk stands at a stride of the client's log.
LEMMA HereOK ==
    ASSUME IInv, NEW c \in Clients,
           \/ cl[c].pc \in {"exec", "abort"} /\ ~ AtEnd(c)
           \/ cl[c].pc \in {"free", "abfree"}
    PROVE  /\ cl[c].pos \in 1 .. Len(Log(c))
           /\ Here(c) \in Stride
           /\ Here(c).op \in {"UPDATE", "REMOVE", "UPDINPLACE"} => Here(c).id1 \in Ids
<1>1. cl[c].pos \in Nat /\ Len(Log(c)) \in Nat
    BY HeldSlot DEF IInv, ClientsOK, Client
<1>2. cl[c].pos \in 1 .. Len(Log(c))
    BY <1>1 DEF IInv, WalksOK, Standing, AtEnd
<1> QED BY <1>2, StrideAt DEF Here

\* A block is zeroed.
LEMMA ZeroStep ==
    ASSUME IInv, NEW c \in Clients, ExecZero(c) \/ AbortZero(c)
    PROVE  IInv'
<1>0. \/ cl[c].pc \in {"exec", "abort"} /\ ~ AtEnd(c)
      \/ cl[c].pc \in {"free", "abfree"}
    BY DEF ExecZero, AbortZero, Walking
<1>1. /\ cl[c].pos \in 1 .. Len(Log(c))
      /\ Here(c) \in Stride
    BY <1>0, HereOK
<1>2. PICK id \in Ids \cup {0} : cell' = SetZero(cell, id)
    BY <1>1 DEF ExecZero, AbortZero, NewBlock, Stride
<1>3. BlocksOK'
    BY <1>2, SetZeroType DEF IInv, BlocksOK
<1>4. PICK p \in {"free", "abfree"} : Moves(c, p, cl[c].pos)
    BY GotoMoves DEF ExecZero, AbortZero, IInv, PCs
<1>5. UNCHANGED <<slot, free, mfree, tfree, upd, clean, rec, drop, keep>>
    BY DEF ExecZero, AbortZero, lists, metas, history
<1>6. Standing(c)'
    BY <1>1, <1>4, <1>5 DEF Standing, Moves, Log
<1>7. cl[c].pos \in Nat /\ cl[c].pc # "idle"
    BY <1>0 DEF IInv, ClientsOK, Client
<1>8. ClientsOK' /\ SlotExclusive' /\ WalksOK'
    BY <1>4, <1>5, <1>6, <1>7, MovedClient DEF PCs
<1>9. HistoryOK'
    BY <1>5 DEF ExecZero, AbortZero, IInv, HistoryOK, history
<1>10. ListsOK' /\ MetasOK' /\ SlotsOK'
    BY <1>5 DEF IInv, ListsOK, MetasOK, SlotsOK
<1> QED BY <1>3, <1>8, <1>9, <1>10 DEF IInv

\* caslist_push keeps the lists well-formed.
LEMMA PushKeeps ==
    ASSUME ListsOK, NEW id \in Ids \cup {0}, Push(id), UNCHANGED tfree
    PROVE  ListsOK'
BY DAssumption, MAssumption DEF ListsOK, Push, Ids, DataIds

\* A zeroed block is pushed.
LEMMA PushStep ==
    ASSUME IInv, NEW c \in Clients, ExecFree(c) \/ AbortFree(c)
    PROVE  IInv'
<1>0. cl[c].pc \in {"free", "abfree"}
    BY DEF ExecFree, AbortFree
<1>1. Here(c) \in Stride /\ cl[c].pos \in Nat /\ cl[c].pos >= 1
    BY <1>0, HereOK DEF IInv, ClientsOK, Client
<1>2. PICK id \in Ids \cup {0} : Push(id)
    BY <1>1 DEF ExecFree, AbortFree, NewBlock, Stride
<1>3. UNCHANGED <<cell, slot, tfree, upd, clean, rec, obj, drop, keep>>
    BY DEF ExecFree, AbortFree, persistent, metas, history
<1>4. ListsOK'
    BY <1>2, <1>3, PushKeeps DEF IInv
<1>5. PICK p \in {"exec", "abort"} : Moves(c, p, cl[c].pos + 1)
    BY StepMoves DEF ExecFree, AbortFree, IInv, PCs
<1>6. Standing(c)'
    BY <1>1, <1>5 DEF Standing, Moves
<1>7. ClientsOK' /\ SlotExclusive' /\ WalksOK'
    BY <1>0, <1>1, <1>3, <1>5, <1>6, MovedClient DEF PCs
<1>8. BlocksOK' /\ MetasOK' /\ HistoryOK' /\ SlotsOK'
    BY <1>3 DEF IInv, BlocksOK, MetasOK, HistoryOK, SlotsOK
<1> QED BY <1>4, <1>7, <1>8 DEF IInv

\* An overwritten block is a block.
LEMMA PatchedType ==
    ASSUME NEW b \in Block, NEW v \in Vals \cup {None}
    PROVE  Patched(b, v) \in Block
BY DEF Patched, Block, Sums

\* The list of blocks whose metadata is to be updated keeps its type.
LEMMA MetaUpdAddType ==
    ASSUME NEW u, DOMAIN u \subseteq Ids, \A x \in DOMAIN u : u[x] \in Nat,
           NEW n, NEW id \in Ids, NEW ver \in Nat
    PROVE  /\ DOMAIN MetaUpdAdd(u, n, id, ver) \subseteq Ids
           /\ \A x \in DOMAIN MetaUpdAdd(u, n, id, ver) : MetaUpdAdd(u, n, id, ver)[x] \in Nat
BY DEF MetaUpdAdd

\* Executing a small update keeps the invariant.
LEMMA ExecPatchStep ==
    ASSUME IInv, NEW c \in Clients, ExecPatch(c)
    PROVE  IInv'
<1> DEFINE e == Here(c)
           i == cl[c].tx - 1
<1>0. cl[c].pc = "exec" /\ ~ AtEnd(c) /\ e.op = "UPDINPLACE"
    BY DEF ExecPatch, Walking
<1>1. e \in Stride /\ e.id1 \in Ids /\ cl[c].pos \in Nat /\ cl[c].pos >= 1 /\ i \in Index
    BY <1>0, HereOK, HeldSlot DEF IInv, ClientsOK, Client
<1>2. Direct(e.id1) \in Addrs /\ cell[Direct(e.id1)] \in Block /\ e.val \in Vals \cup {None}
    BY <1>1, DirectAddr DEF IInv, BlocksOK, Stride
<1>3. BlocksOK'
    <2>1. Patched(cell[Direct(e.id1)], e.val) \in Block
        BY <1>2, PatchedType
    <2> QED BY <1>2, <2>1 DEF ExecPatch, IInv, BlocksOK
<1>4. MetasOK'
    <2>1. cell[Direct(e.id1)].ver \in Nat
        BY <1>2 DEF Block
    <2> DEFINE m == MetaUpdAdd(upd[i], clean[i], e.id1, cell[Direct(e.id1)].ver)
    <2>2. DOMAIN m \subseteq Ids /\ \A x \in DOMAIN m : m[x] \in Nat
        BY <1>1, <2>1, MetaUpdAddType DEF IInv, MetasOK
    <2>3. upd' = [upd EXCEPT ![i] = m] /\ UNCHANGED clean
        BY DEF ExecPatch
    <2> HIDE DEF m
    <2> QED BY <1>1, <2>2, <2>3 DEF IInv, MetasOK
<1>5. HistoryOK'
    BY <1>1, <1>2 DEF ExecPatch, IInv, HistoryOK
<1>6. UNCHANGED <<slot, free, mfree, tfree, rec>>
    BY DEF ExecPatch, lists
<1>7. Moves(c, "exec", cl[c].pos + 2)
    BY StepMoves DEF ExecPatch, IInv, PCs
<1>8. Standing(c)'
    BY <1>1, <1>7 DEF Standing, Moves
<1>9. ClientsOK' /\ SlotExclusive' /\ WalksOK'
    BY <1>0, <1>1, <1>6, <1>7, <1>8, MovedClient DEF PCs
<1>10. ListsOK' /\ SlotsOK'
    BY <1>6 DEF IInv, ListsOK, SlotsOK
<1> QED BY <1>3, <1>4, <1>5, <1>9, <1>10 DEF IInv

\* Refreshing a header keeps it.
LEMMA ExecMetaStep ==
    ASSUME IInv, NEW c \in Clients, ExecMeta(c)
    PROVE  IInv'
<1> DEFINE i == cl[c].tx - 1
<1>0. cl[c].pc = "exec"
    BY DEF ExecMeta
<1>1. i \in Index
    BY <1>0, HeldSlot
<1>2. PICK id \in DOMAIN upd[i] :
        /\ cell' = [cell EXCEPT ![Direct(id)].sum = "data", ![Direct(id)].ver = upd[i][id]]
        /\ upd' = [upd EXCEPT ![i] = [x \in DOMAIN upd[i] \ {id} |-> upd[i][x]]]
    BY DEF ExecMeta
<1>3. id \in Ids /\ upd[i][id] \in Nat
    BY <1>1 DEF IInv, MetasOK
<1>4. BlocksOK'
    BY <1>2, <1>3, DirectAddr DEF IInv, BlocksOK, Block, Sums
<1>5. MetasOK'
    BY <1>1, <1>2 DEF ExecMeta, IInv, MetasOK
<1>6. ListsOK' /\ ClientsOK' /\ HistoryOK' /\ SlotsOK' /\ SlotExclusive' /\ WalksOK'
    BY DEF ExecMeta, IInv, ListsOK, ClientsOK, HistoryOK, SlotsOK, SlotExclusive, WalksOK,
           Standing, Holding, Log, Up, lists, history
<1> QED BY <1>4, <1>5, <1>6 DEF IInv

\* A non-empty set of numbers up to n has a greatest element.
LEMMA GreatestBelow ==
    ASSUME NEW n \in Nat, NEW T \in SUBSET (1 .. n), T # {}
    PROVE  \E x \in T : \A y \in T : y <= x
<1> DEFINE R == {n - y : y \in T}
<1>0. \A y \in T : y \in Nat /\ y <= n
    OBVIOUS
<1>1. R \in SUBSET Nat /\ R # {}
    <2>1. \A y \in T : n - y \in Nat
        BY <1>0
    <2>2. PICK y \in T : TRUE
        OBVIOUS
    <2>3. n - y \in R
        OBVIOUS
    <2> QED BY <2>1, <2>3
<1>2. PICK r \in R : \A z \in R : ~ (<<z, r>> \in OpToRel(<, Nat))
    BY <1>1, NatLessThanWellFounded, WFMin
<1>3. \A z \in R : ~ (z < r)
    BY <1>1, <1>2, Zenon DEF OpToRel
<1>4. PICK x \in T : r = n - x
    OBVIOUS
<1>5. \A y \in T : y <= x
    <2> SUFFICES ASSUME NEW y \in T PROVE y <= x
        OBVIOUS
    <2>1. ~ (n - y < n - x)
        BY <1>3, <1>4
    <2> QED BY <1>0, <2>1
<1> QED BY <1>5

\* The value a log leaves in a block that it writes is one of a put.
LEMMA FinalType ==
    ASSUME NEW log, LogOK(log), NEW id \in News(log)
    PROVE  Final(log, id) \in Vals \cup {None}
<1> DEFINE puts == {k \in DOMAIN log :
                    \/ log[k].op \in {"WRITE", "UPDINPLACE"} /\ log[k].id1 = id
                    \/ log[k].op = "UPDATE" /\ log[k].id2 = id}
<1>1. log \in Seq(Stride) /\ Len(log) \in Nat /\ DOMAIN log = 1 .. Len(log)
    BY LenProperties DEF LogOK
<1>2. puts \in SUBSET (1 .. Len(log)) /\ puts # {}
    BY <1>1 DEF News
<1>3. PICK x \in puts : \A y \in puts : y <= x
    BY <1>1, <1>2, GreatestBelow
<1>4. (CHOOSE k \in puts : \A j \in puts : j <= k) \in puts
    BY <1>3
<1>a. \A k \in puts : log[k] \in Stride
    BY <1>1
<1>5. log[CHOOSE k \in puts : \A j \in puts : j <= k] \in Stride
    BY <1>4, <1>a
<1> QED BY <1>5 DEF Final, Stride

\* The end of an execution or abort: the slot is zeroed, the client still
\* holds it.
LEMMA EndStep ==
    ASSUME IInv, NEW c \in Clients, ExecEnd(c) \/ AbortEnd(c)
    PROVE  IInv'
<1>0. cl[c].pc # "idle"
    BY DEF ExecEnd, AbortEnd
<1>1. cl[c].tx - 1 \in Index /\ LogOK(Log(c)) /\ cl[c].pos \in Nat
    BY <1>0, HeldSlot DEF IInv, ClientsOK, Client
<1>2. SlotsOK' /\ \A j \in Index \ {cl[c].tx - 1} : slot'[j] = slot[j]
    BY <1>1, EmptyKeeps, ZeroKeeps DEF ExecEnd, AbortEnd
<1>3. HistoryOK'
    BY <1>1, FinalType DEF ExecEnd, AbortEnd, IInv, HistoryOK, history
<1>4. Moves(c, "release", cl[c].pos)
    BY GotoMoves DEF ExecEnd, AbortEnd, IInv, PCs
<1>5. Standing(c)'
    BY <1>4 DEF Standing, Moves
<1>6. UNCHANGED <<cell, free, mfree, tfree, upd, clean, rec>>
    BY DEF ExecEnd, AbortEnd, lists, metas
<1>7. ClientsOK' /\ SlotExclusive' /\ WalksOK'
    BY <1>0, <1>1, <1>2, <1>4, <1>5, <1>6, MovedClient DEF PCs
<1>8. BlocksOK' /\ ListsOK' /\ MetasOK'
    BY <1>6 DEF IInv, BlocksOK, ListsOK, MetasOK
<1> QED BY <1>2, <1>3, <1>7, <1>8 DEF IInv

\* The client lets go of its slot.
LEMMA TxReleaseStep ==
    ASSUME IInv, NEW c \in Clients, TxRelease(c)
    PROVE  IInv'
<1>0. cl[c].tx \in SlotIds /\ c \in Holding
    BY HeldSlot DEF TxRelease
<1>1. /\ cl' \in [Clients -> Client] /\ cl'[c] = Idle
      /\ \A d \in Clients \ {c} : cl'[d] = cl[d]
    <2>1. Idle \in Client
        BY DEF Idle, Client, PCs
    <2> QED BY <2>1 DEF TxRelease, IInv, ClientsOK
<1>2. ClientsOK'
    BY <1>1 DEF TxRelease, IInv, ClientsOK, Up, Idle
<1>3. SlotExclusive'
    BY <1>0, <1>1 DEF TxRelease, IInv, SlotExclusive, Holding, Idle
<1>4. WalksOK'
    BY <1>1 DEF TxRelease, IInv, WalksOK, Standing, Log, Idle, persistent
<1>5. BlocksOK' /\ ListsOK' /\ MetasOK' /\ HistoryOK' /\ SlotsOK'
    BY <1>0 DEF TxRelease, IInv, BlocksOK, ListsOK, MetasOK, HistoryOK, SlotsOK,
                persistent, metas, history
<1> QED BY <1>2, <1>3, <1>4, <1>5 DEF IInv

\* pmb_resolve_conflict keeps it.
LEMMA ResolveConflictStep ==
    ASSUME IInv, NEW c \in Clients, NEW a \in Ids, NEW b \in Ids, ResolveConflict(c, a, b)
    PROVE  IInv'
<1>1. PICK loser \in Ids :
        /\ cell' = SetZero(cell, loser)
        /\ free' = free \cup {loser}
        /\ obj' = [obj EXCEPT ![loser] = None]
    BY DEF ResolveConflict
<1>2. BlocksOK'
    BY <1>1, SetZeroType DEF IInv, BlocksOK
<1>3. ListsOK' /\ MetasOK' /\ HistoryOK' /\ SlotsOK'
    BY <1>1 DEF ResolveConflict, IInv, ListsOK, MetasOK, HistoryOK, SlotsOK, metas
<1>4. ClientsOK' /\ SlotExclusive' /\ WalksOK'
    BY DEF ResolveConflict, IInv, ClientsOK, SlotExclusive, WalksOK, Standing, Holding, Log, Up
<1> QED BY <1>2, <1>3, <1>4 DEF IInv

-----------------------------------------------------------------------------
\* With all clients idle there is nothing to be said of slots and positions.
LEMMA AllIdle ==
    ASSUME \A c \in Clients : cl[c] = Idle
    PROVE  SlotExclusive /\ WalksOK
BY DEF SlotExclusive, WalksOK, Holding, Standing, Idle

\* Idle clients are clients.
LEMMA IdleType == [c \in Clients |-> Idle] \in [Clients -> Client]
BY DEF Idle, Client, PCs

\* The end of the process keeps it.
LEMMA CrashStep ==
    ASSUME IInv, Crash
    PROVE  IInv'
<1>1. ClientsOK' /\ \A c \in Clients : cl'[c] = Idle
    BY IdleType DEF Crash, ClientsOK, Idle, Up
<1>2. SlotExclusive' /\ WalksOK'
    BY <1>1, AllIdle DEF SlotExclusive, WalksOK, Holding, Standing, Idle
<1>3. ListsOK'
    BY DEF Crash, ListsOK
<1>4. MetasOK'
    <2>1. clean' \in [Index -> Nat]
        BY CleanAssumption DEF Crash
    <2>2. DOMAIN upd' = Index /\ \A i \in Index : upd'[i] = << >>
        BY DEF Crash, NoUpdates
    <2>3. DOMAIN << >> = {}
        OBVIOUS
    <2> QED BY <2>1, <2>2, <2>3 DEF MetasOK
<1>5. HistoryOK'
    <2>1. \A i \in Index : News(slot[i].log) \subseteq Ids \cup {0}
        BY NewsType DEF IInv, SlotsOK
    <2>2. drop' \subseteq Index \X (Ids \cup {0})
        BY <2>1 DEF Crash
    <2>3. keep' \subseteq Ids \cup {0}
        BY <2>1 DEF Crash
    <2>4. obj' \in [Ids -> Vals \cup {None}]
        BY DEF Crash, IInv, HistoryOK
    <2> QED BY <2>2, <2>3, <2>4 DEF HistoryOK
<1>6. BlocksOK' /\ SlotsOK'
    BY DEF Crash, IInv, BlocksOK, SlotsOK, persistent
<1> QED BY <1>1, <1>2, <1>3, <1>4, <1>5, <1>6 DEF IInv

\* A step of pmb_open: the clients are idle and stay so.
LEMMA OpenKeeps ==
    ASSUME IInv, ~ Up, UNCHANGED cl,
           rec' \in [phase : {"up", "check"}, idx : Nat, pos : Nat]
    PROVE  ClientsOK' /\ SlotExclusive' /\ WalksOK'
<1>1. \A c \in Clients : cl'[c] = Idle
    BY DEF IInv, ClientsOK
<1>2. ClientsOK'
    BY <1>1 DEF IInv, ClientsOK, Idle
<1> QED BY <1>1, <1>2 DEF SlotExclusive, WalksOK, Holding, Standing, Idle

\* Redo and undo keep the blocks well-formed.
LEMMA CheckCellType ==
    ASSUME BlocksOK, NEW s \in Slot, LogOK(s.log), NEW k \in 1 .. Len(s.log)
    PROVE  CheckCell(s, s.log[k]) \in [Addrs -> Block]
<1> DEFINE e == s.log[k]
           patch == [cell EXCEPT ![Direct(e.id1)] = Patched(@, s.log[1].val)]
<1>1. e \in Stride /\ s.log[1] \in Stride
    BY LenProperties DEF LogOK
<1>2. e.id1 \in Ids \cup {0} /\ e.id2 \in Ids \cup {0} /\ s.log[1].val \in Vals \cup {None}
    BY <1>1 DEF Stride
<1>3. SetZero(cell, e.id1) \in [Addrs -> Block] /\ SetZero(cell, e.id2) \in [Addrs -> Block]
    BY <1>2, SetZeroType
<1>4. patch \in [Addrs -> Block]
    <2>1. cell[Direct(e.id1)] \in Block
        BY <1>2, DirectAddr DEF BlocksOK
    <2>2. Patched(cell[Direct(e.id1)], s.log[1].val) \in Block
        BY <1>2, <2>1, PatchedType
    <2> QED BY <2>2 DEF BlocksOK
<1>5. CheckCell(s, e) \in {SetZero(cell, e.id1), SetZero(cell, e.id2), patch, cell}
    BY DEF CheckCell
<1> QED BY <1>3, <1>4, <1>5 DEF BlocksOK

\* tx_log_check reads slots of the log only.
LEMMA CheckedIndex == Checked \subseteq Index
BY NSlotsAssumption DEF Checked, Index

\* One stride of tx_log_check keeps the invariant.
LEMMA CheckEntryStep ==
    ASSUME IInv, CheckEntry
    PROVE  IInv'
<1> DEFINE s == slot[rec.idx]
<1>1. ~ Up /\ rec.idx \in Index
    BY CheckedIndex DEF CheckEntry, Checking, Up
<1>2. s \in Slot /\ LogOK(s.log) /\ rec.pos \in Nat /\ rec.idx \in Nat
    BY <1>1 DEF IInv, SlotsOK, ClientsOK
<1>3. rec.pos \in 1 .. Len(s.log)
    BY <1>2 DEF CheckEntry, CheckOver, LogOK
<1>4. BlocksOK'
    BY <1>2, <1>3, CheckCellType DEF CheckEntry, IInv, BlocksOK
<1>5. rec' \in [phase : {"up", "check"}, idx : Nat, pos : Nat]
    BY <1>2 DEF CheckEntry, IInv, ClientsOK
<1>6. ClientsOK' /\ SlotExclusive' /\ WalksOK'
    BY <1>1, <1>5, OpenKeeps DEF CheckEntry
<1>7. ListsOK' /\ MetasOK' /\ HistoryOK' /\ SlotsOK'
    BY DEF CheckEntry, IInv, ListsOK, MetasOK, HistoryOK, SlotsOK, lists, metas, history
<1> QED BY <1>4, <1>6, <1>7 DEF IInv

\* So does its end of a slot.
LEMMA CheckSlotStep ==
    ASSUME IInv, CheckSlotEnd \/ CheckSkip \/ CrashAgain
    PROVE  IInv'
<1>1. ~ Up
    BY DEF CheckSlotEnd, CheckSkip, CrashAgain, Checking, Up
<1>2. rec' \in [phase : {"up", "check"}, idx : Nat, pos : Nat]
    <2>0. rec \in [phase : {"up", "check"}, idx : Nat, pos : Nat] /\ rec.idx + 1 \in Nat
        BY DEF IInv, ClientsOK
    <2>1. CASE CheckSlotEnd
        BY <2>0, <2>1 DEF CheckSlotEnd
    <2>2. CASE CheckSkip
        BY <2>0, <2>2 DEF CheckSkip
    <2>3. CASE CrashAgain
        BY <2>3 DEF CrashAgain
    <2> QED BY <2>1, <2>2, <2>3
<1>3. ClientsOK' /\ SlotExclusive' /\ WalksOK'
    BY <1>1, <1>2, OpenKeeps DEF CheckSlotEnd, CheckSkip, CrashAgain
<1>4. SlotsOK'
    <2>1. CASE CheckSlotEnd
        BY <2>1, CheckedIndex, EmptyKeeps DEF CheckSlotEnd, Checking
    <2>2. CASE CheckSkip \/ CrashAgain
        BY <2>2 DEF CheckSkip, CrashAgain, IInv, SlotsOK, persistent
    <2> QED BY <2>1, <2>2
<1>5. BlocksOK' /\ ListsOK' /\ MetasOK' /\ HistoryOK'
    BY DEF CheckSlotEnd, CheckSkip, CrashAgain, IInv, BlocksOK, ListsOK, MetasOK, HistoryOK,
           persistent, lists, metas, history
<1> QED BY <1>3, <1>4, <1>5 DEF IInv

\* So does recovery.
LEMMA ScanStep ==
    ASSUME IInv, Scan
    PROVE  IInv'
<1>1. ClientsOK' /\ SlotExclusive' /\ WalksOK'
    BY OpenKeeps DEF Scan, Up
<1>2. ListsOK'
    BY DAssumption, MAssumption DEF Scan, IInv, ListsOK, DataIds, MetaIds, Ids
<1>3. HistoryOK'
    <2>1. \A id \in Ids : cell[Direct(id)].val \in Vals \cup {None}
        BY DirectAddr DEF IInv, BlocksOK, Block
    <2> QED BY <2>1 DEF Scan, IInv, HistoryOK
<1>4. BlocksOK' /\ MetasOK' /\ SlotsOK'
    BY DEF Scan, IInv, BlocksOK, MetasOK, SlotsOK, persistent, metas
<1> QED BY <1>1, <1>2, <1>3, <1>4 DEF IInv

-----------------------------------------------------------------------------
\* The invariant holds in the first state.
LEMMA InitStep == Init => IInv
<1> SUFFICES ASSUME Init PROVE IInv
    OBVIOUS
<1>1. ClientsOK /\ \A c \in Clients : cl[c] = Idle
    BY IdleType DEF Init, ClientsOK, Idle, Up
<1>2. SlotExclusive /\ WalksOK
    BY <1>1, AllIdle
<1>3. BlocksOK
    BY ZeroBlockType DEF Init, BlocksOK
<1>4. SlotsOK
    <2>1. slot \in [Index -> Slot] /\ \A i \in Index : slot[i].log = << >>
        BY EmptyLog DEF Init, EmptySlot
    <2> QED BY <2>1, EmptyLog DEF SlotsOK
<1>5. ListsOK
    BY DAssumption, MAssumption DEF Init, ListsOK, InitFree, InitMetaFree, DataIds, MetaIds, Ids
<1>6. MetasOK
    <2>1. DOMAIN << >> = {}
        OBVIOUS
    <2>2. DOMAIN upd = Index /\ \A i \in Index : upd[i] = << >>
        BY DEF Init, NoUpdates
    <2> QED BY <2>1, <2>2, CleanAssumption DEF Init, MetasOK
<1>7. HistoryOK
    BY DEF Init, HistoryOK
<1> QED BY <1>1, <1>2, <1>3, <1>4, <1>5, <1>6, <1>7 DEF IInv

\* Every operation within a transaction keeps it.
LEMMA OperationStep ==
    ASSUME IInv, NEW c \in Clients, Operation(c)
    PROVE  IInv'
<1>1. Victims(c) \subseteq Ids /\ Targets(c) \subseteq Ids
    BY DAssumption, MAssumption DEF Victims, Targets, Ids, DataIds
<1> QED BY <1>1, TPutStep, TPutSmallStep, TDelStep DEF Operation

\* Every step of the store keeps the invariant, as long as no client executes
\* a transaction that it has not committed.
LEMMA NextStep ==
    ASSUME ~ May("early"), IInv, [Next]_vars
    PROVE  IInv'
<1>1. ASSUME NEW c \in Clients, Execution(c) PROVE IInv'
    BY <1>1, WalkStep, ZeroStep, PushStep, ExecPatchStep, ExecMetaStep, EndStep
       DEF Execution, TxExecuteErr
<1>2. ASSUME NEW c \in Clients, Abortion(c) PROVE IInv'
    BY <1>2, StatusStep, ZeroStep, PushStep, WalkStep, EndStep DEF Abortion
<1>3. ASSUME NEW c \in Clients, Conflict(c) PROVE IInv'
    BY <1>3, ResolveConflictStep DEF Conflict
<1>4. ASSUME Recovery PROVE IInv'
    BY <1>4, CheckEntryStep, CheckSlotStep, ScanStep DEF Recovery
<1>5. CASE UNCHANGED vars
    BY <1>5 DEF vars, IInv, BlocksOK, ListsOK, MetasOK, ClientsOK, HistoryOK, SlotsOK,
                SlotExclusive, WalksOK, Standing, Holding, Log, Up
<1> QED
    BY <1>1, <1>2, <1>3, <1>4, <1>5, TxBeginStep, TxInitStep, OperationStep, TPutWriteStep, TPutLateStep,
       StatusStep, TxReleaseStep, CrashStep, CheckSlotStep DEF Next

\* The inductive invariant holds in every reachable state.
THEOREM StoreInvariant == ~ May("early") => (Spec => []IInv)
<1> SUFFICES ASSUME ~ May("early") PROVE Spec => []IInv
    OBVIOUS
<1>1. IInv /\ [Next]_vars => IInv'
    BY NextStep
<1> QED BY <1>1, InitStep, PTL DEF Spec

\* For every number of clients, slots and blocks, and across crashes and
\* recoveries, every action of the store finds its operands where it reads
\* them: no walk over a log leaves the log, and no list holds a number that is
\* no block or no slot.
THEOREM StoreType == ~ May("early") => (Spec => []TypeOK)
<1> SUFFICES ASSUME ~ May("early") PROVE Spec => []TypeOK
    OBVIOUS
<1>1. Spec => []IInv
    BY StoreInvariant
<1> QED BY <1>1, IInvType, PTL

\* For every number of clients and slots, and across crashes and recoveries,
\* pmb_tx_begin never delivers a slot that another transaction still uses.
THEOREM StoreSlotExclusive == ~ May("early") => (Spec => []SlotExclusive)
<1> SUFFICES ASSUME ~ May("early") PROVE Spec => []SlotExclusive
    OBVIOUS
<1>1. Spec => []IInv
    BY StoreInvariant
<1>2. IInv => SlotExclusive
    BY DEF IInv
<1> QED BY <1>1, <1>2, PTL
=============================================================================

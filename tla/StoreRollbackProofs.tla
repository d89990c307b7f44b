------------------------ MODULE StoreRollbackProofs ------------------------
(***************************************************************************)
(* What tx_log_check makes of the slots, for every number of clients,      *)
(* slots and blocks: it takes no slot for committed, and it undoes every   *)
(* transaction that was open in a slot other than the first.               *)
(***************************************************************************)
EXTENDS StoreProofs

Logging == {"begin", "open", "put", "putmeta"}

\* Status and checksum of the slots: a checksum covers the whole log, but
\* never one header more, and it is written when the log no longer grows.
Marked ==
    /\ \A i \in Index : slot[i].flch \in {0, Checksum(slot[i].log)}
    /\ \A c \in Clients : cl[c].pc \in Logging =>
        slot[cl[c].tx - 1].flch = 0 /\ slot[cl[c].tx - 1].status = "PROCESSING"

-----------------------------------------------------------------------------
\* tx_log_check verifies a checksum that no slot has.
LEMMA NeverCommitted ==
    ASSUME IInv, Marked, NEW i \in Index
    PROVE  ~ CommitSeen(slot[i])
<1>1. Len(slot[i].log) \in Nat
    BY LenProperties DEF IInv, SlotsOK, LogOK
<1>2. slot[i].flch \in {0, 1 + Len(slot[i].log)}
    BY DEF Marked, Checksum
<1> QED BY <1>1, <1>2 DEF CommitSeen, Checksum

\* Two clients that hold slots hold different ones.
LEMMA SlotsDiffer ==
    ASSUME IInv, NEW c \in Clients, cl[c].pc # "idle", NEW d \in Clients \ {c}, cl[d].pc # "idle"
    PROVE  cl[c].tx - 1 # cl[d].tx - 1 /\ cl[d].tx - 1 \in Index
<1>1. c \in Holding /\ d \in Holding /\ cl[c].tx \in SlotIds /\ cl[d].tx \in SlotIds
    BY HeldSlot
<1>2. cl[c].tx # cl[d].tx
    BY <1>1 DEF IInv, SlotExclusive
<1>3. cl[c].tx \in Nat /\ cl[d].tx \in Nat
    BY <1>1, NSlotsAssumption DEF SlotIds
<1> QED BY <1>2, <1>3, HeldSlot

\* A step of one client that leaves its slot marked keeps all marked.
LEMMA MarkedMove ==
    ASSUME IInv, Marked, NEW c \in Clients, cl[c].pc # "idle",
           NEW p \in PCs, NEW q, Moves(c, p, q),
           \A i \in Index \ {cl[c].tx - 1} : slot'[i] = slot[i],
           slot'[cl[c].tx - 1].flch \in {0, Checksum(slot'[cl[c].tx - 1].log)},
           p \in Logging => /\ slot'[cl[c].tx - 1].flch = 0
                            /\ slot'[cl[c].tx - 1].status = "PROCESSING"
    PROVE  Marked'
<1>1. \A i \in Index : slot'[i].flch \in {0, Checksum(slot'[i].log)}
    BY DEF Marked
<1>2. ASSUME NEW d \in Clients, cl'[d].pc \in Logging
      PROVE  slot'[cl'[d].tx - 1].flch = 0 /\ slot'[cl'[d].tx - 1].status = "PROCESSING"
    <2>1. CASE d = c
        BY <1>2, <2>1 DEF Moves
    <2>2. CASE d # c
        <3>1. cl'[d] = cl[d] /\ cl[d].pc \in Logging
            BY <1>2, <2>2 DEF Moves
        <3>2. cl[d].tx - 1 \in Index \ {cl[c].tx - 1}
            BY <2>2, <3>1, SlotsDiffer DEF Logging
        <3> QED BY <3>1, <3>2 DEF Marked
    <2> QED BY <2>1, <2>2
<1> QED BY <1>1, <1>2, Zenon DEF Marked

\* A step that leaves the slots alone and moves no client into its log.
LEMMA MarkedStay ==
    ASSUME IInv, Marked, UNCHANGED slot,
           \A c \in Clients : cl'[c].pc \in Logging =>
                cl[c].pc \in Logging /\ cl'[c].tx = cl[c].tx
    PROVE  Marked'
BY DEF Marked

\* Strides are added to a log that has no checksum yet.
LEMMA MarkedRecord ==
    ASSUME IInv, Marked, NEW c \in Clients, cl[c].pc = "open", NEW p \in Logging,
           NEW strides, Record(c, strides), Moves(c, p, cl[c].pos)
    PROVE  Marked'
<1> DEFINE i == cl[c].tx - 1
<1>1. i \in Index /\ slot \in [Index -> Slot] /\ slot[i] \in Slot
    BY HeldSlot DEF IInv, SlotsOK
<1>2. slot[i].flch = 0 /\ slot[i].status = "PROCESSING"
    BY DEF Marked, Logging
<1>3. slot' = [slot EXCEPT ![i] = [slot[i] EXCEPT !.log = @ \o strides]]
    BY DEF Record
<1>4. slot'[i].flch = 0 /\ slot'[i].status = "PROCESSING"
    BY <1>1, <1>2, <1>3 DEF Slot
<1>5. \A j \in Index \ {i} : slot'[j] = slot[j]
    BY <1>1, <1>3
<1>6. p \in PCs
    BY DEF Logging, PCs
<1> HIDE DEF i
<1> QED BY <1>4, <1>5, <1>6, MarkedMove DEF i

\* Commit and abort write the checksum of the log.
LEMMA MarkedStatus ==
    ASSUME IInv, Marked, NEW c \in Clients, cl[c].pc \in {"open", "committed"},
           NEW status \in {"COMMITED", "ABORTED"}, SetStatus(c, status),
           NEW p \in PCs \ Logging, NEW q, Moves(c, p, q)
    PROVE  Marked'
<1> DEFINE i == cl[c].tx - 1
           s == [slot[i] EXCEPT !.status = status, !.flch = Checksum(Log(c))]
<1>1. i \in Index /\ slot \in [Index -> Slot] /\ slot[i] \in Slot
    BY HeldSlot DEF IInv, SlotsOK
<1>2. slot' = [slot EXCEPT ![i] = s]
    BY <1>1 DEF SetStatus, Slot
<1>3. s.status = status /\ s.flch = Checksum(Log(c)) /\ s.log = Log(c)
    BY <1>1 DEF Slot, Log
<1>4. slot'[i] = s /\ \A j \in Index \ {i} : slot'[j] = slot[j]
    BY <1>1, <1>2
<1> HIDE DEF i, s
<1> QED BY <1>3, <1>4, MarkedMove DEF i

\* A zeroed slot has no checksum.
LEMMA MarkedEmpty ==
    ASSUME IInv, Marked, NEW c \in Clients, cl[c].pc # "idle",
           NEW s \in {EmptySlot, ZeroSlot(slot[cl[c].tx - 1])},
           slot' = [slot EXCEPT ![cl[c].tx - 1] = s],
           NEW p \in PCs \ Logging, NEW q, Moves(c, p, q)
    PROVE  Marked'
<1> DEFINE i == cl[c].tx - 1
<1>1. i \in Index /\ slot \in [Index -> Slot] /\ slot[i] \in Slot
    BY HeldSlot DEF IInv, SlotsOK
<1>2. slot'[i] = s /\ \A j \in Index \ {i} : slot'[j] = slot[j]
    BY <1>1
<1>3. s.flch = 0
    <2>1. EmptySlot.flch = 0
        BY DEF EmptySlot
    <2>2. ZeroSlot(slot[i]).flch = 0
        BY <1>1 DEF ZeroSlot, Slot
    <2> QED BY <2>1, <2>2
<1> HIDE DEF i
<1> QED BY <1>2, <1>3, MarkedMove DEF i

-----------------------------------------------------------------------------
\* The first state is marked.
LEMMA MarkedInit == Init => Marked
BY DEF Init, Marked, EmptySlot, Idle, Logging

\* pmb_tx_begin resets status and checksum first.
LEMMA MarkedBegin ==
    ASSUME IInv, Marked, NEW c \in Clients, TxBegin(c)
    PROVE  Marked'
<1>1. PICK s \in tfree :
        /\ slot' = [slot EXCEPT ![s - 1].status = "PROCESSING", ![s - 1].flch = 0]
        /\ cl' = [cl EXCEPT ![c] = [pc |-> "begin", tx |-> s, pos |-> 0]]
    BY DEF TxBegin
<1>2. s \in SlotIds /\ s - 1 \in Index
    BY NSlotsAssumption DEF IInv, ListsOK, SlotIds, Index
<1>3. /\ slot'[s - 1].status = "PROCESSING" /\ slot'[s - 1].flch = 0
      /\ \A i \in Index \ {s - 1} : slot'[i] = slot[i]
    BY <1>1, <1>2 DEF IInv, SlotsOK, Slot
<1>4. /\ cl'[c] = [pc |-> "begin", tx |-> s, pos |-> 0]
      /\ \A d \in Clients \ {c} : cl'[d] = cl[d]
    BY <1>1 DEF IInv, ClientsOK
<1>5. ASSUME NEW d \in Clients \ {c}, cl[d].pc \in Logging PROVE cl[d].tx - 1 \in Index \ {s - 1}
    <2>1. d \in Holding /\ cl[d].tx \in SlotIds /\ cl[d].tx - 1 \in Index
        BY <1>5, HeldSlot DEF Logging
    <2>2. cl[d].tx # s
        BY <2>1 DEF IInv, SlotExclusive
    <2> QED BY <1>2, <2>1, <2>2, NSlotsAssumption DEF SlotIds
<1>6. \A i \in Index : slot'[i].flch \in {0, Checksum(slot'[i].log)}
    BY <1>3 DEF Marked
<1>7. \A d \in Clients : cl'[d].pc \in Logging =>
        slot'[cl'[d].tx - 1].flch = 0 /\ slot'[cl'[d].tx - 1].status = "PROCESSING"
    BY <1>3, <1>4, <1>5 DEF Marked
<1> QED BY <1>6, <1>7, Zenon DEF Marked

\* The size follows: the log it cuts off had no checksum any more.
LEMMA MarkedTxInit ==
    ASSUME IInv, Marked, NEW c \in Clients, TxInit(c)
    PROVE  Marked'
<1> DEFINE i == cl[c].tx - 1
<1>0. cl[c].pc = "begin"
    BY DEF TxInit
<1>1. i \in Index /\ slot \in [Index -> Slot] /\ slot[i] \in Slot
    BY <1>0, HeldSlot DEF IInv, SlotsOK
<1>2. slot[i].flch = 0 /\ slot[i].status = "PROCESSING"
    BY <1>0 DEF Marked, Logging
<1>3. /\ slot'[i].flch = 0 /\ slot'[i].status = "PROCESSING"
      /\ \A j \in Index \ {i} : slot'[j] = slot[j]
    BY <1>1, <1>2 DEF TxInit, Slot
<1>4. Moves(c, "open", cl[c].pos)
    BY GotoMoves DEF TxInit, IInv, PCs
<1> HIDE DEF i
<1> QED BY <1>0, <1>3, <1>4, MarkedMove DEF i, PCs

\* Every operation of a transaction.
LEMMA MarkedOperation ==
    ASSUME IInv, Marked, NEW c \in Clients, Operation(c)
    PROVE  Marked'
<1>0. cl[c].pc = "open"
    BY DEF Operation
<1>1. PICK strides : Record(c, strides)
    <2>1. CASE \E old, v : TPut(c, old, v) \/ TPutMeta(c, old, v)
        BY <2>1 DEF TPut, TPutMeta
    <2>2. CASE \E id, v : TPutSmall(c, id, v)
        BY <2>2 DEF TPutSmall
    <2>3. CASE \E id : TDel(c, id)
        BY <2>3 DEF TDel
    <2> QED BY <2>1, <2>2, <2>3, Zenon DEF Operation
<1>2. Goto(c, "put") \/ Goto(c, "putmeta") \/ UNCHANGED cl
    BY DEF Operation, TPut, TPutMeta, TPutSmall, TDel
<1>3. PICK p \in Logging : Moves(c, p, cl[c].pos)
    BY <1>0, <1>2, GotoMoves, StayMoves DEF IInv, PCs, Logging
<1> QED BY <1>0, <1>1, <1>3, MarkedRecord

\* Steps of a client that leave every slot alone.
LEMMA MarkedQuiet ==
    ASSUME IInv, Marked, NEW c \in Clients,
           \/ TPutWrite(c) \/ TPutLate(c) \/ TxExecute(c) \/ ExecZero(c) \/ ExecFree(c)
           \/ ExecSkip(c) \/ ExecPatch(c) \/ ExecMeta(c) \/ TxRelease(c) \/ AbortZero(c)
           \/ AbortFree(c) \/ AbortSkip(c) \/ Conflict(c)
    PROVE  Marked'
<1>1. UNCHANGED slot
    BY DEF TPutWrite, TPutLate, TxExecute, ExecZero, ExecFree, ExecSkip, ExecPatch, ExecMeta,
           TxRelease, AbortZero, AbortFree, AbortSkip, Conflict, ResolveConflict, persistent
<1>2. \/ UNCHANGED cl
      \/ cl[c].pc \in {"put", "putmeta"} /\ \E q : Moves(c, "open", q)
      \/ \E p \in PCs \ Logging : \E q : Moves(c, p, q)
      \/ cl' = [cl EXCEPT ![c] = Idle]
    <2> USE DEF IInv, PCs, Logging
    <2>1. CASE TPutWrite(c)
        <3>1. Moves(c, "open", cl[c].pos)
            BY <2>1, GotoMoves DEF TPutWrite
        <3> QED BY <2>1, <3>1 DEF TPutWrite
    <2>2. CASE TPutLate(c) \/ ExecMeta(c) \/ Conflict(c)
        BY <2>2 DEF TPutLate, ExecMeta, Conflict, ResolveConflict
    <2>3. CASE TxExecute(c)
        <3>1. Moves(c, "exec", 1)
            BY <2>3, SetMoves DEF TxExecute
        <3> QED BY <3>1
    <2>4. CASE ExecZero(c)
        <3>1. Moves(c, "free", cl[c].pos)
            BY <2>4, GotoMoves DEF ExecZero
        <3> QED BY <3>1
    <2>5. CASE AbortZero(c)
        <3>1. Moves(c, "abfree", cl[c].pos)
            BY <2>5, GotoMoves DEF AbortZero
        <3> QED BY <3>1
    <2>6. CASE ExecFree(c) \/ ExecSkip(c)
        <3>1. Moves(c, "exec", cl[c].pos + 1)
            BY <2>6, StepMoves DEF ExecFree, ExecSkip
        <3> QED BY <3>1
    <2>7. CASE ExecPatch(c)
        <3>1. Moves(c, "exec", cl[c].pos + 2)
            BY <2>7, StepMoves DEF ExecPatch
        <3> QED BY <3>1
    <2>8. CASE AbortFree(c) \/ AbortSkip(c)
        <3>1. Moves(c, "abort", cl[c].pos + 1)
            BY <2>8, StepMoves DEF AbortFree, AbortSkip
        <3> QED BY <3>1
    <2>9. CASE TxRelease(c)
        BY <2>9 DEF TxRelease
    <2> QED BY <2>1, <2>2, <2>3, <2>4, <2>5, <2>6, <2>7, <2>8, <2>9
<1>3. \A d \in Clients : cl'[d].pc \in Logging => cl[d].pc \in Logging /\ cl'[d].tx = cl[d].tx
    <2>1. CASE UNCHANGED cl
        BY <2>1
    <2>2. CASE cl[c].pc \in {"put", "putmeta"} /\ \E q : Moves(c, "open", q)
        BY <2>2 DEF Moves, Logging
    <2>3. CASE \E p \in PCs \ Logging : \E q : Moves(c, p, q)
        BY <2>3 DEF Moves
    <2>4. CASE cl' = [cl EXCEPT ![c] = Idle]
        <3>1. cl'[c] = Idle /\ \A d \in Clients \ {c} : cl'[d] = cl[d]
            BY <2>4 DEF IInv, ClientsOK
        <3> QED BY <3>1 DEF Idle, Logging
    <2> QED BY <1>2, <2>1, <2>2, <2>3, <2>4
<1> QED BY <1>1, <1>3, MarkedStay

\* Commit, abort and the ends of the walks.
LEMMA MarkedTurn ==
    ASSUME IInv, Marked, NEW c \in Clients,
           TxCommit(c) \/ TxAbort(c) \/ ExecEnd(c) \/ AbortEnd(c)
    PROVE  Marked'
<1> USE DEF IInv, PCs, Logging
<1>1. CASE TxCommit(c)
    <2>1. Moves(c, "committed", cl[c].pos)
        BY <1>1, GotoMoves DEF TxCommit
    <2> QED BY <1>1, <2>1, MarkedStatus DEF TxCommit
<1>2. CASE TxAbort(c)
    <2>1. Moves(c, "abort", 1)
        BY <1>2, SetMoves DEF TxAbort
    <2> QED BY <1>2, <2>1, MarkedStatus DEF TxAbort
<1>3. CASE ExecEnd(c) \/ AbortEnd(c)
    <2>1. Moves(c, "release", cl[c].pos)
        BY <1>3, GotoMoves DEF ExecEnd, AbortEnd
    <2>2. cl[c].pc # "idle"
        BY <1>3 DEF ExecEnd, AbortEnd
    <2>3. PICK s \in {EmptySlot, ZeroSlot(slot[cl[c].tx - 1])} :
            slot' = [slot EXCEPT ![cl[c].tx - 1] = s]
        BY <1>3 DEF ExecEnd, AbortEnd
    <2> QED BY <2>1, <2>2, <2>3, MarkedEmpty
<1> QED BY <1>1, <1>2, <1>3

\* The end of the process and pmb_open.
LEMMA MarkedOpen ==
    ASSUME IInv, Marked, Crash \/ CrashAgain \/ Recovery
    PROVE  Marked'
<1>1. CASE CheckSlotEnd
    <2>1. rec.idx \in Index /\ slot' = [slot EXCEPT ![rec.idx] = EmptySlot] /\ UNCHANGED cl
        BY <1>1, CheckedIndex DEF CheckSlotEnd, Checking
    <2>2. \A c \in Clients : cl'[c] = Idle
        BY <1>1 DEF CheckSlotEnd, Checking, Up, IInv, ClientsOK
    <2>3. \A i \in Index : slot'[i] = IF i = rec.idx THEN EmptySlot ELSE slot[i]
        BY <2>1 DEF IInv, SlotsOK
    <2> QED BY <2>2, <2>3 DEF Marked, EmptySlot, Idle, Logging
<1>2. CASE ~ CheckSlotEnd
    <2>1. UNCHANGED slot
        BY <1>2 DEF Crash, CrashAgain, Recovery, CheckEntry, CheckSkip, Scan, persistent
    <2>2. \A c \in Clients : cl'[c] = Idle \/ cl'[c] = cl[c]
        BY <1>2 DEF Crash, CrashAgain, Recovery, CheckEntry, CheckSkip, Scan
    <2> QED BY <2>1, <2>2 DEF Marked, Idle, Logging
<1> QED BY <1>1, <1>2

\* Every step keeps the slots marked.
LEMMA MarkedStep ==
    ASSUME ~ May("early"), IInv, Marked, [Next]_vars
    PROVE  Marked'
<1>1. CASE UNCHANGED vars
    BY <1>1 DEF vars, Marked
<1>2. ASSUME NEW c \in Clients, Execution(c) \/ Abortion(c) PROVE Marked'
    BY <1>2, MarkedQuiet, MarkedTurn DEF Execution, Abortion, TxExecuteErr
<1> QED BY <1>1, <1>2, MarkedBegin, MarkedTxInit, MarkedOperation, MarkedQuiet, MarkedTurn, MarkedOpen DEF Next

-----------------------------------------------------------------------------
(* The rollback. *)

\* Does this entry write block id afresh?
NewAt(e, id) ==
    \/ e.op = "WRITE" /\ e.id1 = id
    \/ e.op = "UPDATE" /\ e.id2 = id

\* No payload reads as the end of a log.
NoBlanks == \A i \in Index : \A k \in DOMAIN slot[i].log : slot[i].log[k].op # "BLANK"

\* A block of an unfinished transaction is no object any more, or the walk of
\* tx_log_check has yet to come to the entry that wrote it.
ToBeUndone(p) ==
    /\ p[1] >= rec.idx
    /\ slot[p[1]].status # "EMPTY"
    /\ \E k \in DOMAIN slot[p[1]].log :
        NewAt(slot[p[1]].log[k], p[2]) /\ (p[1] = rec.idx => k >= rec.pos)

Undoing ==
    /\ Up => drop = {}
    /\ ~ Up => /\ rec.idx >= 1 /\ rec.pos >= 1
               /\ rec.pos = 1 \/ slot[rec.idx].status # "EMPTY"
    /\ \A p \in drop : p[1] # 0 => ~ Valid(cell, p[2]) \/ ToBeUndone(p)

RollInv == IInv /\ Marked /\ Undoing

\* A block written afresh is one of News, by the entry that names it.
LEMMA NewsAt ==
    ASSUME NEW log, NEW id
    PROVE  id \in News(log) <=> \E k \in DOMAIN log : NewAt(log[k], id)
BY DEF News, NewAt

\* What is no object does not become one when a block is zeroed.
LEMMA ZeroedStays ==
    ASSUME BlocksOK, NEW x \in Ids \cup {0}, NEW id, ~ Valid(cell, id) \/ id = x
    PROVE  ~ Valid(SetZero(cell, x), id)
<1>1. SetZero(cell, x)[Direct(x)].sum = "zero"
    BY DirectAddr DEF SetZero, BlocksOK, ZeroBlock
<1>2. \A a \in Addrs : SetZero(cell, x)[a] = cell[a] \/ SetZero(cell, x)[a].sum = "zero"
    BY DirectAddr DEF SetZero, BlocksOK, ZeroBlock
<1>3. \A j \in Ids : Direct(j) \in Addrs
    BY DirectAddr
<1> QED BY <1>1, <1>2, <1>3 DEF Valid, Exists

-----------------------------------------------------------------------------
\* Without payloads of zero bytes no log has a stride that reads as its end.
LEMMA BlankFree ==
    ASSUME ~ May("blank"), IInv
    PROVE  NoBlanks
<1> SUFFICES ASSUME NEW i \in Index, NEW k \in DOMAIN slot[i].log
             PROVE  slot[i].log[k].op # "BLANK"
    BY DEF NoBlanks
<1>1. slot[i].log[k] \in Stride
    BY DEF IInv, SlotsOK, LogOK
<1> QED BY <1>1 DEF Stride, Ops, PayloadOps

-----------------------------------------------------------------------------
\* Steps of the clients: there is nothing to undo while the store is up.
LEMMA UndoingUp ==
    ASSUME RollInv, Up, Next, ~ Crash
    PROVE  Undoing'
<1>1. UNCHANGED <<rec, drop>>
    <2>1. ASSUME NEW c \in Clients, Operation(c) PROVE UNCHANGED <<rec, drop>>
        BY <2>1 DEF Operation, TPut, TPutMeta, TPutSmall, TDel, history
    <2>2. ASSUME NEW c \in Clients, Execution(c) PROVE UNCHANGED <<rec, drop>>
        BY <2>2 DEF Execution, TxExecute, TxExecuteErr, ExecZero, ExecFree, ExecSkip, ExecPatch,
                    ExecMeta, ExecEnd, history
    <2>3. ASSUME NEW c \in Clients, Abortion(c) PROVE UNCHANGED <<rec, drop>>
        BY <2>3 DEF Abortion, TxAbort, AbortZero, AbortFree, AbortSkip, AbortEnd, history
    <2>4. ASSUME NEW c \in Clients,
                 \/ TxBegin(c) \/ TxInit(c) \/ TPutWrite(c) \/ TPutLate(c) \/ TxCommit(c)
                 \/ TxRelease(c) \/ Conflict(c)
          PROVE  UNCHANGED <<rec, drop>>
        BY <2>4 DEF TxBegin, TxInit, TPutWrite, TPutLate, TxCommit, TxRelease, Conflict, ResolveConflict,
                    history
    <2>5. ~ CrashAgain /\ ~ Recovery
        BY DEF Up, CrashAgain, Recovery, CheckEntry, CheckSlotEnd, CheckSkip, Scan, Checking
    <2> QED BY <2>1, <2>2, <2>3, <2>4, <2>5 DEF Next
<1> QED BY <1>1 DEF RollInv, Undoing, Up

\* The end of the process leaves the whole walk ahead.
LEMMA UndoingCrash ==
    ASSUME RollInv, Crash
    PROVE  Undoing'
<1>1. rec' = [phase |-> "check", idx |-> 1, pos |-> 1] /\ UNCHANGED <<cell, slot>>
    BY DEF Crash, persistent
<1>2. rec'.idx = 1 /\ rec'.pos = 1 /\ ~ Up'
    BY <1>1 DEF Up
<1>3. ASSUME NEW p \in drop', p[1] # 0 PROVE ToBeUndone(p)'
    <2>1. PICK i \in Index : Unfinished(i) /\ p \in {i} \X News(slot[i].log)
        BY <1>3 DEF Crash
    <2>2. p[1] = i /\ p[2] \in News(slot[i].log) /\ slot[i].status # "EMPTY"
        BY <2>1 DEF Unfinished
    <2>3. PICK k \in DOMAIN slot[i].log : NewAt(slot[i].log[k], p[2])
        BY <2>2, NewsAt
    <2>4. DOMAIN slot[i].log = 1 .. Len(slot[i].log) /\ Len(slot[i].log) \in Nat
        BY LenProperties DEF RollInv, IInv, SlotsOK, LogOK
    <2>5. k >= 1 /\ i >= 1
        BY <1>3, <2>2, <2>4, NSlotsAssumption DEF Index
    <2> QED BY <1>1, <1>2, <2>2, <2>3, <2>5 DEF ToBeUndone
<1> QED BY <1>2, <1>3 DEF Undoing

\* So does a crash of pmb_open.
LEMMA UndoingCrashAgain ==
    ASSUME RollInv, CrashAgain
    PROVE  Undoing'
<1>1. rec'.idx = 1 /\ rec'.pos = 1 /\ ~ Up' /\ ~ Up /\ UNCHANGED <<cell, slot, drop>>
    BY DEF CrashAgain, Up, persistent, history
<1>2. ASSUME NEW p \in drop, ToBeUndone(p), p[1] # 0 PROVE ToBeUndone(p)'
    <2>1. p[1] \in Index /\ p[1] >= 1
        BY <1>2, NSlotsAssumption DEF RollInv, IInv, HistoryOK, Index
    <2>2. PICK k \in DOMAIN slot[p[1]].log : NewAt(slot[p[1]].log[k], p[2])
        BY <1>2 DEF ToBeUndone
    <2>3. DOMAIN slot[p[1]].log = 1 .. Len(slot[p[1]].log) /\ Len(slot[p[1]].log) \in Nat
        BY <2>1, LenProperties DEF RollInv, IInv, SlotsOK, LogOK
    <2>4. k >= 1
        BY <2>3
    <2> QED BY <1>1, <1>2, <2>1, <2>2, <2>4 DEF ToBeUndone
<1> QED BY <1>1, <1>2 DEF RollInv, Undoing

\* The strides that an undo zeroes a block for.
Undone == {"WRITE", "UPDATE", "ALIKE"}

\* One stride of tx_log_check undoes the entry that it reads.
LEMMA UndoneByCheck ==
    ASSUME IInv, Marked, CheckEntry
    PROVE  LET e == slot[rec.idx].log[rec.pos]
           IN  /\ e \in Stride
               /\ rec.pos \in DOMAIN slot[rec.idx].log
               /\ \/ e.op \in Undone /\ cell' = SetZero(cell, NewBlock(e))
                  \/ e.op \notin Undone /\ cell' = cell
<1> DEFINE s == slot[rec.idx]
           e == s.log[rec.pos]
<1>1. rec.idx \in Index
    BY CheckedIndex DEF CheckEntry, Checking
<1>2. rec.pos \in DOMAIN s.log
    BY DEF CheckEntry, CheckOver
<1>3. e \in Stride
    BY <1>1, <1>2 DEF IInv, SlotsOK, LogOK
<1>4. ~ CommitSeen(s)
    BY <1>1, NeverCommitted
<1>5. cell' = CheckCell(s, e)
    BY DEF CheckEntry
<1>6. CheckCell(s, e) = CASE e.op \in {"WRITE", "ALIKE"} -> SetZero(cell, e.id1)
                          [] e.op = "UPDATE" -> SetZero(cell, e.id2)
                          [] OTHER -> cell
    BY <1>4 DEF CheckCell
<1> HIDE DEF e, s
<1>7. \/ e.op \in Undone /\ cell' = SetZero(cell, NewBlock(e))
      \/ e.op \notin Undone /\ cell' = cell
    BY <1>5, <1>6 DEF NewBlock, Undone
<1> QED BY <1>2, <1>3, <1>7 DEF e, s

\* One stride of tx_log_check: its own block is undone, the others remain.
LEMMA UndoingCheckEntry ==
    ASSUME RollInv, CheckEntry
    PROVE  Undoing'
<1> DEFINE e == slot[rec.idx].log[rec.pos]
<1>0. IInv /\ Marked /\ BlocksOK /\ ~ Up /\ rec \in [phase : {"up", "check"}, idx : Nat, pos : Nat]
    BY DEF RollInv, IInv, CheckEntry, Checking, Up, ClientsOK
<1>1. /\ e \in Stride
      /\ \/ e.op \in Undone /\ cell' = SetZero(cell, NewBlock(e))
         \/ e.op \notin Undone /\ cell' = cell
    BY <1>0, UndoneByCheck
<1>2. rec' = [rec EXCEPT !.pos = @ + 1] /\ UNCHANGED <<slot, drop>>
    BY DEF CheckEntry, history
<1>3. rec'.idx = rec.idx /\ rec'.pos = rec.pos + 1 /\ rec'.phase = rec.phase
    BY <1>0, <1>2
<1>4. ~ Up' /\ rec'.idx >= 1 /\ rec'.pos >= 1
    BY <1>0, <1>3 DEF Up, RollInv, Undoing
<1>a. slot'[rec'.idx].status # "EMPTY"
    BY <1>2, <1>3 DEF CheckEntry
<1>5. NewBlock(e) \in Ids \cup {0}
    BY <1>1 DEF NewBlock, Stride
<1>6. ASSUME NEW p \in drop, p[1] # 0 PROVE ~ Valid(cell', p[2]) \/ ToBeUndone(p)'
    <2>1. CASE ~ Valid(cell, p[2])
        BY <1>0, <1>1, <1>5, <2>1, ZeroedStays
    <2>2. CASE ToBeUndone(p)
        <3>1. p[1] \in Index
            BY DEF RollInv, IInv, HistoryOK
        <3>2. PICK k \in DOMAIN slot[p[1]].log :
                NewAt(slot[p[1]].log[k], p[2]) /\ (p[1] = rec.idx => k >= rec.pos)
            BY <2>2 DEF ToBeUndone
        <3>3. k \in Nat
            BY <3>1, LenProperties DEF RollInv, IInv, SlotsOK, LogOK
        <3>4. CASE p[1] = rec.idx /\ k = rec.pos
            <4>1. NewAt(e, p[2])
                BY <3>2, <3>4
            <4>2. e.op \in Undone /\ p[2] = NewBlock(e)
                BY <4>1 DEF NewAt, NewBlock, Undone
            <4> QED BY <1>0, <1>1, <1>5, <4>2, ZeroedStays
        <3>5. CASE p[1] # rec.idx \/ k # rec.pos
            <4>1. p[1] = rec.idx => k >= rec.pos + 1
                BY <1>0, <3>2, <3>3, <3>5
            <4> QED BY <1>2, <1>3, <2>2, <3>2, <4>1 DEF ToBeUndone
        <3> QED BY <3>4, <3>5
    <2> QED BY <1>6, <2>1, <2>2 DEF RollInv, Undoing
<1>7. \A p \in drop' : p[1] # 0 => ~ Valid(cell', p[2]) \/ ToBeUndone(p)'
    BY <1>2, <1>6
<1> QED BY <1>4, <1>a, <1>7 DEF Undoing

\* The walk over a slot ends when nothing of it is left to undo.
LEMMA UndoingCheckSlot ==
    ASSUME ~ May("blank"), RollInv, CheckSlotEnd \/ CheckSkip
    PROVE  Undoing'
<1>0. /\ ~ Up /\ rec.idx \in Index
      /\ rec \in [phase : {"up", "check"}, idx : Nat, pos : Nat] /\ rec.idx >= 1 /\ rec.pos >= 1
    BY CheckedIndex DEF RollInv, IInv, CheckSlotEnd, CheckSkip, Checking, Up, ClientsOK, Undoing
<1>1. \/ slot[rec.idx].status = "EMPTY"
      \/ \A k \in DOMAIN slot[rec.idx].log : ~ (k >= rec.pos)
    <2> DEFINE log == slot[rec.idx].log
    <2>1. CASE CheckSkip
        BY <2>1 DEF CheckSkip
    <2>2. CASE CheckSlotEnd
        <3>1. log \in Seq(Stride) /\ DOMAIN log = 1 .. Len(log) /\ Len(log) \in Nat
            BY <1>0, LenProperties DEF RollInv, IInv, SlotsOK, LogOK
        <3>2. rec.pos \notin DOMAIN log
            BY <1>0, <2>2, BlankFree DEF CheckSlotEnd, CheckOver, RollInv, NoBlanks
        <3> QED BY <1>0, <3>1, <3>2
    <2> QED BY <2>1, <2>2
<1>2. rec'.idx = rec.idx + 1 /\ rec'.phase = rec.phase /\ rec'.pos = 1
    <2>1. CASE CheckSlotEnd
        BY <1>0, <2>1 DEF CheckSlotEnd
    <2>2. CASE CheckSkip
        <3>1. rec.pos = 1
            BY <1>0, <2>2 DEF CheckSkip, RollInv, Undoing
        <3> QED BY <1>0, <2>2, <3>1 DEF CheckSkip
    <2> QED BY <2>1, <2>2
<1>3. UNCHANGED <<cell, drop>> /\ \A i \in Index \ {rec.idx} : slot'[i] = slot[i]
    BY <1>0 DEF CheckSlotEnd, CheckSkip, history, persistent, RollInv, IInv, SlotsOK
<1>4. ~ Up' /\ rec'.idx >= 1 /\ rec'.pos >= 1
    BY <1>0, <1>2 DEF Up
<1>6. ASSUME NEW p \in drop, p[1] # 0, ToBeUndone(p) PROVE ToBeUndone(p)'
    <2>1. p[1] \in Index /\ p[1] >= rec.idx
        BY <1>6 DEF RollInv, IInv, HistoryOK, ToBeUndone
    <2>2. PICK k \in DOMAIN slot[p[1]].log :
            NewAt(slot[p[1]].log[k], p[2]) /\ (p[1] = rec.idx => k >= rec.pos)
        BY <1>6 DEF ToBeUndone
    <2>3. p[1] # rec.idx
        BY <1>1, <1>6, <2>2 DEF ToBeUndone
    <2>4. p[1] >= rec.idx + 1 /\ slot'[p[1]] = slot[p[1]]
        BY <1>0, <1>3, <2>1, <2>3, NSlotsAssumption DEF Index
    <2>5. k \in Nat /\ k >= 1
        BY <2>1, LenProperties DEF RollInv, IInv, SlotsOK, LogOK
    <2> QED BY <1>2, <1>0, <1>6, <2>2, <2>4, <2>5 DEF ToBeUndone
<1> QED BY <1>0, <1>2, <1>3, <1>4, <1>6 DEF RollInv, Undoing

\* The scan finds every slot but the first walked.
LEMMA ScanUndone ==
    ASSUME RollInv, Scan, NEW p \in drop, p[1] # 0
    PROVE  ~ Valid(cell, p[2])
<1>1. ~ Up /\ rec.idx \in Nat /\ rec.idx >= 1 /\ rec.idx \notin Checked
    BY DEF RollInv, IInv, Scan, Up, ClientsOK, Undoing
<1>2. rec.idx >= NSlots
    BY <1>1, NSlotsAssumption DEF Checked
<1>3. p[1] \in Index
    BY DEF RollInv, IInv, HistoryOK
<1>4. ~ ToBeUndone(p)
    BY <1>1, <1>2, <1>3, NSlotsAssumption DEF ToBeUndone, Index
<1> QED BY <1>4 DEF RollInv, Undoing

\* Recovery and the scan leave nothing to undo.
LEMMA UndoingScan ==
    ASSUME RollInv, Scan
    PROVE  Undoing'
BY DEF Scan, Undoing, Up

-----------------------------------------------------------------------------
\* The first state has nothing to undo.
LEMMA RollInit == Init => RollInv
<1> SUFFICES ASSUME Init PROVE RollInv
    OBVIOUS
<1>1. Undoing
    BY DEF Init, Undoing, Up
<1> QED BY <1>1, InitStep, MarkedInit DEF RollInv

\* Every step keeps the invariant of the rollback.
LEMMA RollStep ==
    ASSUME ~ May("early"), ~ May("blank"), RollInv, [Next]_vars
    PROVE  RollInv'
<1>1. IInv' /\ Marked'
    BY NextStep, MarkedStep DEF RollInv
<1>2. ASSUME UNCHANGED vars PROVE Undoing'
    BY <1>2 DEF vars, RollInv, Undoing, ToBeUndone, Up
<1>3. ASSUME Next PROVE Undoing'
    <2>1. CASE Up /\ ~ Crash
        BY <1>3, <2>1, UndoingUp
    <2>2. CASE ~ Up
        <3>1. CrashAgain \/ Recovery
            <4>1. \A c \in Clients : cl[c].pc = "idle"
                BY <2>2 DEF RollInv, IInv, ClientsOK, Idle
            <4>2. ASSUME NEW c \in Clients PROVE ~ Operation(c) /\ ~ Execution(c) /\ ~ Abortion(c)
                BY <4>1 DEF Operation, Execution, TxExecute, TxExecuteErr, ExecZero, ExecFree,
                    ExecSkip, ExecPatch, ExecMeta, ExecEnd, Abortion, TxAbort, AbortZero, AbortFree,
                    AbortSkip, AbortEnd, Walking
            <4>3. ASSUME NEW c \in Clients
                  PROVE  /\ ~ TxBegin(c) /\ ~ TxInit(c) /\ ~ TPutWrite(c) /\ ~ TPutLate(c) /\ ~ TxCommit(c)
                         /\ ~ TxRelease(c) /\ ~ Conflict(c)
                BY <2>2, <4>1 DEF TxBegin, TxInit, TPutWrite, TPutLate, TxCommit, TxRelease, Conflict,
                    ResolveConflict
            <4>4. ~ Crash
                BY <2>2 DEF Crash
            <4> QED BY <1>3, <4>2, <4>3, <4>4 DEF Next
        <3> QED BY <3>1, UndoingCrashAgain, UndoingCheckEntry, UndoingCheckSlot, UndoingScan
                DEF Recovery
    <2> QED BY <2>1, <2>2, UndoingCrash
<1> QED BY <1>1, <1>2, <1>3 DEF RollInv

\* The invariant of the rollback holds in every reachable state.
THEOREM StoreRollInvariant == ~ May("early") /\ ~ May("blank") => (Spec => []RollInv)
<1> SUFFICES ASSUME ~ May("early"), ~ May("blank") PROVE Spec => []RollInv
    OBVIOUS
<1>1. RollInv /\ [Next]_vars => RollInv'
    BY RollStep
<1> QED BY <1>1, RollInit, PTL DEF Spec

\* For every number of clients, slots and blocks, however often the process
\* ends during a transaction or during pmb_open itself: when the blocks are
\* scanned, no block that an unfinished transaction wrote is an object,
\* unless the transaction used the first slot.
THEOREM StoreRolledBack == ~ May("early") /\ ~ May("blank") => (Spec => RolledBack)
<1> SUFFICES ASSUME ~ May("early"), ~ May("blank") PROVE Spec => RolledBack
    OBVIOUS
<1>1. Spec => []RollInv
    BY StoreRollInvariant
<1>2. RollInv => (Scan => \A p \in drop : p[1] # 0 => ~ Valid(cell, p[2]))
    BY ScanUndone
<1> QED BY <1>1, <1>2, PTL DEF RolledBack
=============================================================================

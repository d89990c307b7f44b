------------------------------- MODULE Store -------------------------------
(***************************************************************************)
(* The transactional object store: src/src/pmbackend.c and src/src/tx_log.c *)
(* on top of Blocks.                                                       *)
(*                                                                         *)
(* Clients are application threads, each with at most one transaction.     *)
(* They share the blocks, which no lock protects, and the caslists, whose  *)
(* operations are atomic (CasList, FreeSet).  An API call is split where   *)
(* another thread, or the end of the process, can come between two of its  *)
(* effects on shared or persistent state.                                  *)
(*                                                                         *)
(* The pool is a mapped file: when the process ends, by pmb_close or by a  *)
(* crash, every store it made survives and every list is gone.  The next   *)
(* pmb_open runs tx_log_check and recovery.                                *)
(*                                                                         *)
(* The log of a slot is a sequence of strides of sizeof(tx_entry) bytes.   *)
(* An entry is one stride, and so is the payload that follows an           *)
(* UPDINPLACE entry.                                                       *)
(***************************************************************************)
EXTENDS Blocks, Sequences, FiniteSets

CONSTANTS
    Clients,    \* application threads
    NSlots,     \* write_log_entries
    Workload,   \* what the clients do beyond the basic use of the API
    Fresh,      \* is the store created by this pmb_open, or an older one?
    Clean,      \* how many entries of a new metadata list may read as zero
    MaxLog,     \* bound: strides in a transaction's log
    MaxVer      \* bound: version of an object that is still updated

ASSUME NSlotsAssumption == NSlots \in Nat /\ NSlots >= 1
ASSUME CleanAssumption == Clean \subseteq Nat /\ Clean # {}
ASSUME MaxAssumption == MaxLog \in Nat /\ MaxVer \in Nat
ASSUME FreshAssumption == Fresh \in BOOLEAN

\* "meta":  objects of the meta region        "small": updates in place
\* "abort": transactions are aborted          "crash": the process ends
\* "late":  puts after the commit             "early": execute before commit
\* "absent": operations on ids that are no objects
\* "own": a transaction updates or removes an object it has put itself
\* "again": a transaction names an object again after it took it away, or
\*          takes away one that it updates in place
\* "brim":  the last data block is used too   "blank": payloads of zero bytes
\* "resolve": conflicts are resolved          "cross": meta ids given to calls
\*                                                     for the data region
\* "alike": payloads whose bytes read as an entry
\* "torn":  the process may end inside tx_slot_init
ASSUME WorkloadAssumption ==
    Workload \subseteq {"meta", "small", "abort", "crash", "late", "early",
                        "absent", "own", "again", "brim", "blank", "resolve",
                        "cross", "alike", "torn"}

VARIABLES
    cell,       \* the blocks of the pool
    slot,       \* the slots of the transaction log, by index
    free,       \* free_list
    mfree,      \* meta_free_list
    tfree,      \* op_log.tx_slots_list: slot numbers, one above the index
    upd,        \* op_log.upd_id_list, by index: new version of each block listed
    clean,      \* how many entries of each list the allocator left zero
    cl,         \* what each client is doing
    rec,        \* how far pmb_open got
    obj,        \* history: the value of every object that has been executed
    drop,       \* history: <<index, block>> of what an unfinished tx wrote
    keep        \* history: blocks that a committed transaction wrote

persistent == <<cell, slot>>
lists == <<free, mfree, tfree>>
metas == <<upd, clean>>
history == <<obj, drop, keep>>
vars == <<cell, slot, free, mfree, tfree, upd, clean, cl, rec, obj, drop, keep>>

May(feature) == feature \in Workload

SlotIds == 1 .. NSlots
Index == 0 .. NSlots - 1

-----------------------------------------------------------------------------
(* The transaction log. *)

Ops == {"WRITE", "UPDATE", "UPDINPLACE", "REMOVE"}

\* What a payload is to a walk that knows no payloads: an entry of no known
\* type (TEXT); when its bytes are zero, a WRITE of block 0 (BLANK); or the
\* entry its bytes happen to spell (ALIKE), a WRITE of id1.  An UPDATE that
\* puts id1 in its second field is no different to an abort or an undo, and
\* the other types are ignored by both.
PayloadOps == {"TEXT"} \cup (IF May("blank") THEN {"BLANK"} ELSE {})
                       \cup (IF May("alike") THEN {"ALIKE"} ELSE {})

\* A stride: an entry, or the payload of the entry before it.  The field val
\* is the value of the put; the log itself holds it only for UPDINPLACE.
Stride == [op : Ops \cup PayloadOps, id1 : Ids \cup {0},
           id2 : Ids \cup {0}, val : Vals \cup {None}]

Entry(op, id1, id2, val) == [op |-> op, id1 |-> id1, id2 |-> id2, val |-> val]

Statuses == {"EMPTY", "PROCESSING", "COMMITED", "ABORTED"}

\* flch is the number of strides, header included, that the slot's checksum
\* was computed over; 0 stands for a zero checksum.  The log is what lies
\* below the slot's size, whatever the status is.
Slot == [status : Statuses, flch : Nat, log : Seq(Stride)]

\* A slot that has never been used, or that tx_slot_abort or tx_log_check left:
\* the size is 0 as well.
EmptySlot == [status |-> "EMPTY", flch |-> 0, log |-> << >>]

\* backend_tx_set_zero: checksum and status only; size and entries stay.
ZeroSlot(s) == [s EXCEPT !.status = "EMPTY", !.flch = 0]

\* The blocks a log writes afresh, those it takes away, and those it patches.
News(log) == {log[k].id1 : k \in {j \in DOMAIN log : log[j].op = "WRITE"}}
                \cup {log[k].id2 : k \in {j \in DOMAIN log : log[j].op = "UPDATE"}}
Olds(log) == {log[k].id1 : k \in {j \in DOMAIN log : log[j].op \in {"UPDATE", "REMOVE"}}}
Smalls(log) == {log[k].id1 : k \in {j \in DOMAIN log : log[j].op = "UPDINPLACE"}}
Named(log) == News(log) \cup Olds(log) \cup Smalls(log)

\* The value that executing the log leaves in a block it does not take away.
Final(log, id) ==
    LET puts == {k \in DOMAIN log :
                    \/ log[k].op \in {"WRITE", "UPDINPLACE"} /\ log[k].id1 = id
                    \/ log[k].op = "UPDATE" /\ log[k].id2 = id}
    IN  log[CHOOSE k \in puts : \A j \in puts : j <= k].val

-----------------------------------------------------------------------------
(* Clients. *)

\* idle; begin: slot taken, its size not yet set; open: begun; put, putmeta:
\* block logged and not yet written; committed; exec: walking the log; free:
\* block zeroed and not yet pushed; abort, abfree: the same in pmb_tx_abort;
\* release: slot zeroed and not yet pushed.
PCs == {"idle", "begin", "open", "put", "putmeta", "committed", "exec", "free",
        "abort", "abfree", "release"}

Client == [pc : PCs, tx : SlotIds \cup {0}, pos : Nat]

Idle == [pc |-> "idle", tx |-> 0, pos |-> 0]

\* The log of a client's transaction.  What a slot holds before tx_slot_init
\* is through, and after it was zeroed, is an older transaction's.
Log(c) == IF cl[c].pc \in {"begin", "release"} THEN << >>
          ELSE slot[cl[c].tx - 1].log
Here(c) == Log(c)[cl[c].pos]
AtEnd(c) == cl[c].pos > Len(Log(c))
Goto(c, pc) == cl' = [cl EXCEPT ![c].pc = pc]
Step(c, pc, n) == cl' = [cl EXCEPT ![c].pc = pc, ![c].pos = @ + n]
Holding == {c \in Clients : cl[c].tx # 0}

Up == rec.phase = "up"

\* Objects that an execution in progress has patched and not checksummed yet.
InFlux(id) == \E i \in Index : id \in DOMAIN upd[i]

\* The objects a client may name in its transaction: executed ones that no
\* other open transaction names, and the ones it put itself, as long as it
\* has not removed or replaced them.
Targets(c) ==
    {id \in IF May("meta") THEN Ids ELSE DataIds :
        /\ \/ obj[id] # None \/ May("absent")
           \/ id \in News(Log(c)) /\ May("own")
        /\ \A d \in Holding \ {c} : id \notin Named(Log(d))
        /\ id \notin Olds(Log(c)) \/ May("again")}

\* The ones it may replace or remove: not those it has patched.
Victims(c) == {id \in Targets(c) : id \notin Smalls(Log(c)) \/ May("again")}

-----------------------------------------------------------------------------
(* Beginning a transaction and adding operations to it. *)

\* pmb_tx_begin: the lowest free slot; PMB_ERR when there is none.  tx_slot_init
\* stores checksum and status ...
TxBegin(c) ==
    /\ Up /\ cl[c].pc = "idle"
    /\ \E s \in tfree :
        /\ \A t \in tfree : s <= t
        /\ tfree' = tfree \ {s}
        /\ slot' = [slot EXCEPT ![s - 1].status = "PROCESSING", ![s - 1].flch = 0]
        /\ cl' = [cl EXCEPT ![c] = [pc |-> "begin", tx |-> s, pos |-> 0]]
    /\ UNCHANGED <<cell, free, mfree, metas, rec, history>>

\* A fault: tx_slot_init leaves the size of the slot alone.
TxInitKeepsLog(c) ==
    /\ cl[c].pc = "begin"
    /\ Goto(c, "open")
    /\ UNCHANGED <<persistent, lists, metas, rec, history>>

\* ... and then the size.
TxInit(c) ==
    /\ cl[c].pc = "begin"
    /\ slot' = [slot EXCEPT ![cl[c].tx - 1].log = << >>]
    /\ Goto(c, "open")
    /\ UNCHANGED <<cell, lists, metas, rec, history>>

\* tx_slot_op_*: one more entry, and its payload, in the client's slot.
Record(c, strides) ==
    slot' = [slot EXCEPT ![cl[c].tx - 1].log = @ \o strides]

CanLog(c, n) == Up /\ cl[c].pc = "open" /\ Len(Log(c)) + n <= MaxLog

\* The entry of a put of v that replaces old, or nothing if old is 0, in b.
PutEntry(old, b, v) ==
    IF old = 0 THEN Entry("WRITE", b, 0, v) ELSE Entry("UPDATE", old, b, v)

\* Both puts look the old object up (PMB_ENOENT if it is none).
OldFound(old) == old # 0 => Exists(cell, old) /\ cell[Direct(old)].ver < MaxVer

\* pmb_tput up to tx_slot_op_write or tx_slot_op_update; PMB_ENOSPC if the
\* free list is empty.
TPut(c, old, v) ==
    /\ CanLog(c, 1)
    /\ OldFound(old)
    /\ \E b \in free :
        /\ \A x \in free : b <= x
        /\ b # D - 1 \/ May("brim") \/ ~ May("meta")
        /\ free' = free \ {b}
        /\ Record(c, <<PutEntry(old, b, v)>>)
    /\ Goto(c, "put")
    /\ UNCHANGED <<cell, mfree, tfree, metas, rec, history>>

\* pmb_tput_meta up to the same point; it refuses an old object of the data
\* region (PMB_EWRGID).
TPutMeta(c, old, v) ==
    /\ CanLog(c, 1)
    /\ old \notin DataIds
    /\ OldFound(old)
    /\ \E b \in mfree :
        /\ \A x \in mfree : b <= x
        /\ mfree' = mfree \ {b}
        /\ Record(c, <<PutEntry(old, b, v)>>)
    /\ Goto(c, "putmeta")
    /\ UNCHANGED <<cell, free, tfree, metas, rec, history>>

\* The rest of both: header, key, value and checksum of the new block.  The
\* version is one above that of the old object.
TPutWrite(c) ==
    /\ cl[c].pc \in {"put", "putmeta"}
    /\ LET e == Log(c)[Len(Log(c))]
           b == IF e.op = "WRITE" THEN e.id1 ELSE e.id2
       IN  cell' = [cell EXCEPT ![Direct(b)] =
                        [sum |-> IF cl[c].pc = "put" THEN "data" ELSE "meta",
                         ver |-> IF e.op = "WRITE" THEN 1
                                 ELSE cell[Direct(e.id1)].ver + 1,
                         val |-> e.val]]
    /\ Goto(c, "open")
    /\ UNCHANGED <<slot, lists, metas, rec, history>>

\* The bytes of a payload are the caller's.
Payloads == {Entry(op, 0, 0, None) : op \in PayloadOps \ {"ALIKE"}}
                \cup {Entry(op, x, 0, None) : op \in PayloadOps \cap {"ALIKE"}, x \in Ids}

\* pmb_tput of a value shorter than half a block: the log keeps the value and
\* the block is left alone.  There is no check that the object exists.
TPutSmall(c, id, v) ==
    /\ CanLog(c, 2)
    /\ cell[Direct(id)].ver < MaxVer
    /\ \E payload \in Payloads :
        Record(c, <<Entry("UPDINPLACE", id, 0, v), payload>>)
    /\ UNCHANGED <<cell, lists, metas, cl, rec, history>>

\* pmb_tdel
TDel(c, id) ==
    /\ CanLog(c, 1)
    /\ Record(c, <<Entry("REMOVE", id, 0, None)>>)
    /\ UNCHANGED <<cell, lists, metas, cl, rec, history>>

\* pmb_tput in a slot that is not PROCESSING: tx_slot_op_write refuses, after
\* the block was popped.  (pmb_tput_meta pushes its block back: no effect.)
TPutLate(c) ==
    /\ Up /\ May("late") /\ cl[c].pc = "committed"
    /\ \E b \in free : (\A x \in free : b <= x) /\ free' = free \ {b}
    /\ UNCHANGED <<persistent, mfree, tfree, metas, cl, rec, history>>

-----------------------------------------------------------------------------
(* Commit, execution and abort. *)

\* tx_slot_checksum: over slot->size bytes, header and log.
Checksum(log) == 1 + Len(log)

SetStatus(c, status) ==
    slot' = [slot EXCEPT ![cl[c].tx - 1].status = status,
                         ![cl[c].tx - 1].flch = Checksum(Log(c))]

\* pmb_tx_commit
TxCommit(c) ==
    /\ Up /\ cl[c].pc = "open"
    /\ SetStatus(c, "COMMITED")
    /\ Goto(c, "committed")
    /\ UNCHANGED <<cell, lists, metas, rec, history>>

\* pmb_tx_execute of a transaction that is not committed: PMB_ERR, but the
\* slot is pushed.
TxExecuteErr(c) ==
    /\ Up /\ May("early") /\ cl[c].pc = "open"
    /\ tfree' = tfree \cup {cl[c].tx}
    /\ UNCHANGED <<persistent, free, mfree, metas, cl, rec, history>>

\* pmb_tx_execute of a committed one starts its walk over the log.
TxExecute(c) ==
    /\ Up /\ cl[c].pc = "committed"
    /\ cl' = [cl EXCEPT ![c].pc = "exec", ![c].pos = 1]
    /\ UNCHANGED <<persistent, lists, metas, rec, history>>

Walking(c) == cl[c].pc = "exec" /\ ~ AtEnd(c)

\* UPDATE or REMOVE of an object that exists: zero it ...
ExecZero(c) ==
    /\ Walking(c)
    /\ Here(c).op \in {"UPDATE", "REMOVE"}
    /\ Exists(cell, Here(c).id1)
    /\ cell' = SetZero(cell, Here(c).id1)
    /\ obj' = [obj EXCEPT ![Here(c).id1] = None]
    /\ Goto(c, "free")
    /\ UNCHANGED <<slot, lists, metas, rec, drop, keep>>

\* Faults: caslist_push takes 0 too; the first meta block is taken for a data
\* block.
PushTakesZero(id) ==
    /\ free' = IF id < D THEN free \cup {id} ELSE free
    /\ mfree' = IF id >= D THEN mfree \cup {id} ELSE mfree

PushBorder(id) ==
    /\ free' = IF id \in 1 .. D THEN free \cup {id} ELSE free
    /\ mfree' = IF id > D THEN mfree \cup {id} ELSE mfree

\* caslist_push to the list of the block's region
Push(id) ==
    /\ free' = IF id \in DataIds THEN free \cup {id} ELSE free
    /\ mfree' = IF id >= D THEN mfree \cup {id} ELSE mfree

\* A fault: the new block of an UPDATE is pushed.
ExecFreeNew(c) ==
    /\ cl[c].pc = "free"
    /\ Push(IF Here(c).op = "UPDATE" THEN Here(c).id2 ELSE Here(c).id1)
    /\ Step(c, "exec", 1)
    /\ UNCHANGED <<persistent, tfree, metas, rec, history>>

\* ... and then push it.
ExecFree(c) ==
    /\ cl[c].pc = "free"
    /\ Push(Here(c).id1)
    /\ Step(c, "exec", 1)
    /\ UNCHANGED <<persistent, tfree, metas, rec, history>>

\* WRITE, or UPDATE or REMOVE of what is no object: nothing to do.
ExecSkip(c) ==
    /\ Walking(c)
    /\ Here(c).op # "UPDINPLACE"
    /\ Here(c).op \in {"UPDATE", "REMOVE"} => ~ Exists(cell, Here(c).id1)
    /\ Step(c, "exec", 1)
    /\ UNCHANGED <<persistent, lists, metas, rec, history>>

\* A block whose value was overwritten under its checksum
Patched(b, v) ==
    [b EXCEPT !.val = v, !.sum = IF b.sum = "zero" \/ b.val = v THEN @ ELSE "bad"]

\* tx_slot_meta_upd_add: the list u gets one more version of block id.  A
\* new entry is only made where the uninitialized list reads as zero.
MetaUpdAdd(u, n, id, ver) ==
    IF id \in DOMAIN u THEN [u EXCEPT ![id] = @ + 1]
    ELSE IF Cardinality(DOMAIN u) < n
    THEN [x \in DOMAIN u \cup {id} |-> IF x = id THEN ver + 1 ELSE u[x]]
    ELSE u

\* UPDINPLACE: tx_update_block, and on to the entry after the payload
ExecPatch(c) ==
    /\ Walking(c)
    /\ Here(c).op = "UPDINPLACE"
    /\ LET e == Here(c)
           i == cl[c].tx - 1
       IN  /\ cell' = [cell EXCEPT ![Direct(e.id1)] = Patched(@, e.val)]
           /\ upd' = [upd EXCEPT ![i] =
                        MetaUpdAdd(@, clean[i], e.id1, cell[Direct(e.id1)].ver)]
           /\ obj' = [obj EXCEPT ![e.id1] = IF @ = None THEN None ELSE e.val]
    /\ Step(c, "exec", 2)
    /\ UNCHANGED <<slot, lists, clean, rec, drop, keep>>

\* tx_slot_meta_upd_process, one block: version and checksum, the latter
\* always in the layout of the data region
ExecMeta(c) ==
    /\ cl[c].pc = "exec" /\ AtEnd(c)
    /\ LET i == cl[c].tx - 1
       IN  \E id \in DOMAIN upd[i] :
            /\ cell' = [cell EXCEPT ![Direct(id)].sum = "data",
                                    ![Direct(id)].ver = upd[i][id]]
            /\ upd' = [upd EXCEPT ![i] = [x \in DOMAIN @ \ {id} |-> @[x]]]
    /\ UNCHANGED <<slot, lists, clean, cl, rec, history>>

\* A fault: the slot is pushed as soon as it is zeroed, and again at the end.
ExecEndPushesSlot(c) ==
    /\ cl[c].pc = "exec" /\ AtEnd(c)
    /\ DOMAIN upd[cl[c].tx - 1] = {}
    /\ obj' = [id \in Ids |-> IF id \in News(Log(c)) \ Olds(Log(c))
                              THEN Final(Log(c), id) ELSE obj[id]]
    /\ slot' = [slot EXCEPT ![cl[c].tx - 1] = ZeroSlot(@)]
    /\ tfree' = tfree \cup {cl[c].tx}
    /\ Goto(c, "release")
    /\ UNCHANGED <<cell, free, mfree, metas, rec, drop, keep>>

\* backend_tx_set_zero: the transaction is over.
ExecEnd(c) ==
    /\ cl[c].pc = "exec" /\ AtEnd(c)
    /\ DOMAIN upd[cl[c].tx - 1] = {}
    /\ obj' = [id \in Ids |-> IF id \in News(Log(c)) \ Olds(Log(c))
                              THEN Final(Log(c), id) ELSE obj[id]]
    /\ slot' = [slot EXCEPT ![cl[c].tx - 1] = ZeroSlot(@)]
    /\ Goto(c, "release")
    /\ UNCHANGED <<cell, lists, metas, rec, drop, keep>>

\* tx_log_free_slot
TxRelease(c) ==
    /\ cl[c].pc = "release"
    /\ tfree' = tfree \cup {cl[c].tx}
    /\ cl' = [cl EXCEPT ![c] = Idle]
    /\ UNCHANGED <<persistent, free, mfree, metas, rec, history>>

\* pmb_tx_abort of an open or committed transaction starts its walk.
TxAbort(c) ==
    /\ Up /\ May("abort") /\ cl[c].pc \in {"open", "committed"}
    /\ SetStatus(c, "ABORTED")
    /\ cl' = [cl EXCEPT ![c].pc = "abort", ![c].pos = 1]
    /\ UNCHANGED <<cell, lists, metas, rec, history>>

\* A fault: the old block of an UPDATE is taken for the new one.
NewBlockIsOld(e) == e.id1

\* The new block of a stride, as a walk that knows no payloads reads it.
NewBlock(e) == IF e.op = "UPDATE" THEN e.id2 ELSE e.id1
MakesNew(e) == e.op \in {"WRITE", "UPDATE", "BLANK", "ALIKE"}

\* A fault: only the blocks of WRITE entries are zeroed.
AbortZeroWrites(c) ==
    /\ cl[c].pc = "abort" /\ ~ AtEnd(c)
    /\ MakesNew(Here(c))
    /\ cell' = IF Here(c).op = "UPDATE" THEN cell ELSE SetZero(cell, Here(c).id1)
    /\ Goto(c, "abfree")
    /\ UNCHANGED <<slot, lists, metas, rec, history>>

\* tx_slot_abort zeroes the new block of a WRITE or UPDATE ...
AbortZero(c) ==
    /\ cl[c].pc = "abort" /\ ~ AtEnd(c)
    /\ MakesNew(Here(c))
    /\ cell' = SetZero(cell, NewBlock(Here(c)))
    /\ Goto(c, "abfree")
    /\ UNCHANGED <<slot, lists, metas, rec, history>>

\* ... and then pushes it.
AbortFree(c) ==
    /\ cl[c].pc = "abfree"
    /\ Push(NewBlock(Here(c)))
    /\ Step(c, "abort", 1)
    /\ UNCHANGED <<persistent, tfree, metas, rec, history>>

\* Other strides are passed over.
AbortSkip(c) ==
    /\ cl[c].pc = "abort" /\ ~ AtEnd(c)
    /\ ~ MakesNew(Here(c))
    /\ Step(c, "abort", 1)
    /\ UNCHANGED <<persistent, lists, metas, rec, history>>

\* EMPTY, size 0 and backend_tx_set_zero
AbortEnd(c) ==
    /\ cl[c].pc = "abort" /\ AtEnd(c)
    /\ slot' = [slot EXCEPT ![cl[c].tx - 1] = EmptySlot]
    /\ Goto(c, "release")
    /\ UNCHANGED <<cell, lists, metas, rec, history>>

-----------------------------------------------------------------------------
\* Faults: the object that is kept is pushed; the other one is not zeroed.
ResolvePushesWinner(c, a, b) ==
    /\ Up /\ May("resolve") /\ cl[c].pc = "idle"
    /\ Exists(cell, a) /\ Exists(cell, b)
    /\ LET first == cell[Direct(a)].ver > cell[Direct(b)].ver
           loser == IF first THEN a ELSE b
       IN  /\ cell' = SetZero(cell, loser)
           /\ free' = free \cup {IF first THEN b ELSE a}
           /\ obj' = [obj EXCEPT ![loser] = None]
    /\ UNCHANGED <<slot, mfree, tfree, metas, cl, rec, drop, keep>>

ResolveLeavesData(c, a, b) ==
    /\ Up /\ May("resolve") /\ cl[c].pc = "idle"
    /\ Exists(cell, a) /\ Exists(cell, b)
    /\ LET loser == IF cell[Direct(a)].ver > cell[Direct(b)].ver THEN a ELSE b
       IN  /\ free' = free \cup {loser}
           /\ obj' = [obj EXCEPT ![loser] = None]
    /\ UNCHANGED <<persistent, mfree, tfree, metas, cl, rec, drop, keep>>

\* pmb_resolve_conflict of two objects: the one with the higher version is
\* zeroed and pushed to the data free list, whatever its region.
ResolveConflict(c, a, b) ==
    /\ Up /\ May("resolve") /\ cl[c].pc = "idle"
    /\ Exists(cell, a) /\ Exists(cell, b)
    /\ LET loser == IF cell[Direct(a)].ver > cell[Direct(b)].ver THEN a ELSE b
       IN  /\ cell' = SetZero(cell, loser)
           /\ free' = free \cup {loser}
           /\ obj' = [obj EXCEPT ![loser] = None]
    /\ UNCHANGED <<slot, mfree, tfree, metas, cl, rec, drop, keep>>

-----------------------------------------------------------------------------
(* The end of the process and the next pmb_open. *)

NoUpdates == [i \in Index |-> << >>]

\* A slot inside tx_slot_init still holds the log of an older transaction.
Beginning(i) == \E c \in Clients : cl[c].pc = "begin" /\ cl[c].tx = i + 1
Unfinished(i) == slot[i].status \in {"PROCESSING", "ABORTED"} /\ ~ Beginning(i)

\* pmb_close, or a crash, at any moment, and pmb_open up to tx_log_init.
Crash ==
    /\ Up /\ May("crash")
    /\ May("torn") \/ \A i \in Index : ~ Beginning(i)
    /\ rec' = [phase |-> "check", idx |-> 1, pos |-> 1]
    /\ cl' = [c \in Clients |-> Idle]
    /\ free' = {} /\ mfree' = {} /\ tfree' = SlotIds
    /\ upd' = NoUpdates
    /\ clean' \in [Index -> Clean]
    /\ obj' = [id \in Ids |-> IF InFlux(id) THEN None ELSE obj[id]]
    /\ drop' = UNION {{i} \X News(slot[i].log) : i \in {j \in Index : Unfinished(j)}}
    /\ keep' = UNION {News(slot[i].log) \ Olds(slot[i].log) :
                        i \in {j \in Index : slot[j].status = "COMMITED"}}
    /\ UNCHANGED persistent

\* A crash of pmb_open itself.
CrashAgain ==
    /\ ~ Up
    /\ rec # [phase |-> "check", idx |-> 1, pos |-> 1]
    /\ rec' = [phase |-> "check", idx |-> 1, pos |-> 1]
    /\ UNCHANGED <<persistent, lists, metas, cl, history>>

\* tx_log_check reads slots 1 .. tx_slots_count by index: backend_tx_direct
\* finds no slot at the last of these, and index 0 is not among them.
Checked == {i \in 1 .. NSlots : i < NSlots}

\* Is the slot committed?  The checksum is verified over one header more
\* than it was computed over.
CommitSeen(s) == s.flch = 1 + Checksum(s.log) /\ s.status = "COMMITED"

\* Faults: the undo of an UPDATE zeroes the old block; a WRITE is not undone.
CheckCellUndoesOld(s, e) ==
    IF e.op \in {"WRITE", "UPDATE"} THEN SetZero(cell, e.id1) ELSE cell

CheckCellKeepsWrite(s, e) ==
    IF e.op = "UPDATE" THEN SetZero(cell, e.id2) ELSE cell

\* What one stride does to the blocks: redo if committed, undo if not.  The
\* redo of UPDINPLACE takes its payload from the second stride of the log.
CheckCell(s, e) ==
    LET commit == CommitSeen(s)
    IN  CASE e.op \in {"WRITE", "ALIKE"} /\ ~ commit -> SetZero(cell, e.id1)
          [] e.op \in {"REMOVE", "UPDATE"} /\ commit -> SetZero(cell, e.id1)
          [] e.op = "UPDATE" /\ ~ commit -> SetZero(cell, e.id2)
          [] e.op = "UPDINPLACE" /\ commit ->
                [cell EXCEPT ![Direct(e.id1)] = Patched(@, s.log[1].val)]
          [] OTHER -> cell

Checking == rec.phase = "check" /\ rec.idx \in Checked

\* The walk over a slot ends with its log or at a stride with no block ids.
CheckOver(s) == rec.pos \notin {k \in DOMAIN s.log : s.log[k].op # "BLANK"}

CheckEntry ==
    /\ Checking
    /\ LET s == slot[rec.idx]
       IN  /\ s.status # "EMPTY" /\ ~ CheckOver(s)
           /\ cell' = CheckCell(s, s.log[rec.pos])
    /\ rec' = [rec EXCEPT !.pos = @ + 1]
    /\ UNCHANGED <<slot, lists, metas, cl, history>>

CheckSlotEnd ==
    /\ Checking
    /\ slot[rec.idx].status # "EMPTY" /\ CheckOver(slot[rec.idx])
    /\ slot' = [slot EXCEPT ![rec.idx] = EmptySlot]
    /\ rec' = [rec EXCEPT !.idx = @ + 1, !.pos = 1]
    /\ UNCHANGED <<cell, lists, metas, cl, history>>

CheckSkip ==
    /\ Checking
    /\ slot[rec.idx].status = "EMPTY"
    /\ rec' = [rec EXCEPT !.idx = @ + 1]
    /\ UNCHANGED <<persistent, lists, metas, cl, history>>

\* What recovery_thread does not find to be an object.  Faults: everything;
\* only what has a zero checksum.
LeftoverAll(id) == TRUE
LeftoverZero(id) == ~ Exists(cell, id)
Leftover(id) == ~ Valid(cell, id)

\* recovery: every block number goes to the free list of its region unless
\* its checksum verifies.
Scan ==
    /\ rec.phase = "check" /\ rec.idx \notin Checked
    /\ rec' = [phase |-> "up", idx |-> 0, pos |-> 0]
    /\ free' = {id \in DataIds : Leftover(id)}
    /\ mfree' = {id \in MetaIds : Leftover(id)}
    /\ obj' = [id \in Ids |-> IF obj[id] = None /\ Valid(cell, id)
                              THEN cell[Direct(id)].val ELSE obj[id]]
    /\ drop' = {} /\ keep' = {}
    /\ UNCHANGED <<persistent, tfree, metas, cl>>

-----------------------------------------------------------------------------
\* populate_free_list after caslist_new(1, D) and caslist_new(1, M), the free
\* lists of a store that was just created; otherwise those of an empty store
\* that is opened again.
InitFree == IF Fresh THEN 1 .. D ELSE DataIds
InitMetaFree == IF Fresh THEN (1 .. M) \cup MetaIds ELSE MetaIds

Init ==
    /\ cell = [a \in Addrs |-> ZeroBlock]
    /\ slot = [i \in Index |-> EmptySlot]
    /\ free = InitFree
    /\ mfree = InitMetaFree
    /\ tfree = SlotIds
    /\ upd = NoUpdates
    /\ clean \in [Index -> Clean]
    /\ cl = [c \in Clients |-> Idle]
    /\ rec = [phase |-> "up", idx |-> 0, pos |-> 0]
    /\ obj = [id \in Ids |-> None]
    /\ drop = {} /\ keep = {}

DataCall(id) == id < D \/ May("cross")

Operation(c) ==
    /\ cl[c].pc = "open"
    /\ \/ \E v \in Vals : TPut(c, 0, v)
       \/ \E v \in Vals, id \in Victims(c) : DataCall(id) /\ TPut(c, id, v)
       \/ \E v \in Vals : May("meta") /\ TPutMeta(c, 0, v)
       \/ \E v \in Vals, id \in Victims(c) : May("meta") /\ TPutMeta(c, id, v)
       \/ \E v \in Vals, id \in Targets(c) :
                May("small") /\ DataCall(id) /\ TPutSmall(c, id, v)
       \/ \E id \in Victims(c) : TDel(c, id)

Execution(c) ==
    \/ TxExecute(c) \/ TxExecuteErr(c)
    \/ ExecZero(c) \/ ExecFree(c) \/ ExecSkip(c) \/ ExecPatch(c)
    \/ ExecMeta(c) \/ ExecEnd(c)

Abortion(c) ==
    \/ TxAbort(c) \/ AbortZero(c) \/ AbortFree(c) \/ AbortSkip(c) \/ AbortEnd(c)

Conflict(c) ==
    \E a, b \in Ids :
        /\ a # b /\ obj[a] # None /\ obj[b] # None
        /\ DataCall(a) /\ DataCall(b)
        /\ \A d \in Holding : {a, b} \cap Named(Log(d)) = {}
        /\ ResolveConflict(c, a, b)

Recovery == CheckEntry \/ CheckSlotEnd \/ CheckSkip \/ Scan

Next ==
    \/ \E c \in Clients : \/ TxBegin(c) \/ TxInit(c) \/ Operation(c) \/ TPutWrite(c)
                         \/ TPutLate(c) \/ TxCommit(c) \/ Execution(c)
                         \/ Abortion(c) \/ TxRelease(c)
                         \/ Conflict(c)
    \/ Crash \/ CrashAgain \/ Recovery

Spec == Init /\ [][Next]_vars

-----------------------------------------------------------------------------
(* Properties. *)

\* Every variable has the shape the code gives it.
TypeOK ==
    /\ cell \in [Addrs -> Block]
    /\ slot \in [Index -> Slot]
    /\ free \subseteq Ids /\ mfree \subseteq Ids /\ tfree \subseteq SlotIds
    /\ clean \in [Index -> Nat]
    /\ \A i \in Index : DOMAIN upd[i] \subseteq Ids /\ \A x \in DOMAIN upd[i] : upd[i][x] \in Nat
    /\ DOMAIN upd = Index
    /\ cl \in [Clients -> Client]
    /\ \A c \in Clients : cl[c].tx = 0 <=> cl[c].pc = "idle"
    /\ rec \in [phase : {"up", "check"}, idx : Nat, pos : Nat]
    /\ ~ Up => \A c \in Clients : cl[c] = Idle
    /\ obj \in [Ids -> Vals \cup {None}]
    /\ drop \subseteq Index \X (Ids \cup {0})
    /\ keep \subseteq Ids \cup {0}

\* An object that was executed, and that no execution is changing, keeps its
\* value and a checksum that verifies, and is on no free list: no other
\* transaction's put, execution or abort, no crash and no recovery, of however
\* many steps, writes into it, zeroes it or offers it for reuse.
SettledIntact ==
    \A id \in Ids :
        (obj[id] # None /\ ~ InFlux(id)) =>
            /\ Valid(cell, id)
            /\ cell[Direct(id)].val = obj[id]
            /\ id \notin free \cup mfree

\* A slot number that was delivered by pmb_tx_begin is not delivered again
\* before its transaction has let go of the slot.
SlotExclusive ==
    \A c \in Holding :
        /\ cl[c].tx \notin tfree
        /\ \A d \in Holding : cl[c].tx = cl[d].tx => c = d

\* What the walk of an execution or an abort has pushed so far.
GivenBack(c) ==
    LET done == {k \in DOMAIN Log(c) : k < cl[c].pos}
    IN  IF cl[c].pc \in {"exec", "free"}
        THEN {Log(c)[k].id1 : k \in {j \in done : Log(c)[j].op \in {"UPDATE", "REMOVE"}}}
        ELSE {NewBlock(Log(c)[k]) : k \in {j \in done : MakesNew(Log(c)[j])}}

\* The blocks a transaction wrote and has not given back.
Owned(c) == News(Log(c)) \ GivenBack(c)

\* A block written by an open transaction is not on a free list, belongs to no
\* other transaction and is no executed object: pop, log, zero and push of
\* several threads never hand the same block out twice.
BlockExclusive ==
    \A c \in Holding :
        /\ Owned(c) \cap (free \cup mfree) = {}
        /\ \A id \in Owned(c) : obj[id] = None
        /\ \A d \in Holding \ {c} : Owned(c) \cap Owned(d) = {}

\* A block on a free list holds nothing that the next recovery would take for
\* an object: a removed object does not come back.
FreeIsBlank == \A id \in free \cup mfree : ~ Valid(cell, id)

\* pmb_ntotal(region) - pmb_nfree(region), with no transaction open, is the
\* number of objects: blocks are neither lost nor counted twice.
CountExact ==
    (Up /\ Holding = {}) =>
        /\ (D - 1) - Cardinality(free) = Cardinality({id \in DataIds : obj[id] # None})
        /\ M - Cardinality(mfree) = Cardinality({id \in MetaIds : obj[id] # None})

\* Recovery undoes every transaction that was not committed in a slot other
\* than the first: no block that it wrote is an object afterwards.
RolledBack ==
    [][Scan => \A p \in drop : p[1] # 0 => ~ Valid(cell, p[2])]_vars

\* The same for all slots.
RolledBackEverywhere ==
    [][Scan => \A p \in drop : ~ Valid(cell, p[2])]_vars

\* Recovery completes every committed transaction: what it wrote is there.
CommittedKept == [][Scan => \A id \in keep : Valid(cell, id)]_vars
=============================================================================

-------------------------------- MODULE Pool --------------------------------
(***************************************************************************)
(* The pool file over its life: created, opened, written in transactions,  *)
(* synchronised, closed, and struck by power failures.  mem is what the    *)
(* program sees in the mapped file and disk what the storage holds, page   *)
(* by page; they differ where nothing has been synchronised yet.           *)
(*                                                                         *)
(* Interleavings inside a transaction's calls are the subject of Store: an *)
(* operation is one step here, begin and execute are two, abort is three,  *)
(* since what matters is when a change becomes durable.  The operating     *)
(* system may write any page at any time, so a power failure keeps an      *)
(* arbitrary part of what is not synced.  A slot's log is taken to lie in  *)
(* the first page of the slot.                                             *)
(***************************************************************************)
EXTENDS Layout, FiniteSets

CONSTANTS
    NPages,     \* pages of the file
    Vals,       \* what can be stored
    Opts,       \* the options pmb_open is called with
    MaxOps,     \* bound: puts, and removals, in one transaction
    MaxTx,      \* bound: transactions begun, by sync type
    Power,      \* are there power failures?
    Torn,       \* may a failure find one half of tx_slot_init done?
    Overlap     \* are there puts while an abort has given blocks back and
                \* its slot still names them?

ASSUME PagesAssumption == NPages \in Nat \ {0}
ASSUME OptsAssumption ==
    \A o \in Opts : /\ o \in Options /\ Fits(o)
                    /\ o.data_size + o.meta_size <= NPages * Align

\* The values of sync_type
SYNC == 0
ASYNC == 1
SELSYNC == 2
THSYNC == 3
NOSYNC == 4
SyncTypes == {SYNC, ASYNC, SELSYNC, THSYNC, NOSYNC}

ASSUME PowerAssumption == Power \in BOOLEAN /\ MaxOps \in Nat /\ MaxTx \in [SyncTypes -> Nat]
ASSUME WindowAssumption == Torn \in BOOLEAN /\ Overlap \in BOOLEAN

VARIABLES
    sb,         \* the saved superblock
    h,          \* the handle: options, superblock and run-time layout
    tx,         \* what the slots' owners have called
    free,       \* free_list
    mem, disk,  \* the pages as the program sees them and as they are stored
    thread,     \* the sync thread
    closing,    \* where pmb_close is
    objs,       \* history: objects whose transaction was executed
    safe,       \* history: of these, the ones that a synchronisation followed
    begun       \* transactions begun so far

vars == <<sb, h, tx, free, mem, disk, thread, closing, objs, safe, begun>>

None == [is |-> "none"]
Pages == 0 .. NPages - 1
Slots == IF h = None THEN {} ELSE 0 .. h.o.entries - 1

\* A page is blank, holds a part of an object, or the log of a slot.  Where
\* the value lies depends on the max_key_len of the writer.
Blank == [is |-> "blank"]
Part(v, key, k) == [is |-> "object", val |-> v, key |-> key, part |-> k]
Log(s, p, d) == [is |-> "log", status |-> s, puts |-> p, dels |-> d]

Up == h # None /\ closing = "no"

-----------------------------------------------------------------------------
\* The pages of a block and of a slot, as a handle g sees them
FirstPage(g, id) == direct(g.sb, g.map, id) \div Align
PagesOf(g, id) ==
    LET first == FirstPage(g, id)
    IN IF direct(g.sb, g.map, id) = Null THEN {}
       ELSE first .. first + BlockSizeOf(g.sb, g.map, id) \div Align - 1
SlotPage(g, i) == tx_direct(g.sb, g.map, i) \div Align

\* The object of value v, written with max_key_len key, is whole at number id.
Holds(g, m, id, v, key) ==
    \A p \in PagesOf(g, id) : m[p] = Part(v, key, p - FirstPage(g, id))

\* backend_get and the checksum: is there an object at this number?
IsObject(g, m, id) ==
    LET first == m[FirstPage(g, id)]
    IN first.is = "object" /\ Holds(g, m, id, first.val, first.key)

\* backend_set_zero of the blocks with these numbers
ZeroBlocks(g, m, ids) ==
    LET gone == UNION {PagesOf(g, id) : id \in ids}
    IN [p \in Pages |-> IF p \in gone THEN Blank ELSE m[p]]

\* backend_persist_all
PersistAll(g, m) ==
    [p \in Pages |-> IF g.map.tx_log <= p * Align /\ p * Align < PersistedTo(g.map)
                     THEN m[p] ELSE disk[p]]

\* A fault: PMB_SYNC synchronises the slot alone.
TxPersistSlot(g, m, is) ==
    IF g.o.sync \in {SYNC, SELSYNC}
    THEN [p \in Pages |-> IF \E i \in is : p = SlotPage(g, i) THEN m[p] ELSE disk[p]]
    ELSE disk

\* backend_tx_persist and the end of backend_tx_set_zero, for the slots is.
\* An asynchronous msync promises nothing.
TxPersist(g, m, is) ==
    IF is = {} THEN disk
    ELSE IF g.o.sync = SYNC THEN PersistAll(g, m)
    ELSE IF g.o.sync = SELSYNC
    THEN [p \in Pages |-> IF \E i \in is : p = SlotPage(g, i) THEN m[p] ELSE disk[p]]
    ELSE disk

-----------------------------------------------------------------------------
Init ==
    /\ sb = None /\ h = None
    /\ tx = <<>> /\ free = {}
    /\ mem = [p \in Pages |-> Blank] /\ disk = mem
    /\ thread = "none" /\ closing = "no"
    /\ objs = <<>> /\ safe = {} /\ begun = 0

\* What every pmb_open does once the backend g is mapped.
Attach(g) ==
    /\ h' = g
    /\ tx' = [i \in 0 .. g.o.entries - 1 |-> "idle"]
    /\ thread' = IF g.o.sync = THSYNC THEN "sleep" ELSE "none"

Handle(o, s) == [o |-> o, sb |-> s, map |-> Map(s, o)]

\* pmb_open of a path without a file: backend_create.
Create(o) ==
    /\ sb = None /\ sb' = Superblock(o)
    /\ Attach(Handle(o, Superblock(o)))
    /\ free' = 1 .. Map(Superblock(o), o).data_nlba
    /\ UNCHANGED <<mem, disk, closing, objs, safe, begun>>

\* The slots that tx_log_check looks into: index 0 is not among them.
Checked(g) ==
    {i \in 1 .. g.o.entries : /\ tx_direct(g.sb, g.map, i) # Null
                              /\ mem[SlotPage(g, i)].is = "log"
                              /\ mem[SlotPage(g, i)].status # "empty"}

\* pmb_open of an existing file: tx_log_check undoes what the checked slots
\* name, since it never recognises a slot as committed (see Store), then the
\* blocks are scanned.
Reopen(o) ==
    /\ sb # None /\ h = None /\ Accepts(sb, o)
    /\ LET g == Handle(o, sb)
           undo == UNION {mem[SlotPage(g, i)].puts : i \in Checked(g)}
           zeroed == ZeroBlocks(g, mem, undo)
       IN /\ Attach(g)
          /\ mem' = [p \in Pages |-> IF \E i \in Checked(g) : p = SlotPage(g, i)
                                     THEN Blank ELSE zeroed[p]]
          /\ disk' = TxPersist(g, mem', Checked(g))
          /\ free' = {id \in Ids(g.map) : ~ IsObject(g, mem', id)}
    /\ UNCHANGED <<sb, closing, objs, safe, begun>>

-----------------------------------------------------------------------------
WriteLog(i, log) == mem' = [mem EXCEPT ![SlotPage(h, i)] = log]

TheLog(i) == mem[SlotPage(h, i)]

\* pmb_tx_begin: tx_slot_init stores the status, ...
TxBegin(i) ==
    /\ Up /\ tx[i] = "idle" /\ tx' = [tx EXCEPT ![i] = "begun"]
    /\ tx_direct(sb, h.map, i) # Null
    /\ begun < MaxTx[h.o.sync] /\ begun' = begun + 1
    /\ WriteLog(i, IF TheLog(i).is = "log" THEN [TheLog(i) EXCEPT !.status = "processing"]
                   ELSE Log("processing", {}, {}))
    /\ UNCHANGED <<sb, h, free, disk, thread, closing, objs, safe>>

\* ... and then the size, without which an older log is still there.
TxInit(i) ==
    /\ Up /\ tx[i] = "begun" /\ tx' = [tx EXCEPT ![i] = "open"]
    /\ WriteLog(i, Log("processing", {}, {}))
    /\ UNCHANGED <<sb, h, free, disk, thread, closing, objs, safe, begun>>

\* pmb_tput of a new object: pop, log, write.  The last number of the list of
\* a new pool belongs to the meta region and is not used (see Store).
TPut(i, v) ==
    /\ Overlap \/ \A j \in Slots : tx[j] # "undone"
    /\ Up /\ tx[i] = "open" /\ free # {} /\ Cardinality(TheLog(i).puts) < MaxOps
    /\ LET id == CHOOSE x \in free : \A y \in free : x <= y
           log == TheLog(i)
       IN /\ id \in Ids(h.map)
          /\ free' = free \ {id}
          /\ mem' = [p \in Pages |->
                        IF p = SlotPage(h, i) THEN [log EXCEPT !.puts = @ \cup {id}]
                        ELSE IF p \in PagesOf(h, id) THEN Part(v, h.o.key, p - FirstPage(h, id))
                        ELSE mem[p]]
    /\ UNCHANGED <<sb, h, tx, disk, thread, closing, objs, safe, begun>>

\* Numbers that an unfinished transaction has named: clients leave them alone.
Named == UNION {TheLog(i).puts \cup TheLog(i).dels :
                    i \in {j \in Slots : tx[j] \notin {"idle", "begun"}}}

\* pmb_tdel
TDel(i, id) ==
    /\ Up /\ tx[i] = "open" /\ Cardinality(TheLog(i).dels) < MaxOps
    /\ id \notin Named /\ IsObject(h, mem, id)
    /\ WriteLog(i, [TheLog(i) EXCEPT !.dels = @ \cup {id}])
    /\ UNCHANGED <<sb, h, tx, free, disk, thread, closing, objs, safe, begun>>

\* The history without the objects in ids: their removal is under way.
Drop(ids) ==
    /\ objs' = [id \in DOMAIN objs \ ids |-> objs[id]]
    /\ safe' = safe \ ids

\* A fault: commit leaves the slot to the synchronisation at execute.
TxCommitUnsynced(i) ==
    /\ Up /\ tx[i] = "open" /\ tx' = [tx EXCEPT ![i] = "committed"]
    /\ WriteLog(i, [TheLog(i) EXCEPT !.status = "committed"])
    /\ Drop(TheLog(i).dels)
    /\ UNCHANGED <<sb, h, free, disk, thread, closing, begun>>

\* pmb_tx_commit: the status, the checksum and backend_tx_persist
TxCommit(i) ==
    /\ Up /\ tx[i] = "open" /\ tx' = [tx EXCEPT ![i] = "committed"]
    /\ WriteLog(i, [TheLog(i) EXCEPT !.status = "committed"])
    /\ disk' = TxPersist(h, mem', {i})
    /\ Drop(TheLog(i).dels)
    /\ UNCHANGED <<sb, h, free, thread, closing, begun>>

\* pmb_tx_execute: the removed objects are zeroed and their blocks free, ...
ExecZero(i) ==
    /\ Up /\ tx[i] = "committed" /\ tx' = [tx EXCEPT ![i] = "zeroed"]
    /\ mem' = ZeroBlocks(h, mem, TheLog(i).dels)
    /\ free' = free \cup TheLog(i).dels
    /\ UNCHANGED <<sb, h, disk, thread, closing, objs, safe, begun>>

\* What a synchronisation makes safe: the objects that backend_persist_all
\* reaches, as far as they are stored now.
Synced(id) == \A p \in PagesOf(h, id) : (p + 1) * Align <= PersistedTo(h.map)
NowSafe(os, d) ==
    {id \in DOMAIN os : Synced(id) /\ Holds(h, d, id, os[id].val, os[id].key)}

\* What backend_tx_set_zero leaves of a log: all of it, under the status EMPTY.
\* Only a failure inside the next tx_slot_init can tell it from an empty slot.
Zeroed(log) == IF Torn THEN [log EXCEPT !.status = "empty"] ELSE Blank

\* ... then backend_tx_set_zero clears the status of the slot.
ExecEnd(i) ==
    /\ Up /\ tx[i] = "zeroed" /\ tx' = [tx EXCEPT ![i] = "idle"]
    /\ WriteLog(i, Zeroed(TheLog(i)))
    /\ disk' = TxPersist(h, mem', {i})
    /\ objs' = [id \in DOMAIN objs \cup TheLog(i).puts |->
                    IF id \in TheLog(i).puts
                    THEN [val |-> mem[FirstPage(h, id)].val, key |-> h.o.key]
                    ELSE objs[id]]
    /\ safe' = IF h.o.sync = SYNC THEN safe \cup NowSafe(objs', disk') ELSE safe
    /\ UNCHANGED <<sb, h, free, thread, closing, begun>>

\* pmb_tx_abort: the slot is marked and synchronised, ...
TxAbort(i) ==
    /\ Up /\ tx[i] \in {"open", "committed"} /\ tx' = [tx EXCEPT ![i] = "aborted"]
    /\ WriteLog(i, [TheLog(i) EXCEPT !.status = "aborted"])
    /\ disk' = TxPersist(h, mem', {i})
    /\ UNCHANGED <<sb, h, free, thread, closing, objs, safe, begun>>

\* ... new objects are zeroed and their blocks free, ...
AbortZero(i) ==
    /\ Up /\ tx[i] = "aborted" /\ tx' = [tx EXCEPT ![i] = "undone"]
    /\ mem' = ZeroBlocks(h, mem, TheLog(i).puts)
    /\ free' = free \cup TheLog(i).puts
    /\ UNCHANGED <<sb, h, disk, thread, closing, objs, safe, begun>>

\* ... and the slot is emptied.
AbortEnd(i) ==
    /\ Up /\ tx[i] = "undone" /\ tx' = [tx EXCEPT ![i] = "idle"]
    /\ WriteLog(i, Blank)
    /\ disk' = TxPersist(h, mem', {i})
    /\ UNCHANGED <<sb, h, free, thread, closing, objs, safe, begun>>

-----------------------------------------------------------------------------
\* _sync_thread: sleep, then backend_persist_all
ThreadWake ==
    /\ thread = "sleep" /\ thread' = "persist"
    /\ UNCHANGED <<sb, h, tx, free, mem, disk, closing, objs, safe, begun>>

\* A fault: the thread synchronises once.
ThreadPersistOnce ==
    /\ thread = "persist" /\ thread' = "none"
    /\ disk' = PersistAll(h, mem)
    /\ safe' = safe \cup NowSafe(objs, disk')
    /\ UNCHANGED <<sb, h, tx, free, mem, closing, objs, begun>>

ThreadPersist ==
    /\ thread = "persist" /\ thread' = "sleep"
    /\ disk' = PersistAll(h, mem)
    /\ safe' = safe \cup NowSafe(objs, disk')
    /\ UNCHANGED <<sb, h, tx, free, mem, closing, objs, begun>>

\* pmb_close frees the lists and cancels the thread, ...  Clients close when
\* they have no transaction open.
Close ==
    /\ Up /\ \A i \in Slots : tx[i] = "idle"
    /\ closing' = IF h.o.sync = THSYNC THEN "join" ELSE "unmap"
    /\ UNCHANGED <<sb, h, tx, free, mem, disk, thread, objs, safe, begun>>

\* A fault: pmb_close waits for the thread without cancelling it.
ThreadNotCancelled ==
    /\ closing = "join" /\ thread = "gone" /\ thread' = "none"
    /\ UNCHANGED <<sb, h, tx, free, mem, disk, closing, objs, safe, begun>>

\* ... which ends where it sleeps or in msync, ...
ThreadCancelled ==
    /\ closing = "join" /\ thread # "none" /\ thread' = "none"
    /\ UNCHANGED <<sb, h, tx, free, mem, disk, closing, objs, safe, begun>>

\* A fault: pmb_close does not wait for the thread.
CloseNoJoin ==
    /\ closing = "join" /\ closing' = "unmap"
    /\ UNCHANGED <<sb, h, tx, free, mem, disk, thread, objs, safe, begun>>

\* ... is joined, ...
CloseJoin ==
    /\ closing = "join" /\ thread = "none" /\ closing' = "unmap"
    /\ UNCHANGED <<sb, h, tx, free, mem, disk, thread, objs, safe, begun>>

\* ... and the file is unmapped: backend_close synchronises nothing.
CloseUnmap ==
    /\ closing = "unmap" /\ closing' = "no"
    /\ h' = None /\ tx' = <<>> /\ free' = {}
    /\ UNCHANGED <<sb, mem, disk, thread, objs, safe, begun>>

\* Power fails: of each page the new or the stored content remains, and of
\* the history what was synchronised.  A failure during or after pmb_close,
\* which changes no page, leaves nothing that one before it does not.
PowerFail ==
    /\ Power /\ Up
    /\ \E kept \in SUBSET {p \in Pages : mem[p] # disk[p]} :
           mem' = [p \in Pages |-> IF p \in kept THEN mem[p] ELSE disk[p]]
    /\ disk' = mem'
    /\ h' = None /\ tx' = <<>> /\ free' = {} /\ thread' = "none" /\ closing' = "no"
    /\ objs' = [id \in safe |-> objs[id]]
    /\ UNCHANGED <<sb, safe, begun>>

Next ==
    \/ \E o \in Opts : Create(o)
    \/ \E o \in Opts : Reopen(o)
    \/ \E i \in Slots : TxBegin(i)
    \/ \E i \in Slots : TxInit(i)
    \/ \E i \in Slots, v \in Vals : TPut(i, v)
    \/ \E i \in Slots : \E id \in Ids(h.map) : TDel(i, id)
    \/ \E i \in Slots : TxCommit(i)
    \/ \E i \in Slots : ExecZero(i)
    \/ \E i \in Slots : ExecEnd(i)
    \/ \E i \in Slots : TxAbort(i)
    \/ \E i \in Slots : AbortZero(i)
    \/ \E i \in Slots : AbortEnd(i)
    \/ ThreadWake \/ ThreadPersist \/ ThreadCancelled
    \/ Close \/ CloseJoin \/ CloseUnmap
    \/ PowerFail

\* The sync thread runs and is cancelled as the operating system schedules
\* it, and pmb_close goes on to its end.  Nobody has to call anything.
Fairness ==
    /\ WF_vars(ThreadWake \/ ThreadPersist) /\ WF_vars(ThreadCancelled)
    /\ WF_vars(CloseJoin \/ CloseUnmap)

Spec == Init /\ [][Next]_vars /\ Fairness

-----------------------------------------------------------------------------
TxStates == {"idle", "begun", "open", "committed", "zeroed", "aborted", "undone"}
Logs == [is : {"log"}, status : {"empty", "processing", "committed", "aborted"},
         puts : SUBSET Nat, dels : SUBSET Nat]
Parts == [is : {"object"}, val : Vals, key : Nat, part : Nat]

\* Types of the variables.  The slot of a running transaction holds its log:
\* no block lies over a slot.
TypeOK ==
    /\ sb = None \/ sb \in {Superblock(o) : o \in Opts}
    /\ h = None \/ h \in {Handle(o, sb) : o \in Opts}
    /\ h # None => tx \in [Slots -> TxStates]
    /\ \A i \in Slots : tx[i] # "idle" =>
           /\ TheLog(i) \in Logs
           /\ TheLog(i).status = "processing" <=> tx[i] \in {"begun", "open"}
    /\ free \subseteq Nat
    /\ \A p \in Pages : mem[p] \in {Blank} \cup Logs \cup Parts
    /\ \A p \in Pages : disk[p] \in {Blank} \cup Logs \cup Parts
    /\ thread \in {"none", "sleep", "persist"}
    /\ closing \in {"no", "join", "unmap"}
    /\ safe \subseteq DOMAIN objs
    /\ begun \in Nat

\* An object that was executed and has once been whole on storage is read back
\* from its number with the value it was written with, after any number of
\* further transactions, closes, opens and power failures.
Survives ==
    h # None =>
        \A id \in safe :
            objs[id].key = h.o.key /\ Holds(h, mem, id, objs[id].val, objs[id].key)

\* Before an execution destroys old objects its log is on storage, whenever
\* the sync type synchronises slots (PMB_SYNC, PMB_SELSYNC).
LogAhead ==
    Up /\ h.o.sync \in {SYNC, SELSYNC} =>
        \A i \in Slots : tx[i] \in {"committed", "zeroed"} => disk[SlotPage(h, i)] = TheLog(i)

\* What recovery takes for an object was executed at some time.  Nothing orders
\* the log before the block it names, so this fails under power failures.
NoGhost ==
    [][\A o \in Opts : Reopen(o) =>
          \A id \in Ids(h'.map) : IsObject(h', mem', id) => id \in DOMAIN objs]_vars

\* The sync thread never touches the pool after pmb_close has unmapped it.
ThreadMapped == thread # "none" => h # None

\* With PMB_THSYNC every executed object that backend_persist_all reaches is
\* on storage some time, as long as the pool stays open: the thread never
\* falls behind for good.
BecomesSafe ==
    (Up /\ h.o.sync = THSYNC)
        ~> (~ Up \/ \A id \in DOMAIN objs : Synced(id) => id \in safe)

\* The same of all objects.  The end of the pool is out of reach.
AllBecomeSafe ==
    (Up /\ h.o.sync = THSYNC) ~> (~ Up \/ DOMAIN objs \subseteq safe)

\* pmb_close ends, although it waits for the sync thread.
Closes == closing # "no" ~> closing = "no"
=============================================================================

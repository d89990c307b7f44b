# A TLA+ model of pmbackend

pmbackend keeps objects (key, value, version) in fixed-size blocks of a memory
mapped file, persistent memory or not, and changes them in transactions that a
log of slots protects. This directory holds TLA+ modules translated from the C
source, the configurations that TLC checks them with, and proofs that TLAPS
checks. `PROJECT.json` names, for every definition, the lines it stands for.

    tlc -workers 2 -config StoreThreads.cfg MCStore      # a run: cfg and MC module
    tlapm StoreProofs.tla                                # a proof module

## The system

| part | state | operations | meets the others through |
| --- | --- | --- | --- |
| caslist (`caslist.c`) | sorted ranges, a counter, a mutex | new, push, pop, size | the pools of data blocks, meta blocks and slots, and the results of the initial scan |
| backend (`backend.c`) | the mapped file: superblock, log slots, data and meta blocks | direct, get, set_zero, persist, tx_direct, tx_set_zero | every access to a block or slot |
| transaction log (`tx_log.c`) | per slot: status, size, checksum, entries; a list of headers to refresh | begin, four operations, commit, execute, abort, check | takes slots from a caslist, returns blocks to two others, zeroes and patches blocks |
| store (`pmbackend.c`) | a handle with the lists and counts | open, close, tput, tput_meta, tdel, get, resolve_conflict, nfree, ntotal | the API; calls all of the above |
| recovery (`pmbackend.c`) | eight threads with a share of the numbers each | scan blocks by checksum | fills the lists before `pmb_open` returns |
| iterators (`pmbackend.c`) | a region and a position | open, next, get, close | the lists of the initial scan |
| persistence (`backend.c`, sync thread) | sync type, mapped pages and stored pages | msync, persist, the sync thread's loop | commit, execute, abort and close |

Application threads call the API concurrently. The only locks are the mutexes
of the caslists; a transaction is protected by nothing but the fact that its
slot and its blocks were popped from a list. What is hard:

* zeroing a block, pushing it and emptying the slot that names it are separate
  steps, between which other threads pop the block and the process may end;
* recovery decides from status, size and checksum of a slot whether to redo or
  to undo, and from the checksum of a block whether it is an object;
* block numbers are shared out to threads, regions and addresses by arithmetic
  with several off-by-one borders;
* the log mixes entries with payload bytes, and two of its three walks do not
  tell them apart;
* what is durable depends on the sync type, on the moment and on how far a
  synchronisation reaches, and addresses are computed anew by every open;
* all iterators of a region consume one list, which any of them frees.

What makes the parts correct: a caslist is a set, and its counter is the size
of that set; a slot and a block have at most one owner; an executed object stays as it is
until a later transaction names it; what is free is no object; after a crash
every transaction happened or did not; the initial scan puts every block number
on exactly one list; an object reads as the puts and updates that made it say;
what was synchronised is found again at its number; iterators return what the
scan has found.

## The modules

* `FreeSet` is what the users of a caslist rely on: a set whose least member is
  popped, 0 when it is empty.
* `CasList` is `caslist.c`: the links as one sequence, `PopLinks`, the walk of
  `caslist_push` and `_caslist_put` (`SettlesAt`, `LinkFor`), insertion,
  growth and merge. One operation is one action, since it runs under the mutex.
* `Blocks` is the part of `backend.c` that turns numbers into blocks. A block is
  its checksum field, version and an opaque value. `Direct` keeps the code's
  arithmetic, which maps the first meta block onto the last data block. The
  checksum is what it was computed over: zero, right for a data object, right
  for a meta object, or wrong.
* `Store` is `pmbackend.c` and `tx_log.c` over `Blocks`, for any set of client
  threads. An API call is split where another thread or the end of the process
  can come between two effects:

  | code | actions |
  | --- | --- |
  | `pmb_tx_begin` | `TxBegin`, `TxInit` (status, then size) |
  | `pmb_tput` | `TPut`, `TPutWrite`; `TPutSmall`; `TPutLate` (refused) |
  | `pmb_tput_meta` | `TPutMeta`, `TPutWrite` |
  | `pmb_tdel` | `TDel` |
  | `pmb_tx_commit` | `TxCommit` |
  | `pmb_tx_execute` | `TxExecute`, per entry `ExecZero` and `ExecFree`, `ExecSkip` or `ExecPatch`, then `ExecMeta`, `ExecEnd`, `TxRelease`; `TxExecuteErr` (refused) |
  | `pmb_tx_abort` | `TxAbort`, per entry `AbortZero` and `AbortFree`, or `AbortSkip`, then `AbortEnd`, `TxRelease` |
  | `pmb_resolve_conflict` | `ResolveConflict` |
  | close or crash, `pmb_open` | `Crash`, `CrashAgain`, `CheckEntry`, `CheckSlotEnd`, `CheckSkip`, `Scan` |

  Block numbers 1 .. D-1 are data, D .. D+M-1 meta, as in the code. `obj`,
  `drop` and `keep` are history: what a client was told is there, what an
  unfinished transaction had written when the process ended, and what a committed one had.
  `Workload` names what clients do beyond plain puts and removals of objects
  that exist; it selects inputs and never changes what a call does. `Fresh`
  chooses between the lists of a store that was just created and those of an
  empty one that is opened again. `Clean` says how many entries of the
  uninitialised metadata list happen to read as zero.
  `backend_tx_set_zero` clears status and checksum of a slot only (`ZeroSlot`):
  the log of an executed transaction stays until `TxInit` of the next one. A
  payload is one stride and may read as no entry, as zero, or ("alike") as an
  entry that names any block, which abort and `tx_log_check` then act on.
* `InitialScan` is what `recovery` promises, `Recovery` is how it does it:
  threads created one by one, `Visit` for one turn of a thread's loop, joins in
  order. `Scan` of `Store` is the one step of `InitialScan`.
* `Layout` is the arithmetic of `backend.c`: block and slot sizes, what a
  superblock saves and what an open compares, the regions, `direct`,
  `tx_direct` and how far `backend_persist_all` reaches. Sizes are modulo the
  word size.
* `Pool` is a pool file over its life, on `Layout`: `Create` and `Reopen` with
  any options, transactions, `Close`, the sync thread, `PowerFail`. `mem` are
  the pages as the program sees them, `disk` as they are stored. A call
  is split where a synchronisation or another transaction matters: begin in two
  steps (`TxBegin`, `TxInit`), execute in two (`ExecZero`, `ExecEnd`), abort in
  three (`TxAbort` marks and stores the slot, `AbortZero` clears and returns the
  blocks, `AbortEnd` empties and stores the slot); a slot's log lies in the
  slot's first page. `objs` and `safe` are history: executed objects, and those
  that were found whole on storage right after a synchronisation (`NowSafe`).
  Two windows in which the code loses objects are behind constants: `Torn`, a
  failure between the two steps of begin over the log of an older transaction,
  and `Overlap`, puts while an abort has returned blocks that its slot still names. The operating system may write a page at any time, so a power
  failure keeps any part of what differs. The end of the process without a
  power failure loses nothing and looks like `Close`.
* `Put` is one client's transactions to the byte: what `pmb_tput` copies
  (`PutBlock`, `ValueByte`), the log as words (`Record`), and its three walks,
  `Exec*`, `Abort*` and `Check*`, one loop turn an action. A word is a third of
  an entry, so a payload of one word shifts a walk that strides by entries.
  Values are words that no other operation writes, or `Words`, which can be
  types and numbers of an entry. Words of earlier transactions stay in the slot. `view` and `ops` are the
  reference: objects as the sequence of operations defines them (`RefApply`).
  The slot is one that recovery checks, and the process ends only before
  execute: `Store` has the other cases.
* `Iter` has the iterators of several threads in the loop of `pool_list.c`.
  `pmb_iter_next` and `pmb_iter_close` read the list pointer in one step and
  use it in another. `Remove` and `Write` are other threads' transactions. `got`
  and `seen` are history: what was returned, by number and by iterator.
* `MC*` modules give values and symmetry for TLC. `*Proofs` hold the theorems.

Operators introduced by a comment that begins with "A fault" or "Faults" are
used by no specification. Each is a plausible wrong version of the definition
below it; replacing that definition makes TLC find a property violated, which
shows that the property can fail.

## The runs

| run | question | size |
| --- | --- | --- |
| `CasList` | do ranges stay sorted and apart, is the counter right, is it a set? | 1 .. 7 |
| `StoreThreads` | two threads, every interleaving of puts, small updates, removals, executions, aborts on both regions | D=3, M=2, 2 slots, 2 strides |
| `StoreCrash` | the process ends anywhere but inside `tx_slot_init`, `pmb_open` included; conflicts are resolved | D=4, M=1, 2 slots, 2 strides |
| `StoreOne` | the API of one thread: late puts, aborts of own updates, conflicts, a refused execute | D=4, M=1, 4 strides |
| `Recovery` | do the threads give the lists of one scan, and does `pmb_open` return? | D=5, M=2, 3 threads |
| `Pool` | does what was stored survive closes, opens and power failures; does the sync thread keep up and leave? | 10 pages, 2 slots, 2 block sizes, 3 sync types, 2 or 3 transactions |
| `Put` | does every object read as written, is the log read as it was written, does recovery keep exactly the objects? | 2 blocks, values of 4 units, 5 shapes of a put, 2 transactions of 3 operations |
| `Iter` | do iterators together return everything, touch no freed list, and end? | 2 data blocks, 1 meta block, 2 threads |

The properties of the store: `SettledIntact`, an executed object keeps value
and checksum and is on no free list; `SlotExclusive` and `BlockExclusive`, one
owner; `FreeIsBlank`, nothing on a free list looks like an object;
`CountExact`, ntotal - nfree is the number of objects when nothing is open;
`RolledBack`, recovery undoes unfinished transactions outside the first slot.

Those of the later modules. `Pool`: `Survives`, an object that was once stored
is read back from its number with its value; `LogAhead`, the log is stored before an
execution destroys anything; `ThreadMapped` and `Closes`, the sync thread is
gone before the pool is unmapped and the wait for it ends; `BecomesSafe`, with
PMB_THSYNC every executed object that `backend_persist_all` reaches is stored
some time. `Put`:
`ReadsAsWritten`, `ScanExact` (checksums and free list agree with the reference),
`ExecuteExact` (the execute walk meets the logged operations), `ListFits` (the
metadata list has at most one entry for each block updated in place).
`Iter`: `NoDangling`, `AllReturned`, `LoopsEnd`.

Bounds. Seven numbers give lists of up to four links with every merge and every position of a
pushed value. In the store two data blocks are enough for two threads to compete for a
block, to run out, and for an update to need both; two strides hold a small
update with its payload or two other entries, and the four of `StoreOne` one of
each kind behind another; two slots are one that recovery checks and one that it
does not. Values matter only by being different, so two
suffice. `MaxVer` = 2 lets an object be updated once after it was written; the
code compares versions only in `pmb_resolve_conflict`. `StoreThreads` and
`StoreCrash` leave each other's features out, because aborts with crashes lose
objects (below). `StoreOne` has no crash: one thread uses the first slot only, which
recovery never visits. The `VIEW` of these runs leaves out the log in an empty
slot, or in one inside `tx_slot_init`: without "torn" no step reads it again,
and no property does. Symmetry over clients and values is sound for these
properties: no definition of `Store` tells two of them apart.

In `Pool` two slots are one that recovery checks and one that it does not, and
the block sizes are one and two pages, so that an object can be torn; three
transactions let one be synchronised, the next remove it or fail, and a third
reuse the block. With PMB_THSYNC, where the thread's steps multiply the states,
there are two (`TxBound`). Of the blocks at least one lies beyond what
`backend_persist_all` reaches. One value is enough: pages of two objects differ by number
and part. Syncs are PMB_SYNC, PMB_SELSYNC and PMB_THSYNC; ASYNC and NOSYNC promise nothing
on storage. A power failure during or after `pmb_close` leaves nothing that one
before it does not. In `Put` the shapes are an empty value, small ones at both ends,
one in the middle and a full one; every operation writes a byte of its own, so
a byte tells who wrote it. Three operations are a write, a patch and another
entry behind the payload; `Words` is empty in `Put`, where no walk is shifted, and
holds the type UPDATE in `AbortShift`; in the second transaction blocks and log words of the first are reused. In `Iter` two
objects are what two threads can share, take from each other or miss.

Deadlock is checked for all but `Recovery`, which ends when `pmb_open` returns,
and `Put` and `Iter`, where clients may stop calling.

`StoreThreads` and `StoreOne` do not use the last data block, because it is also
the first meta block (the row on "brim" below). Without the feature "again" a
transaction does not name an object after removing it nor remove one it has
patched; without "own" it does not update or remove what it wrote itself;
clients never name objects of another open transaction, which the library
leaves to its users.

### Where the code does not do what it says

Four runs end with a counterexample; `PROJECT.json` quotes the statements they
refute.

| run | what happens |
| --- | --- |
| `CommitLost` | recovery takes no slot for committed, since it verifies the checksum over more bytes than commit computes it over (`tx_log.c:465`, `:106`), and undoes it |
| `Reopen` | a pool opened with another `write_log_entries` is accepted, and its data region lies elsewhere (`backend.c:251`) |
| `AbortShift` | abort, and recovery, do not clear what was logged behind a payload that is no multiple of an entry (`tx_log.c:308`, `:470`) |
| `IterShared` | an iterator enumerates what others have left: all iterators of a region take numbers from one list (`pmbackend.c:622`, `:707`), while `pmbackend.h:230-231` says that an iterator enumerates all objects and is read only |

The same models show further ones, each with one property and the changes named
here. In `MCStore` the constants are those of `CommitLost.cfg`:

| constants | property | what happens |
| --- | --- | --- |
| Fresh = TRUE, M = 2, {"meta"} | `SettledIntact` | the meta free list of a new store holds data block numbers, so `pmb_tput_meta` writes into the data region (`pmbackend.c:156`; `pmbackend.h:175-176` says otherwise) |
| M = 2, {"meta", "brim"} | `SettledIntact` | the first meta block is the last data block (`backend.c:419`) |
| {"crash"} | `RolledBackEverywhere` | recovery never looks at the first slot (`tx_log.c:452`; `kv.h:118` "Handles failed transactions recovery") |
| {"abort", "crash"} | `SettledIntact` | abort gives blocks back before the slot is emptied; after a crash recovery zeroes the object another thread executed there (`tx_log.c:324`) |
| {"crash", "torn"} | `SettledIntact` | `tx_slot_init` stores PROCESSING before the size, over the size and entries that `backend_tx_set_zero` has left: a process that ends in between makes recovery undo the executed transaction that used the slot before (`tx_log.c:126-128`, `backend.c:602-606`) |
| {"small", "abort", "alike"} | `SettledIntact` | abort reads a payload as an entry and zeroes and frees the executed object it names (`tx_log.c:307-328`) |
| {"small", "crash", "alike"} | `SettledIntact` | so does recovery (`tx_log.c:468-496`) |
| {"absent"} | `BlockExclusive` | a removal of a number that named no object destroys what another open transaction has put there since (`tx_log.c:244`; `pmbackend.h:202-203` "there's no side effects") |
| Fresh = TRUE, M = 2, no workload | `CountExact` | a new store counts a data block and M meta blocks too many as free (`pmbackend.c:155`) |
| {"own", "crash"} | `SettledIntact` | as with abort, for an execution that removes an object of its own transaction (`tx_log.c:248`) |
| {"early"} | `SlotExclusive` | a refused execute makes the slot available (`pmbackend.c:259`) |
| {"late"} | `CountExact` | a refused put loses its block (`pmbackend.c:390`) |
| D = 4, M = 2, {"meta", "resolve", "cross"} | `CountExact` | a meta block goes to the data free list (`pmbackend.c:880`) |
| {"small"}, Clean = {0, 3} | `SettledIntact` | a small update is not followed by a new checksum (`tx_log.c:72`, `:177`) |
| {"small", "again"}, MaxLog = 3 | `FreeIsBlank` | a removed object gets a valid checksum (`tx_log.c:273`) |
| {"small", "blank", "crash"}, MaxLog = 3 | `RolledBack` | a payload of zero bytes ends the rollback (`tx_log.c:471`) |

In the other modules:

| run changed | property | what happens |
| --- | --- | --- |
| `Pool`, Overlap = TRUE | `Survives` | abort clears and returns a block before its slot is emptied and stored; another transaction executes and stores an object there; after a power failure recovery undoes the first one and zeroes the object (`tx_log.c:307-339`) |
| `Pool`, Torn = TRUE | `Survives` | the window in `tx_slot_init`, as in `Store`, with a power failure |
| `Pool` | `AllBecomeSafe` | `backend_persist_all` starts at the log and takes the length of the regions, so objects at the end of the pool are never stored, however long the sync thread runs (`backend.c:486`) |
| `Pool`, LogSize = 24, Entries = {3}, Opts <- Same | `LogAhead` | for the same reason the last slots are not synchronised where the log is longer than what follows it: PMB_SYNC then executes a transaction whose log is not stored |
| `Pool` | `NoGhost` | a power failure keeps a new block and loses the log entry that would undo it; `kv.h:77-78`: "Before actual write first new data will be saved to write log" |
| `Reopen`, Entries = {2}, Opts <- OneSize | `Survives` | only the rounded block size is compared, so another division between key and value is accepted and values are read from another offset (`backend.c:178`) |
| `AbortShift`, Words = {} | `ReadsAsWritten` | behind a payload the shifted walk of abort or `tx_log_check` takes parts of two entries for one that names an executed object, and clears it |
| `Put`, MetaCap = 1 | `ListInBounds` | a transaction that updates more blocks in place than the list has entries writes behind it (`tx_log.c:72`) |
| `Put` | `GapsBlank` | a write at an offset shows bytes of an older object (`pmbackend.c:416`) |
| `Iter`, Together = TRUE | `NoDangling` | an iterator pops a list that another one's close has freed (`pmbackend.c:659`) |
| `Iter`, Together = TRUE | `LoopsEnd` | without a list `pmb_iter_next` leaves the position, and the loop returns one object for ever (`pmbackend.c:707`) |

The passing runs therefore assume what these exclude, and say so in their
constants: an existing store, clean metadata lists, payloads that do not read as
entries and that no walk but execute's has to pass, no end of the process inside
`tx_slot_init` or between the steps of an abort in `Store`, no put during an
abort in `Pool`, options that stay the same or differ in the block size, threads
that agree on who closes an iterator, and the features left out.

### Fairness

`Store` and `CasList` state safety only and assume none. `Recovery` assumes
weak fairness of `pmb_open` and of each thread it has created: these are
threads of the operating system that block on nothing but a list's mutex, which
every holder releases. `Returns` needs it. `Pool` assumes it of the sync
thread, which sleeps and synchronises in turn and is cancelled at either of these two
cancellation points, and of `pmb_close` once called; no client has to do
anything. `Iter` assumes it of a thread that has an iterator: `pool_list`'s
loop waits for nothing.

## What is proved

`CasListProofs`, for every set of identifiers: `TypeOK`, `Canonical`,
`SizeExact`, and that `CasList` implements `FreeSet`. The first three together
are inductive. What carries the proof is that the walk settles at the only link
where a value can go (`WalkSettles`), and that insertion, growth and merge keep
a canonical list canonical and add exactly one member (`InsertKeeps`,
`ReplaceKeeps`, `MergeKeeps`).

`RecoveryProofs`, for every D >= 2, M >= 1 and N >= 2: `TypeOK`, `NoOverlap`
and that `Recovery` implements `InitialScan`. The invariant `RInv` says that
the lists hold what was found at the numbers visited so far, that a thread is
between the start of its share and, once ended, at its stop, and what `pmb_open` has created
and joined. The arithmetic is in `SharesApart` (a share stops before the
next ones start) and `SharesCover` (every number is in the first share that
stops above it), which hold also when there are fewer numbers than threads.

`StoreProofs`, for every number of blocks, slots and clients, every workload
without "early", with crashes and recovery: `TypeOK` and `SlotExclusive`. Types
alone are not inductive, because a walk reads the log at the client's position;
that position is inside the log only as long as nobody else empties or cuts it.
The invariant `IInv` adds `SlotExclusive` and, for each place in a call, where
the client stands in its log (`WalksOK`). Without the assumption on "early" the
theorem is false: see above.

`StoreRollbackProofs`, under the same generality, without "early" and "blank":
`RolledBack`. The invariant `RollInv` adds to `IInv` that a checksum in a slot
is 0 or that of the whole log (`Marked`), from which it follows that recovery
takes no slot for committed (`NeverCommitted`); that no stride of a log reads as
its end (`NoBlanks`, from the types without "blank"); and that every block of an unfinished
transaction is already zero or still ahead of the walk of `tx_log_check`
(`Undoing`), also when the process ends again during `pmb_open`.

`StoreBlocksProofs`, for every number of blocks, slots and clients, with
concurrent transactions and crashes: `BlockExclusive`, `SettledIntact`,
`FreeIsBlank` and `CountExact`, for the use that `Ordinary` describes. Every
clause of `Ordinary` excludes one of the counterexamples in the tables above, and
none is there for the provers' sake: "torn" and "alike" among them, since a crash
inside `tx_slot_init` and a payload that spells an entry both destroy executed
objects. `CountExact` also needs "late" away. The runs `StoreThreads` and
`StoreCrash` satisfy it. `StoreOne` does not: a refused execute breaks
`SlotExclusive` for two threads, and is only model-checked for one. That old logs
stay in empty slots is part of the model the theorems are about: the invariant
counts the log of a slot only from `TxInit` on. The invariant `BInv` says that a block is free, an object
or held by exactly one client; that a log writes a block afresh at most once,
takes it away at most once and does not also patch it (`Once`); and, from the log
and the place of the walk alone, what each client still holds (`HoldsIn`), is
going to take or patch (`ClaimsIn`), and what its blocks contain (`ContentIn`,
`ZeroedIn`). The gap between zeroing a block and pushing it, and the one between
pushing it and emptying the slot, are the two places where ownership is not what
the lists say, and the reason why the walk's position is in these definitions.

`PoolProofs`, for every number of pages, alignment, block and slot size, sync type
and any history of opens, transactions, synchronisations and power failures:
`ThreadMapped` without hypothesis; `TypeOK` and `Survives` outside the windows
`Torn` and `Overlap`, in which `Survives` is false (rows above), and if `Steady`,
that is if every open gives the lengths the pool was created with (the run
`Reopen`, and the row on `OneSize` above, show what happens otherwise); `LogAhead`
if also `Reach`, since `backend_persist_all` may stop short of the last slots (the row on `LogAhead` above). The run
`Pool` satisfies all four. The proof has three layers. The arithmetic of `Layout` is
reduced to one predicate, `Placed`: slots and blocks are pages of the file, no two
share one, and a synchronisation that reaches all of a block reaches the log. On
this rests `MInv`, what the program sees: running transactions have their logs in
their slots, two of them name no block and none that is free, and what was put is
whole; the slot of an abort that has returned its blocks names free ones, and they
stay free until it is emptied (`ReturnedBy`). On this in turn `SInv`, what is stored: executed objects within reach are
whole in memory, the synchronised ones on storage as well, and no log that a
transaction, or recovery after the next failure, may act on names one of them as
new. The last part is what makes `Survives` inductive: a power failure takes each
page, those of the slots included, from before or after, so an old log on storage
must never name a block that has since become somebody's object. It needs no
`Reach`, because an object that is reached lies behind the log.

`PutProofs`, for every number of blocks, operations and transactions and every
length of keys, values and payloads and any words in them: `TypeOK`,
`ExecuteExact` and `ListFits`. For the last, every header that waits is that of a
block that this transaction updates in place (`Waits`), and there are no two of a
block; with more such blocks than entries the code writes behind the list. The
invariant
`PInv` says that the operations lie one behind the other from the start of the log
to its size (`Placed`), that the words there are theirs whatever the slot held
before and that none reaches into the next (`Logged`), and that execute stands at
an operation or at the end and has a header for fewer blocks than it has passed
places, each block once (`Walks`). The places and the reference are recursive
functions; that each exists and is the only one is shown from a least
counterexample (`PlaceForIs`, `AfterExists`, `AfterUnique`), and the rest uses
only what one more operation does to them (`PlaceAppend`, `RefAppend`). That a
length and an offset can be unpacked again needs offsets below the shift
(`ShiftAssumption`, `uint32_t` in the code).

On `PInv` rests `QInv` (`PutObjects`), and on it `ReadsAsWritten` and `ScanExact`,
both for workloads without "shift" and `max_val_len` of 2 or more. With
"shift" a payload makes abort and `tx_log_check` miss blocks (`AbortShift`), which
then verify without being objects. With a shorter `max_val_len` no update is small,
so that even an empty one goes into a new block, into which `pmb_tput` then copies
nothing: the object loses its bytes and its length. `QInv`
relates the blocks to the reference in every state of a transaction. Until execute
starts, every object is in its block, with its bytes and a checksum (`Kept`, `Holds`),
and every other block is free and blank or filled by an operation that abort has
still to pass (`Undo`). From the first operation to the end of execute, every block
that will be no object is free and blank or taken by exactly one operation that is
still to come (`Redo`). A block that will be an object is shown by the block and the
list together (`Shows`): small updates change the bytes at once and the header only
at the end, so neither alone is the object at any moment in between. What it is
by then is one member of a chain of versions, from the object before the
transaction to the one after it, with a link for each small update of it (`Chain`);
the chain is a witness in the invariant, not a definition. That no operation
replaces or removes what another of the same transaction updates in place is a
condition on clients (`Patched`), and the proof uses it.

`IterProofs`, for any threads and any numbers of the two regions: `TypeOK`
always; `NoDangling` and `AllReturned` if `Together = FALSE`, which
neither survives without. A list may be freed only when it is empty and
nobody is about to use it, so the invariant `IInv` says that a thread in its
loop finds the list (`ListKept`), a thread that frees it is alone in its region
(`ClosesAlone`), and a loop ends on an empty list (`EndsEmpty`); that a number
is in the list, with one thread or done (`Apart`, `Fresh`, `Divided`); and that an object
of the scan that is still there waits, is about to be returned or was
(`Accounted`), for which a block written again must hold a new object (`Older`).

The assumptions are those on the constants, next to their declarations: at
least two data blocks (number 0 is none), a meta block, a slot, at least two
threads; for `Pool`, options whose regions hold the log, two data blocks and a
meta block and lie in the file (`OptsAssumption`).

Only model-checked: the properties of `Store` for the workload of `StoreOne`; and
`Returns`, `BecomesSafe`, `Closes` and `LoopsEnd`, which are liveness and out of the
prover's reach. `QInv` and the invariants before it were checked by TLC on the
instances of the runs before they were proved.

## What is not modelled

* Crashes inside a call at the level of bytes or pages: `Store` interleaves the
  effects of calls with opaque values, `Put` takes operations as one step, `Pool`
  begin, execute and abort as two or three. A power failure during `pmb_open` or `backend_create`.
* Pools on persistent memory (`is_pmem`), where every copy is durable at once,
  and files made of several parts: `util_pool_*` of nvml are external.
* In `Put` and `Pool` only the data region is written. `pmb_tput_meta` has
  neither offsets nor copies; that `pmb_tput`'s small update of a meta block
  writes at `max_key_len`, where no meta value starts, is seen from
  `tx_log.c:203` and not in a model.
* The length of a slot: no operation compares a log with it, and
  `tx_slot_capacity` is never read (`tx_log.c:61`).
* 255 slots, where the `uint8_t` loops of `tx_log.c:70` and `:452` do not end,
  and a `data_size` smaller than the log, where `datasize` wraps
  (`backend.c:252`): the program has no further defined behaviour to check.
* `pmb_get`, `pmb_inspect`, `pmb_strerror` as operations: they change nothing.
* Argument checks that return before any effect; tracing; the examples, but for
  the loop of `pool_list.c`.
* Checksum collisions, and failing `malloc` or `pthread_create`.

## Plan

Done: the pools, the store with crashes, the scan; layout, persistence, bytes and
log words, iterators; proofs of everything but liveness and `StoreOne`. Next: `Store`
with an abstract specification of atomic transactions, as far as the violations above
leave one that holds, and the steps of its refinement as theorems.

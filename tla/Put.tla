-------------------------------- MODULE Put ---------------------------------
(***************************************************************************)
(* One client's transactions, byte by byte: what pmb_tput writes into a    *)
(* block and into the log, and the three walks over the log (execute,      *)
(* abort, tx_log_check) that act on it.  Store has the interleavings and   *)
(* treats values as opaque; here values have bytes, offsets and lengths,   *)
(* and payloads in the log have any length.                                *)
(*                                                                         *)
(* The unit of length is a third of a log entry, so that an entry is three *)
(* words: type, blk_id1, blk_id2.  A block is its header and an area in    *)
(* which the key starts at 0 and the value at MaxKey (max_key_len).        *)
(***************************************************************************)
EXTENDS Integers, Sequences, FiniteSets

CONSTANTS
    NBlocks,    \* data blocks 1 .. NBlocks
    MaxKey,     \* max_key_len
    MaxVal,     \* max_val_len
    KeyLens,    \* lengths of the keys that clients use
    Shapes,     \* offsets and lengths of what clients put
    Words,      \* words that values may consist of, besides a new one each time
    Workload,   \* what clients do: "shift" aborts transactions with payloads
    MetaCap,    \* entries of the metadata list, 128 in the code
    MaxOps,     \* bound: operations of a transaction
    MaxTx       \* bound: transactions

ASSUME PutAssumption ==
    /\ NBlocks \in Nat \ {0} /\ MaxKey \in Nat \ {0} /\ MaxVal \in Nat
    /\ KeyLens \subseteq 1 .. MaxKey
    /\ Shapes \subseteq [off : Nat, len : Nat]
    /\ Words \subseteq Nat
    /\ \A s \in Shapes : s.off + s.len <= MaxVal /\ (s.len = 0 => s.off = 0)
    /\ MetaCap \in Nat /\ MaxOps \in Nat /\ MaxTx \in Nat

VARIABLES
    blk,        \* the blocks
    free,       \* free_list
    log, size,  \* the words of the slot behind its header, and how many count
    pc,         \* what the client or pmb_open is doing
    pos,        \* where the walk over the log is
    list,       \* upd_id_list of the slot: headers to refresh
    view,       \* reference: the objects and the bytes clients wrote into them
    ops,        \* reference: the operations of the transaction
    begun       \* transactions begun so far

vars == <<blk, free, log, size, pc, pos, list, view, ops, begun>>

\* tx_op
WRITE == 0
UPDATE == 1
UPDINPLACE == 2
REMOVE == 3

Entry == 3          \* sizeof(tx_entry)
Shift == 100        \* 2^32 in the code: blk_id2 packs a size and an offset
KeyByte == 9        \* the bytes of a key

\* Offsets are uint32_t.
ASSUME ShiftAssumption == MaxVal < Shift

Ids == 1 .. NBlocks
Area == 0 .. MaxKey + MaxVal - 1
NoSum == <<>>
ZeroBlock == [sum |-> NoSum, ver |-> 0, klen |-> 0, vlen |-> 0, area |-> [i \in Area |-> 0]]

\* Lengths of the updates that go through the log
SmallLens == 0 .. (MaxVal \div 2) - 1
LogWords == 0 .. MaxOps * (Entry + MaxVal \div 2) + Entry

Smaller(a, b) == IF a < b THEN a ELSE b
Larger(a, b) == IF a < b THEN b ELSE a

\* What clients put: a key, an offset and words, each a number that no other
\* operation writes or one of Words, which may be types and numbers of a log
\* entry.  Arguments that pmb_tput refuses before any effect (PMB_EARGS,
\* PMB_ESIZE) are left out.
Fresh == 10 + MaxOps * begun + Len(ops)
Args ==
    UNION {[klen : KeyLens, off : {s.off}, data : [1 .. s.len -> {Fresh} \cup Words]] : s \in Shapes}

-----------------------------------------------------------------------------
\* util_checksum over the header and the first n bytes behind it: it verifies
\* only if these are as they were.
Sum(b, n) == <<b.ver, b.klen, b.vlen, [i \in 0 .. n - 1 |-> b.area[i]]>>

\* A fault: the checksum leaves out what the update kept behind the new bytes.
WithSumShort(b, n) == [b EXCEPT !.sum = Sum(b, Smaller(n, MaxKey + 1))]

WithSum(b, n) == [b EXCEPT !.sum = Sum(b, n)]

\* recovery_thread's test of a data block
Verifies(b) == b.sum # NoSum /\ b.sum = Sum(b, MaxKey + b.vlen)

\* backend_set_zero clears header, key and value lengths from the start of the
\* block, although the value starts at MaxKey.
SetZero(b) ==
    [ZeroBlock EXCEPT !.area = [i \in Area |-> IF i < b.klen + b.vlen THEN 0 ELSE b.area[i]]]

\* A fault: on an update the bytes below the offset are taken from the new
\* block, the ones behind the new bytes are copied.
ValueByteNoPrefix(b, old, kv, j) ==
    LET end == kv.off + Len(kv.data)
    IN IF kv.off <= j /\ j < end THEN kv.data[j - kv.off + 1]
       ELSE IF end <= j /\ j < old.vlen THEN old.area[MaxKey + j]
       ELSE b.area[MaxKey + j]

\* Byte j of the value that pmb_tput leaves in block b: new bytes from kv,
\* around them bytes of the old object as far as it reaches, else what the
\* block had.
ValueByte(b, old, kv, j) ==
    LET end == kv.off + Len(kv.data)
        below == Smaller(kv.off, old.vlen)
    IN IF kv.off <= j /\ j < end THEN kv.data[j - kv.off + 1]
       ELSE IF j < below \/ (end <= j /\ j < old.vlen) THEN old.area[MaxKey + j]
       ELSE b.area[MaxKey + j]

\* pmb_tput's writes into block b; old is ZeroBlock for a new object.
PutBlock(b, old, kv) ==
    LET end == kv.off + Len(kv.data)
        vlen == IF kv.data # <<>> THEN Larger(end, old.vlen) ELSE end
    IN WithSum([b EXCEPT
                  !.klen = kv.klen, !.vlen = vlen, !.ver = old.ver + 1,
                  !.area = [i \in Area |-> IF i < kv.klen THEN KeyByte
                                           ELSE IF i < MaxKey \/ kv.data = <<>> THEN b.area[i]
                                           ELSE ValueByte(b, old, kv, i - MaxKey)]],
               MaxKey + vlen)

-----------------------------------------------------------------------------
\* The reference: an object is its key length, version, length and the bytes
\* that clients wrote; the bytes nobody wrote are not in the function.
RefPut(old, kv) ==
    LET end == kv.off + Len(kv.data)
        new == kv.off .. end - 1
    IN [klen |-> kv.klen, ver |-> old.ver + 1, len |-> Larger(end, old.len),
        bytes |-> [j \in DOMAIN old.bytes \cup new |->
                      IF j \in new THEN kv.data[j - kv.off + 1] ELSE old.bytes[j]]]

RefNone == [klen |-> 0, ver |-> 0, len |-> 0, bytes |-> [j \in {} |-> 0]]

Without(f, ids) == [x \in DOMAIN f \ ids |-> f[x]]
With(f, id, y) == [x \in DOMAIN f \cup {id} |-> IF x = id THEN y ELSE f[x]]

\* What an operation does to the objects.
RefApply(v, op) ==
    CASE op.type = WRITE -> With(v, op.id2, RefPut(RefNone, op.kv))
      [] op.type = UPDATE -> With(Without(v, {op.id1}), op.id2, RefPut(v[op.id1], op.kv))
      [] op.type = UPDINPLACE ->
            With(v, op.id1, [RefPut(v[op.id1], op.kv) EXCEPT !.klen = v[op.id1].klen])
      [] op.type = REMOVE -> Without(v, {op.id1})

RefAfter ==
    LET After[n \in 0 .. Len(ops)] ==
            IF n = 0 THEN view ELSE RefApply(After[n - 1], ops[n])
    IN After[Len(ops)]
-----------------------------------------------------------------------------
Init ==
    /\ blk = [id \in Ids |-> ZeroBlock] /\ free = Ids
    /\ log = [i \in LogWords |-> 0] /\ size = 0
    /\ pc = "idle" /\ pos = 0 /\ list = <<>>
    /\ view = <<>> /\ ops = <<>> /\ begun = 0

\* pmb_tx_begin: tx_slot_init resets the size, the words stay.
Begin ==
    /\ pc = "idle" /\ pc' = "open"
    /\ begun < MaxTx /\ begun' = begun + 1
    /\ size' = 0 /\ ops' = <<>>
    /\ UNCHANGED <<blk, free, log, pos, list, view>>

\* Words at the end of the log, and what they stand for
Record(words, op) ==
    /\ log' = [i \in LogWords |-> IF size <= i /\ i < size + Len(words)
                                   THEN words[i - size + 1] ELSE log[i]]
    /\ size' = size + Len(words)
    /\ ops' = Append(ops, op)

CanLog == pc = "open" /\ Len(ops) < MaxOps

\* caslist_pop takes the least number.
Popped == CHOOSE x \in free : \A y \in free : x <= y

\* pmb_tput of a new object: tx_slot_op_write leaves blk_id2 as it was.
TPutNew(kv) ==
    /\ CanLog /\ free # {}
    /\ free' = free \ {Popped}
    /\ Record(<<WRITE, Popped, log[size + 2]>>,
               [type |-> WRITE, id1 |-> Popped, id2 |-> Popped, kv |-> kv])
    /\ blk' = [blk EXCEPT ![Popped] = PutBlock(@, ZeroBlock, kv)]
    /\ UNCHANGED <<pc, pos, list, view, begun>>

\* The objects as the transaction's operations leave them, and the ones that
\* it updates in place: it does not also replace or remove these.
Objects == DOMAIN RefAfter
Patched == {ops[n].id1 : n \in {k \in DOMAIN ops : ops[k].type = UPDINPLACE}}

\* pmb_tput of an existing object, half of max_val_len or longer
TPutUpdate(id, kv) ==
    /\ CanLog /\ free # {} /\ Len(kv.data) \notin SmallLens
    /\ id \in Objects \ Patched /\ blk[id].sum # NoSum
    /\ free' = free \ {Popped}
    /\ Record(<<UPDATE, id, Popped>>, [type |-> UPDATE, id1 |-> id, id2 |-> Popped, kv |-> kv])
    /\ blk' = [blk EXCEPT ![Popped] = PutBlock(@, blk[id], kv)]
    /\ UNCHANGED <<pc, pos, list, view, begun>>

\* pmb_tput of an existing object, shorter: tx_slot_op_small_update
TPutSmall(id, kv) ==
    /\ CanLog /\ Len(kv.data) \in SmallLens /\ id \in Objects
    /\ Record(<<UPDINPLACE, id, Len(kv.data) * Shift + kv.off>> \o kv.data,
               [type |-> UPDINPLACE, id1 |-> id, id2 |-> 0, kv |-> kv])
    /\ UNCHANGED <<blk, free, pc, pos, list, view, begun>>

\* pmb_tdel
TDel(id) ==
    /\ CanLog /\ id \in Objects \ Patched
    /\ Record(<<REMOVE, id, log[size + 2]>>,
               [type |-> REMOVE, id1 |-> id, id2 |-> 0])
    /\ UNCHANGED <<blk, free, pc, pos, list, view, begun>>

-----------------------------------------------------------------------------
\* The entry a walk stands at
Type == log[pos]
Id1 == log[pos + 1]
Id2 == log[pos + 2]

\* pmb_tx_commit and the start of pmb_tx_execute
TxExecute ==
    /\ pc = "open" /\ pc' = "execute" /\ pos' = 0
    /\ UNCHANGED <<blk, free, log, size, list, view, ops, begun>>

Executing(types) == pc = "execute" /\ pos < size /\ Type \in types

\* backend_get, backend_set_zero and caslist_push of a replaced object
ExecRelease ==
    /\ Executing({UPDATE, REMOVE}) /\ pos' = pos + Entry
    /\ IF Id1 \in Ids /\ blk[Id1].sum # NoSum
       THEN blk' = [blk EXCEPT ![Id1] = SetZero(@)] /\ free' = free \cup {Id1}
       ELSE UNCHANGED <<blk, free>>
    /\ UNCHANGED <<log, size, pc, list, view, ops, begun>>

\* A fault: every small update gets an entry of its own.
MetaUpdAddAlways(id, end) ==
    Append(list, [id |-> id, ver |-> blk[id].ver + 1, len |-> Larger(blk[id].vlen, end)])

\* tx_slot_meta_upd_add: one entry for each block, first filled from its header
MetaUpdAdd(id, end) ==
    LET found == {n \in DOMAIN list : list[n].id = id}
        grow(m) == [m EXCEPT !.ver = @ + 1, !.len = Larger(@, end)]
    IN IF found = {}
       THEN Append(list, grow([id |-> id, ver |-> blk[id].ver, len |-> blk[id].vlen]))
       ELSE [n \in DOMAIN list |-> IF n \in found THEN grow(list[n]) ELSE list[n]]

\* A fault: the walk goes on behind the entry, as the ones of abort and
\* tx_log_check do, and not behind the payload.
ExecPatchStride ==
    /\ Executing({UPDINPLACE}) /\ pos' = pos + Entry
    /\ UNCHANGED <<blk, free, log, size, pc, list, view, ops, begun>>

\* tx_update_block: the payload is copied into the block, whose header waits.
ExecPatch ==
    /\ Executing({UPDINPLACE})
    /\ LET n == Id2 \div Shift
           start == MaxKey + (Id2 % Shift)
       IN /\ pos' = pos + Entry + n
          /\ blk' = [blk EXCEPT ![Id1].area =
                        [i \in Area |-> IF start <= i /\ i < start + n
                                        THEN log[pos + Entry + i - start] ELSE @[i]]]
          /\ list' = MetaUpdAdd(Id1, (Id2 % Shift) + n)
    /\ UNCHANGED <<free, log, size, pc, view, ops, begun>>

ExecSkip ==
    /\ pc = "execute" /\ pos < size /\ Type \notin {UPDATE, REMOVE, UPDINPLACE}
    /\ pos' = pos + Entry
    /\ UNCHANGED <<blk, free, log, size, pc, list, view, ops, begun>>

\* A fault: the length grows by that of the list's entry.
RefreshAdds(b, m) ==
    [WithSum([b EXCEPT !.ver = m.ver], MaxKey + m.len) EXCEPT !.vlen = @ + m.len]

\* The header of a block that small updates have changed
Refresh(b, m) == WithSum([b EXCEPT !.ver = m.ver, !.vlen = m.len], MaxKey + m.len)

\* tx_slot_meta_upd_process and backend_tx_set_zero, which leaves the words
ExecEnd ==
    /\ pc = "execute" /\ pos >= size /\ pc' = "idle" /\ pos' = 0
    /\ blk' = [id \in Ids |->
                  IF \E n \in DOMAIN list : list[n].id = id
                  THEN Refresh(blk[id], list[CHOOSE n \in DOMAIN list : list[n].id = id])
                  ELSE blk[id]]
    /\ list' = <<>> /\ view' = RefAfter /\ ops' = <<>>
    /\ UNCHANGED <<free, log, size, begun>>

-----------------------------------------------------------------------------
\* The block that an entry has filled, 0 for none
NewId == IF Type = WRITE THEN Id1 ELSE IF Type = UPDATE THEN Id2 ELSE 0

\* Transactions with payloads are undone only where this is asked for.
MayUndo ==
    \/ "shift" \in Workload
    \/ \A n \in DOMAIN ops : ops[n].type = UPDINPLACE => ops[n].kv.data = <<>>

\* pmb_tx_abort: a walk in strides of one entry.  A number beyond the pool
\* leads backend_direct to no block.
TxAbort ==
    /\ pc = "open" /\ MayUndo /\ pc' = "abort" /\ pos' = 0
    /\ UNCHANGED <<blk, free, log, size, list, view, ops, begun>>

AbortEntry ==
    /\ pc = "abort" /\ pos < size /\ pos' = pos + Entry
    /\ blk' = [id \in Ids |-> IF id = NewId THEN SetZero(blk[id]) ELSE blk[id]]
    /\ free' = free \cup ({NewId} \cap Ids)
    /\ UNCHANGED <<log, size, pc, list, view, ops, begun>>

AbortEnd ==
    /\ pc = "abort" /\ pos >= size /\ pc' = "idle" /\ pos' = 0
    /\ ops' = <<>>
    /\ UNCHANGED <<blk, free, log, size, list, view, begun>>

\* The process ends before pmb_tx_execute.
Crash ==
    /\ pc = "open" /\ MayUndo /\ pc' = "check" /\ pos' = 0
    /\ UNCHANGED <<blk, free, log, size, list, view, ops, begun>>

\* tx_log_check stops at an entry without numbers.
CheckOver == pos >= size \/ (Id1 = 0 /\ Id2 = 0)

\* Its walk, in strides of one entry.  It never recognises a commit (see
\* Store), so it undoes.  The slot is not the first, which it leaves out.
CheckEntry ==
    /\ pc = "check" /\ ~ CheckOver /\ pos' = pos + Entry
    /\ blk' = [id \in Ids |-> IF id = NewId THEN SetZero(blk[id]) ELSE blk[id]]
    /\ UNCHANGED <<free, log, size, pc, list, view, ops, begun>>

\* recovery fills free_list anew.
CheckEnd ==
    /\ pc = "check" /\ CheckOver /\ pc' = "idle" /\ pos' = 0
    /\ free' = {id \in Ids : ~ Verifies(blk[id])}
    /\ list' = <<>> /\ ops' = <<>>
    /\ UNCHANGED <<blk, log, size, view, begun>>

Next ==
    \/ Begin
    \/ \E kv \in Args : TPutNew(kv)
    \/ \E id \in Ids, kv \in Args : TPutUpdate(id, kv)
    \/ \E id \in Ids, kv \in Args : TPutSmall(id, kv)
    \/ \E id \in Ids : TDel(id)
    \/ TxExecute \/ ExecRelease \/ ExecPatch \/ ExecSkip \/ ExecEnd
    \/ TxAbort \/ AbortEntry \/ AbortEnd
    \/ Crash \/ CheckEntry \/ CheckEnd

Spec == Init /\ [][Next]_vars

-----------------------------------------------------------------------------
\* Types of the variables.
TypeOK ==
    /\ \A id \in Ids : blk[id].area \in [Area -> Nat] /\ blk[id].klen \in 0 .. MaxKey
                       /\ blk[id].vlen \in 0 .. MaxVal /\ blk[id].ver \in Nat
    /\ free \subseteq Ids
    /\ log \in [LogWords -> Nat] /\ size \in LogWords /\ pos \in LogWords
    /\ pc \in {"idle", "open", "execute", "abort", "check"}
    /\ \A n \in DOMAIN list : list[n].id \in Ids
    /\ DOMAIN view \subseteq Ids

\* Where the n-th operation lies in the log
Place ==
    LET P[n \in 1 .. Len(ops) + 1] ==
            IF n = 1 THEN 0
            ELSE P[n - 1] + Entry
                 + (IF ops[n - 1].type = UPDINPLACE THEN Len(ops[n - 1].kv.data) ELSE 0)
    IN P

\* The walk of tx_slot_execute meets the operations of the transaction, all of
\* them and nothing else, with the numbers, offsets and payloads that were
\* logged, whatever lengths the payloads have and whatever earlier
\* transactions have left in the slot.
ExecuteExact ==
    pc = "execute" =>
        \E n \in DOMAIN Place :
            /\ pos = Place[n]
            /\ (n = Len(ops) + 1) = (pos >= size)
            /\ n <= Len(ops) =>
                  /\ Type = ops[n].type /\ Id1 = ops[n].id1
                  /\ Type = UPDATE => Id2 = ops[n].id2
                  /\ Type = UPDINPLACE =>
                        /\ Id2 = Len(ops[n].kv.data) * Shift + ops[n].kv.off
                        /\ \A j \in DOMAIN ops[n].kv.data :
                              log[pos + Entry + j - 1] = ops[n].kv.data[j]

\* Between transactions pmb_get of every object gives the key, the length, the
\* version and every byte that clients have written into it, by whatever
\* sequence of writes, updates at an offset and small updates.
ReadsAsWritten ==
    pc = "idle" =>
        \A id \in DOMAIN view :
            /\ blk[id].klen = view[id].klen
            /\ blk[id].vlen = view[id].len
            /\ blk[id].ver = view[id].ver
            /\ \A j \in DOMAIN view[id].bytes : blk[id].area[MaxKey + j] = view[id].bytes[j]

\* A byte of an object that no client has written reads as zero.  It does not:
\* backend_set_zero leaves the end of the value in the block, and a later
\* write at an offset takes it for its own.
GapsBlank ==
    pc = "idle" =>
        \A id \in DOMAIN view : \A j \in 0 .. view[id].len - 1 :
            j \in DOMAIN view[id].bytes \/ blk[id].area[MaxKey + j] = 0

\* Between transactions recovery would keep the objects, all of them and
\* nothing else, and free what is free: the checksum of every object covers
\* what was patched behind its back, and every block of an aborted, replaced
\* or removed object is back on the list and no longer verifies.
ScanExact ==
    pc = "idle" =>
        \A id \in Ids : /\ Verifies(blk[id]) <=> id \in DOMAIN view
                        /\ id \in free <=> id \notin DOMAIN view

\* pmb_tx_abort clears every block that the transaction has written.  It does
\* not when a payload that is no multiple of an entry comes before the entry
\* of the block.
AbortClears ==
    [][AbortEnd => \A n \in DOMAIN ops :
          ops[n].type \in {WRITE, UPDATE} => blk[ops[n].id2].sum = NoSum]_vars

\* tx_slot_meta_upd_add keeps one entry for each block that the transaction
\* updates in place, however often it does, and none of an earlier transaction.
\* The list therefore overflows only when one transaction updates more blocks
\* than it has entries.
ListFits == Len(list) <= Cardinality(Patched)

\* The list stays within its entries.  Nothing refuses the block that is one too
\* many.
ListInBounds == Len(list) <= MetaCap
=============================================================================

------------------------------- MODULE Layout -------------------------------
(***************************************************************************)
(* Where backend.c puts things in the pool file: the superblock, the slots *)
(* of the transaction log, the data blocks and the meta blocks, in this    *)
(* order.  Addresses are offsets from the start of the mapped file.        *)
(*                                                                         *)
(* An option record has the fields of pmb_opts that matter here:           *)
(*    data_size, meta_size   bytes for the two regions                     *)
(*    entries                write_log_entries, the number of slots        *)
(*    key, val, mkey, mval   the four maximal lengths                      *)
(*    sync                   sync_type                                     *)
(***************************************************************************)
EXTENDS Integers

CONSTANTS
    Align,      \* PMB_FORMAT_DATA_ALIGN, 4096 in the code
    SuperLen,   \* sizeof(struct _backend)
    HdrLen,     \* sizeof(pmb_data_hdr)
    LogSize,    \* TX_LOG_SIZE, 128 MB in the code
    Word        \* 2^64: sizes and pointers are taken modulo Word

ASSUME AlignAssumption == Align \in Nat \ {0}
ASSUME LenAssumption == SuperLen \in Nat \ {0} /\ HdrLen \in Nat \ {0} /\ LogSize \in Nat
ASSUME WordAssumption == Word \in Nat \ {0}

Null == -1

roundup(n) == ((n + Align - 1) \div Align) * Align

\* The block sizes that backend_open and backend_create compute.
DataBlockSize(o) == roundup(HdrLen + o.key + o.val)
MetaBlockSize(o) == roundup(HdrLen + o.mkey + o.mval)
SlotSize(o) == roundup(LogSize \div o.entries)

\* What a new pool saves of the options.
Superblock(o) ==
    [bsize |-> DataBlockSize(o), meta_bsize |-> MetaBlockSize(o),
     tx_slots_count |-> o.entries, tx_slot_size |-> SlotSize(o)]

\* What an existing pool compares with its superblock before it is used.
Accepts(sb, o) == DataBlockSize(o) = sb.bsize /\ MetaBlockSize(o) = sb.meta_bsize

-----------------------------------------------------------------------------
\* A fault: the data region starts where the log does.
MapOverLog(sb, o) ==
    LET tx_log == roundup(SuperLen)
        nlba == (o.data_size - tx_log) \div sb.bsize
        meta == tx_log + nlba * sb.bsize
        metasize == o.data_size + o.meta_size - meta
    IN [tx_log |-> tx_log, data |-> tx_log, datasize |-> o.data_size - tx_log,
        data_nlba |-> nlba, meta |-> meta, metasize |-> metasize,
        meta_nlba |-> metasize \div sb.meta_bsize]

\* The run-time part of the superblock, which every open computes again: the
\* block sizes are the saved ones, the log's length is that of the options.
Map(sb, o) ==
    LET tx_log == roundup(SuperLen)
        data == tx_log + o.entries * SlotSize(o)
        datasize == (o.data_size - data) % Word
        nlba == datasize \div sb.bsize
        meta == (data + nlba * sb.bsize) % Word
        metasize == (o.data_size + o.meta_size - meta) % Word
    IN [tx_log |-> tx_log, data |-> data, datasize |-> datasize, data_nlba |-> nlba,
        meta |-> meta, metasize |-> metasize, meta_nlba |-> metasize \div sb.meta_bsize]

\* backend_direct: where a block number leads.
direct(sb, m, id) ==
    IF id < m.data_nlba THEN m.data + id * sb.bsize
    ELSE IF id < m.data_nlba + m.meta_nlba
         THEN m.meta + (id - m.data_nlba - 1) * sb.meta_bsize
         ELSE Null

\* backend_tx_direct: where a slot index leads, by the saved count and size.
tx_direct(sb, m, i) == IF i < sb.tx_slots_count THEN m.tx_log + i * sb.tx_slot_size ELSE Null

\* The bytes that backend_persist_all synchronises, from tx_log on.
PersistedTo(m) == m.tx_log + m.datasize + m.metasize

-----------------------------------------------------------------------------
Options ==
    [data_size : Nat, meta_size : Nat, entries : Nat, key : Nat, val : Nat,
     mkey : Nat, mval : Nat, sync : Nat]

\* Options whose two regions hold the log, two data blocks and a meta block.
\* A slot has at least a byte: write_log_entries is a uint8_t in backend_open.
Fits(o) ==
    LET data == roundup(SuperLen) + o.entries * SlotSize(o)
    IN /\ o.entries >= 1 /\ o.entries <= LogSize
       /\ data + 2 * DataBlockSize(o) <= o.data_size
       /\ o.meta_size >= MetaBlockSize(o)
       /\ o.data_size + o.meta_size < Word

\* Numbers that a pool with these options can hand out, the first meta block,
\* which lies on a data block, left out.
Ids(m) == 1 .. m.data_nlba - 1
MetaIds(m) == m.data_nlba + 1 .. m.data_nlba + m.meta_nlba - 1

BlockSizeOf(sb, m, id) == IF id < m.data_nlba THEN sb.bsize ELSE sb.meta_bsize
=============================================================================

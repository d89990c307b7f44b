------------------------------- MODULE MCPool -------------------------------
(***************************************************************************)
(* Pool with options that vary in the fields a run is about.               *)
(***************************************************************************)
EXTENDS Pool

CONSTANTS
    DataPages, MetaPages,   \* the sizes of the two regions, in pages
    Entries,                \* values of write_log_entries
    Syncs                   \* sync types

OptsWith(lengths) ==
    {[data_size |-> DataPages * Align, meta_size |-> MetaPages * Align, entries |-> e,
      key |-> l[1], val |-> l[2], mkey |-> 1, mval |-> 1, sync |-> s] :
        e \in Entries, l \in lengths, s \in Syncs}

\* Blocks of one size; of two sizes; and one size divided in two ways between
\* key and value.
Same == OptsWith({<<1, 1>>})
TwoSizes == OptsWith({<<1, 1>>, <<1, 4>>})
OneSize == OptsWith({<<1, 2>>, <<2, 1>>})

\* Pools that only the thread synchronises have many more states.
TxBound == [s \in SyncTypes |-> IF s = THSYNC THEN 2 ELSE 3]
=============================================================================

CONSTANTS
    Align = 4
    SuperLen = 3
    HdrLen = 1
    LogSize = 8
    Word = 1024
    NPages = 10
    DataPages = 9
    MetaPages = 1
    Vals = {v}
    Entries = {1, 3}
    Syncs = {0}
    Opts <- Same
    MaxOps = 1
    MaxTx <- TxBound
    Power = FALSE
    Torn = FALSE
    Overlap = FALSE
SPECIFICATION Spec
INVARIANTS
    Survives

CONSTANTS
    Align = 4
    SuperLen = 3
    HdrLen = 1
    LogSize = 8
    Word = 1024
    NPages = 10
    DataPages = 9
    MetaPages = 1
    Vals = {v}
    Entries = {2}
    Syncs = {0, 2, 3}
    Opts <- TwoSizes
    MaxOps = 1
    MaxTx <- TxBound
    Power = TRUE
    Torn = FALSE
    Overlap = FALSE
SPECIFICATION Spec
INVARIANTS
    TypeOK
    Survives
    LogAhead
    ThreadMapped
PROPERTIES
    BecomesSafe
    Closes

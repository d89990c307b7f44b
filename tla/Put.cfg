CONSTANTS
    NBlocks = 2
    MaxKey = 2
    MaxVal = 4
    KeyLens = {1}
    Shapes <- Five
    Words = {}
    Workload = {}
    MetaCap = 2
    MaxOps = 3
    MaxTx = 2
SPECIFICATION Spec
INVARIANTS
    TypeOK
    ExecuteExact
    ReadsAsWritten
    ScanExact
    ListFits
CHECK_DEADLOCK FALSE

CONSTANTS
    NBlocks = 2
    MaxKey = 2
    MaxVal = 4
    KeyLens = {1}
    Shapes <- Five
    Words = {1}
    Workload = {"shift"}
    MetaCap = 2
    MaxOps = 3
    MaxTx = 2
SPECIFICATION Spec
PROPERTY AbortClears
CHECK_DEADLOCK FALSE

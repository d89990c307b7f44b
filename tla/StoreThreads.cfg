CONSTANTS
    D = 3
    M = 2
    Vals = {v1, v2}
    None = None
    Clients = {a, b}
    NSlots = 2
    Workload = {"meta", "small", "blank", "own", "abort"}
    Fresh = FALSE
    Clean = {3}
    MaxLog = 2
    MaxVer = 2
SPECIFICATION Spec
VIEW View
SYMMETRY Symmetry
INVARIANTS
    TypeOK
    SettledIntact
    SlotExclusive
    BlockExclusive
    FreeIsBlank
    CountExact

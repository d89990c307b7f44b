CONSTANTS
    D = 4
    M = 1
    Vals = {v1, v2}
    None = None
    Clients = {a, b}
    NSlots = 2
    Workload = {"small", "crash", "resolve"}
    Fresh = FALSE
    Clean = {3}
    MaxLog = 2
    MaxVer = 2
SPECIFICATION Spec
VIEW View
SYMMETRY Symmetry
INVARIANTS
    SettledIntact
    BlockExclusive
    FreeIsBlank
    CountExact
PROPERTIES
    RolledBack

CONSTANTS
    D = 4
    M = 1
    Vals = {v1, v2}
    None = None
    Clients = {a}
    NSlots = 2
    Workload = {"meta", "small", "own", "abort", "late", "early", "resolve", "blank"}
    Fresh = FALSE
    Clean = {3}
    MaxLog = 4
    MaxVer = 2
SPECIFICATION Spec
VIEW View
SYMMETRY Symmetry
INVARIANTS
    SettledIntact
    FreeIsBlank

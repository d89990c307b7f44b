CONSTANTS
    D = 3
    M = 1
    Vals = {v1, v2}
    None = None
    Clients = {a, b}
    NSlots = 2
    Workload = {"crash"}
    Fresh = FALSE
    Clean = {3}
    MaxLog = 2
    MaxVer = 2
SPECIFICATION Spec
SYMMETRY Symmetry
PROPERTIES
    CommittedKept

CONSTANTS
    Readers = {r1, r2}
    Ids <- IdsDef
    Together = FALSE
    MaxGen = 2
    MaxOpen = 2
SPECIFICATION Spec
INVARIANT Enumerates
CHECK_DEADLOCK FALSE

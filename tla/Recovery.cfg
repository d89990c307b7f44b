CONSTANTS
    D = 5
    M = 2
    N = 3
SPECIFICATION Spec
CHECK_DEADLOCK FALSE
INVARIANTS
    TypeOK
    NoOverlap
PROPERTIES
    ImplementsScan
    Returns

SPECIFICATION Spec
CONSTANTS
    c1 = c1
    c2 = c2
    N = 1
    Kind <- OnlyInner
    Proc = {c1, c2}
    MaxRetry = 0
    Terminable = {1}
CHECK_DEADLOCK FALSE
INVARIANTS
    RevokedStops

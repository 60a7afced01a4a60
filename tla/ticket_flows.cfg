SPECIFICATION FairSpec
CONSTANTS
    c1 = c1
    c2 = c2
    N = 3
    Kind <- PauseInnerPause
    Proc = {c1, c2}
    MaxRetry = 1
    Terminable = {2, 3}
CHECK_DEADLOCK FALSE
INVARIANTS
    InOrder
    ConfirmedFirst
    StartedOnce
    LaunchedOnce
    NoOrphan
    TicketAgrees
PROPERTIES
    TicketEnds

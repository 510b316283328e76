CONSTANTS
    Proc = {p1, p2, p3}
    NoProc = NoProc
    MaxToken = 4
    Slow = FALSE
    Torn = FALSE
    Takeover = FALSE
    w1 = w1
    w2 = w2
    Worker = {w1, w2}
    NoWorker = NoWorker
    Duties <- MCDuties
    MaxLogin = 3
    MaxFaults = 1
    Window = 1
SPECIFICATION AccountSpec

    
PROPERTIES
    ReleasedByLast
    OwnershipSpec
    MarkedRightly
    RotationSurvives
    FailuresSurface
CHECK_DEADLOCK FALSE

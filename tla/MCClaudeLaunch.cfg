CONSTANTS
    p1 = p1
    p2 = p2
    a1 = a1
    a2 = a2
    Proc <- MCProc
    Account <- MCAccount
    MaxId = 2
    MaxIssued = 2
    MaxTries = 1
    MaxTurns = 3
    Slot = {s1}
    None = None
    Machine = {m1, m2}
    Nobody = nobody
    Sleepers = {m2}
    Stallers = {m2}
    MaxToken = 4
    MaxVersion = 4
SPECIFICATION LaunchSpec
INVARIANTS
    OneAccount
    FilesWhole
    RunsAsOwner
    LoginKept
PROPERTIES
    NothingRolledBack
    LoginCurrent
CHECK_DEADLOCK FALSE
SYMMETRY Symmetry

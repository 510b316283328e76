CONSTANTS
    Machine = {m1, m2}
    Nobody = nobody
    Sleepers = {}
    Stallers = {}
    MaxToken = 3
    MaxVersion = 4
SPECIFICATION SessionSpec
INVARIANT
    NeedsYouCorrect
CHECK_DEADLOCK FALSE

CONSTANTS
    Machine = {m1, m2}
    Nobody = nobody
    Sleepers = {m1, m2}
    Stallers = {}
    MaxToken = 3
    MaxVersion = 4
SPECIFICATION SessionSpec
PROPERTY
    SupersededLoginStopped
CHECK_DEADLOCK FALSE

CONSTANTS
    Runner = {r1}
    Watcher = {w1}
    Nobody = nobody
    NumLabels = 3
    Expiry <- MCExpiry
    Usage <- MCUsage
    First <- MCFirst
    Moving = {1}
    Threshold = 20
    MaxCalls <- MCCalls
    MaxEvents = 2
    MaxTime = 1
    Caller = {c1, c2}
    Account = {a1, a2}
    NoAccount = NoAccount
    Policies <- SomePolicies
    ShortIds = FALSE
    MaxCopies = 2
    MaxAppends = 1
    MaxEra = 1
SPECIFICATION CodexSpec
INVARIANTS
    NoEarlyRepeat
    Unlinkable
    CopyFaithful
PROPERTIES
    
    WatchForCause
CHECK_DEADLOCK FALSE
SYMMETRY Symmetry

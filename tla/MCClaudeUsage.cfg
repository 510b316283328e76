CONSTANTS
    Status = {s1, s2}
    Label = {k1, k2}
    Owner = {o1, o2, o3}
    Nothing = Nothing
    MaxTime = 2
    MaxWrite = 1
    MaxMoves = 2
    FreshFor = 1
    KeepFor = 1
    LockStale = 0
    Slow = FALSE
    Gap = FALSE
SPECIFICATION UsageSpec
INVARIANTS
    LowerBound
    NotFound
    

    
CHECK_DEADLOCK FALSE
SYMMETRY Symmetry

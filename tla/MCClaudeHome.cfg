CONSTANTS
    Identity = {a1, a2}
    NoAccount = NoAccount
    Label = {l1, l2}
    NoLabel = NoLabel
    Process = {p1, p2}
    NoProcess = NoProcess
    MaxExpiry = 2
    MaxNow = 1
    MaxCommands = 2
    Tears = FALSE
    Apart = FALSE
SPECIFICATION HomeSpec

    
    
PROPERTY
    TokensKept
CHECK_DEADLOCK FALSE
SYMMETRY Symmetry

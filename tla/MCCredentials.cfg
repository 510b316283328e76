CONSTANTS
    Handle = {h1, h2}
    Token = {t1, t2}
    NoToken = NoToken
    Ttl = 2
    MaxTime = 3
    MaxInFlight = 2
    Process = {p1, p2}
    Nobody = nobody
    MaxToken = 3
    MaxVersion = 3
SPECIFICATION CredentialSpec
INVARIANTS
    EntitledHandleOwnsKey
    BlockedOnlyWhenSpent
PROPERTIES
    OwnershipSpec
    CredentialKept
CHECK_DEADLOCK FALSE
SYMMETRY Symmetry

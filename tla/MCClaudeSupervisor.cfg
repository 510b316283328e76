CONSTANTS
    MaxRequests = 5
SPECIFICATION Spec
INVARIANTS
    HeldMeansStopped
    NothingOutlives
PROPERTY
    LaunchEnds
CHECK_DEADLOCK FALSE

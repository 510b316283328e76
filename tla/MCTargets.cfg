SPECIFICATION TargetsSpec
PROPERTIES
    CommandsCompose
    
    FleetKept
CHECK_DEADLOCK FALSE
CONSTANTS
    c1 = c1
    c2 = c2
    Command = {c1, c2}
    Nobody = nobody
    Path = {ours, theirs}
    NumProviders = 2
    NumLabels <- MCLabels
    Balanced = {2}
    RootProvider = 2
    Plans <- MCPlans
    MaxEvents = 1
    MaxNative = 2
    NumAgents = 3
    NumPool = 3
    NumClaude = 1
    Excluded = {}
    Headroom <- MCHeadroom
    Tokens = {0, 2}
    Assignments <- MCAssignments
    MaxRebalances = 3
    MaxUpsets = 2
    watch = watch
    other = other
    Watch = watch
    Fleet = {watch, other}
    NumHomes = 2
    NumFleetLabels = 2
    Percent <- MCPercent
    HomeTokens = {2}
    MaxFleetJobs = 1
    MaxFleetEvents = 2

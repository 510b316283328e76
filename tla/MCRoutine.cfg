CONSTANTS
    l1 = l1 l2 = l2 l3 = l3
    f1 = f1 f2 = f2 f3 = f3 f4 = f4
    r1 = r1 r2 = r2
    Nobody = Nobody
    Launch <- Launches
    Fire <- Fires
    Routine <- Routines
    Cases <- LaunchCases
    RoutineOf <- RoutineOfFire
    MaxKills = 1
    MaxReboots = 1
SPECIFICATION Spec
INVARIANTS
    PromptedOnce
    NoInterference
    
CHECK_DEADLOCK FALSE

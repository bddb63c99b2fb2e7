SPECIFICATION FairSpec
CONSTANTS
    N = 2
    E = 2
    S = 2
    Platforms <- BothPlatforms
    Signals = TRUE
    StopWindow <- Waiting
    MaxRuns = 1
CHECK_DEADLOCK FALSE
INVARIANTS
    TypeOK
    OneStopper
    WorkersJoined
    OnlySelfJoinTerminates
    ServingWorkersRun
PROPERTIES
    ImplementsContract
    StopEndsRun

SPECIFICATION Spec
CONSTANTS
    N = 2
    E = 0
    S = 1
    Platforms <- Posix
    Signals = TRUE
    StopWindow <- Never
    MaxRuns = 1
CHECK_DEADLOCK FALSE
INVARIANT NoTerminate

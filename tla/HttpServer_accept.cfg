SPECIFICATION ServerFairSpec
CONSTANTS
    run = run
    stop = stop
    Callers <- TwoCallers
    StopDuringStart = FALSE
    MaxStarts = 3
    MaxAccepts = 3
CHECK_DEADLOCK FALSE
INVARIANTS
    TypeOK
    AcceptLoopAlive
    StoppedIsClosed
PROPERTY StopEndsLoop

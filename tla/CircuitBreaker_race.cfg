SPECIFICATION FairSpec
CONSTANTS
    c1 = c1
    c2 = c2
    c3 = c3
    Callers <- ThreeCallers
    Unreliable <- TwoCallers
    consecutive_failures_to_open = 2
    open_interval = 2
    half_open_max_inflight = 2
    consecutive_successes_to_close = 2
    MaxTime = 4
INVARIANTS
    TypeOK
    NoSlotLeak
    OvershootIsStaleReports
    ThresholdsActedOn
PROPERTIES
    ImplementsContract
    HalfOpenResolves
    OpenEnds

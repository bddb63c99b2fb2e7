SPECIFICATION Spec
CONSTANTS
    Concurrency = 1
    kBuckets = 3
    Latencies <- SomeLatencies
    MaxAnswers = 1
    MaxErrors = 1
    MaxLate = 1
CHECK_DEADLOCK FALSE
INVARIANT WarmupSessionsStop

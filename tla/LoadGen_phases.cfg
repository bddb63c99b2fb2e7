SPECIFICATION FairSpec
CONSTANTS
    Concurrency = 1
    kBuckets = 3
    Latencies <- SomeLatencies
    MaxAnswers = 3
    MaxErrors = 1
    MaxLate = 1
CHECK_DEADLOCK FALSE
INVARIANTS
    TypeOK
    LoadSustained
    PercentilesWithinBucket
PROPERTY RequestsEnd

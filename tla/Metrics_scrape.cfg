SPECIFICATION Spec
CONSTANTS
    t1 = t1
    t2 = t2
    p1 = p1
    s1 = s1
    s2 = s2
    Threads <- TwoThreads
    Paths <- OnePath
    Statuses <- TwoStatuses
    Latencies <- SomeLatencies
    bounds <- UnsortedBounds
    MaxRequests = 3
    MaxScrapes = 2
INVARIANTS
    CountersAddUp
    CountersBehindHistograms
    BucketsCountObservations
PROPERTY ScrapesMonotone

SPECIFICATION Spec
CONSTANTS
    Clients = {c1, c2, c3}
    Keys <- ThreeKeys
    Shards = 2
    ShardIndex <- TwoShards
    Threads = 2
    MaxRequests = 5
SYMMETRY ClientSymmetry
CHECK_DEADLOCK FALSE
INVARIANTS
    ReadsAreFresh
    SizeWasReal

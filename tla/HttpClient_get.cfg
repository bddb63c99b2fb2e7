SPECIFICATION GetFairSpec
CONSTANTS
    Endpoints = 3
    MaxReads = 3
INVARIANT ErrorEndsChain
PROPERTIES
    DeadlineUnblocks
    GetReturns

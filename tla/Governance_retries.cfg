SPECIFICATION Spec
CONSTANTS
    Callers = {c1, c2}
    Services = {"a", "b"}
    Policies <- SomePolicies
    EndpointLists <- SomeLists
    CursorRange = 5
    MaxSets = 2
    LongMax = 7
SYMMETRY CallerSymmetry
CHECK_DEADLOCK FALSE
INVARIANTS
    RotationCovers
    BackoffInRange

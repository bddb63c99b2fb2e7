SPECIFICATION FairSpec
CONSTANTS
    MaxRequests = 3
    Middlewares = 2
    NextCalls = {0, 1}
CHECK_DEADLOCK FALSE
INVARIANTS
    AnswersInOrder
    NoAnswerAfterClose
    HandlerIsGuarded
    TraceEchoed
PROPERTIES
    PipelineIsServed
    SessionEnds

SPECIFICATION GetFairSpec
CONSTANTS
    Endpoints = 3
    MaxReads = 3
PROPERTY AnswerIsReturned

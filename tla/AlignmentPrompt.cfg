\* Answers arrive before the request times out (AnswerDelay < AlignmentTimeout).
CONSTANTS
    HeartbeatTimeout = 3
    AlignmentTimeout = 2
    ProgressTimeout = 3
    MaxEstimateAge = 1
    AlignmentAttempts = 2
    ResetModulus = 1
    AnswerDelay = 1
    MaxNow = 6
    MaxGeneration = 2
SPECIFICATION ExchangeSpec
INVARIANTS
    ExchangeInv
PROPERTIES
    AnswerMeetsItsRequest
    NothingOutstandingAtRestart

\* An answer may arrive after its request timed out.
CONSTANTS
    HeartbeatTimeout = 3
    AlignmentTimeout = 2
    ProgressTimeout = 3
    MaxEstimateAge = 1
    AlignmentAttempts = 2
    ResetModulus = 2
    AnswerDelay = 4
    MaxNow = 6
    MaxGeneration = 2
SPECIFICATION ExchangeSpec
PROPERTY
    NothingOutstandingAtRestart

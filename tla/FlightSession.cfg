\* Timeouts keep the order of the defaults (progress > heartbeat > alignment >
\* estimate age) so that every expiry can come first.
CONSTANTS
    HeartbeatTimeout = 3
    AlignmentTimeout = 2
    ProgressTimeout = 4
    MaxEstimateAge = 1
    AlignmentAttempts = 2
    ResetModulus = 2
    MaxNow = 8
    MaxGeneration = 2
SPECIFICATION Spec
INVARIANTS
    ArmedPublicationIsAligned
    RequestResolvedInTime
    SessionInv
PROPERTIES
    RestartOnlyWhenAnswered

\* Two generations: a capture and its restart.
CONSTANTS
    ResetModulus = 1
    MaxGeneration = 2
SPECIFICATION Spec
INVARIANTS
    NoPoseDuringCleanup
    CaptureStartsClean
    OutcomeIsEarned
PROPERTIES
    ProcessEnds
CHECK_DEADLOCK FALSE

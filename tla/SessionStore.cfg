CONSTANTS
    HeartbeatTimeout = 3
    AlignmentTimeout = 2
    ProgressTimeout = 4
    MaxEstimateAge = 1
    AlignmentAttempts = 2
    ResetModulus = 3
    Process = {p1, p2}
    NoProcess = NoProcess
    Absent = Absent
    Garbage = Garbage
    MaxReservations = 6
    MaxGeneration = 3
SPECIFICATION Spec
INVARIANTS
    StoreInv
    LinkByteIsReserved
PROPERTIES
    SuccessiveSessionsDiffer

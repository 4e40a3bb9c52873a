CONSTANTS
    HeartbeatTimeout = 2
    AlignmentTimeout = 2
    ProgressTimeout = 3
    MaxEstimateAge = 1
    AlignmentAttempts = 2
    ResetModulus = 2
    HeartbeatPeriod = 2
    PacketSize = 2
    MaxNow = 3
    MaxGeneration = 2
SPECIFICATION Spec
INVARIANTS
    PacketsStayWhole
    MeasurementsArriveFresh
    NothingEscapes
    LinkInv
PROPERTIES
    MeasurementsOrdered
    KeepsContract

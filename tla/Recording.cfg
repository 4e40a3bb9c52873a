\* Two captures over one disk that may stay stuck, and two producers: a record
\* too large, and two that fill the bytes.
CONSTANTS
    Stream = {imu, camera}
    Size = {1, 2, 3}
    ByteLimit = 2
    RecordLimit = 2
    MaxRecords = 2
    Captures = 2
SPECIFICATION Spec
INVARIANTS
    CompleteMeansAllWritten
    RecordingInv
    OneLiveWriter
PROPERTIES
    LateFinishNeverCompletes
    CloseReturns
    WriterEnds
CHECK_DEADLOCK FALSE

\* A sweep of three shutters, one beyond the limit, or a measured product below,
\* in and above the range; two attempts.
CONSTANTS
    Scale = {1, 3}
    TargetScale = 2
    QueueLimit = 3
    BatchLimit = 2
    LastRow = 4
    Shutters = {2, 3, 5}
    MaxShutter = 3
    FixedShutter = 5
    Clipped = {1, 2}
    Mean = {10, 40, 60}
    Product = {1, 3, 8, 96, 97}
    SettleFrames = 1
    ProbeFrames = 3
    ProbePatience = 4
    MaxAttempts = 2
SPECIFICATION SetupSpec
INVARIANTS
    SensorsAreReleased
    ExposureIsSound
    RowsArePaired
CHECK_DEADLOCK FALSE

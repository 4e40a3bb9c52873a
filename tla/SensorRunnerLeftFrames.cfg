\* The bounds of SensorRunner.cfg.
CONSTANTS
    Start = 1
    Offsets = {0, 1}
    MaxCamQueue = 1
    MaxRows = 1
    StartGrace = 1
    ImuLimit = 1
    CameraLimit = 1
    FrameGrace = 1
    LastSample = 2
    MaxTime = 4
SPECIFICATION RunnerSpec
PROPERTIES
    LeftFramesGetASecond
CHECK_DEADLOCK FALSE

\* Either kind of frames; the sensor that falls silent gives nothing after tick 1,
\* which leaves time for each limit to pass.
CONSTANTS
    Start = 1
    Offsets = {0, 1}
    MaxCamQueue = 1
    MaxRows = 1
    StartGrace = 1
    ImuLimit = 1
    CameraLimit = 1
    FrameGrace = 1
    LastSample = 2
    MaxTime = 4
SPECIFICATION RunnerSpec
INVARIANTS
    RunnerInv
    FramesAccounted
PROPERTIES
    FirstErrorReported
    CaptureEnds
CHECK_DEADLOCK FALSE

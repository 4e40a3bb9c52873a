\* Two starts: a probe and the one after it, on two buffers.
CONSTANTS
    Requests = {r1, r2}
    QueueSize = 2
    Warmup = 1
    Settle = 2
    Patience = 4
    MaxStarts = 2
    MaxStamp = 5
SPECIFICATION Spec
INVARIANTS
    CaptureInv
    BuffersOutliveCallbacks
    NothingLostSilently
PROPERTIES
    CallsReturn
CHECK_DEADLOCK FALSE

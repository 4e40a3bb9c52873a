\* The source sets of MCExtNavFusion; two receivers, and a generation after the first.
CONSTANTS
    SourceSets <- FlightSets
    Receivers = {r1, r2}
    MaxGeneration = 1
SYMMETRY ReceiversAlike
SPECIFICATION Spec
INVARIANTS
    FusionInv
PROPERTIES
    VerticalNeedsHorizontal
    FrameChangesReset

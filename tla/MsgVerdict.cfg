\* Streams within the parser's limits, written in every way.
CONSTANTS
    HdrLen = 2
    MaxBytes = 100
    BlockMax = 100
    EndWidth = 1000
    Sids = {0, 1, 2}
    Lens = {0, 1, 2}
    MaxFrames = 3
    Streams <- MCStreams
    ResetsCork = TRUE
    Fragments = FALSE
    GarbageMax = 0
SPECIFICATION Spec
INVARIANTS TypeOK DecodesUnits ReadBeforePassed
PROPERTY NoStall
CHECK_DEADLOCK FALSE

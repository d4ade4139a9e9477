\* The verdict of the example, which never clears the cork.
CONSTANTS
    HdrLen = 2
    MaxBytes = 100
    BlockMax = 100
    EndWidth = 1000
    Sids = {0, 1, 2}
    Lens = {0, 1, 2, 3, 5}
    MaxFrames = 3
    Streams <- MCStreams
    ResetsCork = FALSE
    Fragments = FALSE
    GarbageMax = 0
SPECIFICATION Spec
PROPERTY NoStall
CHECK_DEADLOCK FALSE

\* Blocks that cannot be read, or exceed the limits of the parser.
CONSTANTS
    HdrLen = 2
    MaxBytes = 6
    BlockMax = 3
    EndWidth = 1000
    Sids = {0, 1, 2}
    Lens = {0, 1, 2, 3, 5}
    MaxFrames = 3
    Streams <- MCBadStreams
    ResetsCork = TRUE
    Fragments = FALSE
    GarbageMax = 2
SPECIFICATION Spec
INVARIANTS DecodesUnits GivesUpOnlyOnUnreadable
CHECK_DEADLOCK FALSE

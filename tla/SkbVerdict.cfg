\* Streams arriving in every way, in sk_buffs longer than the parser walks.
CONSTANTS
    HdrLen = 2
    MaxBytes = 8
    BlockMax = 2
    EndWidth = 1000
    Sids = {0, 1, 2}
    Lens = {0, 1, 2, 7}
    MaxFrames = 3
    Streams <- MCStreams
    PrefaceLen = 2
    PeekLen = 1
    MAX_CONTINUATIONS = 5
    MaxSkbs = 3
    RcvBuf = 8
SPECIFICATION Spec
INVARIANTS TypeOK DecodesUnits RefusesOnlyBroken AbortsOnlyOnBroken
PROPERTY NoStall
CHECK_DEADLOCK FALSE

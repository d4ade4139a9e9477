SPECIFICATION Spec
CONSTANTS
    OtherCase <- MCOtherCase
    HeaderNames <- MCNames
    Plain <- MCPlain
    Huff <- MCHuff
    MAX_MATCHES = 3
    MAX_STATES = 1024
    MAX_ACTIONS = 1024
    Captures <- MCCaptures
    IntBits = 16
    MaxShift = 14
    MAX_BYTES = 32767
    Base = 62
    AppendixA <- MCAppendixA
    OldEntries = 200
    OldName = "te"
    DefaultMaxSize = 201
    PeerIndices = {3, 31, 62, 63, 127, 260}
    PeerNames = {"te", "tee", "coded", ""}
    PeerSizes = {0, 2, 201}
    PeerValues <- MCValues
    Pads = {0, 2}
    WideIndices = {65538}
    MaxFields = 2
INVARIANTS TypeOK CapturesAgree InStep TableAgrees IndexZeroRefused
CHECK_DEADLOCK FALSE

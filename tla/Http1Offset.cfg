SPECIFICATION Spec
CONSTANTS
    OtherCase <- MCOtherCase
    Scenarios <- MCOffset
    NameBytes <- MCNameBytes
    Methods <- MCMethods
    Version <- MCVersion
    CodeLen = 2
    Preface <- MCPreface
    MAX_MATCHES = 4
    MAX_STATES = 40
    MAX_BYTES = 12
INVARIANTS
    StartLineCaptured
CHECK_DEADLOCK FALSE

SPECIFICATION Spec
CONSTANTS
    OtherCase <- MCOtherCase
    Scenarios <- MCScenarios
    NameBytes <- MCNameBytes
    Methods <- MCMethods
    Version <- MCVersion
    CodeLen = 2
    Preface <- MCPreface
    MAX_MATCHES = 4
    MAX_STATES = 40
    MAX_BYTES = 12
INVARIANTS
    TypeOK
    NeverPanics
    FieldsCaptured
    StartLineCaptured
    StopsAtEmptyLine
    MatchesPreface
CHECK_DEADLOCK FALSE

SPECIFICATION Spec
CONSTANTS
    Ports = {1, 2}
    TableLimit = 2
    PerBlock = 3
    EarlyClose = FALSE
    MaxCases = 2
    MaxConns = 2
    MaxBlocks = 1
INVARIANTS TypeOK NothingMissed ReadByTheCase TablesForgotten UpgradesForgotten
PROPERTY CommandsEnd
CHECK_DEADLOCK FALSE

SPECIFICATION Spec
CONSTANTS
    Many = 3
    RESULT_VAL_LEN = 2
    DUMMY_LEN = 4
    MAX_MATCHES = 32
    MaxResponses = 2
INVARIANTS TypeOK Sound Complete
CHECK_DEADLOCK FALSE

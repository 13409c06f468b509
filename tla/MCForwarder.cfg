SPECIFICATION Spec
CONSTANTS
    MAX_NUM_PERIPHERALS = 2
    RETRY_COUNT = 2
    QCap = 1
    Bounds <- AllBounds
INVARIANTS TypeOK StatusesAccountedFor
PROPERTIES RoundEnds RouterHeldOnlyBy
CHECK_DEADLOCK FALSE

SPECIFICATION Spec
CONSTANTS
    MAX_NUM_PERIPHERALS = 2
    RETRY_COUNT = 2
    QCap = 1
    Bounds <- Quiet
PROPERTIES ForwardedToAll
CHECK_DEADLOCK FALSE

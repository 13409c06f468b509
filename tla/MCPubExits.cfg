SPECIFICATION Spec
CONSTANTS
    Modes <- LineMode
    Block = 3
    MaxMid = 3
    Inputs <- NoText
    MaxLosses = 0
    MaxFailures = 0
PROPERTIES Exits
CHECK_DEADLOCK FALSE

SPECIFICATION Spec
CONSTANTS
    Modes <- LineMode
    Block = 3
    MaxMid = 4
    Inputs <- LongTexts
    MaxLosses = 0
    MaxFailures = 0
INVARIANTS LineIsMessage
CHECK_DEADLOCK FALSE

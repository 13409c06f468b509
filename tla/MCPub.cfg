SPECIFICATION Spec
CONSTANTS
    Modes <- AllModes
    Block = 3
    MaxMid = 3
    Inputs <- AllTexts
    MaxLosses = 2
    MaxFailures = 1
INVARIANTS TypeOK DisconnectsWhenSent SentButForGap ExitStatus
PROPERTIES PubEnds
CHECK_DEADLOCK FALSE

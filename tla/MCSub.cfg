SPECIFICATION Spec
CONSTANTS
    Topics <- TwoTopics
    Configs <- AllWays
    QCap = 2
    InCap = 2
    MaxUnwanted = 1
    MaxReceived = 4
    MaxLosses = 2
    MaxRuns = 1
INVARIANTS TypeOK FirstWanted StatusTells
PROPERTIES CountEnds
CHECK_DEADLOCK FALSE

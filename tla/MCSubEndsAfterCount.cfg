SPECIFICATION Spec
CONSTANTS
    Topics <- TwoTopics
    Configs <- Counts
    QCap = 2
    InCap = 2
    MaxUnwanted = 1
    MaxReceived = 4
    MaxLosses = 0
    MaxRuns = 0
PROPERTIES EndsAfterCount
CHECK_DEADLOCK FALSE

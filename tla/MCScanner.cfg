SPECIFICATION Spec
CONSTANTS
    QCap = 2
    LineCap = 4
    Bounds <- RunBounds
INVARIANTS TypeOK WaitsForAnAnswer BondsOnReport NoScanWhileLinking
PROPERTIES FollowsSession SearchGoesOn RouterGetsOn LinkTargetMatched
CHECK_DEADLOCK FALSE

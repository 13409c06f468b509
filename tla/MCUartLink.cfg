SPECIFICATION Spec
CONSTANTS
    Byte <- SmallBytes
    IndexMod = 8
    Frames <- AnyLength
    MaxFrames = 3
    MaxFaults = 0
INVARIANTS TypeOK Delivered
PROPERTIES ImplementsLink
CHECK_DEADLOCK FALSE

SPECIFICATION Spec
CONSTANTS
    Byte <- TinyBytes
    IndexMod = 8
    Frames <- LossyFrames
    MaxFrames = 3
    MaxFaults = 2
INVARIANTS WedgedBehind02
PROPERTIES OnlySelfDelimited StaysInSync
CHECK_DEADLOCK FALSE

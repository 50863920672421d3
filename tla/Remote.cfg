SPECIFICATION FairSpec
CONSTANTS
    x = x
    y = y
    z = z
    Order <- Three
    Begun <- Blank
    Target = x
    Busy = {x}
    MaxLen = 2
    MaxChanges = 2
    MaxFaults = 1
    MaxKeys = 2
    MaxEvents = 2
    Byte = {a, b}
INVARIANTS MirrorIsExact KeysAreAccounted
PROPERTIES CatchesUp DetachEnds
CHECK_DEADLOCK FALSE

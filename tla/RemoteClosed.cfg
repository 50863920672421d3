SPECIFICATION FairSpec
CONSTANTS
    x = x
    y = y
    z = z
    Order <- First
    Begun <- Blank
    Target = x
    Busy = {x}
    MaxLen = 1
    MaxChanges = 1
    MaxFaults = 0
    MaxKeys = 1
    MaxEvents = 2
    Byte = {a}
PROPERTIES ClosedTabEndsAttach
CHECK_DEADLOCK FALSE

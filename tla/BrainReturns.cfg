SPECIFICATION FairSpec
CONSTANTS
    t = t
    u = u
    v = v
    Tab = {t}
    Order <- Ordered
    Pattern = {"529"}
    Storm = {"529"}
    Stable = 1
    Base = 1
    Cap = 2
    Threshold = 1
    Cooldown = 2
    ProbeTTL = 1
    Turn = 1
    MayReturn = TRUE
    MaxChanges = 2
    MaxFaults = 0
    MaxLost = 0
PROPERTIES StuckIsNudged
CHECK_DEADLOCK FALSE

SPECIFICATION FairSpec
CONSTANTS
    t = t
    u = u
    v = v
    Tab = {t, u}
    Order <- Ordered
    Pattern = {"529"}
    Storm = {"529"}
    Stable = 1
    Base = 3
    Cap = 4
    Threshold = 1
    Cooldown = 2
    ProbeTTL = 1
    Turn = 2
    MayReturn = TRUE
    MaxChanges = 2
    MaxFaults = 1
    MaxLost = 1
PROPERTIES NotHammered CappedIsSpaced StuckIsTried BreakerReleases

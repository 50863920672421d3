SPECIFICATION FairSpec
CONSTANTS
    t = t
    u = u
    v = v
    Tab = {t, u, v}
    Order <- Ordered
    Pattern = {"529"}
    Storm = {"529"}
    Stable = 1
    Base = 3
    Cap = 4
    Threshold = 1
    Cooldown = 2
    ProbeTTL = 1
    Turn = 6
    MayReturn = TRUE
    MaxChanges = 1
    MaxFaults = 1
    MaxLost = 1
PROPERTIES NotHammered CappedIsSpaced StuckIsTried BreakerReleases

SPECIFICATION SpecRestart
CONSTANTS
    Key = {k1, k2}
    Holder = {h1, h2}
    Thread = {t1}
    NoClaim = NoClaim
    NoRequest = NoRequest
    MinTtl = 1
    MaxTtl = 2
    AskedTtl = {0, 3}
    DiskMayFail = FALSE
    MaxTime = 3
    MaxFence = 2
INVARIANTS FenceNamesOneGrant NoLiveLeaseForgotten

SPECIFICATION Spec
CONSTANTS
    Key = {k1}
    Holder = {h1, h2}
    Thread = {t1, t2}
    NoClaim = NoClaim
    NoRequest = NoRequest
    MinTtl = 1
    MaxTtl = 2
    AskedTtl = {0, 3}
    DiskMayFail = TRUE
    MaxTime = 3
    MaxFence = 2
SYMMETRY Symmetry
INVARIANTS LeaseExclusive StaleFenceIsSmaller
PROPERTY ServiceSpec

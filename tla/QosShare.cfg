SPECIFICATION FairSpec
CONSTANTS
    ada = ada
    grace = grace
    c1 = c1
    c2 = c2
    c3 = c3
    Account = {ada, grace}
    Call = {c1, c3}
    Owner <- CallOwner
    Rerouted = {c3}
    Weight <- Weights
    Est <- Estimates
    Cost <- Costs
    Reports <- SomeReports
    Millis = 2
    MaxWait = 1
    Burst = 1
    Headroom = 1
    IdleAfter = 1
    MaxBackoff = 2
    DefaultBackoff = 1
    MaxSince = 1
    MaxDebt = 0
    MaxTokens = 3
    MaxLost = 1
INVARIANTS TypeOK QuietWhileRefused
PROPERTIES EveryCallDecided LockedUpOnlyTimeless

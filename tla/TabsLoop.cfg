SPECIFICATION Spec
CONSTANTS
    Creator = {c}
    NoReply = NoReply
    None = None
    MayStop = TRUE
    Lockable = {2}
    MaxTabs = 2
    MaxQueue = 4
    MaxJobs = 1
INVARIANTS LastLockWins FinalStateKept
PROPERTY LockedTabGetsNoInput

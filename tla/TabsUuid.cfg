SPECIFICATION Spec
CONSTANTS
    Creator = {c}
    NoReply = NoReply
    None = None
    MayStop = FALSE
    Lockable = {2}
    MaxTabs = 3
    MaxQueue = 2
    MaxJobs = 1
INVARIANTS UuidIsStable

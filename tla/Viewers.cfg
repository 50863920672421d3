SPECIFICATION FairSpec
CONSTANTS
    v = v
    w = w
    Cap = 5
    HotMax = 2
    ChunkRaw = 2
    FrameMax = 3
    PreviewMin = 2
    Viewer = {v, w}
    Scenario <- Scenarios
    Joined <- Some
    Modes <- Mouse
    MaxBytes = 6
    MaxWire = 1
INVARIANTS RingIsExact SentInOrder ExactPage PreviewComesFirst
PROPERTIES CatchesUp LockIsShown
CHECK_DEADLOCK FALSE

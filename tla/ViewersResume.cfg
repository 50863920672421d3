SPECIFICATION Spec
CONSTANTS
    v = v
    w = w
    Cap = 5
    HotMax = 2
    ChunkRaw = 2
    FrameMax = 3
    PreviewMin = 2
    Viewer = {v, w}
    Scenario <- Reconnect
    Joined <- Some
    Modes <- Mouse
    MaxBytes = 6
    MaxWire = 1
INVARIANTS ShownOnce
CHECK_DEADLOCK FALSE

SPECIFICATION LoopbackSpec
CONSTANTS
    Never = Never
    Streams = {"pv"}
    Capacity = 1
    MaxEdits = 2
    MaxPokes = 1
    MaxFails = 0
INVARIANT GraphMirrorsSite
CHECK_DEADLOCK FALSE

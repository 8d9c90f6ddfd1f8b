SPECIFICATION FairSpec
CONSTANTS
    Idle = 0
    Drain = 4
    MaxNap = 9
    MaxTick = 2
    Waits = {5}
    Kinds = {"until"}
    Chunks = 1
    Parts = 1
PROPERTIES
    DrainBounded
CHECK_DEADLOCK FALSE

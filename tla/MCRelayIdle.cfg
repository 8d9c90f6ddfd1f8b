SPECIFICATION FairSpec
CONSTANTS
    Idle = 4
    Drain = 3
    MaxNap = 9
    MaxTick = 2
    Waits = {5}
    Kinds = {"until", "plain"}
    Chunks = 2
    Parts = 1
CHECK_DEADLOCK FALSE
INVARIANTS
    VerdictHonest
    ShapedIsNotIdle
PROPERTIES
    CloseKeepsDownload
    RelayEnds

SPECIFICATION FairSpec
CONSTANTS
    a = a
    b = b
    t1 = t1
    t2 = t2
    None = None
    Ips <- TwoIps
    Tasks <- TwoTasks
    Configs <- Files
    StartConfig <- Rdp
    Headers <- FewHeaders
    MaxTracked = 1
    PruneEvery = 2
    MaxCount = 1
    MaxReloads = 1
    MaxPanics = 1
CHECK_DEADLOCK FALSE
INVARIANTS
    Accounted
    LimitsApplied
    OneConfiguration
PROPERTIES
    ShutdownEnds

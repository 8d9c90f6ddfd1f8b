SPECIFICATION MCSpec
CONSTANTS
    None = None
    Capacity = 1
    MaxLen = 2
    Keep = 2
    MaxRecords = 4
    LogRecords = 4
    MaxFaults = 2
    Commands = {1, 2}
    Users = {"u", "v"}
    MaxFileFaults = 2
    Listing <- MCListing
    Target <- MCTarget
    Cap = 2
    Configs <- MCConfigs
    ConfigPath <- MCConfigPath
    Marker <- MCMarker
    DefaultLog <- MCDefaultLog
    Junction <- MCJunction
    JunctionTarget <- MCJunctionTarget
    HardLink <- MCHardLink
    Numerals <- MCNumerals
    MaxReloads = 2
    Alias <- MCAlias
    Inodes <- MCInodes
    MaxAsks = 2
CHECK_DEADLOCK FALSE
INVARIANTS
    LogSound
    UserlistSafe
    LoadRight
    ConfigUsable
    LogApart
    ImportSafe
    SavedGuarded
    FramesExact

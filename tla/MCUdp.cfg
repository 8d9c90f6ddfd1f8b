SPECIFICATION FairSpec
CONSTANTS
    Ports = {1, 2}
    Foreign = 3
    None = None
    Dests <- MCDests
    Allowed <- MCAllowed
    MaxContacted = 2
    Idle = 2
    Rates = {1, 2}
    MaxDebt = 1
    MaxRecords = 4
CHECK_DEADLOCK FALSE
INVARIANTS
    ClientBounded
PROPERTIES
    KeepsPromise
    IdleEnds

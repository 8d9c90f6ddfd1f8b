SPECIFICATION MCSpec
CONSTANTS
    s1 = s1
    Streams <- OneStream
    ControlCapacity = 1
    OrderedCapacity = 2
    ReaderCapacity = 1
    Burst = 1
    ClientPings = 2
    AgentPings = 1
    MaxPings <- MCMaxPings
    MaxRequests = 10
    MaxData = 1
CHECK_DEADLOCK FALSE
INVARIANTS
    TrafficSound
PROPERTIES
    NobodyStuck

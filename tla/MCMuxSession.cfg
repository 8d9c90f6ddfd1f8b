SPECIFICATION MCSpec
CONSTANTS
    r1 = r1
    i1 = i1
    i2 = i2
    Resolvers <- MCResolvers
    IpCallers <- MCIpCallers
    MaxStreams = 1
    CommandCapacity = 1
    IdLimit = 5
    MaxOpens = 2
    Losable = TRUE
CHECK_DEADLOCK FALSE
INVARIANTS
    NoProtocolError
    SlotsAccounted
    TombstoneAnswered
PROPERTIES
    NothingLeft

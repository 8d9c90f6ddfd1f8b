SPECIFICATION FairSpec
CONSTANTS
    c1 = c1
    c2 = c2
    c3 = c3
    k1 = k1
    k2 = k2
    NoCaller = NoCaller
    Callers <- ThreeCallers
    CacheKeys <- TwoKeys
    Name <- Names
    Caching <- WithTtl
    LookupSlots = 1
    CacheCapacity = 1
    NegativeCapacity = 1
CHECK_DEADLOCK FALSE
INVARIANTS
    LookupsSound
PROPERTIES
    RequestsReturn

SPECIFICATION FairSpec
CONSTANTS
    c1 = c1
    c2 = c2
    None = None
    Conns <- TwoConns
    Generations = {1, 2}
    Creds <- MCCreds
    Framing <- MCFraming
    Configs <- MCConfigs
    Client <- MCClient
    Proxy <- MCProxy
    Dests <- MCDests
    Addresses <- MCAddresses
    Errors = {"ConnectionRefused", "ResourceLimit"}
    Width = 1
    MaxVerifications = 1
    MaxCommands = 1
    CacheCapacity = 1
CHECK_DEADLOCK FALSE
INVARIANTS
    Admitted
    RefusalMeansDenied
    GivenBack
PROPERTIES
    ConnectionsDecide

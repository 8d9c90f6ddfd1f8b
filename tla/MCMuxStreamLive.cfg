SPECIFICATION FairSpec
CONSTANTS
    Window = 1
    MaxData = 1
    ClientBytes = 2
    AgentBytes = 0
    Faulty = {}
    DropReasons = {"Error"}
    MaxBytes <- MCMaxBytes
PROPERTIES
    StreamsFinish
CHECK_DEADLOCK FALSE

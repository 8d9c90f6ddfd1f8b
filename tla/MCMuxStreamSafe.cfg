SPECIFICATION Spec
CONSTANTS
    Window = 1
    MaxData = 1
    ClientBytes = 2
    AgentBytes = 1
    Faulty = {"agent"}
    DropReasons = {"Normal"}
    MaxBytes <- MCMaxBytes
CHECK_DEADLOCK FALSE
INVARIANTS
    CreditInv
    CreditConserved
    FramesLawful
    NothingLost

SPECIFICATION MCSpec
CONSTANTS
    c1 = c1
    c2 = c2
    Channels <- MCChannels
    MaxLosses = 2
    Queue = 1
    Buffer = 1
    Wire = 1
    Batch = 1
    Budgets <- MCBudgets
CHECK_DEADLOCK FALSE
INVARIANTS
    NoGap
    OneBridge
PROPERTIES
    PathMoves
    LifeGoesOn

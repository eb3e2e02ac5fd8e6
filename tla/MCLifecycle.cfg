SPECIFICATION FairSpec
CONSTANTS
    PoolSize = 2
    MaxSignals = 2
INVARIANTS
    TypeOK
    NobodyLeft
    AbortedOnlyEarly
PROPERTIES
    StopCompletes
    EnterEnds
CHECK_DEADLOCK FALSE

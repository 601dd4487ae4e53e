SPECIFICATION Spec
CONSTANTS
    Messages = 4
    AccountPool = 2
    Mix <- MCMix
    SocketCap = 2
INVARIANTS
    SamplesExplained
    PoolIsBook
PROPERTY
    RunEnds
CHECK_DEADLOCK FALSE

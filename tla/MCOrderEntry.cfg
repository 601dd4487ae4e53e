SPECIFICATION ReadingSpec
CONSTANTS
    c1 = c1
    c2 = c2
    Conns <- MCConns
    Frames <- MCFrames
    CommandCap = 2
    ReturnCap = 1
    SocketCap = 1
    MaxReports = 2
CHECK_DEADLOCK FALSE
INVARIANTS
    StreamNumbered
    EngineOrderKept
    OwnAnswersOrdered
PROPERTY
    AllServed

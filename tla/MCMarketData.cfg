SPECIFICATION Spec
CONSTANTS
    Subscribers = {s1, s2}
    Events = {e1, e2}
    ChannelCap = 1
    QueueCap = 2
    MaxEvents = 4
CHECK_DEADLOCK FALSE
INVARIANTS
    Accounted
    SameFeed
PROPERTIES
    GapsShowLosses
    FanOutNeverStalls
    NewestArrives

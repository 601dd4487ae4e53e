SPECIFICATION Spec
CONSTANTS
    Inbound <- MCMisdirected
    Outbound = {}
    MaxRead = 24
CHECK_DEADLOCK FALSE
INVARIANT
    NeverPanics

SPECIFICATION Spec
CONSTANTS
    Inbound <- MCInbound
    Outbound <- MCOutbound
    MaxRead = 24
CHECK_DEADLOCK FALSE
INVARIANTS
    NothingLostAtTheEnd
    MessagesRecovered

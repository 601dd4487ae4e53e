CONSTANTS
    Accounts = {a1, a2}
    OrderIds = {o1, o2}
    LimitPrices = {1, 2}
    AmendPrices = {1, 2}
    Qtys = {1, 2}
    MaxOpenOrders = 1
    MaxNotional = 4
    PriceBandPct = 50
    U64Max = 3
SPECIFICATION Spec
INVARIANTS
    IndInv
PROPERTIES
    FifoLevels
    CommandsEnd

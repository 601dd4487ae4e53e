CONSTANTS
    Accounts = {a1, a2}
    OrderIds = {o1}
    LimitPrices = {1, 2}
    AmendPrices = {0, 1}
    Qtys = {1, 2}
    MaxOpenOrders = 1
    MaxNotional = 4
    PriceBandPct = 100
    U64Max = 9
SPECIFICATION Spec
INVARIANTS
    NoZeroPrice

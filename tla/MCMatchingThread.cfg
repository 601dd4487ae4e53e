CONSTANTS
    Accounts = {a1, a2}
    OrderIds = {o1, o2}
    Conns = {c1, c2}
    LimitPrices = {1}
    AmendPrices = {1, 2}
    Qtys = {1, 2}
    MaxOpenOrders = 1
    MaxNotional = 3
    PriceBandPct = 100
    U64Max = 9
SPECIFICATION ThreadSpec
SYMMETRY Symmetry
INVARIANTS
    RestingFiled
PROPERTIES
    ReportsReachOwner
    TableForgets

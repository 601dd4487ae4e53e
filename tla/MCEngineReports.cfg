CONSTANTS
    Accounts = {a1, a2}
    OrderIds = {o1, o2}
    LimitPrices = {1, 3}
    AmendPrices = {3}
    Qtys = {1, 3}
    MaxOpenOrders = 2
    MaxNotional = 3
    PriceBandPct = 100
    U64Max = 3
SPECIFICATION ReportsSpec
SYMMETRY Symmetry
INVARIANTS
    ReportsExact
    FillsAddUp
    TouchPublished
    NotCrossed
    FokAlwaysFills
PROPERTIES
    DrainOnlyRemoves
    AmendUpMeetsNothing
    PriceTimePriority
    WithinCapUntilAmended

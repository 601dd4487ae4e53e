SPECIFICATION Spec
SYMMETRY Symmetry
CONSTANTS
    Accounts = {a1, a2}
    OrderIds = {o1, o2, o3}
    Prices   = {1, 2}
    U64Max   = 2
    MaxQty   = 2
    MaxSlots = 3
INVARIANTS
    LevelsWalk
    NodesIndexed
    AccountsIndexed
    NotionalExact
    SnapshotCoversAccount
    SnapshotConsistent
PROPERTY
    FifoChains

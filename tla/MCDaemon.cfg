SPECIFICATION Spec
CONSTANTS
    Commands <- MCCommands
    RiskFiles <- MCRiskFiles
    BufCap = 4
    MaxCommands = 4
    MaxStarts = 2
INVARIANTS
    RecordingFaithful
    ReplayAgrees
    PathFreeAtBind
CHECK_DEADLOCK FALSE

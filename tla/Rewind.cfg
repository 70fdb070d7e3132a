CONSTANTS
    Nodes = {n1, n2}
    Configs = {"rewind", "both", "remove"}
    MaxRecords = 3
    MaxTimeline = 3
    MaxFaults <- MCMaxFaults
SPECIFICATION Spec
CHECK_DEADLOCK FALSE
INVARIANTS
    TypeOK
PROPERTIES
    VerdictsAreRight
    Rejoins

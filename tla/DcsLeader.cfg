CONSTANTS
    Nodes = {n1, n2}
    None = None
    Backends <- AllBackends
    Faults <- MCFaults
    MaxIndex = 4
    MaxSessions = 3
    MaxFaults = 2
SPECIFICATION Spec
CHECK_DEADLOCK FALSE
INVARIANT TypeOK
PROPERTIES
    Contract
    YesMeansOwner

CONSTANTS
    Nodes = {n1, n2, n3}
    None = None
    NoFailover = {n3}
    MaxLag = 0
    MaxWal = 1
    MaxTenures = 3
    MaxRequests = 1
    MaxFaults = 1
SPECIFICATION Spec
INVARIANTS
    TypeOK
    FailedMeansUnchanged
PROPERTIES
    WinnerIsHealthiest
    RaceEnds
CHECK_DEADLOCK FALSE

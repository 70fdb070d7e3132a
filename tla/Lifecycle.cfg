CONSTANTS
    Nodes = {"n1", "n2"}
    NoFailover = {}
    MaxSystems = 3
    MaxFaults = 2
    MaxSignals = 2
    DaemonFaults = 2
    ServerFaults = 4
    Clients = {"c1", "c2"}
    LoopWait = 2
    Times = {0, 3}
    MaxTime = 7
    MaxRequests = 2
    MaxEvents = 1
SPECIFICATION MCSpec
CHECK_DEADLOCK FALSE
INVARIANTS
    PartTypes
    
PROPERTIES
    ServerGoesFirst
    ScheduleIsKept
    BeginningsEnd

CONSTANTS
    Environment = 0
    Bootstrap <- BootstrapDcs
    ApiSettings = {"ttl"}
    NewValues = {0, 2, 3}
    MaxWrites = 2
    MaxEdits = 1
    ConfigFaults = 1
    Sizes = {0, 1, 2}
    MaxRecords = 5
    MaxReloads = 2
    Names = {"a", "b"}
    Ignored = {"b"}
    MaxEvents = 4
    Callers = {"main", "async"}
    MaxCalls = 4
    Nodes = {"n1", "n2"}
    Ttl = 2
    Delay = 1
    MaxTime = 6
SPECIFICATION ServicesSpec
CHECK_DEADLOCK FALSE
INVARIANTS
    ServiceTypes
    ReportsAreTrue
    

    

CONSTANTS
    Keys = {"leader", "sync"}
    Kinds = {"etcd3", "kubernetes"}
    Overtaking = FALSE
    MaxRev = 3
    MaxBreaks = 1
    MaxMoves = 1
    MaxVersion = 3
    Servers = {s1, s2, s3}
    Clients = {"etcd", "kubernetes"}
    ReadTimeout = 24
    SleepTime = 3
    MemberBackends = {"etcd", "etcd3", "consul", "zookeeper", "kubernetes"}
    Sessions = {1, 2, 3, 4}
    MaxChanges = 2
    MemberFaults = 1
    Stores = {"etcd", "consul", "event"}
    MaxLeaderRev = 3
SPECIFICATION ClientsSpec
CHECK_DEADLOCK FALSE
INVARIANTS
    ClientTypes
    
    

    

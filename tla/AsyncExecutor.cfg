CONSTANTS
    Workers = {w1, w2}
    ApiThreads = {t1}
    Requests = {"restart", "reinitialize", "force"}
    None = None
SPECIFICATION FairSpec
INVARIANTS
    OneWorker
    InterruptedRestartStaysDown
PROPERTIES
    
    CancelReturns

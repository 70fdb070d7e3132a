CONSTANTS
    TTL = 4
    SafetyMargin <- HalfOfTTL
    LoopWait = 1
    Prompt = {"activate"}
    MaxRestarts = 2
    Horizon = 13
SPECIFICATION Spec
CHECK_DEADLOCK FALSE
INVARIANTS
    NoCommitAfterExpiry
    
    WatchdogBeatsExpiry

CONSTANTS
    Nodes = {n1, n2, n3}
    None = None
    Star = Star
    Modes = {"sync"}
    NodeCount = 1
    MaxTxn = 1
    Faults = {"expiry", "disconnect", "crash", "promote", "dcs"}
    MaxFaults = 3
    Lapses = {}
SPECIFICATION Spec
INVARIANTS
    PublishedIsEnforced
    NoAckedLoss
    LeaderIsMarked
SYMMETRY NodeSymmetry

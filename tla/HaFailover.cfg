CONSTANTS
    Nodes = {n1, n2}
    None = None
    Faults = {"dcs", "dcs_demote", "promote", "watchdog", "crash"}
    MaxFaults = 1
    MaxExpiries = 1
    MaxSwitchovers = 0
SPECIFICATION FairSpec
INVARIANTS
    OnePromotionPerTenure
    CancelledNeverPromotes
PROPERTIES
    LostKeyEndsPrimary
    Settles

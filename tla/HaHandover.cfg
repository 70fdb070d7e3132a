CONSTANTS
    Nodes = {n1, n2, n3}
    None = None
    Faults = {"dcs", "promote", "watchdog"}
    MaxFaults = 2
    MaxExpiries = 0
    MaxSwitchovers = 1
SPECIFICATION Spec
INVARIANTS
    NoSplitBrain
SYMMETRY NodeSymmetry

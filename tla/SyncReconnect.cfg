CONSTANTS
    Nodes = {n1, n2}
    None = None
    Star = Star
    Modes = {"sync", "strict"}
    NodeCount = 1
    MaxTxn = 1
    Faults = {"expiry", "disconnect", "crash", "promote", "dcs", "restart"}
    MaxFaults = 3
    Lapses = {}
SPECIFICATION ReconnectSpec
PROPERTIES
    StrictOnTwoNodes
    CommitsResume

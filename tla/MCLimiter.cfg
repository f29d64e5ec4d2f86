SPECIFICATION LimiterSpec
CONSTANTS
    c1 = c1
    c2 = c2
    c3 = c3
    None = None
    Clients = {c1, c2, c3}
    Window = 2
    MaxDiscoveryPerWindow = 2
    SweepAt = 1
    MaxClients = 2
    MaxTime = 7
INVARIANT LimiterHolds
SYMMETRY Symmetry
CHECK_DEADLOCK FALSE

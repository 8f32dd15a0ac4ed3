\* Stop holds the lock that the run loop asks for
CONSTANTS
    Nodes = {"a"}
    Conns = {"c1"}
    Bootnodes <- NoBootnodes
    StaticNodes = {}
    Trusted = {}
    MaxPeers = 1
    MaxDyn = 0
    MaxActive = 2
    Pending = 3
    MaxCalls = 0
    Stops = TRUE
SPECIFICATION FairSpec
PROPERTY StopReturns
CHECK_DEADLOCK FALSE

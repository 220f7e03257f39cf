SPECIFICATION DiscoverySpec
CONSTANTS
    Subjects = {"graph", "channel", "node", "services", "peers"}
    Nodes = {"a", "b", "c"}
    Channels = {"x", "y"}
    Dummy = ""
    EdgeKey <- MCEdgeKey
    t1 = t1
    t2 = t2
    None = None
INVARIANTS ListIsComplete FlowIsReal RegistriesAreCurrent Connected
SYMMETRY Symmetry
CHECK_DEADLOCK FALSE

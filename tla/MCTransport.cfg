SPECIFICATION TransportSpec
CONSTANTS
    Subjects = {"listening", "kinds", "volatile", "durable", "sockets", "reopen", "calls", "rivals"}
    All = All
    None = None
    Raw = Raw
    Chatter = Chatter
    Nobody = Nobody
    t1 = t1
    t2 = t2
    l1 = l1
    l2 = l2
    l3 = l3
    s1 = s1
    s2 = s2
    k3 = k3
    k4 = k4
    c1 = c1
    c2 = c2
INVARIANTS QuietAfterRemove NothingMissed WaitsAreWatched OwnAnswerOnce
PROPERTY HeardOnce
SYMMETRY Symmetry
CHECK_DEADLOCK FALSE

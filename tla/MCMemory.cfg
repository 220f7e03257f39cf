SPECIFICATION MemorySpec
CONSTANTS
    Subjects = {"pool", "steady", "growth", "remade", "ring",
                "parking", "town", "circle"}
    Threads = {t1, t2}
    Nodes = {n1, n2, n3}
    Null = Null
    MaxCount = 5
    MaxX = 5
    MaxY = 5
    MaxPlans = 2
    Plans <- ParkingPlans
    w1 = w1
    w2 = w2
    r1 = r1
    r2 = r2
INVARIANTS PoolIsStack  DistancesAreHonest RouteIsTracked SegmentsAreDrivable
PROPERTY ImplementsPool
CHECK_DEADLOCK FALSE

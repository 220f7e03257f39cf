SPECIFICATION ThreadSpec
CONSTANTS
    Subjects = {"lock", "queue", "ring", "socket"}
    Threads = {t1, t2, t3}
    WriteFirst = TRUE
    t1 = t1
    t2 = t2
    t3 = t3
    Junk = Junk
    Nobody = Nobody
PROPERTIES NobodyStarves WaitsEnd
CHECK_DEADLOCK FALSE

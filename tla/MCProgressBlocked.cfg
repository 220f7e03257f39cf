SPECIFICATION ThreadSpec
CONSTANTS
    Subjects = {"blocked"}
    Threads = {t1, t2, t3}
    WriteFirst = TRUE
    t1 = t1
    t2 = t2
    t3 = t3
    Junk = Junk
    Nobody = Nobody
PROPERTY BlockedDequeueReturns
CHECK_DEADLOCK FALSE

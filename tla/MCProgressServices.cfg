SPECIFICATION ServiceSpec
CONSTANTS
    Subjects = {"peers", "calls", "ending", "chunks", "view", "logger"}
    Threads = {t1, t2, t3}
    WriteFirst = TRUE
    t1 = t1
    t2 = t2
    t3 = t3
    Junk = Junk
    Nobody = Nobody
PROPERTIES ServicesRespond OutputIsWritten
CHECK_DEADLOCK FALSE

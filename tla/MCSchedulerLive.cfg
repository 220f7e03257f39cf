SPECIFICATION LiveSpec
CONSTANTS
    Subjects = {"feed", "halt", "manager", "pinned", "clock"}
    c1 = c1
    c2 = c2
    c3 = c3
    p1 = p1
    p2 = p2
    n1 = n1
    n2 = n2
    Nobody = Nobody
    Processors = {p1, p2}
    Routines = {c1, c2, c3}
    Id <- RemovalIds
    ConfPrio <- RemovalPriorities
    MAX_PRIO = 2
    Notifiers = {}
    Calls = {"RemoveTask"}
    BufferSize = 1
PROPERTIES  ShutdownEnds 

SPECIFICATION ProcessSpec
CONSTANTS
    Subjects = {"loader", "clash", "behind", "keeps", "ordered", "unordered", "fails", "logger"}
    l1 = l1
    l2 = l2
    l3 = l3
    a = a
    b = b
    t1 = t1
    t2 = t2
    NoFactory = NoFactory
    Loaders = {l1, l2, l3}
    Libraries = {a, b}
    LibOf <- MCLibOf
    Classes <- MCClasses
    MaxLoads = 2
    MaxObjects = 2
INVARIANTS   LogsLoseNothing
SYMMETRY Symmetry
CHECK_DEADLOCK FALSE

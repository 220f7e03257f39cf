SPECIFICATION DataSpec
CONSTANTS
    Subjects = {"buffer", "zero", "fusion", "own", "intra"}
    Messages = {m1, m2}
    Size = 2
    Bound = 6
    t1 = t1
    t2 = t2
    r1 = r1
    r2 = r2
    Nobody = Nobody
INVARIANT DataIsCurrent
PROPERTIES ReadsTheLog ZeroReadsTheLog HeardOnce
SYMMETRY Symmetry
CHECK_DEADLOCK FALSE

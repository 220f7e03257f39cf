SPECIFICATION BaseSpec
CONSTANTS
    Subjects = {"queue", "map", "atomic", "reentrant"}
    Threads = {t1, t2}
    Values = {a, b}
    Size = 2
    Strategy = "timeout"
    MaxTicket = 5
    Junk = Junk
    LockThreads = {t1, t2, t3}
    AtomicWriteFirst = TRUE
    WriteFirst = FALSE
    MaxDepth = 2
    HeadEntry = HeadEntry
    Nil = Nil
    NoThread = NoThread
INVARIANTS RingIsQueue HonestAnswers MapIsSound LockIsSafe WriterAlone
PROPERTY ImplementsFifo
SYMMETRY Symmetry
CHECK_DEADLOCK FALSE

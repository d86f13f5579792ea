CONSTANTS
    t1 = t1  t2 = t2
    w1 = w1  w2 = w2
    Threads = {t1, t2}
    Wrcs = {w1, w2}
    MaxOps = 3
    Lifetimes = {TRUE}
    CanPromote = {FALSE,TRUE}
    IpcThreads = {}
SPECIFICATION Spec
SYMMETRY Symmetry
INVARIANT CountsExact

CONSTANTS
    t1 = t1  t2 = t2  t3 = t3
    w1 = w1  w2 = w2
    Threads = {t1, t2, t3}
    Wrcs = {w1, w2}
    MaxOps = 3
    Lifetimes = {FALSE, TRUE}
    CanPromote = {TRUE}
    IpcThreads = {t1}
SPECIFICATION Spec
SYMMETRY IpcSymmetry
INVARIANTS NoUseAfterFree CountsExact NoLeak HooksOnce

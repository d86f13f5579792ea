CONSTANTS
    NoThread = NoThread
    Threads = {t1, t2, t3}
    Writers = {t1, t2, t3}
    Nesters = {t3}
    DeepNesters = {}
    MaxWrites = 2
    Guards = {g1}
    WriteFirst = TRUE
    Value = 1
    MaxPermits = 3
    MaxBacklog = 5
    MaxSpurious = 2
    Callers = {c1, c2}
    MaxStarts = 3
    Workers = {w1, w2}
    Producers = {p1, p2}
    Limits = {0, 1, 2}
    MaxTasks = 2
    Units = {"lock", "semaphore", "thread", "pool"}
SPECIFICATION SyncSpec
INVARIANTS Exclusion NoLostPost WithinPermits OneChild EachTaskOnce
PROPERTIES ImplementsRWLockAbs WriterEnters SyncMeansExited SyncReturns TasksRun StopReturns

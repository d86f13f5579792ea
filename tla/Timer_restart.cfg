SPECIFICATION Spec
CONSTANTS
    f1 = f1  f2 = f2
    i10 = i10
    l1 = l1  l2 = l2
    Fds = {f1, f2}
    Intervals = {i10}
    Loops = {l1, l2}
    MaxTimers = 1
    Timeouts = {FALSE}
    UseJoin = {TRUE, FALSE}
    None = None
INVARIANT ShutdownWaits
CHECK_DEADLOCK FALSE

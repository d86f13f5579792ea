SPECIFICATION FairSpec
CONSTANTS
    f1 = f1  f2 = f2
    i10 = i10
    l1 = l1  l2 = l2
    Fds = {f1, f2}
    Intervals = {i10}
    Loops = {l1}
    MaxTimers = 2
    Timeouts = {FALSE, TRUE}
    UseJoin = {TRUE, FALSE}
    None = None
INVARIANTS
    CallbackAfterExpiry
    DescriptorsMatchEvents
PROPERTIES
    EventsAreCalled
    ShutdownReturns
    DetachedLoopsEnd
CHECK_DEADLOCK FALSE

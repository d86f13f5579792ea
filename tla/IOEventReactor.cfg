CONSTANTS
    h1 = h1  h2 = h2
    a1 = a1  a2 = a2
    Handlers = {h1, h2}
    Apps = {a1, a2}
    FdOf <- OneFd
    Events <- FirstEvents
    Masks = {{"READ"}, {"CLOSE"}}
    Conditions = {"IN", "HUP"}
    InitFdNums = 1
    MaxFd = 1
    CountMod = 16
    MaxCalls = 3
    MaxFaults = 1
    MaxArrivals = 1
SPECIFICATION FairSpec
CHECK_DEADLOCK FALSE
INVARIANTS Registered LateOnce
PROPERTIES CallbacksDue CallsReturn

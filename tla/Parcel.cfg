SPECIFICATION Spec
CONSTANTS
    Calls <- AllCalls
    Capacities = {0, 100, 4095, 300000}
    Sizes = {24, 60}
    MaxCalls = 4
    AllocMayFail = TRUE
INVARIANTS
    AccessesInBounds
    RoundTrip
    RoomUpToMax
    ReadsAvoidObjects
    ObjectsTracked

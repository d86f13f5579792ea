CONSTANTS
    m1 = m1  m2 = m2
    Objects = {m1, m2}
    Paths = {"a", "b"}
    Page = 2
    Lengths <- TwoPaths
    Offsets = {0, 2}
    Sizes <- SomeSizes
    Modes <- SomeModes
    Hints = {0}
    MaxLength = 6
    MaxCalls = 5
    MaxFaults = 1
    Holders = {h1, h2}
    Regions = {r1}
    MaxFd = 2
    MaxMaps = 2
    Width = 3
    AshmemSizes = {1, 3}
    Subjects = {t1, t2}
    Observers = {o1, o2}
    MaxVersion = 3
    Items = {1, 2, 3}
    MaxLen = 4
    Units = {"file", "descriptors", "observer", "vector"}
SYMMETRY Same
SPECIFICATION UnitsSpec
CHECK_DEADLOCK FALSE
INVARIANTS WindowShowsFile PagesAccounted DescriptorsOwned AccessInside NoChangeMissed HoldsInOrder

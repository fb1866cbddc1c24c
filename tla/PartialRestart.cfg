SPECIFICATION Spec
CONSTANTS
    k1 = k1
    k2 = k2
    p1 = p1
    p2 = p2
    Skeletons = {k1, k2}
    Proxies = {p1, p2}
    ControlOf <- OneOfEach
    MaxGenerations = 2
    MaxCrashes = 3
    OverlappingExit = FALSE
SYMMETRY Symmetry
INVARIANTS
    OneSkeletonPerInstance
    ProviderAndUsersShareMemory
    MemoryIsWhole

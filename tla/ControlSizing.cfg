SPECIFICATION FairSpec
CONSTANTS
    c1 = c1
    c2 = c2
    Consumers = {c1}
    NumSlots = 3
    MaxSamples <- TwoEach
    MaxAllocations = 1
    MaxAllocateRetries = 1
    MaxReferenceRetries = 2
    TimestampMax = 4
    RefCountMax = 3
    MaxCrashes = 1
    ConcurrentRelease = FALSE
INVARIANTS
    FetchedRight
    AllocationHasAFreeSlot
PROPERTIES
    ControlKeepsItsPromise
    CallsReturn

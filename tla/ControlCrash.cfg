SPECIFICATION Spec
CONSTANTS
    c1 = c1
    c2 = c2
    Consumers = {c1, c2}
    NumSlots = 2
    MaxSamples <- OneEach
    MaxAllocations = 1
    MaxAllocateRetries = 1
    MaxReferenceRetries = 1
    TimestampMax = 4
    RefCountMax = 3
    MaxCrashes = 2
    ConcurrentRelease = FALSE
SYMMETRY Symmetry
INVARIANTS
    TypeOK
    RefCountWithinLog
PROPERTIES
    HeldSampleStable
    RollbackLeavesNothing

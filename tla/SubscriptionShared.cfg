SPECIFICATION MCSpec
CONSTANTS
    a = a
    b = b
    c = c
    p1 = p1
    p2 = p2
    Proxies = {a, b, c}
    Processes = {p1, p2}
    ProcessOf <- TwoAndOne
    SampleCount <- UpToTwo
    MaxSubscribers = 2
    MaxSlots = 2
    EnforceMaxSamples = TRUE
    MaxCrashes = 2
    NumEntries = 2
    MaxRegisterRetries = 2
INVARIANTS
    RestartsReported
    CounterWithinBounds
    LiveLogsSafe
    SingleCreationLeavesNoOldLog
CHECK_DEADLOCK FALSE

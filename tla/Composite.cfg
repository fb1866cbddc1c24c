SPECIFICATION Spec
CONSTANTS
    NumSlots = 3
    TimestampMax = 4
    RefCountMax = 3
    MaxMultiAllocate = 2
    MaxAllocateRetries = 1
    MaxAllocations = 2
    MaxReadersB = 1
    MaxReadersQm = 2
    MaxRestarts = 1
    ReofferWithSamples = FALSE
    ReofferAfterDisconnect = FALSE
INVARIANTS
    BlocksAgree
    SamplesIntact
PROPERTIES
    DisconnectionServesAsilB
    AsilBKeepsItsPromise

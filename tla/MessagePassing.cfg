CONSTANTS
    Callers = {c1, c2}
    Nodes = {n1}
    SenderQueueSize = 2
    ReceiverQueueSize = 1
    MaxRetries = 2
    MaxCalls = 3
    MaxSenders = 2
    Stopping = {n1}
SPECIFICATION Spec
INVARIANTS
    HandledRight
    NothingLeftBehind
    NothingUsedAfterFree
    StopsAreReceived
CHECK_DEADLOCK FALSE

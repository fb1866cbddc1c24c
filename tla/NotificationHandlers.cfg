SPECIFICATION MCSpec
CONSTANTS
    a = a
    b = b
    Proxies = {a, b}
    MaxPid = 2
    MaxStopOffers = 1
    MaxRegistrations = 3
    MaxNotifications = 1
    HandlerReadsState = FALSE
SYMMETRY Symmetry
INVARIANTS
    HandlersOwned
    NoWithdrawnHandlerRuns
    RegistrationsKept
PROPERTIES
    EveryHandlerCalled

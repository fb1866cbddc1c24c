SPECIFICATION DiscoverySpec
CONSTANTS
    a = a
    b = b
    c = c
    u = u
    Instances = {1}
    Searches = {a, b, c}
    Target <- AnyAndOne
    SearchQuality <- AllQm
    OfferedAs <- OfferQm
    Users = {u}
    Worker = worker
    Any = any
    NoOne = none
    BatchSize = 2
    HandlerStops = TRUE
    Faults = 1
    MaxOffers = 2
INVARIANTS
    NoOfferMissed
    StoppedSearchesStaySilent
    WatchesMatchSearches
CHECK_DEADLOCK FALSE

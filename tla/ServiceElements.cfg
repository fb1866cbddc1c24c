SPECIFICATION FairSpec
CONSTANTS
    e = e
    f = f
    g = g
    Events = {e}
    Fields = {f, g}
    Watched = {f}
    SampleCount = 2
    NumberOfSlots = 3
    MaxUpdates = 5
    MaxOffers = 2
    WaitsForRelease = TRUE
INVARIANTS
    QuotaKept
    SamplesStay
    FieldShowsLastUpdate
    OfferConsistent
PROPERTIES
    PendingEnds
CHECK_DEADLOCK FALSE

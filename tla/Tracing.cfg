SPECIFICATION Spec
CONSTANTS
    e1 = e1
    Events = {e1}
    Configured <- ConfiguredPoints
    SlotCount = 2
    LocalPoints = {"subscribe"}
    MaxFailures = 2
    OfferResults = {"offered", "prepared"}
    MaxOffers = 2
INVARIANTS
    TracingIsSafe
    LogAccountsForReferences
CHECK_DEADLOCK FALSE

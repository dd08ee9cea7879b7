CONSTANTS
    Calls = {c1}
    MinBuy = 2
    MaxAmount = 2
    MaxCrashes = 0
SPECIFICATION Spec
INVARIANT
    VenueErrorIsNotOk
CHECK_DEADLOCK FALSE

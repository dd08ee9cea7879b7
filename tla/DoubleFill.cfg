CONSTANTS
    Calls = {c1, c2}
    MinBuy = 2
    MaxAmount = 2
    MaxCrashes = 0
    TrustBalance = TRUE
SPECIFICATION CallerSpec
INVARIANT
    NoDoubleFill
CHECK_DEADLOCK FALSE

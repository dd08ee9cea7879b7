CONSTANTS
    Calls = {c1, c2}
    MinBuy = 2
    MaxAmount = 2
    MaxCrashes = 1
    TrustBalance = FALSE
SPECIFICATION FairCallerSpec
INVARIANTS
    NoDoubleFill
PROPERTIES
    ImplementsOrderCall
    CallsReturn
CHECK_DEADLOCK FALSE

CONSTANTS
    Calls = {c1, c2}
    MinBuy = 2
    MaxAmount = 2
    MaxCrashes = 1
SPECIFICATION Spec
SYMMETRY CallSymmetry
INVARIANTS
    TypeOK
    AtMostOnce
    RefusedMeansNoEffect
    MatchedMeansEffect
PROPERTIES
    ImplementsAuthRetry
CHECK_DEADLOCK FALSE

SPECIFICATION FairSpec
CONSTANTS
    Reads = {r1}
    Traders = {t1, t2}
    Values = {v1, v2}
    Shared = shared
    MaxRetries = 2
INVARIANTS
    TypeOK
    NoEarlyGiveUp
    HealthWasTrue
    OthersUndisturbed
PROPERTIES
    ImplementsAtomicRead
    ReadsReturn
    ReadsAdvance
CHECK_DEADLOCK FALSE

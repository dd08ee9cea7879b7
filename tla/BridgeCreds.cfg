CONSTANTS
    Orders = {o1, o2}
    Boot = boot
    MaxRotations = 1
    MaxBlips = 1
    MaxFailures = 1
    MaxBlanks = 1
    MaxCrashes = 1
SPECIFICATION FairSpec
INVARIANTS
    TypeOK
    ClientFollowsCreds
    TornMeansCutShort
PROPERTIES
    HandlersAdvance
    ImplementsAuthRetry
    SettledStays
    KeyRecovers
    OrdersEnd
    BootRecovers
CHECK_DEADLOCK FALSE

CONSTANTS
    Orders = {o1, o2}
    Boot = boot
    MaxRotations = 2
    MaxBlips = 1
    MaxFailures = 0
    MaxBlanks = 0
    MaxCrashes = 0
SPECIFICATION Spec
INVARIANT
    RefreshIsUsed
CHECK_DEADLOCK FALSE

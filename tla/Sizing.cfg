SPECIFICATION Spec
CONSTANTS
    Prices <- MCPrices
    Sizes <- MCSizes
    SizeUnits = 100
    CashUnits = 100
INVARIANTS
    TypeOK
    LargestCleanSize
PROPERTY CutOnce
CHECK_DEADLOCK FALSE

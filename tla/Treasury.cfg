SPECIFICATION FairSpec
CONSTANTS
    Calls = {w1, w2}
    MaxAmount = 3
    MaxMoves = 1
INVARIANTS
    TypeOK
    SentWasCovered
PROPERTIES
    ImplementsOrderCall
    WithdrawalsReturn
CHECK_DEADLOCK FALSE

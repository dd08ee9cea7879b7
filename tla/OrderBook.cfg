SPECIFICATION Spec
CONSTANTS
    Items <- MCItems
    MaxLevels = 3
    Infinity = 9
    NaN = NaN
    Malformed = Malformed
INVARIANTS
    TypeOK
    QuotesAreBest
    GoodLevelsSurvive
CHECK_DEADLOCK FALSE

SPECIFICATION BetSpec
CONSTANTS
    Calls = {c1}
    MinBuy = 2
    MaxAmount = 2
    MaxCrashes = 0
    Documents <- MCDocuments
    Selectors <- MCSelectors
INVARIANTS
    BetTypeOK
    BuysWhatWasAsked
    RefusesOnlyTheUnknown
CHECK_DEADLOCK FALSE

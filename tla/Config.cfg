SPECIFICATION Spec
CONSTANTS
    Unset = Unset
    NaN = NaN
    Text = Text
INVARIANTS
    TypeOK
    OverridesAgree

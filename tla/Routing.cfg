CONSTANTS
    Documents = {d1, d2}
    MaxErrors = 2
SPECIFICATION InputSpec
SYMMETRY DocumentSymmetry
INVARIANTS
    InterfaceAgrees
    TextInputIsOwned
    CardsArmOnlyTheTop
    GesturesComplete
CHECK_DEADLOCK FALSE

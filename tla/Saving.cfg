CONSTANTS
  a = a  b = b
  Blocks = {a, b}  Contents <- MCContents
  Modes = {"private", "shared"}  Private = "private"
  MaxInodes = 3  MaxOthers = 2  CanCrash = TRUE
SYMMETRY MCSymmetry
SPECIFICATION Spec
INVARIANTS LeavesNothingBehind WholeAfterCrash SavesAreTrue
PROPERTIES SaveIsAtomic

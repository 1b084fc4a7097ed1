SPECIFICATION BarSpec
CONSTANTS
  Width <- MCWidth
  Folded <- MCFolded
  LineEnd = {}
  Typed = {"a", "s"}
  Bodies <- MCBodies
  MaximumSurroundingBytes = 4
  MaxQuery = 6
  MaxFocus = 1
CHECK_DEADLOCK FALSE
INVARIANT SurroundingFits

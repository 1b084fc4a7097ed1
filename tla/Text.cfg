SPECIFICATION Spec
CONSTANTS
  Letters = {"a"}
  Composed = "c"
  MaxLength = 2
  MaxActions = 3
  NearFraction = 2
  Elements = {0, 1}
  Empty = 0
  GrowSize = 1
  MaxItems = 3
  Indicators = {0, 8}
  Coloured = {8}
  Styles = {0, 2}
  MaxText = 3
  Other = "x"
  MaxChars = 4
  MaxTyped = 2
  Handles = {h1}
  Heights = {1, 2}
  MaxLines = 3
  MaxExceptions = 2
  Pages <- TwoLines
  Rows <- OneLine
  MaxLetters = 3
  MaxRanges = 3
  MaxRows = 2
  MaxPlaces = 5
  MaxHeld = 1
  TextLengths = {0, 3}
  MaxBuffer = 3
  MaxEdits = 4
  MaxSaves = 1
  Width <- MCWidth
  Folded <- MCFolded
  LineEnd = {}
  Typed = {"a", "s"}
  Bodies <- MCBodies
  MaximumSurroundingBytes = 1
  MaxQuery = 2
  MaxFocus = 2
CHECK_DEADLOCK FALSE
INVARIANTS HistoryIsTrue StoresAgree LinesAgree FieldAgrees

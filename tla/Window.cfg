SPECIFICATION FairSpec
CONSTANTS
  SerialModulus = 4
  Texts = {"near", "there", "far"}
  TooLong = "far"
  MaxFlight = 1
  Height = 3
  Buffers = {b1, b2, b3}
  MaxRectangles = 2
  MaxHistory = 1
  MaxFeedback = 1
  MaxSubmissions = 4
  Dead = "dead"
  Letter = "letter"
  Shift = "shift"
  Rates = {0, 1, 4}
  Second = 2
  Delay = 2
  MaxBurst = 2
  MaxWire = 2
  MaxQueue = 2
  MaxStall = 3
  MaxClicks = 1
  MaxNames = 3
  Sizes = {1, 2}
  Scales = {1, 2}
  Fraction = 3
CHECK_DEADLOCK FALSE
INVARIANTS TextInputAgrees FramesAgree InputAgrees GlobalsAgree
PROPERTIES WindowGoesOn

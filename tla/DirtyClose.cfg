CONSTANTS
  t0 = t0  t1 = t1  big = big  huge = huge  p = p  q = q
  Texts = {t0, t1}  Empty = t0  OverWarning = {}  OverHard = {}
  Typed = {t1}  Foreign = {}  Disks <- MCDisks1
  Paths <- MCPaths1  NoPath = NoPath
  Names <- MCPaths1  Normalize <- MCSame1
  MaxDocs = 3  MaxStamps = 3  MaxGens = 4  MaxDialogs = 2
  MaxTabs = 2  MaxList = 1
  Faults = {"ok", "fails"}  Features = {"startup", "new", "tabs", "close", "undo", "paste"}
SPECIFICATION Spec
INVARIANTS TabsAgree AcceptedCloseWasAgreed
PROPERTIES ClosesFollowThePrompt

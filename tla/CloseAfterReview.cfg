CONSTANTS
  t0 = t0  t1 = t1  big = big  huge = huge  p = p  q = q
  Texts = {t0, t1}  Empty = t0  OverWarning = {}  OverHard = {}
  Typed = {t1}  Foreign = {t1}  Disks <- MCDisks1
  Paths <- MCPaths1  NoPath = NoPath
  Names <- MCPaths1  Normalize <- MCSame1
  MaxDocs = 3  MaxStamps = 4  MaxGens = 2  MaxDialogs = 2
  MaxTabs = 2  MaxList = 1
  Faults = {"ok"}  Features = {"recent","spelling","writers","close"}
SPECIFICATION Spec
INVARIANT NoEditorMisuse

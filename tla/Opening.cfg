CONSTANTS
  t0 = t0  t1 = t1  big = big  huge = huge  p = p  q = q
  Texts = {t0, t1, big, huge}  Empty = t0  OverWarning = {big, huge}  OverHard = {huge}
  Typed = {t1}  Foreign = {}  Disks <- MCDisksLarge
  Paths <- MCPaths2  NoPath = NoPath
  Names <- MCNames2  Normalize <- MCNormalize2
  MaxDocs = 4  MaxStamps = 5  MaxGens = 3  MaxDialogs = 2
  MaxTabs = 3  MaxList = 2
  Faults = {"ok"}  Features = {"open", "startup"}
SPECIFICATION Spec
INVARIANTS TypeOK OneTabPerPath DecisionsDoNotOverlap
PROPERTIES LargeFilesAreGuarded

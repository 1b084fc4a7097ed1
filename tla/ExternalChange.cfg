CONSTANTS
  t0 = t0  t1 = t1  big = big  huge = huge  p = p  q = q
  Texts = {t0, t1}  Empty = t0  OverWarning = {}  OverHard = {}
  Typed = {t1}  Foreign = {t1}  Disks <- MCDisksBoth
  Paths <- MCPaths2  NoPath = NoPath
  Names <- MCPaths2  Normalize <- MCSame2
  MaxDocs = 3  MaxStamps = 3  MaxGens = 2  MaxDialogs = 2
  MaxTabs = 2  MaxList = 1
  Faults = {"ok"}  Features = {"startup", "new", "tabs", "writers"}
SYMMETRY MCSymmetry
SPECIFICATION Spec
INVARIANTS ConflictStaysInItsTab StampVouchesForSavePoint
PROPERTIES WritesAreWanted

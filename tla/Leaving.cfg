CONSTANTS
  t0 = t0  t1 = t1  big = big  huge = huge  p = p  q = q
  Texts = {t0, t1, big}  Empty = t0  OverWarning = {big}  OverHard = {}
  Typed = {t1}  Foreign = {}  Disks <- MCDisksLeaving
  Paths <- MCPaths2  NoPath = NoPath
  Names <- MCPaths2  Normalize <- MCSame2
  MaxDocs = 3  MaxStamps = 3  MaxGens = 2  MaxDialogs = 1
  MaxTabs = 2  MaxList = 2
  Faults = {"ok", "blind"}  Features = {"open", "recent", "spelling", "paste"}
SPECIFICATION FairSpec
PROPERTIES AcceptedCloseLeaves ReviewOwnsTheBuffer

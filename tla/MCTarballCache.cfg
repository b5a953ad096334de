CONSTANTS
  Requests = {r1, r2}
  Files = {f1}
  ro = ro
  rw = rw
  ReadDirs <- MCReadDirs
  WriteDir = rw
  NoDir = NoDir
  Temps = {t1, t2, t3}
  NoTemp = NoTemp
  Replies <- MCReplies
  NoLength = NoLength
  Absent = Absent
  FaultSets <- MCFaultSets
  Volatile = {rw}
  Seed <- MCSeed
SPECIFICATION Spec
INVARIANTS
  StoredAsDeclared
  NoOrphans
  IInv
PROPERTY
  Publishes
SYMMETRY Symmetric

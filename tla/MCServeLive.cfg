CONSTANTS
  Requests = {r1, r2}
  Keys = {k1}
  k1 = k1
  Entries = {e1, e2}
  NoEntry = NoEntry
  NoKey = NoKey
  Files = {f1}
  f1 = f1
  rw = rw
  ReadDirs <- MCReadDirs
  WriteDir = rw
  NoDir = NoDir
  Temps = {t1, t2}
  NoTemp = NoTemp
  Replies <- MCReplies
  NoLength = NoLength
  Absent = Absent
  FaultSets <- MCFaultSets
  Volatile = {}
  Seed <- MCSeed
  FileOf <- MCFileOf
  Rank <- MCRank
  Kinds <- MCKinds
SPECIFICATION FairSpec
PROPERTY
  Finishes

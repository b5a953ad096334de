CONSTANTS
  Requests = {r1, r2}
  Keys = {k1, k2}
  k1 = k1
  k2 = k2
  Entries = {e1, e2}
  NoEntry = NoEntry
  NoKey = NoKey
  Files = {f1, f2}
  f1 = f1
  f2 = f2
  ro = ro
  rw = rw
  ReadDirs <- MCReadDirs
  WriteDir = rw
  NoDir = NoDir
  Temps = {t1, t2}
  NoTemp = NoTemp
  Replies <- MCReplies
  NoLength = NoLength
  Absent = Absent
  FaultSets <- MCFaultSets
  Volatile = {}
  Seed <- MCSeed
  FileOf <- MCFileOf
  Rank <- MCRank
  Kinds <- MCKinds
SPECIFICATION Spec
INVARIANTS
  TypeOK
  OneFetchPerPath
  CouplingInv
  NeverRefetched
  HitAsAnnounced
  AnsweredOnce
  RelaysPreferred
  SentOnce
SYMMETRY Symmetric

CONSTANTS
  Requests = {r1, r2, r3}
  Keys = {k1, k2}
  Entries = {e1, e2, e3}
  NoEntry = NoEntry
  NoKey = NoKey
SPECIFICATION FairSpec
INVARIANTS
  TypeOK
  MutualExclusion
  TableIsInterest
  IInv
PROPERTIES
  TakesTurns
  EveryWaiterServed

CONSTANT
  Calls <- MCCalls
SPECIFICATION FairSpec
INVARIANTS
  TypeOK
  ReturnsHealthy
PROPERTIES
  GraceGranted
  NothingDropped
  Terminates
  ProbesEnd
CHECK_DEADLOCK FALSE

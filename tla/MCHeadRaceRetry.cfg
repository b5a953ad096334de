CONSTANT
  Calls <- MCCalls
SPECIFICATION FairSpec
PROPERTY
  RetriesOnlyTimeouts
CHECK_DEADLOCK FALSE

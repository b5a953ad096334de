CONSTANTS
  Handlers = {h1}
  Requests <- MCRequests
  ConfigFiles <- MCConfigFiles
  Dirs = {"/ro", "/rw"}
  LowerTrim <- MCLowerTrim
  AbsTrim <- MCAbsTrim
  Refused = Refused
  Nil = Nil
  NoDir = NoDir
  None = None
SPECIFICATION FairSpec
INVARIANTS
  TypeOK
  SoundRouter
  LongestMatch
  HitsOwnRequest
  
PROPERTIES
  Drained
  Stops

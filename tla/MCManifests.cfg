CONSTANTS
  Clients = {c1}
  Docs <- MCDocs
  ManifestDocs <- MCManifestDocs
  Size <- MCSize
  MaxVersion <- MCMaxVersion
  Limit = 2
  Rank <- MCRank
  Origin <- MCOrigin
  BasePath <- MCBasePath
  Froms <- MCFroms
  Routes <- MCRoutes
  Settings <- MCSettings
  None = None
SPECIFICATION Spec
INVARIANTS
  TypeOK
  LinksLeadBack
  KeptWhole
PROPERTIES
  Fresh
  ConfirmsWhatItWouldSend

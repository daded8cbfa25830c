CONSTANTS
  Catalogs <- MCCatalogs
  Library <- MCLibrary
  StreamId <- MCStreamId
  FoldedName <- MCFoldedName
  EpisodeIds = {20}
  PreserveOrder = TRUE
  AccountDrafts <- MCAccountDrafts
  Requests <- MCRequests
  XCClients = {c1, c2}
  AppLimit = 1
  MaxImports = 1
  MaxReloads = 1
  MaxXCRequests = 2
  NoIndex = NoIndex
  NoClient = NoClient
SYMMETRY XCSymmetry
SPECIFICATION XCSpec
INVARIANTS SlotsInv ListsInv
CHECK_DEADLOCK FALSE

CONSTANTS
  Ids = {1, 2}
  Files = {"f", "g"}
  RootFiles <- MCRootFiles
  SourceDrafts <- MCSourceDrafts
  StoredRow <- MCStoredRow
  Admits <- MCAdmits
  Scanners = {s1, s2}
  Lookers = {l1, l2}
  Sought = {"g"}
  MaxLibOps = 1
  MaxScans = 2
  MaxLooks = 1
  MaxBusy = 2
  NoSource = NoSource
  NoSnapshot = NoSnapshot
  Nobody = Nobody
  Catalogs <- MCCatalogs
  Library <- MCLibrary
  StreamId <- MCStreamId
  FoldedName <- MCFoldedName
  EpisodeIds = {20}
  PreserveOrder = TRUE
  AccountDrafts <- MCAccountDrafts
  Requests <- MCFewRequests
  XCClients = {c1, c2}
  AppLimit = 1
  MaxImports = 1
  MaxReloads = 1
  MaxXCRequests = 2
  NoIndex = NoIndex
  NoClient = NoClient
  Providers = {"a", "b", "c"}
  Urls = {"panel", "other"}
  Url <- MCUrl
  MaxConnections <- MCMaxConnections
  SeriesStreams <- MCSeriesStreams
  MovieStreams <- MCMovieStreams
  Trees <- MCTrees
  FileClients = {f1, f2}
  SlotLimit = 1
  RemoteFileRetries = 1
  CacheEnabled = TRUE
  MaxFileOps = 1
  MaxFileRequests = 2
  NoTree = NoTree
SYMMETRY ServicesSymmetry
SPECIFICATION ServicesSpec
INVARIANTS LibraryInv SlotsInv ListsInv EpisodesInv
PROPERTY MarkedAfterRetries
CHECK_DEADLOCK FALSE

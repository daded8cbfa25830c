CONSTANTS
  Providers = {"a", "b", "c"}
  Urls = {"panel", "other"}
  Url <- MCUrl
  MaxConnections <- MCMaxConnections
  SeriesStreams <- MCSeriesStreams
  MovieStreams <- MCMovieStreams
  Trees <- MCTrees
  FileClients = {f1, f2}
  SlotLimit = 1
  RemoteFileRetries = 1
  CacheEnabled = TRUE
  MaxFileOps = 1
  MaxFileRequests = 2
  NoTree = NoTree
SPECIFICATION SeriesSpec
INVARIANT EpisodesInv
PROPERTY MarkedAfterRetries
CHECK_DEADLOCK FALSE

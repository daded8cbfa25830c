CONSTANTS
  a1 = a1
  a2 = a2
  Admins = {a1, a2}
  Boot = "boot"
  SettingKeys = {"watcher", "base"}
  ProfileNames = {"P", "Q"}
  Mask = "********"
  Docs <- MCDocs
  JsonDoc <- MCJsonDoc
  Teams <- MCFewTeams
  MaxCfgOps = 3
  MaxFaults = 1
  Accounts = {"main", "second"}
  Catalog <- MCCatalog
  Drafts <- MCFewDrafts
  ProfileDrafts <- MCProfileDrafts
  Stored <- MCStored
  VodWords <- MCVodWords
  Sniff <- MCSniff
  None = None
  MaxFltOps = 3
  XmlSources = {"one", "two"}
  Documents <- MCDocuments
  ReadMax = 5
  TailKept = 1
  ChannelCap = 1
  ProgrammeCap = 1
  EPGMaxRetries = 2
  GuideUrls = {"xml"}
  GuideSDs = {"sd"}
  Feeds <- MCShortFeeds
  GuideChannels = {"HBO", "News"}
  ExportId <- MCExportId
  GuideIds = {"hbo"}
  EPGLists <- MCOneEPGList
  SDLists <- MCOneSDList
  Mappings0 <- MCMappings0
  EPGClients = {"tv"}
  MaxGuideOps = 1
  MaxRefreshes = 2
  MaxGuideFaults = 1
  NoGuide = NoGuide
  Subscribers = {"ann", "bob"}
  SDSessions = {"f1", "f2", "look"}
  Discoverers = {"look"}
  UserOf <- MCUserOf
  SelectedLineups <- MCSelectedLineups
  DaysToFetch <- MCDaysToFetch
  Lineups <- MCLineups
  Stations <- MCStations
  Airings <- MCFewAirings
  Detailed = {"film", "news"}
  SDBatchSize = 2
  SDTokenValid = 1
  SDRefreshThreshold = 1
  SDDefaultDays = 259200
  MaxDates = 1000
  LastHour = 1
  MaxSessions = 3
  MaxSDFaults = 1
  NoToken = NoToken
SPECIFICATION ConfigurationSpec
INVARIANTS StoredIsRead ProvidersAreKept SelectionIsStored PreviewIsFaithful FetchInv GuideInv AccountInv
PROPERTY EditsKeep
CHECK_DEADLOCK FALSE

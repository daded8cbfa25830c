CONSTANTS
  GuideUrls = {"xml"}
  GuideSDs = {"sd"}
  Feeds <- MCFeeds
  GuideChannels = {"HBO", "News"}
  ExportId <- MCExportId
  GuideIds = {"hbo", "cnn"}
  EPGLists <- MCEPGLists
  SDLists <- MCSDLists
  Mappings0 <- MCMappings0
  EPGClients = {"tv"}
  MaxGuideOps = 1
  MaxRefreshes = 2
  MaxGuideFaults = 1
  NoGuide = NoGuide
SPECIFICATION GuideSpec
INVARIANT GuideInv
CHECK_DEADLOCK FALSE

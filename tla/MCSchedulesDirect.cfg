CONSTANTS
  Subscribers = {"ann", "bob"}
  SDSessions = {"f1", "f2", "look"}
  Discoverers = {"look"}
  UserOf <- MCUserOf
  SelectedLineups <- MCSelectedLineups
  DaysToFetch <- MCDaysToFetch
  Lineups <- MCLineups
  Stations <- MCStations
  Airings <- MCAirings
  Detailed = {"film", "news"}
  SDBatchSize = 2
  SDTokenValid = 2
  SDRefreshThreshold = 1
  SDDefaultDays = 259200
  MaxDates = 1000
  LastHour = 2
  MaxSessions = 3
  MaxSDFaults = 1
  NoToken = NoToken
SPECIFICATION SDSpec
INVARIANT AccountInv
CHECK_DEADLOCK FALSE

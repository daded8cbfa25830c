CONSTANTS
  a1 = a1
  a2 = a2
  Admins = {a1, a2}
  Boot = "boot"
  SettingKeys = {"watcher", "base"}
  ProfileNames = {"P", "Q"}
  Mask = "********"
  Docs <- MCDocs
  JsonDoc <- MCJsonDoc
  Teams <- MCTeams
  MaxCfgOps = 3
  MaxFaults = 1
SPECIFICATION ConfigSpec
INVARIANTS StoredIsRead ProvidersAreKept
PROPERTY EditsKeep
CHECK_DEADLOCK FALSE

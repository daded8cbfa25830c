CONSTANTS
  Sources = {"a", "b", "c"}
  Url <- UrlOf
  Order <- OrderOf
  Names = {"n1", "n2"}
  Catalogs <- Kept
  Start <- OneTwo
  Saved <- TwoThree
  Workers = 1
  MaxConns = 1
  Loads = 1
  Imports = 2
  MaxActs = 2
SPECIFICATION FairSpec
INVARIANTS ImportInv CommitIsWhole RefreshSurvives
PROPERTY ServiceGoesOn
CHECK_DEADLOCK FALSE

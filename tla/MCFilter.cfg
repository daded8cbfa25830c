CONSTANTS
  Accounts = {"main", "second"}
  Catalog <- MCCatalog
  Drafts <- MCDrafts
  ProfileDrafts <- MCProfileDrafts
  Stored <- MCStored
  VodWords <- MCVodWords
  Sniff <- MCSniff
  None = None
  MaxFltOps = 3
SPECIFICATION FilterSpec
INVARIANTS SelectionIsStored PreviewIsFaithful
CHECK_DEADLOCK FALSE

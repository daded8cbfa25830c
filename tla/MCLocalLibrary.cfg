CONSTANTS
  Ids = {1, 2}
  Files = {"f", "g"}
  RootFiles <- MCRootFiles
  SourceDrafts <- MCSourceDrafts
  StoredRow <- MCStoredRow
  Admits <- MCAdmits
  Scanners = {s1, s2}
  Lookers = {l1, l2}
  Sought = {"g"}
  MaxLibOps = 1
  MaxScans = 2
  MaxLooks = 2
  MaxBusy = 2
  NoSource = NoSource
  NoSnapshot = NoSnapshot
  Nobody = Nobody
SYMMETRY LibSymmetry
SPECIFICATION LibSpec
INVARIANT LibraryInv
CHECK_DEADLOCK FALSE

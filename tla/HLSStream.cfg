CONSTANTS
  Segment = {1, 2, 3, 4, 5, 6, 7}
  Blank = Blank
  Sizes = {2, 3, 4, 6, 8, 10, 12, 14, 16}
  TrackerSize = 3
  LiveEdge = 2
  MaxEmpty = 2
  MaxErrors = 1
  MaxWindow = 3
  FirstWindows = {2, 3}
  Grows = FALSE
  MaxSeq = 7
  MaxCuts = 1
SPECIFICATION HLSFairSpec
INVARIANTS HLSInv NoReplay OnlyRetriesReorder
PROPERTIES IsRecent StalledSourceEnds
CHECK_DEADLOCK FALSE

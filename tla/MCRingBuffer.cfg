CONSTANTS
  Threads = {t1, t2}
  NoThread = NoThread
  Size = 3
  Byte = {0, 1, 2}
  Zero = 0
  NilData = NilData
  Chunks <- MCChunks
  PeekSizes = {2, 4}
  MaxBytes = 7
SPECIFICATION FairSpec
INVARIANTS NoCopyFromReleased PeekIsRecent
PROPERTY DestroyReleases
CHECK_DEADLOCK FALSE

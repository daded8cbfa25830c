CONSTANTS
  Chans = {k1}
  Calls = {w1}
  Admins = {a1, a2}
  Routines = {r1}
  None = None
  MaxWatchers = 1
  MaxStarts = 2
SPECIFICATION FairSpec
PROPERTY StoppedWatchEnds
CHECK_DEADLOCK FALSE

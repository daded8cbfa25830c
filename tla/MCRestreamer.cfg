CONSTANTS
  Conns = {c1, c2}
  NoConn = NoConn
  Streams = {s1, s2}
  MaxDepth = 2
  MaxWatches = 0
  MaxForces = 0
  CleanupRuns = TRUE
SPECIFICATION FairSpec
INVARIANTS CountAccounting RunningHasStream
PROPERTIES NoStartOnStopped IdleStops
CHECK_DEADLOCK FALSE

CONSTANTS
  Conns = {c1, c2}
  NoConn = NoConn
  Streams = {s1, s2}
  MaxDepth = 1
  MaxWatches = 1
  MaxForces = 1
  CleanupRuns = FALSE
SPECIFICATION Spec
SYMMETRY Symmetry
INVARIANT RunningHasStream
CHECK_DEADLOCK FALSE

CONSTANTS
  Conns = {c1, c2}
  NoConn = NoConn
  Streams = {s1, s2}
  MaxDepth = 1
  MaxWatches = 0
  MaxForces = 0
  CleanupRuns = FALSE
SPECIFICATION Spec
INVARIANT OneStreaming
CHECK_DEADLOCK FALSE

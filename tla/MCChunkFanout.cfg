CONSTANTS
  Clients = {c1, c2}
  Feeders = {f1, f2}
  Chunks = {k1, k2, k3}
  None = None
  Depth = 1
  MaxReads = 3
SPECIFICATION Spec
SYMMETRY Symmetry
INVARIANTS FanoutInv InOrder NewestIsQueued
CHECK_DEADLOCK FALSE

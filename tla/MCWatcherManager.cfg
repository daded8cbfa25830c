CONSTANTS
  Chans = {k1}
  Calls = {w1, w2, w3}
  Admins = {a1}
  Routines = {r1}
  None = None
  MaxWatchers = 2
  MaxStarts = 2
SPECIFICATION Spec
SYMMETRY Symmetry
INVARIANTS SlotAccounting ReleaseNeverBlocks
CHECK_DEADLOCK FALSE

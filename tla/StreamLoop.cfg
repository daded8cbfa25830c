CONSTANTS
  Hashes = {h1, h2}
  Direct = {h1}
  NoHash = NoHash
  Multiplier = 2
  Threshold = 2
  MaxFailures = 1
  Kinds <- AllKinds
  MaxActs = 2
SPECIFICATION FairSpec
INVARIANTS LoopInv ChargedForFaults
PROPERTIES ChoiceHonoured OrdersReachPlayer
CHECK_DEADLOCK FALSE

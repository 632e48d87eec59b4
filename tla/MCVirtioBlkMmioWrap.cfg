CONSTANTS
  QueueSize = 2
  IdxMod = 4
  Chains <- FineChains
SPECIFICATION FairSpec
PROPERTY Served
CHECK_DEADLOCK FALSE

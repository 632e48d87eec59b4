CONSTANTS
  QueueSize = 2
  IdxMod = 4
  Chains <- AllChains
SPECIFICATION FairSpec
INVARIANTS SetupAgrees UsedOnce StatusHonest InPlace Announced
PROPERTY Returned
CHECK_DEADLOCK FALSE

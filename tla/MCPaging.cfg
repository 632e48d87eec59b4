CONSTANTS
  IndexBits = 1
  Ranges <- RangesMC
  Requests <- RequestsMC
  MaxCalls = 2
  MaxTables = 7
SPECIFICATION Spec
INVARIANTS MapsRange TablesTree
PROPERTY OthersKept
CHECK_DEADLOCK FALSE

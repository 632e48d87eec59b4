CONSTANTS
  SectorSize = 2
  SectorsPerCluster = 3
  FirstSector = 1
  Requests <- ServedRequests
  Later <- LaterRequests
  NumDesc = 4
  IdxMod = 8
  OverflowChecks = FALSE
SPECIFICATION FairSpec
INVARIANTS DataExact WithinSector TakesOwn
PROPERTIES ErrForCause Returns
CHECK_DEADLOCK FALSE

CONSTANTS
  SectorSize = 2
  SectorsPerCluster = 3
  FirstSector = 1
  Requests <- SplitReads
  Later = {}
  NumDesc = 4
  IdxMod = 8
  OverflowChecks = FALSE
SPECIFICATION AllSpec
INVARIANT WithinSector
CHECK_DEADLOCK FALSE

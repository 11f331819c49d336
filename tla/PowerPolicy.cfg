CONSTANTS
  Cap = 2
  DimAfter = 0
  OffAfter = 1
  Confirmation = 1
  DoubleClick = 1
  MaxEvents = 2
  MaxBoots = 2
  MaxFaults = 1
SPECIFICATION FairSpec
INVARIANTS
  DownAsIntended
  LogTellsTheTruth
PROPERTIES
  LowBatteryShutsDown
CHECK_DEADLOCK FALSE

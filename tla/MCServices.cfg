SPECIFICATION ServicesSpec
CONSTANTS
  Tens = 1
  Ones = 0
  HistoryCap = 2
  BucketSamples = 2
  FreeLevels = {1, 2}
  MaxClears = 2
  MaxBuckets = 3
  NumLogs = 1
  RingCap = 2
  MaxPushes = 3
  MaxLogClears = 2
  MaxLogBoots = 2
  Base = 4
  MaxVarint = 3
  Word = 32
  Half = 8
  ChunkBytes = 5
  MaxEvents = 2
  MaxSamples = 2
  MaxItems = 3
  WireTimes = {3, 30}
  WireWeights = {7}
  WireTimers = {5, 31}
  WireLeads = {15}
  Clients = {c1, c2}
  MaxTokens = 1
  MaxAttempts = 2
  MaxWindows = 2
  MaxRedeems = 2
  MaxAuthFails = 1
  MaxFuel = 5
INVARIANTS
  PanelShowsActive
  OldRowsOnlyFromTickInProgress
  PageIsCurrent
  FreshTagFreshRows
  MarkerMatchesDump
  RecordReadsBack
  WindowIsLimited
  KnownArePaired
CHECK_DEADLOCK FALSE

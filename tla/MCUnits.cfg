SPECIFICATION UnitsSpec
CONSTANTS
  Capacity = 2
  MaxId = 5
  MaxSaves = 6
  MaxFaults = 3
  MaxErasures = 1
  Limit = 1
  MaxClicks = 3
  kMin = 1
  kMax = 7
  PumpBins = {4, 5, 6}
  EdgeBins = {3}
  Powers = {0, 1, 2, 5}
  ClusterGap = 1
  SnrOn = 14
  SnrStay = 11
  StartDrop = 4
  RecoveryDrop = 2
  NOn = 2
  NOff = 2
  ReferenceFrames = 3
  MinReferenceFrames = 2
  MaxCarry = 3
  Snrs = {8, 12, 14, 16}
  MaxLate = 2
  Screens = {"extraction", "backflush"}
  CycleCount = 2
  PhaseTarget = 4
  ConfirmEarly = 3
  ConfirmLate = 1
  Inactivity = 7
  SensorStale = 2
  SummaryAwake = 2
  Countdown = 2
  MaxTickGap = 2
  MaxFrame = 17
  Pieces <- MCPieces
  Packets <- MCPackets
  MSG_LOG_CAP = 2
  SCAN_TABLE_CAP = 2
  MIN_PLAUSIBLE_INTERVAL_MS = 2
  Devices = {"a", "b", "c"}
  Period = 5
  Rssi = {1, 2}
  MaxNotes = 2
  MaxToggles = 2
  MaxSends = 1
  MaxPolls = 1
  MaxAdverts = 4
  MaxNow = 8
INVARIANTS
  HistoryBounded
  PumpToneFound
  CallsStayInSession
  PeriodsMeasured
  FramesRecovered
  PageShowsLog
  ConfirmedPageIsCurrent
PROPERTIES
  KeepsArchive
CHECK_DEADLOCK FALSE

SPECIFICATION ExtractionSpec
CONSTANTS
  ClockRange = 19
  EmptyTimeout = 1
  SettleTimeout = 2
  StallTimeout = 1
  CloseSamples = 1
  MaxEvents = 5
  MaxSamples = 1
  MaxGap = 1
  MaxPull = 2
  MaxAge = 2
  Bands = {"pour","rest","none"}
  FirstStarts = {1}
  LatestStart = 3
  Alarms = TRUE
  ShortPulses = FALSE
  SharedStamps = FALSE
  UserTargets = {0, 2}
  StoredTargets = {1}
  MaxYield = 2
  Overshoot = 1
  ApproachWindow = 2
INVARIANTS
  PumpTimeAccounted
  TimelineSound
  LivePullHasUserTarget
  ToneMeansAlert
  PanelShowsPresent
PROPERTIES
  RecordCloses

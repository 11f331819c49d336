CONSTANTS
  Addrs = {"A", "B"}
  QueueDepth = 1
  MaxAttempts = 1
  MaxEvents = 3
  MaxFaults = 2
SPECIFICATION FairSpec
INVARIANTS
  ReadyWeightIsLive
  TareOnAskedLink
PROPERTIES
  ScaleIsReached

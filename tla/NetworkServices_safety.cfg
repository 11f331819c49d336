CONSTANTS
  Ssids = {"home"}
  Passes = {"p1"}
  MaxEvents = 2
  MaxFuel = 3
  MaxFaults = 1
  MaxGeneration = 1
  MaxRoutes = 1
SPECIFICATION FairSpec
INVARIANTS
  RadioMatches
PROPERTIES
  ResetHappens
  HttpStopReturns
  ImplementsRadio
CHECK_DEADLOCK FALSE

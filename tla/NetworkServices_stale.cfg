CONSTANTS
  Ssids = {"home"}
  Passes = {"p1"}
  MaxEvents = 2
  MaxFuel = 3
  MaxFaults = 0
  MaxGeneration = 0
  MaxRoutes = 0
SPECIFICATION Spec
INVARIANTS
  StaleIpIsInert
CHECK_DEADLOCK FALSE

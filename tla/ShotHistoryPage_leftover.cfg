CONSTANTS
  Capacity = 2
  MaxId = 2
  MaxSaves = 2
  MaxFaults = 2
  MaxErasures = 0
  Limit = 1
  MaxClicks = 1
SPECIFICATION PageSpec
INVARIANTS
  WholeAnswerIsCurrent
CHECK_DEADLOCK FALSE

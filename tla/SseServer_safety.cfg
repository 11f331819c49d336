CONSTANTS
  Pages = {p1, p2}
  MaxTickets = 3
  MaxEvents = 3
SPECIFICATION FairSpec
INVARIANTS
  OneLiveStream
PROPERTIES
  StopReturns
CHECK_DEADLOCK FALSE

CONSTANTS
  Clients = {c1}
  MaxTokens = 1
  MaxAttempts = 1
  MaxWindows = 1
  MaxRedeems = 1
  MaxAuthFails = 1
  MaxFuel = 5
SPECIFICATION Spec
INVARIANTS
  RevokedStayOut
CHECK_DEADLOCK FALSE

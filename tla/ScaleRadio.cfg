CONSTANTS
  StageTimeout = 1
  Policies = {"Demand", "ForceRunning", "ForceStopped", "ExternalControl"}
  MaxEvents = 3
  PromptDrain = FALSE
SPECIFICATION FairSpec
INVARIANTS
  RadioReleasedBeforeDeinit
  HandoverStrandsNothing
PROPERTIES
  Convergence

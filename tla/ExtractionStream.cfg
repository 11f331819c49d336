SPECIFICATION Spec
CONSTANT
  Bounds <- MCBounds
INVARIANTS
  NoDesync
  RestingPageIsCurrent
PROPERTIES
  EachShotPersistedOnce

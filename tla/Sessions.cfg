SPECIFICATION MCSpec
CONSTANTS
  Defs = {d1, d2}
  Hosts = {h1}
  None = none
  MaxHandles = 2
  MaxEdits = 1
  MaxFlips = 1
  EditsWhileTunneling = FALSE
CHECK_DEADLOCK FALSE
INVARIANTS
  TypeOK
  SessionMatchesConfig
  NobodyOnDisposed
  NoZombies
PROPERTIES
  HealthSettles

SPECIFICATION Spec
CONSTANTS
  Defs = {d1, d2}
  Hosts = {h1}
  None = none
  MaxHandles = 2
  MaxEdits = 1
  MaxFlips = 1
  EditsWhileTunneling = TRUE
CHECK_DEADLOCK FALSE
INVARIANTS
  SessionMatchesConfig

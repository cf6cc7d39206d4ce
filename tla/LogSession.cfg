SPECIFICATION Spec
CONSTANTS
  Names = {1, 2}
  MaxVersions = 4
  MaxFaults = 1
  MaxRechecks = 1
  Relists = TRUE
CHECK_DEADLOCK FALSE
INVARIANTS
  TypeOK
  DisposedIsQuiet
  RestsRightly
PROPERTIES
  CompleteIsHonest

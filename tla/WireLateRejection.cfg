SPECIFICATION Spec
CONSTANTS
  Uids = {u1}
  Other = other
  MaxRv = 2
  MaxIds = 1
  MaxWatchers = 2
  MaxServed = 4
  MaxFaults = 2
  LateRejections = TRUE
  LateCloses = FALSE
CHECK_DEADLOCK FALSE
INVARIANTS
  NoOrphans

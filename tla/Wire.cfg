SPECIFICATION MCSpec
CONSTANTS
  Uids = {u1, u2}
  Other = other
  MaxRv = 3
  MaxIds = 2
  MaxWatchers = 2
  MaxServed = 5
  MaxFaults = 1
  LateRejections = TRUE
  LateCloses = TRUE
CHECK_DEADLOCK FALSE
INVARIANTS
  TypeOK
  InFlightConverges
  NoOrphans
PROPERTIES
  RowsNeverRegress
  Settles

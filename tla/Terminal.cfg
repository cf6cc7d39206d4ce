SPECIFICATION MCSpec
CONSTANTS
  Windows = {a, b}
  a = a
  b = b
  Home = a
  MaxOutput = 2
  MaxBuffer = 1
  MaxTransfers = 2
  MaxFaults = 1
  LateReplies = FALSE
CHECK_DEADLOCK FALSE
INVARIANTS
  TypeOK
  Conserved
  NoOrphanShell
PROPERTIES
  EndsUnattended
  NothingLingers

SPECIFICATION Spec
CONSTANTS
  Windows = {a, b}
  a = a
  b = b
  Home = a
  MaxOutput = 2
  MaxBuffer = 2
  MaxTransfers = 2
  MaxFaults = 1
  LateReplies = TRUE
CHECK_DEADLOCK FALSE
INVARIANTS
  Conserved

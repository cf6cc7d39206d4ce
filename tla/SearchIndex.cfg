SPECIFICATION MCSpec
CONSTANTS
  Builtin = {}
  Custom = {c}
  Slots = {1, 2}
  MaxWrites = 2
  MaxLife = 3
  MaxFaults = 1
CHECK_DEADLOCK FALSE
INVARIANTS
  TypeOK
  IndexIsServerState
  NoticedIsIndexed
PROPERTY Settles

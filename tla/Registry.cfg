\* Three successive entries, so that an entry from before a stopAll, its timer
\* and two newer entries exist at once.
SPECIFICATION Spec
CONSTANTS
  Holders = {h1, h2, h3}
  MaxEntries = 3
CHECK_DEADLOCK FALSE
INVARIANTS
  TypeOK
  RefsCountHolders
  HeldIsRunning
  OneWatcherPerType
PROPERTIES
  UnheldStops

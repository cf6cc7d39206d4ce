\* Four writes to two objects: an object can be created, deleted and another
\* one changed around a page, a chunk or a relist.
SPECIFICATION MCSpec
CONSTANTS
  Uids = {u1, u2}
  Other = other
  Subs = {s1}
  MaxRv = 4
  MaxFaults = 1
  FromWatchCache = TRUE
  TokensExpire = FALSE
  ErrorJoinsChunk = FALSE
CHECK_DEADLOCK FALSE
INVARIANTS
  TypeOK
  CacheIsServerState
  ViewMatchesCache
PROPERTIES
  NeverGoesBack
  SubscribersImplementFeed
  EventuallyFresh
  StoppedLoopExits
  FaultyCacheEventuallyFresh

SPECIFICATION FairSpec
CONSTANTS
  Uids = {u1, u2}
  Other = other
  Subs = {s1}
  MaxRv = 3
  MaxFaults = 1
  FromWatchCache = FALSE
  TokensExpire = FALSE
  ErrorJoinsChunk = TRUE
CHECK_DEADLOCK FALSE
PROPERTY EventuallyFresh

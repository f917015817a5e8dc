\* Ids never collide, every thread is fair; no symmetry, for liveness.
CONSTANTS
  Workers = {w1, w2}
  Objs = {o1, o2}
  Ids = {i1, i2}
  IPs = {c1}
  None = None
  Timeout = 2
  FirstClean = 2
  IntMax = 7
  FreshIds = TRUE
  Prompt = TRUE
SPECIFICATION FairSpec
INVARIANT MappedAreQueued
INVARIANT NoUseAfterFree
INVARIANT NothingLeaks
PROPERTY MappedUntilExpired
PROPERTY ExpiredAreDeleted
PROPERTY StopEnds
CHECK_DEADLOCK FALSE

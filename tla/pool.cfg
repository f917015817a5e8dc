\* Two workers whose requests nest and meet in the pool; one connection leaks.
CONSTANTS
  Workers = {w1, w2}
  RegIDs = {"mysql", "sphinx"}
  MySQL = "mysql"
  Conns = {c1, c2, c3, c4, c5}
  NoConn = NoConn
  Nesting = 2
  LeakLimit = 1
SYMMETRY Interchangeable
SPECIFICATION PoolSpec
INVARIANT ExclusiveUse
INVARIANT NothingLost
CHECK_DEADLOCK FALSE

\* Both platforms, every configuration; two worker threads that meet in the
\* pool, with requests that do not nest.
CONSTANTS
  Workers = {w1, w2}
  RegIDs = {"mysql", "sphinx"}
  MySQL = "mysql"
  Sphinx = "sphinx"
  NoConn = NoConn
  Conns = {c1, c2}
  Nesting = 1
  LeakLimit = 0
  Platforms = {"windows", "linux"}
SPECIFICATION FairSpec
INVARIANTS
  NoOrphan
  StopsKnownTasks
PROPERTY EndsOnSigint
CHECK_DEADLOCK FALSE

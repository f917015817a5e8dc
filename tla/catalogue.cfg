\* Two workers; every statement may fail; the index is rebuilt once.
CONSTANTS
  Workers = {w1, w2}
  Commands <- MCCommands
  Names = {"tla", "tla+"}
  Matches <- MCMatches
  MaxRequests = 5
  MaxRebuilds = 1
  Sphinx = TRUE
  Faulty = {"select", "update", "verify", "insert", "lastInsertId", "name", "sphinx", "hit"}
SYMMETRY Symmetric
SPECIFICATION Spec
INVARIANT InsertionIsSound
INVARIANT SearchIsExact
 
CHECK_DEADLOCK FALSE

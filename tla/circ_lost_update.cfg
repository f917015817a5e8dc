\* Two worker threads and two readers, nobody at the desk: no failing
\* statement, returns only of books held.
CONSTANTS
  Workers = {w1, w2}
  Sessions = {"reader1", "reader2"}
  Users = {"ann", "bob", "eve"}
  Books = {"b1"}
  UserOf <- OwnUsers
  LevelOf <- Administrator
  BorrowLimit = 2
  InitialCopies = {1, 2}
  Numbers <- AnyNumber
  Budget <- Twice
  Faulty = {}
  OwedOnly = TRUE
SYMMETRY WorkerSymmetry
SPECIFICATION Spec
INVARIANT BcountIsLoans
CHECK_DEADLOCK FALSE

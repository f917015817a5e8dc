\* Two worker threads; two sessions of one reader and an administrator who
\* borrows as well; every statement may fail, any book may be returned.
CONSTANTS
  Workers = {w1, w2}
  Sessions <- MCSessions
  Users = {"ann", "eve"}
  Books = {"b1"}
  UserOf <- SharedUser
  LevelOf <- Administrator
  BorrowLimit = 1
  InitialCopies = {1, 2}
  Numbers <- AnyNumber
  Budget <- DeskOnce
  Faulty <- Everything
  OwedOnly = FALSE
SYMMETRY WorkerSymmetry
SPECIFICATION HSpec
INVARIANTS
  TypeOK
  RowsLegal
  AllowancesHold
  BooksHold
  LoansHaveRows
  ReturnsHaveLoans
PROPERTY LedgerSpec
CHECK_DEADLOCK FALSE

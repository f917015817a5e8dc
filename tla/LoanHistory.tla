----------------------------- MODULE LoanHistory -----------------------------
(***************************************************************************)
(* Circulation with a history of what went wrong.  The statements of a     *)
(* request are not a transaction, so a row can be miscounted; the history  *)
(* names, per row, the only occasions on which that may have happened:     *)
(* two requests that work with the row were in service at the same time,   *)
(* or a request broke off between two of its writes.  Everything that      *)
(* Circulation can do is still done here, with any number of workers, any  *)
(* sessions and any failing statements: the history only watches.  On      *)
(* every row that it does not name the books are exact, which is what the  *)
(* properties below say.                                                   *)
(***************************************************************************)
EXTENDS Circulation

VARIABLES
  looseUsers, \* rows whose num may be anything
  tightUsers, \* rows whose num may be below what the records leave
  looseBooks, \* rows whose bcount may be anything
  tightBooks  \* rows whose bcount may be above the copies that are out

history == <<looseUsers, tightUsers, looseBooks, tightBooks>>
hvars   == <<shelf, count, bcount, num, outs, ins, pc, req, loc, left, history>>

-----------------------------------------------------------------------------
(* The occasions *)

LoanOps == {"user_borrowBook", "user_returnBook"}

(* Worker w serves a request that reads the row of user u, of book b.      *)
AtUser(w, u) == /\ pc[w] # "idle"
                /\ req[w].user = u
                /\ req[w].op \in LoanOps \union {"user_setBasicInfo"}
AtBook(w, b) == /\ pc[w] # "idle"
                /\ req[w].book = b
                /\ req[w].op # "user_setBasicInfo"

TwoAtUser(u) == \E v, w \in Workers : v # w /\ AtUser(v, u) /\ AtUser(w, u)
TwoAtBook(b) == \E v, w \in Workers : v # w /\ AtBook(v, b) /\ AtBook(w, b)

Moves(w, from, to) == pc[w] \in from /\ pc'[w] \in to

(* The record of a loan, or of a return, is not inserted.  The row of the  *)
(* user has been written and stays as it is.                               *)
LoanUnrecorded(w)   == Moves(w, {"logOut"}, {"undoOut"})
ReturnUnrecorded(w) == Moves(w, {"logIn"}, {"undoIn"})

(* A return that has counted the book in ends without a record and without *)
(* counting it out again.                                                  *)
ReturnLeft(w) == \/ Moves(w, {"countOuts", "countIns"}, {"idle"})
                 \/ Moves(w, {"undoIn"}, {"idle"}) /\ UNCHANGED bcount

(* A borrowing that has counted the book out ends the same way.            *)
LoanLeft(w) == Moves(w, {"undoOut"}, {"idle"}) /\ UNCHANGED bcount

-----------------------------------------------------------------------------
HInit == /\ Init
         /\ looseUsers = {} /\ tightUsers = {}
         /\ looseBooks = {} /\ tightBooks = {}

Watch ==
  /\ looseUsers' = looseUsers \union
       {u \in Users : TwoAtUser(u)' \/ \E w \in Workers : U(w) = u /\ ReturnUnrecorded(w)}
  /\ tightUsers' = tightUsers \union
       {u \in Users : \E w \in Workers : U(w) = u /\ LoanUnrecorded(w)}
  /\ looseBooks' = looseBooks \union
       {b \in Books : TwoAtBook(b)' \/ \E w \in Workers : B(w) = b /\ ReturnLeft(w)}
  /\ tightBooks' = tightBooks \union
       {b \in Books : \E w \in Workers : B(w) = b /\ LoanLeft(w)}

HNext == Next /\ Watch

HSpec == HInit /\ [][HNext]_hvars

-----------------------------------------------------------------------------
(* Properties *)

(* Between the requests of a user, num is not above what the borrow        *)
(* records leave of the limit, and exactly that unless the INSERT of a     *)
(* loan's record has failed.  The user is not one of those two requests of *)
(* whom were in service at once, or the record of whose return was lost:   *)
(* nothing else, no other user's request, no librarian and no other        *)
(* failing statement, can spoil the allowance that CUser::borrowBook and   *)
(* returnBook keep in a row apart from the records.                        *)
AllowancesHold ==
  \A u \in Users \ looseUsers :
    (\A w \in Workers : ~AtUser(w, u)) =>
      /\ num[u] <= BorrowLimit - HeldBy(u)
      /\ u \notin tightUsers => num[u] = BorrowLimit - HeldBy(u)

(* Between the requests about a book, bcount is not below the number of    *)
(* copies that the records show to be out, and exactly that unless a       *)
(* borrowing broke off and could not be taken back.  The book is not one   *)
(* that two requests were about at once, or that a return was refused for  *)
(* or broke off on after CBook::borrow(-1).                                *)
BooksHold ==
  \A b \in shelf \ looseBooks :
    (\A w \in Workers : ~AtBook(w, b)) =>
      /\ bcount[b] >= Lent(b)
      /\ b \notin tightBooks => bcount[b] = Lent(b)

(* CBook::deleteBook takes no such book's row away while a copy is out.    *)
LoansHaveRows == \A b \in Books \ (shelf \union looseBooks) : Lent(b) = 0

(* The records of a user never show more returns of a book than loans,     *)
(* although the two are counted by separate statements and the record is   *)
(* inserted three statements later, unless both rows have been worked on   *)
(* by two requests at once.                                                *)
ReturnsHaveLoans ==
  \A u \in Users, b \in Books :
    (u \notin looseUsers \/ b \notin looseBooks) => ins[<<u, b>>] <= outs[<<u, b>>]

(* The requests, each a series of statements that interleave with those of *)
(* other workers and may fail, look like the indivisible steps of          *)
(* LoanLedger for every reader and book not named in looseUsers and        *)
(* looseBooks: a loan happens when its record is inserted, and then it is  *)
(* within the limit and of a copy that is in the house; a return is of a   *)
(* book held; the copies written off are there.                            *)
Copies == [b \in Books |-> IF b \in shelf THEN count[b] ELSE 0]

Ledger == INSTANCE LoanLedger
            WITH loans         <- owed,
                 copies        <- Copies,
                 disputedUsers <- looseUsers,
                 disputedBooks <- looseBooks
LedgerSpec == Ledger!Spec
=============================================================================

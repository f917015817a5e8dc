----------------------------- MODULE LoanLedger -----------------------------
(***************************************************************************)
(* What the circulation desk of LiBrother promises, with every request     *)
(* taken as one indivisible step: who holds how many copies of which book, *)
(* and how many copies the catalogue lists.  There are no cached rows, no  *)
(* counters that repeat what the loans already say and no failures.        *)
(*                                                                         *)
(* The server has no transactions, so the promise has an exception: a      *)
(* reader or a book may become disputed, and what is recorded of a         *)
(* disputed reader or book is free.  LoanHistory says when a row becomes   *)
(* disputed, and refines this module for any number of worker threads.     *)
(***************************************************************************)
EXTENDS Integers, FiniteSets

CONSTANTS
  Users,       \* the registered readers
  Books,       \* the rows of BookInfoDatabase (an id is never used twice)
  BorrowLimit, \* nDefaultBorrowLimit: the books one reader may hold
  Numbers      \* the numbers a librarian may enter

VARIABLES
  loans,  \* loans[<<u, b>>]: the copies of b that u holds
  copies, \* copies[b]: the copies the catalogue lists; 0 if b has no row
  disputedUsers,  \* the readers, and the books, of whom nothing is promised
  disputedBooks

ledgerVars == <<loans, copies, disputedUsers, disputedBooks>>

\* The copies of b that u holds, numbered; all that u holds; all copies of b
\* that someone holds.
OnLoan(u, b) == {<<u, b, i>> : i \in 1 .. loans[<<u, b>>]}
HeldBy(u) == Cardinality(UNION {OnLoan(u, b) : b \in Books})
Lent(b)   == Cardinality(UNION {OnLoan(u, b) : u \in Users})

Init == /\ loans = [p \in Users \X Books |-> 0]
        /\ copies \in [Books -> Nat \ {0}]
        /\ disputedUsers = {}
        /\ disputedBooks = {}

(***************************************************************************)
(* A reader below the limit takes a copy that is in the house.             *)
(***************************************************************************)
Lend(u, b) == /\ HeldBy(u) < BorrowLimit
              /\ Lent(b) < copies[b]
              /\ loans' = [loans EXCEPT ![<<u, b>>] = @ + 1]
              /\ UNCHANGED copies

(***************************************************************************)
(* A reader brings back a copy that this reader holds.                     *)
(***************************************************************************)
TakeBack(u, b) == /\ loans[<<u, b>>] > 0
                  /\ loans' = [loans EXCEPT ![<<u, b>>] = @ - 1]
                  /\ UNCHANGED copies

(***************************************************************************)
(* A librarian writes off copies that are in the house.  A negative number *)
(* adds copies: the code asks only that enough copies are in the house.    *)
(***************************************************************************)
Discard(b, n) == /\ copies[b] > 0
                 /\ n <= copies[b] - Lent(b)
                 /\ copies' = [copies EXCEPT ![b] = @ - n]
                 /\ UNCHANGED loans

(***************************************************************************)
(* A librarian corrects the number of copies.  Nothing relates the new     *)
(* number to the copies that are out.                                      *)
(***************************************************************************)
Recount(b, c) == /\ copies[b] > 0
                 /\ c > 0
                 /\ copies' = [copies EXCEPT ![b] = c]
                 /\ UNCHANGED loans

(***************************************************************************)
(* Loans that a disputed reader or book is part of and the copies of       *)
(* disputed books change in any way; all others stay.                      *)
(***************************************************************************)
Muddle ==
  /\ \A u \in Users \ disputedUsers, b \in Books \ disputedBooks :
       loans'[<<u, b>>] = loans[<<u, b>>]
  /\ \A b \in Books \ disputedBooks : copies'[b] = copies[b]

(* What the library does, at any time along with a dispute that arises; no *)
(* dispute is ever settled.                                                *)
Next == /\ \/ \E u \in Users, b \in Books   : Lend(u, b) \/ TakeBack(u, b)
           \/ \E b \in Books, n \in Numbers : Discard(b, n) \/ Recount(b, n)
           \/ Muddle
           \/ UNCHANGED <<loans, copies>>
        /\ disputedUsers \subseteq disputedUsers'
        /\ disputedBooks \subseteq disputedBooks'

Spec == Init /\ [][Next]_ledgerVars
=============================================================================

-------------------------- MODULE CirculationProofs --------------------------
(***************************************************************************)
(* Theorems about Circulation, for every set of workers, sessions, users   *)
(* and books, every assignment of sessions to users, and every set of      *)
(* statements that may fail.                                               *)
(***************************************************************************)
EXTENDS LoanHistory, FiniteSetTheorems, TLAPS

-----------------------------------------------------------------------------
(* Requests *)

(* What a client can send has the type of a request.                       *)
LEMMA SendableType == Sendable \subseteq Request
<1> USE CirculationAssumption
<1> DEFINE anyBook == CHOOSE b \in Books : TRUE
           R(s, op, u, b, n) ==
             [sess |-> s, op |-> op, user |-> u, book |-> b, number |-> n]
           Loans(s) == {R(s, op, u, b, 0) : op \in {"user_borrowBook", "user_returnBook"},
                                            u \in Users, b \in Books}
           Desk(s) == {R(s, op, UserOf[s], b, n) :
                         op \in {"book_deleteBook", "book_setBasicInfo"},
                         b \in Books, n \in Numbers}
           Profile(s) == {R(s, "user_setBasicInfo", u, anyBook, 0) : u \in Users}
<1>1. anyBook \in Books
  OBVIOUS
<1>2. ASSUME NEW s \in Sessions PROVE Loans(s) \subseteq Request
  BY DEF Request, Ops
<1>3. ASSUME NEW s \in Sessions PROVE Desk(s) \subseteq Request
  BY DEF Request, Ops
<1>4. ASSUME NEW s \in Sessions PROVE Profile(s) \subseteq Request
  BY <1>1 DEF Request, Ops
<1>5. Sendable = UNION {Loans(s) \union Desk(s) \union Profile(s) : s \in Sessions}
  BY DEF Sendable
<1> HIDE DEF Loans, Desk, Profile
<1> QED BY <1>2, <1>3, <1>4, <1>5

(* There is always a request to stand in for none.                         *)
LEMMA NoReqType == NoReq \in Request
<1> USE CirculationAssumption
<1>1. PICK s \in Sessions : TRUE
  OBVIOUS
<1>2. PICK b \in Books : TRUE
  OBVIOUS
<1>3. UserOf[s] \in Users
  OBVIOUS
<1>4. [sess |-> s, op |-> "user_borrowBook", user |-> UserOf[s], book |-> b,
       number |-> 0] \in Sendable
  BY <1>1, <1>2, <1>3 DEF Sendable
<1> QED BY <1>4, SendableType DEF NoReq

-----------------------------------------------------------------------------
(* Type correctness *)

Loc == [num : Int, count : Int, bcount : Int, num0 : Int]

(* The part of TypeOK about the database, and the part about the workers.  *)
DbType == /\ shelf \in SUBSET Books
          /\ count \in [Books -> Int]
          /\ bcount \in [Books -> Int]
          /\ num \in [Users -> Int]
          /\ outs \in [Users \X Books -> Nat]
          /\ ins \in [Users \X Books -> Nat]

WorkerType == /\ pc \in [Workers -> PCs]
              /\ req \in [Workers -> Request]
              /\ loc \in [Workers -> Loc]
              /\ left \in [Sessions -> Nat]

LEMMA TypeSplit == TypeOK <=> DbType /\ WorkerType
BY DEF TypeOK, DbType, WorkerType, Loc

(* A worker's request names a user and a book.                             *)
LEMMA ReqFields ==
  ASSUME WorkerType, NEW w \in Workers
  PROVE  /\ U(w) \in Users /\ B(w) \in Books
         /\ req[w].sess \in Sessions /\ req[w].op \in Ops
         /\ req[w].number \in Int
<1>1. req[w] \in Request
  BY DEF WorkerType
<1>2. Numbers \union {0} \subseteq Int
  BY CirculationAssumption
<1> QED BY <1>1, <1>2 DEF Request, U, B

LEMMA AnswerType ==
  ASSUME WorkerType, NEW w \in Workers, Answer(w)
  PROVE  WorkerType'
BY NoReqType DEF WorkerType, Answer, NoLoc, Loc, PCs

LEMMA ContinueType ==
  ASSUME WorkerType, NEW w \in Workers, NEW next \in PCs, NEW l \in Loc,
         Continue(w, next, l)
  PROVE  WorkerType'
BY DEF WorkerType, Continue

LEMMA DbUnchangedType ==
  ASSUME DbType, UNCHANGED db
  PROVE  DbType'
BY DEF DbType, db

LEMMA BookBorrowType ==
  ASSUME DbType, WorkerType, NEW w \in Workers, NEW number \in Int,
         NEW next \in PCs, NEW l \in Loc, BookBorrow(w, number, next, l)
  PROVE  DbType' /\ WorkerType'
<1>1. CASE CanBorrow(l, number)
  <2>1. UpdateBcount(B(w), l.bcount + number)
    BY <1>1 DEF BookBorrow
  <2>2. Continue(w, next, [l EXCEPT !.bcount = @ + number])
    BY <1>1 DEF BookBorrow
  <2>3. [l EXCEPT !.bcount = @ + number] \in Loc
    BY DEF Loc
  <2>4. DbType'
    BY <2>1, ReqFields DEF DbType, UpdateBcount, Loc
  <2> QED BY <2>2, <2>3, <2>4, ContinueType
<1>2. CASE ~CanBorrow(l, number)
  BY <1>2, AnswerType, DbUnchangedType DEF BookBorrow
<1> QED BY <1>1, <1>2

LEMMA BookUnborrowType ==
  ASSUME DbType, WorkerType, NEW w \in Workers, NEW number \in Int,
         BookUnborrow(w, number)
  PROVE  DbType' /\ WorkerType'
<1>1. WorkerType'
  BY AnswerType DEF BookUnborrow
<1>2. CASE UpdateBcount(B(w), loc[w].bcount + number)
  <2>1. loc[w].bcount + number \in Int
    BY DEF WorkerType, Loc
  <2> QED BY <1>1, <1>2, <2>1, ReqFields DEF DbType, UpdateBcount
<1>3. CASE UNCHANGED db
  BY <1>1, <1>3, DbUnchangedType
<1> QED BY <1>2, <1>3 DEF BookUnborrow

LEMMA InitType == Init => TypeOK
<1> SUFFICES ASSUME Init PROVE TypeOK
  OBVIOUS
<1> USE CirculationAssumption
<1>1. DbType
  <2>1. count \in [Books -> Int]
    <3>1. count \in [Books -> InitialCopies] /\ InitialCopies \subseteq Int
      BY DEF Init
    <3> QED BY ONLY <3>1
  <2>2. num \in [Users -> Int]
    BY DEF Init
  <2> QED BY <2>1, <2>2 DEF Init, DbType
<1>2. WorkerType
  BY NoReqType DEF Init, WorkerType, NoLoc, Loc, PCs
<1> QED BY <1>1, <1>2, TypeSplit

LEMMA NextType == TypeOK /\ [Next]_vars => TypeOK'
<1> SUFFICES ASSUME DbType, WorkerType, [Next]_vars PROVE DbType' /\ WorkerType'
  BY DEF TypeOK, DbType, WorkerType, Loc
<1>1. CASE UNCHANGED vars
  BY <1>1 DEF vars, DbType, WorkerType
<1>2. ASSUME NEW w \in Workers, Receive(w) PROVE DbType' /\ WorkerType'
  <2>1. DbType'
    BY <1>2, DbUnchangedType DEF Receive
  <2>2. PICK r \in Sendable :
          /\ left[r.sess] > 0
          /\ left' = [left EXCEPT ![r.sess] = @ - 1]
          /\ \/ /\ pc'  = [pc EXCEPT ![w] =
                            IF r.op \in {"book_deleteBook", "book_setBasicInfo"}
                            THEN "queryById" ELSE "getUserByID"]
                /\ req' = [req EXCEPT ![w] = r]
             \/ UNCHANGED <<pc, req>>
    BY <1>2 DEF Receive
  <2>3. r \in Request /\ r.sess \in Sessions
    BY SendableType DEF Request
  <2>4. left' \in [Sessions -> Nat]
    BY <2>2, <2>3 DEF WorkerType
  <2>5. pc' \in [Workers -> PCs] /\ req' \in [Workers -> Request]
    BY <2>2, <2>3 DEF WorkerType, PCs
  <2>6. loc' = loc
    BY <1>2 DEF Receive
  <2> QED BY <2>1, <2>4, <2>5, <2>6 DEF WorkerType
<1>3. ASSUME NEW w \in Workers, Serve(w) PROVE DbType' /\ WorkerType'
  <2>0. loc[w] \in Loc
    BY DEF WorkerType
  <2> USE <2>0, ReqFields
  <2>1. CASE GetUserByID(w)
    <3>1. [loc[w] EXCEPT !.num = num[U(w)]] \in Loc
      BY DEF DbType, Loc
    <3>2. (IF req[w].op = "user_setBasicInfo" THEN "setUser" ELSE "queryById") \in PCs
      BY DEF PCs
    <3> QED BY <2>1, <3>1, <3>2, ContinueType, DbUnchangedType DEF GetUserByID
  <2>2. CASE QueryById(w)
    <3>1. [loc[w] EXCEPT !.count = count[B(w)], !.bcount = bcount[B(w)]] \in Loc
      BY DEF DbType, Loc
    <3>2. DbType'
      BY <2>2, DbUnchangedType DEF QueryById
    <3>3. (CASE req[w].op = "user_borrowBook" -> "bookOut"
             [] req[w].op = "user_returnBook" -> "bookIn"
             [] req[w].op = "book_deleteBook" -> "deleteBook"
             [] OTHER                         -> "setBook") \in PCs
      BY DEF PCs
    <3>4. CASE B(w) \in shelf
      BY <2>2, <3>1, <3>2, <3>3, <3>4, ContinueType DEF QueryById
    <3>5. CASE B(w) \notin shelf
      BY <2>2, <3>2, <3>5, AnswerType DEF QueryById
    <3> QED BY <3>4, <3>5
  <2>3. CASE BookOut(w)
    <3>1. CASE loc[w].num = 0
      BY <2>3, <3>1, AnswerType, DbUnchangedType DEF BookOut
    <3>2. CASE loc[w].num # 0
      <4>1. [loc[w] EXCEPT !.num = @ - 1] \in Loc
        BY DEF Loc
      <4>2. BookBorrow(w, 1, "userOut", [loc[w] EXCEPT !.num = @ - 1])
        BY <2>3, <3>2 DEF BookOut
      <4> QED BY <4>1, <4>2, BookBorrowType DEF PCs
    <3> QED BY <3>1, <3>2
  <2>4. CASE UserOut(w)
    <3>1. DbType'
      BY <2>4 DEF UserOut, UpdateNum, DbType, Loc
    <3> QED BY <2>4, <3>1, ContinueType DEF UserOut, PCs
  <2>5. CASE LogOut(w)
    <3>1. DbType'
      BY <2>5 DEF LogOut, DbType
    <3> QED BY <2>5, <3>1, AnswerType DEF LogOut
  <2>6. CASE UndoOut(w)
    BY <2>6, BookUnborrowType DEF UndoOut
  <2>7. CASE BookIn(w)
    BY <2>7, BookBorrowType DEF BookIn, PCs
  <2>8. CASE CountOuts(w)
    <3>1. [loc[w] EXCEPT !.num0 = outs[<<U(w), B(w)>>]] \in Loc
      BY DEF DbType, Loc
    <3> QED BY <2>8, <3>1, ContinueType, DbUnchangedType DEF CountOuts, PCs
  <2>9. CASE CountIns(w)
    <3>1. [loc[w] EXCEPT !.num = @ + 1] \in Loc
      BY DEF Loc
    <3>2. DbType'
      BY <2>9, DbUnchangedType DEF CountIns
    <3>3. WorkerType'
      BY <2>9, <3>1, ContinueType, AnswerType DEF CountIns, PCs
    <3> QED BY <3>2, <3>3
  <2>10. CASE UserIn(w)
    <3>1. DbType'
      BY <2>10 DEF UserIn, UpdateNum, DbType, Loc
    <3> QED BY <2>10, <3>1, ContinueType DEF UserIn, PCs
  <2>11. CASE LogIn(w)
    <3>1. DbType'
      BY <2>11 DEF LogIn, DbType
    <3> QED BY <2>11, <3>1, AnswerType DEF LogIn
  <2>12. CASE UndoIn(w)
    BY <2>12, BookUnborrowType DEF UndoIn
  <2>13. CASE DeleteBook(w)
    <3>1. loc[w].count - req[w].number \in Int
      BY DEF Loc
    <3>2. DbType'
      BY <2>13, <3>1 DEF DeleteBook, DbType, db
    <3> QED BY <2>13, <3>2, AnswerType DEF DeleteBook
  <2>14. CASE SetBook(w)
    <3>1. DbType'
      BY <2>14 DEF SetBook, DbType, db, Loc
    <3> QED BY <2>14, <3>1, AnswerType DEF SetBook
  <2>15. CASE SetUser(w)
    <3>1. DbType'
      BY <2>15 DEF SetUser, UpdateNum, DbType, db, Loc
    <3> QED BY <2>15, <3>1, AnswerType DEF SetUser
  <2>16. CASE Throw(w)
    <3>1. DbType'
      BY <2>16, DbUnchangedType DEF Throw
    <3>2. \/ Continue(w, "undoOut", loc[w])
          \/ Continue(w, "undoIn", loc[w])
          \/ Answer(w)
      BY <2>16 DEF Throw
    <3>3. WorkerType'
      BY <3>2, ContinueType, AnswerType DEF PCs
    <3> QED BY <3>1, <3>3
  <2> QED
    BY <1>3, <2>1, <2>2, <2>3, <2>4, <2>5, <2>6, <2>7, <2>8, <2>9, <2>10,
       <2>11, <2>12, <2>13, <2>14, <2>15, <2>16 DEF Serve
<1> QED BY <1>1, <1>2, <1>3 DEF Next

(* Every variable of the specification keeps its type.                     *)
THEOREM TypeCorrect == Spec => []TypeOK
BY InitType, NextType, PTL DEF Spec
-----------------------------------------------------------------------------
(* Legal rows *)

(* The strengthening of RowsLegal: the copies that the workers compute     *)
(* with are legal too, so that whatever they write is.                     *)
LocLegal == \A w \in Workers : loc[w].num >= 0 /\ loc[w].bcount >= 0

RowsInv == TypeOK /\ RowsLegal /\ LocLegal

LEMMA AnswerLegal ==
  ASSUME WorkerType, LocLegal, NEW w \in Workers, Answer(w)
  PROVE  LocLegal'
BY DEF WorkerType, LocLegal, Answer, NoLoc, Loc

LEMMA ContinueLegal ==
  ASSUME WorkerType, LocLegal, NEW w \in Workers, NEW next, NEW l \in Loc,
         l.num >= 0, l.bcount >= 0, Continue(w, next, l)
  PROVE  LocLegal'
BY DEF WorkerType, LocLegal, Continue, Loc

LEMMA DbUnchangedLegal ==
  ASSUME RowsLegal, UNCHANGED db
  PROVE  RowsLegal'
BY DEF RowsLegal, db

LEMMA UpdateBcountLegal ==
  ASSUME DbType, RowsLegal, NEW b \in Books, NEW v \in Int, v >= 0,
         UpdateBcount(b, v)
  PROVE  RowsLegal'
BY DEF DbType, RowsLegal, UpdateBcount

LEMMA UpdateNumLegal ==
  ASSUME DbType, RowsLegal, NEW u \in Users, NEW v \in Int, v >= 0,
         UpdateNum(u, v)
  PROVE  RowsLegal'
BY DEF DbType, RowsLegal, UpdateNum

(* CBook::borrow checks the number it writes.                              *)
LEMMA BookBorrowLegal ==
  ASSUME DbType, WorkerType, RowsLegal, LocLegal,
         NEW w \in Workers, NEW number \in Int, NEW next, NEW l \in Loc,
         l.num >= 0, l.bcount >= 0, BookBorrow(w, number, next, l)
  PROVE  RowsLegal' /\ LocLegal'
<1>1. CASE CanBorrow(l, number)
  <2>1. l.bcount + number \in Int /\ l.bcount + number >= 0
    BY <1>1 DEF CanBorrow, Loc
  <2>2. RowsLegal'
    BY <1>1, <2>1, ReqFields, UpdateBcountLegal DEF BookBorrow
  <2>3. /\ [l EXCEPT !.bcount = @ + number] \in Loc
        /\ [l EXCEPT !.bcount = @ + number].num >= 0
        /\ [l EXCEPT !.bcount = @ + number].bcount >= 0
    BY <2>1 DEF Loc
  <2>4. Continue(w, next, [l EXCEPT !.bcount = @ + number])
    BY <1>1 DEF BookBorrow
  <2> QED BY <2>2, <2>3, <2>4, ContinueLegal
<1>2. CASE ~CanBorrow(l, number)
  BY <1>2, AnswerLegal, DbUnchangedLegal DEF BookBorrow
<1> QED BY <1>1, <1>2

LEMMA BookUnborrowLegal ==
  ASSUME DbType, WorkerType, RowsLegal, LocLegal,
         NEW w \in Workers, NEW number \in Int, BookUnborrow(w, number)
  PROVE  RowsLegal' /\ LocLegal'
<1>1. LocLegal'
  BY AnswerLegal DEF BookUnborrow
<1>2. CASE CanBorrow(loc[w], number)
  <2>1. loc[w].bcount + number \in Int /\ loc[w].bcount + number >= 0
    BY <1>2 DEF CanBorrow, WorkerType, Loc
  <2> QED BY <1>1, <1>2, <2>1, ReqFields, UpdateBcountLegal DEF BookUnborrow
<1>3. CASE ~CanBorrow(loc[w], number)
  BY <1>1, <1>3, DbUnchangedLegal DEF BookUnborrow
<1> QED BY <1>2, <1>3

LEMMA InitRows == Init => RowsLegal /\ LocLegal
<1> SUFFICES ASSUME Init PROVE RowsLegal /\ LocLegal
  OBVIOUS
<1>1. TypeOK
  BY InitType
<1>2. \A b \in Books : count[b] \in InitialCopies
  BY DEF Init
<1>3. InitialCopies \subseteq Nat \ {0} /\ BorrowLimit \in Nat
  BY CirculationAssumption
<1>4. \A b \in Books : count[b] >= 1
  <2>1. \A c \in InitialCopies : c \in Nat /\ c # 0
    BY <1>3
  <2>2. \A b \in Books : count[b] \in Nat /\ count[b] # 0
    BY <1>2, <2>1, ZenonT(30)
  <2> QED BY ONLY <2>2
<1>5. RowsLegal
  BY <1>3, <1>4 DEF Init, RowsLegal
<1>6. LocLegal
  BY DEF Init, LocLegal, NoLoc
<1> QED BY <1>5, <1>6

LEMMA NextRows == RowsInv /\ [Next]_vars => RowsLegal' /\ LocLegal'
<1> SUFFICES ASSUME DbType, WorkerType, RowsLegal, LocLegal, [Next]_vars
             PROVE  RowsLegal' /\ LocLegal'
  BY TypeSplit DEF RowsInv
<1>1. CASE UNCHANGED vars
  BY <1>1 DEF vars, RowsLegal, LocLegal
<1>2. ASSUME NEW w \in Workers, Receive(w) PROVE RowsLegal' /\ LocLegal'
  BY <1>2, DbUnchangedLegal DEF Receive, LocLegal
<1>3. ASSUME NEW w \in Workers, Serve(w) PROVE RowsLegal' /\ LocLegal'
  <2>0. loc[w] \in Loc /\ loc[w].num >= 0 /\ loc[w].bcount >= 0
    BY DEF WorkerType, LocLegal
  <2> USE <2>0, ReqFields
  <2>1. CASE GetUserByID(w)
    <3> DEFINE l == [loc[w] EXCEPT !.num = num[U(w)]]
    <3>1. l \in Loc /\ l.num >= 0 /\ l.bcount >= 0
      BY DEF DbType, RowsLegal, Loc
    <3>2. PICK next : Continue(w, next, l)
      BY <2>1 DEF GetUserByID
    <3>3. UNCHANGED db
      BY <2>1 DEF GetUserByID
    <3> HIDE DEF l
    <3> QED BY <3>1, <3>2, <3>3, ContinueLegal, DbUnchangedLegal
  <2>2. CASE QueryById(w)
    <3> DEFINE l == [loc[w] EXCEPT !.count = count[B(w)], !.bcount = bcount[B(w)]]
    <3>1. UNCHANGED db
      BY <2>2 DEF QueryById
    <3>2. CASE B(w) \in shelf
      <4>1. l \in Loc /\ l.num >= 0 /\ l.bcount >= 0
        BY <3>2 DEF DbType, RowsLegal, Loc
      <4>2. PICK next : Continue(w, next, l)
        BY <2>2, <3>2 DEF QueryById
      <4> HIDE DEF l
      <4> QED BY <3>1, <4>1, <4>2, ContinueLegal, DbUnchangedLegal
    <3>3. CASE B(w) \notin shelf
      BY <2>2, <3>1, <3>3, AnswerLegal, DbUnchangedLegal DEF QueryById
    <3> QED BY <3>2, <3>3
  <2>3. CASE BookOut(w)
    <3>1. CASE loc[w].num = 0
      BY <2>3, <3>1, AnswerLegal, DbUnchangedLegal DEF BookOut
    <3>2. CASE loc[w].num # 0
      <4> DEFINE l == [loc[w] EXCEPT !.num = @ - 1]
      <4>1. l \in Loc /\ l.num >= 0 /\ l.bcount >= 0
        BY <3>2 DEF Loc
      <4>2. BookBorrow(w, 1, "userOut", l)
        BY <2>3, <3>2 DEF BookOut
      <4> HIDE DEF l
      <4> QED BY <4>1, <4>2, BookBorrowLegal
    <3> QED BY <3>1, <3>2
  <2>4. CASE UserOut(w)
    <3>1. RowsLegal'
      BY <2>4, UpdateNumLegal DEF UserOut, Loc
    <3> QED BY <2>4, <3>1, ContinueLegal DEF UserOut
  <2>5. CASE LogOut(w)
    <3>1. RowsLegal'
      BY <2>5 DEF LogOut, RowsLegal
    <3> QED BY <2>5, <3>1, AnswerLegal DEF LogOut
  <2>6. CASE UndoOut(w)
    BY <2>6, BookUnborrowLegal DEF UndoOut
  <2>7. CASE BookIn(w)
    BY <2>7, BookBorrowLegal DEF BookIn
  <2>8. CASE CountOuts(w)
    <3> DEFINE l == [loc[w] EXCEPT !.num0 = outs[<<U(w), B(w)>>]]
    <3>1. l \in Loc /\ l.num >= 0 /\ l.bcount >= 0
      BY DEF DbType, Loc
    <3>2. Continue(w, "countIns", l) /\ UNCHANGED db
      BY <2>8 DEF CountOuts
    <3> HIDE DEF l
    <3> QED BY <3>1, <3>2, ContinueLegal, DbUnchangedLegal
  <2>9. CASE CountIns(w)
    <3> DEFINE l == [loc[w] EXCEPT !.num = @ + 1]
    <3>1. l \in Loc /\ l.num >= 0 /\ l.bcount >= 0
      BY DEF Loc
    <3>2. (Continue(w, "userIn", l) \/ Answer(w)) /\ UNCHANGED db
      BY <2>9 DEF CountIns
    <3> HIDE DEF l
    <3> QED BY <3>1, <3>2, ContinueLegal, AnswerLegal, DbUnchangedLegal
  <2>10. CASE UserIn(w)
    <3>1. RowsLegal'
      BY <2>10, UpdateNumLegal DEF UserIn, Loc
    <3> QED BY <2>10, <3>1, ContinueLegal DEF UserIn
  <2>11. CASE LogIn(w)
    <3>1. RowsLegal'
      BY <2>11 DEF LogIn, RowsLegal
    <3> QED BY <2>11, <3>1, AnswerLegal DEF LogIn
  <2>12. CASE UndoIn(w)
    BY <2>12, BookUnborrowLegal DEF UndoIn
  <2>13. CASE DeleteBook(w)
    <3> DEFINE c == loc[w].count - req[w].number
    <3>1. c \in Int
      BY DEF Loc
    <3>2. loc[w].count - loc[w].bcount >= req[w].number => c >= 0
      BY DEF Loc
    <3>3. RowsLegal'
      <4>1. CASE UNCHANGED db
        BY <4>1, DbUnchangedLegal
      <4>2. CASE /\ c = 0 /\ shelf' = shelf \ {B(w)}
                 /\ UNCHANGED <<count, bcount, num>>
        BY <4>2 DEF RowsLegal
      <4>3. CASE /\ c >= 1
                 /\ count' = IF B(w) \in shelf THEN [count EXCEPT ![B(w)] = c] ELSE count
                 /\ UNCHANGED <<shelf, bcount, num>>
        <5> HIDE DEF c
        <5> QED BY <4>3 DEF RowsLegal, DbType
      <4>4. \/ UNCHANGED db
            \/ /\ c = 0 /\ shelf' = shelf \ {B(w)}
               /\ UNCHANGED <<count, bcount, num>>
            \/ /\ c >= 1
               /\ count' = IF B(w) \in shelf THEN [count EXCEPT ![B(w)] = c] ELSE count
               /\ UNCHANGED <<shelf, bcount, num>>
        BY <2>13, <3>1, <3>2 DEF DeleteBook
      <4> QED BY <4>1, <4>2, <4>3, <4>4
    <3> QED BY <2>13, <3>3, AnswerLegal DEF DeleteBook
  <2>14. CASE SetBook(w)
    <3>1. RowsLegal'
      <4>1. CASE UNCHANGED db
        BY <4>1, DbUnchangedLegal
      <4>2. CASE /\ req[w].number >= 1 /\ B(w) \in shelf
                 /\ count'  = [count EXCEPT ![B(w)] = req[w].number]
                 /\ bcount' = [bcount EXCEPT ![B(w)] = loc[w].bcount]
                 /\ UNCHANGED <<shelf, num>>
        BY <4>2 DEF RowsLegal, DbType
      <4> QED BY <2>14, <4>1, <4>2 DEF SetBook, db
    <3> QED BY <2>14, <3>1, AnswerLegal DEF SetBook
  <2>15. CASE SetUser(w)
    <3>1. RowsLegal'
      BY <2>15, UpdateNumLegal, DbUnchangedLegal DEF SetUser, Loc
    <3> QED BY <2>15, <3>1, AnswerLegal DEF SetUser
  <2>16. CASE Throw(w)
    <3>1. \/ \E next : Continue(w, next, loc[w])
          \/ Answer(w)
      BY <2>16 DEF Throw
    <3>2. UNCHANGED db
      BY <2>16 DEF Throw
    <3> QED BY <3>1, <3>2, ContinueLegal, AnswerLegal, DbUnchangedLegal
  <2> QED
    BY <1>3, <2>1, <2>2, <2>3, <2>4, <2>5, <2>6, <2>7, <2>8, <2>9, <2>10,
       <2>11, <2>12, <2>13, <2>14, <2>15, <2>16 DEF Serve
<1> QED BY <1>1, <1>2, <1>3 DEF Next

(* Whatever requests interleave and whatever statements fail, the rows in  *)
(* the database pass the checks the server makes when it reads them.       *)
THEOREM RowsStayLegal == Spec => []RowsLegal
<1>1. Init => RowsInv
  BY InitType, InitRows DEF RowsInv
<1>2. RowsInv /\ [Next]_vars => RowsInv'
  BY NextType, NextRows DEF RowsInv
<1>3. RowsInv => RowsLegal
  BY DEF RowsInv
<1> QED BY <1>1, <1>2, <1>3, PTL DEF Spec
-----------------------------------------------------------------------------
(* Serving a request *)

ReturnSteps == {"bookIn", "countOuts", "countIns", "userIn", "logIn", "undoIn"}

(* The pair of user and book that w's request is about.                    *)
P(w) == <<U(w), B(w)>>

(* What the worker has learnt of the records is still true when it acts.   *)
Due(w) == /\ pc[w] = "countIns" => loc[w].num0 <= outs[P(w)]
          /\ pc[w] \in {"userIn", "logIn"} => ins[P(w)] < outs[P(w)]

(* Serving one worker's request touches no other worker's state.           *)
LEMMA ServeLocal ==
  ASSUME NEW w \in Workers, Serve(w)
  PROVE  Answer(w) \/ \E next, l : Continue(w, next, l)
<1>1. CASE GetUserByID(w)
  BY <1>1 DEF GetUserByID
<1>2. CASE QueryById(w)
  BY <1>2 DEF QueryById
<1>3. CASE BookOut(w) \/ BookIn(w)
  BY <1>3 DEF BookOut, BookIn, BookBorrow
<1>4. CASE UserOut(w) \/ LogOut(w) \/ UndoOut(w)
  BY <1>4 DEF UserOut, LogOut, UndoOut, BookUnborrow
<1>5. CASE CountOuts(w) \/ CountIns(w)
  BY <1>5 DEF CountOuts, CountIns
<1>6. CASE UserIn(w) \/ LogIn(w) \/ UndoIn(w)
  BY <1>6 DEF UserIn, LogIn, UndoIn, BookUnborrow
<1>7. CASE DeleteBook(w) \/ SetBook(w) \/ SetUser(w)
  BY <1>7 DEF DeleteBook, SetBook, SetUser
<1>8. CASE Throw(w)
  BY <1>8 DEF Throw
<1> QED BY <1>1, <1>2, <1>3, <1>4, <1>5, <1>6, <1>7, <1>8 DEF Serve

LEMMA ServeFrame ==
  ASSUME WorkerType, NEW w \in Workers, Serve(w)
  PROVE  /\ \A v \in Workers : v # w =>
               /\ pc'[v] = pc[v] /\ req'[v] = req[v] /\ loc'[v] = loc[v]
         /\ pc'[w] = "idle" \/ (pc[w] # "idle" /\ req'[w] = req[w])
<1>1. CASE Answer(w)
  BY <1>1 DEF Answer, WorkerType
<1>2. ASSUME NEW next, NEW l, Continue(w, next, l)
      PROVE  /\ \A v \in Workers : v # w =>
                   /\ pc'[v] = pc[v] /\ req'[v] = req[v] /\ loc'[v] = loc[v]
             /\ req'[w] = req[w]
  BY <1>2 DEF Continue, WorkerType
<1>3. pc[w] # "idle"
  BY DEF Serve, GetUserByID, QueryById, BookOut, UserOut, LogOut, UndoOut,
         BookIn, CountOuts, CountIns, UserIn, LogIn, UndoIn, DeleteBook,
         SetBook, SetUser, Throw
<1> QED BY <1>1, <1>2, <1>3, ServeLocal DEF Answer, WorkerType

(* The records only grow, and a return is recorded by LogIn alone.         *)
LEMMA RecordsGrow ==
  ASSUME DbType, WorkerType, NEW w \in Workers, Serve(w)
  PROVE  /\ \A p \in Users \X Books : outs[p] <= outs'[p]
         /\ ins' = ins \/ LogIn(w)
<1> USE ReqFields
<1>1. CASE LogOut(w)
  BY <1>1 DEF LogOut, DbType
<1>2. CASE LogIn(w)
  BY <1>2 DEF LogIn, DbType
<1>3. CASE outs' = outs /\ ins' = ins
  BY <1>3 DEF DbType
<1>4. CASE BookOut(w) \/ BookIn(w) \/ UndoOut(w) \/ UndoIn(w)
  BY <1>3, <1>4 DEF BookOut, BookIn, UndoOut, UndoIn, BookBorrow, BookUnborrow,
                    UpdateBcount, db
<1>5. CASE GetUserByID(w) \/ QueryById(w) \/ CountOuts(w) \/ CountIns(w) \/ Throw(w)
  BY <1>3, <1>5 DEF GetUserByID, QueryById, CountOuts, CountIns, Throw, db
<1>6. CASE UserOut(w) \/ UserIn(w) \/ SetUser(w)
  BY <1>3, <1>6 DEF UserOut, UserIn, SetUser, UpdateNum, db
<1>7. CASE DeleteBook(w) \/ SetBook(w)
  BY <1>3, <1>7 DEF DeleteBook, SetBook, db
<1> QED BY <1>1, <1>2, <1>4, <1>5, <1>6, <1>7 DEF Serve

(* The worker itself learns what is true.                                  *)
LEMMA OwnDue ==
  ASSUME DbType, WorkerType, NEW w \in Workers, Due(w), Serve(w)
  PROVE  Due(w)'
<1> USE ReqFields
<1>1. P(w) \in Users \X Books /\ loc[w] \in Loc
  BY DEF P, WorkerType
<1>2. CASE CountOuts(w)
  <2>1. /\ pc'[w] = "countIns" /\ req'[w] = req[w] /\ outs' = outs
        /\ loc'[w] = [loc[w] EXCEPT !.num0 = outs[P(w)]]
    BY <1>2 DEF CountOuts, Continue, WorkerType, db, P
  <2>2. loc'[w].num0 = outs[P(w)]
    BY <1>1, <2>1 DEF Loc
  <2> QED BY <1>1, <2>1, <2>2 DEF Due, P, U, B, DbType
<1>3. CASE CountIns(w)
  <2>1. CASE loc[w].num0 > ins[P(w)]
    <3>1. /\ pc'[w] = "userIn" /\ req'[w] = req[w]
          /\ outs' = outs /\ ins' = ins
      BY <1>3, <2>1 DEF CountIns, Continue, WorkerType, db, P
    <3>2. loc[w].num0 <= outs[P(w)]
      BY <1>3 DEF Due, CountIns
    <3>3. ins[P(w)] < outs[P(w)]
      BY <1>1, <2>1, <3>2 DEF DbType, Loc
    <3> QED BY <3>1, <3>3 DEF Due, P, U, B
  <2>2. CASE ~(loc[w].num0 > ins[P(w)])
    BY <1>3, <2>2 DEF CountIns, Answer, WorkerType, Due, P
  <2> QED BY <2>1, <2>2
<1>4. CASE UserIn(w)
  <2>1. /\ pc[w] = "userIn" /\ pc'[w] = "logIn" /\ req'[w] = req[w]
        /\ outs' = outs /\ ins' = ins
    BY <1>4 DEF UserIn, Continue, UpdateNum, WorkerType
  <2>2. ins[P(w)] < outs[P(w)]
    BY <2>1 DEF Due
  <2> QED BY <2>1, <2>2 DEF Due, P, U, B
<1>5. CASE ~(CountOuts(w) \/ CountIns(w) \/ UserIn(w))
  <2>1. pc'[w] \notin {"countIns", "userIn", "logIn"} \/ BookIn(w)
    BY <1>5 DEF Serve, GetUserByID, QueryById, BookOut, UserOut, LogOut, UndoOut,
                LogIn, UndoIn, DeleteBook, SetBook, SetUser, Throw, BookBorrow,
                BookUnborrow, Answer, Continue, WorkerType
  <2>2. BookIn(w) => pc'[w] \in {"countOuts", "idle"}
    BY DEF BookIn, BookBorrow, Answer, Continue, WorkerType
  <2> QED BY <2>1, <2>2 DEF Due
<1> QED BY <1>2, <1>3, <1>4, <1>5

-----------------------------------------------------------------------------
(* Counting loans *)

(* The numbered copies on loan, as the function o from pairs of user and   *)
(* book to numbers shows them.                                             *)
CopiesHeld(o, u) == UNION {{<<u, b, i>> : i \in 1 .. o[<<u, b>>]} : b \in Books}
CopiesLent(o, b) == UNION {{<<u, b, i>> : i \in 1 .. o[<<u, b>>]} : u \in Users}

Countable(o) == /\ \A u \in Users : IsFiniteSet(CopiesHeld(o, u))
                /\ \A b \in Books : IsFiniteSet(CopiesLent(o, b))

(* A copy is on loan if its number is not above what o shows.              *)
LEMMA HeldMember ==
  ASSUME NEW o \in [Users \X Books -> Nat], NEW u \in Users
  PROVE  \A x : x \in CopiesHeld(o, u) <=>
                 /\ x \in Users \X Books \X Nat
                 /\ x[1] = u /\ 1 <= x[3] /\ x[3] <= o[<<u, x[2]>>]
<1>1. \A v \in Users, c \in Books : o[<<v, c>>] \in Nat
  OBVIOUS
<1>2. ASSUME NEW x \in CopiesHeld(o, u)
      PROVE  /\ x \in Users \X Books \X Nat
             /\ x[1] = u /\ 1 <= x[3] /\ x[3] <= o[<<u, x[2]>>]
  <2>1. PICK c \in Books : x \in {<<u, c, i>> : i \in 1 .. o[<<u, c>>]}
    BY <1>2 DEF CopiesHeld
  <2>2. PICK i \in 1 .. o[<<u, c>>] : x = <<u, c, i>>
    BY <2>1
  <2> QED BY <1>1, <2>2
<1>3. ASSUME NEW x \in Users \X Books \X Nat,
             x[1] = u, 1 <= x[3], x[3] <= o[<<u, x[2]>>]
      PROVE  x \in CopiesHeld(o, u)
  <2>1. x = <<u, x[2], x[3]>> /\ x[2] \in Books /\ x[3] \in 1 .. o[<<u, x[2]>>]
    BY <1>1, <1>3
  <2> QED BY <2>1 DEF CopiesHeld
<1> QED BY <1>2, <1>3

LEMMA LentMember ==
  ASSUME NEW o \in [Users \X Books -> Nat], NEW b \in Books
  PROVE  \A x : x \in CopiesLent(o, b) <=>
                 /\ x \in Users \X Books \X Nat
                 /\ x[2] = b /\ 1 <= x[3] /\ x[3] <= o[<<x[1], b>>]
<1>1. \A v \in Users, c \in Books : o[<<v, c>>] \in Nat
  OBVIOUS
<1>2. ASSUME NEW x \in CopiesLent(o, b)
      PROVE  /\ x \in Users \X Books \X Nat
             /\ x[2] = b /\ 1 <= x[3] /\ x[3] <= o[<<x[1], b>>]
  <2>1. PICK v \in Users : x \in {<<v, b, i>> : i \in 1 .. o[<<v, b>>]}
    BY <1>2 DEF CopiesLent
  <2>2. PICK i \in 1 .. o[<<v, b>>] : x = <<v, b, i>>
    BY <2>1
  <2> QED BY <1>1, <2>2
<1>3. ASSUME NEW x \in Users \X Books \X Nat,
             x[2] = b, 1 <= x[3], x[3] <= o[<<x[1], b>>]
      PROVE  x \in CopiesLent(o, b)
  <2>1. x = <<x[1], b, x[3]>> /\ x[1] \in Users /\ x[3] \in 1 .. o[<<x[1], b>>]
    BY <1>1, <1>3
  <2> QED BY <2>1 DEF CopiesLent
<1> QED BY <1>2, <1>3

LEMMA AddOne ==
  ASSUME NEW S, NEW T, NEW x, IsFiniteSet(S), x \notin S, T = S \union {x}
  PROVE  IsFiniteSet(T) /\ Cardinality(T) = Cardinality(S) + 1
BY FS_AddElement

(* By q, u holds one copy of b more than by o.                             *)
CountsOneMore(q, o, u, b) ==
  /\ Countable(q) /\ Countable(o)
  /\ Cardinality(CopiesHeld(q, u)) = Cardinality(CopiesHeld(o, u)) + 1
  /\ Cardinality(CopiesLent(q, b)) = Cardinality(CopiesLent(o, b)) + 1
  /\ \A v \in Users \ {u} : CopiesHeld(q, v) = CopiesHeld(o, v)
  /\ \A c \in Books \ {b} : CopiesLent(q, c) = CopiesLent(o, c)

(* One loan more counts one copy more for its user and its book.           *)
LEMMA OneMore ==
  ASSUME NEW o \in [Users \X Books -> Nat], NEW u \in Users, NEW b \in Books,
         NEW q, q = [o EXCEPT ![<<u, b>>] = @ + 1], Countable(o)
  PROVE  CountsOneMore(q, o, u, b)
<1> DEFINE copy == <<u, b, o[<<u, b>>] + 1>>
<1>1. /\ q \in [Users \X Books -> Nat]
      /\ o[<<u, b>>] \in Nat /\ q[<<u, b>>] = o[<<u, b>>] + 1
  OBVIOUS
<1>2. \A v \in Users, c \in Books :
        /\ o[<<v, c>>] \in Nat
        /\ v # u \/ c # b => q[<<v, c>>] = o[<<v, c>>]
  OBVIOUS
<1>3. \A i \in Nat : i <= o[<<u, b>>] + 1 <=> i <= o[<<u, b>>] \/ i = o[<<u, b>>] + 1
  BY <1>1
<1>4. /\ copy \in Users \X Books \X Nat
      /\ copy[1] = u /\ copy[2] = b /\ copy[3] = o[<<u, b>>] + 1
      /\ \A x \in Users \X Books \X Nat :
            x[1] = u /\ x[2] = b /\ x[3] = o[<<u, b>>] + 1 => x = copy
  BY <1>1
<1> HIDE DEF copy
<1>5. CopiesHeld(q, u) = CopiesHeld(o, u) \union {copy} /\ copy \notin CopiesHeld(o, u)
  <2>1. \A x : x \in CopiesHeld(o, u) <=>
                 /\ x \in Users \X Books \X Nat
                 /\ x[1] = u /\ 1 <= x[3] /\ x[3] <= o[<<u, x[2]>>]
    BY HeldMember
  <2>2. \A x : x \in CopiesHeld(q, u) <=>
                 /\ x \in Users \X Books \X Nat
                 /\ x[1] = u /\ 1 <= x[3] /\ x[3] <= q[<<u, x[2]>>]
    BY <1>1, HeldMember
  <2>3. copy \notin CopiesHeld(o, u)
    BY <1>1, <1>4, <2>1
  <2>4. ASSUME NEW x \in Users \X Books \X Nat
        PROVE  x \in CopiesHeld(q, u) <=> x \in CopiesHeld(o, u) \/ x = copy
    <3>1. CASE x[1] = u /\ x[2] = b
      <4>1. x[3] \in Nat
        OBVIOUS
      <4>2. x[3] <= q[<<u, b>>] <=> x[3] <= o[<<u, b>>] \/ x[3] = o[<<u, b>>] + 1
        BY <1>1, <1>3, <4>1
      <4>3. /\ x \in CopiesHeld(o, u) <=> 1 <= x[3] /\ x[3] <= o[<<u, b>>]
            /\ x \in CopiesHeld(q, u) <=> 1 <= x[3] /\ x[3] <= q[<<u, b>>]
        BY <2>1, <2>2, <3>1
      <4>4. x = copy <=> x[3] = o[<<u, b>>] + 1
        BY <1>4, <3>1
      <4>5. x[3] = o[<<u, b>>] + 1 => 1 <= x[3]
        BY <1>1
      <4> QED BY ONLY <4>2, <4>3, <4>4, <4>5
    <3>2. CASE x[1] # u \/ x[2] # b
      BY <1>2, <1>4, <2>1, <2>2, <3>2
    <3> QED BY <3>1, <3>2
  <2>5. \A x : x \in CopiesHeld(q, u) \/ x \in CopiesHeld(o, u) \/ x = copy
             => x \in Users \X Books \X Nat
    BY <1>4, <2>1, <2>2
  <2> QED BY ONLY <2>3, <2>4, <2>5, ZenonT(20)
<1>6. CopiesLent(q, b) = CopiesLent(o, b) \union {copy} /\ copy \notin CopiesLent(o, b)
  <2>1. \A x : x \in CopiesLent(o, b) <=>
                 /\ x \in Users \X Books \X Nat
                 /\ x[2] = b /\ 1 <= x[3] /\ x[3] <= o[<<x[1], b>>]
    BY LentMember
  <2>2. \A x : x \in CopiesLent(q, b) <=>
                 /\ x \in Users \X Books \X Nat
                 /\ x[2] = b /\ 1 <= x[3] /\ x[3] <= q[<<x[1], b>>]
    BY <1>1, LentMember
  <2>3. copy \notin CopiesLent(o, b)
    BY <1>1, <1>4, <2>1
  <2>4. ASSUME NEW x \in Users \X Books \X Nat
        PROVE  x \in CopiesLent(q, b) <=> x \in CopiesLent(o, b) \/ x = copy
    <3>1. CASE x[1] = u /\ x[2] = b
      <4>1. x[3] \in Nat
        OBVIOUS
      <4>2. x[3] <= q[<<u, b>>] <=> x[3] <= o[<<u, b>>] \/ x[3] = o[<<u, b>>] + 1
        BY <1>1, <1>3, <4>1
      <4>3. /\ x \in CopiesLent(o, b) <=> 1 <= x[3] /\ x[3] <= o[<<u, b>>]
            /\ x \in CopiesLent(q, b) <=> 1 <= x[3] /\ x[3] <= q[<<u, b>>]
        BY <2>1, <2>2, <3>1
      <4>4. x = copy <=> x[3] = o[<<u, b>>] + 1
        BY <1>4, <3>1
      <4>5. x[3] = o[<<u, b>>] + 1 => 1 <= x[3]
        BY <1>1
      <4> QED BY ONLY <4>2, <4>3, <4>4, <4>5
    <3>2. CASE x[1] # u \/ x[2] # b
      BY <1>2, <1>4, <2>1, <2>2, <3>2
    <3> QED BY <3>1, <3>2
  <2>5. \A x : x \in CopiesLent(q, b) \/ x \in CopiesLent(o, b) \/ x = copy
             => x \in Users \X Books \X Nat
    BY <1>4, <2>1, <2>2
  <2> QED BY ONLY <2>3, <2>4, <2>5, ZenonT(20)
<1>7. \A v \in Users \ {u} : CopiesHeld(q, v) = CopiesHeld(o, v)
  BY <1>2 DEF CopiesHeld
<1>8. \A c \in Books \ {b} : CopiesLent(q, c) = CopiesLent(o, c)
  BY <1>2 DEF CopiesLent
<1>9. /\ IsFiniteSet(CopiesHeld(q, u))
      /\ Cardinality(CopiesHeld(q, u)) = Cardinality(CopiesHeld(o, u)) + 1
  BY <1>5, AddOne DEF Countable
<1>10. /\ IsFiniteSet(CopiesLent(q, b))
       /\ Cardinality(CopiesLent(q, b)) = Cardinality(CopiesLent(o, b)) + 1
  BY <1>6, AddOne DEF Countable
<1> QED BY <1>7, <1>8, <1>9, <1>10 DEF Countable, CountsOneMore

(* One loan less counts one copy less: the converse of OneMore.            *)
LEMMA OneLess ==
  ASSUME NEW o \in [Users \X Books -> Nat], NEW u \in Users, NEW b \in Books,
         o[<<u, b>>] > 0,
         NEW q, q = [o EXCEPT ![<<u, b>>] = @ - 1], Countable(o)
  PROVE  CountsOneMore(o, q, u, b)
<1>1. q \in [Users \X Books -> Nat]
  OBVIOUS
<1>2. \A v \in Users, c \in Books : <<v, c>> # <<u, b>> => q[<<v, c>>] = o[<<v, c>>]
  OBVIOUS
<1>3. \A v \in Users, c \in Books : \A i \in Nat : i <= q[<<v, c>>] => i <= o[<<v, c>>]
  <2> TAKE v \in Users, c \in Books
  <2>1. q[<<v, c>>] \in Nat /\ o[<<v, c>>] \in Nat /\ q[<<v, c>>] <= o[<<v, c>>]
    OBVIOUS
  <2> QED BY <2>1
<1>4. /\ \A v \in Users : CopiesHeld(q, v) \subseteq CopiesHeld(o, v)
      /\ \A c \in Books : CopiesLent(q, c) \subseteq CopiesLent(o, c)
  <2>1. ASSUME NEW v \in Users, NEW x \in CopiesHeld(q, v) PROVE x \in CopiesHeld(o, v)
    <3>1. /\ x \in Users \X Books \X Nat
          /\ x[1] = v /\ 1 <= x[3] /\ x[3] <= q[<<v, x[2]>>]
      BY <1>1, HeldMember
    <3>2. x[3] <= o[<<v, x[2]>>]
      BY <1>3, <3>1
    <3> QED BY <3>1, <3>2, HeldMember
  <2>2. ASSUME NEW c \in Books, NEW x \in CopiesLent(q, c) PROVE x \in CopiesLent(o, c)
    <3>1. /\ x \in Users \X Books \X Nat
          /\ x[2] = c /\ 1 <= x[3] /\ x[3] <= q[<<x[1], c>>]
      BY <1>1, LentMember
    <3>2. x[3] <= o[<<x[1], c>>]
      BY <1>3, <3>1
    <3> QED BY <3>1, <3>2, LentMember
  <2> QED BY <2>1, <2>2
<1>5. Countable(q)
  BY <1>4, FS_Subset DEF Countable
<1>6. o = [q EXCEPT ![<<u, b>>] = @ + 1]
  <2> DEFINE r == [q EXCEPT ![<<u, b>>] = @ + 1]
  <2>1. r \in [Users \X Books -> Nat] /\ r[<<u, b>>] = o[<<u, b>>]
    BY <1>1
  <2>3. o \in [Users \X Books -> Nat]
    OBVIOUS
  <2>2. \A p \in Users \X Books : p # <<u, b>> => r[p] = o[p]
    BY <1>1
  <2>4. r = o
    <3> HIDE DEF r
    <3> QED BY ONLY <2>1, <2>2, <2>3
  <2> QED BY <2>4
<1> QED BY <1>1, <1>5, <1>6, OneMore
-----------------------------------------------------------------------------
(* The copies on loan *)

(* What x loans and y returns on record leave with the user: nothing, if   *)
(* there are more returns than loans.                                      *)
LoansLeft(x, y) ==
  [p \in Users \X Books |-> IF x[p] >= y[p] THEN x[p] - y[p] ELSE 0]

held == LoansLeft(outs, ins)

LEMMA LoansLeftType ==
  ASSUME NEW x \in [Users \X Books -> Nat], NEW y \in [Users \X Books -> Nat]
  PROVE  LoansLeft(x, y) \in [Users \X Books -> Nat]
<1>1. \A p \in Users \X Books : x[p] \in Nat /\ y[p] \in Nat
  OBVIOUS
<1> QED BY <1>1 DEF LoansLeft

LEMMA SameRange ==
  ASSUME NEW m \in Nat, NEW n \in Nat, NEW k, k = IF m >= n THEN m - n ELSE 0
  PROVE  1 .. (m - n) = 1 .. k
OBVIOUS

LEMMA HeldType == DbType => held \in [Users \X Books -> Nat]
BY LoansLeftType DEF DbType, held

(* The two counts of the properties, now and after a step.                 *)
LEMMA HeldByIs ==
  ASSUME DbType, DbType', NEW u \in Users
  PROVE  /\ HeldBy(u) = Cardinality(CopiesHeld(held, u))
         /\ HeldBy(u)' = Cardinality(CopiesHeld(held', u))
<1>1. \A b \in Books : owed[<<u, b>>] = outs[<<u, b>>] - ins[<<u, b>>]
  BY DEF owed
<1>2. \A b \in Books : owed'[<<u, b>>] = outs'[<<u, b>>] - ins'[<<u, b>>]
  BY DEF owed
<1>3. \A b \in Books : 1 .. owed[<<u, b>>] = 1 .. held[<<u, b>>]
  <2> TAKE b \in Books
  <2>1. outs[<<u, b>>] \in Nat /\ ins[<<u, b>>] \in Nat
    BY DEF DbType
  <2>2. held[<<u, b>>] = IF outs[<<u, b>>] >= ins[<<u, b>>]
                         THEN outs[<<u, b>>] - ins[<<u, b>>] ELSE 0
    BY DEF held, LoansLeft
  <2>3. owed[<<u, b>>] = outs[<<u, b>>] - ins[<<u, b>>]
    BY <1>1
  <2> QED BY ONLY <2>1, <2>2, <2>3, SameRange
<1>4. \A b \in Books : 1 .. owed'[<<u, b>>] = 1 .. held'[<<u, b>>]
  <2> TAKE b \in Books
  <2>1. outs'[<<u, b>>] \in Nat /\ ins'[<<u, b>>] \in Nat
    BY DEF DbType
  <2>2. held'[<<u, b>>] = IF outs'[<<u, b>>] >= ins'[<<u, b>>]
                         THEN outs'[<<u, b>>] - ins'[<<u, b>>] ELSE 0
    BY DEF held, LoansLeft
  <2>3. owed'[<<u, b>>] = outs'[<<u, b>>] - ins'[<<u, b>>]
    BY <1>2
  <2> QED BY ONLY <2>1, <2>2, <2>3, SameRange
<1>5. HeldBy(u) = Cardinality(CopiesHeld(held, u))
  <2>1. UNION {{<<u, b, i>> : i \in 1 .. owed[<<u, b>>]} : b \in Books}
          = UNION {{<<u, b, i>> : i \in 1 .. held[<<u, b>>]} : b \in Books}
    BY ONLY <1>3
  <2> QED BY ONLY <2>1 DEF HeldBy, OnLoan, CopiesHeld
<1>6. HeldBy(u)' = Cardinality(CopiesHeld(held', u))
  <2>1. UNION {{<<u, b, i>> : i \in 1 .. owed'[<<u, b>>]} : b \in Books}
          = UNION {{<<u, b, i>> : i \in 1 .. held'[<<u, b>>]} : b \in Books}
    BY ONLY <1>4
  <2> QED BY ONLY <2>1 DEF HeldBy, OnLoan, CopiesHeld
<1> QED BY <1>5, <1>6

LEMMA LentIs ==
  ASSUME DbType, DbType', NEW b \in Books
  PROVE  /\ Lent(b) = Cardinality(CopiesLent(held, b))
         /\ Lent(b)' = Cardinality(CopiesLent(held', b))
<1>1. \A u \in Users : owed[<<u, b>>] = outs[<<u, b>>] - ins[<<u, b>>]
  BY DEF owed
<1>2. \A u \in Users : owed'[<<u, b>>] = outs'[<<u, b>>] - ins'[<<u, b>>]
  BY DEF owed
<1>3. \A u \in Users : 1 .. owed[<<u, b>>] = 1 .. held[<<u, b>>]
  <2> TAKE u \in Users
  <2>1. outs[<<u, b>>] \in Nat /\ ins[<<u, b>>] \in Nat
    BY DEF DbType
  <2>2. held[<<u, b>>] = IF outs[<<u, b>>] >= ins[<<u, b>>]
                         THEN outs[<<u, b>>] - ins[<<u, b>>] ELSE 0
    BY DEF held, LoansLeft
  <2>3. owed[<<u, b>>] = outs[<<u, b>>] - ins[<<u, b>>]
    BY <1>1
  <2> QED BY ONLY <2>1, <2>2, <2>3, SameRange
<1>4. \A u \in Users : 1 .. owed'[<<u, b>>] = 1 .. held'[<<u, b>>]
  <2> TAKE u \in Users
  <2>1. outs'[<<u, b>>] \in Nat /\ ins'[<<u, b>>] \in Nat
    BY DEF DbType
  <2>2. held'[<<u, b>>] = IF outs'[<<u, b>>] >= ins'[<<u, b>>]
                         THEN outs'[<<u, b>>] - ins'[<<u, b>>] ELSE 0
    BY DEF held, LoansLeft
  <2>3. owed'[<<u, b>>] = outs'[<<u, b>>] - ins'[<<u, b>>]
    BY <1>2
  <2> QED BY ONLY <2>1, <2>2, <2>3, SameRange
<1>5. Lent(b) = Cardinality(CopiesLent(held, b))
  <2>1. UNION {{<<u, b, i>> : i \in 1 .. owed[<<u, b>>]} : u \in Users}
          = UNION {{<<u, b, i>> : i \in 1 .. held[<<u, b>>]} : u \in Users}
    BY ONLY <1>3
  <2> QED BY ONLY <2>1 DEF Lent, OnLoan, CopiesLent
<1>6. Lent(b)' = Cardinality(CopiesLent(held', b))
  <2>1. UNION {{<<u, b, i>> : i \in 1 .. owed'[<<u, b>>]} : u \in Users}
          = UNION {{<<u, b, i>> : i \in 1 .. held'[<<u, b>>]} : u \in Users}
    BY ONLY <1>4
  <2> QED BY ONLY <2>1 DEF Lent, OnLoan, CopiesLent
<1> QED BY <1>5, <1>6

(* The same of one state.                                                  *)
LEMMA HeldCounted ==
  ASSUME DbType, Countable(held)
  PROVE  /\ \A u \in Users : HeldBy(u) \in Nat
         /\ \A b \in Books : Lent(b) \in Nat
<1>1. \A u \in Users, b \in Books : 1 .. owed[<<u, b>>] = 1 .. held[<<u, b>>]
  <2> TAKE u \in Users, b \in Books
  <2>1. outs[<<u, b>>] \in Nat /\ ins[<<u, b>>] \in Nat
    BY DEF DbType
  <2>2. held[<<u, b>>] = IF outs[<<u, b>>] >= ins[<<u, b>>]
                         THEN outs[<<u, b>>] - ins[<<u, b>>] ELSE 0
    BY DEF held, LoansLeft
  <2>3. owed[<<u, b>>] = outs[<<u, b>>] - ins[<<u, b>>]
    BY DEF owed
  <2> QED BY ONLY <2>1, <2>2, <2>3, SameRange
<1>2. ASSUME NEW u \in Users PROVE HeldBy(u) = Cardinality(CopiesHeld(held, u))
  <2>1. UNION {{<<u, b, i>> : i \in 1 .. owed[<<u, b>>]} : b \in Books}
          = UNION {{<<u, b, i>> : i \in 1 .. held[<<u, b>>]} : b \in Books}
    <3>1. \A b \in Books : 1 .. owed[<<u, b>>] = 1 .. held[<<u, b>>]
      BY <1>1
    <3> QED BY ONLY <3>1
  <2> QED BY ONLY <2>1 DEF HeldBy, OnLoan, CopiesHeld
<1>3. ASSUME NEW b \in Books PROVE Lent(b) = Cardinality(CopiesLent(held, b))
  <2>1. UNION {{<<u, b, i>> : i \in 1 .. owed[<<u, b>>]} : u \in Users}
          = UNION {{<<u, b, i>> : i \in 1 .. held[<<u, b>>]} : u \in Users}
    <3>1. \A u \in Users : 1 .. owed[<<u, b>>] = 1 .. held[<<u, b>>]
      BY <1>1
    <3> QED BY ONLY <3>1
  <2> QED BY ONLY <2>1 DEF Lent, OnLoan, CopiesLent
<1> QED BY <1>2, <1>3, FS_CardinalityType DEF Countable

LEMMA LoansCounted ==
  ASSUME DbType, DbType', Countable(held), Countable(held)'
  PROVE  /\ \A u \in Users : HeldBy(u) \in Nat /\ HeldBy(u)' \in Nat
         /\ \A b \in Books : Lent(b) \in Nat /\ Lent(b)' \in Nat
<1>1. /\ \A u \in Users : IsFiniteSet(CopiesHeld(held', u))
      /\ \A b \in Books : IsFiniteSet(CopiesLent(held', b))
  BY DEF Countable, CopiesHeld, CopiesLent
<1> QED BY <1>1, HeldByIs, LentIs, FS_CardinalityType DEF Countable

(* Before anything is lent nobody holds a copy.                            *)
LEMMA NothingLent ==
  ASSUME Init
  PROVE  /\ Countable(held)
         /\ \A u \in Users : HeldBy(u) = 0
         /\ \A b \in Books : Lent(b) = 0
<1>1. owed = [p \in Users \X Books |-> 0] /\ held = [p \in Users \X Books |-> 0]
  BY DEF Init, owed, held, LoansLeft
<1>2. 1 .. 0 = {}
  OBVIOUS
<1>3. ASSUME NEW u \in Users
      PROVE  CopiesHeld(held, u) = {} /\ UNION {OnLoan(u, b) : b \in Books} = {}
  BY <1>1, <1>2 DEF CopiesHeld, OnLoan
<1>4. ASSUME NEW b \in Books
      PROVE  CopiesLent(held, b) = {} /\ UNION {OnLoan(u, b) : u \in Users} = {}
  BY <1>1, <1>2 DEF CopiesLent, OnLoan
<1> QED BY <1>3, <1>4, FS_EmptySet DEF Countable, HeldBy, Lent

LEMMA SameRecords ==
  ASSUME outs' = outs, ins' = ins
  PROVE  /\ owed' = owed
         /\ \A u : HeldBy(u)' = HeldBy(u)
         /\ \A b : Lent(b)' = Lent(b)
         /\ Countable(held) => Countable(held)'
<1>1. owed' = owed /\ held' = held
  BY DEF owed, held
<1>2. (\A u : HeldBy(u)' = HeldBy(u)) /\ (\A b : Lent(b)' = Lent(b))
  BY <1>1 DEF HeldBy, Lent, OnLoan
<1>3. Countable(held) => Countable(held')
  BY <1>1
<1>4. Countable(held') => Countable(held)'
  BY DEF Countable, CopiesHeld, CopiesLent
<1> QED BY <1>1, <1>2, <1>3, <1>4

(* By the records after a step, u holds one copy of b more; by the ones    *)
(* before it; or the step changes nothing that is held.                    *)
LEMMA CountsMove ==
  ASSUME DbType, DbType', NEW u \in Users, NEW b \in Books,
         \/ CountsOneMore(held', held, u, b)
         \/ CountsOneMore(held, held', u, b)
         \/ Countable(held) /\ held' = held
  PROVE  /\ Countable(held)'
         /\ CountsOneMore(held', held, u, b)
              => HeldBy(u)' = HeldBy(u) + 1 /\ Lent(b)' = Lent(b) + 1
         /\ CountsOneMore(held, held', u, b)
              => HeldBy(u)' = HeldBy(u) - 1 /\ Lent(b)' = Lent(b) - 1
         /\ \A v \in Users : v # u => HeldBy(v)' = HeldBy(v)
         /\ \A c \in Books : c # b => Lent(c)' = Lent(c)
<1>1. Countable(held) /\ Countable(held')
  <2>1. held' = held /\ Countable(held) => Countable(held')
    OBVIOUS
  <2> QED BY <2>1 DEF CountsOneMore
<1>2. Countable(held)'
  BY <1>1 DEF Countable, CopiesHeld, CopiesLent
<1>3. /\ Cardinality(CopiesHeld(held, u)) \in Nat
      /\ Cardinality(CopiesHeld(held', u)) \in Nat
      /\ Cardinality(CopiesLent(held, b)) \in Nat
      /\ Cardinality(CopiesLent(held', b)) \in Nat
  BY <1>1, FS_CardinalityType DEF Countable
<1>4. CountsOneMore(held', held, u, b)
        => HeldBy(u)' = HeldBy(u) + 1 /\ Lent(b)' = Lent(b) + 1
  BY <1>3, HeldByIs, LentIs DEF CountsOneMore
<1>5. CountsOneMore(held, held', u, b)
        => HeldBy(u)' = HeldBy(u) - 1 /\ Lent(b)' = Lent(b) - 1
  <2> SUFFICES ASSUME CountsOneMore(held, held', u, b)
               PROVE  HeldBy(u)' = HeldBy(u) - 1 /\ Lent(b)' = Lent(b) - 1
    OBVIOUS
  <2>1. /\ Cardinality(CopiesHeld(held, u)) = Cardinality(CopiesHeld(held', u)) + 1
        /\ Cardinality(CopiesLent(held, b)) = Cardinality(CopiesLent(held', b)) + 1
    BY DEF CountsOneMore
  <2> QED BY <1>3, <2>1, HeldByIs, LentIs
<1>6. /\ \A v \in Users : v # u => CopiesHeld(held', v) = CopiesHeld(held, v)
      /\ \A c \in Books : c # b => CopiesLent(held', c) = CopiesLent(held, c)
  <2>1. held' = held => /\ \A v : CopiesHeld(held', v) = CopiesHeld(held, v)
                        /\ \A c : CopiesLent(held', c) = CopiesLent(held, c)
    OBVIOUS
  <2> QED BY <2>1 DEF CountsOneMore
<1>7. /\ \A v \in Users : v # u => HeldBy(v)' = HeldBy(v)
      /\ \A c \in Books : c # b => Lent(c)' = Lent(c)
  BY <1>6, HeldByIs, LentIs
<1> QED BY <1>2, <1>4, <1>5, <1>7

(* A loan is recorded: one copy more for this user and this book, unless   *)
(* the user has more returns than loans of the book on record.             *)
LEMMA LogOutCounts ==
  ASSUME DbType, DbType', Countable(held),
         NEW w \in Workers, NEW u \in Users, NEW b \in Books, u = U(w), b = B(w),
         LogOut(w)
  PROVE  /\ Countable(held)'
         /\ ins[<<u, b>>] <= outs[<<u, b>>]
              => HeldBy(u)' = HeldBy(u) + 1 /\ Lent(b)' = Lent(b) + 1
         /\ \A v \in Users : v # u => HeldBy(v)' = HeldBy(v)
         /\ \A c \in Books : c # b => Lent(c)' = Lent(c)
<1>1. /\ outs' = [outs EXCEPT ![<<u, b>>] = @ + 1] /\ ins' = ins
      /\ \A p \in Users \X Books : outs[p] \in Nat /\ ins[p] \in Nat
  BY DEF LogOut, DbType
<1>2. \A p \in Users \X Books : outs'[p] = IF p = <<u, b>> THEN outs[p] + 1 ELSE outs[p]
  BY <1>1 DEF DbType
<1>3. held \in [Users \X Books -> Nat] /\ held' \in [Users \X Books -> Nat]
  BY LoansLeftType DEF held, DbType
<1>4. \A p \in Users \X Books : p # <<u, b>> => held'[p] = held[p]
  BY <1>1, <1>2 DEF held, LoansLeft
<1>5. CASE ins[<<u, b>>] <= outs[<<u, b>>]
  <2>1. held'[<<u, b>>] = held[<<u, b>>] + 1
    <3>1. held[<<u, b>>] = outs[<<u, b>>] - ins[<<u, b>>]
      BY <1>1, <1>5 DEF held, LoansLeft
    <3>2. held'[<<u, b>>] = (outs[<<u, b>>] + 1) - ins[<<u, b>>]
      BY <1>1, <1>2, <1>5 DEF held, LoansLeft
    <3> QED BY <1>1, <3>1, <3>2
  <2>2. held' = [held EXCEPT ![<<u, b>>] = @ + 1]
    BY ONLY <1>3, <1>4, <2>1
  <2>3. CountsOneMore(held', held, u, b)
    BY <1>3, <2>2, OneMore
  <2> QED BY <2>3, CountsMove
<1>6. CASE ~(ins[<<u, b>>] <= outs[<<u, b>>])
  <2>1. held'[<<u, b>>] = held[<<u, b>>]
    BY <1>1, <1>2, <1>6 DEF held, LoansLeft
  <2>2. held' = held
    BY ONLY <1>3, <1>4, <2>1
  <2> QED BY <1>6, <2>2, CountsMove
<1> QED BY <1>5, <1>6

(* A return is recorded: one copy less, if the user holds one.             *)
LEMMA LogInCounts ==
  ASSUME DbType, DbType', Countable(held),
         NEW w \in Workers, NEW u \in Users, NEW b \in Books, u = U(w), b = B(w),
         LogIn(w)
  PROVE  /\ Countable(held)'
         /\ ins[<<u, b>>] < outs[<<u, b>>]
              => HeldBy(u)' = HeldBy(u) - 1 /\ Lent(b)' = Lent(b) - 1
         /\ \A v \in Users : v # u => HeldBy(v)' = HeldBy(v)
         /\ \A c \in Books : c # b => Lent(c)' = Lent(c)
<1>1. /\ ins' = [ins EXCEPT ![<<u, b>>] = @ + 1] /\ outs' = outs
      /\ \A p \in Users \X Books : outs[p] \in Nat /\ ins[p] \in Nat
  BY DEF LogIn, DbType
<1>2. \A p \in Users \X Books : ins'[p] = IF p = <<u, b>> THEN ins[p] + 1 ELSE ins[p]
  BY <1>1 DEF DbType
<1>3. held \in [Users \X Books -> Nat] /\ held' \in [Users \X Books -> Nat]
  BY LoansLeftType DEF held, DbType
<1>4. \A p \in Users \X Books : p # <<u, b>> => held'[p] = held[p]
  BY <1>1, <1>2 DEF held, LoansLeft
<1>5. CASE ins[<<u, b>>] < outs[<<u, b>>]
  <2>1. held[<<u, b>>] > 0 /\ held'[<<u, b>>] = held[<<u, b>>] - 1
    <3>1. held[<<u, b>>] = outs[<<u, b>>] - ins[<<u, b>>]
      BY <1>1, <1>5 DEF held, LoansLeft
    <3>2. held'[<<u, b>>] = outs[<<u, b>>] - (ins[<<u, b>>] + 1)
      BY <1>1, <1>2, <1>5 DEF held, LoansLeft
    <3> QED BY <1>1, <1>5, <3>1, <3>2
  <2>2. held' = [held EXCEPT ![<<u, b>>] = @ - 1]
    BY ONLY <1>3, <1>4, <2>1
  <2>3. CountsOneMore(held, held', u, b)
    BY <1>3, <2>1, <2>2, OneLess
  <2> QED BY <2>3, CountsMove
<1>6. CASE ~(ins[<<u, b>>] < outs[<<u, b>>])
  <2>1. held'[<<u, b>>] = held[<<u, b>>]
    BY <1>1, <1>2, <1>6 DEF held, LoansLeft
  <2>2. held' = held
    BY ONLY <1>3, <1>4, <2>1
  <2> QED BY <1>6, <2>2, CountsMove
<1> QED BY <1>5, <1>6
-----------------------------------------------------------------------------
(* The workers at a row *)

OutSteps  == {"bookOut", "userOut", "logOut", "undoOut"}
LoanSteps == OutSteps \union ReturnSteps

(* The statements a worker executes are those of its request.              *)
StepsOfOp ==
  \A w \in Workers :
    /\ pc[w] \in LoanSteps => req[w].op \in LoanOps
    /\ pc[w] = "getUserByID" => req[w].op \in LoanOps \union {"user_setBasicInfo"}
    /\ pc[w] = "queryById"   => req[w].op # "user_setBasicInfo"
    /\ pc[w] = "setUser"     => req[w].op = "user_setBasicInfo"
    /\ pc[w] \in {"deleteBook", "setBook"}
         => req[w].op \in {"book_deleteBook", "book_setBasicInfo"}

LEMMA NextSteps ==
  WorkerType /\ StepsOfOp /\ [Next]_vars => StepsOfOp'
<1> SUFFICES ASSUME WorkerType, StepsOfOp, [Next]_vars PROVE StepsOfOp'
  OBVIOUS
<1>1. CASE UNCHANGED vars
  BY <1>1 DEF vars, StepsOfOp
<1>2. ASSUME NEW w \in Workers, Receive(w) PROVE StepsOfOp'
  <2>1. CASE UNCHANGED <<pc, req>>
    BY <2>1 DEF StepsOfOp
  <2>2. CASE \E r \in Sendable :
               /\ pc' = [pc EXCEPT ![w] =
                           IF r.op \in {"book_deleteBook", "book_setBasicInfo"}
                           THEN "queryById" ELSE "getUserByID"]
               /\ req' = [req EXCEPT ![w] = r]
    <3>1. PICK r \in Sendable :
            /\ pc' = [pc EXCEPT ![w] =
                        IF r.op \in {"book_deleteBook", "book_setBasicInfo"}
                        THEN "queryById" ELSE "getUserByID"]
            /\ req' = [req EXCEPT ![w] = r]
      BY <2>2
    <3>2. /\ req'[w] = r
          /\ pc'[w] = IF r.op \in {"book_deleteBook", "book_setBasicInfo"}
                      THEN "queryById" ELSE "getUserByID"
          /\ \A v \in Workers : v # w => pc'[v] = pc[v] /\ req'[v] = req[v]
      BY <3>1 DEF WorkerType
    <3>3. r.op \in Ops
      BY SendableType DEF Request
    <3> QED BY <3>2, <3>3 DEF StepsOfOp, LoanSteps, OutSteps, ReturnSteps, LoanOps, Ops
  <2> QED BY <1>2, <2>1, <2>2 DEF Receive
<1>3. ASSUME NEW w \in Workers, Serve(w) PROVE StepsOfOp'
  <2>1. /\ \A v \in Workers : v # w => pc'[v] = pc[v] /\ req'[v] = req[v]
        /\ pc'[w] = "idle" \/ req'[w] = req[w]
    BY <1>3, ServeFrame
  <2>2. CASE GetUserByID(w)
    <3>1. /\ pc[w] = "getUserByID"
          /\ pc'[w] = IF req[w].op = "user_setBasicInfo" THEN "setUser" ELSE "queryById"
      BY <2>2 DEF GetUserByID, Continue, WorkerType
    <3> QED BY <2>1, <3>1 DEF StepsOfOp, LoanSteps, OutSteps, ReturnSteps
  <2>3. CASE QueryById(w)
    <3>1. /\ pc[w] = "queryById"
          /\ \/ pc'[w] = "idle"
             \/ pc'[w] = "bookOut" /\ req[w].op = "user_borrowBook"
             \/ pc'[w] = "bookIn" /\ req[w].op = "user_returnBook"
             \/ pc'[w] = "deleteBook" /\ req[w].op = "book_deleteBook"
             \/ /\ pc'[w] = "setBook"
                /\ req[w].op \notin LoanOps \union {"book_deleteBook"}
      BY <2>3 DEF QueryById, Continue, Answer, WorkerType, LoanOps
    <3>2. req[w].op \in Ops /\ req[w].op # "user_setBasicInfo"
      BY <3>1, ReqFields DEF StepsOfOp
    <3> QED BY <2>1, <3>1, <3>2 DEF StepsOfOp, LoanSteps, OutSteps, ReturnSteps, LoanOps, Ops
  <2>4. CASE ~GetUserByID(w) /\ ~QueryById(w)
    <3>1. pc'[w] = "idle" \/ (pc'[w] \in LoanSteps /\ pc[w] \in LoanSteps)
      BY <1>3, <2>4
         DEF Serve, BookOut, UserOut, LogOut, UndoOut, BookIn,
             CountOuts, CountIns, UserIn, LogIn, UndoIn, DeleteBook, SetBook,
             SetUser, Throw, BookBorrow, BookUnborrow, Answer, Continue,
             LoanSteps, OutSteps, ReturnSteps, WorkerType
    <3> QED BY <2>1, <3>1 DEF StepsOfOp, LoanSteps, OutSteps, ReturnSteps
  <2> QED BY <2>2, <2>3, <2>4
<1> QED BY <1>1, <1>2, <1>3 DEF Next

(* The rows that a worker is at are those its request names.               *)
LEMMA RowsAt ==
  ASSUME WorkerType, StepsOfOp, NEW w \in Workers
  PROVE  /\ \A u : AtUser(w, u) => u = U(w)
         /\ \A b : AtBook(w, b) => b = B(w)
         /\ pc[w] \in LoanSteps \union {"getUserByID", "setUser"} => AtUser(w, U(w))
         /\ pc[w] \in LoanSteps \union {"queryById", "deleteBook", "setBook"}
              => AtBook(w, B(w))
BY DEF AtUser, AtBook, U, B, StepsOfOp, LoanSteps, OutSteps, ReturnSteps, LoanOps

(* A worker only comes to a row by receiving a request.                    *)
LEMMA ServeAt ==
  ASSUME WorkerType, NEW w \in Workers, Serve(w)
  PROVE  /\ \A v \in Workers : v # w =>
              /\ \A u : AtUser(v, u)' <=> AtUser(v, u)
              /\ \A b : AtBook(v, b)' <=> AtBook(v, b)
         /\ \A u : AtUser(w, u)' => AtUser(w, u)
         /\ \A b : AtBook(w, b)' => AtBook(w, b)
BY ServeFrame DEF AtUser, AtBook

(* What a row that is good after a step has been spared.                   *)
LEMMA GoodRows ==
  ASSUME Watch
  PROVE  /\ \A u \in Users : u \notin looseUsers' =>
              /\ u \notin looseUsers /\ ~TwoAtUser(u)'
              /\ \A w \in Workers : U(w) = u => ~ReturnUnrecorded(w)
         /\ \A u \in Users : u \notin tightUsers' =>
              /\ u \notin tightUsers
              /\ \A w \in Workers : U(w) = u => ~LoanUnrecorded(w)
         /\ \A b \in Books : b \notin looseBooks' =>
              /\ b \notin looseBooks /\ ~TwoAtBook(b)'
              /\ \A w \in Workers : B(w) = b => ~ReturnLeft(w)
         /\ \A b \in Books : b \notin tightBooks' =>
              /\ b \notin tightBooks
              /\ \A w \in Workers : B(w) = b => ~LoanLeft(w)
BY DEF Watch

(* At a good row there is one worker at most.                              *)
Alone == /\ \A u \in Users \ looseUsers : ~TwoAtUser(u)
         /\ \A b \in Books \ looseBooks : ~TwoAtBook(b)

LEMMA NextAlone == Alone /\ [HNext]_hvars => Alone'
<1> SUFFICES ASSUME Alone, [HNext]_hvars PROVE Alone'
  OBVIOUS
<1>1. CASE UNCHANGED hvars
  BY <1>1 DEF Alone, hvars, history, TwoAtUser, TwoAtBook, AtUser, AtBook
<1>2. CASE Watch
  BY <1>2, GoodRows DEF Alone
<1> QED BY <1>1, <1>2 DEF HNext

-----------------------------------------------------------------------------
(* The records of a pair of a user and a book, one of which is good *)

Good(u, b) == u \notin looseUsers \/ b \notin looseBooks

RecordInv ==
  /\ ReturnsHaveLoans
  /\ \A w \in Workers : Good(U(w), B(w)) => Due(w)

LEMMA InitRecord == HInit => RecordInv /\ Alone /\ StepsOfOp
BY DEF HInit, Init, RecordInv, ReturnsHaveLoans, Due, Alone, TwoAtUser, TwoAtBook,
       AtUser, AtBook, StepsOfOp, LoanSteps, OutSteps, ReturnSteps

(* Two workers are not recording returns of the same pair.                 *)
LEMMA OtherPair ==
  ASSUME WorkerType, StepsOfOp, Alone,
         NEW v \in Workers, NEW w \in Workers, v # w,
         pc[v] \in LoanSteps, pc[w] \in LoanSteps, Good(U(v), B(v))
  PROVE  P(v) # P(w)
<1> SUFFICES ASSUME U(v) = U(w), B(v) = B(w) PROVE FALSE
  BY DEF P
<1>1. /\ AtUser(v, U(v)) /\ AtUser(w, U(v)) /\ AtBook(v, B(v)) /\ AtBook(w, B(v))
      /\ U(v) \in Users /\ B(v) \in Books
  BY RowsAt, ReqFields
<1>2. TwoAtUser(U(v)) /\ TwoAtBook(B(v))
  BY <1>1 DEF TwoAtUser, TwoAtBook
<1> QED BY <1>1, <1>2 DEF Alone, Good

LEMMA NextRecord ==
  TypeOK /\ StepsOfOp /\ Alone /\ RecordInv /\ [HNext]_hvars => RecordInv'
<1> SUFFICES ASSUME TypeOK, DbType, WorkerType, StepsOfOp, Alone, RecordInv,
                    [HNext]_hvars
             PROVE  RecordInv'
  BY TypeSplit
<1>1. CASE UNCHANGED hvars
  BY <1>1 DEF hvars, history, RecordInv, ReturnsHaveLoans, Good, Due, P, U, B
<1>2. ASSUME Watch, NEW w \in Workers, Receive(w) PROVE RecordInv'
  <2>1. UNCHANGED <<outs, ins, loc>>
    BY <1>2 DEF Receive, db
  <2>2. \A u \in Users, b \in Books : Good(u, b)' => Good(u, b)
    BY <1>2, GoodRows DEF Good
  <2>3. ASSUME NEW v \in Workers, Good(U(v), B(v))' PROVE Due(v)'
    <3>1. \/ pc'[v] \in {"queryById", "getUserByID"}
          \/ pc'[v] = pc[v] /\ req'[v] = req[v]
      BY <1>2 DEF Receive, WorkerType
    <3>2. CASE pc'[v] = pc[v] /\ req'[v] = req[v]
      <4>1. Good(U(v), B(v))
        BY <1>2, <2>3, <3>2, GoodRows, ReqFields DEF Good, U, B
      <4> QED BY <2>1, <3>2, <4>1 DEF RecordInv, Due, P, U, B
    <3> QED BY <3>1, <3>2 DEF Due
  <2> QED BY <2>1, <2>2, <2>3 DEF RecordInv, ReturnsHaveLoans, Good
<1>3. ASSUME Watch, NEW w \in Workers, Serve(w) PROVE RecordInv'
  <2>0. outs' \in [Users \X Books -> Nat] /\ ins' \in [Users \X Books -> Nat]
    BY <1>3, NextType DEF Next, TypeOK
  <2>1. /\ \A p \in Users \X Books : outs[p] <= outs'[p]
        /\ ins' = ins \/ LogIn(w)
    BY <1>3, RecordsGrow
  <2>2. \A u \in Users, b \in Books : Good(u, b)' => Good(u, b)
    BY <1>3, GoodRows DEF Good
  <2>3. P(w) \in Users \X Books /\ U(w) \in Users /\ B(w) \in Books
    BY ReqFields DEF P
  <2>4. /\ LogIn(w) => pc[w] = "logIn" /\ ins' = [ins EXCEPT ![P(w)] = @ + 1]
        /\ LogIn(w) /\ Good(U(w), B(w)) => ins[P(w)] < outs[P(w)]
    BY DEF LogIn, RecordInv, Due, P
  <2>5. ASSUME NEW u \in Users, NEW b \in Books, Good(u, b)'
        PROVE  ins'[<<u, b>>] <= outs'[<<u, b>>]
    <3>1. ins[<<u, b>>] <= outs[<<u, b>>] /\ outs[<<u, b>>] <= outs'[<<u, b>>]
      BY <2>1, <2>2, <2>5 DEF RecordInv, ReturnsHaveLoans, Good
    <3>2. /\ ins[<<u, b>>] \in Nat /\ outs[<<u, b>>] \in Nat
          /\ ins'[<<u, b>>] \in Nat /\ outs'[<<u, b>>] \in Nat
      BY <2>0 DEF DbType
    <3>3. CASE LogIn(w) /\ P(w) = <<u, b>>
      <4>1. U(w) = u /\ B(w) = b
        BY <3>3 DEF P
      <4>2. ins[<<u, b>>] < outs[<<u, b>>] /\ ins'[<<u, b>>] = ins[<<u, b>>] + 1
        BY <2>2, <2>3, <2>4, <2>5, <3>3, <4>1 DEF DbType
      <4> QED BY <3>1, <3>2, <4>2
    <3>4. CASE ~(LogIn(w) /\ P(w) = <<u, b>>)
      <4>1. ins'[<<u, b>>] = ins[<<u, b>>]
        BY <2>1, <2>3, <2>4, <3>4 DEF DbType
      <4> QED BY <3>1, <3>2, <4>1
    <3> QED BY <3>3, <3>4
  <2>6. ASSUME NEW v \in Workers, v # w, Good(U(v), B(v))' PROVE Due(v)'
    <3>1. /\ pc'[v] = pc[v] /\ loc'[v] = loc[v]
          /\ U(v)' = U(v) /\ B(v)' = B(v) /\ P(v)' = P(v) /\ P(v) \in Users \X Books
      BY <1>3, <2>6, ServeFrame, ReqFields DEF P, U, B
    <3>2. Good(U(v), B(v))
      BY <2>2, <2>6, <3>1, ReqFields DEF Good
    <3>3. /\ outs[P(v)] <= outs'[P(v)]
          /\ outs[P(v)] \in Nat /\ outs'[P(v)] \in Nat
          /\ ins[P(v)] \in Nat /\ loc[v].num0 \in Int
      BY <2>0, <2>1, <3>1 DEF DbType, WorkerType, Loc
    <3>4. pc[v] \in {"userIn", "logIn"} => ins'[P(v)] = ins[P(v)]
      <4>1. CASE LogIn(w)
        <5>1. pc[v] \in {"userIn", "logIn"} => P(v) # P(w)
          BY <2>4, <2>6, <3>2, <4>1, OtherPair DEF LoanSteps, ReturnSteps
        <5> QED BY <2>4, <3>1, <4>1, <5>1 DEF DbType
      <4>2. CASE ins' = ins
        BY <4>2
      <4> QED BY <2>1, <4>1, <4>2
    <3>5. Due(v)
      BY <3>2 DEF RecordInv
    <3> QED BY <3>1, <3>3, <3>4, <3>5 DEF Due
  <2>7. ASSUME Good(U(w), B(w))' PROVE Due(w)'
    <3>1. CASE pc'[w] = "idle"
      BY <3>1 DEF Due
    <3>2. CASE req'[w] = req[w]
      <4>1. Good(U(w), B(w))
        BY <2>2, <2>3, <2>7, <3>2 DEF Good, U, B
      <4> QED BY <1>3, <4>1, OwnDue DEF RecordInv
    <3> QED BY <1>3, <3>1, <3>2, ServeFrame
  <2> QED BY <2>5, <2>6, <2>7 DEF RecordInv, ReturnsHaveLoans, Good
<1> QED BY <1>1, <1>2, <1>3 DEF HNext, Next
-----------------------------------------------------------------------------
(* A step and the rows that its worker is not at *)

LEMMA RowFrame ==
  ASSUME DbType, DbType', WorkerType, StepsOfOp, Countable(held),
         NEW w \in Workers, Serve(w)
  PROVE  /\ Countable(held)'
         /\ \A u \in Users : ~AtUser(w, u) => num'[u] = num[u] /\ HeldBy(u)' = HeldBy(u)
         /\ \A b \in Books : ~AtBook(w, b) =>
              /\ b \in shelf' <=> b \in shelf
              /\ count'[b] = count[b] /\ bcount'[b] = bcount[b] /\ Lent(b)' = Lent(b)
<1> DEFINE u == U(w)
           b == B(w)
           Goal == /\ Countable(held)'
                   /\ \A x \in Users : ~AtUser(w, x) =>
                        num'[x] = num[x] /\ HeldBy(x)' = HeldBy(x)
                   /\ \A c \in Books : ~AtBook(w, c) =>
                        /\ c \in shelf' <=> c \in shelf
                        /\ count'[c] = count[c] /\ bcount'[c] = bcount[c]
                        /\ Lent(c)' = Lent(c)
<1>0. /\ u \in Users /\ b \in Books
      /\ pc[w] \in LoanSteps \union {"getUserByID", "setUser"} => AtUser(w, u)
      /\ pc[w] \in LoanSteps \union {"queryById", "deleteBook", "setBook"} => AtBook(w, b)
  BY ReqFields, RowsAt
<1> HIDE DEF u, b
<1>1. CASE LogOut(w) \/ LogIn(w)
  <2>1. UNCHANGED <<shelf, count, bcount, num>> /\ pc[w] \in {"logOut", "logIn"}
    BY <1>1 DEF LogOut, LogIn
  <2>2. /\ Countable(held)'
        /\ \A x \in Users : x # u => HeldBy(x)' = HeldBy(x)
        /\ \A c \in Books : c # b => Lent(c)' = Lent(c)
    <3>1. CASE LogOut(w)
      BY <1>0, <3>1, LogOutCounts DEF u, b
    <3>2. CASE LogIn(w)
      BY <1>0, <3>2, LogInCounts DEF u, b
    <3> QED BY <1>1, <3>1, <3>2
  <2>3. AtUser(w, u) /\ AtBook(w, b)
    BY <1>0, <2>1 DEF LoanSteps, OutSteps, ReturnSteps
  <2> QED BY <2>1, <2>2, <2>3
<1>2. ASSUME UNCHANGED <<outs, ins>>,
             \A x \in Users : ~AtUser(w, x) => num'[x] = num[x],
             \A c \in Books : ~AtBook(w, c) =>
               /\ c \in shelf' <=> c \in shelf
               /\ count'[c] = count[c] /\ bcount'[c] = bcount[c]
      PROVE  Goal
  BY <1>2, SameRecords
<1>3. CASE UserOut(w) \/ UserIn(w) \/ SetUser(w)
  <2>1. /\ UNCHANGED <<shelf, count, bcount, outs, ins>>
        /\ pc[w] \in {"userOut", "userIn", "setUser"}
        /\ num' = num \/ num' = [num EXCEPT ![u] = loc[w].num]
    BY <1>3 DEF UserOut, UserIn, SetUser, UpdateNum, db, u
  <2>2. AtUser(w, u)
    BY <1>0, <2>1 DEF LoanSteps, OutSteps, ReturnSteps
  <2>3. \A x \in Users : ~AtUser(w, x) => num'[x] = num[x]
    BY <2>1, <2>2 DEF DbType
  <2> QED BY <1>2, <2>1, <2>3
<1>4. CASE BookOut(w) \/ BookIn(w) \/ UndoOut(w) \/ UndoIn(w)
  <2>1. /\ UNCHANGED <<shelf, count, num, outs, ins>>
        /\ pc[w] \in {"bookOut", "bookIn", "undoOut", "undoIn"}
        /\ bcount' = bcount \/ \E n : bcount' = [bcount EXCEPT ![b] = n]
    BY <1>4 DEF BookOut, BookIn, UndoOut, UndoIn, BookBorrow, BookUnborrow,
                UpdateBcount, db, b
  <2>2. AtBook(w, b)
    BY <1>0, <2>1 DEF LoanSteps, OutSteps, ReturnSteps
  <2>3. \A c \in Books : ~AtBook(w, c) => bcount'[c] = bcount[c]
    BY <2>1, <2>2 DEF DbType
  <2> QED BY <1>2, <2>1, <2>3
<1>5. CASE GetUserByID(w) \/ QueryById(w) \/ CountOuts(w) \/ CountIns(w) \/ Throw(w)
  BY <1>2, <1>5 DEF GetUserByID, QueryById, CountOuts, CountIns, Throw, db
<1>6. CASE DeleteBook(w) \/ SetBook(w)
  <2>1. /\ UNCHANGED <<num, outs, ins>> /\ pc[w] \in {"deleteBook", "setBook"}
        /\ shelf' = shelf \/ shelf' = shelf \ {b}
        /\ bcount' = bcount \/ bcount' = [bcount EXCEPT ![b] = loc[w].bcount]
        /\ count' = count \/ \E n : count' = [count EXCEPT ![b] = n]
    BY <1>6 DEF DeleteBook, SetBook, db, b
  <2>2. AtBook(w, b)
    BY <1>0, <2>1
  <2>3. \A c \in Books : ~AtBook(w, c) =>
          /\ c \in shelf' <=> c \in shelf
          /\ count'[c] = count[c] /\ bcount'[c] = bcount[c]
    BY <2>1, <2>2 DEF DbType
  <2> QED BY <1>2, <2>1, <2>3
<1> QED BY <1>1, <1>3, <1>4, <1>5, <1>6 DEF Serve

-----------------------------------------------------------------------------
(* Allowances *)

(* num is written before the record: how far it is ahead of the records.   *)
Ahead(p) == IF p = "logOut" THEN -1 ELSE IF p = "logIn" THEN 1 ELSE 0

(* What u holds and may still borrow, as far as w has written it down: the *)
(* limit, unless a statement has failed.                                   *)
Claim(w, u) == num[u] + HeldBy(u) - Ahead(pc[w])

(* What w has read of its user's row is what the row says.                 *)
FreshNum(w) ==
  /\ (\/ pc[w] \in {"bookOut", "bookIn", "countOuts", "countIns", "setUser"}
      \/ pc[w] = "queryById" /\ req[w].op \in LoanOps)
     => loc[w].num = num[U(w)]
  /\ pc[w] = "userOut" => loc[w].num = num[U(w)] - 1
  /\ pc[w] = "userIn"  => loc[w].num = num[U(w)] + 1

(* The account of its own user, while w takes a step.                      *)
LEMMA OwnAccount ==
  ASSUME DbType, DbType', WorkerType, Countable(held), Countable(held)',
         NEW w \in Workers, NEW u \in Users, NEW b \in Books, u = U(w), b = B(w),
         ins[<<u, b>>] <= outs[<<u, b>>], Due(w), FreshNum(w), Serve(w)
  PROVE  /\ ~LoanUnrecorded(w) /\ ~ReturnUnrecorded(w) => Claim(w, u)' = Claim(w, u)
         /\ ~ReturnUnrecorded(w) => Claim(w, u)' <= Claim(w, u)
         /\ FreshNum(w)'
<1> DEFINE Goal == /\ ~LoanUnrecorded(w) /\ ~ReturnUnrecorded(w)
                        => Claim(w, u)' = Claim(w, u)
                   /\ ~ReturnUnrecorded(w) => Claim(w, u)' <= Claim(w, u)
                   /\ FreshNum(w)'
<1> USE ReqFields
<1>0. /\ HeldBy(u) \in Nat /\ BorrowLimit \in Nat
      /\ loc[w] \in Loc /\ num[u] \in Int
  BY CirculationAssumption, LoansCounted DEF DbType, WorkerType
<1>17. Claim(w, u) \in Int
  BY <1>0 DEF Claim, Ahead
(* Steps that write neither num nor the records.                           *)
<1>1. ASSUME num' = num, outs' = outs, ins' = ins,
             Ahead(pc'[w]) = Ahead(pc[w]), FreshNum(w)'
      PROVE  Goal
  <2>1. Claim(w, u)' = Claim(w, u)
    BY <1>1, SameRecords DEF Claim
  <2> QED BY <1>1, <1>17, <2>1, SameRecords
<1>2. ASSUME Answer(w), UNCHANGED <<num, outs, ins>>, pc[w] \notin {"logOut", "logIn"}
      PROVE  Goal
  <2>1. pc'[w] = "idle"
    BY <1>2 DEF Answer, WorkerType
  <2> QED BY <1>1, <1>2, <2>1 DEF FreshNum, Ahead
<1>3. CASE GetUserByID(w)
  <2>1. /\ num' = num /\ outs' = outs /\ ins' = ins
        /\ pc[w] = "getUserByID" /\ pc'[w] \in {"setUser", "queryById"}
        /\ loc'[w].num = num[u] /\ req'[w] = req[w]
    BY <1>0, <1>3 DEF GetUserByID, Continue, db, WorkerType, Loc
  <2> QED BY <1>1, <2>1 DEF FreshNum, Ahead, U
<1>4. CASE QueryById(w)
  <2>1. num' = num /\ outs' = outs /\ ins' = ins /\ pc[w] = "queryById"
    BY <1>4 DEF QueryById, db
  <2>2. CASE B(w) \in shelf
    <3>1. /\ \/ pc'[w] \in {"bookOut", "bookIn"} /\ req[w].op \in LoanOps
             \/ pc'[w] \in {"deleteBook", "setBook"}
          /\ loc'[w].num = loc[w].num /\ req'[w] = req[w]
      BY ZenonT(40), <1>0, <1>4, <2>2 DEF QueryById, Continue, WorkerType, Loc, LoanOps
    <3> QED BY <1>1, <2>1, <3>1 DEF FreshNum, Ahead, U
  <2>3. CASE B(w) \notin shelf
    BY <1>2, <1>4, <2>1, <2>3 DEF QueryById
  <2> QED BY <2>2, <2>3
<1>5. CASE BookOut(w)
  <2>1. num' = num /\ outs' = outs /\ ins' = ins /\ pc[w] = "bookOut"
    BY <1>5 DEF BookOut, BookBorrow, UpdateBcount, db
  <2>2. CASE Answer(w)
    BY <1>2, <2>1, <2>2
  <2>3. CASE \E n \in Int : Continue(w, "userOut", [loc[w] EXCEPT !.num = @ - 1, !.bcount = n])
    <3>1. /\ pc'[w] = "userOut" /\ req'[w] = req[w]
          /\ loc'[w].num = loc[w].num - 1
      BY <1>0, <2>3 DEF Continue, WorkerType, Loc
    <3>2. loc[w].num = num[u]
      BY <2>1 DEF FreshNum
    <3> QED BY <1>1, <2>1, <3>1, <3>2 DEF FreshNum, Ahead, U
  <2>4. Answer(w) \/ \E n \in Int : Continue(w, "userOut", [loc[w] EXCEPT !.num = @ - 1, !.bcount = n])
    <3> DEFINE l == [loc[w] EXCEPT !.num = @ - 1]
    <3>1. Answer(w) \/ Continue(w, "userOut", [l EXCEPT !.bcount = @ + 1])
      BY <1>5 DEF BookOut, BookBorrow
    <3>2. /\ [l EXCEPT !.bcount = @ + 1]
                = [loc[w] EXCEPT !.num = @ - 1, !.bcount = loc[w].bcount + 1]
          /\ loc[w].bcount + 1 \in Int
      BY <1>0 DEF Loc
    <3> QED BY <3>1, <3>2
  <2> QED BY <2>2, <2>3, <2>4
<1>6. CASE UserOut(w)
  <2>1. /\ outs' = outs /\ ins' = ins
        /\ num' = [num EXCEPT ![u] = loc[w].num]
        /\ pc[w] = "userOut" /\ pc'[w] = "logOut" /\ req'[w] = req[w]
    BY <1>6 DEF UserOut, UpdateNum, Continue, WorkerType
  <2>2. num'[u] = num[u] - 1
    BY <2>1 DEF DbType, FreshNum
  <2>3. HeldBy(u)' = HeldBy(u)
    BY <2>1, SameRecords
  <2>4. Claim(w, u)' = Claim(w, u)
    BY <1>0, <2>1, <2>2, <2>3 DEF Claim, Ahead
  <2> QED BY <1>17, <2>1, <2>4 DEF FreshNum
<1>7. CASE LogOut(w)
  <2>1. num' = num /\ pc[w] = "logOut" /\ pc'[w] = "idle"
    BY <1>7 DEF LogOut, Answer, WorkerType
  <2>2. HeldBy(u)' = HeldBy(u) + 1
    BY <1>7, LogOutCounts
  <2>3. Claim(w, u)' = Claim(w, u)
    BY <1>0, <2>1, <2>2 DEF Claim, Ahead
  <2> QED BY <1>17, <2>1, <2>3 DEF FreshNum
<1>8. CASE UndoOut(w) \/ UndoIn(w)
  <2>1. /\ Answer(w) /\ UNCHANGED <<num, outs, ins>>
        /\ pc[w] \in {"undoOut", "undoIn"}
    BY <1>8 DEF UndoOut, UndoIn, BookUnborrow, UpdateBcount, db
  <2> QED BY <1>2, <2>1
<1>9. CASE BookIn(w)
  <2>1. num' = num /\ outs' = outs /\ ins' = ins /\ pc[w] = "bookIn"
    BY <1>9 DEF BookIn, BookBorrow, UpdateBcount, db
  <2>2. CASE Answer(w)
    BY <1>2, <2>1, <2>2
  <2>3. CASE Continue(w, "countOuts", [loc[w] EXCEPT !.bcount = @ + -1])
    <3>1. pc'[w] = "countOuts" /\ req'[w] = req[w] /\ loc'[w].num = loc[w].num
      BY <1>0, <2>3 DEF Continue, WorkerType, Loc
    <3> QED BY <1>1, <2>1, <3>1 DEF FreshNum, Ahead, U
  <2> QED BY <1>9, <2>2, <2>3 DEF BookIn, BookBorrow
<1>10. CASE CountOuts(w)
  <2>1. /\ num' = num /\ outs' = outs /\ ins' = ins
        /\ pc[w] = "countOuts" /\ pc'[w] = "countIns" /\ req'[w] = req[w]
        /\ loc'[w].num = loc[w].num
    BY <1>0, <1>10 DEF CountOuts, Continue, db, WorkerType, Loc
  <2> QED BY <1>1, <2>1 DEF FreshNum, Ahead, U
<1>11. CASE CountIns(w)
  <2>1. num' = num /\ outs' = outs /\ ins' = ins /\ pc[w] = "countIns"
    BY <1>11 DEF CountIns, db
  <2>2. CASE Answer(w)
    BY <1>2, <2>1, <2>2
  <2>3. CASE Continue(w, "userIn", [loc[w] EXCEPT !.num = @ + 1])
    <3>1. pc'[w] = "userIn" /\ req'[w] = req[w] /\ loc'[w].num = loc[w].num + 1
      BY <1>0, <2>3 DEF Continue, WorkerType, Loc
    <3> QED BY <1>1, <2>1, <3>1 DEF FreshNum, Ahead, U
  <2> QED BY <1>11, <2>2, <2>3 DEF CountIns
<1>12. CASE UserIn(w)
  <2>1. /\ outs' = outs /\ ins' = ins
        /\ num' = [num EXCEPT ![u] = loc[w].num]
        /\ pc[w] = "userIn" /\ pc'[w] = "logIn" /\ req'[w] = req[w]
    BY <1>12 DEF UserIn, UpdateNum, Continue, WorkerType
  <2>2. num'[u] = num[u] + 1
    BY <2>1 DEF DbType, FreshNum
  <2>3. HeldBy(u)' = HeldBy(u)
    BY <2>1, SameRecords
  <2>4. Claim(w, u)' = Claim(w, u)
    BY <1>0, <2>1, <2>2, <2>3 DEF Claim, Ahead
  <2> QED BY <1>17, <2>1, <2>4 DEF FreshNum
<1>13. CASE LogIn(w)
  <2>1. num' = num /\ pc[w] = "logIn" /\ pc'[w] = "idle"
    BY <1>13 DEF LogIn, Answer, WorkerType
  <2>2. HeldBy(u)' = HeldBy(u) - 1
    <3>1. ins[<<u, b>>] < outs[<<u, b>>]
      BY <2>1 DEF Due, P
    <3> QED BY <1>13, <3>1, LogInCounts
  <2>3. Claim(w, u)' = Claim(w, u)
    BY <1>0, <2>1, <2>2 DEF Claim, Ahead
  <2> QED BY <1>17, <2>1, <2>3 DEF FreshNum
<1>14. CASE DeleteBook(w) \/ SetBook(w)
  <2>1. /\ Answer(w) /\ UNCHANGED <<num, outs, ins>>
        /\ pc[w] \in {"deleteBook", "setBook"}
    BY <1>14 DEF DeleteBook, SetBook, db
  <2> QED BY <1>2, <2>1
<1>15. CASE SetUser(w)
  <2>1. /\ Answer(w) /\ UNCHANGED <<outs, ins>> /\ pc[w] = "setUser"
        /\ num' = num \/ num' = [num EXCEPT ![u] = loc[w].num]
    BY <1>15 DEF SetUser, UpdateNum, db
  <2>2. num' = num
    BY <2>1 DEF FreshNum, DbType
  <2> QED BY <1>2, <2>1, <2>2
<1>16. CASE Throw(w)
  <2>1. /\ UNCHANGED <<num, outs, ins>> /\ pc[w] \in Faulty
        /\ \/ Answer(w) /\ pc[w] \notin {"logOut", "logIn"}
           \/ \E next \in {"undoOut", "undoIn"} : Continue(w, next, loc[w])
    BY <1>16 DEF Throw, db
  <2>2. CASE \E next \in {"undoOut", "undoIn"} : Continue(w, next, loc[w])
    <3>1. pc'[w] \in {"undoOut", "undoIn"}
      BY <2>2 DEF Continue, WorkerType
    <3>2. CASE pc[w] \notin {"logOut", "logIn"}
      <4>1. Ahead(pc'[w]) = Ahead(pc[w])
        BY <3>1, <3>2 DEF Ahead
      <4> QED BY <1>1, <2>1, <3>1, <4>1 DEF FreshNum
    <3>3. CASE pc[w] \in {"logOut", "logIn"}
      <4>1. HeldBy(u)' = HeldBy(u) /\ num' = num
        BY <2>1, SameRecords
      <4>2. /\ pc[w] = "logOut" => LoanUnrecorded(w) /\ Claim(w, u)' = Claim(w, u) - 1
            /\ pc[w] = "logIn" => ReturnUnrecorded(w)
        <5>1. /\ pc[w] = "logOut" => pc'[w] = "undoOut"
              /\ pc[w] = "logIn" => pc'[w] = "undoIn"
          BY <1>16 DEF Throw, Continue, WorkerType
        <5>2. pc[w] = "logOut" => Claim(w, u)' = Claim(w, u) - 1
          BY <1>0, <3>1, <4>1 DEF Claim, Ahead
        <5> QED BY <5>1, <5>2 DEF LoanUnrecorded, ReturnUnrecorded, Moves
      <4> QED BY <1>17, <3>1, <3>3, <4>2 DEF FreshNum
    <3> QED BY <3>2, <3>3
  <2>3. CASE Answer(w) /\ pc[w] \notin {"logOut", "logIn"}
    BY <1>2, <2>1, <2>3
  <2> QED BY <2>1, <2>2, <2>3
<1> QED
  BY <1>3, <1>4, <1>5, <1>6, <1>7, <1>8, <1>9, <1>10, <1>11, <1>12, <1>13,
     <1>14, <1>15, <1>16 DEF Serve
(* The account of u, when what is written of num is ahead of the records.  *)
Account(u, ahead) ==
  /\ num[u] + HeldBy(u) - ahead <= BorrowLimit
  /\ u \notin tightUsers => num[u] + HeldBy(u) - ahead = BorrowLimit

(* The strengthening of AllowancesHold.                                    *)
UserInv ==
  \A u \in Users \ looseUsers :
    /\ (\A w \in Workers : ~AtUser(w, u)) => Account(u, 0)
    /\ \A w \in Workers : AtUser(w, u) => FreshNum(w) /\ Account(u, Ahead(pc[w]))

LEMMA NextUser ==
  TypeOK /\ StepsOfOp /\ Alone /\ RecordInv /\ Countable(held) /\ UserInv /\ [HNext]_hvars
    => Countable(held)' /\ UserInv'
<1> SUFFICES ASSUME TypeOK, DbType, WorkerType, StepsOfOp, Alone, RecordInv,
                    Countable(held), UserInv, [HNext]_hvars
             PROVE  Countable(held)' /\ UserInv'
  BY TypeSplit
<1>1. CASE UNCHANGED hvars
  <2>1. UNCHANGED vars /\ UNCHANGED history
    BY <1>1 DEF hvars, vars
  <2>2. Countable(held)' /\ \A u \in Users : HeldBy(u)' = HeldBy(u)
    BY <2>1, SameRecords DEF vars
  <2> QED BY <2>1, <2>2 DEF vars, history, UserInv, Account, FreshNum, AtUser, U
<1>2. ASSUME Watch, NEW w \in Workers, Receive(w) PROVE Countable(held)' /\ UserInv'
  <2>1. UNCHANGED <<num, outs, ins, loc>> /\ pc[w] = "idle"
    BY <1>2 DEF Receive, db
  <2>2. Countable(held)' /\ \A u \in Users : HeldBy(u)' = HeldBy(u)
    BY <2>1, SameRecords
  <2>3. /\ \A v \in Workers : v # w => pc'[v] = pc[v] /\ req'[v] = req[v]
        /\ \/ pc'[w] = pc[w] /\ req'[w] = req[w]
           \/ pc'[w] = "getUserByID"
           \/ pc'[w] = "queryById" /\ req'[w].op \notin LoanOps
    BY <1>2 DEF Receive, WorkerType, LoanOps
  <2> SUFFICES ASSUME NEW u \in Users, u \notin looseUsers'
               PROVE  /\ (\A v \in Workers : ~AtUser(v, u)') => Account(u, 0)'
                      /\ \A v \in Workers : AtUser(v, u)' =>
                           FreshNum(v)' /\ Account(u, Ahead(pc[v]))'
    BY <2>2 DEF UserInv
  <2>4. u \notin looseUsers /\ ~TwoAtUser(u)' /\ (u \notin tightUsers' => u \notin tightUsers)
    BY <1>2, GoodRows
  <2>5. \A v \in Workers : v # w => (AtUser(v, u)' <=> AtUser(v, u))
    BY <2>3 DEF AtUser
  <2>6. ~AtUser(w, u)
    BY <2>1 DEF AtUser
  <2>7. CASE AtUser(w, u)'
    <3>1. \A v \in Workers : AtUser(v, u)' => v = w
      BY <2>4, <2>7 DEF TwoAtUser
    <3>2. \A v \in Workers : ~AtUser(v, u)
      BY <2>5, <2>6, <3>1
    <3>3. Account(u, 0)
      BY <2>4, <3>2 DEF UserInv
    <3>4. pc'[w] \in {"getUserByID", "queryById"} /\ FreshNum(w)'
      BY <2>1, <2>3, <2>7 DEF AtUser, FreshNum
    <3>5. Ahead(pc'[w]) = 0
      BY <3>4 DEF Ahead
    <3>6. Account(u, Ahead(pc[w]))'
      BY <2>1, <2>2, <2>4, <3>3, <3>5 DEF Account
    <3> QED BY <2>7, <3>1, <3>4, <3>6
  <2>8. CASE ~AtUser(w, u)'
    <3>1. \A v \in Workers : AtUser(v, u)' <=> AtUser(v, u)
      BY <2>5, <2>6, <2>8
    <3>2. (\A v \in Workers : ~AtUser(v, u)) => Account(u, 0)'
      BY <2>1, <2>2, <2>4 DEF UserInv, Account
    <3>3. ASSUME NEW v \in Workers, AtUser(v, u)
          PROVE  FreshNum(v)' /\ Account(u, Ahead(pc[v]))'
      <4>1. v # w /\ FreshNum(v) /\ Account(u, Ahead(pc[v]))
        BY <2>4, <2>6, <3>3 DEF UserInv
      <4> QED BY <2>1, <2>2, <2>3, <2>4, <4>1 DEF FreshNum, Account, U
    <3> QED BY <3>1, <3>2, <3>3
  <2> QED BY <2>7, <2>8
<1>3. ASSUME Watch, NEW w \in Workers, Serve(w) PROVE Countable(held)' /\ UserInv'
  <2>1. TypeOK' /\ DbType'
    BY <1>3, NextType DEF Next, TypeOK, DbType
  <2>2. /\ Countable(held)'
        /\ \A u \in Users : ~AtUser(w, u) => num'[u] = num[u] /\ HeldBy(u)' = HeldBy(u)
    BY <1>3, <2>1, RowFrame
  <2>3. /\ \A v \in Workers : v # w =>
               /\ pc'[v] = pc[v] /\ req'[v] = req[v] /\ loc'[v] = loc[v]
        /\ pc'[w] = "idle" \/ (pc[w] # "idle" /\ req'[w] = req[w])
    BY <1>3, ServeFrame
  <2>4. /\ \A v \in Workers : v # w => \A u : AtUser(v, u)' <=> AtUser(v, u)
        /\ \A u : AtUser(w, u)' => AtUser(w, u)
    BY <1>3, ServeAt
  <2> SUFFICES ASSUME NEW u \in Users, u \notin looseUsers'
               PROVE  /\ (\A v \in Workers : ~AtUser(v, u)') => Account(u, 0)'
                      /\ \A v \in Workers : AtUser(v, u)' =>
                           FreshNum(v)' /\ Account(u, Ahead(pc[v]))'
    BY <2>2 DEF UserInv
  <2>5. /\ u \notin looseUsers /\ ~TwoAtUser(u)' /\ ~TwoAtUser(u)
        /\ u \notin tightUsers' => u \notin tightUsers
    BY <1>3, GoodRows DEF Alone
  <2>6. CASE AtUser(w, u)
    <3>1. u = U(w)
      BY <2>6, RowsAt
    <3>2. PICK b \in Books : b = B(w)
      BY ReqFields
    <3>3. FreshNum(w) /\ Account(u, Ahead(pc[w]))
      BY <2>5, <2>6 DEF UserInv
    <3>4. ins[<<u, b>>] <= outs[<<u, b>>] /\ Due(w)
      BY <2>5, <3>1, <3>2 DEF RecordInv, ReturnsHaveLoans, Good
    <3>5. /\ ~ReturnUnrecorded(w)
          /\ u \notin tightUsers' => ~LoanUnrecorded(w)
      BY <1>3, <3>1, GoodRows
    <3>6. /\ ~LoanUnrecorded(w) /\ ~ReturnUnrecorded(w) => Claim(w, u)' = Claim(w, u)
          /\ ~ReturnUnrecorded(w) => Claim(w, u)' <= Claim(w, u)
          /\ FreshNum(w)'
      BY <1>3, <2>1, <2>2, <3>1, <3>2, <3>3, <3>4, OwnAccount
    <3>7. /\ HeldBy(u) \in Nat /\ HeldBy(u)' \in Nat /\ BorrowLimit \in Nat
          /\ num[u] \in Int /\ num'[u] \in Int
          /\ Ahead(pc[w]) \in Int /\ Ahead(pc'[w]) \in Int
      BY <2>1, <2>2, LoansCounted, CirculationAssumption DEF DbType, Ahead
    <3>8. Account(u, Ahead(pc[w]))'
      <4>1. num'[u] + HeldBy(u)' - Ahead(pc'[w]) <= BorrowLimit
        <5>1. num[u] + HeldBy(u) - Ahead(pc[w]) <= BorrowLimit
          BY <3>3 DEF Account
        <5>2. num'[u] + HeldBy(u)' - Ahead(pc'[w]) <= num[u] + HeldBy(u) - Ahead(pc[w])
          BY <3>5, <3>6 DEF Claim
        <5> QED BY ONLY <3>7, <5>1, <5>2
      <4>2. u \notin tightUsers' => num'[u] + HeldBy(u)' - Ahead(pc'[w]) = BorrowLimit
        <5> SUFFICES ASSUME u \notin tightUsers'
                     PROVE  num'[u] + HeldBy(u)' - Ahead(pc'[w]) = BorrowLimit
          OBVIOUS
        <5>1. num[u] + HeldBy(u) - Ahead(pc[w]) = BorrowLimit
          BY <2>5, <3>3 DEF Account
        <5>2. num'[u] + HeldBy(u)' - Ahead(pc'[w]) = num[u] + HeldBy(u) - Ahead(pc[w])
          BY <3>5, <3>6 DEF Claim
        <5> QED BY <5>1, <5>2
      <4> QED BY <4>1, <4>2 DEF Account
    <3>9. \A v \in Workers : AtUser(v, u)' => v = w
      BY <2>4, <2>5, <2>6 DEF TwoAtUser
    <3>10. (\A v \in Workers : ~AtUser(v, u)') => Account(u, 0)'
      <4> SUFFICES ASSUME ~AtUser(w, u)' PROVE Account(u, 0)'
        OBVIOUS
      <4>1. pc'[w] = "idle"
        BY <2>3, <2>6 DEF AtUser
      <4>2. Ahead(pc'[w]) = 0
        BY <4>1 DEF Ahead
      <4> QED BY <3>8, <4>2 DEF Account
    <3> QED BY <3>6, <3>8, <3>9, <3>10
  <2>7. CASE ~AtUser(w, u)
    <3>1. \A v \in Workers : AtUser(v, u)' <=> AtUser(v, u)
      BY <2>4, <2>7
    <3>2. num'[u] = num[u] /\ HeldBy(u)' = HeldBy(u)
      BY <2>2, <2>7
    <3>3. (\A v \in Workers : ~AtUser(v, u)) => Account(u, 0)'
      BY <2>5, <3>2 DEF UserInv, Account
    <3>4. ASSUME NEW v \in Workers, AtUser(v, u)
          PROVE  FreshNum(v)' /\ Account(u, Ahead(pc[v]))'
      <4>1. v # w /\ FreshNum(v) /\ Account(u, Ahead(pc[v])) /\ u = U(v)
        BY <2>5, <2>7, <3>4, RowsAt DEF UserInv
      <4>2. pc'[v] = pc[v] /\ req'[v] = req[v] /\ loc'[v] = loc[v]
        BY <2>3, <4>1
      <4>3. FreshNum(v)'
        BY <3>2, <4>1, <4>2 DEF FreshNum, U
      <4>4. Account(u, Ahead(pc[v]))'
        BY <2>5, <3>2, <4>1, <4>2 DEF Account
      <4> QED BY <4>3, <4>4
    <3> QED BY <3>1, <3>3, <3>4
  <2> QED BY <2>6, <2>7
<1> QED BY <1>1, <1>2, <1>3 DEF HNext, Next

LEMMA InitUser == HInit => Countable(held) /\ UserInv
<1> SUFFICES ASSUME HInit PROVE Countable(held) /\ UserInv
  OBVIOUS
<1>1. \A w \in Workers, u \in Users : ~AtUser(w, u)
  BY DEF HInit, Init, AtUser
<1>2. Countable(held) /\ \A u \in Users : HeldBy(u) = 0 /\ num[u] = BorrowLimit
  BY NothingLent DEF HInit, Init
<1>3. \A u \in Users : Account(u, 0)
  BY <1>2, CirculationAssumption DEF Account
<1> QED BY <1>1, <1>2, <1>3 DEF UserInv

(* What holds of the users' rows in every state of a history.              *)
UsersInv == /\ TypeOK /\ StepsOfOp /\ Alone /\ RecordInv
            /\ Countable(held) /\ UserInv

LEMMA UsersInvariant ==
  /\ HInit => UsersInv
  /\ UsersInv /\ [HNext]_hvars => UsersInv'
<1>1. HInit => UsersInv
  BY InitType, InitRecord, InitUser DEF HInit, UsersInv
<1>2. [HNext]_hvars => [Next]_vars
  BY DEF HNext, hvars, vars
<1>3. UsersInv /\ [HNext]_hvars => UsersInv'
  BY <1>2, TypeSplit, NextType, NextSteps, NextAlone, NextRecord, NextUser DEF UsersInv
<1> QED BY <1>1, <1>3

(* In every behaviour of the server, for any number of workers and         *)
(* sessions and whichever statements fail: the records of a user show no   *)
(* more returns of a book than loans, although returnBook counts them by   *)
(* separate statements, unless this user's row and this book's have both   *)
(* been worked on by two requests at once, or spoilt by a broken off       *)
(* return.                                                                 *)
THEOREM ReturnsAreLoans == HSpec => []ReturnsHaveLoans
<1>1. UsersInv => ReturnsHaveLoans
  BY DEF UsersInv, RecordInv
<1> QED BY <1>1, UsersInvariant, PTL DEF HSpec

(* In every behaviour of the server, for any number of workers, sessions   *)
(* of the same user and administrators and whichever statements fail: num  *)
(* and the borrow records of a user agree between the user's requests,     *)
(* unless two requests of this user were in service at once or a record of *)
(* this user's was not inserted; and num never errs to the user's          *)
(* advantage when the lost record is that of a loan.                       *)
THEOREM AllowancesAreExact == HSpec => []AllowancesHold
<1>1. UsersInv => AllowancesHold
  <2> SUFFICES ASSUME DbType, Countable(held), UserInv,
                      NEW u \in Users, u \notin looseUsers,
                      \A w \in Workers : ~AtUser(w, u)
               PROVE  /\ num[u] <= BorrowLimit - HeldBy(u)
                      /\ u \notin tightUsers => num[u] = BorrowLimit - HeldBy(u)
    BY TypeSplit DEF UsersInv, AllowancesHold
  <2>1. Account(u, 0)
    BY DEF UserInv
  <2>2. num[u] \in Int /\ BorrowLimit \in Nat /\ HeldBy(u) \in Nat
    BY CirculationAssumption, HeldCounted DEF DbType
  <2> QED BY <2>1, <2>2 DEF Account
<1> QED BY <1>1, UsersInvariant, PTL DEF HSpec
-----------------------------------------------------------------------------
(* Books *)

Outward == {"userOut", "logOut", "undoOut"}
Inward  == {"countOuts", "countIns", "userIn", "logIn", "undoIn"}

(* The steps that work with a copy of the book's row.                      *)
RowSteps == Outward \union Inward \union {"bookOut", "bookIn", "deleteBook", "setBook"}

(* bcount is written before the record: how far it is ahead at p.          *)
Bias(p) == IF p \in Outward THEN 1 ELSE IF p \in Inward THEN -1 ELSE 0

(* What w has read of its book's row is still there.                       *)
FreshBook(w) ==
  /\ pc[w] \in RowSteps => /\ B(w) \in shelf
                           /\ loc[w].bcount = bcount[B(w)]
                           /\ loc[w].count = count[B(w)]
  /\ pc[w] \in Outward => bcount[B(w)] <= count[B(w)]

(* The copies of b that are out, when what is written of bcount is ahead   *)
(* of the records; a book without a row has none.                          *)
Counted(b, ahead) ==
  /\ b \notin shelf => Lent(b) = 0
  /\ b \in shelf => bcount[b] >= Lent(b) + ahead
  /\ b \in shelf /\ b \notin tightBooks => bcount[b] = Lent(b) + ahead

(* The strengthening of BooksHold and LoansHaveRows.                       *)
BookInv ==
  \A b \in Books \ looseBooks :
    /\ (\A w \in Workers : ~AtBook(w, b)) => Counted(b, 0)
    /\ \A w \in Workers : AtBook(w, b) => FreshBook(w) /\ Counted(b, Bias(pc[w]))

(* The book of its own request, while w takes a step.                      *)
LEMMA OwnBook ==
  ASSUME DbType, DbType', WorkerType, Countable(held), Countable(held)',
         NEW w \in Workers, NEW u \in Users, NEW b \in Books, u = U(w), b = B(w),
         ins[<<u, b>>] <= outs[<<u, b>>], Due(w),
         FreshBook(w), Counted(b, Bias(pc[w])), Serve(w), ~ReturnLeft(w),
         b \notin tightBooks' => b \notin tightBooks /\ ~LoanLeft(w)
  PROVE  FreshBook(w)' /\ Counted(b, Bias(pc[w]))'
<1> DEFINE Goal == FreshBook(w)' /\ Counted(b, Bias(pc[w]))'
<1>0. /\ loc[w] \in Loc /\ bcount[b] \in Int /\ bcount'[b] \in Int /\ count[b] \in Int
      /\ Lent(b) \in Nat /\ Lent(b)' \in Nat
  BY LoansCounted DEF WorkerType, DbType
<1>1. /\ pc[w] \in RowSteps =>
           b \in shelf /\ loc[w].bcount = bcount[b] /\ loc[w].count = count[b]
      /\ pc[w] \in Outward => bcount[b] <= count[b]
  BY DEF FreshBook
(* A step after which bcount is as far ahead of the records as before.     *)
<1>2. ASSUME FreshBook(w)', b \in shelf' <=> b \in shelf,
             bcount'[b] - Lent(b)' - Bias(pc'[w]) = bcount[b] - Lent(b) - Bias(pc[w]),
             b \notin shelf => Lent(b)' = Lent(b)
      PROVE  Goal
  <2>1. Bias(pc[w]) \in Int /\ Bias(pc'[w]) \in Int
    BY DEF Bias
  <2> DEFINE m == Bias(pc[w])
             n == Bias(pc'[w])
  <2>2. /\ bcount[b] >= Lent(b) + m => bcount'[b] >= Lent(b)' + n
        /\ bcount[b] = Lent(b) + m => bcount'[b] = Lent(b)' + n
    <3> HIDE DEF m, n
    <3>1. m \in Int /\ n \in Int /\ bcount'[b] - Lent(b)' - n = bcount[b] - Lent(b) - m
      BY <1>2, <2>1 DEF m, n
    <3> QED BY ONLY <1>0, <3>1
  <2>3. b \notin tightBooks' => b \notin tightBooks
    OBVIOUS
  <2> QED BY <1>2, <2>2, <2>3 DEF Counted
<1>3. pc'[w] = "idle" => FreshBook(w)' /\ Bias(pc'[w]) = 0
  BY DEF FreshBook, RowSteps, Outward, Inward, Bias
<1>4. ASSUME UNCHANGED <<shelf, count, bcount, outs, ins>>
      PROVE  /\ Lent(b)' = Lent(b) /\ bcount'[b] = bcount[b]
             /\ b \in shelf' <=> b \in shelf
  BY <1>4, SameRecords
(* An answer that leaves the database alone.                               *)
<1>5. ASSUME Answer(w), UNCHANGED <<shelf, count, bcount, outs, ins>>,
             pc[w] \notin Outward \union Inward
      PROVE  Goal
  <2>1. pc'[w] = "idle"
    BY <1>5 DEF Answer, WorkerType
  <2>2. Bias(pc[w]) = 0
    BY <1>5 DEF Bias
  <2> QED BY <1>0, <1>2, <1>3, <1>4, <1>5, <2>1, <2>2
(* A step to another statement that leaves the database alone.             *)
<1>6. ASSUME UNCHANGED <<shelf, count, bcount, outs, ins>>,
             Bias(pc'[w]) = Bias(pc[w]), FreshBook(w)'
      PROVE  Goal
  BY <1>0, <1>2, <1>4, <1>6
(* The same, when the row has been read before.                            *)
<1>7. ASSUME UNCHANGED <<shelf, count, bcount, outs, ins>>,
             pc[w] \in RowSteps, req'[w] = req[w],
             loc'[w].bcount = loc[w].bcount, loc'[w].count = loc[w].count,
             Bias(pc'[w]) = Bias(pc[w]), pc'[w] \in Outward => pc[w] \in Outward
      PROVE  Goal
  <2>1. FreshBook(w)'
    BY <1>7 DEF FreshBook, B
  <2> QED BY <1>6, <1>7, <2>1
<1>8. CASE GetUserByID(w)
  <2>1. /\ UNCHANGED <<shelf, count, bcount, outs, ins>> /\ pc[w] = "getUserByID"
        /\ pc'[w] \in {"setUser", "queryById"}
    BY <1>8 DEF GetUserByID, Continue, db, WorkerType
  <2>2. Bias(pc'[w]) = Bias(pc[w]) /\ FreshBook(w)'
    BY <2>1 DEF Bias, FreshBook, RowSteps, Outward, Inward
  <2> QED BY <1>6, <2>1, <2>2
<1>9. CASE QueryById(w)
  <2>1. UNCHANGED <<shelf, count, bcount, outs, ins>> /\ pc[w] = "queryById"
    BY <1>9 DEF QueryById, db
  <2>2. CASE b \in shelf
    <3> DEFINE l == [loc[w] EXCEPT !.count = count[b], !.bcount = bcount[b]]
    <3>4. /\ pc'[w] \in {"bookOut", "bookIn", "deleteBook", "setBook"}
          /\ req'[w] = req[w] /\ loc'[w] = l
      BY <1>9, <2>2 DEF QueryById, Continue, WorkerType
    <3>5. l.bcount = bcount[b] /\ l.count = count[b]
      BY <1>0 DEF Loc
    <3> HIDE DEF l
    <3>1. B(w)' = b
      BY <3>4 DEF B
    <3>2. Bias(pc'[w]) = Bias(pc[w])
      BY <2>1, <3>4 DEF Bias, Outward, Inward
    <3>3. FreshBook(w)'
      BY <2>1, <2>2, <3>1, <3>4, <3>5 DEF FreshBook, Outward
    <3> QED BY <1>6, <2>1, <3>2, <3>3
  <2>3. CASE b \notin shelf
    BY <1>5, <1>9, <2>1, <2>3 DEF QueryById, Inward, Outward
  <2> QED BY <2>2, <2>3
<1>10. CASE BookOut(w)
  <2>1. pc[w] = "bookOut"
    BY <1>10 DEF BookOut
  <2>2. CASE Answer(w) /\ UNCHANGED db
    BY <1>5, <2>1, <2>2 DEF Inward, Outward, db
  <2>3. CASE /\ CanBorrow(loc[w], 1) /\ UpdateBcount(b, loc[w].bcount + 1)
             /\ \E l \in Loc : /\ Continue(w, "userOut", l)
                               /\ l.bcount = loc[w].bcount + 1 /\ l.count = loc[w].count
    <3>1. PICK l \in Loc : /\ Continue(w, "userOut", l)
                           /\ l.bcount = loc[w].bcount + 1 /\ l.count = loc[w].count
      BY <2>3
    <3>2. pc'[w] = "userOut" /\ req'[w] = req[w] /\ loc'[w] = l
      BY <3>1 DEF Continue, WorkerType
    <3>3. b \in shelf /\ loc[w].bcount = bcount[b] /\ loc[w].count = count[b]
      BY <1>1, <2>1 DEF RowSteps
    <3>4. UNCHANGED <<shelf, count, outs, ins>> /\ bcount'[b] = bcount[b] + 1
      BY <2>3, <3>3 DEF UpdateBcount, DbType
    <3>5. bcount[b] + 1 <= count[b]
      BY <1>0, <2>3, <3>3 DEF CanBorrow, Loc
    <3>6. FreshBook(w)'
      BY <1>0, <3>1, <3>2, <3>3, <3>4, <3>5 DEF FreshBook, B
    <3>7. Lent(b)' = Lent(b)
      BY <3>4, SameRecords
    <3>8. Bias(pc[w]) = 0 /\ Bias(pc'[w]) = 1
      BY <2>1, <3>2 DEF Bias, Outward, Inward
    <3> QED BY <1>0, <1>2, <3>3, <3>4, <3>6, <3>7, <3>8
  <2>4. \/ Answer(w) /\ UNCHANGED db
        \/ /\ CanBorrow(loc[w], 1) /\ UpdateBcount(b, loc[w].bcount + 1)
           /\ \E l \in Loc : /\ Continue(w, "userOut", l)
                             /\ l.bcount = loc[w].bcount + 1 /\ l.count = loc[w].count
    <3> DEFINE l == [loc[w] EXCEPT !.num = @ - 1]
               m == [l EXCEPT !.bcount = @ + 1]
    <3>3. l \in Loc /\ l.bcount = loc[w].bcount /\ l.count = loc[w].count
      BY <1>0 DEF Loc
    <3>4. m \in Loc /\ m.bcount = l.bcount + 1 /\ m.count = l.count
      <4> HIDE DEF l
      <4> QED BY <3>3 DEF Loc
    <3>1. /\ m \in Loc /\ m.bcount = loc[w].bcount + 1 /\ m.count = loc[w].count
          /\ l.bcount = loc[w].bcount /\ l.count = loc[w].count
      BY <3>3, <3>4
    <3>2. \/ Answer(w) /\ UNCHANGED db
          \/ CanBorrow(l, 1) /\ UpdateBcount(b, l.bcount + 1) /\ Continue(w, "userOut", m)
      BY <1>10 DEF BookOut, BookBorrow
    <3> HIDE DEF l, m
    <3> QED BY <3>1, <3>2 DEF CanBorrow
  <2> QED BY <2>2, <2>3, <2>4
<1>11. CASE UserOut(w) \/ UserIn(w)
  <2>1. /\ UNCHANGED <<shelf, count, bcount, outs, ins>>
        /\ req'[w] = req[w] /\ loc'[w] = loc[w]
        /\ \/ pc[w] = "userOut" /\ pc'[w] = "logOut"
           \/ pc[w] = "userIn" /\ pc'[w] = "logIn"
    BY <1>11 DEF UserOut, UserIn, UpdateNum, Continue, WorkerType
  <2>2. /\ Bias(pc'[w]) = Bias(pc[w]) /\ pc[w] \in RowSteps
        /\ pc'[w] \in Outward => pc[w] \in Outward
    BY <2>1 DEF Bias, RowSteps, Outward, Inward
  <2> QED BY <1>7, <2>1, <2>2
<1>12. CASE LogOut(w)
  <2>1. /\ UNCHANGED <<shelf, bcount>> /\ pc[w] = "logOut" /\ pc'[w] = "idle"
    BY <1>12 DEF LogOut, Answer, WorkerType
  <2>2. Lent(b)' = Lent(b) + 1
    BY <1>12, LogOutCounts
  <2>3. Bias(pc[w]) = 1 /\ b \in shelf
    BY <1>1, <2>1 DEF Bias, RowSteps, Outward
  <2> QED BY <1>0, <1>2, <1>3, <2>1, <2>2, <2>3
<1>13. CASE UndoOut(w)
  <2>1. /\ pc[w] = "undoOut" /\ pc'[w] = "idle" /\ UNCHANGED <<shelf, count, outs, ins>>
        /\ UpdateBcount(b, loc[w].bcount + -1) \/ UNCHANGED bcount
    BY <1>13 DEF UndoOut, BookUnborrow, UpdateBcount, db, Answer, WorkerType
  <2>2. b \in shelf /\ loc[w].bcount = bcount[b] /\ Bias(pc[w]) = 1
    BY <1>1, <2>1 DEF RowSteps, Outward, Bias
  <2>3. Lent(b)' = Lent(b)
    BY <2>1, SameRecords
  <2>4. CASE UpdateBcount(b, loc[w].bcount + -1)
    <3>1. bcount'[b] = bcount[b] - 1
      BY <1>0, <2>2, <2>4 DEF UpdateBcount, DbType
    <3> QED BY <1>0, <1>2, <1>3, <2>1, <2>2, <2>3, <3>1
  <2>5. CASE UNCHANGED bcount
    <3>1. b \in tightBooks'
      BY <2>1, <2>5 DEF LoanLeft, Moves
    <3>2. bcount[b] >= Lent(b) + 1
      BY <2>2 DEF Counted
    <3>3. bcount'[b] >= Lent(b)' + 0
      BY <1>0, <2>3, <2>5, <3>2
    <3> QED BY <1>3, <2>1, <2>2, <3>1, <3>3 DEF Counted
  <2> QED BY <2>1, <2>4, <2>5
<1>14. CASE BookIn(w)
  <2>1. pc[w] = "bookIn"
    BY <1>14 DEF BookIn
  <2>2. CASE Answer(w) /\ UNCHANGED db
    BY <1>5, <2>1, <2>2 DEF Inward, Outward, db
  <2>3. CASE /\ UpdateBcount(b, loc[w].bcount + -1)
             /\ Continue(w, "countOuts", [loc[w] EXCEPT !.bcount = @ + -1])
    <3>1. /\ pc'[w] = "countOuts" /\ req'[w] = req[w]
          /\ loc'[w].bcount = loc[w].bcount - 1 /\ loc'[w].count = loc[w].count
      BY <1>0, <2>3 DEF Continue, WorkerType, Loc
    <3>2. b \in shelf /\ loc[w].bcount = bcount[b] /\ loc[w].count = count[b]
      BY <1>1, <2>1 DEF RowSteps
    <3>3. UNCHANGED <<shelf, count, outs, ins>> /\ bcount'[b] = bcount[b] - 1
      BY <1>0, <2>3, <3>2 DEF UpdateBcount, DbType
    <3>4. FreshBook(w)'
      BY <1>0, <3>1, <3>2, <3>3 DEF FreshBook, B, Outward
    <3>5. Lent(b)' = Lent(b)
      BY <3>3, SameRecords
    <3>6. Bias(pc[w]) = 0 /\ Bias(pc'[w]) = -1
      BY <2>1, <3>1 DEF Bias, Outward, Inward
    <3> QED BY <1>0, <1>2, <3>2, <3>3, <3>4, <3>5, <3>6
  <2> QED BY <1>14, <2>2, <2>3 DEF BookIn, BookBorrow
<1>15. CASE CountOuts(w)
  <2>1. /\ UNCHANGED <<shelf, count, bcount, outs, ins>> /\ pc[w] = "countOuts"
        /\ pc'[w] = "countIns" /\ req'[w] = req[w]
        /\ loc'[w].bcount = loc[w].bcount /\ loc'[w].count = loc[w].count
    BY <1>0, <1>15 DEF CountOuts, Continue, db, WorkerType, Loc
  <2>2. Bias(pc'[w]) = Bias(pc[w]) /\ pc[w] \in RowSteps /\ pc'[w] \notin Outward
    BY <2>1 DEF Bias, RowSteps, Outward, Inward
  <2> QED BY <1>7, <2>1, <2>2
<1>16. CASE CountIns(w)
  <2>1. UNCHANGED <<shelf, count, bcount, outs, ins>> /\ pc[w] = "countIns"
    BY <1>16 DEF CountIns, db
  <2>2. CASE Continue(w, "userIn", [loc[w] EXCEPT !.num = @ + 1])
    <3>1. /\ pc'[w] = "userIn" /\ req'[w] = req[w]
          /\ loc'[w].bcount = loc[w].bcount /\ loc'[w].count = loc[w].count
      BY <1>0, <2>2 DEF Continue, WorkerType, Loc
    <3>2. Bias(pc'[w]) = Bias(pc[w]) /\ pc[w] \in RowSteps /\ pc'[w] \notin Outward
      BY <2>1, <3>1 DEF Bias, RowSteps, Outward, Inward
    <3> QED BY <1>7, <2>1, <3>1, <3>2
  <2>3. CASE Answer(w)
    <3>1. pc'[w] = "idle"
      BY <2>3 DEF Answer, WorkerType
    <3> QED BY <2>1, <3>1 DEF ReturnLeft, Moves
  <2> QED BY <1>16, <2>2, <2>3 DEF CountIns
<1>17. CASE LogIn(w)
  <2>1. UNCHANGED <<shelf, bcount>> /\ pc[w] = "logIn" /\ pc'[w] = "idle"
    BY <1>17 DEF LogIn, Answer, WorkerType
  <2>2. ins[<<u, b>>] < outs[<<u, b>>]
    BY <2>1 DEF Due, P
  <2>3. Lent(b)' = Lent(b) - 1
    BY <1>17, <2>2, LogInCounts
  <2>4. Bias(pc[w]) = -1 /\ b \in shelf
    BY <1>1, <2>1 DEF Bias, RowSteps, Outward, Inward
  <2> QED BY <1>0, <1>2, <1>3, <2>1, <2>3, <2>4
<1>18. CASE UndoIn(w)
  <2>1. /\ pc[w] = "undoIn" /\ pc'[w] = "idle" /\ UNCHANGED <<shelf, count, outs, ins>>
        /\ UpdateBcount(b, loc[w].bcount + 1) \/ UNCHANGED bcount
    BY <1>18 DEF UndoIn, BookUnborrow, UpdateBcount, db, Answer, WorkerType
  <2>2. b \in shelf /\ loc[w].bcount = bcount[b] /\ Bias(pc[w]) = -1
    BY <1>1, <2>1 DEF RowSteps, Outward, Inward, Bias
  <2>3. Lent(b)' = Lent(b)
    BY <2>1, SameRecords
  <2>4. CASE UpdateBcount(b, loc[w].bcount + 1)
    <3>1. bcount'[b] = bcount[b] + 1
      BY <1>0, <2>2, <2>4 DEF UpdateBcount, DbType
    <3> QED BY <1>0, <1>2, <1>3, <2>1, <2>2, <2>3, <3>1
  <2>5. CASE UNCHANGED bcount
    BY <2>1, <2>5 DEF ReturnLeft, Moves
  <2> QED BY <2>1, <2>4, <2>5
<1>19. CASE DeleteBook(w)
  <2> DEFINE n == req[w].number
  <2>1. /\ Answer(w) /\ pc[w] = "deleteBook" /\ pc'[w] = "idle"
        /\ UNCHANGED <<bcount, outs, ins>> /\ n \in Int
    BY <1>19, ReqFields DEF DeleteBook, db, Answer, WorkerType
  <2>2. /\ b \in shelf /\ loc[w].bcount = bcount[b] /\ loc[w].count = count[b]
        /\ Bias(pc[w]) = 0 /\ Lent(b)' = Lent(b)
    BY <1>1, <2>1, SameRecords DEF RowSteps, Bias, Outward, Inward
  <2>3. CASE shelf' = shelf
    BY <1>0, <1>2, <1>3, <2>1, <2>2, <2>3
  <2>4. CASE shelf' # shelf
    <3>1. /\ count[b] - bcount[b] >= n
          /\ count[b] - n = 0 /\ shelf' = shelf \ {b}
      BY <1>19, <2>2, <2>4 DEF DeleteBook, db
    <3>2. bcount[b] <= 0
      <4> HIDE DEF n
      <4> QED BY <1>0, <2>1, <3>1
    <3>3. Lent(b) = 0
      <4>1. bcount[b] >= Lent(b) + 0
        BY <2>2 DEF Counted
      <4> QED BY <1>0, <3>2, <4>1
    <3> QED BY <1>3, <2>1, <2>2, <3>1, <3>3 DEF Counted
  <2> QED BY <2>3, <2>4
<1>20. CASE SetBook(w)
  <2>1. /\ pc[w] = "setBook" /\ pc'[w] = "idle" /\ UNCHANGED <<shelf, outs, ins>>
        /\ \/ UNCHANGED bcount
           \/ bcount' = [bcount EXCEPT ![b] = loc[w].bcount]
    BY <1>20 DEF SetBook, db, Answer, WorkerType
  <2>2. /\ b \in shelf /\ loc[w].bcount = bcount[b]
        /\ Bias(pc[w]) = 0 /\ Lent(b)' = Lent(b)
    BY <1>1, <2>1, SameRecords DEF RowSteps, Bias, Outward, Inward
  <2>3. bcount'[b] = bcount[b]
    BY <2>1, <2>2 DEF DbType
  <2> QED BY <1>0, <1>2, <1>3, <2>1, <2>2, <2>3
<1>21. CASE SetUser(w)
  <2>1. /\ Answer(w) /\ pc[w] = "setUser"
        /\ UNCHANGED <<shelf, count, bcount, outs, ins>>
    BY <1>21 DEF SetUser, UpdateNum, db
  <2> QED BY <1>5, <2>1 DEF Inward, Outward
<1>22. CASE Throw(w)
  <2>1. UNCHANGED <<shelf, count, bcount, outs, ins>>
    BY <1>22 DEF Throw, db
  <2>2. \/ /\ pc[w] \in {"userOut", "logOut"} /\ pc'[w] = "undoOut"
           /\ req'[w] = req[w] /\ loc'[w] = loc[w]
        \/ /\ pc[w] \in {"userIn", "logIn"} /\ pc'[w] = "undoIn"
           /\ req'[w] = req[w] /\ loc'[w] = loc[w]
        \/ /\ pc[w] \notin {"userOut", "logOut", "userIn", "logIn"}
           /\ Answer(w)
    BY <1>22 DEF Throw, Continue, WorkerType
  <2>3. CASE req'[w] = req[w] /\ loc'[w] = loc[w] /\ ~Answer(w)
    <3>1. /\ Bias(pc'[w]) = Bias(pc[w]) /\ pc[w] \in RowSteps
          /\ pc'[w] \in Outward => pc[w] \in Outward
      BY <2>2, <2>3 DEF Bias, RowSteps, Outward, Inward
    <3> QED BY <1>7, <2>1, <2>3, <3>1
  <2>4. CASE Answer(w) /\ pc[w] \notin {"userOut", "logOut", "userIn", "logIn"}
    <3>1. pc'[w] = "idle"
      BY <2>4 DEF Answer, WorkerType
    <3>2. pc[w] \notin Inward
      BY <2>1, <2>4, <3>1 DEF ReturnLeft, Moves, Inward
    <3>3. CASE pc[w] = "undoOut"
      <4>1. b \in tightBooks'
        BY <2>1, <3>1, <3>3 DEF LoanLeft, Moves
      <4>2. b \in shelf /\ bcount[b] >= Lent(b) + 1
        <5>1. pc[w] \in RowSteps /\ Bias(pc[w]) = 1
          BY <3>3 DEF RowSteps, Outward, Bias
        <5> QED BY <1>1, <5>1 DEF Counted
      <4>3. bcount'[b] >= Lent(b)' + 0
        BY <1>0, <1>4, <2>1, <4>2
      <4> QED BY <1>3, <1>4, <2>1, <3>1, <4>1, <4>2, <4>3 DEF Counted
    <3>4. CASE pc[w] # "undoOut"
      BY <1>5, <2>1, <2>4, <3>2, <3>4 DEF Outward
    <3> QED BY <3>3, <3>4
  <2>5. CASE pc'[w] = "idle"
    BY <2>2, <2>4, <2>5
  <2>6. CASE pc'[w] # "idle"
    <3>1. ~Answer(w)
      BY <2>6 DEF Answer, WorkerType
    <3> QED BY <2>2, <2>3, <3>1
  <2> QED BY <2>5, <2>6
<1> QED
  BY <1>8, <1>9, <1>10, <1>11, <1>12, <1>13, <1>14, <1>15, <1>16, <1>17,
     <1>18, <1>19, <1>20, <1>21, <1>22 DEF Serve

LEMMA NextBook ==
  UsersInv /\ BookInv /\ [HNext]_hvars => BookInv'
<1> SUFFICES ASSUME TypeOK, DbType, WorkerType, StepsOfOp, Alone, RecordInv,
                    Countable(held), BookInv, [HNext]_hvars
             PROVE  BookInv'
  BY TypeSplit DEF UsersInv
<1>1. CASE UNCHANGED hvars
  <2>1. UNCHANGED vars /\ UNCHANGED history
    BY <1>1 DEF hvars, vars
  <2>2. \A b \in Books : Lent(b)' = Lent(b)
    BY <2>1, SameRecords DEF vars
  <2> QED BY <2>1, <2>2 DEF vars, history, BookInv, Counted, FreshBook, AtBook, B
<1>2. ASSUME Watch, NEW w \in Workers, Receive(w) PROVE BookInv'
  <2>1. UNCHANGED <<shelf, count, bcount, outs, ins, loc>> /\ pc[w] = "idle"
    BY <1>2 DEF Receive, db
  <2>2. \A b \in Books : Lent(b)' = Lent(b)
    BY <2>1, SameRecords
  <2>3. /\ \A v \in Workers : v # w => pc'[v] = pc[v] /\ req'[v] = req[v]
        /\ \/ pc'[w] = pc[w] /\ req'[w] = req[w]
           \/ pc'[w] \in {"getUserByID", "queryById"}
    BY <1>2 DEF Receive, WorkerType
  <2> SUFFICES ASSUME NEW b \in Books, b \notin looseBooks'
               PROVE  /\ (\A v \in Workers : ~AtBook(v, b)') => Counted(b, 0)'
                      /\ \A v \in Workers : AtBook(v, b)' =>
                           FreshBook(v)' /\ Counted(b, Bias(pc[v]))'
    BY DEF BookInv
  <2>4. b \notin looseBooks /\ ~TwoAtBook(b)' /\ (b \notin tightBooks' => b \notin tightBooks)
    BY <1>2, GoodRows
  <2>5. \A v \in Workers : v # w => (AtBook(v, b)' <=> AtBook(v, b))
    BY <2>3 DEF AtBook
  <2>6. ~AtBook(w, b)
    BY <2>1 DEF AtBook
  <2>7. CASE AtBook(w, b)'
    <3>1. \A v \in Workers : AtBook(v, b)' => v = w
      BY <2>4, <2>7 DEF TwoAtBook
    <3>2. \A v \in Workers : ~AtBook(v, b)
      BY <2>5, <2>6, <3>1
    <3>3. Counted(b, 0)
      BY <2>4, <3>2 DEF BookInv
    <3>4. pc'[w] \in {"getUserByID", "queryById"}
      BY <2>1, <2>3, <2>7 DEF AtBook
    <3>5. FreshBook(w)'
      BY <3>4 DEF FreshBook, RowSteps, Outward, Inward
    <3>6. Bias(pc'[w]) = 0
      BY <3>4 DEF Bias, Outward, Inward
    <3>7. Counted(b, Bias(pc[w]))'
      BY <2>1, <2>2, <2>4, <3>3, <3>6 DEF Counted
    <3> QED BY <2>7, <3>1, <3>5, <3>7
  <2>8. CASE ~AtBook(w, b)'
    <3>1. \A v \in Workers : AtBook(v, b)' <=> AtBook(v, b)
      BY <2>5, <2>6, <2>8
    <3>2. (\A v \in Workers : ~AtBook(v, b)) => Counted(b, 0)'
      BY <2>1, <2>2, <2>4 DEF BookInv, Counted
    <3>3. ASSUME NEW v \in Workers, AtBook(v, b)
          PROVE  FreshBook(v)' /\ Counted(b, Bias(pc[v]))'
      <4>1. v # w /\ FreshBook(v) /\ Counted(b, Bias(pc[v]))
        BY <2>4, <2>6, <3>3 DEF BookInv
      <4>2. pc'[v] = pc[v] /\ req'[v] = req[v]
        BY <2>3, <4>1
      <4>3. FreshBook(v)'
        BY <2>1, <4>1, <4>2 DEF FreshBook, B
      <4>4. Counted(b, Bias(pc[v]))'
        BY <2>1, <2>2, <2>4, <4>1, <4>2 DEF Counted
      <4> QED BY <4>3, <4>4
    <3> QED BY <3>1, <3>2, <3>3
  <2> QED BY <2>7, <2>8
<1>3. ASSUME Watch, NEW w \in Workers, Serve(w) PROVE BookInv'
  <2>1. DbType'
    BY <1>3, NextType DEF Next, TypeOK, DbType
  <2>2. /\ Countable(held)'
        /\ \A b \in Books : ~AtBook(w, b) =>
             /\ b \in shelf' <=> b \in shelf
             /\ count'[b] = count[b] /\ bcount'[b] = bcount[b] /\ Lent(b)' = Lent(b)
    BY <1>3, <2>1, RowFrame
  <2>3. /\ \A v \in Workers : v # w =>
               /\ pc'[v] = pc[v] /\ req'[v] = req[v] /\ loc'[v] = loc[v]
        /\ pc'[w] = "idle" \/ (pc[w] # "idle" /\ req'[w] = req[w])
    BY <1>3, ServeFrame
  <2>4. /\ \A v \in Workers : v # w => \A b : AtBook(v, b)' <=> AtBook(v, b)
        /\ \A b : AtBook(w, b)' => AtBook(w, b)
    BY <1>3, ServeAt
  <2> SUFFICES ASSUME NEW b \in Books, b \notin looseBooks'
               PROVE  /\ (\A v \in Workers : ~AtBook(v, b)') => Counted(b, 0)'
                      /\ \A v \in Workers : AtBook(v, b)' =>
                           FreshBook(v)' /\ Counted(b, Bias(pc[v]))'
    BY DEF BookInv
  <2>5. /\ b \notin looseBooks /\ ~TwoAtBook(b)' /\ ~TwoAtBook(b)
        /\ b \notin tightBooks' => b \notin tightBooks
    BY <1>3, GoodRows DEF Alone
  <2>6. CASE AtBook(w, b)
    <3>1. b = B(w)
      BY <2>6, RowsAt
    <3>2. PICK u \in Users : u = U(w)
      BY ReqFields
    <3>3. FreshBook(w) /\ Counted(b, Bias(pc[w]))
      BY <2>5, <2>6 DEF BookInv
    <3>4. ins[<<u, b>>] <= outs[<<u, b>>] /\ Due(w)
      BY <2>5, <3>1, <3>2 DEF RecordInv, ReturnsHaveLoans, Good
    <3>5. /\ ~ReturnLeft(w)
          /\ b \notin tightBooks' => b \notin tightBooks /\ ~LoanLeft(w)
      BY <1>3, <3>1, GoodRows
    <3>6. FreshBook(w)' /\ Counted(b, Bias(pc[w]))'
      BY <1>3, <2>1, <2>2, <3>1, <3>2, <3>3, <3>4, <3>5, OwnBook
    <3>7. \A v \in Workers : AtBook(v, b)' => v = w
      BY <2>4, <2>5, <2>6 DEF TwoAtBook
    <3>8. (\A v \in Workers : ~AtBook(v, b)') => Counted(b, 0)'
      <4> SUFFICES ASSUME ~AtBook(w, b)' PROVE Counted(b, 0)'
        OBVIOUS
      <4>1. pc'[w] = "idle"
        BY <2>3, <2>6 DEF AtBook
      <4>2. Bias(pc'[w]) = 0
        BY <4>1 DEF Bias, Outward, Inward
      <4> QED BY <3>6, <4>2 DEF Counted
    <3> QED BY <3>6, <3>7, <3>8
  <2>7. CASE ~AtBook(w, b)
    <3>1. \A v \in Workers : AtBook(v, b)' <=> AtBook(v, b)
      BY <2>4, <2>7
    <3>2. /\ b \in shelf' <=> b \in shelf
          /\ count'[b] = count[b] /\ bcount'[b] = bcount[b] /\ Lent(b)' = Lent(b)
      BY <2>2, <2>7
    <3>3. (\A v \in Workers : ~AtBook(v, b)) => Counted(b, 0)'
      BY <2>5, <3>2 DEF BookInv, Counted
    <3>4. ASSUME NEW v \in Workers, AtBook(v, b)
          PROVE  FreshBook(v)' /\ Counted(b, Bias(pc[v]))'
      <4>1. v # w /\ FreshBook(v) /\ Counted(b, Bias(pc[v])) /\ b = B(v)
        BY <2>5, <2>7, <3>4, RowsAt DEF BookInv
      <4>2. pc'[v] = pc[v] /\ req'[v] = req[v] /\ loc'[v] = loc[v]
        BY <2>3, <4>1
      <4>3. FreshBook(v)'
        BY <3>2, <4>1, <4>2 DEF FreshBook, B
      <4>4. Counted(b, Bias(pc[v]))'
        BY <2>5, <3>2, <4>1, <4>2 DEF Counted
      <4> QED BY <4>3, <4>4
    <3> QED BY <3>1, <3>3, <3>4
  <2> QED BY <2>6, <2>7
<1> QED BY <1>1, <1>2, <1>3 DEF HNext, Next

LEMMA InitBook == HInit => BookInv
<1> SUFFICES ASSUME HInit PROVE BookInv
  OBVIOUS
<1>1. \A w \in Workers, b \in Books : ~AtBook(w, b)
  BY DEF HInit, Init, AtBook
<1>2. \A b \in Books : Lent(b) = 0 /\ bcount[b] = 0 /\ b \in shelf
  BY NothingLent DEF HInit, Init
<1>3. \A b \in Books : Counted(b, 0)
  BY <1>2 DEF Counted
<1> QED BY <1>1, <1>3 DEF BookInv

(* What holds of every row in every state of a history.                    *)
HistoryInv == UsersInv /\ RowsLegal /\ LocLegal /\ BookInv

LEMMA HistoryInvariant ==
  /\ HInit => HistoryInv
  /\ HistoryInv /\ [HNext]_hvars => HistoryInv'
<1>1. HInit => HistoryInv
  BY UsersInvariant, InitRows, InitBook DEF HInit, HistoryInv
<1>2. [HNext]_hvars => [Next]_vars
  BY DEF HNext, hvars, vars
<1>3. HistoryInv /\ [HNext]_hvars => HistoryInv'
  BY <1>2, UsersInvariant, NextRows, NextBook DEF HistoryInv, UsersInv, RowsInv
<1> QED BY <1>1, <1>3

(* In every behaviour of the server, for any number of workers, sessions   *)
(* and librarians and whichever statements fail: between the requests      *)
(* about a book its bcount is the number of copies that the records show   *)
(* to be out, unless two requests were about this book at once or a return *)
(* of it was refused or broke off; and never less when only a borrowing    *)
(* broke off.                                                              *)
THEOREM BooksAreExact == HSpec => []BooksHold
<1>1. HistoryInv => BooksHold
  <2> SUFFICES ASSUME DbType, Countable(held), BookInv,
                      NEW b \in shelf, b \notin looseBooks,
                      \A w \in Workers : ~AtBook(w, b)
               PROVE  /\ bcount[b] >= Lent(b)
                      /\ b \notin tightBooks => bcount[b] = Lent(b)
    BY TypeSplit DEF HistoryInv, UsersInv, BooksHold
  <2>1. b \in Books
    BY DEF DbType
  <2>2. Counted(b, 0)
    BY <2>1 DEF BookInv
  <2>3. bcount[b] \in Int /\ Lent(b) \in Nat
    BY <2>1, HeldCounted DEF DbType
  <2> QED BY <2>2, <2>3 DEF Counted
<1> QED BY <1>1, HistoryInvariant, PTL DEF HSpec

(* A book whose row CBook::deleteBook has taken away is not on loan, under *)
(* the same conditions on that one book.                                   *)
THEOREM LoansKeepTheirBook == HSpec => []LoansHaveRows
<1>1. HistoryInv => LoansHaveRows
  <2> SUFFICES ASSUME BookInv, NEW b \in Books, b \notin shelf, b \notin looseBooks
               PROVE  Lent(b) = 0
    BY DEF HistoryInv, LoansHaveRows
  <2> QED BY DEF BookInv, Counted
<1> QED BY <1>1, HistoryInvariant, PTL DEF HSpec
-----------------------------------------------------------------------------
(* The statements and LoanLedger *)

LEMMA LedgerCounts ==
  /\ \A u : Ledger!HeldBy(u) = HeldBy(u)
  /\ \A b : Ledger!Lent(b) = Lent(b)
BY DEF Ledger!HeldBy, Ledger!Lent, Ledger!OnLoan, HeldBy, Lent, OnLoan,
       Ledger!Cardinality, Cardinality

(* The rows that w works with are not disputed.                            *)
OnGoodRows(w) == /\ AtUser(w, U(w)) => U(w) \notin looseUsers
                 /\ AtBook(w, B(w)) => B(w) \notin looseBooks

(* Four statements write what the ledger shows.                            *)
LEMMA OtherStatements ==
  ASSUME NEW w \in Workers, Serve(w),
         ~LogOut(w), ~LogIn(w), ~DeleteBook(w), ~SetBook(w)
  PROVE  UNCHANGED <<shelf, count, outs, ins>>
<1>1. CASE BookOut(w) \/ BookIn(w) \/ UndoOut(w) \/ UndoIn(w)
  BY <1>1 DEF BookOut, BookIn, UndoOut, UndoIn, BookBorrow, BookUnborrow,
              UpdateBcount, db
<1>2. CASE GetUserByID(w) \/ QueryById(w) \/ CountOuts(w) \/ CountIns(w) \/ Throw(w)
  BY <1>2 DEF GetUserByID, QueryById, CountOuts, CountIns, Throw, db
<1>3. CASE UserOut(w) \/ UserIn(w) \/ SetUser(w)
  BY <1>3 DEF UserOut, UserIn, SetUser, UpdateNum, db
<1> QED BY <1>1, <1>2, <1>3 DEF Serve

(* The record of a loan is the ledger's loan: the allowance and the copy   *)
(* that were read, and changed, two statements earlier are still there.    *)
LEMMA LogOutLends ==
  ASSUME DbType, WorkerType, StepsOfOp, RowsLegal, Countable(held), UserInv, BookInv,
         NEW w \in Workers, NEW u \in Users, NEW b \in Books, u = U(w), b = B(w),
         OnGoodRows(w), LogOut(w)
  PROVE  Ledger!Lend(u, b)
<1>1. /\ pc[w] = "logOut" /\ UNCHANGED <<shelf, count, ins>>
      /\ outs' = [outs EXCEPT ![<<u, b>>] = @ + 1]
  BY DEF LogOut
<1>2. /\ AtUser(w, u) /\ AtBook(w, b)
      /\ u \notin looseUsers /\ b \notin looseBooks
  BY <1>1, RowsAt DEF OnGoodRows, LoanSteps, OutSteps
<1>3. owed' = [owed EXCEPT ![<<u, b>>] = @ + 1]
  <2>1. \A p \in Users \X Books : outs[p] \in Nat /\ ins[p] \in Nat
    BY DEF DbType
  <2>2. \A p \in Users \X Books :
          outs'[p] - ins'[p] = IF p = <<u, b>> THEN (outs[p] - ins[p]) + 1
                               ELSE outs[p] - ins[p]
    BY <1>1, <2>1 DEF DbType
  <2>3. \A p \in Users \X Books :
          owed'[p] = IF p = <<u, b>> THEN owed[p] + 1 ELSE owed[p]
    BY <2>2 DEF owed
  <2>4. /\ owed' = [p \in Users \X Books |-> owed'[p]]
        /\ owed = [p \in Users \X Books |-> owed[p]]
    BY DEF owed
  <2> QED BY ONLY <2>3, <2>4
<1>4. /\ HeldBy(u) \in Nat /\ Lent(b) \in Nat /\ BorrowLimit \in Nat
      /\ num[u] \in Int /\ bcount[b] \in Int /\ count[b] \in Int
  BY HeldCounted, CirculationAssumption DEF DbType
<1>5. HeldBy(u) < BorrowLimit
  <2>1. num[u] + HeldBy(u) - (-1) <= BorrowLimit
    BY <1>1, <1>2 DEF UserInv, Account, Ahead
  <2>2. num[u] >= 0
    BY DEF RowsLegal
  <2> QED BY <1>4, <2>1, <2>2
<1>6. Lent(b) < Copies[b]
  <2>1. b \in shelf /\ bcount[b] <= count[b]
    BY <1>1, <1>2 DEF BookInv, FreshBook, RowSteps, Outward
  <2>2. bcount[b] >= Lent(b) + 1
    BY <1>1, <1>2, <2>1 DEF BookInv, Counted, Bias, Outward
  <2> QED BY <1>4, <2>1, <2>2 DEF Copies
<1> QED BY <1>1, <1>3, <1>5, <1>6, LedgerCounts DEF Ledger!Lend, Copies

LEMMA LogInTakesBack ==
  ASSUME DbType, WorkerType, StepsOfOp, RecordInv,
         NEW w \in Workers, NEW u \in Users, NEW b \in Books, u = U(w), b = B(w),
         OnGoodRows(w), LogIn(w)
  PROVE  Ledger!TakeBack(u, b)
<1>1. /\ pc[w] = "logIn" /\ UNCHANGED <<shelf, count, outs>>
      /\ ins' = [ins EXCEPT ![<<u, b>>] = @ + 1]
  BY DEF LogIn
<1>2. ins[<<u, b>>] < outs[<<u, b>>]
  <2>1. AtUser(w, u) /\ u \notin looseUsers
    BY <1>1, RowsAt DEF OnGoodRows, LoanSteps, ReturnSteps
  <2> QED BY <1>1, <2>1 DEF RecordInv, ReturnsHaveLoans, Good, Due, P
<1>3. \A p \in Users \X Books : outs[p] \in Nat /\ ins[p] \in Nat
  BY DEF DbType
<1>4. owed[<<u, b>>] > 0
  BY <1>2, <1>3 DEF owed
<1>5. owed' = [owed EXCEPT ![<<u, b>>] = @ - 1]
  <2>1. \A p \in Users \X Books :
          outs'[p] - ins'[p] = IF p = <<u, b>> THEN (outs[p] - ins[p]) - 1
                               ELSE outs[p] - ins[p]
    BY <1>1, <1>3 DEF DbType
  <2>2. \A p \in Users \X Books :
          owed'[p] = IF p = <<u, b>> THEN owed[p] - 1 ELSE owed[p]
    BY <2>1 DEF owed
  <2>3. /\ owed' = [p \in Users \X Books |-> owed'[p]]
        /\ owed = [p \in Users \X Books |-> owed[p]]
    BY DEF owed
  <2> QED BY ONLY <2>2, <2>3
<1> QED BY <1>1, <1>4, <1>5 DEF Ledger!TakeBack, Copies

(* The copies that a librarian writes off are in the house.                *)
LEMMA DeleteBookDiscards ==
  ASSUME DbType, WorkerType, StepsOfOp, RowsLegal, Countable(held), BookInv,
         NEW w \in Workers, NEW b \in Books, b = B(w),
         OnGoodRows(w), DeleteBook(w)
  PROVE  \/ UNCHANGED <<owed, Copies>>
         \/ \E n \in Numbers : Ledger!Discard(b, n)
<1> DEFINE n == req[w].number
<1>1. pc[w] = "deleteBook" /\ owed' = owed
  BY DEF DeleteBook, db, owed
<1>2. CASE UNCHANGED <<shelf, count>>
  BY <1>1, <1>2 DEF Copies
<1>3. CASE ~UNCHANGED <<shelf, count>>
  <2>0. AtBook(w, b) /\ b \notin looseBooks
    BY <1>1, RowsAt DEF OnGoodRows
  <2>1. /\ b \in shelf /\ loc[w].bcount = bcount[b] /\ loc[w].count = count[b]
        /\ Counted(b, 0)
    BY <1>1, <2>0 DEF BookInv, FreshBook, RowSteps, Bias, Outward, Inward
  <2>2. /\ Lent(b) \in Nat /\ bcount[b] \in Int /\ count[b] \in Int /\ n \in Int
        /\ count \in [Books -> Int] /\ shelf \subseteq Books
    BY <2>1, HeldCounted, ReqFields DEF DbType
  <2>3. bcount[b] >= Lent(b)
    BY <2>1, <2>2 DEF Counted
  <2>4. count[b] >= 1
    BY <2>1 DEF RowsLegal
  <2>5. /\ count[b] - bcount[b] >= n
        /\ \/ count[b] - n = 0 /\ shelf' = shelf \ {b} /\ count' = count
           \/ count' = [count EXCEPT ![b] = count[b] - n] /\ shelf' = shelf
    BY <1>3, <2>1 DEF DeleteBook, db
  <2> HIDE DEF n
  <2>6. Copies[b] = count[b] /\ n <= Copies[b] - Lent(b)
    BY <2>1, <2>2, <2>3, <2>5 DEF Copies
  <2>7. Copies' = [Copies EXCEPT ![b] = @ - n]
    BY <2>1, <2>2, <2>5 DEF Copies
  <2>8. n # 0
    BY <1>3, <2>2, <2>4, <2>5
  <2>9. PICK m \in Numbers : m = n
    BY <2>8 DEF n, WorkerType, Request
  <2>10. Ledger!Discard(b, m)
    <3>1. Copies[b] > 0 /\ owed' = owed
      BY <1>1, <2>2, <2>4, <2>6
    <3> QED BY <2>6, <2>7, <2>9, <3>1, LedgerCounts DEF Ledger!Discard, Copies
  <2> QED BY <2>9, <2>10
<1> QED BY <1>2, <1>3

LEMMA SetBookRecounts ==
  ASSUME DbType, WorkerType, RowsLegal,
         NEW w \in Workers, NEW b \in Books, b = B(w), SetBook(w)
  PROVE  \/ UNCHANGED <<owed, Copies>>
         \/ \E n \in Numbers : Ledger!Recount(b, n)
<1> DEFINE n == req[w].number
<1>1. owed' = owed /\ shelf' = shelf
  BY DEF SetBook, db, owed
<1>2. CASE UNCHANGED count
  BY <1>1, <1>2 DEF Copies
<1>3. CASE ~UNCHANGED count
  <2>1. n >= 1 /\ b \in shelf /\ count' = [count EXCEPT ![b] = n]
    BY <1>3 DEF SetBook, db
  <2>2. n \in Int /\ count \in [Books -> Int] /\ count[b] >= 1
    BY <2>1, ReqFields DEF DbType, RowsLegal
  <2> HIDE DEF n
  <2>3. Copies[b] > 0
    BY <2>1, <2>2 DEF Copies
  <2>4. PICK m \in Numbers : m = n
    BY <2>1, <2>2 DEF n, WorkerType, Request
  <2>5. Copies' = [Copies EXCEPT ![b] = m]
    BY <1>1, <2>1, <2>2, <2>4 DEF Copies
  <2>6. Ledger!Recount(b, m)
    BY <1>1, <2>1, <2>2, <2>3, <2>4, <2>5 DEF Ledger!Recount, Copies
  <2> QED BY <2>4, <2>6
<1> QED BY <1>2, <1>3

(* What the ledger allows when no dispute arises.                          *)
Entry == \/ \E u \in Users, b \in Books   : Ledger!Lend(u, b) \/ Ledger!TakeBack(u, b)
         \/ \E b \in Books, n \in Numbers : Ledger!Discard(b, n) \/ Ledger!Recount(b, n)
         \/ Ledger!Muddle
         \/ UNCHANGED <<owed, Copies>>

(* A statement on good rows is an entry of the ledger, whatever the other  *)
(* workers do at the same time.                                            *)
LEMMA GoodEntry ==
  ASSUME HistoryInv, NEW w \in Workers, Serve(w), OnGoodRows(w)
  PROVE  Entry
<1> USE TypeSplit DEF HistoryInv, UsersInv
<1>1. PICK u \in Users : u = U(w)
  BY ReqFields
<1>2. PICK b \in Books : b = B(w)
  BY ReqFields
<1>3. CASE UNCHANGED <<shelf, count, outs, ins>>
  BY <1>3 DEF Entry, owed, Copies
<1>4. CASE LogOut(w)
  BY <1>1, <1>2, <1>4, LogOutLends DEF Entry
<1>5. CASE LogIn(w)
  BY <1>1, <1>2, <1>5, LogInTakesBack DEF Entry
<1>6. CASE DeleteBook(w)
  BY <1>2, <1>6, DeleteBookDiscards DEF Entry
<1>7. CASE SetBook(w)
  BY <1>2, <1>7, SetBookRecounts DEF Entry
<1> QED BY <1>3, <1>4, <1>5, <1>6, <1>7, OtherStatements

(* A statement on a disputed row touches no other row's loans and copies.  *)
LEMMA DisputedEntry ==
  ASSUME DbType, WorkerType, StepsOfOp, NEW w \in Workers, Serve(w), ~OnGoodRows(w)
  PROVE  Ledger!Muddle
<1>1. \/ AtUser(w, U(w)) /\ U(w) \in looseUsers
      \/ AtBook(w, B(w)) /\ B(w) \in looseBooks
  BY DEF OnGoodRows
<1>2. U(w) \in Users /\ B(w) \in Books
  BY ReqFields
<1>3. ASSUME NEW u \in Users \ looseUsers, NEW b \in Books \ looseBooks
      PROVE  owed'[<<u, b>>] = owed[<<u, b>>]
  <2>1. <<u, b>> # <<U(w), B(w)>>
    BY <1>1
  <2>2. outs'[<<u, b>>] = outs[<<u, b>>] /\ ins'[<<u, b>>] = ins[<<u, b>>]
    <3>1. CASE LogOut(w)
      BY <2>1, <3>1 DEF LogOut, DbType
    <3>2. CASE LogIn(w)
      BY <2>1, <3>2 DEF LogIn, DbType
    <3>3. CASE DeleteBook(w) \/ SetBook(w)
      BY <3>3 DEF DeleteBook, SetBook, db
    <3> QED BY <3>1, <3>2, <3>3, OtherStatements
  <2> QED BY <2>2 DEF owed
<1>4. ASSUME NEW b \in Books \ looseBooks
      PROVE  Copies'[b] = Copies[b]
  <2>1. CASE DeleteBook(w) \/ SetBook(w)
    <3>1. B(w) \in looseBooks
      BY <1>1, <2>1 DEF DeleteBook, SetBook, AtUser, StepsOfOp, LoanOps
    <3>2. (b \in shelf' <=> b \in shelf) /\ count'[b] = count[b]
      BY <2>1, <3>1 DEF DeleteBook, SetBook, db, DbType
    <3> QED BY <3>2 DEF Copies
  <2>2. CASE ~DeleteBook(w) /\ ~SetBook(w)
    <3>1. UNCHANGED <<shelf, count>>
      BY <2>2, OtherStatements DEF LogOut, LogIn
    <3> QED BY <3>1 DEF Copies
  <2> QED BY <2>1, <2>2
<1> QED BY <1>3, <1>4 DEF Ledger!Muddle

LEMMA NextLedger ==
  HistoryInv /\ [HNext]_hvars => [Ledger!Next]_(Ledger!ledgerVars)
<1> SUFFICES ASSUME HistoryInv, [HNext]_hvars
             PROVE  [Ledger!Next]_(Ledger!ledgerVars)
  OBVIOUS
<1> USE TypeSplit DEF HistoryInv, UsersInv
<1>1. CASE UNCHANGED hvars
  BY <1>1 DEF hvars, history, Ledger!ledgerVars, owed, Copies
<1>2. CASE HNext
  <2>1. looseUsers \subseteq looseUsers' /\ looseBooks \subseteq looseBooks'
    BY <1>2 DEF HNext, Watch
  <2>2. Entry
    <3>1. ASSUME NEW w \in Workers, Receive(w) PROVE Entry
      BY <3>1 DEF Receive, db, Entry, owed, Copies
    <3>2. ASSUME NEW w \in Workers, Serve(w) PROVE Entry
      BY <3>2, GoodEntry, DisputedEntry DEF Entry
    <3> QED BY <1>2, <3>1, <3>2 DEF HNext, Next
  <2> QED BY <2>1, <2>2 DEF Entry, Ledger!Next
<1> QED BY <1>1, <1>2

LEMMA InitLedger == HInit => Ledger!Init
<1> SUFFICES ASSUME HInit PROVE Ledger!Init
  OBVIOUS
<1>1. owed = [p \in Users \X Books |-> 0]
  BY DEF HInit, Init, owed
<1>2. Copies \in [Books -> Nat \ {0}]
  <2>1. \A b \in Books : Copies[b] \in InitialCopies
    BY DEF HInit, Init, Copies
  <2>2. \A b \in Books : Copies[b] \in Nat \ {0}
    BY <2>1, CirculationAssumption
  <2> QED BY <2>2 DEF Copies
<1> QED BY <1>1, <1>2 DEF HInit, Ledger!Init

(* The server refines LoanLedger in every behaviour, for any number of     *)
(* workers, sessions and librarians and whichever statements fail: no loan *)
(* above the limit or of a copy that is not there, no return of what is    *)
(* not held and no copy written off that is out, as far as it concerns     *)
(* readers and books whose rows have been spared two requests at once and  *)
(* broken off returns, whatever goes on at the other rows meanwhile.       *)
THEOREM CirculationImplementsLedger == HSpec => LedgerSpec
<1>1. HistoryInv /\ [HNext]_hvars => [Ledger!Next]_(Ledger!ledgerVars)
  BY NextLedger
<1> QED BY <1>1, InitLedger, HistoryInvariant, PTL DEF HSpec, LedgerSpec, Ledger!Spec
=============================================================================

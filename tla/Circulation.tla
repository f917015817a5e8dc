----------------------------- MODULE Circulation -----------------------------
(***************************************************************************)
(* The circulation of books in LiBrotherServer: the requests that read and *)
(* write BookInfoDatabase, UserInfoDatabase and BorrowDatabase.            *)
(*                                                                         *)
(* A worker thread of the network server takes one request of a session    *)
(* (CSessionManager holds the session's mutex meanwhile) and serves it as  *)
(* a series of separate SQL statements: SELECT the user's row, SELECT the  *)
(* book's row, check the copies held in CUser::m_CUBI and CBook::m_CBBI,   *)
(* then UPDATE with values computed from those copies.  There is no        *)
(* transaction, so one action below is one statement together with the     *)
(* code up to the next one, and the workers interleave between statements. *)
(***************************************************************************)
EXTENDS Integers, FiniteSets

CONSTANTS
  Workers,       \* the worker threads of CNetServer
  Sessions,      \* the sessions that are logged in
  Users,         \* the rows of UserInfoDatabase
  Books,         \* the rows of BookInfoDatabase at the start
  UserOf,        \* UserOf[s]: the user_id of session s
  LevelOf,       \* LevelOf[s]: the current_auth_level of session s
  BorrowLimit,   \* nDefaultBorrowLimit
  InitialCopies, \* the values `count' may have at the start
  Numbers,       \* the integers a librarian's request may carry
  Budget,        \* Budget[s]: how many requests session s sends at most
  Faulty,        \* the statements (values of pc) that may throw SQLException
  OwedOnly       \* TRUE: a return is sent only for a book the user holds, as
                 \* the client's window offers it (usermain.cpp)

ASSUME CirculationAssumption ==
  /\ Sessions # {} /\ Books # {}
  /\ UserOf \in [Sessions -> Users]
  /\ LevelOf \in [Sessions -> 0 .. 2]
  /\ BorrowLimit \in Nat
  /\ InitialCopies \subseteq Nat \ {0}
  /\ Numbers \subseteq Int
  /\ Budget \in [Sessions -> Nat]
  /\ OwedOnly \in BOOLEAN

VARIABLES
  shelf,   \* the books that have a row in BookInfoDatabase
  count,   \* column count of BookInfoDatabase
  bcount,  \* column bcount of BookInfoDatabase
  num,     \* column num of UserInfoDatabase
  outs,    \* outs[<<u, b>>]: rows of BorrowDatabase with flag 0 (lent)
  ins,     \* ins[<<u, b>>]: rows of BorrowDatabase with flag 1 (returned)
  pc,      \* pc[w]: the statement worker w executes next
  req,     \* req[w]: the request w serves
  loc,     \* loc[w]: the copies of row values that w works with
  left     \* left[s]: the requests session s has still to send

db   == <<shelf, count, bcount, num, outs, ins>>
vars == <<shelf, count, bcount, num, outs, ins, pc, req, loc, left>>

-----------------------------------------------------------------------------
(* Requests and authorisation *)

(* g_configPolicy.vAuthList as loadDefaultConfig fills it: the flags of    *)
(* TAuthorization that the requests of this module ask for.                *)
vAuthList(level) ==
  {"auth_BorrowBook"}
    \union (IF level >= 1 THEN {"auth_SetBookInfo", "auth_DeleteBook"} ELSE {})
    \union (IF level = 2 THEN {"auth_SetUserInfo"} ELSE {})

Ops == {"user_borrowBook", "user_returnBook", "book_deleteBook",
        "book_setBasicInfo", "user_setBasicInfo"}

(* What a request carries; a field that its handler does not read is not   *)
(* looked at below either.                                                 *)
Request == [sess : Sessions, op : Ops, user : Users, book : Books,
            number : Numbers \union {0}]

(* The test at the head of each handler in CSession::recvRequest.          *)
Permitted(r) ==
  LET auth == vAuthList(LevelOf[r.sess]) IN
  CASE r.op \in {"user_borrowBook", "user_returnBook"} ->
         r.user = UserOf[r.sess] /\ "auth_BorrowBook" \in auth
    [] r.op = "book_deleteBook"   -> "auth_DeleteBook" \in auth
    [] r.op = "book_setBasicInfo" -> "auth_SetBookInfo" \in auth
    [] r.op = "user_setBasicInfo" ->
         r.user = UserOf[r.sess] \/ "auth_SetUserInfo" \in auth

(* The requests the clients send: fields a handler ignores have one value. *)
Sendable ==
  LET anyBook == CHOOSE b \in Books : TRUE
      R(s, op, u, b, n) ==
        [sess |-> s, op |-> op, user |-> u, book |-> b, number |-> n]
  IN UNION {
       {R(s, op, u, b, 0) : op \in {"user_borrowBook", "user_returnBook"},
                            u \in Users, b \in Books}
       \union {R(s, op, UserOf[s], b, n) :
                 op \in {"book_deleteBook", "book_setBasicInfo"},
                 b \in Books, n \in Numbers}
       \union {R(s, "user_setBasicInfo", u, anyBook, 0) : u \in Users}
       : s \in Sessions}

(* The copies of b that u has borrowed and not returned, by the records.   *)
Owed(u, b) == outs[<<u, b>>] - ins[<<u, b>>]

Offered(r) == OwedOnly /\ r.op = "user_returnBook" => Owed(r.user, r.book) > 0

-----------------------------------------------------------------------------
(* Initial states *)

(* What req and loc hold for a worker without a request.                   *)
NoReq == CHOOSE r \in Sendable : TRUE
NoLoc == [num |-> 0, count |-> 0, bcount |-> 0, num0 |-> 0]

Init == /\ shelf  = Books
        /\ count \in [Books -> InitialCopies]
        /\ bcount = [b \in Books |-> 0]
        /\ num    = [u \in Users |-> BorrowLimit]
        /\ outs   = [p \in Users \X Books |-> 0]
        /\ ins    = [p \in Users \X Books |-> 0]
        /\ pc     = [w \in Workers |-> "idle"]
        /\ req    = [w \in Workers |-> NoReq]
        /\ loc    = [w \in Workers |-> NoLoc]
        /\ left   = Budget

-----------------------------------------------------------------------------
(* Receiving a request and answering it *)

InService(s) == \E w \in Workers : pc[w] # "idle" /\ req[w].sess = s

(* CSessionManager::recvRequest hands a request to the session once its    *)
(* mutex is free; a request without permission is answered at once.        *)
Receive(w) ==
  /\ pc[w] = "idle"
  /\ \E r \in Sendable :
       /\ left[r.sess] > 0
       /\ ~InService(r.sess)
       /\ Offered(r)
       /\ left' = [left EXCEPT ![r.sess] = @ - 1]
       /\ IF Permitted(r)
          THEN /\ pc'  = [pc EXCEPT ![w] =
                            IF r.op \in {"book_deleteBook", "book_setBasicInfo"}
                            THEN "queryById" ELSE "getUserByID"]
               /\ req' = [req EXCEPT ![w] = r]
          ELSE UNCHANGED <<pc, req>>
  /\ UNCHANGED <<db, loc>>

(* The answer is sent and the objects made for the request are released.   *)
Answer(w) ==
  /\ pc'  = [pc EXCEPT ![w] = "idle"]
  /\ req' = [req EXCEPT ![w] = NoReq]
  /\ loc' = [loc EXCEPT ![w] = NoLoc]
  /\ UNCHANGED left

(* On to the next statement, with the row values l.                        *)
Continue(w, next, l) ==
  /\ pc'  = [pc EXCEPT ![w] = next]
  /\ loc' = [loc EXCEPT ![w] = l]
  /\ UNCHANGED <<req, left>>

(* The rows one worker's request is about.                                 *)
U(w) == req[w].user
B(w) == req[w].book

(* UPDATE BookInfoDatabase SET bcount = v WHERE id = b: without a row with *)
(* this id the statement succeeds and changes nothing.                     *)
UpdateBcount(b, v) ==
  /\ bcount' = IF b \in shelf THEN [bcount EXCEPT ![b] = v] ELSE bcount
  /\ UNCHANGED <<shelf, count, num, outs, ins>>

UpdateNum(u, v) ==
  /\ num' = [num EXCEPT ![u] = v]
  /\ UNCHANGED <<shelf, count, bcount, outs, ins>>

-----------------------------------------------------------------------------
(* Reading the rows *)

(* CManager::getUserByID, the SELECT and the copy into CUser::m_CUBI.      *)
GetUserByID(w) ==
  /\ pc[w] = "getUserByID"
  /\ Continue(w, IF req[w].op = "user_setBasicInfo" THEN "setUser" ELSE "queryById",
              [loc[w] EXCEPT !.num = num[U(w)]])
  /\ UNCHANGED db

(* CLibrary::queryById: without a row the request fails; with one,         *)
(* readBookInfo copies it into CBook::m_CBBI.                              *)
QueryById(w) ==
  /\ pc[w] = "queryById"
  /\ IF B(w) \in shelf
     THEN Continue(w, CASE req[w].op = "user_borrowBook"   -> "bookOut"
                        [] req[w].op = "user_returnBook"   -> "bookIn"
                        [] req[w].op = "book_deleteBook"   -> "deleteBook"
                        [] OTHER                           -> "setBook",
                   [loc[w] EXCEPT !.count = count[B(w)], !.bcount = bcount[B(w)]])
     ELSE Answer(w)
  /\ UNCHANGED db

-----------------------------------------------------------------------------
(* CBook::borrow(number): the check on the copies and the UPDATE.          *)

(* Wrong on purpose: one copy more than there is.                          *)
CanBorrowOneMore(l, number) ==
  l.bcount + number >= 0 /\ l.bcount + number <= l.count + 1

CanBorrow(l, number) == l.bcount + number >= 0 /\ l.bcount + number <= l.count

BookBorrow(w, number, next, l) ==
  \/ /\ CanBorrow(l, number)
     /\ UpdateBcount(B(w), l.bcount + number)
     /\ Continue(w, next, [l EXCEPT !.bcount = @ + number])
  \/ /\ ~CanBorrow(l, number)
     /\ Answer(w)
     /\ UNCHANGED db

(* The call in a catch block, whose result is ignored.                     *)
BookUnborrow(w, number) ==
  /\ \/ /\ CanBorrow(loc[w], number)
        /\ UpdateBcount(B(w), loc[w].bcount + number)
     \/ /\ ~CanBorrow(loc[w], number)
        /\ UNCHANGED db
  /\ Answer(w)

-----------------------------------------------------------------------------
(* CUser::borrowBook *)

(* Wrong on purpose: the allowance is not looked at.                       *)
BookOutUnlimited(w) ==
  /\ pc[w] = "bookOut"
  /\ BookBorrow(w, 1, "userOut", [loc[w] EXCEPT !.num = @ - 1])

(* Wrong on purpose: the allowance is not counted down.                    *)
BookOutFree(w) ==
  /\ pc[w] = "bookOut"
  /\ \/ /\ loc[w].num = 0
        /\ Answer(w)
        /\ UNCHANGED db
     \/ /\ loc[w].num # 0
        /\ BookBorrow(w, 1, "userOut", loc[w])

(* A user who may borrow no more is refused; num is counted down in the    *)
(* copy and the copy out is counted in the book's row.                     *)
BookOut(w) ==
  /\ pc[w] = "bookOut"
  /\ \/ /\ loc[w].num = 0
        /\ Answer(w)
        /\ UNCHANGED db
     \/ /\ loc[w].num # 0
        /\ BookBorrow(w, 1, "userOut", [loc[w] EXCEPT !.num = @ - 1])

(* UPDATE UserInfoDatabase SET num.                                        *)
UserOut(w) ==
  /\ pc[w] = "userOut"
  /\ UpdateNum(U(w), loc[w].num)
  /\ Continue(w, "logOut", loc[w])

(* Wrong on purpose: a loan takes a record away.                           *)
LogOutRemoves(w) ==
  /\ pc[w] = "logOut"
  /\ outs' = [outs EXCEPT ![<<U(w), B(w)>>] = @ - 1]
  /\ Answer(w)
  /\ UNCHANGED <<shelf, count, bcount, num, ins>>

(* INSERT INTO BorrowDatabase ... flag 0, and success is answered.         *)
LogOut(w) ==
  /\ pc[w] = "logOut"
  /\ outs' = [outs EXCEPT ![<<U(w), B(w)>>] = @ + 1]
  /\ Answer(w)
  /\ UNCHANGED <<shelf, count, bcount, num, ins>>

(* The catch block: borrow(-1).  The user's row is left as it is.          *)
UndoOut(w) ==
  /\ pc[w] = "undoOut"
  /\ BookUnborrow(w, -1)

-----------------------------------------------------------------------------
(* CUser::returnBook *)

(* The book's row is counted down before anything is known of the loan.    *)
BookIn(w) ==
  /\ pc[w] = "bookIn"
  /\ BookBorrow(w, -1, "countOuts", loc[w])

(* SELECT ... flag = 0 *)
CountOuts(w) ==
  /\ pc[w] = "countOuts"
  /\ Continue(w, "countIns", [loc[w] EXCEPT !.num0 = outs[<<U(w), B(w)>>]])
  /\ UNCHANGED db

(* Wrong on purpose: >= for >.                                             *)
CountInsOffByOne(w) ==
  /\ pc[w] = "countIns"
  /\ IF loc[w].num0 >= ins[<<U(w), B(w)>>]
     THEN Continue(w, "userIn", [loc[w] EXCEPT !.num = @ + 1])
     ELSE Answer(w)
  /\ UNCHANGED db

(* SELECT ... flag = 1, and the comparison: a book that is not owed is     *)
(* refused, and the row of the book stays counted down.                    *)
CountIns(w) ==
  /\ pc[w] = "countIns"
  /\ IF loc[w].num0 > ins[<<U(w), B(w)>>]
     THEN Continue(w, "userIn", [loc[w] EXCEPT !.num = @ + 1])
     ELSE Answer(w)
  /\ UNCHANGED db

UserIn(w) ==
  /\ pc[w] = "userIn"
  /\ UpdateNum(U(w), loc[w].num)
  /\ Continue(w, "logIn", loc[w])

LogIn(w) ==
  /\ pc[w] = "logIn"
  /\ ins' = [ins EXCEPT ![<<U(w), B(w)>>] = @ + 1]
  /\ Answer(w)
  /\ UNCHANGED <<shelf, count, bcount, num, outs>>

(* The catch block: borrow(1).  The user's row is left as it is.           *)
UndoIn(w) ==
  /\ pc[w] = "undoIn"
  /\ BookUnborrow(w, 1)

-----------------------------------------------------------------------------
(* The librarian's requests *)

(* Wrong on purpose: copies that are out may be written off as well.       *)
DeleteBookLent(w) ==
  LET c == loc[w].count - req[w].number IN
  /\ pc[w] = "deleteBook"
  /\ Answer(w)
  /\ IF c = 0
     THEN /\ shelf' = shelf \ {B(w)}
          /\ UNCHANGED count
     ELSE /\ count' = IF B(w) \in shelf THEN [count EXCEPT ![B(w)] = c] ELSE count
          /\ UNCHANGED shelf
  /\ UNCHANGED <<bcount, num, outs, ins>>

(* CBook::deleteBook(number): write off copies, delete the row at zero.    *)
DeleteBook(w) ==
  LET number == req[w].number
      c      == loc[w].count - number IN
  /\ pc[w] = "deleteBook"
  /\ Answer(w)
  /\ \/ /\ loc[w].count - loc[w].bcount < number
        /\ UNCHANGED db
     \/ /\ loc[w].count - loc[w].bcount >= number
        /\ IF c = 0
           THEN /\ shelf' = shelf \ {B(w)}
                /\ UNCHANGED count
           ELSE /\ count' = IF B(w) \in shelf THEN [count EXCEPT ![B(w)] = c] ELSE count
                /\ UNCHANGED shelf
        /\ UNCHANGED <<bcount, num, outs, ins>>

(* book_setBasicInfo: the request's count replaces the copy's, and         *)
(* CBook::setBasicInfo writes the whole row, the old bcount included.      *)
SetBook(w) ==
  /\ pc[w] = "setBook"
  /\ Answer(w)
  /\ \/ /\ req[w].number < 1
        /\ UNCHANGED db
     \/ /\ req[w].number >= 1
        /\ IF B(w) \in shelf
           THEN /\ count'  = [count EXCEPT ![B(w)] = req[w].number]
                /\ bcount' = [bcount EXCEPT ![B(w)] = loc[w].bcount]
           ELSE UNCHANGED <<count, bcount>>
        /\ UNCHANGED <<shelf, num, outs, ins>>

(* user_setBasicInfo: new gender and e-mail; CUser::setBasicInfo writes    *)
(* the whole row, the num that was read included.  An e-mail without @ is  *)
(* refused.                                                                *)
SetUser(w) ==
  /\ pc[w] = "setUser"
  /\ Answer(w)
  /\ \/ UNCHANGED db
     \/ UpdateNum(U(w), loc[w].num)

-----------------------------------------------------------------------------
(* sql::SQLException *)

(* Wrong on purpose: the failed UPDATE of bcount is taken back as well.    *)
ThrowTwiceUndone(w) ==
  /\ pc[w] \in Faulty \ {"idle"}
  /\ CASE pc[w] \in {"bookOut", "userOut", "logOut"} -> Continue(w, "undoOut", loc[w])
       [] pc[w] \in {"userIn", "logIn"} -> Continue(w, "undoIn", loc[w])
       [] OTHER                         -> Answer(w)
  /\ UNCHANGED db

(* The statement at pc[w] throws and the database keeps its state.  What   *)
(* the handler does depends on the statement: inside the try blocks of     *)
(* borrowBook and returnBook the book is counted back, a failing SELECT of *)
(* returnBook leaves CSession::recvRequest by its catch, and everywhere    *)
(* else the request fails.  A statement that a check precedes is only      *)
(* reached, and can only throw, when the check passes; refusal and failure *)
(* then look alike.                                                        *)
Throw(w) ==
  /\ pc[w] \in Faulty \ {"idle"}
  /\ CASE pc[w] \in {"userOut", "logOut"} -> Continue(w, "undoOut", loc[w])
       [] pc[w] \in {"userIn", "logIn"}   -> Continue(w, "undoIn", loc[w])
       [] OTHER                           -> Answer(w)
  /\ UNCHANGED db

Serve(w) == \/ GetUserByID(w) \/ QueryById(w)
            \/ BookOut(w) \/ UserOut(w) \/ LogOut(w) \/ UndoOut(w)
            \/ BookIn(w) \/ CountOuts(w) \/ CountIns(w) \/ UserIn(w) \/ LogIn(w)
            \/ UndoIn(w)
            \/ DeleteBook(w) \/ SetBook(w) \/ SetUser(w)
            \/ Throw(w)

Next == \E w \in Workers : Receive(w) \/ Serve(w)

Spec == Init /\ [][Next]_vars

-----------------------------------------------------------------------------
(* Properties *)

PCs == {"idle", "getUserByID", "queryById", "bookOut", "userOut", "logOut",
        "undoOut", "bookIn", "countOuts", "countIns", "userIn", "logIn",
        "undoIn", "deleteBook", "setBook", "setUser"}

(* Every variable keeps its type; the columns are only known to be         *)
(* integers here, see RowsLegal.                                           *)
TypeOK ==
  /\ shelf \in SUBSET Books
  /\ count \in [Books -> Int]
  /\ bcount \in [Books -> Int]
  /\ num \in [Users -> Int]
  /\ outs \in [Users \X Books -> Nat]
  /\ ins \in [Users \X Books -> Nat]
  /\ pc \in [Workers -> PCs]
  /\ req \in [Workers -> Request]
  /\ loc \in [Workers -> [num : Int, count : Int, bcount : Int, num0 : Int]]
  /\ left \in [Sessions -> Nat]

(* Whatever the interleaving and whatever statements fail, every stored    *)
(* row passes the checks the server makes when it reads the row back       *)
(* (CBook::check: count >= 1; CUser::check: num >= 0) and no book counts a *)
(* negative number of copies out.  A row that failed its check could never *)
(* be borrowed, corrected or deleted again: sign() would refuse it.        *)
RowsLegal ==
  /\ \A b \in shelf : count[b] >= 1 /\ bcount[b] >= 0
  /\ \A u \in Users : num[u] >= 0

(* Owed as a function of user and book.                                    *)
owed == [p \in Users \X Books |-> outs[p] - ins[p]]

(* The copies of b that u has borrowed and not returned, numbered; those   *)
(* that u holds of any book; those of b that anyone holds.                 *)
OnLoan(u, b) == {<<u, b, i>> : i \in 1 .. owed[<<u, b>>]}
HeldBy(u) == Cardinality(UNION {OnLoan(u, b) : b \in Books})
Lent(b)   == Cardinality(UNION {OnLoan(u, b) : u \in Users})

Quiet      == \A w \in Workers : pc[w] = "idle"
Settled(u) == \A w \in Workers : pc[w] = "idle" \/ req[w].user # u

(* Between requests bcount is the number of copies that are out            *)
(* (TBookBasicInfo: "copies out"): the cached read-modify-write of the     *)
(* book's row agrees with the records, which other statements write.       *)
BcountIsLoans == Quiet => \A b \in shelf : bcount[b] = Lent(b)

(* Whenever no request of u is being served, num is the number of books u  *)
(* may still borrow (TUserBasicInfo: "books that can still be borrowed").  *)
NumIsRemaining ==
  \A u \in Users : Settled(u) => num[u] = BorrowLimit - HeldBy(u)
=============================================================================

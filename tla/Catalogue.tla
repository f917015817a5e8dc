------------------------------ MODULE Catalogue ------------------------------
(***************************************************************************)
(* The catalogue of LiBrotherServer: inserting, describing, correcting,    *)
(* deleting and searching books (the book_* and library_* commands of      *)
(* CSession::recvRequest with CLibrary and CBook).                         *)
(*                                                                         *)
(* As in module Circulation a worker serves a request as a series of       *)
(* separate SQL statements; one action is one statement with the code up   *)
(* to the next.  A search is one SELECT, one query of the Sphinx indexes,  *)
(* which an external program rebuilds now and then, and one SELECT for     *)
(* each hit.  Lending, which only changes bcount, is in Circulation.       *)
(***************************************************************************)
EXTENDS Integers, Sequences, FiniteSets, SequencesExt

CONSTANTS
  Workers,      \* the worker threads of CNetServer
  Commands,     \* the requests the clients may send
  Names,        \* the names of books
  Matches,      \* Matches[n]: the names that Sphinx finds for the query n
  MaxRequests,  \* bound: requests of all sessions
  MaxRebuilds,  \* bound: runs of the indexer
  Sphinx,       \* nSphinxType is not 0
  Faulty        \* the statements (values of job[w].pc) that may throw SQLException

VARIABLES
  rows,     \* BookInfoDatabase: rows[id]
  index,    \* the Sphinx index: the <<id, name>> it knows
  rebuilds, \* how often it has been rebuilt
  job,      \* job[w]: what worker w does
  served,   \* the requests received so far
  accepting,\* MySQL accepts new connections (it is external)
  up,       \* the server has not crashed
  told      \* history: told[i], the insertions of ISBN i answered with success

vars == <<rows, index, rebuilds, job, served, accepting, up, told>>

(* The string that is left where nothing is set.                           *)
Empty == ""

Cmds == {"book_getDescription", "book_setBasicInfo", "book_setDescription",
         "book_deleteBook", "book_getBorrowInfo", "book_getBookReadLevel",
         "book_setBookReadLevel", "library_queryByName", "library_queryById",
         "library_queryByISBN", "library_insertBook"}

(* level: the current_auth_level of the session.  -1: it has never been    *)
(* logged in and the level is uninitialised.  3: it is logged in, and its  *)
(* level is beyond vAuthList, or was never read since the login.           *)
Command == [cmd : Cmds, id : Nat, isbn : STRING, name : STRING, count : Int,
            descr : STRING, level : -1 .. 3]

ISBNs  == {c.isbn : c \in Commands}
Descrs == {c.descr : c \in Commands} \union {Empty}

ASSUME CatalogueAssumption ==
  /\ Commands \subseteq Command /\ Commands # {}
  /\ \A c \in Commands : c.name \in Names \union {Empty}
  /\ Empty \notin Names
  /\ Matches \in [Names -> SUBSET Names] /\ \A n \in Names : n \in Matches[n]
  /\ {MaxRequests, MaxRebuilds} \subseteq Nat
  /\ Sphinx \in BOOLEAN

(* What a worker does: the next statement, the command, the copy of the    *)
(* book (with the row's id), the ids a search has found, those Sphinx has  *)
(* named and that are still to be read; and for the properties the ids     *)
(* that matched all the time, or at some time, since the search began.     *)
NoBook == [id |-> 0, isbn |-> Empty, name |-> Empty, count |-> 0, descr |-> Empty]
Idle == [pc |-> "idle", c |-> CHOOSE c \in Commands : TRUE, copy |-> NoBook,
         found |-> <<>>, hits |-> <<>>, must |-> {}, may |-> {}]

Init ==
  /\ rows = <<>> /\ index = {} /\ rebuilds = 0
  /\ job = [w \in Workers |-> Idle]
  /\ served = 0 /\ accepting = TRUE /\ up = TRUE
  /\ told = [i \in ISBNs |-> 0]

-----------------------------------------------------------------------------
(* Helpers *)

There == {i \in DOMAIN rows : rows[i].alive}
Named(ns) == {i \in There : rows[i].name \in ns}

Goto(w, pc) == job' = [job EXCEPT ![w].pc = pc]
Answer(w) == job' = [job EXCEPT ![w] = Idle]

Searching(j) == j.pc \in {"name", "sphinx", "hit", "result"}

(* The statement of w changes rows, then w goes on as j; whoever searches  *)
(* notes what matches now.                                                 *)
Write(w, j) ==
  job' = [v \in Workers |->
            IF v = w THEN j
            ELSE IF ~Searching(job[v]) THEN job[v]
            ELSE LET ids == {i \in DOMAIN rows' : rows'[i].alive}
                     q   == job[v].c.name IN
                 [job[v] EXCEPT
                   !.must = {i \in @ : i \in ids /\ rows'[i].name = q},
                   !.may  = @ \union {i \in ids : rows'[i].name = q}]]

-----------------------------------------------------------------------------
(* The dispatcher *)

Reads  == {"book_getDescription", "book_getBorrowInfo", "book_getBookReadLevel"}
Writes == {"book_setBasicInfo", "book_setDescription", "book_deleteBook",
           "book_setBookReadLevel", "library_insertBook"}

(* vAuthList is read out of bounds: with a user's level for every command, *)
(* and by the three reading ones even where nobody has ever logged in.     *)
OutOfTable(c) == c.level = 3 \/ (c.level = -1 /\ c.cmd \in Reads)

(* The flag of vAuthList[level] that the command asks for; out of bounds   *)
(* it is whatever is there, if the read does not crash.                    *)
Allowed(c) ==
  IF c.cmd \notin Reads \union Writes THEN {TRUE}
  ELSE IF OutOfTable(c) THEN BOOLEAN
  ELSE {c.cmd \in Writes => c.level >= 1}

(* check(), by which CBook::setBasicInfo refuses; nobody looks at its      *)
(* result before insertBook.                                               *)
Valid(c) == c.count >= 1 /\ c.isbn # Empty /\ c.name # Empty

recvRequest(w) ==
  /\ up /\ job[w].pc = "idle" /\ served < MaxRequests
  /\ served' = served + 1
  /\ \E c \in Commands : \E allowed \in Allowed(c) :
       IF ~allowed
       THEN UNCHANGED job
       ELSE CASE c.cmd = "library_insertBook" ->
                   job' = [job EXCEPT ![w] =
                     [Idle EXCEPT !.pc = "verify", !.c = c,
                                  !.copy = IF Valid(c)
                                           THEN [id |-> 0, isbn |-> c.isbn, name |-> c.name,
                                                 count |-> c.count, descr |-> c.descr]
                                           ELSE [NoBook EXCEPT !.descr = c.descr]]]
              [] c.cmd = "library_queryByName" ->
                   job' = [job EXCEPT ![w] =
                     [Idle EXCEPT !.pc = "name", !.c = c,
                                  !.must = Named({c.name}), !.may = Named({c.name})]]
              [] OTHER -> job' = [job EXCEPT ![w] = [Idle EXCEPT !.pc = "select", !.c = c]]
  /\ UNCHANGED <<rows, index, rebuilds, accepting, up, told>>

Crash(w, c) ==
  /\ up' = FALSE
  /\ job' = [job EXCEPT ![w] = [Idle EXCEPT !.pc = "crashed", !.c = c]]

(* A request that ends the server before its command is looked at: the     *)
(* level is out of bounds, or refreshing that of a user needs a connection *)
(* and MySQL refuses it.                                                   *)
recvRequestCrash(w) ==
  /\ up /\ job[w].pc = "idle" /\ served < MaxRequests
  /\ served' = served + 1
  /\ \E c \in Commands : /\ OutOfTable(c) \/ (c.level >= 0 /\ ~accepting)
                         /\ Crash(w, c)
  /\ UNCHANGED <<rows, index, rebuilds, accepting, told>>

(* A statement that needs a connection when none is free and MySQL refuses *)
(* a new one: getConnection returns a null pointer, and nobody looks.      *)
(* CBook::insert checks the book first; the other statements go on with    *)
(* the connection they have.                                               *)
getConnectionRefused(w) ==
  /\ up /\ ~accepting
  /\ \/ job[w].pc \in {"select", "update", "verify", "name"}
     \/ job[w].pc = "insert" /\ job[w].copy.isbn # Empty
  /\ Crash(w, job[w].c)
  /\ UNCHANGED <<rows, index, rebuilds, served, accepting, told>>

(* MySQL (external) stops accepting connections, or accepts them again.    *)
mysqlTurns ==
  /\ up /\ accepting' = ~accepting
  /\ UNCHANGED <<rows, index, rebuilds, job, served, up, told>>

-----------------------------------------------------------------------------
(* queryById and queryByISBN *)

Found(c) == IF c.cmd = "library_queryByISBN" THEN {i \in There : rows[i].isbn = c.isbn}
            ELSE There \intersect {c.id}

CopyOf(i) == [id |-> i, isbn |-> rows[i].isbn, name |-> rows[i].name,
              count |-> rows[i].count, descr |-> Empty]

(* What the command does with the book it has found: copy-based checks     *)
(* come first, and the reading commands with one more statement.           *)
GoesOn(c, copy) ==
  \/ c.cmd = "book_setBasicInfo" /\ Valid(c)
  \/ c.cmd = "book_deleteBook" /\ copy.count >= c.count
  \/ c.cmd \in {"book_setDescription", "book_getDescription", "book_getBorrowInfo",
                "book_getBookReadLevel", "book_setBookReadLevel"}

(* Wrong on purpose: whoever finds nothing crashes.                        *)
CrashesAlways(c) == TRUE

(* These two go on with a null pointer when nothing is found: queryByISBN  *)
(* returns true all the same, and book_setBasicInfo asks the book for the  *)
(* error.                                                                  *)
Crashes(c) == c.cmd \in {"library_queryByISBN", "book_setBasicInfo"}

select(w) ==
  LET c == job[w].c IN
  /\ up /\ job[w].pc = "select"
  /\ \/ \E i \in Found(c) :
          /\ IF GoesOn(c, CopyOf(i))
             THEN job' = [job EXCEPT ![w].pc = "update", ![w].copy = CopyOf(i)]
             ELSE Answer(w)
          /\ UNCHANGED up
     \/ /\ Found(c) = {} \/ "select" \in Faulty
        /\ Answer(w)
        /\ up' = ~Crashes(c)
  /\ UNCHANGED <<rows, index, rebuilds, served, accepting, told>>

(* The second statement.  An UPDATE of a row that is gone changes nothing  *)
(* and is answered with success; the statements about read levels are not  *)
(* valid SQL.  deleteBook writes the copy's count less the number, or      *)
(* deletes the row if that is 0: -1, documented as "all", adds a copy.     *)
update(w) ==
  LET c    == job[w].c
      i    == job[w].copy.id
      left == job[w].copy.count - c.count IN
  /\ up /\ job[w].pc = "update"
  /\ \/ /\ c.cmd = "book_setBasicInfo"
        /\ rows' = IF i \in There
                   THEN [rows EXCEPT ![i].isbn = c.isbn, ![i].name = c.name,
                                     ![i].count = c.count, ![i].edited = TRUE]
                   ELSE rows
     \/ /\ c.cmd = "book_setDescription"
        /\ rows' = IF i \in There THEN [rows EXCEPT ![i].descr = c.descr] ELSE rows
     \/ /\ c.cmd = "book_deleteBook"
        /\ rows' = IF i \notin There THEN rows
                   ELSE IF left = 0 THEN [rows EXCEPT ![i].alive = FALSE]
                   ELSE [rows EXCEPT ![i].count = left]
     \/ /\ \/ c.cmd \in {"book_getDescription", "book_getBorrowInfo",
                         "book_getBookReadLevel", "book_setBookReadLevel"}
           \/ "update" \in Faulty
        /\ UNCHANGED rows
  /\ Write(w, Idle)
  /\ UNCHANGED <<index, rebuilds, served, accepting, up, told>>

-----------------------------------------------------------------------------
(* insertBook *)

(* Wrong on purpose: an ISBN that is there is not noticed.                 *)
verifyNot(w) ==
  /\ up /\ job[w].pc = "verify"
  /\ job' = [job EXCEPT ![w].pc = "insert", ![w].copy.id = Len(rows)]
  /\ UNCHANGED <<rows, index, rebuilds, served, accepting, up, told>>

(* The copy's id, not used yet, notes how many rows verify has seen.       *)
verify(w) ==
  LET taken == \E i \in There : rows[i].isbn = job[w].copy.isbn IN
  /\ up /\ job[w].pc = "verify"
  /\ \/ ~taken /\ job' = [job EXCEPT ![w].pc = "insert", ![w].copy.id = Len(rows)]
     \/ (taken \/ "verify" \in Faulty) /\ Answer(w)
  /\ UNCHANGED <<rows, index, rebuilds, served, accepting, up, told>>

insert(w) ==
  LET copy == job[w].copy IN
  /\ up /\ job[w].pc = "insert"
  /\ \/ /\ copy.isbn # Empty
        /\ rows' = Append(rows, [isbn |-> copy.isbn, name |-> copy.name,
                                 count |-> copy.count, descr |-> copy.descr,
                                 alive |-> TRUE, edited |-> FALSE, after |-> copy.id])
        /\ Write(w, [job[w] EXCEPT !.pc = "lastInsertId"])
     \/ /\ copy.isbn = Empty \/ "insert" \in Faulty
        /\ Answer(w) /\ UNCHANGED rows
  /\ UNCHANGED <<index, rebuilds, served, accepting, up, told>>

lastInsertId(w) ==
  /\ up /\ job[w].pc = "lastInsertId"
  /\ \/ told' = [told EXCEPT ![job[w].copy.isbn] = @ + 1]
     \/ "lastInsertId" \in Faulty /\ UNCHANGED told
  /\ Answer(w)
  /\ UNCHANGED <<rows, index, rebuilds, served, accepting, up>>

-----------------------------------------------------------------------------
(* queryByName *)

(* The books of exactly that name; nCount and nTop are not looked at.  If  *)
(* Sphinx refuses the connection it is not asked.                          *)
queryByName(w) ==
  LET ids == SetToSeq(Named({job[w].c.name})) IN
  /\ up /\ job[w].pc = "name"
  /\ \/ \E pc \in IF Sphinx THEN {"sphinx", "result"} ELSE {"result"} :
          job' = [job EXCEPT ![w].pc = pc, ![w].found = ids]
     \/ "name" \in Faulty /\ Answer(w)
  /\ UNCHANGED <<rows, index, rebuilds, served, accepting, up, told>>

(* What Sphinx names, from its index: `book' and `book_delta' may both     *)
(* name a book, and one that has been deleted or renamed meanwhile.        *)
querySphinx(w) ==
  LET hits == {p[1] : p \in {q \in index : q[2] \in Matches[job[w].c.name]}} IN
  /\ up /\ job[w].pc = "sphinx"
  /\ \/ /\ \E both \in SUBSET hits :
             job' = [job EXCEPT ![w].pc = "hit",
                                ![w].hits = SetToSeq(hits) \o SetToSeq(both),
                                ![w].may = @ \union hits]
     \/ "sphinx" \in Faulty /\ Answer(w)
  /\ UNCHANGED <<rows, index, rebuilds, served, accepting, up, told>>

(* Wrong on purpose: setBookID is not looked at.                           *)
readHitAgain(w) ==
  LET i == Head(job[w].hits) IN
  /\ up /\ job[w].pc = "hit" /\ job[w].hits # <<>>
  /\ job' = [job EXCEPT ![w].hits = Tail(@),
                        ![w].found = IF i \in There THEN Append(@, i) ELSE @]
  /\ UNCHANGED <<rows, index, rebuilds, served, accepting, up, told>>

(* One hit: skipped if its id has been seen, or if it has no row any more. *)
readHit(w) ==
  LET i == Head(job[w].hits)
      new == i \in There /\ \A j \in DOMAIN job[w].found : job[w].found[j] # i IN
  /\ up /\ job[w].pc = "hit" /\ job[w].hits # <<>>
  /\ \/ job' = [job EXCEPT ![w].hits = Tail(@),
                           ![w].found = IF new THEN Append(@, i) ELSE @]
     \/ "hit" \in Faulty /\ Answer(w)
  /\ UNCHANGED <<rows, index, rebuilds, served, accepting, up, told>>

lastHit(w) ==
  /\ up /\ job[w].pc = "hit" /\ job[w].hits = <<>>
  /\ Goto(w, "result")
  /\ UNCHANGED <<rows, index, rebuilds, served, accepting, up, told>>

sendResult(w) ==
  /\ up /\ job[w].pc = "result"
  /\ Answer(w)
  /\ UNCHANGED <<rows, index, rebuilds, served, accepting, up, told>>

(* The indexer (external) has read the table.                              *)
indexer ==
  /\ Sphinx /\ rebuilds < MaxRebuilds
  /\ rebuilds' = rebuilds + 1
  /\ index' = {<<i, rows[i].name>> : i \in There}
  /\ UNCHANGED <<rows, job, served, accepting, up, told>>

-----------------------------------------------------------------------------
Serve(w) == \/ select(w) \/ update(w)
            \/ verify(w) \/ insert(w) \/ lastInsertId(w)
            \/ queryByName(w) \/ querySphinx(w) \/ readHit(w) \/ lastHit(w) \/ sendResult(w)

Crashing(w) == recvRequestCrash(w) \/ getConnectionRefused(w)

Next == \/ \E w \in Workers : recvRequest(w) \/ Serve(w) \/ Crashing(w)
        \/ indexer \/ mysqlTurns

Spec == Init /\ [][Next]_vars

-----------------------------------------------------------------------------
PCs == {"idle", "select", "update", "verify", "insert", "lastInsertId", "name",
        "sphinx", "hit", "result", "crashed"}

Row == [isbn : ISBNs \ {Empty}, name : Names, count : Nat \ {0}, descr : Descrs,
        alive : BOOLEAN, edited : BOOLEAN, after : Nat]

JobType == [pc : PCs, c : Commands,
            copy : [id : Nat, isbn : ISBNs \union {Empty}, name : Names \union {Empty},
                    count : Int, descr : Descrs],
            found : Seq(Nat), hits : Seq(Nat), must : SUBSET Nat, may : SUBSET Nat]

(* Every variable has its type, and every row passes CBook::check.         *)
TypeOK ==
  /\ rows \in Seq(Row) /\ \A i \in DOMAIN rows : rows[i].after < i
  /\ index \subseteq (1 .. Len(rows)) \X Names
  /\ job \in [Workers -> JobType]
  /\ \A w \in Workers : job[w].pc = "update" => job[w].copy.id \in DOMAIN rows
  /\ served \in 0 .. MaxRequests /\ rebuilds \in 0 .. MaxRebuilds
  /\ accepting \in BOOLEAN /\ up \in BOOLEAN /\ told \in [ISBNs -> Nat]

(* Two books have the same ISBN only if they were inserted at the same     *)
(* time (the later one was verified before the earlier was there) or one   *)
(* of them was given its ISBN by a correction, which nobody verifies.      *)
RepeatedOnlyIfConcurrent ==
  \A i, j \in There :
    /\ i < j /\ rows[i].isbn = rows[j].isbn /\ ~rows[i].edited /\ ~rows[j].edited
    => rows[j].after < i

(* The check of insertBook, its INSERT and its answer are statements of    *)
(* their own, and yet: an ISBN is repeated only for these reasons and      *)
(* every insertion answered with success has made a row of its own.        *)
InsertionIsSound ==
  /\ RepeatedOnlyIfConcurrent
  /\ \A n \in ISBNs :
       told[n] <= Cardinality({i \in DOMAIN rows : rows[i].isbn = n \/ rows[i].edited})

(* Although a search is many statements, no book is named twice, none that *)
(* had the name all the time is missing, and every book named had the name *)
(* at some time since the search began or was indexed under a match of it. *)
SearchIsExact ==
  \A w \in Workers : job[w].pc = "result" =>
    LET found == job[w].found IN
    /\ \A i, j \in DOMAIN found : i # j => found[i] # found[j]
    /\ job[w].must \subseteq ToSet(found)
    /\ ToSet(found) \subseteq job[w].may

(* deleteBook(-1), which IBook documents as "delete all", leaves no copy;  *)
(* it does not hold: update writes one copy more.                          *)
MinusOneDeletesAll ==
  [][\A w \in Workers :
       /\ job[w].pc = "update" /\ job'[w].pc = "idle" /\ rows' # rows
       /\ job[w].c.cmd = "book_deleteBook" /\ job[w].c.count = -1
       => ~rows'[job[w].copy.id].alive]_vars

(* While MySQL accepts connections the server crashes for two reasons      *)
(* only: a book asked for by its ISBN, or to be corrected, is not there or *)
(* its SELECT fails; or the level of the session is beyond the table of    *)
(* rights.  In particular no order in which books are deleted, renamed and *)
(* searched by several workers brings it down, and no failing statement    *)
(* but that SELECT.                                                        *)
NotThere(w) ==
  /\ job[w].pc = "select" /\ job[w].c.cmd \in {"library_queryByISBN", "book_setBasicInfo"}
  /\ Found(job[w].c) = {} \/ "select" \in Faulty
BeyondTable(w) == job[w].pc = "idle" /\ job'[w].pc = "crashed" /\ OutOfTable(job'[w].c)

CrashesAreKnown ==
  [][up /\ ~up' /\ accepting => \E w \in Workers : NotThere(w) \/ BeyondTable(w)]_vars
=============================================================================

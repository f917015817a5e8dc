# Verification of LiBrother

LiBrother is a library-management system: a Qt client, a client library that
talks to a server over TCP or TLS, and a server that keeps books, users and
loans in MySQL and searches them through Sphinx. This directory holds TLA+
modules translated from its source, the TLC configurations that check them on
small instances, and theorems that TLAPS proves for every instance. Paths below
are relative to `src/LiBrother/`.

## 1. Inventory

| Part | State | Operations | Talks to |
|---|---|---|---|
| Circulation (`LiBrotherServer/user.cpp`, `book.cpp`, `library.cpp`, `manager.cpp`) | rows of `BookInfoDatabase` (`count`, `bcount`), `UserInfoDatabase` (`num`), `BorrowDatabase`; copies in `m_CBBI`, `m_CUBI` | `borrowBook`, `returnBook`, `deleteBook`, `setBasicInfo` | MySQL through the connection pool; called by a session |
| Accounts (`session.cpp`, `manager.cpp`, `user.cpp`) | rows of users, passwords, levels; `user_id`, `current_auth_level` of a session | login, logout, registration, passwords, levels | MySQL |
| Catalogue (`session.cpp`, `library.cpp`, `book.cpp`) | rows of books, the index of Sphinx | insertion, correction, deletion, queries, search | MySQL, Sphinx |
| Session manager (`session_manager.cpp`) | `m_mapSessions`, the cleaner's queue, a mutex per session | `HELLO`, `DATA`, cleaner thread, `stopServer` | called by worker threads; calls the session |
| Connection pool (`connection_pool.cpp`) | sets of free and used connections | get, release, create, destroy | every worker, without a mutex |
| Network server (`netserver_asio.cpp`; `netserver_win.cpp`) | sockets with reference counts, send queues, receive buffers | accept, receive, send, close, stop | session manager |
| Launcher and main (`program_launcher.cpp`, `main.cpp`) | task table, ids of the tasks, `mutexExit` | start and stop of everything, signal handler | mysqld, searchd, indexer |
| Network client (`LiBrotherClientBackend/netclient.cpp`) | socket, `strRecv`, `recvError`, `sessionID` | `sendRequest`, `postData`, `recvData`, `doRecv`, `getSession` | network server |
| Client objects (`LiBrotherClientBackend/*.cpp`) | caches of rows and of the login, reference counts | the interfaces of `common/` | network client |
| User interface (`LiBrotherClient/`) | windows | buttons | client objects |
| `common/`, `MagicDB/`, `libs/liblog` | interfaces, helpers, logging | | |

A request travels from a button through the client objects (`ClientObjects`),
the network client (`NetClient`), the network server (`NetServerAsio` or
`NetServerWin`) and the session manager (`SessionManager`) to the session, which
executes statements (`Circulation`, `Accounts`, `Catalogue`) over connections of
the pool (`ConnectionPool`); `ServerLife` starts and stops all of it.

What is hard:

* **Statements.** A request is a series of SQL statements without a transaction;
  values are computed from copies read earlier, workers interleave between
  statements, each statement may fail. Correct means: counters agree with the
  records, no book is lent twice, names and ISBNs are unique, what was answered
  is in the table, a right is used only by who has it.
* **Session manager.** A worker holds a raw pointer between its lookup and the
  session's mutex while the cleaner deletes. Correct means: nobody uses a
  deleted session, a session in use does not expire, unused ones are deleted in
  the end, the server stops.
* **Connection pool.** No mutex, and one caller never releases. Correct means: a
  connection is used by one worker and comes back.
* **Network server.** References and buffers are handed between handlers.
  Correct means: bytes are sent once and in order, a socket is deleted once,
  after its last use, and shutdown terminates.
* **Start and stop.** Programs fail at any time, a signal falls anywhere.
  Correct means: what was started is stopped, once.
* **Network client.** Time-outs, reconnection, renewal of the session. Correct
  means: the answer belongs to the request, a request is carried out once, every
  call returns.
* **Client objects.** Correct means: the client believes what the server does,
  objects live as long as they are referred to, caches are not silently old.

`PROJECT.json` lists each hazard at its line with the properties that cover it.

## 2. Modules

| Module | Models |
|---|---|
| `LoanLedger` | what circulation promises: lending, taking back, discarding and recounting as single steps; nothing of readers and books that have become disputed |
| `Circulation` | the requests about loans, one action per SQL statement |
| `LoanHistory` | `Circulation` watched by a history of the occasions on which a row can be miscounted (EXTENDS); implements `LoanLedger` |
| `Accounts` | the requests about users and the login state of sessions |
| `Catalogue` | the requests about books, search and the index |
| `SessionManager` | table, queue, workers, cleaner, shutdown |
| `ConnectionPool` | the two sets of connections, step by step, any number of threads inside |
| `ServerLife` | `main()` from start to return, composed with `ConnectionPool` (EXTENDS) |
| `NetServerAsio`, `NetServerWin` | the two network servers |
| `NetClient` | the network client against the server's answers |
| `ClientObjects` | objects, caches and login of the client against the server's session |
| `CirculationProofs`, `SessionManagerProofs`, `ServerLifeProofs` (also `ConnectionPool`), `ClientProofs` (`ClientObjects` and `NetClient`), `AccountsProofs`, `CatalogueProofs`, `NetServerWinProofs`, `NetServerAsioProofs` | theorems and their proofs |
| `MC...` | values of the constants for TLC |

Operators commented "Wrong on purpose" are plausible errors in the definition
that follows them. Each property of a passing run is violated when one of them
takes its place, so none holds for trivial reasons. Variables marked "history"
are not in the code: they record what the properties speak about.

### Circulation

`shelf`, `count`, `bcount`, `num` are the columns; `outs` and `ins` count the
rows of `BorrowDatabase` by flag, which is all `returnBook` looks at. `loc[w]`
is the copy of the row values worker `w` works with (`m_CUBI.num`,
`m_CBBI.count`, `m_CBBI.bcount`, `num0`); `pc[w]` names its next statement. An
action is one statement with the code up to the next one: checks on the copies,
the change of the copies, early returns. `Throw` is an `SQLException` at the
statement: the database keeps its state and the handler's `catch` decides what
comes next (`UndoOut`, `UndoIn`, or the answer). A request without permission is
answered in `Receive`. `book_setBasicInfo` and `user_setBasicInfo` matter
because they write back `bcount` and `num`. Levels are those of
`loadDefaultConfig` and do not change here. The netting of the records by the
user interface is `Owed` and `Offered`.

`LoanHistory` adds variables that only watch (`HNext == Next /\ Watch`). A
request is not a transaction, so with several workers and failing statements
`num` and `bcount` do go wrong; the history keeps, row by row, the only
occasions on which they can:

| Variable | Row of | Occasions | The counter may then be |
|---|---|---|---|
| `looseUsers` | user | two requests that read the row were in service at once; the record of a return was not inserted (`user.cpp:259`) | anything |
| `tightUsers` | user | the record of a loan was not inserted (`user.cpp:196`) | too low |
| `looseBooks` | book | two requests about the book were in service at once; a return was refused or broke off after `CBook::borrow(-1)` (`user.cpp:229`) and was not taken back | anything |
| `tightBooks` | book | a borrowing broke off after `CBook::borrow(1)` and taking it back failed | too high |

Everything else, any number of workers and sessions, administrators, corrections
and all other failures, leaves the books exact: `AllowancesHold`, `BooksHold` and
`LoansHaveRows` say so of the rows, `ReturnsHaveLoans` of the records. `LedgerSpec`
says it of the statements: `LoanHistory` refines `LoanLedger`, with the loans read
off the records, the copies off the rows, and the loose users and books for the
disputed ones. A disputed pair may change in any way (`Muddle`), but no loan of a
reader and book of good standing is ever made beyond the limit or of a copy that
is not in the house, whatever happens to the rows beside them.

### Accounts and Catalogue

`rows` is the table, a sequence in the order of the ids. `job[w]` is the request
worker `w` serves with its next statement (`pc`), its copy of the row (`copy`)
and, as history, the levels the user had while it was served (`seen`). Every
statement named in `Faulty` may throw. Points where the code is surprising and
the model follows it:

* `getCurrentAuthLevel` keeps the old level when the user cannot be read, and a
  level beyond the table makes `vAuthList[level]` an access out of bounds: any
  rights may result, or a crash (in `Catalogue`). `RightsAreCurrent` exempts
  exactly these.
* The check before `user_setAuthLevel` is the flag `auth_SetAuthLevel` alone
  (`session.cpp:677`). `common/common_types.h:52` also forbids changing one's own
  level and that of users with a higher one; nothing enforces it, and
  `RightsAreCurrent`, which says what the check comes to under interleavings,
  does not claim it. `LevelsAreSetBelow` states it, and `accounts_own_level.cfg`
  shows it violated. The notes on users above oneself at lines 42 and 43 (changing
  their data or password) are not enforced either.
* `user_deleteUser` has a misspelt statement: it fails, and 1 is answered. The
  statements about read levels are not valid SQL either (not modelled).
* `user_setBasicInfo` writes the name it has read back and any valid e-mail,
  which may be another user's, so `RegistrationIsSound` is about names only; a
  name made of digits is looked up as an id.
* `insertUser` stores no password and does not set `num`.
* The server goes down in three ways. `library_queryByISBN` uses a null pointer
  when nothing was found or its SELECT fails, and `book_setBasicInfo` one when its
  book does not exist. `vAuthList` is read at a level that is not in it
  (`OutOfTable`; the reading commands also at the level of a session nobody has
  logged in with, which is not initialised). And when MySQL refuses a new
  connection (`accepting` is FALSE) `getConnection` returns a null pointer, which
  every caller dereferences (`getConnectionRefused`, `recvRequestCrash`); the
  model lets that happen at any statement that takes a connection, whether or not
  one is free. `CrashesAreKnown` says that while MySQL accepts connections the
  first two are the only reasons.
* `deleteBook(-1)`, documented at `common/function_interfaces.h:31` to delete
  all copies, adds one (`catalogue_delete_all.cfg`). Permission-denied `book_*`
  commands answer nothing. The paging of `queryByName` is ignored by the server.
* The search by name reads MySQL first and then, book by book, what Sphinx
  names from an index built earlier (`index` pairs the row with the name it had).

### SessionManager

`m_mapSessions` is the map, `queue` the linked list between its two sentinels,
`live` the allocated `TSessionEx` objects (addresses are reused). `age[o]` is
the time since `timeLastAccess`; ages saturate at the timeout, since the code
only compares with it. The cleaner's `timeNow` is represented by `expired`, the
set of sessions that are too old by that clock: an access takes a session out of
it. Every critical section of `m_mutexMap` is one action. `owner[o]` is the
holder of `mutexSession`.

`Prompt` restricts the clock: no worker waits between `getSession` and the mutex
of its session for so long that the session expires. The default timeout is 300
seconds; it is violated only by a worker that is stopped, or that queues behind
a request of the same session, for that long. Without it `NoUseAfterFree` fails
(`sess_slow_worker.cfg`). `FreshIds` says that the 32 random bits of a session
id do not repeat among live sessions. `MappedAreQueued` and `NoUseAfterFree` do
not need it; with a collision the older session can be dropped early.
The shutdown is that of the asio server, whose `stopServer` joins its workers
before the session manager stops.

### ConnectionPool and ServerLife

Per kind of connection `pConn[r]` and `pConnInUse[r]` are the two sets; `at[w]`
says at which statement of `getConnection` or `releaseConnection` thread `w` is
(`get`, `begin`, `move`, `erase`; `out` when it is in neither). The pool has no
mutex, the default configuration runs several workers, and so any number of
threads may be inside at once, in any order of their steps. Two that are inside
for the same kind race on its `std::set`s: `raced` keeps the kinds this has
happened to. Of these nothing is promised, and whoever is inside for one may
crash (`Damaged`, `WorkCrashes`); two requests then do get the same connection,
as `pool_race.cfg` shows. `ExclusiveUse` and `NothingLost` are about every other
kind: requests that overlap without meeting inside, nest, fail, and a race on the
connections to Sphinx that must not spread to those of MySQL.

Two callers never return a connection (`leaked`, bounded by `LeakLimit`):
`CLibrary::verify` always, and `queryByName` when reconnecting to Sphinx throws
outside its `try` with a connection to MySQL in its hands (`library.cpp:39-42`,
`ReconnectThrows`). A connection refused by MySQL is a null pointer that the
pool's user dereferences: the server crashes (`WorkRefused`), except that
`queryByName` does without Sphinx. `~CConnectionPool` warns about connections
in use with the flag inverted, which changes no state.

`ServerLife` follows `main()` on `platform` Windows or Linux: `pc` is the
statement, `code` the return value, `tasks` the launcher's table, `process` the
launched programs, `ids` the task ids in main. `crashed` is the end of the
process by a null pointer or by the race in the pool.

main waits without limit for the programs it runs with `RunWait` (`firstIndexer`,
`askSearchd` for `searchd --stop`, `askMysqld` for `mysqladmin shutdown`:
`program_launcher.cpp:55`) and the interval task for its indexer
(`program_launcher.cpp:195`, `IndexerEnds`). Whether these programs end is theirs
to decide: the steps exist, but nothing is assumed to make them happen. On Linux
`waitpid` has no time-out either, so that `waitSearchd` and `waitMysqld` wait for
programs that may never end. `AwaitsProgram` names these places, and
`EndsOnSigint` excuses a server that stays in one of them for ever, and only it.

On Linux the signal handler runs in main's own thread. Between the lock and the
wait of `waitForSigint` it locks a mutex its own thread holds and never returns:
`HandlerReturns` states that a handler that has been called ends, and
`sigint_linux.cfg` shows it violated (`main.cpp:268`). `EndsOnSigint` is about both
platforms and begins when the signal has been taken: on Windows when it comes, on
Linux when the handler has returned. The wait has no loop, so a spurious wake-up
stops the server, which the model allows. When the network server cannot be
started (code 5), the cleaner thread is left running although the session manager
is deleted, and `nSphinxType` is never reset; both are in the model and no
property forbids them.

### NetServerAsio

For every socket `recv[s]` is the place of its chain of receive handlers,
`send[s]` says that an `async_send` is under way, `releasing[s]` counts send
handlers that have still to give back their reference. A stream is a sequence of
three tokens (`KEEP-ALIVE`, other text, newline), cut anywhere into receives of
at most `BufferSize` tokens; framing is done token by token as in
`receivedData`. Answers are sequences of distinct bytes, so that loss,
duplication and order can be seen. A response longer than `BufferSize` is queued
with its whole remaining length in every turn of the loop of `sendData`;
`NothingIsLost` therefore demands "nothing twice" only of answers that fit.
A failed send leaves its buffer in the queue, after which nothing is sent on the
socket again; a send may transfer only the first part of its block, which the
code does not notice (`cut` exempts both). Two
receive handlers of one socket never overlap.

### NetServerWin

`accept[x]`, `recvCtx[c]` and `sendCtx[c]` say who has a context: nobody, the
system (`posted`), a thread (`taken`), or no one any more (`lost`); `worker[w]`
is the operation a thread is carrying out. The system completes operations, in
error or not, in any order. The send context is handed over between
`postToSendQueue` and `doSend` in the order of their critical sections;
`blemish[c]` records the excuses the properties name: a failed send, a block
queued between the empty queue and `eraseIoContext` (`late`), an accept buffer
overwritten by the next client (`first`). An error other than
`ERROR_NETNAME_DELETED` ends the thread (`MaxErrors`). At shutdown a thread that
does not end in time is terminated wherever it is. A request is whole; TLS is
left out; `sockClient` of a context is assigned together with `AcceptEx`
although the code assigns it just after.

### NetClient

The calling thread (`pc`, `call`) and the worker thread of the io_service share
the socket and `strRecv`. `armed` receives are pending on the open socket and
`failed` of them come back with an error after it has been closed: the handler
of the old socket then closes the socket that is open now. The server answers
requests (`requests`, `down`) and may forget all sessions (`MaxExpiry`). Within
`Faults`, the connection may be lost, a send may fail and `recvData` may time
out. `disturbed` records that something of this kind has happened. Two pending
receives that write `recvBuffer` at the same instant are not modelled, and
neither is concurrent access to the socket pointer. A connect that fails leaves
the socket open (asio opens it first, `netclient.cpp:221`) but not `connected`: the
next `postData` takes it for a connection, fails to write, and so the call after a
failed connect fails as well; `nLen == 0` cannot occur,
since asio reports the end of the stream as an error.

### ClientObjects

`obj[o]` is the client object (its id, its caches, its reference count) or
`NoObject`; `held[o]` counts the references of the user interface, `current` is
`m_pCurrentUser`. `row` and `level` are the server's rows and `session` is the
user of the server's session. A basic info has two parts: of an info that a
client sends the server takes gender and e-mail of a user (`session.cpp:479`), or
count, name, author, publisher and ISBN of a book, and keeps the rest as it has it:
name and `num`, or `bcount`. `setBasicInfo` caches both parts; `getBasicInfo` of a
user caches a `num` that is not in the answer (`session.cpp:449`). So the kept part
of a cache may be anything, `Keeps` changes it in the row at any time, and
`CachesAreFresh` is about the part the server takes, and about levels. Each
request is executed or not and its answer heard or not (`Fates`). `oldInfo`,
`oldLevel`, `astray` and `lost` record the excuses: another client changed the
row, the object's own write failed after the cache had been written, the session
expired, or `Login` overwrote `m_pCurrentUser` after a `Logout` that failed. The
answer that belongs to another call (`client_stale_answer`) is excluded here.

## 3. Runs

`CHECK_DEADLOCK FALSE` is said everywhere: the number of requests or calls is
bounded, and the server and the client really stop.

| Run | Distinct states | Shows |
|---|---|---|
| `circ_history` | 1.4 million | two workers, two sessions of one reader, an administrator who borrows, corrects and deletes, every failure, any return: `TypeOK`, `RowsLegal`, `AllowancesHold`, `BooksHold`, `LoansHaveRows`, `ReturnsHaveLoans`, and `LoanHistory` implements `LoanLedger` (`LedgerSpec`) |
| `sess_lifetime` | 27 thousand | `MappedAreQueued`, `NoUseAfterFree`, `NothingLeaks`, `MappedUntilExpired`, `ExpiredAreDeleted`, `StopEnds` |
| `accounts` | 3.8 million | `RegistrationIsSound`, `LoginNeedsPassword`, `RightsAreCurrent` |
| `catalogue` | 4.4 million | `InsertionIsSound`, `SearchIsExact`, `CrashesAreKnown` |
| `pool` | 975 thousand | two workers that nest and meet in the pool: `ExclusiveUse`, `NothingLost` |
| `server_life` | 559 thousand | both platforms, every configuration, two workers that meet in the pool: `NoOrphan`, `StopsKnownTasks`, `EndsOnSigint` |
| `asio` | 176 thousand | `DeletedOnce`, `FramingIsRight`, `NothingIsLost`, `QueueIsEmptied`, `StopEnds` |
| `win` | 1.7 million | `DeletedOnce`, `AnswersInOrder`, `NothingIsStuck`, `OwnRequestsInOrder`, `ConnectionsAreTaken` |
| `client_net` | 1.8 million | `KeptAliveIsExact`, `ExecutedAtMostOnce`, `CallReturns` |
| `client_objects` | 2.8 million | `BeliefIsRight`, `LivesWhileReferred`, `CachesAreFresh` |
| `circ_lost_update` | violated | two readers borrow one book at once, nobody at the desk: both UPDATEs write the same `bcount` (`book.cpp:347`) |
| `client_stale_answer` | violated | the answer a failed call left in the buffer is returned by the next call (`netclient.cpp:324`) |

Further configurations, kept to reproduce what the text above mentions:

| Configuration | Module | Result |
|---|---|---|
| `circ_unowed_return.cfg` | `MCCirculation` | `BcountIsLoans` violated: a refused return leaves a copy counted in (`user.cpp:229`) |
| `circ_shared_user.cfg` | `MCCirculation` | `NumIsRemaining` violated: two sessions of one user overwrite `num` (`user.cpp:185`) |
| `circ_failed_return.cfg` | `MCCirculation` | `NumIsRemaining` violated: a return whose INSERT fails leaves `num` raised (`user.cpp:262`) |
| `sess_safety.cfg` | `MCSessionManager` | holds with colliding ids: `TypeOK`, `MappedAreQueued`, `NoUseAfterFree` (1.2 million states) |
| `sess_slow_worker.cfg` | `MCSessionManager` | `NoUseAfterFree` violated without `Prompt` (`session_manager.cpp:128`) |
| `sess_round.cfg` | `MCSessionManager` | `RoundBounded` violated: `nCleanedSession` is never counted (`session_manager.cpp:252`) |
| `accounts_own_level.cfg` | `MCAccounts` | `LevelsAreSetBelow` violated: an administrator changes his own level (`session.cpp:677` against `common/common_types.h:52`) |
| `sigint_linux.cfg` | `ServerLife` | `HandlerReturns` violated: on Linux the handler waits for the mutex its own thread holds (`main.cpp:268`) |
| `pool_race.cfg` | `MCConnectionPool` | `NeverShared` violated: two threads inside the pool get one connection (`connection_pool.cpp:54`) |
| `win_first_data.cfg` | `MCNetServerWin` | `FirstDataIsOwn` violated: the first data of one client are read as another's (`netserver_win.cpp:690`) |
| `catalogue_delete_all.cfg` | `MCCatalogue` | `MinusOneDeletesAll` violated (`book.cpp:153`) |

`TypeOK` of the modules whose run does not list it holds under the run's own
constants as well.

**Bounds.**

* Circulation: two sessions of one reader and an administrator who borrows as
  well, which is what it takes for two requests to meet on a user's row and on a
  book's; one or two copies, an allowance of one book, two requests per reader's
  session and one at the desk (`Budget`), so that the reader can borrow, return
  and borrow again while the desk corrects or deletes the book; numbers -1
  (documented as "all"), 0, 1, 2. Two workers suffice for every interference of
  pairs of statements. Every statement may fail (`Everything`).
  `circ_lost_update` has two readers only, so that the trace shows borrowings.
* Accounts, catalogue: two workers, five requests in all (`MaxRequests`), of
  every command; two names or ISBNs, one of which a query also finds for the
  other; one rebuild of the index (`MaxRebuilds`). Five are enough to
  register, log in, set a level and use it while another worker is in between.
* Sessions: two workers, two objects and ids, one client, a timeout of two ticks
  (so that a session can age without being expired), `int` with largest value 7
  and a first round of 2, so that `nMaxClean` overflows after two rounds.
* Pool: two workers, both kinds, two connections at a time per worker (`Nesting`),
  one leak (`LeakLimit`), five connections. One leak is enough to tell a leak from
  a loss, and two threads for every race.
* Server: `server_life` has two workers, so that they can meet in the pool, and no
  nesting and no leak, since its properties are about main and the shutdown waits
  for each worker separately; what nests and leaks is in `pool`. No symmetry, for
  the sake of the liveness property.
* asio: two sockets, blocks of two bytes, answers of one and of five bytes, so
  that an answer spans three blocks; two requests with superfluous newlines.
* IOCP: two threads, two clients, one accept context (it is used again for the
  second client), one fatal error (`MaxErrors`), answers of one to three blocks.
* Network client: two calls (`MaxCalls`), one loss of all sessions (`MaxExpiry`),
  two late completions (`MaxFailed`), all four settings of keep-alive and TLS.
* Client objects: two users, one book, two objects, one reference of the user
  interface to each (`MaxHeld`) besides that of the manager, one change by another
  client (`MaxOthers`).

**Fairness.** Only where a liveness property needs it.

* `sess_lifetime`: the operating system runs every thread (weak fairness of
  workers, cleaner and, once it stops, main); the waits for a mutex get strong
  fairness, because a thread that gives a mutex back and takes it again must not
  shut a waiter out for ever. Time passes. Nothing forces clients to call.
* `server_life`: main, the launcher's thread and a signal handler
  that has been called run (weak fairness, which a handler that waits for a held
  mutex does not profit from), and a request that a worker serves ends: its steps
  in the pool are taken, and it does not take connections again and again for ever
  but returns its last one (`RequestEnds`, strong fairness, since a request that
  takes one more connection before it ends disables it for a while). Every request
  is a bounded number of statements, which justifies both. No program need do
  anything: neither mysqld and searchd nor the helpers main waits for need end.
  No signal is forced to come.
* `asio`: handlers that have been started run, sends complete, `stopServer` goes
  on once called. Receiving is not fair: clients may stay silent.
* `win`: a thread goes on with the operation it has taken, and completed
  connections are taken by some thread.
* `client_net`: the caller and the worker run, the server answers what it gets,
  and the wait in `recvData` ends by its time-out. The TLS handshake has no
  time-out, hence the exemption in `CallReturns`.

## 4. Proofs

Every theorem is about `Spec` with all its constants arbitrary, restricted only
by the named assumption of the module (`CirculationAssumption`, ...), which TLC
evaluates, and by the hypotheses named here. Each rests on an inductive
invariant, proved action by action; candidates were checked with TLC first.

**Circulation** (`CirculationProofs`). `Faulty` is the set of statements that
may fail.

* `TypeCorrect`, `RowsStayLegal`: no hypothesis. `RowsLegal` alone is not
  inductive: a worker writes values it computed from a copy, so the invariant
  adds, for every place between a check and the write it guards, what the check
  established about the copy.
* `AllowancesAreExact` (`AllowancesHold`), `BooksAreExact` (`BooksHold`),
  `LoansKeepTheirBook` (`LoansHaveRows`), `ReturnsAreLoans` (`ReturnsHaveLoans`) and
  `CirculationImplementsLedger` (`LedgerSpec`) are about `HSpec` of `LoanHistory` and
  have no hypothesis:
  any workers, sessions, administrators and failing statements. What can go wrong
  is not assumed away but watched. The invariant `HistoryInv` has these parts:
    * `Alone`: of a row that is not loose at most one worker is in service.
    * `StepsOfOp` and `RecordInv`: what the places of a worker say about its
      request, and what it has counted in the records, which is what `returnBook`
      goes by.
    * `UserInv`, with `Account(u, d)`: for each statement a worker can be at, by how
      much `num` of its user is ahead of the records (at most, or exactly when the
      user is not tight), and that its copy of `num` is the row's.
    * `BookInv`, with `Counted(b, d)`: the same for `bcount` of its book, and that its
      copies of `count` and `bcount` are the row's; that a book without a row and
      not loose is not lent.
    * `Countable`: the loans are finite. `HeldBy` and `Lent` are cardinalities of
      sets of single loans, so that sums over users or books are additions of one
      element (`AddOne`).
  `CirculationImplementsLedger` then takes each statement. On good rows
  (`GoodEntry`) the record of a loan appears in or goes from `BorrowDatabase`, the
  row of a book is deleted or its count changes, which are steps of the ledger, and
  all other statements are stutters; on others (`DisputedEntry`) it touches only its
  own user's and book's loans and copies, of which one is disputed.

**Sessions** (`SessionManagerProofs`).

* `TypeCorrect`, `TableIsQueued`: the invariant `Inv` says that what is in the
  queue, in `vExpiredSession` or with a worker that creates it is live and in only
  one of these places, and that entries of the table lead to queued sessions with
  their own id. Ids may collide.
* `SessionsOutliveUse` (`NoUseAfterFree`) assumes `Prompt`. The invariant `Held`
  says that until the mutex is held the session is queued, young, and not among
  those the cleaner judged expired; and that the cleaner deletes only unlocked
  sessions.
* `AllSessionsDeleted` (`NothingLeaks`) and `SessionsLastUntilExpired`
  (`MappedUntilExpired`) assume `FreshIds`. `Found` adds to `Inv` that every live
  session has one of the places and that the table leads to every queued
  session; `Judged` that a session the cleaner judged by its older clock is still
  expired when it sweeps. Lemmas `Requeue`, `Enqueue`, `Split` and `HeadAndTail`
  give the effect of the queue operations on the set of queued sessions.

**Connection pool and server** (`ServerLifeProofs`).

* `ConnectionsAreExclusive` (`ExclusiveUse`) assumes no mutual exclusion.
  `ExclusiveUse` says nothing of a connection that is between the two sets; the
  inductive `PoolInv` adds, kind by kind and for those that have not raced, that at
  most one thread is inside, that what a thread has is in `pConnInUse`, that free
  connections are used by nobody, apart from the one the thread inside is moving,
  and which of the two sets holds that one at each statement. A kind that races
  leaves the invariant's scope; the other kinds stay.
* `ConnectionsAreAccounted` (`NothingLost`) assumes `SomeThreads` (finitely many,
  at least one, that may hold a connection). A connection is made only when none is
  free; `CountInv` bounds what is open by counting pairs of a thread and the
  position of one of its connections (an injection into their product).
* The proofs about `ServerLife` use `PoolInitInv` and `PoolStepKeeps` for the pool of the
  whole server (`ServerUsesExclusively`, `ServerLosesNoConnection`): main registers
  before it starts workers and destroys when all are idle.
* `NothingIsLeftBehind` (`NoOrphan`) and `TasksAreKnown` (`StopsKnownTasks`) hold
  without hypotheses. The invariant `MainInv` says for each statement of `main()`,
  the error paths included, which programs may be running and that the ids main
  has kept are those of their slots.

**Accounts** (`AccountsProofs`), **catalogue** (`CatalogueProofs`).

* `LoginsAreGenuine`, `LevelsNeedRights` (`RightsAreCurrent`: what the code's own
  check comes to, not the restriction of `common_types.h:52`), `SearchesAreExact` and
  `OnlyKnownCrashes` (`CrashesAreKnown`) hold without hypotheses. `AccountsInv` and `CatalogueInv` say for every statement
  of a request what the earlier ones have established: which command is served,
  that the copy is of an existing row, that the right was checked against a level
  in `seen`, that a name that was found missing can since have been
  inserted only by a request that ran meanwhile. `SearchOK` says, for each phase
  of a search, which of `must` have been found or are still to be read.
* `RegistrationsAreSound` and `InsertionsAreSound` assume finitely many
  workers. They add `EachHasARow`: for every name the rows outnumber the successes
  told by the requests that have inserted and not yet answered.

**Client objects** (`ClientProofs`). `BeliefsAreRight`, `ObjectsLiveWhileReferred`
and `CachesStayFresh` hold without hypotheses, by one invariant `ClientInv`, since
caches are filled only through objects that exist, and that an object exists
depends on its count. `CachesStayFresh` is about the part of an info that the server
takes from a client.

**Network client** (`ClientProofs`). `CallsAreExact` and `ExecutedOnce` hold for any
number of calls, of sessions forgotten and of connections lost. `NetInv` has two
parts beside the types:

* `NoneForgotten`: while the server has forgotten no session, nothing that is
  under way says "unknown" (`Genuine`), so no call is repeated for that reason, and
  what is repeated after a failed send has not been written (`Written`): at most one
  copy of a request is on its way or executed. This needs nothing of the network.
* `Behaved`: on a kept connection that holds (`Smooth`), one receive is pending or
  about to be (`Connected`), the request under way is at one place, or its
  answer is (`Stage`, `Coming`), and that answer is the right one for what the
  server has done (`Replies`). `Known` counts how often the server must have
  forgotten the session for the client to be told so once or twice; without it
  the second `INVALID_SESSION` of a call, which makes the call fail, could come
  after one loss of the sessions.

`NetClientTypeCorrect` adds that a receive is pending only on an open socket.

An answer cut between its two newlines counts as a disturbance in `Smooth`,
because `recvData` starts counting newlines anew with every piece.

**Network server on completion ports** (`NetServerWinProofs`).
`SocketsAreDeletedOnce`, `AnswersStayInOrder`, `QueuesAreSent` and
`RequestsStayInOrder` hold without hypotheses, for any number of threads, clients
and accept contexts (`WinTypeCorrect` for finitely many threads, since the exit
packets are counted). One invariant, `WinInv`, has a part per client:

* `Alone`: one thread at most receives for a client and one sends to it, and the
  context each has taken is marked so. This is what makes the next parts true of
  a pool in which any thread may take any completion.
* `Counted`: the reference count is the number of holders (`doAccept`, the receive,
  the send), and the list has the sockets with a count above zero. Threads that
  are terminated keep their references, so that from then on (`Frozen`) the
  count is only at least that number and nothing but the deletion of the list can
  follow.
* `Own`: requests are numbered; those executed, those in a thread's hands or in an
  accept buffer, and those that have not arrived follow one another. It needs
  `Accepted`: a client has one completed accept, and the context of a thread
  that has not reposted it is nobody else's.
* `InOrder`: the blocks sent, the block under way, the queue and what the
  answering thread has still to queue are, in this order, the blocks answered.
  Each handler moves one block along this line (`BlockQueued`, `BlockHeld`,
  `BlockSent`).

**Network server on boost::asio** (`NetServerAsioProofs`).
`AsioTypeCorrect`, `SocketsAreDeletedOnce`, `RequestsAreFramed` and `AnswersAreNotLost` need no hypothesis
but `NetAssumption`: buffers and answers are not empty (an answer ends in two line
ends), and clients send sequences of the three tokens, of any length. The
invariant `AsioInv` has a part per socket:

* `Counted`: the reference count is the number of holders, that is the chain of
  receive handlers, the send under way and the send handlers that have still to
  release. `DeletedOnce` alone says nothing of who will release what.
* `Framed` states that what was received is cut at the ends of requests
  (`Split`), and that `recvBuffer` is what came after the last of them (`Open`).
  The lemmas on `Boundaries` say how the ends of requests change when bytes are
  appended: whether a newline ends a request depends on the newlines before it, so
  a request received up to the middle of them must not be seen as ended, nor the
  rest as a new one.
* `Queued`: unless a send was cut short, a queue that is not empty is being sent
  or about to be.
* `Resting` gives the place of every byte of an answer: on the wire, in the blocks
  of the queue, of the first one only what is sent (`Block`), or in what `sendData`
  has still to queue, in this order (`Flow`). `postToSendQueue` queues all that is
  left, not one block, so between it and the subtraction of `nNow` the next
  block is in both places (`Resent`); before it nothing is (`Fresh`). When an answer is
  longer than a buffer its end is queued again each time round, which is
  why `NothingIsLost` excludes repetition only for answers that fit.

Only model-checked: liveness (`ExpiredAreDeleted`, `StopEnds`, `EndsOnSigint`,
`QueueIsEmptied`, `ConnectionsAreTaken`, `CallReturns`), which rests on fairness and
is out of the prover's reach. Every other property that a passing run checks is
the subject of a theorem.

## 5. Not modelled

* TLS: both sides wrap the stream they would send anyway; only the client's
  handshake, which can block, is in `NetClient`.
* Read levels of users and books (their statements are not valid SQL, and the
  client's `getReadLevel`, `setReadLevel` and `getAuthItems` name commands the
  server does not know), gender, authors, publishers, `getLicense`.
* Descriptions and read levels cached by client objects (the same code as the
  cached info), and client calls that only pass a request on. `changePassword`
  of the client distinguishes results the server does not send.
* The checksum of session ids, passwords' hashes, the parsing and formatting of
  JSON, configuration and command lines: pure functions of their input.
* Data races on the client's socket pointer and receive buffer, and the order
  of `AcceptEx` and the assignment of `sockClient`.
* The layout of windows, logging, the object factory, reading credentials, and
  MagicDB, which no other part uses.

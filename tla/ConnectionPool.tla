--------------------------- MODULE ConnectionPool ---------------------------
(***************************************************************************)
(* CConnectionPool: the connections to MySQL and Sphinx that the worker    *)
(* threads of the server share.  Every class that runs SQL takes a         *)
(* connection with getConnection and gives it back with releaseConnection, *)
(* mostly through a shared_ptr with MYSQL_CONN_RELEASER as its deleter.    *)
(*                                                                         *)
(* The pool has no mutex: getConnection and releaseConnection are split    *)
(* into the steps at which a second thread finds the two sets half-way,    *)
(* and any number of threads may be inside.  Two that are inside for the   *)
(* same kind of connection have a data race on its sets.  `raced' keeps    *)
(* the kinds this has happened to: what their sets hold is then whatever   *)
(* the steps leave there in any order, and an access to them may crash.    *)
(***************************************************************************)
EXTENDS Integers, FiniteSets

CONSTANTS
  Workers,     \* the threads that serve requests
  RegIDs,      \* the registered kinds: REGID_MYSQL_CONN, REGID_SPHINX_CONN
  MySQL,       \* REGID_MYSQL_CONN
  Conns,       \* the sql::Connection objects there can be of one kind
  NoConn,      \* no connection at hand
  Nesting,     \* the connections one request holds at the same time
  LeakLimit    \* bound: how many connections may leak

ASSUME PoolAssumption ==
  /\ MySQL \in RegIDs /\ NoConn \notin Conns
  /\ Nesting \in Nat /\ LeakLimit \in Nat

VARIABLES
  registered,  \* the keys of m_mapConn
  pConn,       \* pConn[r]: the connections of kind r nobody uses
  pConnInUse,  \* pConnInUse[r]: those handed out
  held,        \* held[w]: the <<kind, connection>> w has and will return
  leaked,      \* those that were handed out and nobody will return
  at,          \* at[w]: where in the pool w is, "out" if it is not inside
  arg,         \* arg[w]: the RegID and the connection w is busy with
  alive,       \* the pool has not been destroyed
  raced        \* history: the kinds for which two threads have met inside

poolVars == <<registered, pConn, pConnInUse, held, leaked, at, arg, alive, raced>>

PoolTypeOK ==
  /\ registered \subseteq RegIDs /\ raced \subseteq RegIDs
  /\ pConn \in [RegIDs -> SUBSET Conns]
  /\ pConnInUse \in [RegIDs -> SUBSET Conns]
  /\ held \in [Workers -> SUBSET (RegIDs \X Conns)]
  /\ leaked \subseteq RegIDs \X Conns
  /\ at \in [Workers -> {"out", "get", "begin", "move", "erase"}]
  /\ arg \in [Workers -> RegIDs \X (Conns \union {NoConn})]
  /\ alive \in BOOLEAN

PoolInit ==
  /\ registered = {} /\ leaked = {} /\ alive = TRUE /\ raced = {}
  /\ pConn      = [r \in RegIDs |-> {}]
  /\ pConnInUse = [r \in RegIDs |-> {}]
  /\ held = [w \in Workers |-> {}]
  /\ at   = [w \in Workers |-> "out"]
  /\ arg  = [w \in Workers |-> <<MySQL, NoConn>>]

-----------------------------------------------------------------------------
(* createConnection, when connect succeeds: a new object; after an         *)
(* exception the pool is as it was.                                        *)
createConnection(r) ==
  LET new == Conns \ (pConn[r] \union pConnInUse[r]) IN
  \E c \in new : pConn' = [pConn EXCEPT ![r] = @ \union {c}]

(* registerConnection, when it can connect; when it cannot nothing changes.*)
registerConnection(r) ==
  /\ createConnection(r)
  /\ registered' = registered \union {r}
  /\ UNCHANGED <<pConnInUse, held, leaked, at, arg, alive, raced>>

-----------------------------------------------------------------------------
(* Entering the pool, and the race that another thread inside makes of it. *)

InsideFor(w, r) == at[w] # "out" /\ arg[w][1] = r

MayEnter(w) == at[w] = "out"

Enter(w, r) ==
  raced' = IF \E v \in Workers \ {w} : InsideFor(v, r) THEN raced \union {r} ELSE raced

Step(w, to, a) == at' = [at EXCEPT ![w] = to] /\ arg' = [arg EXCEPT ![w] = a]

Leave(w) == Step(w, "out", <<MySQL, NoConn>>)

-----------------------------------------------------------------------------
(* getConnection, called by worker w *)

(* m_mapConn.find: an unknown RegID answers nullptr at once.  A request    *)
(* takes a second connection to MySQL inside CUser::returnBook; queryByName*)
(* takes one to Sphinx, with one to MySQL in its hands.                    *)
getConnection(w, r) ==
  /\ MayEnter(w)
  /\ r \in registered
  /\ Cardinality(held[w]) < Nesting
  /\ \A p \in held[w] : p[1] = MySQL
  /\ r # MySQL => held[w] # {}
  /\ Enter(w, r) /\ Step(w, "get", <<r, NoConn>>)
  /\ UNCHANGED <<registered, pConn, pConnInUse, held, leaked, alive>>

(* With no free connection one more is made.                               *)
Provide(w) ==
  LET r == arg[w][1] IN
  /\ at[w] = "get"
  /\ \/ pConn[r] # {} /\ UNCHANGED pConn
     \/ pConn[r] = {} /\ createConnection(r)
  /\ Step(w, "begin", arg[w])
  /\ UNCHANGED <<registered, pConnInUse, held, leaked, alive, raced>>

(* The new connection is refused: nullptr.                                 *)
Refused(w) ==
  /\ at[w] = "get"
  /\ pConn[arg[w][1]] = {}
  /\ Leave(w)
  /\ UNCHANGED <<registered, pConn, pConnInUse, held, leaked, alive, raced>>

(* pConn.begin(): the set is ordered by address, so any of them.  That it  *)
(* is empty takes a race, and then dereferencing begin() is a crash.       *)
Begin(w) ==
  /\ at[w] = "begin"
  /\ \E c \in pConn[arg[w][1]] : Step(w, "move", <<arg[w][1], c>>)
  /\ UNCHANGED <<registered, pConn, pConnInUse, held, leaked, alive, raced>>

(* It is closed and reconnect throws: the connection stays with the free   *)
(* ones and the request fails.  In queryByName nobody catches this, so the *)
(* connection to MySQL it already has is never returned.                   *)
ReconnectThrows(w) ==
  LET r == arg[w][1] IN
  /\ at[w] = "move"
  /\ \/ r = MySQL /\ UNCHANGED <<held, leaked>>
     \/ /\ r # MySQL /\ Cardinality(leaked) < LeakLimit
        /\ leaked' = leaked \union held[w]
        /\ held'   = [held EXCEPT ![w] = {}]
  /\ Leave(w)
  /\ UNCHANGED <<registered, pConn, pConnInUse, alive, raced>>

(* Wrong on purpose: the connection stays with the free ones.              *)
MoveNoErase(w) ==
  LET r == arg[w][1]  c == arg[w][2] IN
  /\ at[w] = "move"
  /\ pConnInUse' = [pConnInUse EXCEPT ![r] = @ \union {c}]
  /\ held' = [held EXCEPT ![w] = @ \union {arg[w]}]
  /\ Leave(w)
  /\ UNCHANGED <<registered, pConn, leaked, alive, raced>>

(* erase and insert, and the connection is returned.                       *)
Move(w) ==
  LET r == arg[w][1]  c == arg[w][2] IN
  /\ at[w] = "move"
  /\ pConn'      = [pConn EXCEPT ![r] = @ \ {c}]
  /\ pConnInUse' = [pConnInUse EXCEPT ![r] = @ \union {c}]
  /\ held' = [held EXCEPT ![w] = @ \union {arg[w]}]
  /\ Leave(w)
  /\ UNCHANGED <<registered, leaked, alive, raced>>

-----------------------------------------------------------------------------
(* Wrong on purpose: the connection is not put back.                       *)
releaseForgets(w) ==
  /\ MayEnter(w)
  /\ \E p \in held[w] : /\ held' = [held EXCEPT ![w] = @ \ {p}]
                        /\ p[2] \in pConnInUse[p[1]]
                        /\ Enter(w, p[1]) /\ UNCHANGED <<pConn, at, arg>>
  /\ UNCHANGED <<registered, pConnInUse, leaked, alive>>

(* releaseConnection(r, c): a connection that is not in use is ignored,    *)
(* any other goes back to the free ones and then ...                       *)
releaseConnection(w) ==
  /\ MayEnter(w)
  /\ \E p \in held[w] :
       /\ held' = [held EXCEPT ![w] = @ \ {p}]
       /\ Enter(w, p[1])
       /\ \/ /\ p[2] \notin pConnInUse[p[1]]
             /\ UNCHANGED <<pConn, at, arg>>
          \/ /\ p[2] \in pConnInUse[p[1]]
             /\ pConn' = [pConn EXCEPT ![p[1]] = @ \union {p[2]}]
             /\ Step(w, "erase", p)
  /\ UNCHANGED <<registered, pConnInUse, leaked, alive>>

(* ... is erased from the used ones.                                       *)
Erase(w) ==
  LET r == arg[w][1] IN
  /\ at[w] = "erase"
  /\ pConnInUse' = [pConnInUse EXCEPT ![r] = @ \ {arg[w][2]}]
  /\ Leave(w)
  /\ UNCHANGED <<registered, pConn, held, leaked, alive, raced>>

(* CLibrary::verify returns without releasing its connection.              *)
verify(w) ==
  /\ at[w] = "out"
  /\ Cardinality(leaked) < LeakLimit
  /\ \E c \in Conns : held[w] = {<<MySQL, c>>}
  /\ leaked' = leaked \union held[w]
  /\ held'   = [held EXCEPT ![w] = {}]
  /\ UNCHANGED <<registered, pConn, pConnInUse, at, arg, alive, raced>>

(* Whoever is inside for a kind that two threads have met for may crash.   *)
Damaged(w) == \E r \in raced : InsideFor(w, r)

(* The destructor deletes the connections of both sets.                    *)
Destroy ==
  /\ alive /\ alive' = FALSE
  /\ pConn'      = [r \in RegIDs |-> {}]
  /\ pConnInUse' = [r \in RegIDs |-> {}]
  /\ UNCHANGED <<registered, held, leaked, at, arg, raced>>

-----------------------------------------------------------------------------
(* What one worker does in the pool.                                       *)
WorkerStep(w) ==
  \/ \E r \in RegIDs : getConnection(w, r)
  \/ Provide(w)
  \/ Begin(w) \/ ReconnectThrows(w) \/ Move(w)
  \/ releaseConnection(w) \/ Erase(w) \/ verify(w)

(* The steps that finish what a worker has begun.                          *)
WorkerProgress(w) ==
  Provide(w) \/ Begin(w) \/ Move(w) \/ releaseConnection(w) \/ Erase(w)

(* The request w serves is over.                                           *)
Idle(w) == at[w] = "out" /\ held[w] = {}

(* The pool by itself: registered once, used, destroyed when all are idle. *)
PoolNext ==
  \/ \E r \in RegIDs \ registered : alive /\ registerConnection(r)
  \/ \E w \in Workers : alive /\ (WorkerStep(w) \/ Refused(w))
  \/ (\A w \in Workers : Idle(w)) /\ Destroy

PoolSpec == PoolInit /\ [][PoolNext]_poolVars

-----------------------------------------------------------------------------
(* Of every kind for which no two threads have yet met inside the pool: a  *)
(* connection that a worker has is used by no other worker and is neither  *)
(* leaked nor among the free ones, where the next request would take it.   *)
(* Requests may nest, fail and overlap in every other way, and what a race *)
(* does to one kind does not spread to the others.                         *)
ExclusiveUse ==
  \A w \in Workers : \A p \in held[w] :
    p[1] \notin raced =>
      /\ p[2] \notin pConn[p[1]] /\ p \notin leaked
      /\ \A v \in Workers \ {w} : p \notin held[v]

(* Of every such kind each connection that is open is free, some thread    *)
(* has it and will return it, or it leaked in one of two places: verify,   *)
(* and queryByName when the connection to Sphinx cannot be had again.      *)
(* None is lost in any other way, however requests fail; and one is opened *)
(* only when all others are in use, so their number is bounded by what the *)
(* threads hold at once and by what has leaked.                            *)
NothingLost ==
  \A r \in RegIDs \ raced :
    /\ \A c \in pConnInUse[r] :
         \/ <<r, c>> \in leaked
         \/ \E w \in Workers : <<r, c>> \in held[w]
         \/ \E w \in Workers : at[w] = "erase" /\ arg[w] = <<r, c>> /\ c \in pConn[r]
    /\ Cardinality(pConn[r] \union pConnInUse[r])
         <= Nesting * Cardinality(Workers) + Cardinality(leaked)

=============================================================================

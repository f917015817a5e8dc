---------------------------- MODULE SessionManager ----------------------------
(***************************************************************************)
(* CSessionManager: the table of client sessions of the server, the worker *)
(* threads of CNetServer that create sessions and serve requests in them,  *)
(* the cleaner thread that removes sessions nobody used for a while, and   *)
(* the main thread that stops the server.                                  *)
(*                                                                         *)
(* Two kinds of mutex order the threads: m_mutexMap protects the table and *)
(* the cleaner's queue, and each session has a mutexSession.  Everything a *)
(* thread does while it holds m_mutexMap is one action.  Between two       *)
(* actions a worker holds a raw pointer to its session, and the mutex that *)
(* is to protect the session is a member of it.                            *)
(***************************************************************************)
EXTENDS Integers, Sequences

CONSTANTS
  Workers,     \* the worker threads of CNetServer
  Objs,        \* the addresses a TSessionEx may be allocated at
  Ids,         \* session ids that pass verifySessionID
  IPs,         \* addresses of clients
  None,        \* nullptr
  Timeout,     \* nSessionTimeout
  FirstClean,  \* the 50 sessions of nMaxClean
  IntMax,      \* the largest int
  FreshIds,    \* TRUE: the random ids in use never collide
  Prompt       \* TRUE: a worker that has looked a session up gets its mutex
               \* before the session expires

ASSUME SessionManagerAssumption ==
  /\ None \notin Objs \union Workers
  /\ Timeout \in Nat \ {0}
  /\ IntMax \in Nat \ {0} /\ FirstClean \in 1 .. IntMax
  /\ FreshIds \in BOOLEAN /\ Prompt \in BOOLEAN

VARIABLES
  live,          \* the objects that are allocated
  idSession,     \* members of TSessionEx: its id,
  strIP,         \*   the address of its client,
  age,           \*   the seconds since timeLastAccess, Timeout and more as one,
  owner,         \*   and the worker that holds mutexSession
  m_mapSessions, \* m_mapSessions[i]: the session with id i, or None
  queue,         \* the sessions from m_qCleanerHead to m_qCleanerTail
  pc, ptr, ip,   \* of each worker: where it is, its session, its client
  cleaner,       \* where the cleaner thread is
  expired,       \* the sessions that are too old by the cleaner's timeNow
  vExpired,      \* vExpiredSession
  nMaxClean,
  server         \* how far the main thread has got in stopping the server

object  == <<live, idSession, strIP, age, owner>>
table   == <<m_mapSessions, queue>>
worker  == <<pc, ptr, ip>>
sweeper == <<cleaner, expired, vExpired, nMaxClean>>
vars    == <<object, table, worker, sweeper, server>>

Elements(s) == {s[j] : j \in 1 .. Len(s)}
Distinct(s) == \A j, k \in 1 .. Len(s) : j # k => s[j] # s[k]

Init == /\ live = {}
        /\ \E i \in Ids : idSession = [o \in Objs |-> i]
        /\ \E c \in IPs : /\ strIP = [o \in Objs |-> c]
                         /\ ip = [w \in Workers |-> c]
        /\ age = [o \in Objs |-> 0]
        /\ owner = [o \in Objs |-> None]
        /\ m_mapSessions = [i \in Ids |-> None]
        /\ queue = <<>>
        /\ pc = [w \in Workers |-> "idle"]
        /\ ptr = [w \in Workers |-> None]
        /\ cleaner = "wait"
        /\ expired = {}
        /\ vExpired = <<>>
        /\ nMaxClean = FirstClean
        /\ server = "running"

-----------------------------------------------------------------------------
(* The queue of sessions, the one that was used longest ago at its head    *)

addToCleanerQueue(o) == queue' = Append(queue, o)

(* q without its k-th element.                                             *)
Unlink(q, k) == [j \in 1 .. Len(q) - 1 |-> IF j < k THEN q[j] ELSE q[j + 1]]

(* removeFromCleanerQueue and addToCleanerQueue, one after the other.  An  *)
(* object that is in no queue has null links: this step needs one that is. *)
moveToTail(o) ==
  \E k \in 1 .. Len(queue) : queue[k] = o /\ queue' = Append(Unlink(queue, k), o)

-----------------------------------------------------------------------------
(* The worker threads *)

Goto(w, place, o) ==
  /\ pc'  = [pc EXCEPT ![w] = place]
  /\ ptr' = [ptr EXCEPT ![w] = o]

(* HELLO, the part of createSession before it takes m_mutexMap.            *)
NewSession(w) ==
  /\ server = "running" /\ pc[w] = "idle"
  /\ \E o \in Objs \ live, i \in Ids, c \in IPs :
       /\ FreshIds => \A p \in live : idSession[p] # i
       /\ live'      = live \union {o}
       /\ idSession' = [idSession EXCEPT ![o] = i]
       /\ strIP'     = [strIP EXCEPT ![o] = c]
       /\ age'       = [age EXCEPT ![o] = 0]
       /\ Goto(w, "insert", o)
  /\ UNCHANGED <<owner, table, ip, sweeper, server>>

(* The rest of it.  std::map::insert keeps an entry that is there already. *)
InsertSession(w) ==
  LET i == idSession[ptr[w]] IN
  /\ pc[w] = "insert"
  /\ m_mapSessions' = IF m_mapSessions[i] = None
                      THEN [m_mapSessions EXCEPT ![i] = ptr[w]]
                      ELSE m_mapSessions
  /\ addToCleanerQueue(ptr[w])
  /\ Goto(w, "idle", None)
  /\ UNCHANGED <<object, ip, sweeper, server>>

(* Wrong on purpose: the time of the access is not recorded.               *)
getSessionUnseen(w) ==
  /\ server = "running" /\ pc[w] = "idle"
  /\ \E i \in Ids, c \in IPs :
       LET o == m_mapSessions[i] IN
       /\ o # None
       /\ moveToTail(o)
       /\ Goto(w, "found", o)
       /\ ip' = [ip EXCEPT ![w] = c]
  /\ UNCHANGED <<object, m_mapSessions, sweeper, server>>

(* DATA: getSession finds the session, whoever asks for it, and returns a  *)
(* raw pointer.  A request for an id that has no session is answered with  *)
(* INVALID_SESSION and changes nothing.                                    *)
getSession(w) ==
  /\ server = "running" /\ pc[w] = "idle"
  /\ \E i \in Ids, c \in IPs :
       LET o == m_mapSessions[i] IN
       /\ o # None
       /\ moveToTail(o)
       /\ age'     = [age EXCEPT ![o] = 0]
       /\ expired' = expired \ {o}
       /\ Goto(w, "found", o)
       /\ ip'      = [ip EXCEPT ![w] = c]
  /\ UNCHANGED <<live, idSession, strIP, owner, m_mapSessions,
                 cleaner, vExpired, nMaxClean, server>>

(* session->strIP is compared; a wrong address gets INVALID_SESSION.       *)
CheckIP(w) ==
  /\ pc[w] = "found"
  /\ IF strIP[ptr[w]] = ip[w] THEN Goto(w, "lock", ptr[w]) ELSE Goto(w, "idle", None)
  /\ UNCHANGED <<object, table, ip, sweeper, server>>

LockSession(w) ==
  /\ pc[w] = "lock" /\ owner[ptr[w]] = None
  /\ owner' = [owner EXCEPT ![ptr[w]] = w]
  /\ Goto(w, "serve", ptr[w])
  /\ UNCHANGED <<live, idSession, strIP, age, table, ip, sweeper, server>>

(* Wrong on purpose: the mutex is kept.                                    *)
ServeKeepsLock(w) ==
  /\ pc[w] = "serve"
  /\ Goto(w, "idle", None)
  /\ UNCHANGED <<object, table, ip, sweeper, server>>

(* CSession::recvRequest returns and the mutex is unlocked.                *)
Serve(w) ==
  /\ pc[w] = "serve"
  /\ owner' = [owner EXCEPT ![ptr[w]] = None]
  /\ Goto(w, "idle", None)
  /\ UNCHANGED <<live, idSession, strIP, age, table, ip, sweeper, server>>

-----------------------------------------------------------------------------
(* The cleaner thread *)

(* int arithmetic: the product wraps around, the division drops the rest.  *)
Wrap(x)   == ((x + IntMax + 1) % (2 * (IntMax + 1))) - IntMax - 1
Half(x)   == IF x >= 0 THEN x \div 2 ELSE -((-x) \div 2)
Growth(n) == Half(Wrap(n * 3))

(* The wait for the exit signal times out and the clock is read.           *)
Wake ==
  /\ cleaner = "wait" /\ server \in {"running", "draining"}
  /\ expired' = {o \in live : age[o] >= Timeout}
  /\ cleaner' = "sweep"
  /\ UNCHANGED <<object, table, worker, vExpired, nMaxClean, server>>

(* The length of the longest part of the queue, from its head, that has    *)
(* expired.  nCleanedSession stays 0, so nMaxClean decides only whether    *)
(* the loop is entered at all.                                             *)
ToClean(k) ==
  IF nMaxClean > 0
  THEN /\ \A j \in 1 .. k : queue[j] \in expired
       /\ k < Len(queue) => queue[k + 1] \notin expired
  ELSE k = 0

(* Wrong on purpose: nMaxClean is not set back after a round without work. *)
SweepNoReset ==
  /\ cleaner = "sweep"
  /\ \E k \in 0 .. Len(queue) :
       /\ ToClean(k)
       /\ vExpired' = SubSeq(queue, 1, k)
       /\ queue'    = SubSeq(queue, k + 1, Len(queue))
       /\ m_mapSessions' =
            [i \in Ids |-> IF \E j \in 1 .. k : idSession[queue[j]] = i
                           THEN None ELSE m_mapSessions[i]]
       /\ cleaner' = IF k = 0 THEN "wait" ELSE "close"
       /\ UNCHANGED nMaxClean
  /\ expired' = {}
  /\ UNCHANGED <<object, worker, server>>

(* Wrong on purpose: the last expired session is not remembered.           *)
SweepForgets ==
  /\ cleaner = "sweep"
  /\ \E k \in 0 .. Len(queue) :
       /\ ToClean(k)
       /\ vExpired' = SubSeq(queue, 1, k - 1)
       /\ queue'    = SubSeq(queue, k + 1, Len(queue))
       /\ m_mapSessions' =
            [i \in Ids |-> IF \E j \in 1 .. k : idSession[queue[j]] = i
                           THEN None ELSE m_mapSessions[i]]
       /\ cleaner'   = IF k <= 1 THEN "wait" ELSE "close"
       /\ nMaxClean' = IF k <= 1 THEN FirstClean ELSE nMaxClean
  /\ expired' = {}
  /\ UNCHANGED <<object, worker, server>>

(* Wrong on purpose: the entries stay in the table.                        *)
SweepKeepsEntries ==
  /\ cleaner = "sweep"
  /\ \E k \in 0 .. Len(queue) :
       /\ ToClean(k)
       /\ vExpired'  = SubSeq(queue, 1, k)
       /\ queue'     = SubSeq(queue, k + 1, Len(queue))
       /\ cleaner'   = IF k = 0 THEN "wait" ELSE "close"
       /\ nMaxClean' = IF k = 0 THEN FirstClean ELSE nMaxClean
  /\ expired' = {}
  /\ UNCHANGED <<object, m_mapSessions, worker, server>>

(* Wrong on purpose: the whole queue goes when its head has expired.       *)
SweepAll ==
  /\ cleaner = "sweep"
  /\ \E k \in 0 .. Len(queue) :
       /\ IF queue # <<>> /\ queue[1] \in expired THEN k = Len(queue) ELSE k = 0
       /\ vExpired' = SubSeq(queue, 1, k)
       /\ queue'    = SubSeq(queue, k + 1, Len(queue))
       /\ m_mapSessions' =
            [i \in Ids |-> IF \E j \in 1 .. k : idSession[queue[j]] = i
                           THEN None ELSE m_mapSessions[i]]
       /\ cleaner'   = IF k = 0 THEN "wait" ELSE "close"
       /\ nMaxClean' = IF k = 0 THEN FirstClean ELSE nMaxClean
  /\ expired' = {}
  /\ UNCHANGED <<object, worker, server>>

(* Under m_mutexMap the expired sessions at the head of the queue are put  *)
(* into vExpiredSession, and the entries of their ids leave the table.     *)
Sweep ==
  /\ cleaner = "sweep"
  /\ \E k \in 0 .. Len(queue) :
       /\ ToClean(k)
       /\ vExpired' = SubSeq(queue, 1, k)
       /\ queue'    = SubSeq(queue, k + 1, Len(queue))
       /\ m_mapSessions' =
            [i \in Ids |-> IF \E j \in 1 .. k : idSession[queue[j]] = i
                           THEN None ELSE m_mapSessions[i]]
       /\ cleaner'   = IF k = 0 THEN "wait" ELSE "close"
       /\ nMaxClean' = IF k = 0 THEN FirstClean ELSE nMaxClean
  /\ expired' = {}
  /\ UNCHANGED <<object, worker, server>>

(* The mutex of the next expired session is taken and given back.          *)
CloseSession ==
  /\ cleaner = "close" /\ owner[Head(vExpired)] = None
  /\ cleaner' = "delete"
  /\ UNCHANGED <<object, table, worker, expired, vExpired, nMaxClean, server>>

(* It is deleted.  After the last one the next round may take more.        *)
DeleteSession ==
  /\ cleaner = "delete"
  /\ live'      = live \ {Head(vExpired)}
  /\ vExpired'  = Tail(vExpired)
  /\ cleaner'   = IF Len(vExpired) = 1 THEN "wait" ELSE "close"
  /\ nMaxClean' = IF Len(vExpired) = 1 THEN Growth(nMaxClean) ELSE nMaxClean
  /\ UNCHANGED <<idSession, strIP, age, owner, table, worker, expired, server>>

(* The wait ends because the exit signal is unlocked.                      *)
ExitCleaner ==
  /\ cleaner = "wait" /\ server = "stopping"
  /\ cleaner' = "exited"
  /\ UNCHANGED <<object, table, worker, expired, vExpired, nMaxClean, server>>

Cleaner == Wake \/ Sweep \/ CloseSession \/ DeleteSession \/ ExitCleaner

-----------------------------------------------------------------------------
(* The main thread, and the clock *)

(* CNetServer::stopServer closes the sockets: no request comes in any more *)
Interrupt ==
  /\ server = "running" /\ server' = "draining"
  /\ UNCHANGED <<object, table, worker, sweeper>>

(* and it joins the workers, before CSessionManager::stopServer unlocks    *)
(* m_mutexExitSignal,                                                      *)
JoinWorkers ==
  /\ server = "draining" /\ \A w \in Workers : pc[w] = "idle"
  /\ server' = "stopping"
  /\ UNCHANGED <<object, table, worker, sweeper>>

(* joins the cleaner and deletes the sessions that are left in the table.  *)
stopServer ==
  /\ server = "stopping" /\ cleaner = "exited"
  /\ server' = "stopped"
  /\ live' = live \ {m_mapSessions[i] : i \in Ids}
  /\ UNCHANGED <<idSession, strIP, age, owner, table, worker, sweeper>>

(* A second passes.                                                        *)
Tick ==
  /\ server # "stopped"
  /\ Prompt => \A w \in Workers :
                 pc[w] \in {"found", "lock"} => age[ptr[w]] + 1 < Timeout
  /\ age' = [o \in Objs |-> IF o \in live /\ age[o] < Timeout
                            THEN age[o] + 1 ELSE age[o]]
  /\ UNCHANGED <<live, idSession, strIP, owner, table, worker, sweeper, server>>

Work(w) == InsertSession(w) \/ CheckIP(w) \/ Serve(w)

Next == \/ \E w \in Workers : \/ NewSession(w) \/ getSession(w)
                              \/ Work(w) \/ LockSession(w)
        \/ Cleaner
        \/ Interrupt \/ JoinWorkers \/ stopServer
        \/ Tick

Spec == Init /\ [][Next]_vars

(* Every thread that can go on does, a request is served in finite time, a *)
(* worker is not passed over for ever at a mutex others give back, and the *)
(* clock runs.  Nothing makes a client call or the operator stop the       *)
(* server.                                                                 *)
Fairness == /\ \A w \in Workers : WF_vars(Work(w)) /\ SF_vars(LockSession(w))
            /\ WF_vars(Cleaner)
            /\ WF_vars(JoinWorkers) /\ WF_vars(stopServer)
            /\ WF_vars(Tick)

FairSpec == Spec /\ Fairness

-----------------------------------------------------------------------------
(* Properties *)

(* Every variable keeps its type, and no session is queued twice.          *)
TypeOK ==
  /\ live \subseteq Objs
  /\ idSession \in [Objs -> Ids] /\ strIP \in [Objs -> IPs]
  /\ age \in [Objs -> 0 .. Timeout]
  /\ owner \in [Objs -> Workers \union {None}]
  /\ m_mapSessions \in [Ids -> Objs \union {None}]
  /\ queue \in Seq(Objs) /\ Distinct(queue)
  /\ pc \in [Workers -> {"idle", "insert", "found", "lock", "serve"}]
  /\ ptr \in [Workers -> Objs \union {None}]
  /\ ip \in [Workers -> IPs]
  /\ cleaner \in {"wait", "sweep", "close", "delete", "exited"}
  /\ expired \subseteq Objs
  /\ vExpired \in Seq(Objs)
  /\ nMaxClean \in -IntMax - 1 .. IntMax
  /\ server \in {"running", "draining", "stopping", "stopped"}

(* Every session in the table is in the cleaner's queue, even when two     *)
(* sessions were given the same id: so getSession, which unlinks the       *)
(* session it finds, never follows the null links of one that is not.      *)
MappedAreQueued ==
  \A i \in Ids : m_mapSessions[i] # None => m_mapSessions[i] \in Elements(queue)

(* No thread is about to use a session that has been deleted: not a worker *)
(* with the pointer getSession gave it, not the cleaner, nobody through    *)
(* the queue; and the cleaner never deletes a session in whose mutex a     *)
(* worker is.                                                              *)
NoUseAfterFree ==
  /\ \A w \in Workers : pc[w] # "idle" => ptr[w] \in live
  /\ Elements(vExpired) \subseteq live
  /\ server # "stopped" => Elements(queue) \subseteq live
  /\ cleaner = "delete" => owner[Head(vExpired)] = None

(* A client that keeps calling keeps its session: an entry leaves the      *)
(* table only when its session was not used for Timeout seconds, although  *)
(* the cleaner reads the clock before it looks at the queue, and is never  *)
(* replaced.  Needs FreshIds.                                              *)
MappedUntilExpired ==
  [][\A i \in Ids :
       m_mapSessions[i] # None /\ m_mapSessions'[i] # m_mapSessions[i]
         => m_mapSessions'[i] = None /\ age[m_mapSessions[i]] >= Timeout]_vars

(* When the server has stopped, every session that was ever allocated has  *)
(* been deleted, by the cleaner or by stopServer.  Needs FreshIds.         *)
NothingLeaks == server = "stopped" => live = {}

(* nMaxClean is commented as the number of sessions cleaned at most in one *)
(* round.                                                                  *)
RoundBounded ==
  [][cleaner = "sweep" => vExpired' = <<>> \/ Len(vExpired') <= nMaxClean]_vars

(* A session that nobody uses is deleted in the end, whatever the order of *)
(* the queue, the mutex of the session and the overflow of nMaxClean do to *)
(* the cleaner.                                                            *)
ExpiredAreDeleted ==
  \A o \in Objs : o \in live /\ age[o] >= Timeout ~> o \notin live \/ age[o] < Timeout

(* The server stops once it was told to: nobody is waited for in vain.     *)
StopEnds == server = "draining" ~> server = "stopped"
=============================================================================

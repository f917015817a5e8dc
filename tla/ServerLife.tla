----------------------------- MODULE ServerLife -----------------------------
(***************************************************************************)
(* The life of the server process: main() of LiBrotherServer reads the     *)
(* configuration, launches mysqld, the Sphinx indexer and searchd through  *)
(* CProgramLauncher, opens the connection pool, starts the network server, *)
(* waits for SIGINT and takes everything down again.                       *)
(*                                                                         *)
(* The main thread, the thread of the interval task (LauncherThread), the  *)
(* signal handler, the worker threads (module ConnectionPool, used by      *)
(* whatever request they serve) and the launched programs all run on their *)
(* own.  What differs between the systems is chosen by `platform': on      *)
(* Windows the C runtime runs the handler in a thread of its own and       *)
(* WaitForProcess can give up and terminate a program, on Linux the        *)
(* handler interrupts the main thread and waitpid just waits.              *)
(***************************************************************************)
EXTENDS ConnectionPool

CONSTANTS
  Sphinx,     \* REGID_SPHINX_CONN
  Platforms   \* a subset of {"windows", "linux"}

ASSUME ServerAssumption ==
  Sphinx \in RegIDs \ {MySQL} /\ Platforms \subseteq {"windows", "linux"}

Programs == {"mysqld", "searchd"}

VARIABLES
  platform,  \* where this server runs
  config,    \* g_configSvr: nMySQLType and nSphinxType
  pc,        \* the statement of main() that is next
  code,      \* what main() will return, -1 as long as all is well
  ids,       \* nMysqld, nSearchd, nIndexer; -1: no task
  tasks,     \* m_vTasks: the tasks in the table, by id
  process,   \* process[p]: "none", "starting", "ready", "gone"
  indexer,   \* the thread of the interval task
  unlocked,  \* its pmutexLauncher has been unlocked
  cleaner,   \* CSessionManager's cleaner thread
  serving,   \* the worker threads of CNetServer exist
  mutex,     \* who holds mtxExitEvent
  handler,   \* the signal handler: "none", "lock", "done"
  notified   \* cvExitEvent has been notified

mainVars == <<platform, config, code, ids, tasks, process, indexer, unlocked,
              cleaner, serving>>
sigVars  == <<mutex, handler, notified>>
vars     == <<mainVars, pc, sigVars, poolVars>>

-----------------------------------------------------------------------------
(* loadConfig: whatever is wrong with the file, its result is FALSE;       *)
(* otherwise these settings decide what main does.  0: no, 1: local, 2:    *)
(* remote.                                                                 *)
Config == [nMySQLType : 1 .. 2, nSphinxType : 0 .. 2]

Init ==
  /\ PoolInit
  /\ platform \in Platforms
  /\ config \in Config
  /\ pc = "loadConfig" /\ code = -1
  /\ ids = [nMysqld |-> -1, nSearchd |-> -1, nIndexer |-> -1]
  /\ tasks = <<>>
  /\ process = [p \in Programs |-> "none"]
  /\ indexer = "none" /\ unlocked = FALSE
  /\ cleaner = "none" /\ serving = FALSE
  /\ mutex = "free" /\ handler = "none" /\ notified = FALSE

Lives == pc \notin {"ended", "killed", "crashed"}

(* In main's own thread a handler that runs keeps main from going on.      *)
MainRuns == ~(platform = "linux" /\ handler = "lock")

Goto(from, to) == pc = from /\ MainRuns /\ pc' = to

loadConfig ==
  /\ \/ Goto("loadConfig", "mysqld") /\ UNCHANGED code
     \/ Goto("loadConfig", "ended") /\ code' = 1
  /\ UNCHANGED <<platform, config, ids, tasks, process, indexer, unlocked,
                 cleaner, serving, sigVars, poolVars>>

-----------------------------------------------------------------------------
(* CProgramLauncher *)

(* getAvaliableTaskID: the first empty slot, or a new one at the end.      *)
getAvaliableTaskID ==
  LET empty == {i \in DOMAIN tasks : tasks[i] = "empty"} IN
  IF empty = {} THEN Cardinality(DOMAIN tasks)
  ELSE CHOOSE i \in empty : \A j \in empty : i <= j

(* runProgram with RunBackend or RunAsTask: the id and the table after it. *)
AddTask(id, name) ==
  LET n == getAvaliableTaskID IN
  /\ ids'   = [ids EXCEPT ![id] = n]
  /\ tasks' = [i \in DOMAIN tasks \union {n} |-> IF i = n THEN name ELSE tasks[i]]

(* stopProgram empties the slot of the task it has stopped.                *)
DropTask(n) == tasks' = [tasks EXCEPT ![n] = "empty"]

(* WaitForProcess(task, 30000, true): the program has ended; on Windows it *)
(* is terminated when it has not.                                          *)
WaitForProcess(p) ==
  \/ process[p] = "gone" /\ UNCHANGED process
  \/ platform = "windows" /\ process' = [process EXCEPT ![p] = "gone"]

(* LauncherThread: until the mutex is unlocked the indexer is run again    *)
(* after every nWaitTime; the task is deleted by its own thread.           *)
LauncherThread ==
  /\ \/ indexer = "sleep" /\ unlocked  /\ indexer' = "gone"
     \/ indexer = "sleep" /\ ~unlocked /\ indexer' = "run"
  /\ UNCHANGED <<platform, config, code, ids, tasks, process, unlocked, cleaner,
                 serving, pc, sigVars, poolVars>>

(* WaitForProcess(task, -1, false): it waits for the indexer without limit.*)
IndexerEnds ==
  /\ indexer = "run" /\ indexer' = "sleep"
  /\ UNCHANGED <<platform, config, code, ids, tasks, process, unlocked, cleaner,
                 serving, pc, sigVars, poolVars>>

(* A launched program gets ready, or ends by itself.                       *)
ProcessRuns(p) ==
  /\ \/ process[p] = "starting" /\ process' = [process EXCEPT ![p] = "ready"]
     \/ process[p] \in {"starting", "ready"} /\ process' = [process EXCEPT ![p] = "gone"]
  /\ UNCHANGED <<platform, config, code, ids, tasks, indexer, unlocked, cleaner,
                 serving, pc, sigVars, poolVars>>

(* connect(): a local server accepts it when it is ready, a remote one may.*)
Accepts(p, type) == type = 2 \/ process[p] = "ready"

-----------------------------------------------------------------------------
(* main(), up to the network server *)

Launch(id, p, from, ok) ==
  /\ Goto(from, ok)
  /\ AddTask(id, p)
  /\ process' = [process EXCEPT ![p] = "starting"]
  /\ UNCHANGED <<platform, config, code, indexer, unlocked, cleaner, serving,
                 sigVars, poolVars>>

runMysqld ==
  \/ /\ config.nMySQLType = 2
     /\ Goto("mysqld", "initMySQL")
     /\ UNCHANGED <<mainVars, sigVars, poolVars>>
  \/ /\ config.nMySQLType = 1
     /\ Launch("nMysqld", "mysqld", "mysqld", "initMySQL")
  \/ /\ config.nMySQLType = 1            \* it cannot be executed
     /\ Goto("mysqld", "ended") /\ code' = 2
     /\ UNCHANGED <<platform, config, ids, tasks, process, indexer, unlocked,
                    cleaner, serving, sigVars, poolVars>>

(* A mysqld that has just been launched may not accept connections yet.    *)
initMySQL ==
  \/ /\ Goto("initMySQL", "runSearchd")
     /\ Accepts("mysqld", config.nMySQLType)
     /\ registerConnection(MySQL)
     /\ UNCHANGED <<mainVars, sigVars>>
  \/ /\ Goto("initMySQL", "stopMysql") /\ code' = 3
     /\ UNCHANGED <<platform, config, ids, tasks, process, indexer, unlocked,
                    cleaner, serving, sigVars, poolVars>>

(* With a local Sphinx the indexer is run first, if it can be executed.    *)
runSearchd ==
  \/ /\ config.nSphinxType # 1
     /\ Goto("runSearchd", "initSphinx")
     /\ UNCHANGED <<mainVars, sigVars, poolVars>>
  \/ /\ config.nSphinxType = 1
     /\ Goto("runSearchd", "firstIndexer") \/ Goto("runSearchd", "launchSearchd")
     /\ UNCHANGED <<mainVars, sigVars, poolVars>>

(* RunWait: main waits, without limit, for the program it has run; `Helper'*)
(* are the statements at which it does.                                    *)
Helper == {"firstIndexer", "askSearchd", "askMysqld"}

HelperEnds(from, to) == Goto(from, to) /\ UNCHANGED <<mainVars, sigVars, poolVars>>

firstIndexer == HelperEnds("firstIndexer", "launchSearchd")

(* Without searchd there is no full-text search.                           *)
launchSearchd ==
  \/ Launch("nSearchd", "searchd", "launchSearchd", "runIndexer")
  \/ /\ Goto("launchSearchd", "initSphinx")
     /\ config' = [config EXCEPT !.nSphinxType = 0]
     /\ UNCHANGED <<platform, code, ids, tasks, process, indexer, unlocked,
                    cleaner, serving, sigVars, poolVars>>

runIndexer ==
  /\ Goto("runIndexer", "initSphinx")
  /\ AddTask("nIndexer", "indexer")
  /\ indexer' = "sleep"
  /\ UNCHANGED <<platform, config, code, process, unlocked, cleaner, serving,
                 sigVars, poolVars>>

(* Without a connection to Sphinx what was launched for it is stopped      *)
(* again; nSphinxType keeps its value, and CLibrary::queryByName finds no  *)
(* such connection later.                                                  *)
initSphinx ==
  \/ /\ config.nSphinxType = 0
     /\ Goto("initSphinx", "initNetServer")
     /\ UNCHANGED <<mainVars, sigVars, poolVars>>
  \/ /\ config.nSphinxType # 0
     /\ Goto("initSphinx", "initNetServer")
     /\ Accepts("searchd", config.nSphinxType)
     /\ registerConnection(Sphinx)
     /\ UNCHANGED <<mainVars, sigVars>>
  \/ /\ config.nSphinxType # 0
     /\ Goto("initSphinx", "stopIndexer")
     /\ UNCHANGED <<mainVars, sigVars, poolVars>>

(* WSAStartup may fail; with boost::asio there is nothing to do.           *)
initNetServer ==
  \/ /\ Goto("initNetServer", "startServer")
     /\ UNCHANGED <<mainVars, sigVars, poolVars>>
  \/ /\ platform = "windows"
     /\ Goto("initNetServer", "stopIndexer") /\ code' = 4
     /\ UNCHANGED <<platform, config, ids, tasks, process, indexer, unlocked,
                    cleaner, serving, sigVars, poolVars>>

(* CNetServer::startServer: the session manager's cleaner first, then TLS  *)
(* (which may be given up) and the port.  TLS that is forced and cannot be *)
(* had and a port that cannot be had are failures; the cleaner runs on.    *)
startServer ==
  /\ cleaner' = "running"
  /\ \/ Goto("startServer", "signal") /\ serving' = TRUE /\ UNCHANGED code
     \/ Goto("startServer", "stopIndexer") /\ code' = 5 /\ UNCHANGED serving
  /\ UNCHANGED <<platform, config, ids, tasks, process, indexer, unlocked, sigVars, poolVars>>

-----------------------------------------------------------------------------
(* waitForSigint and signalHandler *)

(* signal(SIGINT, signalHandler)                                           *)
SetHandler ==
  /\ Goto("signal", "lock")
  /\ UNCHANGED <<mainVars, sigVars, poolVars>>

LockExit ==
  /\ Goto("lock", "test")
  /\ mutex = "free" /\ mutex' = "main"
  /\ UNCHANGED <<mainVars, handler, notified, poolVars>>

(* if (!bExitEvent) cvExitEvent.wait(lock)                                 *)
TestExit ==
  /\ mutex' = "free"
  /\ \/ handler = "done" /\ Goto("test", "stopServer")
     \/ handler # "done" /\ Goto("test", "wait")
  /\ UNCHANGED <<mainVars, handler, notified, poolVars>>

(* Woken by the handler, or for no reason at all: wait is in no loop.      *)
WakeUp ==
  /\ Goto("wait", "stopServer") /\ mutex = "free"
  /\ UNCHANGED <<mainVars, sigVars, poolVars>>

(* SIGINT comes once.  Before the handler is set, and in a failed start,   *)
(* it kills the process.                                                   *)
HandlerSet == pc \in {"lock", "test", "wait", "stopServer"} \/ code = 0

Sigint ==
  /\ Lives /\ handler = "none"
  /\ \/ HandlerSet  /\ handler' = "lock" /\ UNCHANGED pc
     \/ ~HandlerSet /\ pc' = "killed"   /\ UNCHANGED handler
  /\ UNCHANGED <<mainVars, mutex, notified, poolVars>>

(* Wrong on purpose: main is not told.                                     *)
signalHandlerSilent ==
  /\ Lives /\ handler = "lock" /\ mutex = "free"
  /\ handler' = "done"
  /\ UNCHANGED <<mainVars, pc, mutex, notified, poolVars>>

(* signalHandler: lock mtxExitEvent, set bExitEvent, notify, unlock.       *)
signalHandler ==
  /\ Lives /\ handler = "lock" /\ mutex = "free"
  /\ handler' = "done"
  /\ notified' = (pc = "wait")
  /\ UNCHANGED <<mainVars, pc, mutex, poolVars>>

-----------------------------------------------------------------------------
(* The end of main() *)

(* CNetServer::stopServer joins the workers, then the cleaner.             *)
stopServer ==
  /\ Goto("stopServer", "stopIndexer")
  /\ \A w \in Workers : Idle(w)
  /\ serving' = FALSE /\ cleaner' = "joined" /\ code' = 0
  /\ UNCHANGED <<platform, config, ids, tasks, process, indexer, unlocked,
                 sigVars, poolVars>>

(* Where main goes on after stopSphinx: while it still starts, the ids are *)
(* reset and the server runs without Sphinx.                               *)
AfterSphinx == IF code = -1 THEN "resetIds" ELSE "stopMysql"

(* stopSphinx: the interval task, if there is one, ...                     *)
stopIndexer ==
  \/ /\ ids.nIndexer < 0
     /\ Goto("stopIndexer", "stopSearchd")
     /\ UNCHANGED <<mainVars, sigVars, poolVars>>
  \/ /\ ids.nIndexer >= 0
     /\ Goto("stopIndexer", "joinIndexer")
     /\ unlocked' = TRUE
     /\ UNCHANGED <<platform, config, code, ids, tasks, process, indexer, cleaner,
                    serving, sigVars, poolVars>>

joinIndexer ==
  /\ Goto("joinIndexer", "stopSearchd")
  /\ indexer = "gone"
  /\ DropTask(ids.nIndexer)
  /\ UNCHANGED <<platform, config, code, ids, process, indexer, unlocked, cleaner,
                 serving, sigVars, poolVars>>

(* ... and searchd: `searchd --stop' is run, if it can be, and may or may  *)
(* not make searchd end (ProcessRuns); then searchd is waited for.         *)
stopSearchd ==
  \/ /\ ids.nSearchd < 0
     /\ Goto("stopSearchd", AfterSphinx)
     /\ UNCHANGED <<mainVars, sigVars, poolVars>>
  \/ /\ ids.nSearchd >= 0
     /\ Goto("stopSearchd", "askSearchd") \/ Goto("stopSearchd", "waitSearchd")
     /\ UNCHANGED <<mainVars, sigVars, poolVars>>

askSearchd == HelperEnds("askSearchd", "waitSearchd")

waitSearchd ==
  /\ Goto("waitSearchd", AfterSphinx)
  /\ WaitForProcess("searchd")
  /\ DropTask(ids.nSearchd)
  /\ UNCHANGED <<platform, config, code, ids, indexer, unlocked, cleaner, serving,
                 sigVars, poolVars>>

(* Wrong on purpose: the ids of the stopped tasks are kept.                *)
resetIdsNot ==
  /\ Goto("resetIds", "initNetServer")
  /\ UNCHANGED <<mainVars, sigVars, poolVars>>

resetIds ==
  /\ Goto("resetIds", "initNetServer")
  /\ ids' = [ids EXCEPT !.nSearchd = -1, !.nIndexer = -1]
  /\ UNCHANGED <<platform, config, code, tasks, process, indexer, unlocked, cleaner,
                 serving, sigVars, poolVars>>

(* Wrong on purpose: mysqld is stopped only after a successful start.      *)
stopMysqlAtEnd ==
  /\ \/ (ids.nMysqld < 0 \/ code # 0) /\ Goto("stopMysql", "destroy")
     \/ ids.nMysqld >= 0 /\ code = 0 /\ Goto("stopMysql", "askMysqld")
  /\ UNCHANGED <<mainVars, sigVars, poolVars>>

(* `mysqladmin shutdown' is run likewise, and mysqld waited for.           *)
stopMysql ==
  \/ /\ ids.nMysqld < 0
     /\ Goto("stopMysql", "destroy")
     /\ UNCHANGED <<mainVars, sigVars, poolVars>>
  \/ /\ ids.nMysqld >= 0
     /\ Goto("stopMysql", "askMysqld") \/ Goto("stopMysql", "waitMysqld")
     /\ UNCHANGED <<mainVars, sigVars, poolVars>>

askMysqld == HelperEnds("askMysqld", "waitMysqld")

waitMysqld ==
  /\ Goto("waitMysqld", "destroy")
  /\ WaitForProcess("mysqld")
  /\ DropTask(ids.nMysqld)
  /\ UNCHANGED <<platform, config, code, ids, indexer, unlocked, cleaner, serving,
                 sigVars, poolVars>>

(* The local variables of main() go: the network server, the pool.         *)
destroy ==
  /\ Goto("destroy", "ended")
  /\ Destroy
  /\ UNCHANGED <<mainVars, sigVars>>

-----------------------------------------------------------------------------
(* The worker threads *)

(* May a new connection of kind r be had now?                              *)
CanConnect(r) == IF r = MySQL THEN Accepts("mysqld", config.nMySQLType)
                              ELSE Accepts("searchd", config.nSphinxType)

Needs(w) == at[w] = "get" /\ pConn[arg[w][1]] = {}

Work(w) ==
  /\ serving /\ Lives
  /\ pc = "stopServer" => ~Idle(w)
  /\ Needs(w) => CanConnect(arg[w][1])
  /\ WorkerStep(w)
  /\ UNCHANGED <<mainVars, pc, sigVars>>

(* A connection is refused: the callers use the nullptr at once, except    *)
(* CLibrary::queryByName, which then searches without Sphinx.              *)
WorkRefused(w) ==
  /\ serving /\ Lives
  /\ Refused(w)
  /\ pc' = IF arg[w][1] = MySQL THEN "crashed" ELSE pc
  /\ UNCHANGED <<mainVars, sigVars>>

(* A thread that is in a race inside the pool takes the server with it.    *)
WorkCrashes(w) ==
  /\ serving /\ Lives
  /\ Damaged(w)
  /\ pc' = "crashed"
  /\ UNCHANGED <<mainVars, sigVars, poolVars>>

-----------------------------------------------------------------------------
Starting == loadConfig \/ runMysqld \/ initMySQL \/ runSearchd \/ firstIndexer
              \/ launchSearchd \/ runIndexer \/ initSphinx \/ initNetServer \/ startServer
Waiting  == SetHandler \/ LockExit \/ TestExit \/ WakeUp
Stopping == stopServer \/ stopIndexer \/ joinIndexer \/ stopSearchd \/ askSearchd
              \/ waitSearchd \/ resetIds \/ stopMysql \/ askMysqld \/ waitMysqld
              \/ destroy
Main     == Starting \/ Waiting \/ Stopping

Next ==
  \/ Main
  \/ Sigint \/ signalHandler
  \/ LauncherThread \/ IndexerEnds
  \/ \E p \in Programs : ProcessRuns(p)
  \/ \E w \in Workers : Work(w) \/ WorkRefused(w) \/ WorkCrashes(w)

Spec == Init /\ [][Next]_vars

(* The server's own threads, when they can go on, do go on, and a request  *)
(* a worker serves ends: it does not take connections again and again for  *)
(* ever, but returns the last one (RequestEnds).  Nothing is assumed of    *)
(* the programs: the launched ones, the indexer and the helpers main waits *)
(* for may run for ever; nor that a thread wakes up without having been    *)
(* notified.                                                               *)
MainGoesOn == (Main /\ pc \notin Helper \union {"wait"}) \/ (WakeUp /\ notified)
WorkEnds(w) ==
  \/ WorkRefused(w) \/ WorkCrashes(w)
  \/ /\ serving /\ Lives /\ ~Idle(w)
     /\ Needs(w) => CanConnect(arg[w][1])
     /\ WorkerProgress(w)
     /\ UNCHANGED <<mainVars, pc, sigVars>>
RequestEnds(w) ==
  /\ serving /\ Lives /\ Cardinality(held[w]) = 1
  /\ releaseConnection(w)
  /\ UNCHANGED <<mainVars, pc, sigVars>>
FairSpec == /\ Spec
            /\ WF_vars(MainGoesOn) /\ WF_vars(signalHandler)
            /\ WF_vars(LauncherThread)
            /\ \A w \in Workers : WF_vars(WorkEnds(w)) /\ SF_vars(RequestEnds(w))

-----------------------------------------------------------------------------
(* The types of main's variables and of the pool it owns.                  *)
MainTypeOK ==
  /\ platform \in Platforms /\ config \in Config
  /\ code \in -1 .. 5
  /\ DOMAIN tasks \subseteq Nat
  /\ tasks \in [DOMAIN tasks -> Programs \union {"indexer", "empty"}]
  /\ ids \in [{"nMysqld", "nSearchd", "nIndexer"} -> DOMAIN tasks \union {-1}]
  /\ process \in [Programs -> {"none", "starting", "ready", "gone"}]
  /\ indexer \in {"none", "sleep", "run", "gone"} /\ unlocked \in BOOLEAN
  /\ cleaner \in {"none", "running", "joined"} /\ serving \in BOOLEAN
  /\ mutex \in {"free", "main"} /\ handler \in {"none", "lock", "done"}
  /\ notified \in BOOLEAN

TypeOK == PoolTypeOK /\ MainTypeOK

(* When main() returns, for whatever reason, none of the programs it has   *)
(* launched is still running and the interval task has ended: every error  *)
(* path of main() stops what was started before it.                        *)
NoOrphan == pc = "ended" => /\ \A p \in Programs : process[p] \in {"none", "gone"}
                            /\ indexer \in {"none", "gone"}

(* stopProgram is only called for a task that is in the table:             *)
(* m_vTasks[nID] is dereferenced without a test, so a second stop of the   *)
(* same task would be one of a null pointer.                               *)
StopsKnownTasks ==
  LET known(id, name) == ids[id] >= 0 => tasks[ids[id]] = name IN
  /\ pc \in {"stopIndexer", "joinIndexer"} => known("nIndexer", "indexer")
  /\ pc \in {"stopSearchd", "waitSearchd"} => known("nSearchd", "searchd")
  /\ pc \in {"stopMysql", "waitMysqld"}   => known("nMysqld", "mysqld")

(* Where main, or the thread it joins, waits for a program to end, for as  *)
(* long as that takes: a helper, the indexer of the interval task, and, on *)
(* Linux, where WaitForProcess has no time-out, searchd and mysqld.        *)
AwaitsProgram ==
  \/ pc \in Helper
  \/ pc = "joinIndexer" /\ indexer = "run"
  \/ platform = "linux" /\ pc = "waitSearchd" /\ process["searchd"] # "gone"
  \/ platform = "linux" /\ pc = "waitMysqld"  /\ process["mysqld"] # "gone"

(* Once SIGINT has been taken the server ends, however the signal falls    *)
(* between the statements of waitForSigint, whatever the worker threads    *)
(* are doing and whichever parts had been started: unless it waits for     *)
(* ever for a program that never ends.  On Windows the signal is taken as  *)
(* soon as it comes, on Linux only when the handler has returned.          *)
SigintTaken == handler = "done" \/ (platform = "windows" /\ handler = "lock")

EndsOnSigint == (SigintTaken ~> ~Lives) \/ <>[]AwaitsProgram

(* waitForSigint's comment: it "waits for the command that ends the        *)
(* service".  So a signal that has come is acted upon: its handler gets to *)
(* the end.                                                                *)
HandlerReturns == handler = "lock" ~> (handler = "done" \/ ~Lives)
=============================================================================

-------------------------- MODULE ServerLifeProofs --------------------------
(***************************************************************************)
(* Proofs about ConnectionPool and about ServerLife, which runs it inside  *)
(* main().                                                                 *)
(*                                                                         *)
(* The pool first, for every set of threads, kinds and connections and     *)
(* every depth of nesting, threads meeting inside it as they please: of    *)
(* every kind for which no two have met yet, no two requests share a       *)
(* connection and none is lost.  The argument is about one connection at a *)
(* time (ConnInv): it is free, taken, used, leaked or being erased, and    *)
(* every step moves at most one thread's connections from one of these to  *)
(* the next, as long as nobody else is inside for the same kind (AloneIn). *)
(*                                                                         *)
(* Then the server, for every set of worker threads, every platform and    *)
(* configuration: what main() has launched it has stopped when it returns, *)
(* only tasks that are in the launcher's table are stopped, and the pool's *)
(* promises hold throughout the life of the server.                        *)
(***************************************************************************)
EXTENDS ServerLife, FunctionTheorems, FiniteSetTheorems, TLAPS

(* What a thread does with connection c of kind r.                         *)
Holds(w, r, c)  == <<r, c>> \in held[w]
Takes(w, r, c)  == at[w] = "move"  /\ arg[w] = <<r, c>>
Erases(w, r, c) == at[w] = "erase" /\ arg[w] = <<r, c>>

(* One connection of a kind no two threads have met for: what is held is   *)
(* used, not free, not leaked, and held once; what leaked is used; what is *)
(* about to be taken is free, what is about to be erased is in both sets;  *)
(* and what is used is held or leaked, or someone is about to erase it.    *)
ConnInv(r, c) ==
  /\ \A w \in Workers : Holds(w, r, c) =>
       c \in pConnInUse[r] /\ c \notin pConn[r] /\ <<r, c>> \notin leaked
  /\ \A v, w \in Workers : Holds(v, r, c) /\ Holds(w, r, c) => v = w
  /\ <<r, c>> \in leaked => c \in pConnInUse[r] /\ c \notin pConn[r]
  /\ \A w \in Workers : Takes(w, r, c)  => c \in pConn[r] /\ c \notin pConnInUse[r]
  /\ \A w \in Workers : Erases(w, r, c) => c \in pConn[r] /\ c \in pConnInUse[r]
  /\ c \in pConnInUse[r] =>
       \/ c \notin pConn[r] /\ (<<r, c>> \in leaked \/ \E w \in Workers : Holds(w, r, c))
       \/ \E w \in Workers : Erases(w, r, c)

(* At most one thread is inside the pool for kind r.                       *)
AloneIn(r) == \A v, w \in Workers : InsideFor(v, r) /\ InsideFor(w, r) => v = w

AllAlone == \A r \in RegIDs \ raced : AloneIn(r)

AllConns == \A r \in RegIDs \ raced : \A c \in Conns : ConnInv(r, c)

(* Who takes or erases has a connection in mind.                           *)
ArgOK == \A w \in Workers : at[w] \in {"move", "erase"} => arg[w][2] \in Conns

PoolInv == /\ PoolTypeOK /\ ArgOK /\ AllAlone
           /\ alive => AllConns
           /\ ~alive => \A w \in Workers : Idle(w)

-----------------------------------------------------------------------------
(* Nothing about connection c of kind r changes.                           *)
Same(r, c) ==
  /\ c \in pConn'[r] <=> c \in pConn[r]
  /\ c \in pConnInUse'[r] <=> c \in pConnInUse[r]
  /\ <<r, c>> \in leaked' <=> <<r, c>> \in leaked
  /\ \A w \in Workers : /\ <<r, c>> \in held'[w] <=> <<r, c>> \in held[w]
                        /\ (at'[w] = "move" /\ arg'[w] = <<r, c>>) <=> Takes(w, r, c)
                        /\ (at'[w] = "erase" /\ arg'[w] = <<r, c>>) <=> Erases(w, r, c)

LEMMA SameKeeps ==
  ASSUME NEW r, NEW c, ConnInv(r, c), Same(r, c)
  PROVE  ConnInv(r, c)'
  BY DEF ConnInv, Same, Holds, Takes, Erases

(* The kinds that are clean after a step were clean before it, as far as   *)
(* `raced' only grows.                                                     *)
LEMMA EnterGrows == ASSUME NEW w, NEW s, Enter(w, s) PROVE raced \subseteq raced'
  BY DEF Enter

(* Where the threads are after a step of thread w.                         *)
LEMMA Stepped ==
  ASSUME PoolTypeOK, NEW w \in Workers, NEW to, NEW a, Step(w, to, a)
  PROVE  /\ at'[w] = to /\ arg'[w] = a
         /\ \A v \in Workers : v # w => at'[v] = at[v] /\ arg'[v] = arg[v]
  BY DEF Step, PoolTypeOK

LEMMA StepTypes ==
  ASSUME PoolTypeOK, NEW w \in Workers, NEW to, NEW a, Step(w, to, a),
         to \in {"out", "get", "begin", "move", "erase"},
         a \in RegIDs \X (Conns \union {NoConn})
  PROVE  /\ at' \in [Workers -> {"out", "get", "begin", "move", "erase"}]
         /\ arg' \in [Workers -> RegIDs \X (Conns \union {NoConn})]
  BY DEF Step, PoolTypeOK

LEMMA LeaveIsStep ==
  ASSUME NEW w, Leave(w)
  PROVE  /\ Step(w, "out", <<MySQL, NoConn>>)
         /\ <<MySQL, NoConn>> \in RegIDs \X (Conns \union {NoConn})
  BY PoolAssumption DEF Leave

(* A thread that was inside for r, or enters for s and finds out who else  *)
(* is there, leaves the clean kinds with one thread inside.                *)
LEMMA AloneKept ==
  ASSUME AllAlone, NEW w \in Workers, NEW s \in RegIDs, raced \subseteq raced',
         \A v \in Workers : v # w => at'[v] = at[v] /\ arg'[v] = arg[v],
         \A r \in RegIDs : at'[w] # "out" /\ arg'[w][1] = r =>
                              InsideFor(w, r) \/ (r = s /\ Enter(w, s))
  PROVE  AllAlone'
<1> SUFFICES ASSUME NEW r \in RegIDs, r \notin raced',
                    NEW u \in Workers, NEW v \in Workers,
                    at'[u] # "out", arg'[u][1] = r, at'[v] # "out", arg'[v][1] = r
             PROVE  u = v
  BY DEF AllAlone, AloneIn, InsideFor
<1>1. AloneIn(r) BY DEF AllAlone
<1>2. ASSUME NEW x \in Workers, x # w, at'[x] # "out", arg'[x][1] = r,
             at'[w] # "out", arg'[w][1] = r
      PROVE  FALSE
  <2>1. InsideFor(x, r) BY <1>2 DEF InsideFor
  <2>2. CASE InsideFor(w, r) BY <1>1, <1>2, <2>1, <2>2 DEF AloneIn
  <2>3. CASE r = s /\ Enter(w, s) BY <1>2, <2>1, <2>3 DEF Enter
  <2> QED BY <1>2, <2>2, <2>3
<1>3. CASE u # w /\ v # w BY <1>1, <1>3 DEF AloneIn, InsideFor
<1> QED BY <1>2, <1>3

(* createConnection adds one connection that is in neither set.            *)
LEMMA AddedConnection ==
  ASSUME PoolTypeOK, NEW r \in RegIDs, createConnection(r)
  PROVE  \E d \in Conns : /\ d \notin pConn[r] /\ d \notin pConnInUse[r]
                          /\ \A s \in RegIDs : pConn'[s] = IF s = r THEN pConn[s] \union {d}
                                                                    ELSE pConn[s]
                          /\ pConn' \in [RegIDs -> SUBSET Conns]
<1>1. PICK d \in Conns : /\ d \notin pConn[r] /\ d \notin pConnInUse[r]
                         /\ pConn' = [pConn EXCEPT ![r] = @ \union {d}]
  BY DEF createConnection
<1>2. pConn \in [RegIDs -> SUBSET Conns] BY DEF PoolTypeOK
<1>3. \A s \in RegIDs : pConn'[s] = IF s = r THEN pConn[s] \union {d} ELSE pConn[s]
  BY <1>1, <1>2
<1>4. pConn' \in [RegIDs -> SUBSET Conns] BY <1>1, <1>2
<1> QED BY <1>1, <1>3, <1>4

(* A new connection of a clean kind is nobody's yet.                       *)
LEMMA NewIsFree ==
  ASSUME NEW r, NEW c, ConnInv(r, c), c \notin pConn[r], c \notin pConnInUse[r],
         c \in pConn'[r], c \notin pConnInUse'[r], <<r, c>> \in leaked' => <<r, c>> \in leaked,
         \A w \in Workers : /\ <<r, c>> \in held'[w] => <<r, c>> \in held[w]
                            /\ at'[w] = "erase" /\ arg'[w] = <<r, c>> => Erases(w, r, c)
  PROVE  ConnInv(r, c)'
  BY DEF ConnInv, Holds, Takes, Erases

-----------------------------------------------------------------------------
(* The pool starts in a state of PoolInv.                                  *)
LEMMA PoolInitInv == PoolInit => PoolInv
  BY PoolAssumption
  DEF PoolInit, PoolInv, PoolTypeOK, ArgOK, AllAlone, AloneIn, InsideFor, AllConns, ConnInv,
      Holds, Takes, Erases

(* registerConnection adds one connection and nothing else.                *)
LEMMA RegisterKeeps ==
  ASSUME PoolInv, alive, NEW r \in RegIDs, registerConnection(r)
  PROVE  PoolInv'
<1>1. PICK d \in Conns : /\ d \notin pConn[r] /\ d \notin pConnInUse[r]
                         /\ \A s \in RegIDs : pConn'[s] = IF s = r THEN pConn[s] \union {d}
                                                                   ELSE pConn[s]
                         /\ pConn' \in [RegIDs -> SUBSET Conns]
  BY AddedConnection DEF registerConnection, PoolInv
<1>2. /\ registered' = registered \union {r}
      /\ UNCHANGED <<pConnInUse, held, leaked, at, arg, alive, raced>>
  BY DEF registerConnection
<1>3. PoolTypeOK' BY <1>1, <1>2 DEF PoolInv, PoolTypeOK
<1>4. ArgOK' BY <1>2 DEF PoolInv, ArgOK
<1>5. AllAlone' BY <1>2 DEF PoolInv, AllAlone, AloneIn, InsideFor
<1>6. AllConns'
  <2> SUFFICES ASSUME NEW s \in RegIDs, s \notin raced, NEW c \in Conns
               PROVE  ConnInv(s, c)'
    BY <1>2 DEF AllConns
  <2>1. ConnInv(s, c) BY DEF PoolInv, AllConns
  <2>2. CASE s = r /\ c = d
    BY <1>1, <1>2, <2>1, <2>2, NewIsFree DEF Erases
  <2>3. CASE ~(s = r /\ c = d)
    BY <1>1, <1>2, <2>1, <2>3, SameKeeps DEF Same, Takes, Erases
  <2> QED BY <2>2, <2>3
<1> QED BY <1>2, <1>3, <1>4, <1>5, <1>6 DEF PoolInv

(* A step of thread w that changes no set, only where w is: what the kinds *)
(* and connections are like stays, if w does not begin to take or erase.   *)
LEMMA MovesKeep ==
  ASSUME PoolInv, alive, NEW w \in Workers, NEW to, NEW a, NEW s \in RegIDs, Step(w, to, a),
         to \in {"out", "get", "begin"}, a \in RegIDs \X (Conns \union {NoConn}),
         at[w] # "erase", raced \subseteq raced', raced' \subseteq RegIDs,
         \A r \in RegIDs : to # "out" /\ a[1] = r => InsideFor(w, r) \/ (r = s /\ Enter(w, s)),
         UNCHANGED <<registered, pConn, pConnInUse, held, leaked, alive>>
  PROVE  PoolInv'
<1>1. PoolTypeOK BY DEF PoolInv
<1>2. /\ at'[w] = to /\ arg'[w] = a
      /\ \A v \in Workers : v # w => at'[v] = at[v] /\ arg'[v] = arg[v]
  BY <1>1, Stepped
<1>3. PoolTypeOK' BY <1>1, StepTypes DEF PoolTypeOK
<1>4. ArgOK' BY <1>2 DEF PoolInv, ArgOK
<1>5. AllAlone' BY <1>2, AloneKept DEF PoolInv
<1>6. AllConns'
  <2> SUFFICES ASSUME NEW r \in RegIDs, r \notin raced', NEW c \in Conns
               PROVE  ConnInv(r, c)'
    BY DEF AllConns
  <2>1. ConnInv(r, c) BY DEF PoolInv, AllConns
  <2>2. \A v \in Workers : v # w => Takes(v, r, c)' = Takes(v, r, c)
                                    /\ Erases(v, r, c)' = Erases(v, r, c)
    BY <1>2 DEF Takes, Erases
  <2>3. ~Takes(w, r, c)' /\ ~Erases(w, r, c)' /\ ~Erases(w, r, c)
    BY <1>2 DEF Takes, Erases
  <2> QED BY <2>1, <2>2, <2>3 DEF ConnInv, Holds
<1> QED BY <1>3, <1>4, <1>5, <1>6 DEF PoolInv

LEMMA GetKeeps ==
  ASSUME PoolInv, alive, NEW w \in Workers, NEW r \in RegIDs, getConnection(w, r)
  PROVE  PoolInv'
<1>1. /\ at[w] = "out" /\ Enter(w, r) /\ Step(w, "get", <<r, NoConn>>)
      /\ UNCHANGED <<registered, pConn, pConnInUse, held, leaked, alive>>
  BY DEF getConnection, MayEnter
<1>2. raced' \subseteq RegIDs /\ raced \subseteq raced'
  BY <1>1 DEF Enter, PoolInv, PoolTypeOK
<1> QED BY <1>1, <1>2, MovesKeep

LEMMA ProvideKeeps ==
  ASSUME PoolInv, alive, NEW w \in Workers, Provide(w)
  PROVE  PoolInv'
<1>1. PICK r \in RegIDs : r = arg[w][1] BY DEF PoolInv, PoolTypeOK
<1>2. /\ at[w] = "get" /\ Step(w, "begin", arg[w])
      /\ UNCHANGED <<registered, pConnInUse, held, leaked, alive, raced>>
      /\ PoolTypeOK /\ arg[w] \in RegIDs \X (Conns \union {NoConn})
  BY DEF Provide, PoolInv, PoolTypeOK
<1>3. CASE UNCHANGED pConn
  <2>1. InsideFor(w, r) /\ raced' \subseteq RegIDs
    BY <1>1, <1>2 DEF InsideFor, PoolTypeOK
  <2> QED BY <1>1, <1>2, <1>3, <2>1, MovesKeep
<1>4. CASE createConnection(r)
  <2>1. PICK d \in Conns : /\ d \notin pConn[r] /\ d \notin pConnInUse[r]
                           /\ \A s \in RegIDs : pConn'[s] = IF s = r THEN pConn[s] \union {d}
                                                                     ELSE pConn[s]
                           /\ pConn' \in [RegIDs -> SUBSET Conns]
    BY <1>2, <1>4, AddedConnection
  <2>2. /\ at'[w] = "begin" /\ arg'[w] = arg[w]
        /\ \A v \in Workers : v # w => at'[v] = at[v] /\ arg'[v] = arg[v]
    BY <1>2, Stepped
  <2>3. PoolTypeOK' BY <1>2, <2>1, StepTypes DEF PoolTypeOK
  <2>4. ArgOK' BY <2>2 DEF PoolInv, ArgOK
  <2>5. AllAlone' BY <1>1, <1>2, <2>2, AloneKept DEF PoolInv, InsideFor
  <2>6. AllConns'
    <3> SUFFICES ASSUME NEW s \in RegIDs, s \notin raced, NEW c \in Conns
                 PROVE  ConnInv(s, c)'
      BY <1>2 DEF AllConns
    <3>1. ConnInv(s, c) BY DEF PoolInv, AllConns
    <3>2. CASE s = r /\ c = d
      <4>1. \A v \in Workers : at'[v] = "erase" /\ arg'[v] = <<s, c>> => Erases(v, s, c)
        BY <2>2 DEF Erases
      <4> QED BY <1>2, <2>1, <3>1, <3>2, <4>1, NewIsFree
    <3>3. CASE ~(s = r /\ c = d)
      <4>1. \A v \in Workers : /\ (at'[v] = "move" /\ arg'[v] = <<s, c>>) <=> Takes(v, s, c)
                               /\ (at'[v] = "erase" /\ arg'[v] = <<s, c>>) <=> Erases(v, s, c)
        BY <1>2, <2>2 DEF Takes, Erases
      <4> QED BY <1>2, <2>1, <3>1, <3>3, <4>1, SameKeeps DEF Same
    <3> QED BY <3>2, <3>3
  <2> QED BY <1>2, <2>3, <2>4, <2>5, <2>6 DEF PoolInv
<1> QED BY <1>1, <1>3, <1>4 DEF Provide

LEMMA RefusedKeeps ==
  ASSUME PoolInv, alive, NEW w \in Workers, Refused(w)
  PROVE  PoolInv'
<1>1. /\ at[w] = "get" /\ Leave(w)
      /\ UNCHANGED <<registered, pConn, pConnInUse, held, leaked, alive, raced>>
  BY DEF Refused
<1>2. raced' \subseteq RegIDs /\ raced \subseteq raced' BY <1>1 DEF PoolInv, PoolTypeOK
<1>3. /\ Step(w, "out", <<MySQL, NoConn>>) /\ MySQL \in RegIDs
      /\ <<MySQL, NoConn>> \in RegIDs \X (Conns \union {NoConn})
  BY <1>1, LeaveIsStep, PoolAssumption
<1> QED BY <1>1, <1>2, <1>3, MovesKeep

LEMMA BeginKeeps ==
  ASSUME PoolInv, alive, NEW w \in Workers, Begin(w)
  PROVE  PoolInv'
<1>1. PICK r \in RegIDs : r = arg[w][1] BY DEF PoolInv, PoolTypeOK
<1>2. PICK d \in pConn[r] : Step(w, "move", <<r, d>>) BY <1>1 DEF Begin
<1>3. /\ at[w] = "begin" /\ PoolTypeOK
      /\ UNCHANGED <<registered, pConn, pConnInUse, held, leaked, alive, raced>>
  BY DEF Begin, PoolInv
<1>4. d \in Conns /\ <<r, d>> \in RegIDs \X (Conns \union {NoConn}) BY <1>3 DEF PoolTypeOK
<1>5. /\ at'[w] = "move" /\ arg'[w] = <<r, d>>
      /\ \A v \in Workers : v # w => at'[v] = at[v] /\ arg'[v] = arg[v]
  BY <1>2, <1>3, Stepped
<1>6. PoolTypeOK' BY <1>2, <1>3, <1>4, StepTypes DEF PoolTypeOK
<1>7. ArgOK' BY <1>4, <1>5 DEF PoolInv, ArgOK
<1>8. InsideFor(w, r) BY <1>1, <1>3 DEF InsideFor
<1>9. AllAlone' BY <1>3, <1>5, <1>8, AloneKept DEF PoolInv
<1>10. AllConns'
  <2> SUFFICES ASSUME NEW s \in RegIDs, s \notin raced, NEW c \in Conns
               PROVE  ConnInv(s, c)'
    BY <1>3 DEF AllConns
  <2>1. ConnInv(s, c) /\ AloneIn(s) BY DEF PoolInv, AllConns, AllAlone
  <2>2. \A v \in Workers : v # w => Takes(v, s, c)' = Takes(v, s, c)
                                    /\ Erases(v, s, c)' = Erases(v, s, c)
    BY <1>5 DEF Takes, Erases
  <2>3. ~Takes(w, s, c) /\ ~Erases(w, s, c) /\ ~Erases(w, s, c)'
    BY <1>3, <1>5 DEF Takes, Erases
  <2>4. CASE Takes(w, s, c)'
    <3>1. s = r /\ c = d BY <1>5, <2>4 DEF Takes
    <3>2. \A v \in Workers : ~Erases(v, s, c)
      BY <1>8, <2>1, <2>3, <3>1 DEF AloneIn, Erases, InsideFor
    <3>3. c \in pConn[s] /\ c \notin pConnInUse[s]
      BY <2>1, <3>1, <3>2 DEF ConnInv
    <3> QED BY <1>3, <2>1, <2>2, <2>3, <3>3 DEF ConnInv, Holds
  <2>5. CASE ~Takes(w, s, c)'
    BY <1>3, <2>1, <2>2, <2>3, <2>5 DEF ConnInv, Holds
  <2> QED BY <2>4, <2>5
<1> QED BY <1>3, <1>6, <1>7, <1>9, <1>10 DEF PoolInv

(* What a thread holds leaks: all of it, and it is outside afterwards.     *)
LEMMA LeakKeeps ==
  ASSUME PoolInv, alive, NEW w \in Workers, Leave(w) \/ UNCHANGED <<at, arg>>,
         at[w] \in {"move", "out"}, Leave(w) \/ at[w] = "out",
         leaked' = leaked \union held[w], held' = [held EXCEPT ![w] = {}],
         UNCHANGED <<registered, pConn, pConnInUse, alive, raced>>
  PROVE  PoolInv'
<1>1. PoolTypeOK /\ held \in [Workers -> SUBSET (RegIDs \X Conns)]
  BY DEF PoolInv, PoolTypeOK
<1>2. /\ \A v \in Workers : v # w => at'[v] = at[v] /\ arg'[v] = arg[v]
      /\ at'[w] = "out"
  <2>1. CASE Leave(w) BY <1>1, <2>1, LeaveIsStep, Stepped
  <2>2. CASE UNCHANGED <<at, arg>> /\ at[w] = "out" BY <2>2
  <2> QED BY <2>1, <2>2
<1>3. \A v \in Workers : held'[v] = IF v = w THEN {} ELSE held[v] BY <1>1
<1>4. PoolTypeOK'
  <2>1. /\ at' \in [Workers -> {"out", "get", "begin", "move", "erase"}]
        /\ arg' \in [Workers -> RegIDs \X (Conns \union {NoConn})]
    <3>1. CASE Leave(w) BY <1>1, <3>1, LeaveIsStep, StepTypes
    <3>2. CASE UNCHANGED <<at, arg>> BY <1>1, <3>2 DEF PoolTypeOK
    <3> QED BY <3>1, <3>2
  <2>2. held' \in [Workers -> SUBSET (RegIDs \X Conns)] /\ leaked' \subseteq RegIDs \X Conns
    BY <1>1 DEF PoolTypeOK
  <2> QED BY <1>1, <2>1, <2>2 DEF PoolTypeOK
<1>5. ArgOK' BY <1>2 DEF PoolInv, ArgOK
<1>6. AllAlone' BY <1>2, AloneKept, PoolAssumption DEF PoolInv
<1>7. AllConns'
  <2> SUFFICES ASSUME NEW s \in RegIDs, s \notin raced, NEW c \in Conns
               PROVE  ConnInv(s, c)'
    BY DEF AllConns
  <2>1. ConnInv(s, c) BY DEF PoolInv, AllConns
  <2>2. \A v \in Workers : v # w => Takes(v, s, c)' = Takes(v, s, c)
                                    /\ Erases(v, s, c)' = Erases(v, s, c)
    BY <1>2 DEF Takes, Erases
  <2>3. ~Takes(w, s, c)' /\ ~Erases(w, s, c)' /\ ~Erases(w, s, c)
    BY <1>2 DEF Takes, Erases
  <2>4. \A v \in Workers : /\ Holds(v, s, c)' => Holds(v, s, c)
                           /\ v # w => Holds(v, s, c)' = Holds(v, s, c)
    BY <1>3 DEF Holds
  <2>5. ~Holds(w, s, c)' BY <1>3 DEF Holds
  <2>6. (<<s, c>> \in leaked)' <=> <<s, c>> \in leaked \/ Holds(w, s, c) BY DEF Holds
  <2>7. (c \in pConn[s])' = (c \in pConn[s]) /\ (c \in pConnInUse[s])' = (c \in pConnInUse[s])
    OBVIOUS
  <2> QED BY <2>1, <2>2, <2>3, <2>4, <2>5, <2>6, <2>7 DEF ConnInv
<1> QED BY <1>4, <1>5, <1>6, <1>7 DEF PoolInv

LEMMA ReconnectKeeps ==
  ASSUME PoolInv, alive, NEW w \in Workers, ReconnectThrows(w)
  PROVE  PoolInv'
<1>1. /\ at[w] = "move" /\ Leave(w)
      /\ UNCHANGED <<registered, pConn, pConnInUse, alive, raced>>
  BY DEF ReconnectThrows
<1>2. CASE UNCHANGED <<held, leaked>>
  <2>1. raced' \subseteq RegIDs /\ raced \subseteq raced' BY <1>1 DEF PoolInv, PoolTypeOK
  <2>2. /\ Step(w, "out", <<MySQL, NoConn>>) /\ MySQL \in RegIDs
        /\ <<MySQL, NoConn>> \in RegIDs \X (Conns \union {NoConn})
    BY <1>1, LeaveIsStep, PoolAssumption
  <2> QED BY <1>1, <1>2, <2>1, <2>2, MovesKeep
<1>3. CASE leaked' = leaked \union held[w] /\ held' = [held EXCEPT ![w] = {}]
  BY <1>1, <1>3, LeakKeeps
<1> QED BY <1>2, <1>3 DEF ReconnectThrows

LEMMA VerifyKeeps ==
  ASSUME PoolInv, alive, NEW w \in Workers, verify(w)
  PROVE  PoolInv'
  BY LeakKeeps DEF verify

LEMMA MoveKeeps ==
  ASSUME PoolInv, alive, NEW w \in Workers, Move(w)
  PROVE  PoolInv'
<1>1. PoolTypeOK BY DEF PoolInv
<1>2. PICK r \in RegIDs, d \in Conns : arg[w] = <<r, d>>
  BY DEF Move, PoolInv, ArgOK, PoolTypeOK
<1>3. /\ at[w] = "move" /\ Leave(w)
      /\ pConn'      = [pConn EXCEPT ![r] = @ \ {d}]
      /\ pConnInUse' = [pConnInUse EXCEPT ![r] = @ \union {d}]
      /\ held' = [held EXCEPT ![w] = @ \union {<<r, d>>}]
      /\ UNCHANGED <<registered, leaked, alive, raced>>
  BY <1>2 DEF Move
<1>4. /\ at'[w] = "out"
      /\ \A v \in Workers : v # w => at'[v] = at[v] /\ arg'[v] = arg[v]
  BY <1>1, <1>3, LeaveIsStep, Stepped
<1>5. /\ \A s \in RegIDs : pConn'[s] = IF s = r THEN pConn[s] \ {d} ELSE pConn[s]
      /\ \A s \in RegIDs : pConnInUse'[s] = IF s = r THEN pConnInUse[s] \union {d}
                                                     ELSE pConnInUse[s]
      /\ \A v \in Workers : held'[v] = IF v = w THEN held[v] \union {<<r, d>>} ELSE held[v]
  BY <1>1, <1>3 DEF PoolTypeOK
<1>6. PoolTypeOK'
  <2>1. /\ pConn' \in [RegIDs -> SUBSET Conns] /\ pConnInUse' \in [RegIDs -> SUBSET Conns]
        /\ held' \in [Workers -> SUBSET (RegIDs \X Conns)]
    BY <1>1, <1>3 DEF PoolTypeOK
  <2> QED BY <1>1, <1>3, <2>1, LeaveIsStep, StepTypes DEF PoolTypeOK
<1>7. ArgOK' BY <1>4 DEF PoolInv, ArgOK
<1>8. AllAlone' BY <1>3, <1>4, AloneKept, PoolAssumption DEF PoolInv
<1>9. AllConns'
  <2> SUFFICES ASSUME NEW s \in RegIDs, s \notin raced, NEW c \in Conns
               PROVE  ConnInv(s, c)'
    BY <1>3 DEF AllConns
  <2>1. ConnInv(s, c) /\ AloneIn(s) BY DEF PoolInv, AllConns, AllAlone
  <2>2. \A v \in Workers : v # w => Takes(v, s, c)' = Takes(v, s, c)
                                    /\ Erases(v, s, c)' = Erases(v, s, c)
    BY <1>4 DEF Takes, Erases
  <2>3. /\ ~Takes(w, s, c)' /\ ~Erases(w, s, c)' /\ ~Erases(w, s, c)
        /\ (<<s, c>> \in leaked)' = (<<s, c>> \in leaked)
    BY <1>3, <1>4 DEF Takes, Erases
  <2>4. CASE s = r /\ c = d
    <3>1. Takes(w, s, c) BY <1>2, <1>3, <2>4 DEF Takes
    <3>2. c \in pConn[s] /\ c \notin pConnInUse[s] BY <2>1, <3>1 DEF ConnInv
    <3>3. /\ \A v \in Workers : ~Holds(v, s, c) /\ ~Erases(v, s, c)
          /\ <<s, c>> \notin leaked
      BY <2>1, <3>2 DEF ConnInv
    <3>4. \A v \in Workers : v # w => ~Takes(v, s, c)
      BY <1>3, <2>1, <3>1 DEF AloneIn, InsideFor, Takes
    <3>5. \A v \in Workers : Holds(v, s, c)' <=> v = w
      BY <1>5, <2>4, <3>3 DEF Holds
    <3>6. ~(c \in pConn[s])' /\ (c \in pConnInUse[s])' BY <1>5, <2>4
    <3> QED BY <2>2, <2>3, <3>3, <3>4, <3>5, <3>6 DEF ConnInv
  <2>5. CASE ~(s = r /\ c = d)
    <3>0. <<r, d>> # <<s, c>> BY <2>5
    <3>1. ~Takes(w, s, c) BY <1>2, <3>0 DEF Takes
    <3>2. \A v \in Workers : Holds(v, s, c)' <=> Holds(v, s, c) BY <1>5, <3>0 DEF Holds
    <3>3. /\ c \in pConn'[s] <=> c \in pConn[s]
          /\ c \in pConnInUse'[s] <=> c \in pConnInUse[s]
      BY <1>5, <2>5
    <3> QED BY <2>1, <2>2, <2>3, <3>1, <3>2, <3>3 DEF ConnInv
  <2> QED BY <2>4, <2>5
<1> QED BY <1>3, <1>6, <1>7, <1>8, <1>9 DEF PoolInv

LEMMA ReleaseKeeps ==
  ASSUME PoolInv, alive, NEW w \in Workers, releaseConnection(w)
  PROVE  PoolInv'
<1>1. PoolTypeOK BY DEF PoolInv
<1>2. PICK p \in held[w] :
        /\ held' = [held EXCEPT ![w] = @ \ {p}]
        /\ Enter(w, p[1])
        /\ \/ /\ p[2] \notin pConnInUse[p[1]]
              /\ UNCHANGED <<pConn, at, arg>>
           \/ /\ p[2] \in pConnInUse[p[1]]
              /\ pConn' = [pConn EXCEPT ![p[1]] = @ \union {p[2]}]
              /\ Step(w, "erase", p)
  BY DEF releaseConnection
<1>3. PICK r \in RegIDs, d \in Conns : p = <<r, d>> BY <1>1 DEF PoolTypeOK
<1>4. p[1] = r /\ p[2] = d BY <1>3
<1>5. /\ at[w] = "out" /\ Enter(w, r)
      /\ UNCHANGED <<registered, pConnInUse, leaked, alive>>
      /\ \A v \in Workers : held'[v] = IF v = w THEN held[v] \ {<<r, d>>} ELSE held[v]
      /\ held' \in [Workers -> SUBSET (RegIDs \X Conns)]
  BY <1>1, <1>2, <1>3, <1>4 DEF releaseConnection, MayEnter, PoolTypeOK
<1>6. raced \subseteq raced' /\ raced' \subseteq RegIDs
  BY <1>1, <1>5 DEF Enter, PoolTypeOK
<1>7. Holds(w, r, d) BY <1>2, <1>3 DEF Holds
<1>8. CASE d \notin pConnInUse[r] /\ UNCHANGED <<pConn, at, arg>>
  <2>1. PoolTypeOK' BY <1>1, <1>5, <1>6, <1>8 DEF PoolTypeOK
  <2>2. ArgOK' BY <1>8 DEF PoolInv, ArgOK
  <2>3. AllAlone' BY <1>5, <1>6, <1>8, AloneKept DEF PoolInv, InsideFor
  <2>4. AllConns'
    <3> SUFFICES ASSUME NEW s \in RegIDs, s \notin raced', NEW c \in Conns
                 PROVE  ConnInv(s, c)'
      BY DEF AllConns
    <3>1. ConnInv(s, c) BY <1>6 DEF PoolInv, AllConns
    <3>2. ~(s = r /\ c = d) BY <1>7, <1>8, <3>1 DEF ConnInv
    <3>3. <<s, c>> # <<r, d>> BY <3>2
    <3>4. \A v \in Workers : <<s, c>> \in held'[v] <=> <<s, c>> \in held[v]
      BY <1>5, <3>3
    <3> QED BY <1>5, <1>8, <3>1, <3>4, SameKeeps DEF Same, Takes, Erases
  <2> QED BY <1>5, <2>1, <2>2, <2>3, <2>4 DEF PoolInv
<1>9. CASE /\ d \in pConnInUse[r]
           /\ pConn' = [pConn EXCEPT ![r] = @ \union {d}]
           /\ Step(w, "erase", <<r, d>>)
  <2>1. /\ at'[w] = "erase" /\ arg'[w] = <<r, d>>
        /\ \A v \in Workers : v # w => at'[v] = at[v] /\ arg'[v] = arg[v]
    BY <1>1, <1>9, Stepped
  <2>2. /\ \A s \in RegIDs : pConn'[s] = IF s = r THEN pConn[s] \union {d} ELSE pConn[s]
        /\ pConn' \in [RegIDs -> SUBSET Conns]
    BY <1>1, <1>9 DEF PoolTypeOK
  <2>3. PoolTypeOK' BY <1>1, <1>5, <1>6, <1>9, <2>2, StepTypes DEF PoolTypeOK
  <2>4. ArgOK' BY <2>1 DEF PoolInv, ArgOK
  <2>5. AllAlone' BY <1>5, <1>6, <2>1, AloneKept DEF PoolInv
  <2>6. AllConns'
    <3> SUFFICES ASSUME NEW s \in RegIDs, s \notin raced', NEW c \in Conns
                 PROVE  ConnInv(s, c)'
      BY DEF AllConns
    <3>1. ConnInv(s, c) BY <1>6 DEF PoolInv, AllConns
    <3>2. \A v \in Workers : v # w => (Takes(v, s, c)' <=> Takes(v, s, c))
                                      /\ (Erases(v, s, c)' <=> Erases(v, s, c))
      BY <2>1 DEF Takes, Erases
    <3>3. /\ ~Takes(w, s, c)' /\ ~Takes(w, s, c) /\ ~Erases(w, s, c)
          /\ (c \in pConnInUse[s])' <=> (c \in pConnInUse[s])
          /\ (<<s, c>> \in leaked)' <=> (<<s, c>> \in leaked)
      BY <1>5, <2>1 DEF Takes, Erases
    <3>4. CASE s = r /\ c = d
      <4>1. /\ c \in pConnInUse[s] /\ c \notin pConn[s] /\ <<s, c>> \notin leaked
            /\ \A v \in Workers : Holds(v, s, c) => v = w
        BY <1>7, <3>1, <3>4 DEF ConnInv
      <4>2. \A v \in Workers : ~Takes(v, s, c) /\ ~Erases(v, s, c)
        BY <3>1, <4>1 DEF ConnInv
      <4>3. \A v \in Workers : ~Holds(v, s, c)' BY <1>5, <3>4, <4>1 DEF Holds
      <4>4. Erases(w, s, c)' BY <2>1, <3>4 DEF Erases
      <4>5. (c \in pConn[s])' BY <2>2, <3>4
      <4> QED BY <3>2, <3>3, <4>1, <4>2, <4>3, <4>4, <4>5 DEF ConnInv
    <3>5. CASE ~(s = r /\ c = d)
      <4>0. <<r, d>> # <<s, c>> BY <3>5
      <4>1. ~Erases(w, s, c)' BY <2>1, <4>0 DEF Erases
      <4>2. \A v \in Workers : Holds(v, s, c)' <=> Holds(v, s, c) BY <1>5, <4>0 DEF Holds
      <4>3. c \in pConn'[s] <=> c \in pConn[s] BY <2>2, <3>5
      <4> QED BY <3>1, <3>2, <3>3, <4>1, <4>2, <4>3 DEF ConnInv
    <3> QED BY <3>4, <3>5
  <2> QED BY <1>5, <2>3, <2>4, <2>5, <2>6 DEF PoolInv
<1> QED BY <1>2, <1>3, <1>4, <1>8, <1>9

LEMMA EraseKeeps ==
  ASSUME PoolInv, alive, NEW w \in Workers, Erase(w)
  PROVE  PoolInv'
<1>1. PoolTypeOK BY DEF PoolInv
<1>2. PICK r \in RegIDs, d \in Conns : arg[w] = <<r, d>>
  BY DEF Erase, PoolInv, ArgOK, PoolTypeOK
<1>3. /\ at[w] = "erase" /\ Leave(w)
      /\ pConnInUse' = [pConnInUse EXCEPT ![r] = @ \ {d}]
      /\ UNCHANGED <<registered, pConn, held, leaked, alive, raced>>
  BY <1>2 DEF Erase
<1>4. /\ at'[w] = "out"
      /\ \A v \in Workers : v # w => at'[v] = at[v] /\ arg'[v] = arg[v]
  BY <1>1, <1>3, LeaveIsStep, Stepped
<1>5. /\ \A s \in RegIDs : pConnInUse'[s] = IF s = r THEN pConnInUse[s] \ {d} ELSE pConnInUse[s]
      /\ pConnInUse' \in [RegIDs -> SUBSET Conns]
  BY <1>1, <1>3 DEF PoolTypeOK
<1>6. PoolTypeOK' BY <1>1, <1>3, <1>5, LeaveIsStep, StepTypes DEF PoolTypeOK
<1>7. ArgOK' BY <1>4 DEF PoolInv, ArgOK
<1>8. AllAlone' BY <1>3, <1>4, AloneKept, PoolAssumption DEF PoolInv
<1>9. AllConns'
  <2> SUFFICES ASSUME NEW s \in RegIDs, s \notin raced, NEW c \in Conns
               PROVE  ConnInv(s, c)'
    BY <1>3 DEF AllConns
  <2>1. ConnInv(s, c) /\ AloneIn(s) BY DEF PoolInv, AllConns, AllAlone
  <2>2. \A v \in Workers : v # w => (Takes(v, s, c)' <=> Takes(v, s, c))
                                    /\ (Erases(v, s, c)' <=> Erases(v, s, c))
    BY <1>4 DEF Takes, Erases
  <2>3. /\ ~Takes(w, s, c)' /\ ~Erases(w, s, c)' /\ ~Takes(w, s, c)
        /\ (<<s, c>> \in leaked)' <=> (<<s, c>> \in leaked)
        /\ (c \in pConn[s])' <=> (c \in pConn[s])
        /\ \A v \in Workers : Holds(v, s, c)' <=> Holds(v, s, c)
    BY <1>3, <1>4 DEF Takes, Erases, Holds
  <2>4. CASE s = r /\ c = d
    <3>1. Erases(w, s, c) BY <1>2, <1>3, <2>4 DEF Erases
    <3>2. c \in pConn[s] /\ c \in pConnInUse[s] BY <2>1, <3>1 DEF ConnInv
    <3>3. /\ \A v \in Workers : ~Holds(v, s, c) /\ ~Takes(v, s, c)
          /\ <<s, c>> \notin leaked
      BY <2>1, <3>2 DEF ConnInv
    <3>4. \A v \in Workers : v # w => ~Erases(v, s, c)
      BY <1>3, <2>1, <3>1 DEF AloneIn, InsideFor, Erases
    <3>5. ~(c \in pConnInUse[s])' BY <1>5, <2>4
    <3> QED BY <2>2, <2>3, <3>2, <3>3, <3>4, <3>5 DEF ConnInv
  <2>5. CASE ~(s = r /\ c = d)
    <3>0. <<r, d>> # <<s, c>> BY <2>5
    <3>1. ~Erases(w, s, c) BY <1>2, <3>0 DEF Erases
    <3>2. c \in pConnInUse'[s] <=> c \in pConnInUse[s] BY <1>5, <2>5
    <3> QED BY <2>1, <2>2, <2>3, <3>1, <3>2 DEF ConnInv
  <2> QED BY <2>4, <2>5
<1> QED BY <1>3, <1>6, <1>7, <1>8, <1>9 DEF PoolInv

LEMMA DestroyKeeps ==
  ASSUME PoolInv, \A w \in Workers : Idle(w), Destroy
  PROVE  PoolInv'
<1>1. /\ ~alive'
      /\ UNCHANGED <<registered, held, leaked, at, arg, raced>>
      /\ pConn' = [r \in RegIDs |-> {}] /\ pConnInUse' = [r \in RegIDs |-> {}]
      /\ alive' \in BOOLEAN
  BY DEF Destroy
<1>2. PoolTypeOK' BY <1>1 DEF PoolInv, PoolTypeOK
<1>3. ArgOK' /\ AllAlone' BY <1>1 DEF PoolInv, ArgOK, AllAlone, AloneIn, InsideFor
<1>4. \A w \in Workers : Idle(w)' BY <1>1 DEF Idle
<1> QED BY <1>1, <1>2, <1>3, <1>4 DEF PoolInv

LEMMA WorkerKeeps ==
  ASSUME PoolInv, alive, NEW w \in Workers, WorkerStep(w) \/ Refused(w)
  PROVE  PoolInv'
  BY GetKeeps, ProvideKeeps, RefusedKeeps, BeginKeeps, ReconnectKeeps, MoveKeeps,
     ReleaseKeeps, EraseKeeps, VerifyKeeps
  DEF WorkerStep

LEMMA PoolStutters ==
  ASSUME PoolInv, UNCHANGED poolVars
  PROVE  PoolInv'
<1>1. UNCHANGED <<registered, pConn, pConnInUse, held, leaked, at, arg, alive, raced>>
  BY DEF poolVars
<1>2. PoolTypeOK' /\ ArgOK' BY <1>1 DEF PoolInv, PoolTypeOK, ArgOK
<1>3. AllAlone' BY <1>1 DEF PoolInv, AllAlone, AloneIn, InsideFor
<1>4. alive => AllConns'
  <2> SUFFICES ASSUME alive, NEW s \in RegIDs, s \notin raced, NEW c \in Conns
               PROVE  ConnInv(s, c)'
    BY <1>1 DEF AllConns
  <2> QED BY <1>1, SameKeeps DEF PoolInv, AllConns, Same, Takes, Erases
<1>5. ~alive => \A w \in Workers : Idle(w)' BY <1>1 DEF PoolInv, Idle
<1> QED BY <1>1, <1>2, <1>3, <1>4, <1>5 DEF PoolInv

(* Every step of CConnectionPool keeps PoolInv.                            *)
LEMMA PoolStepKeeps ==
  ASSUME PoolInv, [PoolNext]_poolVars
  PROVE  PoolInv'
<1>1. ASSUME NEW r \in RegIDs, alive, registerConnection(r) PROVE PoolInv'
  BY <1>1, RegisterKeeps
<1>2. ASSUME NEW w \in Workers, alive, WorkerStep(w) \/ Refused(w) PROVE PoolInv'
  BY <1>2, WorkerKeeps
<1>3. CASE (\A w \in Workers : Idle(w)) /\ Destroy
  BY <1>3, DestroyKeeps
<1> QED BY <1>1, <1>2, <1>3, PoolStutters DEF PoolNext

-----------------------------------------------------------------------------
(* The pool's variables keep their types, however the threads race in it.  *)
THEOREM PoolTypeCorrect == PoolSpec => []PoolTypeOK
<1>1. PoolSpec => []PoolInv
  BY PoolInitInv, PoolStepKeeps, PTL DEF PoolSpec
<1>2. PoolInv => PoolTypeOK BY DEF PoolInv
<1> QED BY <1>1, <1>2, PTL

LEMMA ExclusiveInv == PoolInv => ExclusiveUse
<1> SUFFICES ASSUME PoolInv, NEW w \in Workers, NEW p \in held[w], p[1] \notin raced
             PROVE  /\ p[2] \notin pConn[p[1]] /\ p \notin leaked
                    /\ \A v \in Workers \ {w} : p \notin held[v]
  BY DEF ExclusiveUse
<1>1. alive BY DEF PoolInv, Idle
<1>2. PICK r \in RegIDs, c \in Conns : p = <<r, c>> BY DEF PoolInv, PoolTypeOK
<1>3. ConnInv(r, c) /\ Holds(w, r, c) BY <1>1, <1>2 DEF PoolInv, AllConns, Holds
<1>4. /\ c \notin pConn[r] /\ <<r, c>> \notin leaked
      /\ \A v \in Workers : Holds(v, r, c) => v = w
  BY <1>3 DEF ConnInv
<1> QED BY <1>2, <1>4 DEF Holds

(* Whatever is leaked, refused or reconnected and however many threads     *)
(* there are: of a kind for which no two threads have met inside the pool, *)
(* every connection is handed to one request at a time.                    *)
THEOREM ConnectionsAreExclusive == PoolSpec => []ExclusiveUse
<1>1. PoolSpec => []PoolInv
  BY PoolInitInv, PoolStepKeeps, PTL DEF PoolSpec
<1> QED BY <1>1, ExclusiveInv, PTL

-----------------------------------------------------------------------------
(* The connections are accounted for *)

(* Finitely many sets of at most n elements each.                          *)
LEMMA UnionBound ==
  ASSUME NEW W, IsFiniteSet(W), NEW n \in Nat, NEW h,
         \A w \in W : IsFiniteSet(h[w]) /\ Cardinality(h[w]) <= n
  PROVE  /\ IsFiniteSet(UNION {h[w] : w \in W})
         /\ Cardinality(UNION {h[w] : w \in W}) <= n * Cardinality(W)
<1> DEFINE Q == UNION {h[w] : w \in W}
           g(w) == CHOOSE f \in [h[w] -> 1 .. n] : IsInjective(f)
           owner(x) == CHOOSE w \in W : x \in h[w]
           F == [x \in Q |-> <<owner(x), g(owner(x))[x]>>]
<1>1. ASSUME NEW w \in W
      PROVE  g(w) \in [h[w] -> 1 .. n] /\ IsInjective(g(w))
  <2>1. ExistsBijection(h[w], 1 .. Cardinality(h[w]))
    BY FS_CardinalityType, Fun_ExistsBijSymmetric
  <2>2. PICK f \in [h[w] -> 1 .. Cardinality(h[w])] : IsInjective(f)
    BY <2>1 DEF ExistsBijection, Bijection, Injection
  <2>3. 1 .. Cardinality(h[w]) \subseteq 1 .. n
    <3>1. Cardinality(h[w]) \in Nat /\ Cardinality(h[w]) <= n
      BY FS_CardinalityType
    <3> QED BY <3>1
  <2>4. f \in [h[w] -> 1 .. n]
    BY <2>3
  <2> QED BY <2>2, <2>4
<1>2. ASSUME NEW x \in Q PROVE owner(x) \in W /\ x \in h[owner(x)]
  <2>1. \E w \in W : x \in h[w]
    OBVIOUS
  <2> QED BY <2>1
<1> HIDE DEF g, owner
<1>3. F \in [Q -> W \X (1 .. n)]
  <2> SUFFICES ASSUME NEW x \in Q PROVE <<owner(x), g(owner(x))[x]>> \in W \X (1 .. n)
    OBVIOUS
  <2> QED BY <1>1, <1>2
<1>4. ASSUME NEW x \in Q, NEW y \in Q, F[x] = F[y] PROVE x = y
  <2>1. owner(x) = owner(y) /\ g(owner(x))[x] = g(owner(x))[y]
    BY <1>4
  <2>2. /\ x \in h[owner(x)] /\ y \in h[owner(x)]
        /\ DOMAIN g(owner(x)) = h[owner(x)] /\ IsInjective(g(owner(x)))
    BY <1>1, <1>2, <2>1
  <2> QED BY <2>1, <2>2 DEF IsInjective
<1>5. F \in Injection(Q, W \X (1 .. n))
  BY <1>3, <1>4 DEF Injection, IsInjective
<1>6. IsFiniteSet(1 .. n) /\ Cardinality(1 .. n) = n
  BY FS_Interval
<1>7. /\ IsFiniteSet(W \X (1 .. n))
      /\ Cardinality(W \X (1 .. n)) = Cardinality(W) * n
  BY <1>6, FS_Product
<1> HIDE DEF F, Q
<1>8. IsFiniteSet(Q) /\ Cardinality(Q) <= Cardinality(W \X (1 .. n))
  BY <1>5, <1>7, FS_Injection
<1>9. Cardinality(W) \in Nat
  BY FS_CardinalityType
<1>10. Cardinality(W) * n = n * Cardinality(W)
  BY <1>9
<1> QED BY <1>7, <1>8, <1>10 DEF Q

(* There are threads, finitely many, and a request may hold a connection.  *)
SomeThreads == IsFiniteSet(Workers) /\ Workers # {} /\ Nesting >= 1

Bound == Nesting * Cardinality(Workers)

(* A thread that asks for a connection does not hold all it may.           *)
Room == \A w \in Workers :
          /\ IsFiniteSet(held[w]) /\ Cardinality(held[w]) <= Nesting
          /\ at[w] \in {"get", "begin", "move"} => Cardinality(held[w]) < Nesting

(* The connections of kind r, free or used.                                *)
Known(r) == pConn[r] \union pConnInUse[r]

FewEnough == /\ IsFiniteSet(leaked)
             /\ \A r \in RegIDs \ raced :
                  IsFiniteSet(Known(r)) /\ Cardinality(Known(r)) <= Bound + Cardinality(leaked)

(* A kind that is not registered has no connections, and nobody asks for   *)
(* or holds one; after the destructor there are none at all.               *)
Registered == /\ \A r \in RegIDs \ registered : Known(r) = {}
              /\ \A w \in Workers : at[w] # "out" => arg[w][1] \in registered
              /\ \A w \in Workers : \A p \in held[w] : p[1] \in registered

Emptied == ~alive => \A r \in RegIDs : Known(r) = {}

(* What NothingLost needs besides PoolInv.                                 *)
CountInv == Room /\ FewEnough /\ Registered /\ Emptied

LEMMA CountInvSuffices == PoolInv /\ CountInv => NothingLost
<1> SUFFICES ASSUME PoolInv, CountInv, NEW r \in RegIDs, r \notin raced
             PROVE  /\ \A c \in pConnInUse[r] :
                         \/ <<r, c>> \in leaked
                         \/ \E w \in Workers : <<r, c>> \in held[w]
                         \/ \E w \in Workers : at[w] = "erase" /\ arg[w] = <<r, c>> /\ c \in pConn[r]
                    /\ Cardinality(pConn[r] \union pConnInUse[r])
                         <= Nesting * Cardinality(Workers) + Cardinality(leaked)
  BY DEF NothingLost
<1>1. ASSUME NEW c \in pConnInUse[r]
      PROVE  \/ <<r, c>> \in leaked
             \/ \E w \in Workers : <<r, c>> \in held[w]
             \/ \E w \in Workers : at[w] = "erase" /\ arg[w] = <<r, c>> /\ c \in pConn[r]
  <2>1. alive /\ c \in Conns
    BY <1>1 DEF CountInv, Emptied, Known, PoolInv, PoolTypeOK
  <2>2. ConnInv(r, c) BY <2>1 DEF PoolInv, AllConns
  <2> QED BY <1>1, <2>2 DEF ConnInv, Holds, Erases
<1>2. Cardinality(Known(r)) <= Bound + Cardinality(leaked) BY DEF CountInv, FewEnough
<1> QED BY <1>1, <1>2 DEF Known, Bound

LEMMA BoundType ==
  ASSUME SomeThreads
  PROVE  Bound \in Nat /\ Bound >= 1 /\ Nesting \in Nat
<1>1. Cardinality(Workers) \in Nat /\ Cardinality(Workers) # 0
  BY FS_CardinalityType, FS_EmptySet DEF SomeThreads
<1>2. Nesting \in Nat /\ Nesting >= 1
  BY PoolAssumption DEF SomeThreads
<1> HIDE DEF SomeThreads
<1>3. \A m, n \in Nat : m # 0 /\ n >= 1 => n * m \in Nat /\ n * m >= 1
  OBVIOUS
<1> QED BY <1>1, <1>2, <1>3 DEF Bound

LEMMA InitCount ==
  ASSUME SomeThreads, PoolInit
  PROVE  CountInv
<1>1. \A r \in RegIDs : Known(r) = {}
  BY DEF PoolInit, Known
<1>2. IsFiniteSet({}) /\ Cardinality({}) = 0
  BY FS_EmptySet
<1>3. FewEnough
  <2>1. leaked = {} /\ Bound \in Nat
    BY BoundType DEF PoolInit
  <2>2. 0 <= Bound + Cardinality(leaked)
    BY <1>2, <2>1
  <2> QED BY <1>1, <1>2, <2>1, <2>2 DEF FewEnough
<1>4. Room
  BY <1>2, BoundType DEF PoolInit, Room
<1>5. Registered /\ Emptied
  BY <1>1 DEF PoolInit, Registered, Emptied
<1> QED BY <1>3, <1>4, <1>5 DEF CountInv

(* As long as no connection is made there are not too many.                *)
LEMMA StillFewEnough ==
  ASSUME SomeThreads, FewEnough, raced \subseteq raced',
         \A r \in RegIDs : r \notin raced' => Known(r)' \subseteq Known(r),
         leaked \subseteq leaked', IsFiniteSet(leaked')
  PROVE  FewEnough'
<1>1. Cardinality(leaked) \in Nat /\ Cardinality(leaked') \in Nat
      /\ Cardinality(leaked) <= Cardinality(leaked')
  BY FS_CardinalityType, FS_Subset DEF FewEnough
<1> SUFFICES ASSUME NEW r \in RegIDs, r \notin raced'
             PROVE  /\ IsFiniteSet(Known(r)')
                    /\ Cardinality(Known(r)') <= Bound + Cardinality(leaked')
  BY DEF FewEnough, Bound
<1>2. /\ IsFiniteSet(Known(r)) /\ Cardinality(Known(r)) \in Nat
      /\ Cardinality(Known(r)) <= Bound + Cardinality(leaked)
  BY FS_CardinalityType DEF FewEnough
<1>3. /\ IsFiniteSet(Known(r)') /\ Cardinality(Known(r)') \in Nat
      /\ Cardinality(Known(r)') <= Cardinality(Known(r))
  BY <1>2, FS_Subset, FS_CardinalityType
<1> QED BY <1>1, <1>2, <1>3, BoundType

(* A step of w that changes neither set, nor who holds what.               *)
LEMMA MovesCount ==
  ASSUME SomeThreads, PoolTypeOK, CountInv, NEW w \in Workers, NEW to, NEW a, Step(w, to, a),
         to \in {"get", "begin", "move"} => Cardinality(held[w]) < Nesting,
         to # "out" => a[1] \in registered, raced \subseteq raced',
         UNCHANGED <<registered, pConn, pConnInUse, held, leaked, alive>>
  PROVE  CountInv'
<1>1. /\ at'[w] = to /\ arg'[w] = a
      /\ \A v \in Workers : v # w => at'[v] = at[v] /\ arg'[v] = arg[v]
  BY Stepped
<1>2. Room' BY <1>1 DEF CountInv, Room
<1>3. \A r \in RegIDs : Known(r)' = Known(r) BY DEF Known
<1>4. FewEnough' BY <1>3, StillFewEnough DEF CountInv, FewEnough
<1>5. Registered' BY <1>1, <1>3 DEF CountInv, Registered
<1>6. Emptied' BY <1>3 DEF CountInv, Emptied
<1> QED BY <1>2, <1>4, <1>5, <1>6 DEF CountInv

(* With nothing free one connection is made for a thread that still may    *)
(* hold one more: all others are held or leaked.                           *)
LEMMA OneMore ==
  ASSUME SomeThreads, PoolInv, CountInv, alive, NEW w \in Workers, NEW r \in RegIDs,
         r \notin raced, pConn[r] = {}, Cardinality(held[w]) < Nesting, NEW c \in Conns
  PROVE  /\ IsFiniteSet(pConnInUse[r] \union {c})
         /\ Cardinality(pConnInUse[r] \union {c}) <= Bound + Cardinality(leaked)
<1>1. \A d \in pConnInUse[r] : <<r, d>> \in leaked \/ \E v \in Workers : <<r, d>> \in held[v]
  <2> SUFFICES ASSUME NEW d \in pConnInUse[r]
               PROVE  <<r, d>> \in leaked \/ \E v \in Workers : <<r, d>> \in held[v]
    OBVIOUS
  <2>1. ConnInv(r, d) BY DEF PoolInv, AllConns, PoolTypeOK
  <2> QED BY <2>1 DEF ConnInv, Holds
<1> DEFINE q == <<r, c>>
           h == [v \in Workers |-> IF v = w THEN held[v] \union {q} ELSE held[v]]
           Q == UNION {h[v] : v \in Workers}
           K == pConnInUse[r] \union {c}
           M == Q \union leaked
           F == [x \in K |-> <<r, x>>]
<1>2. \A v \in Workers : IsFiniteSet(h[v]) /\ Cardinality(h[v]) <= Nesting
  <2>1. ASSUME NEW v \in Workers, v # w
        PROVE  IsFiniteSet(h[v]) /\ Cardinality(h[v]) <= Nesting
    BY <2>1 DEF CountInv, Room
  <2>2. IsFiniteSet(held[w]) /\ Cardinality(held[w]) \in Nat
    BY FS_CardinalityType DEF CountInv, Room
  <2> HIDE DEF q
  <2>3. /\ IsFiniteSet(held[w] \union {q})
        /\ Cardinality(held[w] \union {q}) \in {Cardinality(held[w]), Cardinality(held[w]) + 1}
    BY <2>2, FS_AddElement
  <2>4. h[w] = held[w] \union {q} OBVIOUS
  <2>5. IsFiniteSet(h[w]) /\ Cardinality(h[w]) <= Nesting
    BY <2>2, <2>3, <2>4, BoundType
  <2> QED BY <2>1, <2>5
<1>3. IsFiniteSet(Q) /\ Cardinality(Q) <= Bound
  BY <1>2, UnionBound, BoundType DEF SomeThreads, Bound
<1>4. F \in Injection(K, M)
  <2>1. ASSUME NEW x \in K PROVE <<r, x>> \in M
    <3>1. CASE x = c
      <4>1. <<r, x>> \in h[w] BY <3>1
      <4> HIDE DEF h
      <4> QED BY <4>1
    <3>2. CASE x # c
      <4>1. <<r, x>> \in leaked \/ \E v \in Workers : <<r, x>> \in held[v] BY <1>1, <3>2
      <4>2. \A v \in Workers : held[v] \subseteq h[v] OBVIOUS
      <4> HIDE DEF h
      <4> QED BY <4>1, <4>2
    <3> QED BY <3>1, <3>2
  <2> HIDE DEF M, K
  <2> QED BY <2>1 DEF Injection, IsInjective
<1> HIDE DEF q, h, Q, K, F
<1>5. IsFiniteSet(leaked) /\ Cardinality(leaked) \in Nat /\ Cardinality(Q) \in Nat
  BY <1>3, FS_CardinalityType DEF CountInv, FewEnough
<1>6. /\ IsFiniteSet(M)
      /\ Cardinality(M) = Cardinality(Q) + Cardinality(leaked) - Cardinality(Q \cap leaked)
  BY <1>3, <1>5, FS_Union
<1>7. Cardinality(Q \cap leaked) \in Nat
  BY <1>3, <1>5, FS_Intersection, FS_CardinalityType
<1> HIDE DEF M
<1>8. IsFiniteSet(K) /\ Cardinality(K) <= Cardinality(M)
  BY <1>4, <1>6, FS_Injection
<1>9. Cardinality(K) \in Nat /\ Cardinality(M) \in Nat
  BY <1>6, <1>8, FS_CardinalityType
<1>10. Cardinality(K) <= Bound + Cardinality(leaked)
  BY <1>3, <1>5, <1>6, <1>7, <1>8, <1>9, BoundType
<1> QED BY <1>8, <1>10 DEF K

LEMMA ProvideCounts ==
  ASSUME SomeThreads, PoolInv, CountInv, alive, NEW w \in Workers, Provide(w)
  PROVE  CountInv'
<1>1. PICK r \in RegIDs : r = arg[w][1] BY DEF PoolInv, PoolTypeOK
<1>2. /\ at[w] = "get" /\ Step(w, "begin", arg[w]) /\ PoolTypeOK
      /\ UNCHANGED <<registered, pConnInUse, held, leaked, alive, raced>>
      /\ Cardinality(held[w]) < Nesting /\ r \in registered
  BY <1>1 DEF Provide, CountInv, Room, Registered, PoolInv
<1>3. CASE UNCHANGED pConn
  BY <1>1, <1>2, <1>3, MovesCount
<1>4. CASE pConn[r] = {} /\ createConnection(r)
  <2>1. PICK d \in Conns : \A s \in RegIDs : pConn'[s] = IF s = r THEN pConn[s] \union {d}
                                                                  ELSE pConn[s]
    BY <1>2, <1>4, AddedConnection
  <2>2. /\ at'[w] = "begin" /\ arg'[w] = arg[w]
        /\ \A v \in Workers : v # w => at'[v] = at[v] /\ arg'[v] = arg[v]
    BY <1>2, Stepped
  <2>3. Room' BY <1>2, <2>2 DEF CountInv, Room
  <2>4. \A s \in RegIDs : s # r => Known(s)' = Known(s) BY <1>2, <2>1 DEF Known
  <2>5. FewEnough'
    <3> SUFFICES ASSUME NEW s \in RegIDs, s \notin raced
                 PROVE  /\ IsFiniteSet(Known(s)')
                        /\ Cardinality(Known(s)') <= Bound + Cardinality(leaked)
      BY <1>2 DEF FewEnough, Bound, CountInv
    <3>1. CASE s = r
      <4>1. Known(r)' = pConnInUse[r] \union {d} BY <1>2, <1>4, <2>1 DEF Known
      <4> QED BY <1>2, <1>4, <3>1, <4>1, OneMore
    <3>2. CASE s # r BY <2>4, <3>2 DEF CountInv, FewEnough
    <3> QED BY <3>1, <3>2
  <2>6. Registered' BY <1>1, <1>2, <2>2, <2>4 DEF CountInv, Registered
  <2>7. Emptied' BY <1>2 DEF Emptied
  <2> QED BY <2>3, <2>5, <2>6, <2>7 DEF CountInv
<1> QED BY <1>1, <1>3, <1>4 DEF Provide

LEMMA MoveCounts ==
  ASSUME SomeThreads, PoolInv, CountInv, alive, NEW w \in Workers, Move(w)
  PROVE  CountInv'
<1>1. PoolTypeOK BY DEF PoolInv
<1>2. PICK r \in RegIDs, d \in Conns : arg[w] = <<r, d>>
  BY DEF Move, PoolInv, ArgOK, PoolTypeOK
<1>3. /\ at[w] = "move" /\ Leave(w)
      /\ UNCHANGED <<registered, leaked, alive, raced>>
      /\ Cardinality(held[w]) < Nesting /\ r \in registered
      /\ pConn'      = [pConn EXCEPT ![r] = @ \ {d}]
      /\ pConnInUse' = [pConnInUse EXCEPT ![r] = @ \union {d}]
      /\ held' = [held EXCEPT ![w] = @ \union {arg[w]}]
  BY <1>2 DEF Move, CountInv, Room, Registered
<1>4. /\ at'[w] = "out"
      /\ \A v \in Workers : v # w => at'[v] = at[v] /\ arg'[v] = arg[v]
  BY <1>1, <1>3, LeaveIsStep, Stepped
<1>5. /\ \A s \in RegIDs : pConn'[s] = IF s = r THEN pConn[s] \ {d} ELSE pConn[s]
      /\ \A s \in RegIDs : pConnInUse'[s] = IF s = r THEN pConnInUse[s] \union {d}
                                                     ELSE pConnInUse[s]
  BY <1>1, <1>3 DEF PoolTypeOK
<1>12. \A v \in Workers : held'[v] = IF v = w THEN held[v] \union {arg[w]} ELSE held[v]
  BY <1>1, <1>3 DEF PoolTypeOK
<1>6. Room'
  <2>1. IsFiniteSet(held[w]) /\ Cardinality(held[w]) \in Nat
    BY FS_CardinalityType DEF CountInv, Room
  <2>2. /\ IsFiniteSet(held[w] \union {arg[w]})
        /\ Cardinality(held[w] \union {arg[w]}) \in {Cardinality(held[w]), Cardinality(held[w]) + 1}
    BY <2>1, FS_AddElement
  <2>3. IsFiniteSet(held'[w]) /\ Cardinality(held'[w]) <= Nesting
    BY <1>3, <1>12, <2>1, <2>2, BoundType
  <2> QED BY <1>4, <1>12, <2>3 DEF CountInv, Room
<1>7. \A s \in RegIDs : s # r => Known(s)' = Known(s) BY <1>5 DEF Known
<1>8. \A s \in RegIDs : s \notin raced' => Known(s)' \subseteq Known(s)
  <2> SUFFICES ASSUME r \notin raced PROVE Known(r)' \subseteq Known(r)
    BY <1>3, <1>7
  <2>1. ConnInv(r, d) /\ Takes(w, r, d)
    BY <1>2, <1>3 DEF PoolInv, AllConns, Takes
  <2>2. d \in pConn[r] BY <2>1 DEF ConnInv
  <2> QED BY <1>5, <2>2 DEF Known
<1>9. FewEnough' BY <1>3, <1>8, StillFewEnough DEF CountInv, FewEnough
<1>10. Registered'
  <2>1. \A v \in Workers : \A p \in held'[v] : p \in held[v] \/ p = <<r, d>> BY <1>2, <1>12
  <2> QED BY <1>3, <1>4, <1>7, <2>1 DEF CountInv, Registered
<1>11. Emptied' BY <1>3 DEF Emptied
<1> QED BY <1>6, <1>9, <1>10, <1>11 DEF CountInv

LEMMA ReleaseCounts ==
  ASSUME SomeThreads, PoolInv, CountInv, alive, NEW w \in Workers, releaseConnection(w)
  PROVE  CountInv'
<1>1. PoolTypeOK BY DEF PoolInv
<1>2. PICK p \in held[w] :
        /\ held' = [held EXCEPT ![w] = @ \ {p}]
        /\ Enter(w, p[1])
        /\ \/ /\ p[2] \notin pConnInUse[p[1]]
              /\ UNCHANGED <<pConn, at, arg>>
           \/ /\ p[2] \in pConnInUse[p[1]]
              /\ pConn' = [pConn EXCEPT ![p[1]] = @ \union {p[2]}]
              /\ Step(w, "erase", p)
  BY DEF releaseConnection
<1>3. PICK r \in RegIDs, d \in Conns : p = <<r, d>> BY <1>1 DEF PoolTypeOK
<1>4. p[1] = r /\ p[2] = d BY <1>3
<1>5. /\ UNCHANGED <<registered, pConnInUse, leaked, alive>> /\ raced \subseteq raced'
      /\ r \in registered
  BY <1>2, <1>4, EnterGrows DEF releaseConnection, CountInv, Registered
<1>6. \A v \in Workers : held'[v] \subseteq held[v] BY <1>1, <1>2 DEF PoolTypeOK
<1>7. \A v \in Workers : \/ at'[v] = at[v] /\ arg'[v] = arg[v]
                         \/ at'[v] = "erase" /\ arg'[v][1] = r
  BY <1>1, <1>2, <1>4, Stepped
<1>8. Room'
  <2> SUFFICES ASSUME NEW v \in Workers
               PROVE  /\ IsFiniteSet(held'[v]) /\ Cardinality(held'[v]) <= Cardinality(held[v])
                      /\ Cardinality(held[v]) \in Nat /\ Cardinality(held'[v]) \in Nat
    BY <1>7, BoundType DEF CountInv, Room
  <2>1. IsFiniteSet(held[v]) BY DEF CountInv, Room
  <2> QED BY <1>6, <2>1, FS_Subset, FS_CardinalityType
<1>9. \A s \in RegIDs : Known(s)' = IF s = r /\ d \in pConnInUse[r] THEN Known(s) \union {d}
                                                                     ELSE Known(s)
  BY <1>1, <1>2, <1>4, <1>5 DEF Known, PoolTypeOK
<1>10. \A s \in RegIDs : Known(s)' \subseteq Known(s) BY <1>9 DEF Known
<1>11. FewEnough' BY <1>5, <1>10, StillFewEnough DEF CountInv, FewEnough
<1>12. Registered' BY <1>5, <1>6, <1>7, <1>10 DEF CountInv, Registered
<1>13. Emptied' BY <1>5 DEF Emptied
<1> QED BY <1>8, <1>11, <1>12, <1>13 DEF CountInv

LEMMA EraseCounts ==
  ASSUME SomeThreads, PoolInv, CountInv, alive, NEW w \in Workers, Erase(w)
  PROVE  CountInv'
<1>1. /\ Leave(w) /\ PoolTypeOK
      /\ pConnInUse' = [pConnInUse EXCEPT ![arg[w][1]] = @ \ {arg[w][2]}]
      /\ UNCHANGED <<registered, pConn, held, leaked, alive, raced>>
  BY DEF Erase, PoolInv
<1>2. /\ at'[w] = "out"
      /\ \A v \in Workers : v # w => at'[v] = at[v] /\ arg'[v] = arg[v]
  BY <1>1, LeaveIsStep, Stepped
<1>3. Room' BY <1>1, <1>2 DEF CountInv, Room
<1>4. \A s \in RegIDs : Known(s)' \subseteq Known(s) BY <1>1 DEF Known, PoolTypeOK
<1>5. FewEnough' BY <1>1, <1>4, StillFewEnough DEF CountInv, FewEnough
<1>6. Registered' BY <1>1, <1>2, <1>4 DEF CountInv, Registered
<1>7. Emptied' BY <1>1 DEF Emptied
<1> QED BY <1>3, <1>5, <1>6, <1>7 DEF CountInv

LEMMA LeakCounts ==
  ASSUME SomeThreads, PoolInv, CountInv, alive, NEW w \in Workers,
         Leave(w) \/ UNCHANGED <<at, arg>>,
         leaked' = leaked \union held[w], held' = [held EXCEPT ![w] = {}],
         UNCHANGED <<registered, pConn, pConnInUse, alive, raced>>
  PROVE  CountInv'
<1>1. PoolTypeOK BY DEF PoolInv
<1>2. \A v \in Workers : \/ at'[v] = at[v] /\ arg'[v] = arg[v]
                         \/ at'[v] = "out"
  BY <1>1, LeaveIsStep, Stepped
<1>3. \A v \in Workers : held'[v] = IF v = w THEN {} ELSE held[v] BY <1>1 DEF PoolTypeOK
<1>4. IsFiniteSet({}) /\ Cardinality({}) = 0 BY FS_EmptySet
<1>5. \A v \in Workers : /\ IsFiniteSet(held'[v]) /\ Cardinality(held'[v]) <= Cardinality(held[v])
                         /\ Cardinality(held[v]) \in Nat /\ Cardinality(held'[v]) \in Nat
  <2> SUFFICES ASSUME NEW v \in Workers
               PROVE  /\ IsFiniteSet(held'[v]) /\ Cardinality(held'[v]) <= Cardinality(held[v])
                      /\ Cardinality(held[v]) \in Nat /\ Cardinality(held'[v]) \in Nat
    OBVIOUS
  <2>1. IsFiniteSet(held[v]) /\ Cardinality(held[v]) \in Nat
    BY FS_CardinalityType DEF CountInv, Room
  <2>2. CASE v = w BY <1>3, <1>4, <2>1, <2>2
  <2>3. CASE v # w BY <1>3, <2>1, <2>3
  <2> QED BY <2>2, <2>3
<1>6. Room' BY <1>2, <1>5, BoundType DEF CountInv, Room
<1>7. IsFiniteSet(leaked') BY FS_Union DEF CountInv, FewEnough, Room
<1>8. \A s \in RegIDs : Known(s)' = Known(s) BY DEF Known
<1>9. FewEnough' BY <1>7, <1>8, StillFewEnough DEF CountInv
<1>10. Registered' BY <1>2, <1>3, <1>8 DEF CountInv, Registered
<1>11. Emptied' BY DEF Emptied
<1> QED BY <1>6, <1>9, <1>10, <1>11 DEF CountInv

LEMMA RegisterCounts ==
  ASSUME SomeThreads, PoolInv, CountInv, alive, NEW r \in RegIDs, r \notin registered,
         registerConnection(r)
  PROVE  CountInv'
<1>1. PICK d \in Conns : \A s \in RegIDs : pConn'[s] = IF s = r THEN pConn[s] \union {d}
                                                                ELSE pConn[s]
  BY AddedConnection DEF registerConnection, PoolInv
<1>2. /\ registered' = registered \union {r}
      /\ UNCHANGED <<pConnInUse, held, leaked, at, arg, alive, raced>>
  BY DEF registerConnection
<1>3. Room' BY <1>2 DEF CountInv, Room
<1>4. Known(r)' = {d} /\ \A s \in RegIDs : s # r => Known(s)' = Known(s)
  BY <1>1, <1>2 DEF Known, CountInv, Registered
<1>5. FewEnough'
  <2>1. IsFiniteSet({d}) /\ Cardinality({d}) = 1 /\ IsFiniteSet(leaked) /\ Cardinality(leaked) \in Nat
    BY FS_Singleton, FS_CardinalityType DEF CountInv, FewEnough
  <2>2. Cardinality({d}) <= Bound + Cardinality(leaked)
    BY <2>1, BoundType
  <2> QED BY <1>2, <1>4, <2>1, <2>2 DEF CountInv, FewEnough, Bound
<1>6. Registered' BY <1>2, <1>4 DEF CountInv, Registered
<1>7. Emptied' BY <1>2 DEF Emptied
<1> QED BY <1>3, <1>5, <1>6, <1>7 DEF CountInv

LEMMA DestroyCounts ==
  ASSUME SomeThreads, CountInv, Destroy
  PROVE  CountInv'
<1>1. \A s \in RegIDs : Known(s)' = {} BY DEF Destroy, Known
<1>2. UNCHANGED <<registered, held, leaked, at, arg, raced>> BY DEF Destroy
<1>3. Room' BY <1>2 DEF CountInv, Room
<1>4. FewEnough' BY <1>1, <1>2, StillFewEnough DEF CountInv, FewEnough
<1>5. Registered' /\ Emptied' BY <1>1, <1>2 DEF CountInv, Registered, Emptied
<1> QED BY <1>3, <1>4, <1>5 DEF CountInv

LEMMA StutterCounts ==
  ASSUME CountInv, UNCHANGED poolVars
  PROVE  CountInv'
  BY DEF poolVars, CountInv, Room, FewEnough, Registered, Emptied, Known, Bound

(* What the worker threads do in the pool.                                 *)
LEMMA WorkerCounts ==
  ASSUME SomeThreads, PoolInv, CountInv, alive, NEW w \in Workers, WorkerStep(w) \/ Refused(w)
  PROVE  CountInv'
<1>0. PoolTypeOK BY DEF PoolInv
<1>1. ASSUME NEW r \in RegIDs, getConnection(w, r) PROVE CountInv'
  <2>1. /\ r \in registered /\ Cardinality(held[w]) < Nesting
        /\ Enter(w, r) /\ Step(w, "get", <<r, NoConn>>)
        /\ UNCHANGED <<registered, pConn, pConnInUse, held, leaked, alive>>
    BY <1>1 DEF getConnection
  <2> QED BY <1>0, <2>1, MovesCount, EnterGrows
<1>2. CASE Refused(w)
  <2>1. Leave(w) /\ UNCHANGED <<registered, pConn, pConnInUse, held, leaked, alive, raced>>
    BY <1>2 DEF Refused
  <2> QED BY <1>0, <2>1, MovesCount, LeaveIsStep
<1>3. CASE Begin(w)
  <2>1. PICK c \in pConn[arg[w][1]] : Step(w, "move", <<arg[w][1], c>>)
    BY <1>3 DEF Begin
  <2>2. /\ Cardinality(held[w]) < Nesting /\ arg[w][1] \in registered
        /\ UNCHANGED <<registered, pConn, pConnInUse, held, leaked, alive, raced>>
    BY <1>3 DEF Begin, CountInv, Room, Registered
  <2> QED BY <1>0, <2>1, <2>2, MovesCount
<1>4. CASE ReconnectThrows(w)
  <2>1. Leave(w) /\ UNCHANGED <<registered, pConn, pConnInUse, alive, raced>>
    BY <1>4 DEF ReconnectThrows
  <2>2. CASE UNCHANGED <<held, leaked>>
    BY <1>0, <2>1, <2>2, MovesCount, LeaveIsStep
  <2>3. CASE leaked' = leaked \union held[w] /\ held' = [held EXCEPT ![w] = {}]
    BY <2>1, <2>3, LeakCounts
  <2> QED BY <1>4, <2>2, <2>3 DEF ReconnectThrows
<1>5. CASE verify(w) BY <1>5, LeakCounts DEF verify
<1> QED
  BY <1>1, <1>2, <1>3, <1>4, <1>5, ProvideCounts, MoveCounts, ReleaseCounts, EraseCounts
  DEF WorkerStep

(* The inductive invariant of the pool by itself.                          *)
CountedPool == PoolInv /\ CountInv

LEMMA CountedSteps ==
  ASSUME SomeThreads, CountedPool, [PoolNext]_poolVars
  PROVE  CountedPool'
<1>1. PoolInv' BY PoolStepKeeps DEF CountedPool
<1>2. ASSUME NEW r \in RegIDs \ registered, alive, registerConnection(r) PROVE CountInv'
  BY <1>2, RegisterCounts DEF CountedPool
<1>3. ASSUME NEW w \in Workers, alive, WorkerStep(w) \/ Refused(w) PROVE CountInv'
  BY <1>3, WorkerCounts DEF CountedPool
<1>4. CASE Destroy BY <1>1, <1>4, DestroyCounts DEF CountedPool
<1>5. CASE UNCHANGED poolVars BY <1>1, <1>5, StutterCounts DEF CountedPool
<1> QED BY <1>1, <1>2, <1>3, <1>4, <1>5 DEF PoolNext, CountedPool

(* Of a kind for which no two threads have met inside the pool, no         *)
(* connection is lost, and there are never more than the threads can hold  *)
(* at once and the two places that leak have leaked.                       *)
THEOREM ConnectionsAreAccounted ==
  ASSUME SomeThreads
  PROVE  PoolSpec => []NothingLost
<1>1. PoolInit => CountedPool BY PoolInitInv, InitCount DEF CountedPool
<1>2. CountedPool /\ [PoolNext]_poolVars => CountedPool' BY CountedSteps
<1>3. CountedPool => NothingLost BY CountInvSuffices DEF CountedPool
<1> QED BY <1>1, <1>2, <1>3, PTL DEF PoolSpec

(* main(), the launcher and the pool of ServerLife *)

(* Where main() has not passed yet what launches programs.                 *)
Launching == {"loadConfig", "mysqld", "initMySQL", "runSearchd", "firstIndexer",
              "launchSearchd", "runIndexer"}

(* Where main() has stopped searchd, where the interval task, where all.   *)
SearchdOver == {"resetIds", "stopMysql", "askMysqld", "waitMysqld", "destroy", "ended"}
IndexerOver == {"stopSearchd", "askSearchd", "waitSearchd"} \union SearchdOver
AllOver     == {"destroy", "ended"}

Gone  == {"none", "gone"}
Slain == {"killed", "crashed"}

(* While main() still launches, no slot of the table has been emptied, so  *)
(* the next task gets a new one and overwrites none.                       *)
Compact == /\ \E k \in Nat : DOMAIN tasks = 0 .. k - 1
           /\ \A i \in DOMAIN tasks : tasks[i] # "empty"

NotYet == /\ pc \in {"loadConfig", "mysqld"} => ids.nMysqld = -1
          /\ pc \in Launching \ {"runIndexer"} => ids.nSearchd = -1
          /\ pc \in Launching => ids.nIndexer = -1 /\ Compact

(* A program without a task does not run, nor does one already stopped.    *)
Stopped ==
  /\ ids.nMysqld  = -1 \/ pc \in AllOver     => process["mysqld"] \in Gone
  /\ ids.nSearchd = -1 \/ pc \in SearchdOver => process["searchd"] \in Gone
  /\ ids.nIndexer = -1 \/ pc \in IndexerOver => indexer \in Gone

(* Until it is stopped a task is in the table, under its own name.         *)
InTable(id, name) == ids[id] # -1 => tasks[ids[id]] = name

Listed ==
  /\ pc \notin IndexerOver \union Slain => InTable("nIndexer", "indexer")
  /\ pc \notin SearchdOver \union Slain => InTable("nSearchd", "searchd")
  /\ pc \notin AllOver \union Slain     => InTable("nMysqld", "mysqld")

MainInv == MainTypeOK /\ NotYet /\ Stopped /\ Listed

-----------------------------------------------------------------------------
(* The table *)

Ids == {"nMysqld", "nSearchd", "nIndexer"}

(* A new task leaves the others where they are.                            *)
LEMMA NewTask ==
  ASSUME MainTypeOK, Compact, NEW id \in Ids, ids[id] = -1,
         NEW name \in Programs \union {"indexer"}, AddTask(id, name)
  PROVE  /\ DOMAIN tasks' \subseteq Nat
         /\ tasks' \in [DOMAIN tasks' -> Programs \union {"indexer", "empty"}]
         /\ ids' \in [Ids -> DOMAIN tasks' \union {-1}]
         /\ Compact'
         /\ ids'[id] # -1 /\ tasks'[ids'[id]] = name
         /\ \A j \in Ids : j # id => /\ ids'[j] = ids[j]
                                     /\ ids[j] # -1 => tasks'[ids[j]] = tasks[ids[j]]
<1>1. PICK k \in Nat : DOMAIN tasks = 0 .. k - 1
  BY DEF Compact
<1>2. Cardinality(0 .. k - 1) = k
  <2>1. 0 \in Int /\ k - 1 \in Int
    BY <1>1
  <2>2. Cardinality(0 .. k - 1) = IF 0 > k - 1 THEN 0 ELSE k - 1 - 0 + 1
    BY <2>1, FS_Interval
  <2> QED BY <1>1, <2>2
<1>3. {i \in DOMAIN tasks : tasks[i] = "empty"} = {}
  BY DEF Compact
<1>4. getAvaliableTaskID = k
  BY <1>1, <1>2, <1>3 DEF getAvaliableTaskID
<1>5. /\ ids' = [ids EXCEPT ![id] = k]
      /\ tasks' = [i \in DOMAIN tasks \union {k} |-> IF i = k THEN name ELSE tasks[i]]
  BY <1>4 DEF AddTask
<1>6. DOMAIN tasks' = 0 .. (k + 1) - 1
  BY <1>1, <1>5
<1>7. /\ \A i \in DOMAIN tasks' : tasks'[i] = IF i = k THEN name ELSE tasks[i]
      /\ k \notin DOMAIN tasks /\ k \in DOMAIN tasks' /\ DOMAIN tasks \subseteq DOMAIN tasks'
      /\ tasks \in [DOMAIN tasks -> Programs \union {"indexer", "empty"}]
      /\ ids \in [Ids -> DOMAIN tasks \union {-1}]
  BY <1>1, <1>5, <1>6 DEF MainTypeOK, Ids
<1>8. ids'[id] = k /\ \A j \in Ids : j # id => ids'[j] = ids[j]
  BY <1>5, <1>7
<1>9. Compact'
  <2>1. \A i \in DOMAIN tasks' : tasks'[i] # "empty"
    BY <1>1, <1>6, <1>7 DEF Compact, Programs
  <2> QED BY <1>6, <2>1 DEF Compact
<1>10. ids' \in [Ids -> DOMAIN tasks' \union {-1}]
  BY <1>5, <1>7
<1>11. tasks' \in [DOMAIN tasks' -> Programs \union {"indexer", "empty"}]
  BY <1>1, <1>5, <1>6, <1>7
<1>12. \A j \in Ids : ids[j] # -1 => tasks'[ids[j]] = tasks[ids[j]]
  BY <1>7
<1> QED BY <1>6, <1>7, <1>8, <1>9, <1>10, <1>11, <1>12

(* Emptying the slot of one task leaves the tasks of other names.          *)
LEMMA TaskDropped ==
  ASSUME MainTypeOK, NEW id \in Ids, DropTask(ids[id]), UNCHANGED ids
  PROVE  /\ DOMAIN tasks' = DOMAIN tasks
         /\ tasks' \in [DOMAIN tasks -> Programs \union {"indexer", "empty"}]
         /\ \A j \in Ids : ids[j] # -1 /\ tasks[ids[j]] # tasks[ids[id]]
                             => tasks'[ids[j]] = tasks[ids[j]]
         /\ ids[id] = -1 => tasks' = tasks
<1>1. /\ tasks \in [DOMAIN tasks -> Programs \union {"indexer", "empty"}]
      /\ ids \in [Ids -> DOMAIN tasks \union {-1}] /\ DOMAIN tasks \subseteq Nat
  BY DEF MainTypeOK, Ids
<1>2. PICK n \in DOMAIN tasks \union {-1} : n = ids[id]
  BY <1>1
<1>3. /\ DOMAIN tasks' = DOMAIN tasks
      /\ tasks' = [i \in DOMAIN tasks |-> IF i = n THEN "empty" ELSE tasks[i]]
  BY <1>2 DEF DropTask
<1>4. \A j \in Ids : ids[j] # -1 /\ tasks[ids[j]] # tasks[ids[id]]
                      => tasks'[ids[j]] = tasks[ids[j]]
  BY <1>1, <1>2, <1>3
<1>5. ids[id] = -1 => tasks' = tasks
  BY <1>1, <1>2, <1>3
<1>6. tasks' \in [DOMAIN tasks -> Programs \union {"indexer", "empty"}]
  BY <1>1, <1>3
<1> QED BY <1>3, <1>4, <1>5, <1>6

-----------------------------------------------------------------------------
(* main() until the network server starts *)

LEMMA MainInit == Init => MainInv
<1> SUFFICES ASSUME Init PROVE MainInv
  OBVIOUS
<1>1. DOMAIN tasks = {} /\ tasks = [i \in {} |-> "empty"]
  BY DEF Init
<1>2. MainTypeOK
  <2>1. /\ DOMAIN tasks \subseteq Nat
        /\ tasks \in [DOMAIN tasks -> Programs \union {"indexer", "empty"}]
    BY <1>1
  <2>2. /\ ids \in [{"nMysqld", "nSearchd", "nIndexer"} -> DOMAIN tasks \union {-1}]
        /\ process \in [Programs -> {"none", "starting", "ready", "gone"}]
    BY DEF Init
  <2>3. code \in -1 .. 5 /\ platform \in Platforms /\ config \in Config
    BY DEF Init
  <2>4. /\ indexer = "none" /\ unlocked = FALSE /\ cleaner = "none" /\ serving = FALSE
        /\ mutex = "free" /\ handler = "none" /\ notified = FALSE
    BY DEF Init
  <2> QED BY <2>1, <2>2, <2>3, <2>4, Zenon DEF MainTypeOK
<1>3. Compact
  <2>1. DOMAIN tasks = 0 .. 0 - 1
    BY <1>1
  <2> QED BY <1>1, <2>1 DEF Compact
<1>4. NotYet /\ Stopped /\ Listed
  BY <1>3 DEF Init, NotYet, Stopped, Listed, InTable, Launching, SearchdOver, IndexerOver,
              AllOver, Gone, Slain, Programs
<1> QED BY <1>2, <1>4 DEF MainInv

(* What runs may end, what is gone stays gone.                             *)
StaysGone == /\ \A p \in Programs : process[p] \in Gone => process'[p] \in Gone
             /\ indexer \in Gone => indexer' \in Gone

(* main() goes on, leaves the table alone and starts no program.           *)
LEMMA MainMoves ==
  ASSUME MainInv, MainTypeOK', UNCHANGED <<ids, tasks>>, StaysGone,
         \/ pc' = pc
         \/ pc' \in Slain
         \/ pc' \notin Launching \union IndexerOver /\ pc \notin IndexerOver \union Slain
         \/ pc' \in Launching /\ pc \in Launching
            /\ (pc' \in {"loadConfig", "mysqld"} => pc = "loadConfig")
            /\ (pc' # "runIndexer" => pc # "runIndexer")
         \/ pc = "stopIndexer" /\ pc' = "stopSearchd" /\ ids.nIndexer = -1
         \/ pc \in {"stopSearchd", "askSearchd"} /\ pc' \in {"askSearchd", "waitSearchd"}
         \/ pc \in {"stopMysql", "askMysqld"} /\ pc' \in {"askMysqld", "waitMysqld"}
         \/ pc = "stopSearchd" /\ pc' \in {"resetIds", "stopMysql"} /\ ids.nSearchd = -1
         \/ pc = "stopMysql" /\ pc' = "destroy" /\ ids.nMysqld = -1
         \/ pc = "destroy" /\ pc' = "ended"
         \/ pc \in {"loadConfig", "mysqld"} /\ pc' = "ended"
         \/ pc = "initMySQL" /\ pc' = "stopMysql"
  PROVE  MainInv'
<1>1. Compact' = Compact
  BY DEF Compact
<1>2. NotYet'
  BY <1>1 DEF MainInv, NotYet, Launching, IndexerOver, SearchdOver, Slain
<1>3. Stopped'
  BY DEF MainInv, NotYet, Stopped, StaysGone, Launching, IndexerOver, SearchdOver, AllOver,
         Slain, Programs
<1>4. Listed'
  BY DEF MainInv, Listed, InTable, Launching, IndexerOver, SearchdOver, AllOver, Slain
<1> QED BY <1>2, <1>3, <1>4 DEF MainInv

-----------------------------------------------------------------------------
(* The steps of main() *)

LEMMA LaunchKeeps ==
  ASSUME MainInv, NEW id \in Ids, NEW name \in Programs \union {"indexer"},
         AddTask(id, name), MainTypeOK /\ MainTypeOK',
         \/ /\ id = "nMysqld" /\ name = "mysqld" /\ pc = "mysqld" /\ pc' = "initMySQL"
            /\ process' = [process EXCEPT !["mysqld"] = "starting"] /\ UNCHANGED indexer
         \/ /\ id = "nSearchd" /\ name = "searchd" /\ pc = "launchSearchd" /\ pc' = "runIndexer"
            /\ process' = [process EXCEPT !["searchd"] = "starting"] /\ UNCHANGED indexer
         \/ /\ id = "nIndexer" /\ name = "indexer" /\ pc = "runIndexer" /\ pc' = "initSphinx"
            /\ UNCHANGED process
  PROVE  MainInv'
<1>1. ids[id] = -1 /\ Compact
  BY DEF MainInv, NotYet, Launching
<1>2. /\ Compact' /\ ids'[id] # -1 /\ tasks'[ids'[id]] = name
      /\ \A j \in Ids : j # id => /\ ids'[j] = ids[j]
                                  /\ ids[j] # -1 => tasks'[ids[j]] = tasks[ids[j]]
  BY <1>1, NewTask
<1>3. /\ id # "nMysqld"  => ids'.nMysqld = ids.nMysqld
      /\ id # "nSearchd" => ids'.nSearchd = ids.nSearchd
      /\ id # "nIndexer" => ids'.nIndexer = ids.nIndexer
  BY <1>2 DEF Ids
<1>4. NotYet'
  BY <1>2, <1>3 DEF MainInv, NotYet, Launching
<1>5. /\ id # "nMysqld"  => process'["mysqld"] = process["mysqld"]
      /\ id # "nSearchd" => process'["searchd"] = process["searchd"]
      /\ id # "nIndexer" => indexer' = indexer
  BY DEF MainTypeOK, Programs
<1>6. Stopped'
  BY <1>2, <1>3, <1>5 DEF MainInv, Stopped, AllOver, SearchdOver, IndexerOver
<1>7. Listed'
  <2>1. InTable("nIndexer", "indexer")' /\ InTable("nSearchd", "searchd")'
        /\ InTable("nMysqld", "mysqld")'
    BY <1>2 DEF MainInv, Listed, InTable, Ids, AllOver, SearchdOver, IndexerOver, Slain
  <2> QED BY <2>1 DEF Listed
<1> QED BY <1>4, <1>6, <1>7 DEF MainInv

(* A task is taken out of the table once what it ran is gone.              *)
LEMMA StopKeeps ==
  ASSUME MainInv, NEW id \in Ids, DropTask(ids[id]), MainTypeOK, MainTypeOK', UNCHANGED ids,
         \/ /\ id = "nIndexer" /\ pc = "joinIndexer" /\ pc' = "stopSearchd"
            /\ indexer = "gone" /\ UNCHANGED <<process, indexer>>
         \/ /\ id = "nSearchd" /\ pc = "waitSearchd" /\ pc' \in {"resetIds", "stopMysql"}
            /\ process'["searchd"] = "gone" /\ process'["mysqld"] = process["mysqld"]
            /\ UNCHANGED indexer
         \/ /\ id = "nMysqld" /\ pc = "waitMysqld" /\ pc' = "destroy"
            /\ process'["mysqld"] = "gone" /\ process'["searchd"] = process["searchd"]
            /\ UNCHANGED indexer
  PROVE  MainInv'
<1>1. NotYet'
  BY DEF MainInv, NotYet, Launching
<1>2. Stopped'
  BY DEF MainInv, Stopped, AllOver, SearchdOver, IndexerOver, Gone
<1>3. /\ \A j \in Ids : ids[j] # -1 /\ tasks[ids[j]] # tasks[ids[id]]
                          => tasks'[ids[j]] = tasks[ids[j]]
      /\ ids[id] = -1 => tasks' = tasks
  BY TaskDropped
<1>4. Listed'
  BY <1>3 DEF MainInv, Listed, InTable, Ids, AllOver, SearchdOver, IndexerOver, Slain
<1> QED BY <1>1, <1>2, <1>4 DEF MainInv

-----------------------------------------------------------------------------
LEMMA MainTypes ==
  ASSUME MainInv, Next
  PROVE  MainTypeOK'
<1> USE DEF sigVars, mainVars, Goto
<1>0. MainTypeOK
  BY DEF MainInv
<1>1. ASSUME NEW id \in Ids, NEW name \in Programs \union {"indexer"}, AddTask(id, name),
             ids[id] = -1, Compact,
             \/ UNCHANGED process /\ indexer' = "sleep"
             \/ UNCHANGED indexer /\ \E p \in Programs : process' = [process EXCEPT ![p] = "starting"],
             UNCHANGED <<platform, config, code, unlocked, cleaner, serving, sigVars>>
      PROVE  MainTypeOK'
  <2>1. /\ DOMAIN tasks' \subseteq Nat
        /\ tasks' \in [DOMAIN tasks' -> Programs \union {"indexer", "empty"}]
        /\ ids' \in [Ids -> DOMAIN tasks' \union {-1}]
    BY <1>0, <1>1, NewTask
  <2>2. /\ process' \in [Programs -> {"none", "starting", "ready", "gone"}]
        /\ indexer' \in {"none", "sleep", "run", "gone"}
    BY <1>0, <1>1 DEF MainTypeOK
  <2> QED BY <1>0, <1>1, <2>1, <2>2 DEF MainTypeOK, Ids
<1>2. ASSUME NEW id \in Ids, DropTask(ids[id]), UNCHANGED ids,
             process' \in [Programs -> {"none", "starting", "ready", "gone"}],
             UNCHANGED <<platform, config, code, indexer, unlocked, cleaner, serving, sigVars>>
      PROVE  MainTypeOK'
  BY <1>0, <1>2, TaskDropped DEF MainTypeOK, Ids
<1>3. CASE loadConfig
  BY <1>0, <1>3 DEF loadConfig, MainTypeOK
<1>4. CASE runMysqld
  <2>1. CASE Launch("nMysqld", "mysqld", "mysqld", "initMySQL")
    <3>1. ids["nMysqld"] = -1 /\ Compact
      BY <2>1 DEF MainInv, NotYet, Launching, Launch
    <3> QED BY <1>1, <2>1, <3>1 DEF Launch, Ids, Programs
  <2> QED BY <1>0, <1>4, <2>1 DEF runMysqld, MainTypeOK
<1>5. CASE initMySQL
  BY <1>0, <1>5 DEF initMySQL, MainTypeOK
<1>6. CASE launchSearchd
  <2>1. CASE Launch("nSearchd", "searchd", "launchSearchd", "runIndexer")
    <3>1. ids["nSearchd"] = -1 /\ Compact
      BY <2>1 DEF MainInv, NotYet, Launching, Launch
    <3> QED BY <1>1, <2>1, <3>1 DEF Launch, Ids, Programs
  <2>2. [config EXCEPT !.nSphinxType = 0] \in Config
    BY <1>0 DEF MainTypeOK, Config
  <2> QED BY <1>0, <1>6, <2>1, <2>2 DEF launchSearchd, MainTypeOK
<1>7. CASE runIndexer
  <2>1. ids["nIndexer"] = -1 /\ Compact
    BY <1>7 DEF MainInv, NotYet, Launching, runIndexer
  <2> QED BY <1>1, <1>7, <2>1 DEF runIndexer, Ids
<1>8. CASE initSphinx \/ initNetServer \/ startServer
  <2>1. code' \in -1 .. 5 /\ cleaner' \in {"none", "running", "joined"}
    BY <1>0, <1>8 DEF initSphinx, initNetServer, startServer, MainTypeOK
  <2>2. serving' = TRUE \/ serving' = serving
    BY <1>8, Zenon DEF initSphinx, initNetServer, startServer
  <2>3. UNCHANGED <<platform, config, ids, tasks, process, indexer, unlocked, sigVars>>
    BY <1>8 DEF initSphinx, initNetServer, startServer
  <2> QED BY <1>0, <2>1, <2>2, <2>3 DEF MainTypeOK
<1>9. CASE Waiting
  BY <1>0, <1>9 DEF Waiting, SetHandler, LockExit, TestExit, WakeUp, MainTypeOK
<1>10. CASE stopServer \/ stopIndexer \/ destroy
  <2>1. code' \in -1 .. 5 /\ cleaner' \in {"none", "running", "joined"}
    BY <1>0, <1>10 DEF stopServer, stopIndexer, destroy, MainTypeOK
  <2>2. /\ serving' = FALSE \/ serving' = serving
        /\ unlocked' = TRUE \/ unlocked' = unlocked
    BY <1>10, Zenon DEF stopServer, stopIndexer, destroy
  <2>3. UNCHANGED <<platform, config, ids, tasks, process, indexer, sigVars>>
    BY <1>10 DEF stopServer, stopIndexer, destroy
  <2> QED BY <1>0, <2>1, <2>2, <2>3 DEF MainTypeOK
<1>11. CASE joinIndexer
  BY <1>0, <1>2, <1>11 DEF joinIndexer, Ids, MainTypeOK
<1>12. CASE runSearchd \/ firstIndexer \/ stopSearchd \/ askSearchd \/ stopMysql \/ askMysqld
  BY <1>0, <1>12
  DEF runSearchd, firstIndexer, stopSearchd, askSearchd, stopMysql, askMysqld, HelperEnds,
      MainTypeOK
<1>13. CASE waitSearchd
  <2>1. process' \in [Programs -> {"none", "starting", "ready", "gone"}]
    BY <1>0, <1>13 DEF waitSearchd, WaitForProcess, MainTypeOK
  <2> QED BY <1>2, <1>13, <2>1 DEF waitSearchd, Ids
<1>14. CASE waitMysqld
  <2>1. process' \in [Programs -> {"none", "starting", "ready", "gone"}]
    BY <1>0, <1>14 DEF waitMysqld, WaitForProcess, MainTypeOK
  <2> QED BY <1>2, <1>14, <2>1 DEF waitMysqld, Ids
<1>15. CASE resetIds
  BY <1>0, <1>15 DEF resetIds, MainTypeOK
<1>16. CASE Sigint \/ LauncherThread \/ IndexerEnds
  BY <1>0, <1>16 DEF Sigint, LauncherThread, IndexerEnds, MainTypeOK
<1>17. CASE signalHandler
  <2>1. notified' \in BOOLEAN /\ handler' = "done"
    BY <1>17 DEF signalHandler
  <2> QED BY <1>0, <1>17, <2>1 DEF signalHandler, MainTypeOK
<1>18. CASE \E p \in Programs : ProcessRuns(p)
  BY <1>0, <1>18 DEF ProcessRuns, MainTypeOK
<1>19. CASE \E w \in Workers : Work(w) \/ WorkRefused(w) \/ WorkCrashes(w)
  BY <1>0, <1>19 DEF Work, WorkRefused, WorkCrashes, MainTypeOK
<1> QED
  BY <1>3, <1>4, <1>5, <1>6, <1>7, <1>8, <1>9, <1>10, <1>11, <1>12, <1>13, <1>14, <1>15,
     <1>16, <1>17, <1>18, <1>19
  DEF Next, Main, Starting, Stopping

LEMMA MainStep ==
  ASSUME MainInv, [Next]_vars
  PROVE  MainInv'
<1> USE DEF sigVars, mainVars, Goto
<1>0. MainTypeOK /\ MainTypeOK'
  <2>1. CASE UNCHANGED vars
    BY <2>1 DEF vars, MainInv, MainTypeOK
  <2> QED BY <2>1, MainTypes DEF MainInv
<1> USE DEF Launching, SearchdOver, IndexerOver, AllOver, Slain, StaysGone
<1>1. CASE UNCHANGED vars
  BY <1>0, <1>1, MainMoves DEF vars
<1>2. CASE loadConfig
  BY <1>0, <1>2, MainMoves DEF loadConfig
<1>3. CASE runMysqld
  <2>1. CASE Launch("nMysqld", "mysqld", "mysqld", "initMySQL")
    BY <1>0, <2>1, LaunchKeeps DEF Launch, Ids, Programs
  <2> QED BY <1>0, <1>3, <2>1, MainMoves DEF runMysqld
<1>4. CASE initMySQL
  BY <1>0, <1>4, MainMoves DEF initMySQL
<1>5. CASE launchSearchd
  <2>1. CASE Launch("nSearchd", "searchd", "launchSearchd", "runIndexer")
    BY <1>0, <2>1, LaunchKeeps DEF Launch, Ids, Programs
  <2>2. CASE pc = "launchSearchd" /\ pc' = "initSphinx" /\ UNCHANGED <<ids, tasks, process, indexer>>
    BY <1>0, <2>2, MainMoves
  <2> QED BY <1>5, <2>1, <2>2 DEF launchSearchd
<1>6. CASE runIndexer
  BY <1>0, <1>6, LaunchKeeps DEF runIndexer, Ids
<1>7. CASE initSphinx \/ initNetServer \/ startServer \/ Waiting \/ stopServer
  BY <1>0, <1>7, MainMoves
  DEF initSphinx, initNetServer, startServer, Waiting, SetHandler, LockExit, TestExit,
      WakeUp, stopServer
<1>8. CASE stopIndexer
  <2>1. ids.nIndexer < 0 => ids.nIndexer = -1
    BY <1>0 DEF MainTypeOK
  <2> QED BY <1>0, <1>8, <2>1, MainMoves DEF stopIndexer
<1>9. CASE joinIndexer
  BY <1>0, <1>9, StopKeeps DEF joinIndexer, Ids
<1>10. CASE stopSearchd
  <2>1. ids.nSearchd < 0 => ids.nSearchd = -1
    BY <1>0 DEF MainTypeOK
  <2> QED BY <1>0, <1>10, <2>1, MainMoves DEF stopSearchd, AfterSphinx
<1>11. CASE waitSearchd
  <2>1. process'["searchd"] = "gone" /\ process'["mysqld"] = process["mysqld"]
    BY <1>0, <1>11 DEF waitSearchd, WaitForProcess, MainTypeOK, Programs
  <2> QED BY <1>0, <1>11, <2>1, StopKeeps DEF waitSearchd, AfterSphinx, Ids
<1>12. CASE resetIds
  <2>1. /\ ids'.nMysqld = ids.nMysqld /\ pc = "resetIds" /\ pc' = "initNetServer"
        /\ ids'.nSearchd = -1 /\ ids'.nIndexer = -1
        /\ UNCHANGED <<tasks, process, indexer>>
    BY <1>0, <1>12 DEF resetIds, MainTypeOK
  <2> QED BY <1>0, <2>1 DEF MainInv, NotYet, Stopped, Listed, InTable
<1>13. CASE stopMysql
  <2>1. ids.nMysqld < 0 => ids.nMysqld = -1
    BY <1>0 DEF MainTypeOK
  <2> QED BY <1>0, <1>13, <2>1, MainMoves DEF stopMysql
<1>14. CASE waitMysqld
  <2>1. process'["mysqld"] = "gone" /\ process'["searchd"] = process["searchd"]
    BY <1>0, <1>14 DEF waitMysqld, WaitForProcess, MainTypeOK, Programs
  <2> QED BY <1>0, <1>14, <2>1, StopKeeps DEF waitMysqld, Ids
<1>15. CASE destroy \/ Sigint \/ signalHandler
  BY <1>0, <1>15, MainMoves DEF destroy, Sigint, signalHandler
<1>16. CASE LauncherThread \/ IndexerEnds
  BY <1>0, <1>16, MainMoves DEF LauncherThread, IndexerEnds, Gone
<1>17. CASE \E p \in Programs : ProcessRuns(p)
  BY <1>0, <1>17, MainMoves DEF ProcessRuns, Gone, MainTypeOK
<1>18. CASE \E w \in Workers : Work(w) \/ WorkRefused(w) \/ WorkCrashes(w)
  BY <1>0, <1>18, MainMoves DEF Work, WorkRefused, WorkCrashes
<1>19. CASE runSearchd \/ firstIndexer \/ askSearchd \/ askMysqld
  BY <1>0, <1>19, MainMoves DEF runSearchd, firstIndexer, askSearchd, askMysqld, HelperEnds
<1> QED
  BY <1>1, <1>2, <1>3, <1>4, <1>5, <1>6, <1>7, <1>8, <1>9, <1>10, <1>11, <1>12, <1>13,
     <1>14, <1>15, <1>16, <1>17, <1>18, <1>19
  DEF Next, Main, Starting, Stopping

(* When main() returns, nothing it has launched still runs.                *)
THEOREM NothingIsLeftBehind == Spec => []NoOrphan
<1>1. MainInv => NoOrphan
  BY DEF MainInv, Stopped, NoOrphan, SearchdOver, IndexerOver, AllOver, Gone, Programs
<1> QED BY <1>1, MainInit, MainStep, PTL DEF Spec

(* Only a task that is in the launcher's table is ever stopped.            *)
THEOREM TasksAreKnown == Spec => []StopsKnownTasks
<1>1. MainInv => StopsKnownTasks
  BY DEF MainInv, MainTypeOK, Listed, InTable, StopsKnownTasks, SearchdOver, IndexerOver,
         AllOver, Slain
<1> QED BY <1>1, MainInit, MainStep, PTL DEF Spec

-----------------------------------------------------------------------------
(* The pool in the life of the server *)

(* Workers exist only while main() waits; without them the pool is idle,   *)
(* and it is destroyed last.                                               *)
PoolLink ==
  /\ ~alive => pc = "ended"
  /\ ~serving => \A w \in Workers : Idle(w)
  /\ serving => pc \in {"signal", "lock", "test", "wait", "stopServer"} \union Slain

(* A kind of connection is registered once.                                *)
Once == /\ pc \in {"loadConfig", "mysqld", "initMySQL"} => MySQL \notin registered
        /\ pc \in Launching \union {"initSphinx"} => Sphinx \notin registered

PoolPart  == PoolInv /\ PoolLink
CountPart == CountInv /\ Once

LEMMA LinkKept ==
  ASSUME PoolLink, Next
  PROVE  PoolLink'
<1> USE DEF Goto, sigVars, mainVars, Slain
<1>1. CASE Starting
  BY <1>1
  DEF Starting, loadConfig, runMysqld, Launch, initMySQL, runSearchd, firstIndexer,
      HelperEnds, launchSearchd, runIndexer, initSphinx,
      initNetServer, startServer, registerConnection, PoolLink, poolVars, Idle
<1>2. CASE Waiting
  BY <1>2 DEF Waiting, SetHandler, LockExit, TestExit, WakeUp, PoolLink, poolVars, Idle
<1>3. CASE Stopping
  BY <1>3
  DEF Stopping, stopServer, stopIndexer, joinIndexer, stopSearchd, askSearchd, waitSearchd,
      HelperEnds, resetIds, stopMysql, askMysqld, waitMysqld, destroy, Destroy, PoolLink, poolVars, Idle
<1>4. CASE \/ Sigint \/ signalHandler \/ LauncherThread \/ IndexerEnds
           \/ \E p \in Programs : ProcessRuns(p)
  BY <1>4 DEF Sigint, Lives, signalHandler, LauncherThread, IndexerEnds, ProcessRuns, PoolLink, poolVars, Idle
<1>5. CASE \E w \in Workers : Work(w) \/ WorkRefused(w) \/ WorkCrashes(w)
  <2>1. serving /\ Lives /\ serving' = serving /\ pc' \in {pc, "crashed"}
    BY <1>5 DEF Work, WorkRefused, WorkCrashes
  <2>2. alive' = alive
    BY <1>5 DEF Work, WorkRefused, WorkCrashes, WorkerStep, Refused, getConnection, Provide, Begin,
                ReconnectThrows, Move, releaseConnection, Erase, verify, poolVars
  <2> QED BY <2>1, <2>2 DEF PoolLink, Lives
<1> QED BY <1>1, <1>2, <1>3, <1>4, <1>5 DEF Next, Main

(* What a step of the server is for the pool.                              *)
LEMMA PoolSteps ==
  ASSUME PoolLink, Next
  PROVE  \/ UNCHANGED poolVars
         \/ alive /\ pc = "initMySQL" /\ registerConnection(MySQL)
         \/ alive /\ pc = "initSphinx" /\ registerConnection(Sphinx)
         \/ alive /\ \E w \in Workers : WorkerStep(w) \/ Refused(w)
         \/ (\A w \in Workers : Idle(w)) /\ Destroy
<1> USE DEF Goto, sigVars, mainVars, Slain
<1>1. CASE Starting
  BY <1>1
  DEF Starting, loadConfig, runMysqld, Launch, initMySQL, runSearchd, firstIndexer,
      HelperEnds, launchSearchd, runIndexer, initSphinx,
      initNetServer, startServer, PoolLink
<1>2. CASE Waiting
  BY <1>2 DEF Waiting, SetHandler, LockExit, TestExit, WakeUp
<1>3. CASE Stopping
  BY <1>3
  DEF Stopping, stopServer, stopIndexer, joinIndexer, stopSearchd, askSearchd, waitSearchd,
      HelperEnds, resetIds, stopMysql, askMysqld, waitMysqld, destroy, PoolLink
<1>4. CASE \/ Sigint \/ signalHandler \/ LauncherThread \/ IndexerEnds
           \/ \E p \in Programs : ProcessRuns(p)
  BY <1>4 DEF Sigint, signalHandler, LauncherThread, IndexerEnds, ProcessRuns
<1>5. CASE \E w \in Workers : Work(w) \/ WorkRefused(w) \/ WorkCrashes(w)
  BY <1>5 DEF Work, WorkRefused, WorkCrashes, Lives, PoolLink
<1> QED BY <1>1, <1>2, <1>3, <1>4, <1>5 DEF Next, Main

LEMMA PoolPartInit == Init => PoolPart
<1> SUFFICES ASSUME Init PROVE PoolPart
  OBVIOUS
<1>1. PoolInv
  BY PoolInitInv DEF Init
<1> QED BY <1>1 DEF Init, PoolInit, PoolPart, PoolLink, Idle

LEMMA PoolPartStep ==
  ASSUME PoolPart, [Next]_vars
  PROVE  PoolPart'
<1>1. CASE UNCHANGED vars
  <2>1. UNCHANGED poolVars /\ UNCHANGED <<pc, serving>> BY <1>1 DEF vars, mainVars
  <2>2. PoolInv' BY <2>1, PoolStutters DEF PoolPart
  <2>3. PoolLink' BY <2>1 DEF PoolPart, PoolLink, Idle, poolVars
  <2> QED BY <2>2, <2>3 DEF PoolPart
<1>2. CASE Next
  <2>1. PoolLink'
    BY <1>2, LinkKept DEF PoolPart
  <2>2. PoolInv'
    <3>1. CASE UNCHANGED poolVars
      BY <3>1, PoolStutters DEF PoolPart
    <3>2. ASSUME NEW r \in RegIDs, alive, registerConnection(r) PROVE PoolInv'
      BY <3>2, RegisterKeeps DEF PoolPart
    <3>3. CASE alive /\ \E w \in Workers : WorkerStep(w) \/ Refused(w)
      BY <3>3, WorkerKeeps DEF PoolPart
    <3>4. CASE (\A w \in Workers : Idle(w)) /\ Destroy
      BY <3>4, DestroyKeeps DEF PoolPart
    <3> QED
      BY <1>2, <3>1, <3>2, <3>3, <3>4, PoolSteps, PoolAssumption, ServerAssumption DEF PoolPart
  <2> QED BY <2>1, <2>2 DEF PoolPart
<1> QED BY <1>1, <1>2

(* The variables of main and of the pool keep their types, on both         *)
(* platforms, whatever the threads, the programs and the signal do.        *)
THEOREM ServerTypeCorrect == Spec => []TypeOK
<1>1. MainInv /\ PoolPart => TypeOK
  BY DEF MainInv, PoolPart, PoolInv, TypeOK
<1>2. Init => MainInv /\ PoolPart
  BY MainInit, PoolPartInit
<1>3. MainInv /\ PoolPart /\ [Next]_vars => (MainInv /\ PoolPart)'
  BY MainStep, PoolPartStep
<1> QED BY <1>1, <1>2, <1>3, PTL DEF Spec

(* Throughout the life of the server, of a kind for which no two threads   *)
(* have met inside the pool, two requests never share a connection.        *)
THEOREM ServerUsesExclusively == Spec => []ExclusiveUse
<1>1. PoolPart => ExclusiveUse
  BY ExclusiveInv DEF PoolPart
<1> QED BY <1>1, PoolPartInit, PoolPartStep, PTL DEF Spec

-----------------------------------------------------------------------------
LEMMA CountPartInit == ASSUME SomeThreads, Init PROVE CountPart
  BY InitCount DEF Init, PoolInit, CountPart, Once

LEMMA OnceKept ==
  ASSUME PoolPart, Once, Next
  PROVE  Once'
<1> USE DEF Goto, sigVars, mainVars, poolVars, Launching
<1>0. MySQL # Sphinx
  BY ServerAssumption
<1>1. CASE Starting
  BY <1>0, <1>1
  DEF Starting, loadConfig, runMysqld, Launch, initMySQL, runSearchd, firstIndexer,
      HelperEnds, launchSearchd, runIndexer, initSphinx,
      initNetServer, startServer, registerConnection, Once
<1>2. CASE Waiting
  BY <1>2 DEF Waiting, SetHandler, LockExit, TestExit, WakeUp, Once
<1>3. CASE Stopping
  BY <1>3
  DEF Stopping, stopServer, stopIndexer, joinIndexer, stopSearchd, askSearchd, waitSearchd,
      HelperEnds, resetIds, stopMysql, askMysqld, waitMysqld, destroy, Once, AfterSphinx
<1>4. CASE \/ Sigint \/ signalHandler \/ LauncherThread \/ IndexerEnds
           \/ \E p \in Programs : ProcessRuns(p)
  BY <1>4 DEF Sigint, signalHandler, LauncherThread, IndexerEnds, ProcessRuns, Once
<1>5. CASE \E w \in Workers : Work(w) \/ WorkRefused(w) \/ WorkCrashes(w)
  <2>1. pc' \in {pc, "crashed"}
    BY <1>5 DEF Work, WorkRefused, WorkCrashes
  <2>2. registered' = registered
    BY <1>5 DEF Work, WorkRefused, WorkCrashes, WorkerStep, Refused, getConnection, Provide, Begin,
                ReconnectThrows, Move, releaseConnection, Erase, verify, poolVars
  <2> QED BY <2>1, <2>2 DEF Once
<1> QED BY <1>1, <1>2, <1>3, <1>4, <1>5 DEF Next, Main

LEMMA CountPartStep ==
  ASSUME SomeThreads, PoolPart, CountPart, [Next]_vars
  PROVE  CountPart'
<1>1. CASE UNCHANGED <<pc, poolVars>>
  <2>1. CountInv' BY <1>1, StutterCounts DEF CountPart
  <2>2. Once' BY <1>1 DEF poolVars, CountPart, Once
  <2> QED BY <2>1, <2>2 DEF CountPart
<1>2. CASE Next
  <2>1. Once'
    BY <1>2, OnceKept DEF CountPart
  <2>2. CASE UNCHANGED poolVars
    BY <2>1, <2>2, StutterCounts DEF CountPart
  <2>3. CASE alive /\ pc = "initMySQL" /\ registerConnection(MySQL)
    <3>1. CountInv' BY <2>3, RegisterCounts, PoolAssumption DEF CountPart, PoolPart, Once
    <3> QED BY <2>1, <3>1 DEF CountPart
  <2>4. CASE alive /\ pc = "initSphinx" /\ registerConnection(Sphinx)
    <3>1. Sphinx \in RegIDs /\ Sphinx \notin registered
      BY <2>4, ServerAssumption DEF CountPart, Once
    <3>2. CountInv' BY <2>4, <3>1, RegisterCounts DEF CountPart, PoolPart
    <3> QED BY <2>1, <3>2 DEF CountPart
  <2>5. CASE alive /\ \E w \in Workers : WorkerStep(w) \/ Refused(w)
    <3>1. CountInv' BY <2>5, WorkerCounts DEF CountPart, PoolPart
    <3> QED BY <2>1, <3>1 DEF CountPart
  <2>6. CASE Destroy
    BY <2>1, <2>6, DestroyCounts DEF CountPart
  <2> QED BY <1>2, <2>2, <2>3, <2>4, <2>5, <2>6, PoolSteps DEF PoolPart
<1> QED BY <1>1, <1>2 DEF vars

(* As long as the server lives, of a kind for which no two threads have    *)
(* met inside the pool, no connection is lost, and there are never more    *)
(* than its threads can hold at once and the two places that leak leaked.  *)
THEOREM ServerLosesNoConnection ==
  ASSUME SomeThreads
  PROVE  Spec => []NothingLost
<1>1. Init => PoolPart /\ CountPart
  BY PoolPartInit, CountPartInit
<1>2. PoolPart /\ CountPart /\ [Next]_vars => (PoolPart /\ CountPart)'
  BY PoolPartStep, CountPartStep
<1>3. PoolPart /\ CountPart => NothingLost
  BY CountInvSuffices DEF PoolPart, CountPart
<1> QED BY <1>1, <1>2, <1>3, PTL DEF Spec
=============================================================================

------------------------- MODULE SessionManagerProofs -------------------------
(***************************************************************************)
(* Theorems about SessionManager, for any number of workers, sessions, ids *)
(* and clients, any timeout and any width of int.                          *)
(***************************************************************************)
EXTENDS SessionManager, SequenceTheorems, TLAPS

-----------------------------------------------------------------------------
(* The queue *)

(* Moving a session to the tail keeps the queue's sessions, each once.     *)
LEMMA Requeue ==
  ASSUME NEW q \in Seq(Objs), Distinct(q), NEW k \in 1 .. Len(q)
  PROVE  LET r == Append(Unlink(q, k), q[k]) IN
         /\ r \in Seq(Objs) /\ Distinct(r)
         /\ Elements(r) = Elements(q)
<1> DEFINE u == Unlink(q, k)
           r == Append(u, q[k])
<1>1. Len(q) \in Nat /\ Len(q) >= 1 /\ \A j \in 1 .. Len(q) : q[j] \in Objs
  BY LenProperties, ElementOfSeq
<1>2. u \in [1 .. Len(q) - 1 -> Objs]
  BY <1>1 DEF Unlink
<1>3. u \in Seq(Objs)
  <2>1. Len(q) - 1 \in Nat
    BY <1>1
  <2> QED BY <1>2, <2>1, SeqDef
<1>4. Len(u) = Len(q) - 1
  <2>1. Len(u) \in Nat /\ DOMAIN u = 1 .. Len(u)
    BY <1>3, LenProperties
  <2>2. DOMAIN u = 1 .. Len(q) - 1
    BY DEF Unlink
  <2> QED BY <2>1, <2>2, <1>1
<1>5. \A j \in 1 .. Len(q) - 1 : u[j] = IF j < k THEN q[j] ELSE q[j + 1]
  BY DEF Unlink
<1>6. /\ r \in Seq(Objs) /\ Len(r) = Len(q) /\ r[Len(q)] = q[k]
      /\ \A j \in 1 .. Len(q) - 1 : r[j] = IF j < k THEN q[j] ELSE q[j + 1]
  <2> HIDE DEF u
  <2>1. q[k] \in Objs
    BY <1>1
  <2>2. /\ r \in Seq(Objs) /\ Len(r) = Len(u) + 1
        /\ \A j \in 1 .. Len(u) : r[j] = u[j]
        /\ r[Len(u) + 1] = q[k]
    BY <1>3, <2>1, AppendProperties
  <2> QED BY <2>2, <1>1, <1>4, <1>5
<1> HIDE DEF r, u
<1>7. Distinct(r)
  <2>1. \A j \in 1 .. Len(q) : r[j] = q[IF j = Len(q) THEN k ELSE IF j < k THEN j ELSE j + 1]
    BY <1>6, <1>1
  <2> QED BY <2>1, <1>6, <1>1 DEF Distinct
<1>8. Elements(r) \subseteq Elements(q)
  BY <1>1, <1>6 DEF Elements
<1>9. Elements(q) \subseteq Elements(r)
  <2> SUFFICES ASSUME NEW j \in 1 .. Len(q) PROVE \E m \in 1 .. Len(q) : r[m] = q[j]
    BY <1>6 DEF Elements
  <2>1. CASE j < k
    BY <2>1, <1>1, <1>6
  <2>2. CASE j = k
    BY <2>2, <1>1, <1>6
  <2>3. CASE j > k
    <3>1. j - 1 \in 1 .. Len(q) - 1 /\ ~(j - 1 < k) /\ (j - 1) + 1 = j
      BY <2>3, <1>1
    <3>2. r[j - 1] = q[j]
      BY <3>1, <1>6
    <3> QED BY <3>1, <3>2, <1>1
  <2> QED BY <2>1, <2>2, <2>3, <1>1
<1> QED BY <1>6, <1>7, <1>8, <1>9 DEF r, u

(* A session that enters the queue is the only one that is new in it.      *)
LEMMA Enqueue ==
  ASSUME NEW q \in Seq(Objs), Distinct(q), NEW o \in Objs, o \notin Elements(q)
  PROVE  /\ Append(q, o) \in Seq(Objs) /\ Distinct(Append(q, o))
         /\ Elements(Append(q, o)) = Elements(q) \union {o}
<1> DEFINE r == Append(q, o)
<1>1. Len(q) \in Nat
  BY LenProperties
<1>2. /\ r \in Seq(Objs) /\ Len(r) = Len(q) + 1 /\ r[Len(q) + 1] = o
      /\ \A j \in 1 .. Len(q) : r[j] = q[j]
  BY AppendProperties
<1> HIDE DEF r
<1>3. \A j \in 1 .. Len(q) : q[j] # o
  BY DEF Elements
<1>4. Distinct(r)
  BY <1>1, <1>2, <1>3 DEF Distinct
<1>5. \A j \in 1 .. Len(r) : j \in 1 .. Len(q) \/ j = Len(q) + 1
  BY <1>1, <1>2
<1>6. \A j \in 1 .. Len(q) : j \in 1 .. Len(r)
  BY <1>1, <1>2
<1>7. Len(q) + 1 \in 1 .. Len(r)
  BY <1>1, <1>2
<1>8. Elements(r) = Elements(q) \union {o}
  BY <1>2, <1>5, <1>6, <1>7 DEF Elements
<1> QED BY <1>2, <1>4, <1>8 DEF r

(* What the cleaner takes from the head of the queue and what it leaves.   *)
LEMMA Split ==
  ASSUME NEW q \in Seq(Objs), Distinct(q), NEW k \in 0 .. Len(q)
  PROVE  LET a == SubSeq(q, 1, k)
             b == SubSeq(q, k + 1, Len(q)) IN
         /\ a \in Seq(Objs) /\ Distinct(a)
         /\ b \in Seq(Objs) /\ Distinct(b)
         /\ Elements(a) = {q[j] : j \in 1 .. k}
         /\ Elements(a) \union Elements(b) = Elements(q)
         /\ Elements(a) \intersect Elements(b) = {}
         /\ a = <<>> <=> k = 0
<1> DEFINE a == SubSeq(q, 1, k)
           b == SubSeq(q, k + 1, Len(q))
<1>1. Len(q) \in Nat /\ k \in Nat /\ k <= Len(q)
      /\ \A j \in 1 .. Len(q) : q[j] \in Objs
  BY LenProperties, ElementOfSeq
<1>2. /\ a \in Seq(Objs) /\ Len(a) = k
      /\ \A j \in 1 .. k : a[j] = q[j]
  <2>1. \A j \in 1 .. k : q[j] \in Objs
    BY <1>1
  <2>2. /\ a \in Seq(Objs) /\ Len(a) = IF 1 <= k THEN k - 1 + 1 ELSE 0
        /\ \A j \in 1 .. k - 1 + 1 : a[j] = q[1 + j - 1]
    BY <2>1, <1>1, SubSeqProperties
  <2> QED BY <2>2, <1>1
<1>3. /\ b \in Seq(Objs) /\ Len(b) = Len(q) - k
      /\ \A j \in 1 .. Len(q) - k : b[j] = q[k + j]
  <2>1. \A j \in k + 1 .. Len(q) : q[j] \in Objs
    BY <1>1
  <2>2. k + 1 \in Int /\ Len(q) \in Int
    BY <1>1
  <2>3. /\ b \in Seq(Objs)
        /\ Len(b) = IF k + 1 <= Len(q) THEN Len(q) - (k + 1) + 1 ELSE 0
        /\ \A j \in 1 .. Len(q) - (k + 1) + 1 : b[j] = q[k + 1 + j - 1]
    BY <2>1, <2>2, SubSeqProperties
  <2> QED BY <2>3, <1>1
<1> HIDE DEF a, b
<1>4. Distinct(a)
  BY <1>1, <1>2 DEF Distinct
<1>5. Distinct(b)
  BY <1>1, <1>3 DEF Distinct
<1>6. Elements(a) = {q[j] : j \in 1 .. k}
  BY <1>2 DEF Elements
<1>7. Elements(b) = {q[j] : j \in k + 1 .. Len(q)}
  <2>1. \A j \in 1 .. Len(b) : k + j \in k + 1 .. Len(q) /\ b[j] = q[k + j]
    BY <1>1, <1>3
  <2>2. \A j \in k + 1 .. Len(q) : j - k \in 1 .. Len(b) /\ b[j - k] = q[j]
    BY <1>1, <1>3
  <2>3. ASSUME NEW x \in Elements(b) PROVE x \in {q[j] : j \in k + 1 .. Len(q)}
    BY <2>1 DEF Elements
  <2>4. ASSUME NEW j \in k + 1 .. Len(q) PROVE q[j] \in Elements(b)
    BY <2>2 DEF Elements
  <2> QED BY <2>3, <2>4
<1>8. Elements(a) \union Elements(b) = Elements(q)
  <2>1. 1 .. Len(q) = (1 .. k) \union (k + 1 .. Len(q))
    BY <1>1
  <2> QED BY <2>1, <1>6, <1>7 DEF Elements
<1>9. Elements(a) \intersect Elements(b) = {}
  <2>1. \A i \in 1 .. k, j \in k + 1 .. Len(q) :
          i \in 1 .. Len(q) /\ j \in 1 .. Len(q) /\ i # j
    BY <1>1
  <2> QED BY <2>1, <1>6, <1>7 DEF Distinct
<1>10. a = <<>> <=> k = 0
  BY <1>1, <1>2, EmptySeq
<1> QED BY <1>2, <1>3, <1>4, <1>5, <1>6, <1>8, <1>9, <1>10 DEF a, b

(* The next session to close, and those after it.                          *)
LEMMA HeadAndTail ==
  ASSUME NEW v \in Seq(Objs), Distinct(v), v # <<>>
  PROVE  /\ Head(v) \in Elements(v) /\ Head(v) \in Objs
         /\ Tail(v) \in Seq(Objs) /\ Distinct(Tail(v))
         /\ Elements(Tail(v)) = Elements(v) \ {Head(v)}
         /\ Tail(v) = <<>> <=> Len(v) = 1
<1> DEFINE t == Tail(v)
<1>1. Len(v) \in Nat /\ Len(v) >= 1 /\ \A j \in 1 .. Len(v) : v[j] \in Objs
  BY LenProperties, ElementOfSeq, EmptySeq
<1>2. Head(v) = v[1]
  BY <1>1
<1>3. /\ t \in Seq(Objs) /\ Len(t) = Len(v) - 1
      /\ \A j \in 1 .. Len(t) : t[j] = v[j + 1]
  BY HeadTailProperties
<1> HIDE DEF t
<1>4. Distinct(t)
  BY <1>1, <1>3 DEF Distinct
<1>5. \A j \in 1 .. Len(t) : j + 1 \in 1 .. Len(v) /\ j + 1 # 1 /\ t[j] = v[j + 1]
  BY <1>1, <1>3
<1>6. \A j \in 1 .. Len(v) : j # 1 => j - 1 \in 1 .. Len(t) /\ t[j - 1] = v[j]
  BY <1>1, <1>3
<1>7. 1 \in 1 .. Len(v)
  BY <1>1
<1>8. Elements(t) = Elements(v) \ {v[1]}
  <2>1. ASSUME NEW x \in Elements(t) PROVE x \in Elements(v) \ {v[1]}
    BY <1>5, <1>7 DEF Elements, Distinct
  <2>2. ASSUME NEW x \in Elements(v) \ {v[1]} PROVE x \in Elements(t)
    BY <1>6 DEF Elements
  <2> QED BY <2>1, <2>2
<1>9. t = <<>> <=> Len(v) = 1
  BY <1>1, <1>3, EmptySeq
<1> QED BY <1>1, <1>2, <1>3, <1>4, <1>7, <1>8, <1>9 DEF t, Elements

(* The arithmetic of nMaxClean stays within int.                           *)
Int32 == -IntMax - 1 .. IntMax

LEMMA GrowthType == ASSUME NEW n \in Int32 PROVE Growth(n) \in Int32
<1> USE SessionManagerAssumption
<1> DEFINE m == 2 * (IntMax + 1)
           x == n * 3 + IntMax + 1
<1>1. m \in Nat \ {0} /\ x \in Int
  BY DEF Int32
<1>2. x % m \in 0 .. m - 1
  <2> HIDE DEF m, x
  <2> QED BY <1>1
<1>3. Wrap(n * 3) \in Int32
  BY <1>2 DEF Wrap, Int32
<1>4. ASSUME NEW y \in Int32 PROVE Half(y) \in Int32
  BY DEF Half, Int32
<1> QED BY <1>3, <1>4 DEF Growth

-----------------------------------------------------------------------------
(* Where the sessions are *)

(* What the control of each thread says about its variables.               *)
Shape ==
  /\ \A w \in Workers : pc[w] = "idle" <=> ptr[w] = None
  /\ cleaner \in {"close", "delete"} <=> vExpired # <<>>
  /\ server \in {"stopping", "stopped"} => \A w \in Workers : pc[w] = "idle"
  /\ server = "stopped" => cleaner = "exited"

(* A live session is queued, expired or about to be entered, and only one  *)
(* of these.                                                               *)
Places ==
  /\ Distinct(vExpired)
  /\ Elements(queue) \intersect Elements(vExpired) = {}
  /\ Elements(vExpired) \subseteq live
  /\ server # "stopped" => Elements(queue) \subseteq live
  /\ \A w \in Workers : pc[w] = "insert" =>
       ptr[w] \in live \ (Elements(queue) \union Elements(vExpired))
  /\ \A w, v \in Workers :
       pc[w] = "insert" /\ pc[v] = "insert" /\ ptr[w] = ptr[v] => w = v

(* An entry of the table leads to a queued session with the entry's id.    *)
Mapped ==
  \A i \in Ids : m_mapSessions[i] # None =>
    m_mapSessions[i] \in Elements(queue) /\ idSession[m_mapSessions[i]] = i

Inv == TypeOK /\ Shape /\ Places /\ Mapped

LEMMA InvInit == Init => Inv
<1> USE SessionManagerAssumption
<1> SUFFICES ASSUME Init PROVE Inv
  OBVIOUS
<1>1. /\ <<>> \in Seq(Objs) /\ Distinct(<<>>) /\ Elements(<<>>) = {}
  BY EmptySeq DEF Distinct, Elements
<1>2. TypeOK
  BY <1>1 DEF Init, TypeOK
<1>3. Shape
  BY DEF Init, Shape
<1>4. Places
  BY <1>1 DEF Init, Places
<1>5. Mapped
  BY DEF Init, Mapped
<1> QED BY <1>2, <1>3, <1>4, <1>5 DEF Inv

(* A worker that is busy has a session.                                    *)
LEMMA Busy ==
  ASSUME Inv, NEW w \in Workers, pc[w] # "idle"
  PROVE  ptr[w] \in Objs /\ server \in {"running", "draining"}
BY DEF Inv, TypeOK, Shape

LEMMA NewSessionInv ==
  ASSUME Inv, NEW w \in Workers, NewSession(w) PROVE Inv'
<1> USE SessionManagerAssumption
<1>1. PICK o \in Objs \ live, i \in Ids, c \in IPs :
        /\ live'      = live \union {o}
        /\ idSession' = [idSession EXCEPT ![o] = i]
        /\ strIP'     = [strIP EXCEPT ![o] = c]
        /\ age'       = [age EXCEPT ![o] = 0]
        /\ Goto(w, "insert", o)
  BY DEF NewSession
<1>2. /\ server = "running" /\ pc[w] = "idle"
      /\ UNCHANGED <<owner, table, ip, sweeper, server>>
  BY DEF NewSession
<1>3. Elements(queue) \subseteq live /\ Elements(vExpired) \subseteq live
  BY <1>2 DEF Inv, Places
<1> USE <1>1, <1>2 DEF Goto, table, sweeper
<1>4. TypeOK'
  BY DEF Inv, TypeOK
<1>5. Shape'
  BY DEF Inv, TypeOK, Shape
<1>6. Places'
  BY <1>3 DEF Inv, TypeOK, Places
<1>7. Mapped'
  BY <1>3 DEF Inv, TypeOK, Mapped
<1> QED BY <1>4, <1>5, <1>6, <1>7 DEF Inv

LEMMA InsertSessionInv ==
  ASSUME Inv, NEW w \in Workers, InsertSession(w) PROVE Inv'
<1> USE SessionManagerAssumption
<1> DEFINE o == ptr[w]
           i == idSession[o]
<1>1. /\ pc[w] = "insert" /\ o \in Objs /\ i \in Ids
      /\ UNCHANGED <<object, ip, sweeper, server>>
      /\ o \in live \ (Elements(queue) \union Elements(vExpired))
  BY Busy DEF InsertSession, Inv, TypeOK, Places
<1>2. /\ queue' = Append(queue, o)
      /\ pc' = [pc EXCEPT ![w] = "idle"] /\ ptr' = [ptr EXCEPT ![w] = None]
      /\ m_mapSessions' = IF m_mapSessions[i] = None
                          THEN [m_mapSessions EXCEPT ![i] = o] ELSE m_mapSessions
  BY DEF InsertSession, addToCleanerQueue, Goto
<1>3. /\ queue' \in Seq(Objs) /\ Distinct(queue')
      /\ Elements(queue') = Elements(queue) \union {o}
  BY <1>1, <1>2, Enqueue DEF Inv, TypeOK
<1> HIDE DEF o, i
<1>4. TypeOK'
  BY <1>1, <1>2, <1>3 DEF Inv, TypeOK, object, sweeper
<1>5. Shape'
  BY <1>1, <1>2 DEF Inv, TypeOK, Shape, object, sweeper
<1>6. (Elements(vExpired) = Elements(vExpired'))
  BY <1>1 DEF sweeper
<1>7. Places'
  <2>1. \A v \in Workers : pc'[v] = "insert" => v # w /\ ptr'[v] = ptr[v] /\ ptr[v] # o
    BY <1>1, <1>2 DEF Inv, TypeOK, Places, o
  <2> QED BY <2>1, <1>1, <1>2, <1>3, <1>6 DEF Inv, TypeOK, Places, object, sweeper
<1>8. Mapped'
  BY <1>1, <1>2, <1>3 DEF Inv, TypeOK, Mapped, object, i
<1> QED BY <1>4, <1>5, <1>7, <1>8 DEF Inv

(* The part of getSession that concerns the table and the workers.         *)
LEMMA getSessionInv ==
  ASSUME Inv, NEW w \in Workers, getSession(w) PROVE Inv'
<1> USE SessionManagerAssumption
<1>1. PICK i \in Ids, c \in IPs :
        /\ m_mapSessions[i] # None
        /\ moveToTail(m_mapSessions[i])
        /\ age' = [age EXCEPT ![m_mapSessions[i]] = 0]
        /\ expired' = expired \ {m_mapSessions[i]}
        /\ Goto(w, "found", m_mapSessions[i])
        /\ ip' = [ip EXCEPT ![w] = c]
  BY DEF getSession
<1> DEFINE o == m_mapSessions[i]
<1>2. /\ server = "running" /\ pc[w] = "idle"
      /\ UNCHANGED <<live, idSession, strIP, owner, m_mapSessions,
                     cleaner, vExpired, nMaxClean, server>>
  BY DEF getSession
<1>3. /\ queue' \in Seq(Objs) /\ Distinct(queue')
      /\ Elements(queue') = Elements(queue)
  <2>1. PICK k \in 1 .. Len(queue) :
          queue[k] = o /\ queue' = Append(Unlink(queue, k), queue[k])
    BY <1>1 DEF moveToTail
  <2> QED BY <2>1, Requeue DEF Inv, TypeOK
<1>4. o \in Objs /\ o # None
  BY <1>1 DEF Inv, TypeOK
<1>5. /\ pc' = [pc EXCEPT ![w] = "found"] /\ ptr' = [ptr EXCEPT ![w] = o]
      /\ age' = [age EXCEPT ![o] = 0] /\ expired' = expired \ {o}
      /\ ip' = [ip EXCEPT ![w] = c]
  BY <1>1 DEF Goto
<1> HIDE DEF o
<1>6. TypeOK'
  BY <1>2, <1>3, <1>4, <1>5 DEF Inv, TypeOK
<1>7. Shape'
  BY <1>2, <1>4, <1>5 DEF Inv, TypeOK, Shape
<1>8. Elements(vExpired') = Elements(vExpired)
  BY <1>2
<1>9. Places'
  BY <1>2, <1>3, <1>5, <1>8 DEF Inv, TypeOK, Places
<1>10. Mapped'
  BY <1>2, <1>3 DEF Inv, TypeOK, Mapped
<1> QED BY <1>6, <1>7, <1>9, <1>10 DEF Inv

(* The steps of a worker that has its session change no place.             *)
LEMMA ServiceInv ==
  ASSUME Inv, NEW w \in Workers, CheckIP(w) \/ LockSession(w) \/ Serve(w)
  PROVE  Inv'
<1> USE SessionManagerAssumption
<1>1. pc[w] \in {"found", "lock", "serve"}
  BY DEF CheckIP, LockSession, Serve
<1>2. ptr[w] \in Objs /\ server \in {"running", "draining"}
  BY <1>1, Busy
<1>3. PICK p \in {"idle", "lock", "serve"} :
        Goto(w, p, IF p = "idle" THEN None ELSE ptr[w])
  BY DEF CheckIP, LockSession, Serve
<1>4. /\ owner' \in [Objs -> Workers \union {None}]
      /\ UNCHANGED <<live, idSession, strIP, age, table, ip, sweeper, server>>
  <2> USE <1>2 DEF Inv, TypeOK
  <2>1. CASE CheckIP(w)
    BY <2>1 DEF CheckIP, object
  <2>2. CASE LockSession(w)
    BY <2>2 DEF LockSession
  <2>3. CASE Serve(w)
    BY <2>3 DEF Serve
  <2> QED BY <2>1, <2>2, <2>3
<1>5. TypeOK'
  BY <1>2, <1>3, <1>4 DEF Inv, TypeOK, Goto, table, sweeper
<1>6. Shape'
  BY <1>2, <1>3, <1>4 DEF Inv, TypeOK, Shape, Goto, sweeper
<1>7. Places'
  BY <1>1, <1>3, <1>4 DEF Inv, TypeOK, Places, Goto, table, sweeper
<1>8. Mapped'
  BY <1>4 DEF Inv, Mapped, table
<1> QED BY <1>5, <1>6, <1>7, <1>8 DEF Inv

LEMMA WakeInv == ASSUME Inv, Wake PROVE Inv'
BY DEF Inv, TypeOK, Shape, Places, Mapped, Wake, object, table, worker

LEMMA SweepInv == ASSUME Inv, Sweep PROVE Inv'
<1> USE SessionManagerAssumption
<1>1. /\ cleaner = "sweep" /\ expired' = {}
      /\ UNCHANGED <<object, worker, server>>
  BY DEF Sweep
<1>2. PICK k \in 0 .. Len(queue) :
        /\ vExpired' = SubSeq(queue, 1, k)
        /\ queue'    = SubSeq(queue, k + 1, Len(queue))
        /\ m_mapSessions' =
             [i \in Ids |-> IF \E j \in 1 .. k : idSession[queue[j]] = i
                            THEN None ELSE m_mapSessions[i]]
        /\ cleaner'   = IF k = 0 THEN "wait" ELSE "close"
        /\ nMaxClean' = IF k = 0 THEN FirstClean ELSE nMaxClean
  BY DEF Sweep
<1>3. /\ vExpired' \in Seq(Objs) /\ Distinct(vExpired')
      /\ queue' \in Seq(Objs) /\ Distinct(queue')
      /\ Elements(vExpired') = {queue[j] : j \in 1 .. k}
      /\ Elements(vExpired') \union Elements(queue') = Elements(queue)
      /\ Elements(vExpired') \intersect Elements(queue') = {}
      /\ vExpired' = <<>> <=> k = 0
  <2>1. queue \in Seq(Objs) /\ Distinct(queue)
    BY DEF Inv, TypeOK
  <2> DEFINE a == SubSeq(queue, 1, k)
             b == SubSeq(queue, k + 1, Len(queue))
  <2>2. /\ a \in Seq(Objs) /\ Distinct(a)
        /\ b \in Seq(Objs) /\ Distinct(b)
        /\ Elements(a) = {queue[j] : j \in 1 .. k}
        /\ Elements(a) \union Elements(b) = Elements(queue)
        /\ Elements(a) \intersect Elements(b) = {}
        /\ a = <<>> <=> k = 0
    BY <2>1, Split
  <2>3. vExpired' = a /\ queue' = b
    BY <1>2
  <2> HIDE DEF a, b
  <2> QED BY <2>2, <2>3
<1>4. server # "stopped"
  BY <1>1 DEF Inv, Shape
<1>5. TypeOK'
  BY <1>1, <1>2, <1>3 DEF Inv, TypeOK, object, worker
<1>6. Shape'
  BY <1>1, <1>2, <1>3 DEF Inv, Shape, worker
<1>7. Places'
  BY <1>1, <1>3, <1>4 DEF Inv, Places, object, worker
<1>8. Mapped'
  <2> SUFFICES ASSUME NEW i \in Ids, m_mapSessions'[i] # None
               PROVE  /\ m_mapSessions'[i] \in Elements(queue')
                      /\ idSession'[m_mapSessions'[i]] = i
    BY DEF Mapped
  <2>1. /\ m_mapSessions'[i] = m_mapSessions[i]
        /\ \A j \in 1 .. k : idSession[queue[j]] # i
    BY <1>2
  <2>2. m_mapSessions[i] \in Elements(queue) /\ idSession[m_mapSessions[i]] = i
    BY <2>1 DEF Inv, Mapped
  <2>3. m_mapSessions[i] \notin Elements(vExpired')
    BY <2>1, <2>2, <1>3
  <2> QED BY <2>1, <2>2, <2>3, <1>1, <1>3 DEF object
<1> QED BY <1>5, <1>6, <1>7, <1>8 DEF Inv

LEMMA CloseSessionInv == ASSUME Inv, CloseSession PROVE Inv'
BY DEF Inv, TypeOK, Shape, Places, Mapped, CloseSession, object, table, worker

LEMMA DeleteSessionInv == ASSUME Inv, DeleteSession PROVE Inv'
<1> USE SessionManagerAssumption
<1> DEFINE o == Head(vExpired)
<1>1. /\ cleaner = "delete"
      /\ live' = live \ {o} /\ vExpired' = Tail(vExpired)
      /\ cleaner'   = IF Len(vExpired) = 1 THEN "wait" ELSE "close"
      /\ nMaxClean' = IF Len(vExpired) = 1 THEN Growth(nMaxClean) ELSE nMaxClean
      /\ UNCHANGED <<idSession, strIP, age, owner, table, worker, expired, server>>
  BY DEF DeleteSession
<1>2. /\ o \in Elements(vExpired)
      /\ vExpired' \in Seq(Objs) /\ Distinct(vExpired')
      /\ Elements(vExpired') = Elements(vExpired) \ {o}
      /\ vExpired' = <<>> <=> Len(vExpired) = 1
  BY <1>1, HeadAndTail DEF Inv, TypeOK, Shape, Places
<1> HIDE DEF o
<1>3. nMaxClean' \in Int32
  BY <1>1, GrowthType DEF Inv, TypeOK, Int32
<1>4. server # "stopped"
  BY <1>1 DEF Inv, Shape
<1>5. TypeOK'
  BY <1>1, <1>2, <1>3 DEF Inv, TypeOK, Int32, table, worker
<1>6. Shape'
  BY <1>1, <1>2 DEF Inv, Shape, worker
<1>7. Places'
  BY <1>1, <1>2, <1>4 DEF Inv, Places, table, worker
<1>8. Mapped'
  BY <1>1 DEF Inv, Mapped, table
<1> QED BY <1>5, <1>6, <1>7, <1>8 DEF Inv

LEMMA ExitCleanerInv == ASSUME Inv, ExitCleaner PROVE Inv'
BY DEF Inv, TypeOK, Shape, Places, Mapped, ExitCleaner, object, table, worker

LEMMA MainInv ==
  ASSUME Inv, Interrupt \/ JoinWorkers \/ stopServer PROVE Inv'
<1>1. CASE Interrupt
  BY <1>1 DEF Inv, TypeOK, Shape, Places, Mapped, Interrupt, object, table,
              worker, sweeper
<1>2. CASE JoinWorkers
  BY <1>2 DEF Inv, TypeOK, Shape, Places, Mapped, JoinWorkers, object, table,
              worker, sweeper
<1>3. CASE stopServer
  <2>1. /\ server = "stopping" /\ server' = "stopped" /\ cleaner = "exited"
        /\ live' \subseteq live
        /\ UNCHANGED <<idSession, strIP, age, owner, table, worker, sweeper>>
    BY <1>3 DEF stopServer
  <2>2. vExpired = <<>> /\ Elements(vExpired) = {}
    BY <2>1, EmptySeq DEF Inv, Shape, Elements
  <2> USE <2>1, <2>2 DEF Inv, table, worker, sweeper
  <2>3. TypeOK'
    BY DEF TypeOK
  <2>4. Shape'
    BY DEF Shape
  <2>5. Places'
    BY DEF Places, Shape
  <2>6. Mapped'
    BY DEF Mapped
  <2> QED BY <2>3, <2>4, <2>5, <2>6
<1> QED BY <1>1, <1>2, <1>3

LEMMA TickInv == ASSUME Inv, Tick PROVE Inv'
<1> USE SessionManagerAssumption
<1>1. age' \in [Objs -> 0 .. Timeout]
  BY DEF Tick, Inv, TypeOK
<1>2. UNCHANGED <<live, idSession, strIP, owner, table, worker, sweeper, server>>
  BY DEF Tick
<1> QED BY <1>1, <1>2 DEF Inv, TypeOK, Shape, Places, Mapped, table, worker, sweeper

LEMMA InvStep == ASSUME Inv, [Next]_vars PROVE Inv'
<1>1. ASSUME NEW w \in Workers, NewSession(w) PROVE Inv'
  BY <1>1, NewSessionInv
<1>2. ASSUME NEW w \in Workers, getSession(w) PROVE Inv'
  BY <1>2, getSessionInv
<1>3. ASSUME NEW w \in Workers, Work(w) \/ LockSession(w) PROVE Inv'
  BY <1>3, InsertSessionInv, ServiceInv DEF Work
<1>4. CASE Cleaner
  BY <1>4, WakeInv, SweepInv, CloseSessionInv, DeleteSessionInv, ExitCleanerInv
     DEF Cleaner
<1>5. CASE Interrupt \/ JoinWorkers \/ stopServer
  BY <1>5, MainInv
<1>6. CASE Tick
  BY <1>6, TickInv
<1>7. CASE UNCHANGED vars
  BY <1>7 DEF Inv, TypeOK, Shape, Places, Mapped, vars, object, table, worker, sweeper
<1> QED BY <1>1, <1>2, <1>3, <1>4, <1>5, <1>6, <1>7 DEF Next

LEMMA InvHolds == Spec => []Inv
BY InvInit, InvStep, PTL DEF Spec

(* Every variable of the session manager keeps its type, int arithmetic    *)
(* included, and the cleaner's queue never holds a session twice.          *)
THEOREM TypeCorrect == Spec => []TypeOK
<1>1. Inv => TypeOK
  BY DEF Inv
<1> QED BY <1>1, InvHolds, PTL

(* getSession always finds the session it looks up in the queue it unlinks *)
(* it from: the null links of a session outside are never followed.        *)
THEOREM TableIsQueued == Spec => []MappedAreQueued
<1>1. Inv => MappedAreQueued
  BY DEF Inv, Mapped, MappedAreQueued
<1> QED BY <1>1, InvHolds, PTL

-----------------------------------------------------------------------------
(* Deleting sessions, when no worker is kept from its session's mutex      *)
(* until the session expires                                               *)

(* A pointer that getSession returned leads to a session that is queued    *)
(* and has not expired, until its mutex is held; and the cleaner deletes a *)
(* session only when nobody holds its mutex.                               *)
Held ==
  /\ \A w \in Workers : pc[w] \in {"found", "lock"} =>
       /\ ptr[w] \in Elements(queue) \ expired
       /\ age[ptr[w]] < Timeout
  /\ \A w \in Workers : pc[w] = "serve" => ptr[w] \in live /\ owner[ptr[w]] = w
  /\ cleaner = "delete" => owner[Head(vExpired)] = None

LEMMA HeldInit == Init => Held
BY DEF Init, Held

LEMMA NewSessionHeld ==
  ASSUME Inv, Held, NEW w \in Workers, NewSession(w) PROVE Held'
<1>1. PICK o \in Objs \ live :
        /\ live' = live \union {o}
        /\ age'  = [age EXCEPT ![o] = 0]
        /\ pc'   = [pc EXCEPT ![w] = "insert"] /\ ptr' = [ptr EXCEPT ![w] = o]
  BY DEF NewSession, Goto
<1>2. /\ server = "running" /\ pc[w] = "idle"
      /\ UNCHANGED <<owner, table, sweeper>>
  BY DEF NewSession
<1>3. o \notin Elements(queue)
  BY <1>2 DEF Inv, Places
<1> QED BY <1>1, <1>2, <1>3 DEF Inv, TypeOK, Held, table, sweeper

LEMMA getSessionHeld ==
  ASSUME Inv, Held, NEW w \in Workers, getSession(w) PROVE Held'
<1> USE SessionManagerAssumption
<1>1. PICK i \in Ids :
        /\ m_mapSessions[i] # None
        /\ moveToTail(m_mapSessions[i])
        /\ age' = [age EXCEPT ![m_mapSessions[i]] = 0]
        /\ expired' = expired \ {m_mapSessions[i]}
        /\ Goto(w, "found", m_mapSessions[i])
  BY DEF getSession
<1> DEFINE o == m_mapSessions[i]
<1>2. /\ pc[w] = "idle"
      /\ UNCHANGED <<live, owner, cleaner, vExpired>>
  BY DEF getSession
<1>3. Elements(queue') = Elements(queue)
  <2>1. PICK k \in 1 .. Len(queue) :
          queue[k] = o /\ queue' = Append(Unlink(queue, k), queue[k])
    BY <1>1 DEF moveToTail
  <2> QED BY <2>1, Requeue DEF Inv, TypeOK
<1>4. o \in Objs /\ o \in Elements(queue)
  BY <1>1 DEF Inv, TypeOK, Mapped
<1>5. /\ pc' = [pc EXCEPT ![w] = "found"] /\ ptr' = [ptr EXCEPT ![w] = o]
      /\ age' = [age EXCEPT ![o] = 0] /\ expired' = expired \ {o}
  BY <1>1 DEF Goto
<1> HIDE DEF o
<1> QED BY <1>2, <1>3, <1>4, <1>5 DEF Inv, TypeOK, Held

LEMMA WorkHeld ==
  ASSUME Inv, Held, NEW w \in Workers, Work(w) \/ LockSession(w) PROVE Held'
<1> USE SessionManagerAssumption
<1>1. pc[w] # "idle"
  BY DEF Work, InsertSession, CheckIP, Serve, LockSession
<1>2. ptr[w] \in Objs
  BY <1>1, Busy
<1>3. CASE InsertSession(w)
  <2>1. ptr[w] \notin Elements(queue) /\ queue \in Seq(Objs) /\ Distinct(queue)
    BY <1>3 DEF InsertSession, Inv, Places, TypeOK
  <2>2. Elements(queue') = Elements(queue) \union {ptr[w]}
    BY <1>3, <1>2, <2>1, Enqueue DEF InsertSession, addToCleanerQueue
  <2> QED BY <1>3, <2>2 DEF InsertSession, Goto, Inv, TypeOK, Held, object, sweeper
<1>4. CASE CheckIP(w)
  <2>1. /\ pc[w] = "found"
        /\ \/ pc' = [pc EXCEPT ![w] = "lock"] /\ ptr' = [ptr EXCEPT ![w] = ptr[w]]
           \/ pc' = [pc EXCEPT ![w] = "idle"] /\ ptr' = [ptr EXCEPT ![w] = None]
        /\ UNCHANGED <<live, owner, age, queue, expired, cleaner, vExpired>>
    BY <1>4 DEF CheckIP, Goto, object, table, sweeper
  <2>2. \A v \in Workers : pc'[v] \in {"found", "lock", "serve"} =>
          /\ ptr'[v] = ptr[v]
          /\ pc[v] = pc'[v] \/ (pc[v] = "found" /\ pc'[v] = "lock")
    BY <2>1 DEF Inv, TypeOK
  <2> QED BY <2>1, <2>2 DEF Held
<1>5. CASE LockSession(w)
  <2>1. pc[w] = "lock" /\ ptr[w] \in Elements(queue) /\ ptr[w] \in live
    BY <1>5, <1>1, Busy DEF LockSession, Held, Inv, Places
  <2>2. cleaner = "delete" => Head(vExpired) \in Elements(vExpired)
    BY HeadAndTail DEF Inv, TypeOK, Shape, Places
  <2>3. cleaner = "delete" => Head(vExpired) # ptr[w]
    BY <2>1, <2>2 DEF Inv, Places
  <2>4. /\ owner[ptr[w]] = None
        /\ owner' = [owner EXCEPT ![ptr[w]] = w]
        /\ pc' = [pc EXCEPT ![w] = "serve"] /\ ptr' = [ptr EXCEPT ![w] = ptr[w]]
        /\ UNCHANGED <<live, age, queue, expired, cleaner, vExpired>>
    BY <1>5 DEF LockSession, Goto, table, sweeper
  <2> QED BY <1>2, <2>1, <2>3, <2>4 DEF Inv, TypeOK, Held
<1>6. CASE Serve(w)
  <2>1. /\ pc[w] = "serve"
        /\ owner' = [owner EXCEPT ![ptr[w]] = None]
        /\ pc' = [pc EXCEPT ![w] = "idle"] /\ ptr' = [ptr EXCEPT ![w] = None]
        /\ UNCHANGED <<live, age, queue, expired, cleaner, vExpired>>
    BY <1>6 DEF Serve, Goto, table, sweeper
  <2> QED BY <1>2, <2>1 DEF Inv, TypeOK, Held
<1> QED BY <1>3, <1>4, <1>5, <1>6 DEF Work

LEMMA CleanerHeld == ASSUME Inv, Held, Cleaner PROVE Held'
<1>1. CASE Wake
  <2>1. /\ expired' = {o \in live : age[o] >= Timeout} /\ cleaner' # "delete"
        /\ UNCHANGED <<live, owner, age, queue, pc, ptr>>
    BY <1>1 DEF Wake, object, table, worker
  <2>2. \A w \in Workers : pc[w] \in {"found", "lock"} =>
          /\ ptr[w] \in Elements(queue) /\ age[ptr[w]] < Timeout
          /\ age[ptr[w]] \in Int
    BY SessionManagerAssumption, Busy DEF Held, Inv, TypeOK
  <2>3. \A w \in Workers : pc[w] \in {"found", "lock"} => ptr[w] \notin expired'
    BY SessionManagerAssumption, <2>1, <2>2
  <2> QED BY <2>1, <2>2, <2>3 DEF Held
<1>2. CASE Sweep
  <2>1. /\ expired' = {} /\ cleaner' # "delete"
        /\ UNCHANGED <<object, worker, server>>
    BY <1>2 DEF Sweep
  <2>2. PICK k \in 0 .. Len(queue) :
          /\ ToClean(k)
          /\ queue' = SubSeq(queue, k + 1, Len(queue))
    BY <1>2 DEF Sweep
  <2>3. {queue[j] : j \in 1 .. k} \subseteq expired
    BY <2>2 DEF ToClean
  <2>4. Elements(queue) = {queue[j] : j \in 1 .. k} \union Elements(queue')
    BY <2>2, Split DEF Inv, TypeOK
  <2> QED BY <2>1, <2>3, <2>4 DEF Held, object, worker
<1>3. CASE CloseSession
  BY <1>3 DEF CloseSession, Held, object, table, worker
<1>4. CASE DeleteSession
  <2>1. Head(vExpired) \in Elements(vExpired)
    BY <1>4, HeadAndTail DEF DeleteSession, Inv, TypeOK, Shape, Places
  <2>2. \A w \in Workers : pc[w] = "serve" => ptr[w] # Head(vExpired)
    BY <1>4, SessionManagerAssumption DEF DeleteSession, Held
  <2>3. cleaner' # "delete" /\ live' = live \ {Head(vExpired)}
        /\ UNCHANGED <<idSession, strIP, age, owner, table, worker, expired, server>>
    BY <1>4 DEF DeleteSession
  <2> QED BY <2>2, <2>3 DEF Held, table, worker
<1>5. CASE ExitCleaner
  BY <1>5 DEF ExitCleaner, Held, object, table, worker
<1> QED BY <1>1, <1>2, <1>3, <1>4, <1>5 DEF Cleaner

LEMMA MainHeld ==
  ASSUME Inv, Held, Interrupt \/ JoinWorkers \/ stopServer PROVE Held'
<1>1. CASE Interrupt \/ JoinWorkers
  BY <1>1 DEF Interrupt, JoinWorkers, Held, object, table, worker, sweeper
<1>2. CASE stopServer
  <2>1. \A w \in Workers : pc[w] = "idle"
    BY <1>2 DEF stopServer, Inv, Shape
  <2> QED BY <1>2, <2>1 DEF stopServer, Held, table, worker, sweeper
<1> QED BY <1>1, <1>2

LEMMA TickHeld == ASSUME Inv, Held, Prompt, Tick PROVE Held'
<1> USE SessionManagerAssumption
<1>1. \A w \in Workers : pc[w] \in {"found", "lock"} =>
        ptr[w] \in Objs /\ age[ptr[w]] + 1 < Timeout
  BY Busy DEF Tick
<1>2. \A o \in Objs : age'[o] = age[o] \/ age'[o] = age[o] + 1
  BY DEF Tick
<1>3. UNCHANGED <<live, idSession, strIP, owner, table, worker, sweeper, server>>
  BY DEF Tick
<1> QED BY <1>1, <1>2, <1>3 DEF Held, table, worker, sweeper

LEMMA HeldStep == ASSUME Inv, Held, Prompt, [Next]_vars PROVE Held'
<1>1. ASSUME NEW w \in Workers, NewSession(w) PROVE Held'
  BY <1>1, NewSessionHeld
<1>2. ASSUME NEW w \in Workers, getSession(w) PROVE Held'
  BY <1>2, getSessionHeld
<1>3. ASSUME NEW w \in Workers, Work(w) \/ LockSession(w) PROVE Held'
  BY <1>3, WorkHeld
<1>4. CASE Cleaner
  BY <1>4, CleanerHeld
<1>5. CASE Interrupt \/ JoinWorkers \/ stopServer
  BY <1>5, MainHeld
<1>6. CASE Tick
  BY <1>6, TickHeld
<1>7. CASE UNCHANGED vars
  BY <1>7 DEF Held, vars, object, table, worker, sweeper
<1> QED BY <1>1, <1>2, <1>3, <1>4, <1>5, <1>6, <1>7 DEF Next

(* If a worker always gets the mutex of the session it looked up before    *)
(* the session expires, no thread uses a session that has been deleted,    *)
(* for every interleaving of lookups, expiry, deletion and shutdown and    *)
(* even when ids collide.                                                  *)
THEOREM SessionsOutliveUse ==
  ASSUME Prompt PROVE Spec => []NoUseAfterFree
<1>1. Inv /\ Held => NoUseAfterFree
  <2> SUFFICES ASSUME Inv, Held PROVE NoUseAfterFree
    OBVIOUS
  <2>1. ASSUME NEW w \in Workers, pc[w] # "idle" PROVE ptr[w] \in live
    <3>1. pc[w] \in {"insert", "found", "lock", "serve"} /\ server # "stopped"
      BY <2>1, Busy DEF Inv, TypeOK
    <3> QED BY <3>1 DEF Inv, Places, Held
  <2> QED BY <2>1 DEF Inv, Places, Held, NoUseAfterFree
<1>2. Inv /\ Held /\ [Next]_vars => Held'
  BY HeldStep
<1> QED BY <1>1, <1>2, HeldInit, InvHolds, PTL DEF Spec

-----------------------------------------------------------------------------
(* The life of a session, when ids do not collide                          *)

(* Every live session has a place; ids are unique among live sessions, and *)
(* every queued session is the one its id leads to.                        *)
Found ==
  /\ server = "stopped" => live = {}
  /\ \A o \in live : \/ o \in Elements(queue) \/ o \in Elements(vExpired)
                     \/ \E w \in Workers : pc[w] = "insert" /\ ptr[w] = o
  /\ \A o, p \in live : idSession[o] = idSession[p] => o = p
  /\ server # "stopped" =>
       \A o \in Elements(queue) : m_mapSessions[idSession[o]] = o

(* What the cleaner judged expired is still expired when it sweeps.        *)
Judged ==
  /\ expired \subseteq live /\ \A o \in expired : age[o] >= Timeout
  /\ expired # {} => cleaner = "sweep"

LEMMA JudgedInit == Init => Judged
BY DEF Init, Judged

LEMMA JudgedStep == ASSUME Inv, Judged, [Next]_vars PROVE Judged'
<1> USE SessionManagerAssumption
<1>1. ASSUME NEW w \in Workers, NewSession(w) PROVE Judged'
  BY <1>1 DEF NewSession, Inv, TypeOK, Judged, sweeper
<1>2. ASSUME NEW w \in Workers, getSession(w) PROVE Judged'
  BY <1>2 DEF getSession, Inv, TypeOK, Judged
<1>3. ASSUME NEW w \in Workers, Work(w) \/ LockSession(w) PROVE Judged'
  BY <1>3 DEF Work, InsertSession, CheckIP, Serve, LockSession, Judged, object, sweeper
<1>4. CASE Cleaner
  BY <1>4 DEF Cleaner, Wake, Sweep, CloseSession, DeleteSession, ExitCleaner, Judged,
              object
<1>5. CASE Interrupt \/ JoinWorkers \/ stopServer
  BY <1>5 DEF Interrupt, JoinWorkers, stopServer, Judged, object, sweeper
<1>6. CASE Tick
  <2>1. \A o \in Objs : age[o] >= Timeout => age'[o] = age[o]
    BY <1>6 DEF Tick, Inv, TypeOK
  <2> QED BY <1>6, <2>1 DEF Tick, Inv, TypeOK, Judged, sweeper
<1>7. CASE UNCHANGED vars
  BY <1>7 DEF Judged, vars, object, sweeper
<1> QED BY <1>1, <1>2, <1>3, <1>4, <1>5, <1>6, <1>7 DEF Next

LEMMA FoundInit == Init => Found
BY DEF Init, Found, Elements

LEMMA NewSessionFound ==
  ASSUME Inv, Found, FreshIds, NEW w \in Workers, NewSession(w) PROVE Found'
<1>1. PICK o \in Objs \ live, i \in Ids :
        /\ \A p \in live : idSession[p] # i
        /\ live'      = live \union {o}
        /\ idSession' = [idSession EXCEPT ![o] = i]
        /\ pc' = [pc EXCEPT ![w] = "insert"] /\ ptr' = [ptr EXCEPT ![w] = o]
  BY DEF NewSession, Goto
<1>2. /\ server = "running" /\ pc[w] = "idle"
      /\ UNCHANGED <<m_mapSessions, queue, vExpired, server>>
  BY DEF NewSession, table, sweeper
<1>3. o \notin Elements(queue) /\ Elements(queue) \subseteq live
  BY <1>2 DEF Inv, Places
<1>4. \A p \in live : p \in Objs /\ idSession'[p] = idSession[p]
  BY <1>1 DEF Inv, TypeOK
<1>5. idSession'[o] = i /\ pc'[w] = "insert" /\ ptr'[w] = o
  BY <1>1 DEF Inv, TypeOK
<1>6. \A v \in Workers : pc[v] = "insert" => pc'[v] = pc[v] /\ ptr'[v] = ptr[v]
  BY <1>1, <1>2 DEF Inv, TypeOK
<1>7. \A p \in live' : \/ p \in Elements(queue) \/ p \in Elements(vExpired)
                       \/ \E v \in Workers : pc'[v] = "insert" /\ ptr'[v] = p
  BY <1>1, <1>5, <1>6 DEF Found
<1>8. \A p, q \in live' : idSession'[p] = idSession'[q] => p = q
  BY <1>1, <1>4, <1>5 DEF Found
<1>9. \A p \in Elements(queue) : m_mapSessions[idSession'[p]] = p
  BY <1>2, <1>3, <1>4 DEF Found
<1> QED BY <1>2, <1>7, <1>8, <1>9 DEF Found

LEMMA InsertSessionFound ==
  ASSUME Inv, Found, NEW w \in Workers, InsertSession(w) PROVE Found'
<1> USE SessionManagerAssumption
<1> DEFINE o == ptr[w]
           i == idSession[o]
<1>1. /\ pc[w] = "insert" /\ o \in Objs /\ i \in Ids /\ server # "stopped"
      /\ UNCHANGED <<live, idSession, vExpired, server>>
      /\ o \in live \ (Elements(queue) \union Elements(vExpired))
  BY Busy DEF InsertSession, Inv, TypeOK, Places, object, sweeper
<1>2. /\ queue' = Append(queue, o)
      /\ pc' = [pc EXCEPT ![w] = "idle"] /\ ptr' = [ptr EXCEPT ![w] = None]
      /\ m_mapSessions' = IF m_mapSessions[i] = None
                          THEN [m_mapSessions EXCEPT ![i] = o] ELSE m_mapSessions
  BY DEF InsertSession, addToCleanerQueue, Goto
<1>3. Elements(queue') = Elements(queue) \union {o}
  BY <1>1, <1>2, Enqueue DEF Inv, TypeOK
<1>4. m_mapSessions[i] = None
  <2>1. ASSUME m_mapSessions[i] # None PROVE FALSE
    <3>1. /\ m_mapSessions[i] \in Elements(queue)
          /\ idSession[m_mapSessions[i]] = i
      BY <2>1, <1>1 DEF Inv, Mapped
    <3>2. m_mapSessions[i] \in live
      BY <3>1, <1>1 DEF Inv, Places
    <3> QED BY <3>1, <3>2, <1>1 DEF Found
  <2> QED BY <2>1
<1>5. m_mapSessions'[i] = o /\ \A j \in Ids : j # i => m_mapSessions'[j] = m_mapSessions[j]
  BY <1>1, <1>2, <1>4 DEF Inv, TypeOK
<1>6. \A p \in Elements(queue) : p \in Objs /\ idSession[p] \in Ids /\ idSession[p] # i
  <2>1. Elements(queue) \subseteq live
    BY <1>1 DEF Inv, Places
  <2> QED BY <2>1, <1>1 DEF Inv, TypeOK, Found
<1>7. \A v \in Workers : pc[v] = "insert" /\ v # w => pc'[v] = pc[v] /\ ptr'[v] = ptr[v]
  BY <1>2 DEF Inv, TypeOK
<1> HIDE DEF i
<1>8. \A p \in live : \/ p \in Elements(queue') \/ p \in Elements(vExpired)
                      \/ \E v \in Workers : pc'[v] = "insert" /\ ptr'[v] = p
  BY <1>3, <1>7 DEF Found
<1>9. \A p \in Elements(queue') : m_mapSessions'[idSession[p]] = p
  BY <1>1, <1>3, <1>5, <1>6 DEF Found, i
<1> QED BY <1>1, <1>8, <1>9 DEF Found

LEMMA getSessionFound ==
  ASSUME Inv, Found, NEW w \in Workers, getSession(w) PROVE Found'
<1>1. PICK i \in Ids : /\ moveToTail(m_mapSessions[i])
                       /\ Goto(w, "found", m_mapSessions[i])
  BY DEF getSession
<1>2. /\ pc[w] = "idle"
      /\ UNCHANGED <<live, idSession, m_mapSessions, vExpired, server>>
  BY DEF getSession
<1>3. Elements(queue') = Elements(queue)
  <2>1. PICK k \in 1 .. Len(queue) : queue' = Append(Unlink(queue, k), queue[k])
    BY <1>1 DEF moveToTail
  <2> QED BY <2>1, Requeue DEF Inv, TypeOK
<1>4. \A v \in Workers : pc[v] = "insert" => pc'[v] = pc[v] /\ ptr'[v] = ptr[v]
  BY <1>1, <1>2 DEF Inv, TypeOK, Goto
<1> QED BY <1>2, <1>3, <1>4 DEF Found

LEMMA ServiceFound ==
  ASSUME Inv, Found, NEW w \in Workers, CheckIP(w) \/ LockSession(w) \/ Serve(w)
  PROVE  Found'
<1>1. /\ pc[w] # "insert"
      /\ UNCHANGED <<live, idSession, m_mapSessions, queue, vExpired, server>>
  BY DEF CheckIP, LockSession, Serve, object, table, sweeper
<1>2. \E place, o : Goto(w, place, o)
  BY DEF CheckIP, LockSession, Serve
<1>3. \A v \in Workers : pc[v] = "insert" => pc'[v] = pc[v] /\ ptr'[v] = ptr[v]
  BY <1>1, <1>2 DEF Goto, Inv, TypeOK
<1> QED BY <1>1, <1>3 DEF Found

LEMMA SweepFound == ASSUME Inv, Found, Sweep PROVE Found'
<1>1. /\ cleaner = "sweep" /\ UNCHANGED <<object, worker, server>>
  BY DEF Sweep
<1>2. PICK k \in 0 .. Len(queue) :
        /\ vExpired' = SubSeq(queue, 1, k)
        /\ queue'    = SubSeq(queue, k + 1, Len(queue))
        /\ m_mapSessions' =
             [i \in Ids |-> IF \E j \in 1 .. k : idSession[queue[j]] = i
                            THEN None ELSE m_mapSessions[i]]
  BY DEF Sweep
<1>3. vExpired = <<>> /\ server # "stopped" /\ Elements(vExpired) = {}
  BY <1>1, EmptySeq DEF Inv, Shape, Elements
<1>4. queue \in Seq(Objs) /\ Distinct(queue)
  BY DEF Inv, TypeOK
<1>5. /\ Elements(vExpired') = {queue[j] : j \in 1 .. k}
      /\ Elements(vExpired') \union Elements(queue') = Elements(queue)
      /\ Elements(vExpired') \intersect Elements(queue') = {}
  <2> DEFINE a == SubSeq(queue, 1, k)
             b == SubSeq(queue, k + 1, Len(queue))
  <2>1. /\ Elements(a) = {queue[j] : j \in 1 .. k}
        /\ Elements(a) \union Elements(b) = Elements(queue)
        /\ Elements(a) \intersect Elements(b) = {}
    BY <1>4, Split
  <2>2. vExpired' = a /\ queue' = b
    BY <1>2
  <2> HIDE DEF a, b
  <2> QED BY <2>1, <2>2
<1>6. Elements(queue) \subseteq live /\ live \subseteq Objs
  BY <1>3 DEF Inv, Places, TypeOK
<1>7. \A o \in Elements(queue') : m_mapSessions'[idSession[o]] = o
  <2> SUFFICES ASSUME NEW o \in Elements(queue')
               PROVE  m_mapSessions'[idSession[o]] = o
    OBVIOUS
  <2>1. o \in live /\ idSession[o] \in Ids /\ m_mapSessions[idSession[o]] = o
    BY <1>3, <1>5, <1>6 DEF Found, Inv, TypeOK
  <2>2. \A j \in 1 .. k : queue[j] \in live /\ queue[j] # o
    BY <1>5, <1>6
  <2>3. \A j \in 1 .. k : idSession[queue[j]] # idSession[o]
    BY <2>1, <2>2 DEF Found
  <2> QED BY <2>1, <2>3, <1>2
<1>8. \A o \in live : \/ o \in Elements(queue') \/ o \in Elements(vExpired')
                      \/ \E w \in Workers : pc[w] = "insert" /\ ptr[w] = o
  BY <1>3, <1>5 DEF Found
<1> QED BY <1>1, <1>3, <1>7, <1>8 DEF Found, object, worker

LEMMA DeleteSessionFound == ASSUME Inv, Found, DeleteSession PROVE Found'
<1> DEFINE o == Head(vExpired)
<1>1. /\ cleaner = "delete" /\ live' = live \ {o} /\ vExpired' = Tail(vExpired)
      /\ UNCHANGED <<idSession, table, worker, server>>
  BY DEF DeleteSession
<1>2. Elements(vExpired') = Elements(vExpired) \ {o}
  BY <1>1, HeadAndTail DEF Inv, TypeOK, Shape, Places
<1> HIDE DEF o
<1> QED BY <1>1, <1>2 DEF Found, table, worker

LEMMA stopServerFound == ASSUME Inv, Found, stopServer PROVE Found'
<1>1. /\ server = "stopping" /\ server' = "stopped" /\ cleaner = "exited"
      /\ live' = live \ {m_mapSessions[i] : i \in Ids}
  BY DEF stopServer
<1>2. vExpired = <<>> /\ Elements(vExpired) = {} /\ \A w \in Workers : pc[w] = "idle"
  BY <1>1, EmptySeq DEF Inv, Shape, Elements
<1>3. ASSUME NEW o \in live PROVE o \in {m_mapSessions[i] : i \in Ids}
  <2>1. o \in Elements(queue)
    BY <1>2, <1>3 DEF Found
  <2>2. idSession[o] \in Ids /\ m_mapSessions[idSession[o]] = o
    BY <1>1, <2>1, <1>3 DEF Found, Inv, TypeOK
  <2> QED BY <2>2
<1>4. live' = {}
  BY <1>1, <1>3
<1> QED BY <1>1, <1>4 DEF Found

LEMMA FoundStep == ASSUME Inv, Found, FreshIds, [Next]_vars PROVE Found'
<1>1. ASSUME NEW w \in Workers, NewSession(w) PROVE Found'
  BY <1>1, NewSessionFound
<1>2. ASSUME NEW w \in Workers, getSession(w) PROVE Found'
  BY <1>2, getSessionFound
<1>3. ASSUME NEW w \in Workers, Work(w) \/ LockSession(w) PROVE Found'
  BY <1>3, InsertSessionFound, ServiceFound DEF Work
<1>4. CASE Wake \/ CloseSession \/ ExitCleaner \/ Interrupt \/ JoinWorkers \/ Tick
  <2>1. /\ UNCHANGED <<live, idSession, table, worker, vExpired>>
        /\ server' = "stopped" <=> server = "stopped"
    BY <1>4 DEF Wake, CloseSession, ExitCleaner, Interrupt, JoinWorkers, Tick,
                object, sweeper
  <2> QED BY <2>1 DEF Found, table, worker
<1>5. CASE Sweep \/ DeleteSession
  BY <1>5, SweepFound, DeleteSessionFound
<1>6. CASE stopServer
  BY <1>6, stopServerFound
<1>7. CASE UNCHANGED vars
  BY <1>7 DEF Found, vars, object, table, worker, sweeper
<1> QED BY <1>1, <1>2, <1>3, <1>4, <1>5, <1>6, <1>7 DEF Next, Cleaner

LEMMA FoundHolds == ASSUME FreshIds PROVE Spec => []Found
<1>1. Inv /\ Found /\ [Next]_vars => Found'
  BY FoundStep
<1> QED BY <1>1, FoundInit, InvHolds, PTL DEF Spec

(* Whatever the cleaner and stopServer do first, together they delete      *)
(* every session that was ever allocated, if ids do not collide.           *)
THEOREM AllSessionsDeleted ==
  ASSUME FreshIds PROVE Spec => []NothingLeaks
<1>1. Found => NothingLeaks
  BY DEF Found, NothingLeaks
<1> QED BY <1>1, FoundHolds, PTL

(* One step takes an entry out of the table only when it has expired.      *)
LEMMA EntryStep ==
  ASSUME Inv, Found, Judged, [Next]_vars,
         NEW i \in Ids, m_mapSessions[i] # None, m_mapSessions'[i] # m_mapSessions[i]
  PROVE  m_mapSessions'[i] = None /\ age[m_mapSessions[i]] >= Timeout
<1>1. Sweep \/ \E w \in Workers : InsertSession(w)
  BY DEF Next, Work, Cleaner, NewSession, getSession, CheckIP, LockSession, Serve,
         Wake, CloseSession, DeleteSession, ExitCleaner, Interrupt, JoinWorkers,
         stopServer, Tick, table, vars
<1>2. ASSUME NEW w \in Workers, InsertSession(w) PROVE FALSE
  BY <1>2 DEF InsertSession, Inv, TypeOK
<1>3. CASE Sweep
  <2>1. PICK k \in 0 .. Len(queue) :
          /\ ToClean(k)
          /\ m_mapSessions' =
               [j \in Ids |-> IF \E h \in 1 .. k : idSession[queue[h]] = j
                              THEN None ELSE m_mapSessions[j]]
    BY <1>3 DEF Sweep
  <2>2. PICK h \in 1 .. k : idSession[queue[h]] = i
    BY <2>1
  <2>3. queue[h] \in expired
    BY <2>1, <2>2 DEF ToClean
  <2>4. server # "stopped"
    BY <1>3 DEF Sweep, Inv, Shape
  <2>5. m_mapSessions[i] \in live /\ idSession[m_mapSessions[i]] = i
    BY <2>4 DEF Inv, Mapped, Places
  <2>6. queue[h] = m_mapSessions[i]
    BY <2>2, <2>3, <2>5 DEF Found, Judged
  <2> QED BY <2>1, <2>2, <2>3, <2>6 DEF Judged
<1> QED BY <1>1, <1>2, <1>3

(* A client that keeps calling keeps its session: for every interleaving   *)
(* with the cleaner, whose clock may be older than the client's call.      *)
THEOREM SessionsLastUntilExpired ==
  ASSUME FreshIds PROVE Spec => MappedUntilExpired
<1> DEFINE Lasts == \A i \in Ids :
             m_mapSessions[i] # None /\ m_mapSessions'[i] # m_mapSessions[i]
               => m_mapSessions'[i] = None /\ age[m_mapSessions[i]] >= Timeout
<1>1. Inv /\ Found /\ Judged /\ [Next]_vars => [Lasts]_vars
  BY EntryStep
<1>2. Inv /\ Judged /\ [Next]_vars => Judged'
  BY JudgedStep
<1>3. MappedUntilExpired <=> [][Lasts]_vars
  BY PTL DEF MappedUntilExpired
<1> HIDE DEF Lasts
<1> QED BY <1>1, <1>2, <1>3, JudgedInit, FoundHolds, InvHolds, PTL DEF Spec
=============================================================================

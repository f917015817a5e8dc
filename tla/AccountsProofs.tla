--------------------------- MODULE AccountsProofs ---------------------------
(***************************************************************************)
(* Proofs about Accounts, for any number of workers, sessions and users    *)
(* and whatever statements fail: names are repeated only by concurrent     *)
(* registrations, a registration answered with success has a row of its    *)
(* own, a session gets a user only by that user's password, and levels are *)
(* changed only by those who were entitled to it.                          *)
(***************************************************************************)
EXTENDS Accounts, SequenceTheorems, FiniteSetTheorems, TLAPS

(* What a worker knows of the rows R: the copy it updates by has the name  *)
(* of its row, and the rows that the one who registers a name has not seen *)
(* are the only ones that may have it.                                     *)
JobOK(j, R) ==
  /\ j.copy.name # Empty => j.copy.email \in ValidEmails
  /\ j.pc = "update" =>
       /\ j.copy.id \in DOMAIN R /\ j.copy.name = R[j.copy.id].name
       /\ j.c.cmd = "user_setBasicInfo" => j.c.email \in ValidEmails
       /\ j.c.cmd = "user_setAuthLevel" => j.copy.id = j.c.id
  /\ j.pc \in {"verifyEmail", "insert"} =>
       /\ j.copy.id <= Len(R)
       /\ \A i \in DOMAIN R : R[i].name = j.copy.name => i > j.copy.id
  /\ j.pc = "lastInsertId" => j.copy.name # Empty

(* The user's present level is among those it has had; the session's level *)
(* is one of these or 0 once it is refreshed; and a change of a level goes *)
(* ahead only with a level that may give the right to it.                  *)
JobRights(j, R, S) ==
  /\ j.pc # "idle" /\ S[j.sess].user_id # 0 => R[S[j.sess].user_id].level \in j.seen
  /\ j.pc \in {"getUserByID", "getAuthLevel"} => S[j.sess].user_id # 0
  /\ j.pc = "dispatch" /\ S[j.sess].user_id # 0 =>
       j.stale \/ S[j.sess].level \in j.seen \union {0}
  /\ j.pc \in {"select", "update"} /\ j.c.cmd = "user_setAuthLevel" =>
       j.stale \/ \E l \in j.seen : l \notin 0 .. 1

Types == /\ rows \in Seq(Row)
         /\ sess \in [Sessions -> [user_id : Nat, level : Levels \union {-1}]]
         /\ \A s \in Sessions : sess[s].user_id \in {0} \union DOMAIN rows
         /\ job \in [Workers -> JobType]
         /\ told \in [Names -> Nat] /\ served \in 0 .. MaxRequests

(* The mutex of a session: one worker at a time.                           *)
Exclusive == \A v, w \in Workers :
  v # w /\ job[v].pc # "idle" /\ job[w].pc # "idle" => job[v].sess # job[w].sess

AccountsInv == /\ Types /\ Exclusive /\ RepeatedOnlyIfConcurrent
               /\ \A w \in Workers : JobOK(job[w], rows)
               /\ \A w \in Workers : JobRights(job[w], rows, sess)

-----------------------------------------------------------------------------
(* The data *)

LEMMA Commanded ==
  ASSUME NEW c \in Commands
  PROVE  /\ c \in [cmd : Cmds, id : Nat, name : STRING, email : STRING,
                   pwd : STRING, old : STRING, level : Int]
         /\ c.name \in Names \union {Empty} /\ Hash(c.pwd) \in Passwords /\ c.level \in Levels
  BY AccountsAssumption DEF Names, Passwords, Levels

LEMMA NoUserType ==
  NoUser \in [id : Nat, name : Names \union {Empty}, email : ValidEmails \union {Empty},
              password : Passwords]
  BY DEF NoUser, Passwords

LEMMA IdleFacts ==
  /\ Idle \in JobType /\ Idle.pc = "idle" /\ Idle.copy.name = Empty /\ Idle.copy.id = 0
  /\ Idle.stale = FALSE /\ Idle.seen = {}
<1>1. (CHOOSE s \in Sessions : TRUE) \in Sessions /\ (CHOOSE c \in Commands : TRUE) \in Commands
  BY AccountsAssumption
<1> QED BY <1>1, NoUserType DEF Idle, JobType, PCs, NoUser

LEMMA RowsAre ==
  ASSUME NEW R \in Seq(Row)
  PROVE  /\ Len(R) \in Nat /\ DOMAIN R = 1 .. Len(R)
         /\ \A i \in DOMAIN R : R[i] \in Row
  BY LenProperties

LEMMA OwnLevel ==
  ASSUME Types, NEW s \in Sessions, sess[s].user_id # 0
  PROVE  rows[sess[s].user_id].level \in Levels
<1>1. sess[s].user_id \in DOMAIN rows
  BY DEF Types
<1> QED BY <1>1, RowsAre DEF Types, Row

(* The idle worker knows nothing.                                          *)
LEMMA IdleKnows ==
  ASSUME NEW R, NEW S
  PROVE  JobOK(Idle, R) /\ JobRights(Idle, R, S)
  BY IdleFacts DEF JobOK, JobRights

(* From R to Q rows keep names, and come at the end.                       *)
Keeps(R, Q) == /\ R \in Seq(Row) /\ Q \in Seq(Row) /\ Len(R) <= Len(Q)
               /\ \A i \in DOMAIN R : Q[i].name = R[i].name

LEMMA KeepsSame ==
  ASSUME NEW R \in Seq(Row)
  PROVE  Keeps(R, R)
  BY RowsAre DEF Keeps

LEMMA KeptJob ==
  ASSUME NEW R, NEW Q, Keeps(R, Q), NEW j \in JobType, JobOK(j, R)
  PROVE  JobOK(j, Q)
<1>1. /\ Len(R) \in Nat /\ DOMAIN R = 1 .. Len(R) /\ Len(Q) \in Nat /\ DOMAIN Q = 1 .. Len(Q)
      /\ Len(R) <= Len(Q) /\ \A i \in DOMAIN R : Q[i].name = R[i].name
  BY RowsAre DEF Keeps
<1>2. DOMAIN R \subseteq DOMAIN Q
  BY <1>1
<1>3. j.copy.id \in Nat
  BY DEF JobType
<1>4. ASSUME j.pc \in {"verifyEmail", "insert"}
      PROVE  j.copy.id <= Len(Q) /\ \A i \in DOMAIN Q : Q[i].name = j.copy.name => i > j.copy.id
  <2>1. j.copy.id <= Len(R) /\ \A i \in DOMAIN R : R[i].name = j.copy.name => i > j.copy.id
    BY <1>4 DEF JobOK
  <2>2. ASSUME NEW i \in DOMAIN Q, Q[i].name = j.copy.name
        PROVE  i > j.copy.id
    <3>1. CASE i \in DOMAIN R
      BY <3>1, <2>1, <2>2, <1>1
    <3>2. CASE i \notin DOMAIN R
      BY <3>2, <2>1, <1>1, <1>3
    <3> QED BY <3>1, <3>2
  <2> QED BY <2>1, <2>2, <1>1, <1>3
<1> QED BY <1>1, <1>2, <1>4 DEF JobOK

-----------------------------------------------------------------------------
(* A step of the worker w, which leaves the other jobs what they are, and  *)
(* the sessions and the levels they know.                                  *)

OnlyJob(w) ==
  /\ job' \in [Workers -> JobType]
  /\ \A v \in Workers \ {w} : job'[v] = job[v]

LEMMA OneJob ==
  ASSUME AccountsInv, NEW w \in Workers, OnlyJob(w), Keeps(rows, rows'),
         \A i \in DOMAIN rows : rows'[i].level = rows[i].level,
         \A v \in Workers \ {w} : job[v].pc # "idle" => sess'[job[v].sess] = sess[job[v].sess],
         JobOK(job'[w], rows'), JobRights(job'[w], rows', sess'),
         job'[w].pc # "idle" =>
           \A v \in Workers \ {w} : job[v].pc # "idle" => job[v].sess # job'[w].sess
  PROVE  /\ \A v \in Workers : JobOK(job'[v], rows')
         /\ \A v \in Workers : JobRights(job'[v], rows', sess')
         /\ Exclusive'
<1>1. ASSUME NEW v \in Workers
      PROVE  JobOK(job'[v], rows')
  <2>1. CASE v = w
    BY <2>1
  <2>2. CASE v # w
    <3>1. job'[v] = job[v] /\ job[v] \in JobType /\ JobOK(job[v], rows)
      BY <2>2 DEF OnlyJob, AccountsInv, Types
    <3> QED BY <3>1, KeptJob
  <2> QED BY <2>1, <2>2
<1>2. ASSUME NEW v \in Workers
      PROVE  JobRights(job'[v], rows', sess')
  <2>1. CASE v = w
    BY <2>1
  <2>2. CASE v # w
    <3>1. job'[v] = job[v] /\ job[v] \in JobType /\ JobRights(job[v], rows, sess)
      BY <2>2 DEF OnlyJob, AccountsInv, Types
    <3>2. CASE job[v].pc = "idle"
      BY <3>1, <3>2 DEF JobRights
    <3>3. CASE job[v].pc # "idle"
      <4>1. sess'[job[v].sess] = sess[job[v].sess] /\ job[v].sess \in Sessions
        BY <3>1, <3>3, <2>2 DEF JobType
      <4>2. sess[job[v].sess].user_id # 0 =>
              rows'[sess[job[v].sess].user_id].level = rows[sess[job[v].sess].user_id].level
        BY <4>1 DEF AccountsInv, Types
      <4> HIDE DEF Keeps, OnlyJob
      <4> QED BY <3>1, <4>1, <4>2 DEF JobRights
    <3> QED BY <3>2, <3>3
  <2> QED BY <2>1, <2>2
<1>3. Exclusive'
  BY DEF AccountsInv, Exclusive, OnlyJob
<1> QED BY <1>1, <1>2, <1>3

LEMMA Together ==
  ASSUME Types', Exclusive', RepeatedOnlyIfConcurrent',
         \A v \in Workers : JobOK(job'[v], rows'),
         \A v \in Workers : JobRights(job'[v], rows', sess')
  PROVE  AccountsInv'
  BY DEF AccountsInv

LEMMA AccountsInvTypes == AccountsInv => TypeOK
  BY DEF AccountsInv, Types, TypeOK, JobOK

LEMMA InitInv == Init => AccountsInv
<1> SUFFICES ASSUME Init PROVE AccountsInv
  OBVIOUS
<1>1. Types
  <2>1. NewSession \in [user_id : Nat, level : Levels \union {-1}] /\ NewSession.user_id = 0
    BY DEF NewSession
  <2> QED BY <2>1, IdleFacts, AccountsAssumption DEF Init, Types
<1>2. Exclusive
  BY IdleFacts DEF Init, Exclusive
<1>3. RepeatedOnlyIfConcurrent
  BY AccountsAssumption DEF Init, RepeatedOnlyIfConcurrent
<1>4. \A w \in Workers : JobOK(job[w], rows) /\ JobRights(job[w], rows, sess)
  BY IdleKnows DEF Init
<1> QED BY <1>1, <1>2, <1>3, <1>4 DEF AccountsInv

-----------------------------------------------------------------------------
(* How a worker's job changes *)

LEMMA Answered ==
  ASSUME Types, NEW w \in Workers, Answer(w)
  PROVE  OnlyJob(w) /\ job'[w] = Idle
  BY IdleFacts DEF Types, Answer, OnlyJob

LEMMA Went ==
  ASSUME Types, NEW w \in Workers, NEW pc \in PCs, Goto(w, pc)
  PROVE  /\ OnlyJob(w) /\ job'[w].pc = pc /\ job'[w].sess = job[w].sess
         /\ job'[w].c = job[w].c /\ job'[w].seen = job[w].seen
         /\ job'[w].stale = job[w].stale /\ job'[w].copy = job[w].copy
  BY DEF Types, Goto, OnlyJob, JobType

(* A step of a request that leaves the rows alone, and all sessions but    *)
(* its own.                                                                *)
LEMMA Quiet ==
  ASSUME AccountsInv, NEW w \in Workers, job[w].pc # "idle", OnlyJob(w),
         job'[w].sess = job[w].sess \/ job'[w].pc = "idle",
         rows' = rows, \A s \in Sessions \ {job[w].sess} : sess'[s] = sess[s],
         sess' \in [Sessions -> [user_id : Nat, level : Levels \union {-1}]],
         \A s \in Sessions : sess'[s].user_id \in {0} \union DOMAIN rows,
         told' \in [Names -> Nat], served' \in 0 .. MaxRequests,
         JobOK(job'[w], rows), JobRights(job'[w], rows, sess')
  PROVE  AccountsInv'
<1>1. Types'
  BY DEF AccountsInv, Types, OnlyJob
<1>2. \A v \in Workers \ {w} : job[v].pc # "idle" => job[v].sess # job[w].sess
  BY DEF AccountsInv, Exclusive
<1>3. \A v \in Workers \ {w} : job[v].pc # "idle" => sess'[job[v].sess] = sess[job[v].sess]
  BY <1>2 DEF AccountsInv, Types, JobType
<1>4. Keeps(rows, rows')
  BY KeepsSame DEF AccountsInv, Types
<1>5. /\ \A v \in Workers : JobOK(job'[v], rows')
      /\ \A v \in Workers : JobRights(job'[v], rows', sess')
      /\ Exclusive'
  <2>1. JobOK(job'[w], rows') /\ JobRights(job'[w], rows', sess')
    OBVIOUS
  <2>2. job'[w].pc # "idle" =>
          \A v \in Workers \ {w} : job[v].pc # "idle" => job[v].sess # job'[w].sess
    BY <1>2
  <2> QED BY <2>1, <2>2, <1>3, <1>4, OneJob
<1>6. RepeatedOnlyIfConcurrent'
  BY DEF AccountsInv, RepeatedOnlyIfConcurrent
<1> QED BY <1>1, <1>5, <1>6, Together

LEMMA QuietSame ==
  ASSUME AccountsInv, NEW w \in Workers, job[w].pc # "idle", OnlyJob(w),
         job'[w].sess = job[w].sess \/ job'[w].pc = "idle",
         rows' = rows, sess' = sess, told' \in [Names -> Nat], served' = served,
         JobOK(job'[w], rows), JobRights(job'[w], rows, sess)
  PROVE  AccountsInv'
<1>1. /\ sess' \in [Sessions -> [user_id : Nat, level : Levels \union {-1}]]
      /\ \A s \in Sessions : sess'[s].user_id \in {0} \union DOMAIN rows
      /\ served' \in 0 .. MaxRequests
      /\ \A s \in Sessions \ {job[w].sess} : sess'[s] = sess[s]
  BY DEF AccountsInv, Types
<1> QED BY <1>1, Quiet

LEMMA AnsweredQuietly ==
  ASSUME AccountsInv, NEW w \in Workers, job[w].pc # "idle", Answer(w),
         rows' = rows, sess' = sess, told' \in [Names -> Nat], served' = served
  PROVE  AccountsInv'
<1>1. OnlyJob(w) /\ job'[w] = Idle
  BY Answered DEF AccountsInv
<1> QED BY <1>1, IdleFacts, IdleKnows, QuietSame

-----------------------------------------------------------------------------
(* The operations keep the invariant *)

LEMMA startSessionInv ==
  ASSUME AccountsInv, NEW s \in Sessions, startSession(s)
  PROVE  AccountsInv'
<1> DEFINE New == [sess EXCEPT ![s] = NewSession]
<1>1. /\ sess' = New /\ rows' = rows /\ job' = job /\ served' = served /\ told' = told
      /\ \A w \in Workers : job[w].pc # "idle" => job[w].sess # s
  BY DEF startSession, Busy
<1>2. NewSession \in [user_id : Nat, level : Levels \union {-1}] /\ NewSession.user_id = 0
  BY DEF NewSession
<1>3. Types'
  BY <1>1, <1>2 DEF AccountsInv, Types
<1>4. ASSUME NEW w \in Workers
      PROVE  JobRights(job'[w], rows', sess')
  <2>1. job[w].pc # "idle" => sess'[job[w].sess] = sess[job[w].sess]
    BY <1>1 DEF AccountsInv, Types, JobType
  <2>2. JobRights(job[w], rows, sess)
    BY DEF AccountsInv
  <2> QED BY <2>1, <2>2, <1>1 DEF JobRights
<1>5. Exclusive' /\ RepeatedOnlyIfConcurrent' /\ \A w \in Workers : JobOK(job'[w], rows')
  BY <1>1 DEF AccountsInv, Exclusive, RepeatedOnlyIfConcurrent
<1> QED BY <1>3, <1>4, <1>5, Together

LEMMA recvRequestInv ==
  ASSUME AccountsInv, NEW w \in Workers, recvRequest(w)
  PROVE  AccountsInv'
<1>1. PICK s \in Sessions, c \in Commands :
        /\ ~Busy(s)
        /\ job' = [job EXCEPT ![w] =
             [Idle EXCEPT !.sess = s, !.c = c,
                !.pc = IF sess[s].user_id # 0 THEN "getUserByID" ELSE "dispatch",
                !.seen = IF sess[s].user_id = 0 THEN {} ELSE {rows[sess[s].user_id].level}]]
  BY DEF recvRequest
<1>2. rows' = rows /\ sess' = sess /\ told' = told /\ served' = served + 1
      /\ served < MaxRequests
  BY DEF recvRequest
<1>3. sess[s].user_id # 0 => rows[sess[s].user_id].level \in Levels
  BY OwnLevel DEF AccountsInv
<1>4. /\ OnlyJob(w) /\ job'[w].sess = s /\ job'[w].c = c /\ job'[w].copy.name = Empty
      /\ job'[w].pc = IF sess[s].user_id # 0 THEN "getUserByID" ELSE "dispatch"
      /\ job'[w].seen = IF sess[s].user_id = 0 THEN {} ELSE {rows[sess[s].user_id].level}
  <2>1. PICK p \in PCs, e \in SUBSET Levels :
          /\ p = IF sess[s].user_id # 0 THEN "getUserByID" ELSE "dispatch"
          /\ e = IF sess[s].user_id = 0 THEN {} ELSE {rows[sess[s].user_id].level}
    BY <1>3 DEF PCs
  <2>2. job' = [job EXCEPT ![w] = [Idle EXCEPT !.sess = s, !.c = c, !.pc = p, !.seen = e]]
    BY <1>1, <2>1
  <2>3. PICK x : x = [Idle EXCEPT !.sess = s, !.c = c, !.pc = p, !.seen = e]
    OBVIOUS
  <2>4. /\ x \in JobType /\ x.sess = s /\ x.c = c /\ x.copy.name = Empty /\ x.pc = p
        /\ x.seen = e
    BY <2>3, IdleFacts DEF JobType
  <2>5. job' = [job EXCEPT ![w] = x]
    BY <2>2, <2>3
  <2>6. OnlyJob(w) /\ job'[w] = x
    BY <2>4, <2>5 DEF AccountsInv, Types, OnlyJob
  <2> QED BY <2>1, <2>4, <2>6
<1>5. JobOK(job'[w], rows)
  BY <1>4 DEF JobOK
<1>6. JobRights(job'[w], rows, sess)
  BY <1>4 DEF JobRights
<1>7. \A v \in Workers \ {w} : job[v].pc # "idle" => job[v].sess # job'[w].sess
  BY <1>1, <1>4 DEF Busy
<1>8. Types'
  BY <1>2, <1>4, AccountsAssumption DEF AccountsInv, Types, OnlyJob
<1>9. Keeps(rows, rows')
  BY <1>2, KeepsSame DEF AccountsInv, Types
<1>10. /\ \A v \in Workers : JobOK(job'[v], rows')
       /\ \A v \in Workers : JobRights(job'[v], rows', sess')
       /\ Exclusive'
  <2>1. JobOK(job'[w], rows') /\ JobRights(job'[w], rows', sess')
    BY <1>2, <1>5, <1>6
  <2> QED BY <2>1, <1>2, <1>4, <1>7, <1>9, OneJob
<1>11. RepeatedOnlyIfConcurrent'
  BY <1>2 DEF AccountsInv, RepeatedOnlyIfConcurrent
<1> QED BY <1>8, <1>10, <1>11, Together

LEMMA getUserByIDInv ==
  ASSUME AccountsInv, NEW w \in Workers, getUserByID(w)
  PROVE  AccountsInv'
<1>1. /\ job[w].pc = "getUserByID" /\ rows' = rows /\ sess' = sess /\ served' = served
      /\ told' = told /\ told \in [Names -> Nat] /\ job[w] \in JobType
      /\ JobOK(job[w], rows) /\ JobRights(job[w], rows, sess)
  BY DEF getUserByID, AccountsInv, Types
<1>2. CASE Goto(w, "getAuthLevel")
  <2>1. /\ OnlyJob(w) /\ job'[w].pc = "getAuthLevel" /\ job'[w].sess = job[w].sess
        /\ job'[w].c = job[w].c /\ job'[w].seen = job[w].seen
        /\ job'[w].stale = job[w].stale /\ job'[w].copy = job[w].copy
    BY <1>2, Went DEF AccountsInv, PCs
  <2>2. JobOK(job'[w], rows) /\ JobRights(job'[w], rows, sess)
    BY <2>1, <1>1 DEF JobOK, JobRights
  <2> QED BY <1>1, <2>1, <2>2, QuietSame
<1>3. CASE job' = [job EXCEPT ![w].pc = "dispatch", ![w].stale = TRUE]
  <2>1. /\ OnlyJob(w) /\ job'[w].pc = "dispatch" /\ job'[w].sess = job[w].sess
        /\ job'[w].c = job[w].c /\ job'[w].seen = job[w].seen
        /\ job'[w].stale = TRUE /\ job'[w].copy = job[w].copy
    BY <1>3, <1>1 DEF AccountsInv, Types, OnlyJob, JobType, PCs
  <2>2. JobOK(job'[w], rows) /\ JobRights(job'[w], rows, sess)
    BY <2>1, <1>1 DEF JobOK, JobRights
  <2> QED BY <1>1, <2>1, <2>2, QuietSame
<1> QED BY <1>2, <1>3 DEF getUserByID

LEMMA getAuthLevelInv ==
  ASSUME AccountsInv, NEW w \in Workers, getAuthLevel(w)
  PROVE  AccountsInv'
<1> DEFINE s == job[w].sess
           u == sess[s].user_id
<1>1. /\ job[w].pc = "getAuthLevel" /\ rows' = rows /\ served' = served
      /\ told' = told /\ told \in [Names -> Nat] /\ job[w] \in JobType /\ s \in Sessions
      /\ JobOK(job[w], rows) /\ JobRights(job[w], rows, sess) /\ Goto(w, "dispatch")
  BY DEF getAuthLevel, AccountsInv, Types, JobType
<1>2. /\ OnlyJob(w) /\ job'[w].pc = "dispatch" /\ job'[w].sess = s
      /\ job'[w].c = job[w].c /\ job'[w].seen = job[w].seen
      /\ job'[w].stale = job[w].stale /\ job'[w].copy = job[w].copy
  BY <1>1, Went DEF AccountsInv, PCs
<1>3. u # 0 /\ rows[u].level \in job[w].seen
  BY <1>1 DEF JobRights
<1>4. PICK l \in {rows[u].level, 0} : sess' = [sess EXCEPT ![s].level = l]
  BY DEF getAuthLevel
<1>5. l \in Levels
  BY <1>1, <1>3, OwnLevel DEF AccountsInv, Levels
<1>6. /\ sess'[s].level = l /\ sess'[s].user_id = u
      /\ \A r \in Sessions \ {s} : sess'[r] = sess[r]
      /\ sess' \in [Sessions -> [user_id : Nat, level : Levels \union {-1}]]
      /\ \A r \in Sessions : sess'[r].user_id \in {0} \union DOMAIN rows
  BY <1>1, <1>4, <1>5 DEF AccountsInv, Types
<1>7. JobOK(job'[w], rows)
  BY <1>1, <1>2 DEF JobOK
<1>8. JobRights(job'[w], rows, sess')
  BY <1>2, <1>3, <1>4, <1>6 DEF JobRights
<1>9. served' \in 0 .. MaxRequests
  BY <1>1 DEF AccountsInv, Types
<1> QED BY <1>1, <1>2, <1>6, <1>7, <1>8, <1>9, Quiet

(* Only a level beyond the first two gives the right to change levels.     *)
LEMMA RightNeedsLevel ==
  ASSUME NEW l, NEW auth \in vAuthList(l), "auth_SetAuthLevel" \in auth
  PROVE  l \notin 0 .. 1
  BY DEF vAuthList

LEMMA NewUserTypes ==
  ASSUME NEW c \in Commands, NEW n \in NewUsers(c)
  PROVE  /\ n \in [id : Nat, name : Names \union {Empty}, email : ValidEmails \union {Empty},
                   password : Passwords]
         /\ n.name # Empty => n.email \in ValidEmails
<1> DEFINE pass == IF c.cmd = "authmanager_Register" THEN Hash(c.pwd) ELSE NoPassword
<1>1. pass \in Passwords /\ c.name \in Names \union {Empty}
  BY Commanded DEF Passwords
<1> HIDE DEF pass
<1>2. \/ n = [id |-> 0, name |-> c.name, email |-> c.email, password |-> pass]
         /\ c.name # Empty /\ c.email \in ValidEmails
      \/ n = [[id |-> 0, name |-> c.name, email |-> c.email, password |-> pass]
                EXCEPT !.name = Empty, !.email = Empty]
  BY DEF NewUsers, pass
<1>3. CASE n = [id |-> 0, name |-> c.name, email |-> c.email, password |-> pass]
           /\ c.name # Empty /\ c.email \in ValidEmails
  BY <1>1, <1>3
<1>4. CASE n = [[id |-> 0, name |-> c.name, email |-> c.email, password |-> pass]
                  EXCEPT !.name = Empty, !.email = Empty]
  <2>1. n = [id |-> 0, name |-> Empty, email |-> Empty, password |-> pass]
    BY <1>4
  <2> QED BY <1>1, <2>1
<1> QED BY <1>2, <1>3, <1>4

LEMMA dispatchInv ==
  ASSUME AccountsInv, NEW w \in Workers, dispatch(w)
  PROVE  AccountsInv'
<1> DEFINE s == job[w].sess
           c == job[w].c
           u == sess[s].user_id
<1>1. /\ job[w].pc = "dispatch" /\ rows' = rows /\ served' = served
      /\ told' = told /\ told \in [Names -> Nat] /\ job[w] \in JobType /\ s \in Sessions
      /\ c \in Commands /\ JobOK(job[w], rows) /\ JobRights(job[w], rows, sess)
      /\ served' \in 0 .. MaxRequests
  BY DEF dispatch, AccountsInv, Types, JobType
<1>2. CASE Answer(w) /\ sess' = sess
  BY <1>1, <1>2, AnsweredQuietly
<1>3. CASE Answer(w) /\ sess' = [sess EXCEPT ![s].user_id = 0]
  <2>1. OnlyJob(w) /\ job'[w] = Idle
    BY <1>3, Answered DEF AccountsInv
  <2>2. /\ \A r \in Sessions \ {s} : sess'[r] = sess[r]
        /\ sess' \in [Sessions -> [user_id : Nat, level : Levels \union {-1}]]
        /\ \A r \in Sessions : sess'[r].user_id \in {0} \union DOMAIN rows
    BY <1>1, <1>3 DEF AccountsInv, Types
  <2> QED BY <1>1, <2>1, <2>2, IdleFacts, IdleKnows, Quiet
<1>4. ASSUME sess' = sess, NEW n \in NewUsers(c),
             job' = [job EXCEPT ![w].pc = "verifyName", ![w].copy = n]
      PROVE  AccountsInv'
  <2>1. /\ n \in [id : Nat, name : Names \union {Empty}, email : ValidEmails \union {Empty},
                  password : Passwords]
        /\ n.name # Empty => n.email \in ValidEmails
    BY <1>1, NewUserTypes
  <2>2. /\ OnlyJob(w) /\ job'[w].pc = "verifyName" /\ job'[w].sess = job[w].sess
        /\ job'[w].c = c /\ job'[w].seen = job[w].seen
        /\ job'[w].stale = job[w].stale /\ job'[w].copy = n
    BY <1>1, <1>4, <2>1 DEF AccountsInv, Types, OnlyJob, JobType, PCs
  <2>3. JobOK(job'[w], rows) /\ JobRights(job'[w], rows, sess)
    BY <1>1, <2>1, <2>2 DEF JobOK, JobRights
  <2> QED BY <1>1, <1>4, <2>2, <2>3, QuietSame
<1>5. ASSUME sess' = sess, Goto(w, "select"),
             NEW auth \in IF u = 0 THEN {{}} ELSE vAuthList(sess[s].level),
             Permitted(c, u, auth)
      PROVE  AccountsInv'
  <2>1. /\ OnlyJob(w) /\ job'[w].pc = "select" /\ job'[w].sess = job[w].sess
        /\ job'[w].c = c /\ job'[w].seen = job[w].seen
        /\ job'[w].stale = job[w].stale /\ job'[w].copy = job[w].copy
    BY <1>5, Went DEF AccountsInv, PCs
  <2>2. ASSUME c.cmd = "user_setAuthLevel"
        PROVE  job[w].stale \/ \E l \in job[w].seen : l \notin 0 .. 1
    <3>1. u # 0 /\ "auth_SetAuthLevel" \in auth
      BY <1>5, <2>2 DEF Permitted
    <3>2. auth \in vAuthList(sess[s].level)
      BY <1>5, <3>1
    <3>3. sess[s].level \notin 0 .. 1
      BY <3>1, <3>2, RightNeedsLevel
    <3>4. job[w].stale \/ sess[s].level \in job[w].seen \union {0}
      BY <1>1, <3>1 DEF JobRights
    <3>5. sess[s].level # 0
      BY <3>3
    <3> QED BY <3>3, <3>4, <3>5
  <2>3. JobOK(job'[w], rows)
    BY <1>1, <2>1 DEF JobOK
  <2>4. JobRights(job'[w], rows, sess)
    BY <1>1, <2>1, <2>2 DEF JobRights
  <2> QED BY <1>1, <1>5, <2>1, <2>3, <2>4, QuietSame
<1>6. PICK auth \in IF u = 0 THEN {{}} ELSE vAuthList(sess[s].level) :
        IF ~Permitted(c, u, auth)
        THEN Answer(w) /\ UNCHANGED sess
        ELSE CASE c.cmd = "authmanager_Logout" ->
                    Answer(w) /\ sess' = [sess EXCEPT ![s].user_id = 0]
               [] c.cmd \in {"authmanager_Register", "usermanager_insertUser"} ->
                    /\ \E n \in NewUsers(c) :
                         job' = [job EXCEPT ![w].pc = "verifyName", ![w].copy = n]
                    /\ UNCHANGED sess
               [] OTHER -> Goto(w, "select") /\ UNCHANGED sess
  BY DEF dispatch
<1>7. CASE ~Permitted(c, u, auth)
  BY <1>2, <1>6, <1>7
<1>8. CASE Permitted(c, u, auth)
  <2>1. CASE c.cmd = "authmanager_Logout"
    BY <1>3, <1>6, <1>8, <2>1
  <2>2. CASE c.cmd \in {"authmanager_Register", "usermanager_insertUser"}
    BY <1>4, <1>6, <1>8, <2>2
  <2>3. CASE c.cmd \notin {"authmanager_Logout", "authmanager_Register",
                           "usermanager_insertUser"}
    <3>1. Goto(w, "select") /\ sess' = sess
      BY <1>6, <1>8, <2>3
    <3> QED BY <3>1, <1>5, <1>8
  <2> QED BY <2>1, <2>2, <2>3
<1> QED BY <1>7, <1>8

(* The copy of a row is of the type a worker may hold.                     *)
LEMMA CopyTypes ==
  ASSUME Types, NEW i \in DOMAIN rows
  PROVE  /\ CopyOf(i) \in [id : Nat, name : Names \union {Empty},
                           email : ValidEmails \union {Empty}, password : Passwords]
         /\ CopyOf(i).id = i /\ CopyOf(i).name = rows[i].name
         /\ CopyOf(i).email \in ValidEmails /\ CopyOf(i).password = rows[i].password
<1>1. rows[i] \in Row /\ i \in Nat
  BY RowsAre DEF Types
<1> QED BY <1>1 DEF CopyOf, Row

LEMMA FoundThere == \A c : Found(c) \subseteq DOMAIN rows
  BY DEF Found

LEMMA selectInv ==
  ASSUME AccountsInv, NEW w \in Workers, select(w)
  PROVE  AccountsInv'
<1> DEFINE s == job[w].sess
           c == job[w].c
<1>1. /\ job[w].pc = "select" /\ rows' = rows /\ served' = served
      /\ told' = told /\ told \in [Names -> Nat] /\ job[w] \in JobType /\ s \in Sessions
      /\ c \in Commands /\ JobOK(job[w], rows) /\ JobRights(job[w], rows, sess)
      /\ served' \in 0 .. MaxRequests /\ Types
  BY DEF select, AccountsInv, Types, JobType
<1>2. CASE Answer(w) /\ sess' = sess
  BY <1>1, <1>2, AnsweredQuietly
<1>3. ASSUME NEW i \in Found(c),
             sess' = IF c.cmd = "authmanager_Login" /\ verifyPassword(CopyOf(i), c.pwd)
                     THEN [sess EXCEPT ![s].user_id = i] ELSE sess,
             IF GoesOn(c, CopyOf(i))
             THEN job' = [job EXCEPT ![w].pc = "update", ![w].copy = CopyOf(i)]
             ELSE Answer(w)
      PROVE  AccountsInv'
  <2>1. i \in DOMAIN rows /\ i \in Nat
    BY <1>1, FoundThere, RowsAre DEF Types
  <2>2. /\ \A r \in Sessions \ {s} : sess'[r] = sess[r]
        /\ sess' \in [Sessions -> [user_id : Nat, level : Levels \union {-1}]]
        /\ \A r \in Sessions : sess'[r].user_id \in {0} \union DOMAIN rows
    <3>1. CASE sess' = sess
      BY <3>1, <1>1 DEF Types
    <3>2. CASE sess' = [sess EXCEPT ![s].user_id = i]
      BY <3>2, <1>1, <2>1 DEF Types
    <3> QED BY <1>3, <3>1, <3>2
  <2>3. CASE GoesOn(c, CopyOf(i))
    <3>1. sess' = sess
      BY <1>3, <2>3 DEF GoesOn
    <3>2. PICK k : k = CopyOf(i)
      OBVIOUS
    <3>3. /\ k \in [id : Nat, name : Names \union {Empty},
                    email : ValidEmails \union {Empty}, password : Passwords]
          /\ k.id = i /\ k.name = rows[i].name /\ k.email \in ValidEmails
      BY <1>1, <2>1, <3>2, CopyTypes
    <3>4. job' = [job EXCEPT ![w].pc = "update", ![w].copy = k]
      BY <1>3, <2>3, <3>2
    <3>5. /\ OnlyJob(w) /\ job'[w].pc = "update" /\ job'[w].sess = job[w].sess
          /\ job'[w].c = c /\ job'[w].seen = job[w].seen
          /\ job'[w].stale = job[w].stale /\ job'[w].copy = k
      BY <1>1, <3>3, <3>4 DEF Types, OnlyJob, JobType, PCs
    <3>6. /\ c.cmd = "user_setBasicInfo" => c.email \in ValidEmails
          /\ c.cmd = "user_setAuthLevel" => k.id = c.id
      BY <2>3, <3>3 DEF GoesOn, Found
    <3>7. JobOK(job'[w], rows)
      BY <2>1, <3>3, <3>5, <3>6 DEF JobOK
    <3>8. JobRights(job'[w], rows, sess)
      BY <1>1, <3>5 DEF JobRights
    <3> QED BY <1>1, <3>1, <3>5, <3>7, <3>8, QuietSame
  <2>4. CASE ~GoesOn(c, CopyOf(i))
    <3>1. OnlyJob(w) /\ job'[w] = Idle
      BY <1>1, <1>3, <2>4, Answered
    <3> QED BY <1>1, <2>2, <3>1, IdleFacts, IdleKnows, Quiet
  <2> QED BY <2>3, <2>4
<1> QED
  <2>1. \/ \E i \in Found(c) :
             /\ sess' = IF c.cmd = "authmanager_Login" /\ verifyPassword(CopyOf(i), c.pwd)
                        THEN [sess EXCEPT ![s].user_id = i] ELSE sess
             /\ IF GoesOn(c, CopyOf(i))
                THEN job' = [job EXCEPT ![w].pc = "update", ![w].copy = CopyOf(i)]
                ELSE Answer(w)
        \/ Answer(w) /\ sess' = sess
    BY DEF select
  <2> QED BY <1>2, <1>3, <2>1

-----------------------------------------------------------------------------
(* UPDATE *)

(* Putting x in the place of the row i keeps what x keeps.                 *)
LEMMA RowSet ==
  ASSUME NEW R \in Seq(Row), NEW i \in DOMAIN R, NEW x \in Row, NEW Q,
         Q = [R EXCEPT ![i] = x], x.name = R[i].name, x.after = R[i].after
  PROVE  /\ Keeps(R, Q) /\ Len(Q) = Len(R) /\ DOMAIN Q = DOMAIN R
         /\ \A k \in DOMAIN R : Q[k].after = R[k].after
         /\ \A k \in DOMAIN R : k # i => Q[k] = R[k]
         /\ Q[i] = x
<1>1. DOMAIN R = 1 .. Len(R) /\ Len(R) \in Nat
  BY RowsAre
<1>2. Q \in Seq(Row) /\ Len(Q) = Len(R)
  BY <1>1, ExceptSeq
<1>3. \A k \in 1 .. Len(R) : Q[k] = IF k = i THEN x ELSE R[k]
  BY <1>1, ExceptSeq
<1>4. DOMAIN Q = 1 .. Len(Q)
  BY <1>2, RowsAre
<1> QED BY <1>1, <1>2, <1>3, <1>4 DEF Keeps

LEMMA UpdatedRows ==
  ASSUME AccountsInv, NEW w \in Workers, update(w)
  PROVE  /\ Keeps(rows, rows') /\ DOMAIN rows' = DOMAIN rows
         /\ \A k \in DOMAIN rows : rows'[k].after = rows[k].after
         /\ \A k \in DOMAIN rows : rows'[k].level # rows[k].level =>
              job[w].c.cmd = "user_setAuthLevel" /\ k = job[w].copy.id
<1> DEFINE c == job[w].c
           i == job[w].copy.id
<1>1. /\ rows \in Seq(Row) /\ c \in Commands /\ i \in DOMAIN rows
      /\ job[w].copy.name = rows[i].name
      /\ c.cmd = "user_setBasicInfo" => c.email \in ValidEmails
  BY DEF update, AccountsInv, Types, JobType, JobOK
<1>2. rows[i] \in Row /\ Hash(c.pwd) \in Passwords /\ c.level \in Levels
  BY <1>1, RowsAre, Commanded
<1>3. ASSUME NEW x \in Row, rows' = [rows EXCEPT ![i] = x], x.name = rows[i].name,
             x.after = rows[i].after, x.level # rows[i].level => c.cmd = "user_setAuthLevel"
      PROVE  /\ Keeps(rows, rows') /\ DOMAIN rows' = DOMAIN rows
             /\ \A k \in DOMAIN rows : rows'[k].after = rows[k].after
             /\ \A k \in DOMAIN rows : rows'[k].level # rows[k].level =>
                  c.cmd = "user_setAuthLevel" /\ k = i
  <2>1. PICK n \in DOMAIN rows : n = i
    BY <1>1
  <2>2. PICK Q : Q = rows'
    OBVIOUS
  <2>3. Q = [rows EXCEPT ![n] = x] /\ x.name = rows[n].name /\ x.after = rows[n].after
    BY <1>3, <2>1, <2>2
  <2>4. /\ Keeps(rows, Q) /\ DOMAIN Q = DOMAIN rows
        /\ \A k \in DOMAIN rows : Q[k].after = rows[k].after
        /\ \A k \in DOMAIN rows : k # n => Q[k] = rows[k]
        /\ Q[n] = x
    BY <1>1, <2>3, RowSet
  <2> QED BY <1>3, <2>1, <2>2, <2>4
<1>4. CASE /\ c.cmd = "user_setBasicInfo"
           /\ rows' = [rows EXCEPT ![i].name = job[w].copy.name, ![i].email = c.email]
  <2>1. PICK x : x = [rows[i] EXCEPT !.name = job[w].copy.name, !.email = c.email]
    OBVIOUS
  <2>2. /\ x \in Row /\ x.name = rows[i].name /\ x.after = rows[i].after
        /\ x.level = rows[i].level
    BY <1>1, <1>2, <1>4, <2>1 DEF Row
  <2>3. rows' = [rows EXCEPT ![i] = x]
    BY <1>1, <1>4, <2>1
  <2> QED BY <1>3, <2>2, <2>3
<1>5. CASE rows' = [rows EXCEPT ![i].password = Hash(c.pwd)]
  <2>1. PICK x : x = [rows[i] EXCEPT !.password = Hash(c.pwd)]
    OBVIOUS
  <2>2. /\ x \in Row /\ x.name = rows[i].name /\ x.after = rows[i].after
        /\ x.level = rows[i].level
    BY <1>2, <2>1 DEF Row
  <2>3. rows' = [rows EXCEPT ![i] = x]
    BY <1>5, <2>1
  <2> QED BY <1>3, <2>2, <2>3
<1>6. CASE c.cmd = "user_setAuthLevel" /\ rows' = [rows EXCEPT ![i].level = c.level]
  <2>1. PICK x : x = [rows[i] EXCEPT !.level = c.level]
    OBVIOUS
  <2>2. x \in Row /\ x.name = rows[i].name /\ x.after = rows[i].after
    BY <1>2, <2>1 DEF Row
  <2>3. rows' = [rows EXCEPT ![i] = x]
    BY <1>6, <2>1
  <2> QED BY <1>3, <1>6, <2>2, <2>3
<1>7. CASE rows' = rows
  BY <1>1, <1>7, KeepsSame
<1> QED BY <1>4, <1>5, <1>6, <1>7 DEF update

(* The other workers go on with what they know, and see the new levels.    *)
LEMMA Watched ==
  ASSUME AccountsInv, NEW w \in Workers, AnswerAndWatch(w), Keeps(rows, rows')
  PROVE  /\ job' \in [Workers -> JobType] /\ job'[w] = Idle
         /\ \A v \in Workers \ {w} :
              /\ job'[v].pc = job[v].pc /\ job'[v].sess = job[v].sess
              /\ job'[v].c = job[v].c /\ job'[v].copy = job[v].copy
              /\ job'[v].stale = job[v].stale /\ job[v].seen \subseteq job'[v].seen
              /\ job[v].pc # "idle" /\ sess[job[v].sess].user_id # 0 =>
                   rows'[sess[job[v].sess].user_id].level \in job'[v].seen
<1> DEFINE New(v) == LET u == sess[job[v].sess].user_id IN
                     IF job[v].pc = "idle" \/ u = 0 THEN job[v]
                     ELSE [job[v] EXCEPT !.seen = job[v].seen \union {rows'[u].level}]
<1>1. job' = [v \in Workers |-> IF v = w THEN Idle ELSE New(v)]
  BY DEF AnswerAndWatch
<1>2. ASSUME NEW v \in Workers
      PROVE  /\ New(v) \in JobType
             /\ New(v).pc = job[v].pc /\ New(v).sess = job[v].sess
             /\ New(v).c = job[v].c /\ New(v).copy = job[v].copy
             /\ New(v).stale = job[v].stale /\ job[v].seen \subseteq New(v).seen
             /\ job[v].pc # "idle" /\ sess[job[v].sess].user_id # 0 =>
                   rows'[sess[job[v].sess].user_id].level \in New(v).seen
  <2>1. job[v] \in JobType /\ job[v].sess \in Sessions
    BY DEF AccountsInv, Types, JobType
  <2>2. CASE job[v].pc = "idle" \/ sess[job[v].sess].user_id = 0
    BY <2>1, <2>2
  <2>3. CASE ~(job[v].pc = "idle" \/ sess[job[v].sess].user_id = 0)
    <3>1. sess[job[v].sess].user_id \in DOMAIN rows
      BY <2>1, <2>3 DEF AccountsInv, Types
    <3>2. sess[job[v].sess].user_id \in DOMAIN rows'
      BY <3>1, RowsAre DEF Keeps
    <3>3. rows'[sess[job[v].sess].user_id].level \in Levels
      BY <3>2, RowsAre DEF Keeps, Row
    <3>4. PICK l \in Levels : l = rows'[sess[job[v].sess].user_id].level
      BY <3>3
    <3>5. New(v) = [job[v] EXCEPT !.seen = job[v].seen \union {l}]
      BY <2>3, <3>4
    <3> QED BY <2>1, <3>4, <3>5 DEF JobType
  <2> QED BY <2>2, <2>3
<1> HIDE DEF New
<1> QED BY <1>1, <1>2, IdleFacts

LEMMA updateInv ==
  ASSUME AccountsInv, NEW w \in Workers, update(w)
  PROVE  AccountsInv'
<1>1. /\ Keeps(rows, rows') /\ DOMAIN rows' = DOMAIN rows
      /\ \A k \in DOMAIN rows : rows'[k].after = rows[k].after
  BY UpdatedRows
<1>2. AnswerAndWatch(w) /\ sess' = sess /\ served' = served /\ told' = told
  BY DEF update
<1>3. /\ job' \in [Workers -> JobType] /\ job'[w] = Idle
      /\ \A v \in Workers \ {w} :
           /\ job'[v].pc = job[v].pc /\ job'[v].sess = job[v].sess
           /\ job'[v].c = job[v].c /\ job'[v].copy = job[v].copy
           /\ job'[v].stale = job[v].stale /\ job[v].seen \subseteq job'[v].seen
           /\ job[v].pc # "idle" /\ sess[job[v].sess].user_id # 0 =>
                rows'[sess[job[v].sess].user_id].level \in job'[v].seen
  BY <1>1, <1>2, Watched
<1>4. Types'
  BY <1>1, <1>2, <1>3 DEF AccountsInv, Types, Keeps
<1>5. Exclusive'
  BY <1>3, IdleFacts DEF AccountsInv, Exclusive
<1>6. RepeatedOnlyIfConcurrent'
  BY <1>1 DEF AccountsInv, RepeatedOnlyIfConcurrent, Keeps
<1>7. ASSUME NEW v \in Workers
      PROVE  JobOK(job'[v], rows') /\ JobRights(job'[v], rows', sess')
  <2>1. CASE v = w
    BY <2>1, <1>3, IdleKnows
  <2>2. CASE v # w
    <3>1. JobOK(job[v], rows) /\ JobRights(job[v], rows, sess) /\ job[v] \in JobType
      BY DEF AccountsInv, Types
    <3>2. JobOK(job[v], rows')
      BY <1>1, <3>1, KeptJob
    <3>3. JobOK(job'[v], rows')
      BY <1>3, <2>2, <3>2 DEF JobOK
    <3>4. JobRights(job'[v], rows', sess')
      BY <1>2, <1>3, <2>2, <3>1 DEF JobRights
    <3> QED BY <3>3, <3>4
  <2> QED BY <2>1, <2>2
<1> QED BY <1>4, <1>5, <1>6, <1>7, Together

-----------------------------------------------------------------------------
(* Registration *)

LEMMA verifyNameInv ==
  ASSUME AccountsInv, NEW w \in Workers, verifyName(w)
  PROVE  AccountsInv'
<1> DEFINE taken == \E i \in DOMAIN rows : rows[i].name = job[w].copy.name
<1>1. /\ job[w].pc = "verifyName" /\ rows' = rows /\ served' = served /\ sess' = sess
      /\ told' = told /\ told \in [Names -> Nat] /\ job[w] \in JobType
      /\ JobOK(job[w], rows) /\ JobRights(job[w], rows, sess) /\ rows \in Seq(Row)
  BY DEF verifyName, AccountsInv, Types, JobType
<1>2. CASE Answer(w)
  BY <1>1, <1>2, AnsweredQuietly
<1>3. CASE job' = [job EXCEPT ![w].pc = IF taken THEN "verifyVain" ELSE "verifyEmail",
                              ![w].copy.id = Len(rows)]
  <2>1. PICK p \in PCs : p = IF taken THEN "verifyVain" ELSE "verifyEmail"
    BY DEF PCs
  <2>2. PICK k : k = [job[w].copy EXCEPT !.id = Len(rows)]
    OBVIOUS
  <2>3. Len(rows) \in Nat /\ DOMAIN rows = 1 .. Len(rows)
    BY <1>1, RowsAre
  <2>4. /\ k \in [id : Nat, name : Names \union {Empty}, email : ValidEmails \union {Empty},
                  password : Passwords]
        /\ k.id = Len(rows) /\ k.name = job[w].copy.name /\ k.email = job[w].copy.email
    BY <1>1, <2>2, <2>3 DEF JobType
  <2>5. job' = [job EXCEPT ![w].pc = p, ![w].copy = k]
    BY <1>1, <1>3, <2>1, <2>2 DEF AccountsInv, Types, JobType
  <2>6. /\ OnlyJob(w) /\ job'[w].pc = p /\ job'[w].sess = job[w].sess
        /\ job'[w].c = job[w].c /\ job'[w].seen = job[w].seen
        /\ job'[w].stale = job[w].stale /\ job'[w].copy = k
    BY <1>1, <2>4, <2>5 DEF AccountsInv, Types, OnlyJob, JobType
  <2>7. p = "verifyEmail" => \A i \in DOMAIN rows : rows[i].name # k.name
    BY <2>1, <2>4
  <2>8. JobOK(job'[w], rows)
    BY <1>1, <2>1, <2>3, <2>4, <2>6, <2>7 DEF JobOK
  <2>9. JobRights(job'[w], rows, sess)
    BY <1>1, <2>1, <2>6 DEF JobRights
  <2> QED BY <1>1, <2>6, <2>8, <2>9, QuietSame
<1> QED BY <1>2, <1>3 DEF verifyName

LEMMA verifyEmailInv ==
  ASSUME AccountsInv, NEW w \in Workers, verifyEmail(w)
  PROVE  AccountsInv'
<1>1. /\ job[w].pc \in {"verifyEmail", "verifyVain"} /\ rows' = rows /\ served' = served
      /\ sess' = sess /\ told' = told /\ told \in [Names -> Nat] /\ job[w] \in JobType
      /\ JobOK(job[w], rows) /\ JobRights(job[w], rows, sess)
  BY DEF verifyEmail, AccountsInv, Types
<1>2. CASE Answer(w)
  BY <1>1, <1>2, AnsweredQuietly
<1>3. CASE job[w].pc = "verifyEmail" /\ Goto(w, "insert")
  <2>1. /\ OnlyJob(w) /\ job'[w].pc = "insert" /\ job'[w].sess = job[w].sess
        /\ job'[w].c = job[w].c /\ job'[w].seen = job[w].seen
        /\ job'[w].stale = job[w].stale /\ job'[w].copy = job[w].copy
    BY <1>3, Went DEF AccountsInv, PCs
  <2>2. JobOK(job'[w], rows) /\ JobRights(job'[w], rows, sess)
    BY <1>1, <1>3, <2>1 DEF JobOK, JobRights
  <2> QED BY <1>1, <2>1, <2>2, QuietSame
<1> QED BY <1>2, <1>3 DEF verifyEmail

LEMMA insertInv ==
  ASSUME AccountsInv, NEW w \in Workers, insert(w)
  PROVE  AccountsInv'
<1> DEFINE copy == job[w].copy
<1>1. /\ job[w].pc = "insert" /\ served' = served /\ sess' = sess
      /\ told' = told /\ told \in [Names -> Nat] /\ job[w] \in JobType
      /\ JobOK(job[w], rows) /\ JobRights(job[w], rows, sess) /\ rows \in Seq(Row)
  BY DEF insert, AccountsInv, Types
<1>2. CASE Answer(w) /\ rows' = rows
  BY <1>1, <1>2, AnsweredQuietly
<1>3. CASE /\ copy.name # Empty
           /\ rows' = Append(rows, [name |-> copy.name, email |-> copy.email,
                                    password |-> copy.password, level |-> 0,
                                    after |-> copy.id])
           /\ Goto(w, "lastInsertId")
  <2>1. PICK x : x = [name |-> copy.name, email |-> copy.email, password |-> copy.password,
                      level |-> 0, after |-> copy.id]
    OBVIOUS
  <2>2. x \in Row /\ x.name = copy.name /\ x.after = copy.id
    BY <1>1, <1>3, <2>1 DEF JobType, JobOK, Row, Levels
  <2>3. rows' = Append(rows, x)
    BY <1>3, <2>1
  <2>4. /\ rows' \in Seq(Row) /\ Len(rows') = Len(rows) + 1
        /\ \A i \in 1 .. Len(rows) : rows'[i] = rows[i]
        /\ rows'[Len(rows) + 1] = x
    BY <1>1, <2>2, <2>3, AppendProperties
  <2>5. /\ Len(rows) \in Nat /\ DOMAIN rows = 1 .. Len(rows) /\ DOMAIN rows' = 1 .. Len(rows')
    BY <1>1, <2>4, RowsAre
  <2>6. Keeps(rows, rows') /\ \A i \in DOMAIN rows : rows'[i] = rows[i]
    BY <1>1, <2>4, <2>5 DEF Keeps
  <2>7. /\ OnlyJob(w) /\ job'[w].pc = "lastInsertId" /\ job'[w].sess = job[w].sess
        /\ job'[w].c = job[w].c /\ job'[w].seen = job[w].seen
        /\ job'[w].stale = job[w].stale /\ job'[w].copy = copy
    BY <1>3, Went DEF AccountsInv, PCs
  <2>8. JobOK(job'[w], rows')
    BY <1>1, <1>3, <2>7 DEF JobOK
  <2>9. JobRights(job'[w], rows', sess')
    <3>1. job[w].sess \in Sessions
      BY <1>1 DEF JobType
    <3>2. sess[job[w].sess].user_id # 0 =>
            rows'[sess[job[w].sess].user_id] = rows[sess[job[w].sess].user_id]
      BY <2>6, <3>1 DEF AccountsInv, Types
    <3> QED BY <1>1, <2>7, <3>2 DEF JobRights
  <2>10. Types'
    BY <1>1, <2>4, <2>5, <2>7 DEF AccountsInv, Types, OnlyJob
  <2>11. \A v \in Workers \ {w} : job[v].pc # "idle" => job[v].sess # job'[w].sess
    BY <1>1, <2>7 DEF AccountsInv, Exclusive
  <2>12. /\ \A v \in Workers : JobOK(job'[v], rows')
         /\ \A v \in Workers : JobRights(job'[v], rows', sess')
         /\ Exclusive'
    BY <1>1, <2>6, <2>7, <2>8, <2>9, <2>11, OneJob
  <2>13. RepeatedOnlyIfConcurrent'
    <3> SUFFICES ASSUME NEW i \in DOMAIN rows', NEW j \in DOMAIN rows',
                        i < j, rows'[i].name = rows'[j].name
                 PROVE  rows'[j].after < i
      BY DEF RepeatedOnlyIfConcurrent
    <3>1. i \in DOMAIN rows /\ rows'[i] = rows[i]
      BY <2>4, <2>5
    <3>2. CASE j \in DOMAIN rows
      BY <2>6, <3>1, <3>2 DEF AccountsInv, RepeatedOnlyIfConcurrent
    <3>3. CASE j = Len(rows) + 1
      <4>1. rows'[j] = x /\ rows[i].name = copy.name
        BY <2>2, <2>4, <3>1, <3>3
      <4>2. i > copy.id
        BY <1>1, <3>1, <4>1 DEF JobOK
      <4> QED BY <1>1, <2>2, <2>5, <4>1, <4>2 DEF JobType
    <3> QED BY <2>4, <2>5, <3>2, <3>3
  <2> QED BY <2>10, <2>12, <2>13, Together
<1> QED BY <1>2, <1>3 DEF insert

LEMMA lastInsertIdInv ==
  ASSUME AccountsInv, NEW w \in Workers, lastInsertId(w)
  PROVE  AccountsInv'
<1>1. /\ job[w].pc = "lastInsertId" /\ rows' = rows /\ served' = served /\ sess' = sess
      /\ job[w] \in JobType /\ told \in [Names -> Nat] /\ JobOK(job[w], rows) /\ Answer(w)
  BY DEF lastInsertId, AccountsInv, Types
<1>2. job[w].copy.name \in Names
  BY <1>1 DEF JobOK, JobType
<1>3. told' \in [Names -> Nat]
  BY <1>1, <1>2 DEF lastInsertId, Tell
<1> QED BY <1>1, <1>3, AnsweredQuietly

-----------------------------------------------------------------------------
LEMMA NextInv == AccountsInv /\ [Next]_vars => AccountsInv'
<1> SUFFICES ASSUME AccountsInv, [Next]_vars PROVE AccountsInv'
  OBVIOUS
<1>1. CASE UNCHANGED vars
  BY <1>1 DEF vars, AccountsInv, Types, Exclusive, RepeatedOnlyIfConcurrent
<1>2. ASSUME NEW s \in Sessions, startSession(s)
      PROVE  AccountsInv'
  BY <1>2, startSessionInv
<1>3. ASSUME NEW w \in Workers, recvRequest(w) \/ Serve(w)
      PROVE  AccountsInv'
  BY <1>3, recvRequestInv, getUserByIDInv, getAuthLevelInv, dispatchInv, selectInv, updateInv,
     verifyNameInv, verifyEmailInv, insertInv, lastInsertIdInv DEF Serve
<1> QED BY <1>1, <1>2, <1>3 DEF Next

LEMMA Invariant == Spec => []AccountsInv
  BY InitInv, NextInv, PTL DEF Spec

(* Whatever is received and fails, the state is well-typed: an UPDATE      *)
(* names a row there is, and a session a user there is.                    *)
THEOREM AccountsTypeCorrect == Spec => []TypeOK
  BY Invariant, AccountsInvTypes, PTL

-----------------------------------------------------------------------------
(* Logging in *)

LEMMA LoginStep ==
  ASSUME AccountsInv, [Next]_vars, NEW s \in Sessions,
         sess'[s].user_id \notin {0, sess[s].user_id}
  PROVE  \E w \in Workers :
           /\ job[w].pc = "select" /\ job'[w].pc = "idle" /\ job[w].sess = s
           /\ rows[sess'[s].user_id].password = Hash(job[w].c.pwd)
<1>1. sess' # sess
  OBVIOUS
<1>2. sess \in [Sessions -> [user_id : Nat, level : Levels \union {-1}]]
  BY DEF AccountsInv, Types
<1>3. ASSUME NEW r \in Sessions, startSession(r)
      PROVE  FALSE
  BY <1>2, <1>3 DEF startSession, NewSession
<1>4. ASSUME NEW w \in Workers, getAuthLevel(w)
      PROVE  FALSE
  <2>1. PICK l : sess' = [sess EXCEPT ![job[w].sess].level = l]
    BY <1>4 DEF getAuthLevel
  <2> QED BY <2>1, <1>2
<1>5. ASSUME NEW w \in Workers, dispatch(w)
      PROVE  FALSE
  <2>1. sess' = [sess EXCEPT ![job[w].sess].user_id = 0]
    BY <1>5, <1>1 DEF dispatch
  <2> QED BY <2>1, <1>2
<1>6. ASSUME NEW w \in Workers, select(w)
      PROVE  /\ job[w].pc = "select" /\ job'[w].pc = "idle" /\ job[w].sess = s
             /\ rows[sess'[s].user_id].password = Hash(job[w].c.pwd)
  <2> DEFINE c == job[w].c
  <2>1. PICK i \in Found(c) :
          /\ sess' = IF c.cmd = "authmanager_Login" /\ verifyPassword(CopyOf(i), c.pwd)
                     THEN [sess EXCEPT ![job[w].sess].user_id = i] ELSE sess
          /\ IF GoesOn(c, CopyOf(i))
             THEN job' = [job EXCEPT ![w].pc = "update", ![w].copy = CopyOf(i)]
             ELSE Answer(w)
    BY <1>6, <1>1 DEF select
  <2>2. /\ c.cmd = "authmanager_Login" /\ verifyPassword(CopyOf(i), c.pwd)
        /\ sess' = [sess EXCEPT ![job[w].sess].user_id = i]
    BY <2>1, <1>1
  <2>3. job[w].sess = s /\ sess'[s].user_id = i
    BY <2>2, <1>2
  <2>4. Answer(w)
    BY <2>1, <2>2 DEF GoesOn
  <2>5. job'[w] = Idle
    BY <2>4, Answered DEF AccountsInv
  <2>6. rows[i].password = Hash(c.pwd)
    BY <2>2 DEF verifyPassword, CopyOf
  <2> QED BY <1>6, <2>3, <2>5, <2>6, IdleFacts DEF select
<1>7. ASSUME NEW w \in Workers, recvRequest(w) \/ Serve(w)
      PROVE  select(w)
  BY <1>1, <1>4, <1>5, <1>7
     DEF Serve, recvRequest, getUserByID, update, verifyName, verifyEmail, insert, lastInsertId
<1>8. PICK w \in Workers : recvRequest(w) \/ Serve(w)
  BY <1>1, <1>3 DEF Next, vars
<1> QED BY <1>6, <1>7, <1>8

(* A session gets a user only by a login that presented the password in    *)
(* that user's row; this holds in any interleaving and with any failures.  *)
THEOREM LoginsAreGenuine == Spec => LoginNeedsPassword
<1>1. AccountsInv /\ [Next]_vars =>
        [\A s \in Sessions : sess'[s].user_id \notin {0, sess[s].user_id} =>
           \E w \in Workers :
             /\ job[w].pc = "select" /\ job'[w].pc = "idle" /\ job[w].sess = s
             /\ rows[sess'[s].user_id].password = Hash(job[w].c.pwd)]_vars
  BY LoginStep
<1> QED BY <1>1, Invariant, PTL DEF Spec, LoginNeedsPassword

-----------------------------------------------------------------------------
(* Rights *)

LEMMA RightStep ==
  ASSUME AccountsInv, [Next]_vars, NEW i \in DOMAIN rows, rows'[i].level # rows[i].level
  PROVE  \E w \in Workers : /\ job[w].pc = "update" /\ job'[w].pc = "idle"
                            /\ SetsLevelOf(w, i) /\ HadTheRight(w)
<1>1. rows' # rows
  OBVIOUS
<1>2. ASSUME NEW w \in Workers, insert(w)
      PROVE  FALSE
  <2>1. PICK x : rows' = Append(rows, x)
    BY <1>1, <1>2 DEF insert
  <2>2. rows \in Seq(Row) /\ DOMAIN rows = 1 .. Len(rows)
    BY RowsAre DEF AccountsInv, Types
  <2>3. Append(rows, x)[i] = rows[i]
    BY <2>2
  <2> QED BY <2>1, <2>3
<1>3. ASSUME NEW w \in Workers, update(w)
      PROVE  /\ job[w].pc = "update" /\ job'[w].pc = "idle"
             /\ SetsLevelOf(w, i) /\ HadTheRight(w)
  <2>1. /\ job[w].c.cmd = "user_setAuthLevel" /\ Keeps(rows, rows')
        /\ i = job[w].copy.id
    BY <1>3, UpdatedRows
  <2>2. /\ job[w].pc = "update" /\ AnswerAndWatch(w) /\ JobRights(job[w], rows, sess)
        /\ JobOK(job[w], rows)
    BY <1>3 DEF update, AccountsInv
  <2>3. job'[w] = Idle
    BY <2>1, <2>2, Watched
  <2>4. HadTheRight(w)
    BY <2>1, <2>2 DEF JobRights, HadTheRight
  <2>5. SetsLevelOf(w, i)
    BY <2>1, <2>2 DEF JobOK, SetsLevelOf
  <2> QED BY <2>2, <2>3, <2>4, <2>5, IdleFacts
<1>4. PICK w \in Workers : recvRequest(w) \/ Serve(w)
  BY <1>1 DEF Next, vars, startSession
<1>5. update(w)
  BY <1>1, <1>2, <1>4
     DEF Serve, recvRequest, getUserByID, getAuthLevel, dispatch, select, verifyName,
         verifyEmail, lastInsertId
<1> QED BY <1>3, <1>5

(* The check the code makes, for every interleaving and failing statement: *)
(* the level of a user changes only in a setAuthLevel of that user by      *)
(* someone who has had a level that may give the right to it since the     *)
(* request came, unless the level could not be refreshed.  It is no more   *)
(* than that: nothing keeps him from changing his own level, or that of a  *)
(* user above him (LevelsAreSetBelow).                                     *)
THEOREM LevelsNeedRights == Spec => RightsAreCurrent
<1>1. AccountsInv /\ [Next]_vars =>
        [\A i \in DOMAIN rows : rows'[i].level # rows[i].level =>
           \E w \in Workers : /\ job[w].pc = "update" /\ job'[w].pc = "idle"
                              /\ SetsLevelOf(w, i) /\ HadTheRight(w)]_vars
  BY RightStep
<1> QED BY <1>1, Invariant, PTL DEF Spec, RightsAreCurrent

-----------------------------------------------------------------------------
(* Registration: whoever is about to answer has a row too.                 *)

Pending(n) == {w \in Workers : job[w].pc = "lastInsertId" /\ job[w].copy.name = n}
Having(n)  == {i \in DOMAIN rows : rows[i].name = n}

EachHasARow == \A n \in Names : told[n] + Cardinality(Pending(n)) <= Cardinality(Having(n))

LEMMA FiniteSets ==
  ASSUME IsFiniteSet(Workers), Types, NEW n
  PROVE  /\ IsFiniteSet(Pending(n)) /\ Cardinality(Pending(n)) \in Nat
         /\ IsFiniteSet(Having(n)) /\ Cardinality(Having(n)) \in Nat
<1>1. IsFiniteSet(Pending(n))
  BY FS_Subset DEF Pending
<1>2. DOMAIN rows = 1 .. Len(rows) /\ Len(rows) \in Nat
  BY RowsAre DEF Types
<1>3. IsFiniteSet(DOMAIN rows)
  BY <1>2, FS_Interval
<1>4. IsFiniteSet(Having(n))
  BY <1>3, FS_Subset DEF Having
<1> QED BY <1>1, <1>4, FS_CardinalityType

(* A step in which nobody enters or leaves lastInsertId and names stay.    *)
LEMMA NobodyTold ==
  ASSUME EachHasARow, told' = told, DOMAIN rows' = DOMAIN rows,
         \A i \in DOMAIN rows : rows'[i].name = rows[i].name,
         \A v \in Workers : job'[v].pc = "lastInsertId" <=> job[v].pc = "lastInsertId",
         \A v \in Workers : job[v].pc = "lastInsertId" => job'[v].copy = job[v].copy
  PROVE  EachHasARow'
<1>1. \A n : Pending(n)' = Pending(n) /\ Having(n)' = Having(n)
  BY DEF Pending, Having
<1> QED BY <1>1 DEF EachHasARow

LEMMA InsertCounts ==
  ASSUME IsFiniteSet(Workers), AccountsInv, EachHasARow, NEW w \in Workers, insert(w)
  PROVE  EachHasARow'
<1> DEFINE copy == job[w].copy
<1>1. job[w].pc = "insert" /\ told' = told /\ Types /\ rows \in Seq(Row) /\ job[w] \in JobType
  BY DEF insert, AccountsInv, Types
<1>2. CASE Answer(w) /\ rows' = rows
  <2>1. OnlyJob(w) /\ job'[w] = Idle
    BY <1>1, <1>2, Answered
  <2> QED BY <1>1, <1>2, <2>1, IdleFacts, NobodyTold DEF OnlyJob
<1>3. CASE copy.name # Empty /\ Goto(w, "lastInsertId") /\
           rows' = Append(rows, [name |-> copy.name, email |-> copy.email,
                                 password |-> copy.password, level |-> 0, after |-> copy.id])
  <2>1. PICK x : x = [name |-> copy.name, email |-> copy.email, password |-> copy.password,
                      level |-> 0, after |-> copy.id]
    OBVIOUS
  <2>2. x \in Row /\ x.name = copy.name
    BY <1>1, <1>3, <2>1 DEF JobType, JobOK, Row, Levels, AccountsInv
  <2>3. /\ rows' \in Seq(Row) /\ Len(rows') = Len(rows) + 1
        /\ \A i \in 1 .. Len(rows) : rows'[i] = rows[i]
        /\ rows'[Len(rows) + 1] = x
    BY <1>1, <1>3, <2>1, <2>2, AppendProperties
  <2>4. /\ Len(rows) \in Nat /\ DOMAIN rows = 1 .. Len(rows) /\ DOMAIN rows' = 1 .. Len(rows')
    BY <1>1, <2>3, RowsAre
  <2>5. OnlyJob(w) /\ job'[w].pc = "lastInsertId" /\ job'[w].copy = copy
    BY <1>1, <1>3, Went DEF PCs
  <2>6. SUFFICES ASSUME NEW n \in Names
                 PROVE  told[n] + Cardinality(Pending(n)') <= Cardinality(Having(n)')
    BY <1>1 DEF EachHasARow
  <2>7. /\ told[n] \in Nat /\ told[n] + Cardinality(Pending(n)) <= Cardinality(Having(n))
        /\ IsFiniteSet(Pending(n)) /\ Cardinality(Pending(n)) \in Nat
        /\ IsFiniteSet(Having(n)) /\ Cardinality(Having(n)) \in Nat
    BY <1>1, FiniteSets DEF EachHasARow, Types
  <2>8. CASE n = copy.name
    <3>1. Pending(n)' = Pending(n) \union {w} /\ w \notin Pending(n)
      BY <1>1, <2>5, <2>8 DEF Pending, OnlyJob
    <3>2. PICK k : k = Len(rows) + 1
      OBVIOUS
    <3>3. Having(n)' = Having(n) \union {k} /\ k \notin Having(n)
      BY <2>2, <2>3, <2>4, <2>8, <3>2 DEF Having
    <3>4. Cardinality(Pending(n)') = Cardinality(Pending(n)) + 1
      BY <2>7, <3>1, FS_AddElement
    <3>5. Cardinality(Having(n)') = Cardinality(Having(n)) + 1
      BY <2>7, <3>3, FS_AddElement
    <3> QED BY <2>7, <3>4, <3>5
  <2>9. CASE n # copy.name
    <3>1. Pending(n)' = Pending(n)
      BY <1>1, <2>5, <2>9 DEF Pending, OnlyJob
    <3>2. Having(n)' = Having(n)
      BY <2>2, <2>3, <2>4, <2>9 DEF Having
    <3> QED BY <2>7, <3>1, <3>2
  <2> QED BY <2>8, <2>9
<1> QED BY <1>2, <1>3 DEF insert

LEMMA ToldCounts ==
  ASSUME IsFiniteSet(Workers), AccountsInv, EachHasARow, NEW w \in Workers, lastInsertId(w)
  PROVE  EachHasARow'
<1> DEFINE name == job[w].copy.name
<1>1. job[w].pc = "lastInsertId" /\ rows' = rows /\ Types /\ Answer(w)
  BY DEF lastInsertId, AccountsInv
<1>2. OnlyJob(w) /\ job'[w] = Idle
  BY <1>1, Answered
<1>3. told' = [told EXCEPT ![name] = @ + 1] \/ told' = told
  BY DEF lastInsertId, Tell
<1>4. SUFFICES ASSUME NEW n \in Names
               PROVE  told'[n] + Cardinality(Pending(n)') <= Cardinality(Having(n)')
  BY DEF EachHasARow
<1>5. /\ told[n] \in Nat /\ told[n] + Cardinality(Pending(n)) <= Cardinality(Having(n))
      /\ IsFiniteSet(Pending(n)) /\ Cardinality(Pending(n)) \in Nat
      /\ IsFiniteSet(Having(n)) /\ Cardinality(Having(n)) \in Nat
  BY <1>1, FiniteSets DEF EachHasARow, Types
<1>6. Having(n)' = Having(n)
  BY <1>1 DEF Having
<1>7. CASE n = name
  <2>1. Pending(n)' = Pending(n) \ {w} /\ w \in Pending(n)
    BY <1>1, <1>2, <1>7, IdleFacts DEF Pending, OnlyJob
  <2>2. Cardinality(Pending(n)') = Cardinality(Pending(n)) - 1
    BY <1>5, <2>1, FS_RemoveElement
  <2>3. told'[n] \in {told[n], told[n] + 1}
    BY <1>1, <1>3, <1>7 DEF Types
  <2> QED BY <1>5, <1>6, <2>2, <2>3
<1>8. CASE n # name
  <2>1. Pending(n)' = Pending(n)
    BY <1>1, <1>2, <1>8, IdleFacts DEF Pending, OnlyJob
  <2>2. told'[n] = told[n]
    BY <1>1, <1>3, <1>8 DEF Types
  <2> QED BY <1>5, <1>6, <2>1, <2>2
<1> QED BY <1>7, <1>8

LEMMA CountsStep ==
  ASSUME IsFiniteSet(Workers), AccountsInv, EachHasARow, [Next]_vars
  PROVE  EachHasARow'
<1> USE DEF AccountsInv
<1>1. CASE UNCHANGED vars
  BY <1>1, NobodyTold DEF vars
<1>2. ASSUME NEW s \in Sessions, startSession(s)
      PROVE  EachHasARow'
  BY <1>2, NobodyTold DEF startSession
<1>3. ASSUME NEW w \in Workers, recvRequest(w) \/ Serve(w)
      PROVE  EachHasARow'
  <2>1. CASE insert(w)
    BY <2>1, InsertCounts
  <2>2. CASE lastInsertId(w)
    BY <2>2, ToldCounts
  <2>3. CASE update(w)
    <3>1. /\ Keeps(rows, rows') /\ DOMAIN rows' = DOMAIN rows
      BY <2>3, UpdatedRows
    <3>2. /\ job'[w] = Idle
          /\ \A v \in Workers \ {w} : job'[v].pc = job[v].pc /\ job'[v].copy = job[v].copy
      BY <2>3, <3>1, Watched DEF update
    <3>3. told' = told /\ job[w].pc = "update"
      BY <2>3 DEF update
    <3>4. \A i \in DOMAIN rows : rows'[i].name = rows[i].name
      BY <3>1 DEF Keeps
    <3> QED BY <3>1, <3>2, <3>3, <3>4, IdleFacts, NobodyTold
  <2>4. CASE recvRequest(w) \/ getUserByID(w) \/ getAuthLevel(w) \/ dispatch(w) \/ select(w)
             \/ verifyName(w) \/ verifyEmail(w)
    <3>1. rows' = rows /\ told' = told /\ job[w].pc # "lastInsertId"
      BY <2>4 DEF recvRequest, getUserByID, getAuthLevel, dispatch, select, verifyName, verifyEmail
    <3>2. job \in [Workers -> JobType]
      BY DEF Types
    <3>3. /\ \A v \in Workers \ {w} : job'[v] = job[v]
          /\ job'[w].pc # "lastInsertId"
      <4>1. CASE recvRequest(w)
        BY <3>2, <4>1, IdleFacts DEF recvRequest, JobType
      <4>2. CASE getUserByID(w) \/ getAuthLevel(w)
        BY <3>2, <4>2 DEF getUserByID, getAuthLevel, Goto, JobType
      <4>3. CASE dispatch(w)
        BY <3>2, <4>3, IdleFacts DEF dispatch, Goto, Answer, JobType
      <4>4. CASE select(w)
        <5>1. \/ job' = [job EXCEPT ![w] = Idle]
              \/ \E k : job' = [job EXCEPT ![w].pc = "update", ![w].copy = k]
          BY <4>4 DEF select, Answer
        <5> QED BY <3>2, <5>1, IdleFacts DEF JobType
      <4>5. CASE verifyName(w)
        BY <3>2, <4>5, IdleFacts DEF verifyName, Answer, JobType
      <4>6. CASE verifyEmail(w)
        BY <3>2, <4>6, IdleFacts DEF verifyEmail, Goto, Answer, JobType
      <4> QED BY <2>4, <4>1, <4>2, <4>3, <4>4, <4>5, <4>6
    <3> QED BY <3>1, <3>3, NobodyTold
  <2> QED BY <1>3, <2>1, <2>2, <2>3, <2>4 DEF Serve
<1> QED BY <1>1, <1>2, <1>3 DEF Next

LEMMA CountsInit == IsFiniteSet(Workers) /\ Init => EachHasARow
<1> SUFFICES ASSUME IsFiniteSet(Workers), Init, NEW n \in Names
             PROVE  told[n] + Cardinality(Pending(n)) <= Cardinality(Having(n))
  BY DEF EachHasARow
<1>1. Types
  BY InitInv DEF AccountsInv
<1>2. Cardinality(Having(n)) \in Nat
  BY <1>1, FiniteSets
<1>3. Pending(n) = {}
  BY IdleFacts DEF Init, Pending
<1>4. told[n] = 0 /\ Cardinality(Pending(n)) = 0
  BY <1>3, FS_EmptySet DEF Init
<1> QED BY <1>2, <1>4

(* Names are repeated only by registrations at the same time, and whoever  *)
(* was told that the registration succeeded has a row of its own; with any *)
(* finite number of workers, and failures of any statement.                *)
THEOREM RegistrationsAreSound ==
  ASSUME IsFiniteSet(Workers)
  PROVE  Spec => []RegistrationIsSound
<1>1. AccountsInv /\ EachHasARow => RegistrationIsSound
  <2> SUFFICES ASSUME AccountsInv, EachHasARow, NEW n \in Names
               PROVE  told[n] <= Cardinality(Having(n))
    BY DEF RegistrationIsSound, AccountsInv, Having
  <2>1. Types
    BY DEF AccountsInv
  <2>2. Cardinality(Pending(n)) \in Nat /\ Cardinality(Having(n)) \in Nat
    BY <2>1, FiniteSets
  <2> QED BY <2>1, <2>2 DEF Types, EachHasARow
<1>2. Init => EachHasARow
  BY CountsInit
<1>3. AccountsInv /\ EachHasARow /\ [Next]_vars => EachHasARow'
  BY CountsStep
<1> QED BY <1>1, <1>2, <1>3, Invariant, PTL DEF Spec

=============================================================================

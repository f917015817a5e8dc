------------------------------ MODULE Accounts ------------------------------
(***************************************************************************)
(* Accounts in LiBrotherServer: logging in and out, registration, levels,  *)
(* passwords and the users' data (CSession::recvRequest with CManager and  *)
(* CUser).                                                                 *)
(*                                                                         *)
(* A worker serves one request of a session, whose mutex CSessionManager   *)
(* holds meanwhile, as a series of separate SQL statements: it refreshes   *)
(* the session's level, checks it, SELECTs the user's row, and UPDATEs or  *)
(* INSERTs by that copy.  One action below is one statement with the code  *)
(* up to the next; the workers interleave in between.                      *)
(*                                                                         *)
(* Borrowing is in module Circulation, read levels (whose statements are   *)
(* not valid SQL and always fail) only make requests fail.                 *)
(***************************************************************************)
EXTENDS Integers, Sequences, FiniteSets

CONSTANTS
  Workers,      \* the worker threads of CNetServer
  Sessions,     \* the sessions
  Commands,     \* the requests the clients may send
  FirstRows,    \* UserInfoDatabase at the start
  ValidEmails,  \* the e-mail addresses that check() accepts
  Digits,       \* Digits[n]: the id that is written like the name n
  MaxRequests,  \* bound: requests of all sessions
  Faulty        \* the statements (values of job[w].pc) that may throw SQLException

VARIABLES
  rows,   \* UserInfoDatabase: rows[id]
  sess,   \* sess[s]: user_id and current_auth_level
  job,    \* job[w]: what worker w does
  served, \* the requests received so far
  told    \* history: told[n], the registrations of n answered with success

vars == <<rows, sess, job, served, told>>

(* A password is kept as its bcrypt hash, which no password equals; one    *)
(* that was never set is an empty string, which verifies with nothing.     *)
Hash(pwd) == <<"bcrypt", pwd>>
NoPassword == <<"empty">>

(* The string that is left where nothing is set.                           *)
Empty == ""

Cmds == {"authmanager_Login", "authmanager_Logout", "authmanager_Register",
         "authmanager_changePassword", "authmanager_getAuthLevel",
         "authmanager_getCurrentUser", "usermanager_insertUser",
         "usermanager_getUserByName", "user_getBasicInfo", "user_setBasicInfo",
         "user_setPassword", "user_getAuthLevel", "user_setAuthLevel",
         "user_deleteUser"}

Names  == ({c.name : c \in Commands} \union {FirstRows[i].name : i \in DOMAIN FirstRows})
            \ {Empty}
Passwords == {NoPassword} \union {Hash(c.pwd) : c \in Commands}
               \union {FirstRows[i].password : i \in DOMAIN FirstRows}
Levels == {c.level : c \in Commands} \union {0}
            \union {FirstRows[i].level : i \in DOMAIN FirstRows}

(* after: history, the rows there were when the name was looked up.        *)
Row == [name : Names, email : ValidEmails, password : Passwords, level : Levels, after : Nat]

ASSUME AccountsAssumption ==
  /\ Sessions # {} /\ Commands # {}
  /\ FirstRows \in Seq(Row)
  /\ \A i, j \in DOMAIN FirstRows :
       i < j => FirstRows[i].name # FirstRows[j].name
  /\ Commands \subseteq [cmd : Cmds, id : Nat, name : STRING, email : STRING,
                         pwd : STRING, old : STRING, level : Int]
  /\ MaxRequests \in Nat

NoUser == [id |-> 0, name |-> Empty, email |-> Empty, password |-> NoPassword]

(* What a worker does: the statement it executes next (pc), the request    *)
(* (the session and the command), the CUser object, and for the properties *)
(* the levels its user has had since the request came, and whether         *)
(* refreshing the level has failed.                                        *)
Idle == [pc |-> "idle", sess |-> CHOOSE s \in Sessions : TRUE,
         c |-> CHOOSE c \in Commands : TRUE, copy |-> NoUser, seen |-> {}, stale |-> FALSE]

(* user_id is 0, current_auth_level whatever was in memory: no request of  *)
(* this module looks at it before a login.                                 *)
NewSession == [user_id |-> 0, level |-> -1]

Init ==
  /\ rows = FirstRows
  /\ sess = [s \in Sessions |-> NewSession]
  /\ job  = [w \in Workers |-> Idle]
  /\ served = 0
  /\ told = [n \in Names |-> 0]

-----------------------------------------------------------------------------
(* Sessions *)

Busy(s) == \E w \in Workers : job[w].pc # "idle" /\ job[w].sess = s

Goto(w, pc) == job' = [job EXCEPT ![w].pc = pc]
Answer(w) == job' = [job EXCEPT ![w] = Idle]

(* A session that has expired is replaced by a new one.                    *)
startSession(s) ==
  /\ ~Busy(s) /\ sess[s].user_id # 0
  /\ sess' = [sess EXCEPT ![s] = NewSession]
  /\ UNCHANGED <<rows, job, served, told>>

(* Wrong on purpose: the level is refreshed only when it is not known.     *)
recvRequestCached(w) ==
  /\ job[w].pc = "idle" /\ served < MaxRequests
  /\ served' = served + 1
  /\ \E s \in Sessions, c \in Commands :
       LET u == sess[s].user_id IN
       /\ ~Busy(s)
       /\ job' = [job EXCEPT ![w] =
            [Idle EXCEPT !.sess = s, !.c = c,
                         !.pc = IF u # 0 /\ sess[s].level = -1 THEN "getUserByID" ELSE "dispatch",
                         !.seen = IF u = 0 THEN {} ELSE {rows[u].level}]]
  /\ UNCHANGED <<rows, sess, told>>

(* A request comes in; that of a user refreshes the session's level first. *)
recvRequest(w) ==
  /\ job[w].pc = "idle" /\ served < MaxRequests
  /\ served' = served + 1
  /\ \E s \in Sessions, c \in Commands :
       LET u == sess[s].user_id IN
       /\ ~Busy(s)
       /\ job' = [job EXCEPT ![w] =
            [Idle EXCEPT !.sess = s, !.c = c,
                         !.pc = IF u # 0 THEN "getUserByID" ELSE "dispatch",
                         !.seen = IF u = 0 THEN {} ELSE {rows[u].level}]]
  /\ UNCHANGED <<rows, sess, told>>

(* getCurrentAuthLevel, its first statement: if it fails the old level     *)
(* stays.                                                                  *)
getUserByID(w) ==
  /\ job[w].pc = "getUserByID"
  /\ \/ Goto(w, "getAuthLevel")
     \/ /\ "getUserByID" \in Faulty
        /\ job' = [job EXCEPT ![w].pc = "dispatch", ![w].stale = TRUE]
  /\ UNCHANGED <<rows, sess, served, told>>

(* Its second: CUser::getAuthLevel answers false, that is 0, if it fails.  *)
getAuthLevel(w) ==
  LET s == job[w].sess IN
  /\ job[w].pc = "getAuthLevel"
  /\ \/ sess' = [sess EXCEPT ![s].level = rows[sess[s].user_id].level]
     \/ "getAuthLevel" \in Faulty /\ sess' = [sess EXCEPT ![s].level = 0]
  /\ Goto(w, "dispatch")
  /\ UNCHANGED <<rows, served, told>>

-----------------------------------------------------------------------------
(* The dispatcher *)

AllRights == {"auth_GetUserInfo", "auth_SetUserInfo", "auth_InsertUser",
              "auth_SetAuthLevel"}

(* What vAuthList[level] may give, of the rights asked for here: none but  *)
(* on level 2; beyond its end whatever is in memory.  (The read beyond the *)
(* end may also end the program, which module Catalogue is about.)         *)
vAuthList(level) ==
  CASE level \in 0 .. 1 -> {{}}
    [] level = 2 -> {AllRights}
    [] OTHER -> SUBSET AllRights

(* What each command asks of the user u with the rights auth.              *)
Permitted(c, u, auth) ==
  CASE c.cmd \in {"user_getBasicInfo", "user_getAuthLevel"} ->
         u # 0 /\ (c.id = u \/ "auth_GetUserInfo" \in auth)
    [] c.cmd = "user_setBasicInfo" -> u # 0 /\ (c.id = u \/ "auth_SetUserInfo" \in auth)
    [] c.cmd = "user_setAuthLevel" -> u # 0 /\ "auth_SetAuthLevel" \in auth
    [] c.cmd = "usermanager_getUserByName" -> "auth_GetUserInfo" \in auth
    [] c.cmd = "usermanager_insertUser" -> "auth_InsertUser" \in auth
    [] OTHER -> TRUE

(* The new CUser of Register and insertUser.  setBasicInfo refuses what is *)
(* not valid, and nobody looks at its result; insertUser leaves num        *)
(* uninitialised, which may be invalid too, and sets no password.          *)
NewUsers(c) ==
  LET user == [id |-> 0, name |-> c.name, email |-> c.email,
               password |-> IF c.cmd = "authmanager_Register" THEN Hash(c.pwd)
                            ELSE NoPassword]
      empty == [user EXCEPT !.name = Empty, !.email = Empty] IN
  IF c.name = Empty \/ c.email \notin ValidEmails THEN {empty}
  ELSE IF c.cmd = "authmanager_Register" THEN {user} ELSE {user, empty}

dispatch(w) ==
  LET s == job[w].sess
      c == job[w].c
      u == sess[s].user_id IN
  /\ job[w].pc = "dispatch"
  /\ \E auth \in IF u = 0 THEN {{}} ELSE vAuthList(sess[s].level) :
       IF ~Permitted(c, u, auth)
       THEN Answer(w) /\ UNCHANGED sess
       ELSE CASE c.cmd = "authmanager_Logout" ->
                   Answer(w) /\ sess' = [sess EXCEPT ![s].user_id = 0]
              [] c.cmd \in {"authmanager_Register", "usermanager_insertUser"} ->
                   /\ \E n \in NewUsers(c) :
                        job' = [job EXCEPT ![w].pc = "verifyName", ![w].copy = n]
                   /\ UNCHANGED sess
              [] OTHER -> Goto(w, "select") /\ UNCHANGED sess
  /\ UNCHANGED <<rows, served, told>>

-----------------------------------------------------------------------------
(* SELECT of a user's row *)

(* getUserByName: an '@' makes it an e-mail address, digits alone an id;   *)
(* of several rows any may come first.                                     *)
Found(c) ==
  LET Ids == DOMAIN rows
      key == c.name IN
  IF c.cmd \notin {"authmanager_Login", "usermanager_getUserByName"}
  THEN {i \in Ids : i = c.id}
  ELSE IF key \in ValidEmails THEN {i \in Ids : rows[i].email = key}
  ELSE IF key \in DOMAIN Digits THEN {i \in Ids : i = Digits[key]}
  ELSE {i \in Ids : rows[i].name = key}

CopyOf(i) == [id |-> i, name |-> rows[i].name, email |-> rows[i].email,
              password |-> rows[i].password]

(* Wrong on purpose: a password that is not set verifies with all.         *)
verifyPasswordOrNone(user, pwd) == user.password \in {Hash(pwd), NoPassword}

verifyPassword(user, pwd) == user.password = Hash(pwd)

(* What follows needs another statement: UPDATE, DELETE or getAuthLevel.   *)
GoesOn(c, user) ==
  \/ c.cmd = "user_setBasicInfo" /\ c.email \in ValidEmails
  \/ c.cmd = "authmanager_changePassword" /\ verifyPassword(user, c.old)
  \/ c.cmd \in {"user_setPassword", "user_setAuthLevel", "user_deleteUser",
                "user_getAuthLevel", "authmanager_getAuthLevel"}

(* The row is read.  Login then compares the password of the copy, and the *)
(* session belongs to the user.                                            *)
select(w) ==
  LET s == job[w].sess
      c == job[w].c IN
  /\ job[w].pc = "select"
  /\ \/ \E i \in Found(c) :
          /\ sess' = IF c.cmd = "authmanager_Login" /\ verifyPassword(CopyOf(i), c.pwd)
                     THEN [sess EXCEPT ![s].user_id = i] ELSE sess
          /\ IF GoesOn(c, CopyOf(i))
             THEN job' = [job EXCEPT ![w].pc = "update", ![w].copy = CopyOf(i)]
             ELSE Answer(w)
     \/ /\ Found(c) = {} \/ "select" \in Faulty
        /\ Answer(w) /\ UNCHANGED sess
  /\ UNCHANGED <<rows, served, told>>

(* The request is answered; the others' users may have got a new level.    *)
AnswerAndWatch(w) ==
  job' = [v \in Workers |->
            LET u == sess[job[v].sess].user_id IN
            IF v = w THEN Idle
            ELSE IF job[v].pc = "idle" \/ u = 0 THEN job[v]
            ELSE [job[v] EXCEPT !.seen = @ \union {rows'[u].level}]]

(* The UPDATE by the copy's id; setBasicInfo writes the copied name back.  *)
(* deleteUser names a table that does not exist, and its failure is not    *)
(* noticed; getAuthLevel only reads.                                       *)
update(w) ==
  LET c    == job[w].c
      copy == job[w].copy IN
  /\ job[w].pc = "update"
  /\ \/ /\ c.cmd = "user_setBasicInfo"
        /\ rows' = [rows EXCEPT ![copy.id].name = copy.name, ![copy.id].email = c.email]
     \/ /\ c.cmd \in {"user_setPassword", "authmanager_changePassword"}
        /\ rows' = [rows EXCEPT ![copy.id].password = Hash(c.pwd)]
     \/ /\ c.cmd = "user_setAuthLevel"
        /\ rows' = [rows EXCEPT ![copy.id].level = c.level]
     \/ /\ \/ c.cmd \in {"user_deleteUser", "user_getAuthLevel", "authmanager_getAuthLevel"}
           \/ "update" \in Faulty
        /\ UNCHANGED rows
  /\ AnswerAndWatch(w)
  /\ UNCHANGED <<sess, served, told>>

-----------------------------------------------------------------------------
(* CManager::insertUser *)

(* Wrong on purpose: a name that is taken is not noticed.                  *)
verifyNameNot(w) ==
  /\ job[w].pc = "verifyName"
  /\ job' = [job EXCEPT ![w].pc = "verifyEmail", ![w].copy.id = Len(rows)]
  /\ UNCHANGED <<rows, sess, served, told>>

(* verify: both statements are executed, whatever the first one finds; the *)
(* copy's id, not used yet, notes how many rows it has seen.               *)
verifyName(w) ==
  LET taken == \E i \in DOMAIN rows : rows[i].name = job[w].copy.name IN
  /\ job[w].pc = "verifyName"
  /\ \/ job' = [job EXCEPT ![w].pc = IF taken THEN "verifyVain" ELSE "verifyEmail",
                            ![w].copy.id = Len(rows)]
     \/ "verifyName" \in Faulty /\ Answer(w)
  /\ UNCHANGED <<rows, sess, served, told>>

verifyEmail(w) ==
  LET taken == \E i \in DOMAIN rows : rows[i].email = job[w].copy.email IN
  /\ job[w].pc \in {"verifyEmail", "verifyVain"}
  /\ \/ job[w].pc = "verifyEmail" /\ ~taken /\ Goto(w, "insert")
     \/ (job[w].pc = "verifyVain" \/ taken \/ "verifyEmail" \in Faulty) /\ Answer(w)
  /\ UNCHANGED <<rows, sess, served, told>>

Tell(name) == told' = [told EXCEPT ![name] = @ + 1]

(* CUser::insert refuses an empty user, or inserts a row with the default  *)
(* level.                                                                  *)
insert(w) ==
  LET copy == job[w].copy IN
  /\ job[w].pc = "insert"
  /\ \/ /\ copy.name = Empty \/ "insert" \in Faulty
        /\ Answer(w) /\ UNCHANGED rows
     \/ /\ copy.name # Empty
        /\ rows' = Append(rows, [name |-> copy.name, email |-> copy.email,
                                 password |-> copy.password, level |-> 0,
                                 after |-> copy.id])
        /\ Goto(w, "lastInsertId")
  /\ UNCHANGED <<sess, served, told>>

(* SELECT LAST_INSERT_ID(): if it fails a failure is answered, with the    *)
(* row inserted.                                                           *)
lastInsertId(w) ==
  /\ job[w].pc = "lastInsertId"
  /\ \/ Tell(job[w].copy.name)
     \/ "lastInsertId" \in Faulty /\ UNCHANGED told
  /\ Answer(w)
  /\ UNCHANGED <<rows, sess, served>>

-----------------------------------------------------------------------------
Serve(w) == \/ getUserByID(w) \/ getAuthLevel(w) \/ dispatch(w)
            \/ select(w) \/ update(w)
            \/ verifyName(w) \/ verifyEmail(w) \/ insert(w) \/ lastInsertId(w)

Next == \/ \E w \in Workers : recvRequest(w) \/ Serve(w)
        \/ \E s \in Sessions : startSession(s)

Spec == Init /\ [][Next]_vars

-----------------------------------------------------------------------------
PCs == {"idle", "getUserByID", "getAuthLevel", "dispatch", "select", "update",
        "verifyName", "verifyEmail", "verifyVain", "insert", "lastInsertId"}

JobType == [pc : PCs, sess : Sessions, c : Commands, seen : SUBSET Levels, stale : BOOLEAN,
            copy : [id : Nat, name : Names \union {Empty}, email : ValidEmails \union {Empty},
                    password : Passwords]]

TypeOK ==
  /\ rows \in Seq(Row)
  /\ sess \in [Sessions -> [user_id : Nat, level : Levels \union {-1}]]
  /\ \A s \in Sessions : sess[s].user_id \in {0} \union DOMAIN rows
  /\ job \in [Workers -> JobType]
  /\ \A w \in Workers : job[w].pc = "update" => job[w].copy.id \in DOMAIN rows
  /\ served \in 0 .. MaxRequests
  /\ told \in [Names -> Nat]

(* Two rows have the same name only if they were registered at the same    *)
(* time: when the later one's name was looked up the earlier row was not   *)
(* there yet.  In particular a single worker keeps the names distinct.     *)
RepeatedOnlyIfConcurrent ==
  \A i, j \in DOMAIN rows : i < j /\ rows[i].name = rows[j].name => rows[j].after < i

(* The checks of insertUser, its INSERT and its answer are statements of   *)
(* their own, and yet: a name is repeated only by concurrent registrations *)
(* and every registration answered with success has a row of its own.      *)
RegistrationIsSound ==
  /\ RepeatedOnlyIfConcurrent
  /\ \A n \in Names : told[n] <= Cardinality({i \in DOMAIN rows : rows[i].name = n})

(* A session gets a new user only by a login with the password in that     *)
(* user's row; so a user who was inserted without one can never log in     *)
(* before a password is set.                                               *)
LoginNeedsPassword ==
  [][\A s \in Sessions : sess'[s].user_id \notin {0, sess[s].user_id} =>
       \E w \in Workers :
         /\ job[w].pc = "select" /\ job'[w].pc = "idle" /\ job[w].sess = s
         /\ rows[sess'[s].user_id].password = Hash(job[w].c.pwd)]_vars

(* What the code's check comes to.  The level of i is changed only by a    *)
(* setAuthLevel of i, whose user has had a level with the right to it at   *)
(* some time since the request came (a level beyond the table gives rights *)
(* at random), unless refreshing the level failed and an older one was     *)
(* used: though other statements come between the refresh, the check and   *)
(* the UPDATE.  Whose level it is and how high is not checked, see below.  *)
HadTheRight(w) == job[w].stale \/ \E l \in job[w].seen : l \notin 0 .. 1
SetsLevelOf(w, i) == job[w].c.cmd = "user_setAuthLevel" /\ job[w].c.id = i
RightsAreCurrent ==
  [][\A i \in DOMAIN rows : rows'[i].level # rows[i].level =>
       \E w \in Workers : /\ job[w].pc = "update" /\ job'[w].pc = "idle"
                          /\ SetsLevelOf(w, i) /\ HadTheRight(w)]_vars

(* What common_types.h says of auth_SetAuthLevel: nobody changes his own   *)
(* level, nor that of a user whose level is higher.  The code checks       *)
(* neither, so this does not hold.                                         *)
LevelsAreSetBelow ==
  [][\A i \in DOMAIN rows : rows'[i].level # rows[i].level =>
       \E w \in Workers :
         LET u == sess[job[w].sess].user_id IN
         /\ job[w].pc = "update" /\ job'[w].pc = "idle" /\ SetsLevelOf(w, i)
         /\ u \notin {0, i} /\ rows[i].level <= rows[u].level]_vars
=============================================================================

--------------------------- MODULE ClientObjects ---------------------------
(***************************************************************************)
(* The objects of LiBrotherClientBackend: CUser, CBook, CAuthManager and   *)
(* the managers that make them, in one client of the server.               *)
(*                                                                         *)
(* A CUser and a CBook cache what they have read of their row and what     *)
(* they are told to write; CAuthManager keeps the user that has logged in  *)
(* as m_pCurrentUser.  The server knows the user of the client's session,  *)
(* which it forgets when the session expires: sendRequest then starts a    *)
(* new one unnoticed.  The user interface calls one method at a time, and  *)
(* every method sends at most one request, but Login two.                  *)
(*                                                                         *)
(* A request is refused, or executed; or sendRequest fails, and then it    *)
(* may have been executed or not (module NetClient, whose client may also  *)
(* take a left-over answer for its own: that is left out here).            *)
(***************************************************************************)
EXTENDS Integers, FiniteSets

CONSTANTS
  Users, Books,  \* the rows of the two tables, by their ids (not 0)
  Taken, Kept,   \* the parts of a basic info: see Infos; Taken[i] ...
  NoInfo,        \* no info
  Levels,        \* Levels[u]: the authorisation levels u may have
  Objects,       \* bound: the objects the client can make
  NoObject,      \* a null pointer
  MaxHeld,       \* bound: references the user interface holds to an object
  MaxOthers      \* bound: changes of rows by other clients

Ids == Users \union Books

(* What the basic info of row i may be.  Of an info that a client sends    *)
(* the server takes a part (gender and email of a user; count, name,       *)
(* publisher, author and isbn of a book); the rest (name and num; bcount)  *)
(* it keeps as it has it.                                                  *)
Infos == [i \in Ids |-> [taken : Taken[i], kept : Kept[i]]]

AllInfos  == UNION {Infos[i] : i \in Ids}
AllLevels == UNION {Levels[u] : u \in Users}

(* A CUser or CBook: m_nID or id (0 for one made by createEmpty...), the   *)
(* cached info and level (-1: none), the reference count; and for the      *)
(* properties whether since they were cached someone else has changed the  *)
(* level or the taken part of the row, or the object's own request failed. *)
ObjectType == [id : Ids \union {0}, info : AllInfos \union {NoInfo},
               level : AllLevels \union {-1}, m_nRefCount : Nat,
               oldInfo : BOOLEAN, oldLevel : BOOLEAN]

ASSUME ClientAssumption ==
  /\ 0 \notin Ids /\ Users \intersect Books = {}
  /\ \A i \in Ids : Taken[i] # {} /\ Kept[i] # {} /\ NoInfo \notin Infos[i]
  /\ \A u \in Users : Levels[u] # {} /\ Levels[u] \subseteq Nat
  /\ NoObject \notin Objects \union ObjectType
  /\ MaxHeld \in Nat \ {0} /\ MaxOthers \in Nat

VARIABLES
  row,      \* server: row[i], the basic info of user or book i
  level,    \* server: level[u]
  session,  \* server: the user_id of the client's session, 0 for nobody
  obj,      \* obj[o]: the object, or NoObject where there is none
  held,     \* held[o]: references the user interface holds
  current,  \* m_pCurrentUser
  login,    \* the user Login still has to log in after Logout, or 0
  others,   \* how often others have changed a row
  astray,   \* history: the session expired, or a Login or Logout went unheard
  lost      \* history: objects that Login forgot after a Logout that failed

vars == <<row, level, session, obj, held, current, login, others, astray, lost>>
server == <<row, level, session>>

(* An object that has just been made.                                      *)
Object(id, info) == [id |-> id, info |-> info, level |-> -1, m_nRefCount |-> 1,
                     oldInfo |-> FALSE, oldLevel |-> FALSE]

(* What the info and the level of an object with this id may be.           *)
InfosOf(id)  == IF id = 0 THEN AllInfos ELSE Infos[id]
LevelsOf(id) == IF id \in Users THEN Levels[id] ELSE {}

There == {o \in Objects : obj[o] # NoObject}

Init ==
  /\ row = [i \in Ids |-> CHOOSE info \in Infos[i] : TRUE]
  /\ level = [u \in Users |-> CHOOSE l \in Levels[u] : TRUE]
  /\ session = 0
  /\ obj = [o \in Objects |-> NoObject] /\ held = [o \in Objects |-> 0]
  /\ current = NoObject /\ login = 0
  /\ others = 0 /\ astray = FALSE /\ lost = {}

-----------------------------------------------------------------------------
(* Requests *)

(* What becomes of one: "ok", answered with result 1; "no", answered       *)
(* otherwise; "unsent" and "unheard", sendRequest answers false.           *)
Fates == {"ok", "no", "unsent", "unheard"}
Executed(fate) == fate \in {"ok", "unheard"}

(* The server serves most commands only when somebody has logged in.       *)
May(fate) == Executed(fate) => session # 0

(* The user interface may call a method of an object it holds; it waits    *)
(* while Login is under way.                                               *)
Calls(o) == login = 0 /\ held[o] > 0

(* The row of i is changed through object by (NoObject: by another         *)
(* client); the infos or levels the others have cached of it are old.      *)
NewInfo(objs, i, by) ==
  [p \in Objects |-> IF p # by /\ objs[p] # NoObject /\ objs[p].id = i
                     THEN [objs[p] EXCEPT !.oldInfo = TRUE] ELSE objs[p]]
NewLevel(objs, i, by) ==
  [p \in Objects |-> IF p # by /\ objs[p] # NoObject /\ objs[p].id = i
                     THEN [objs[p] EXCEPT !.oldLevel = TRUE] ELSE objs[p]]

-----------------------------------------------------------------------------
(* IMPLEMENT_INTERFACE and the factories *)

(* A new object, with the reference its maker hands out.                   *)
Make(id, info) ==
  \E o \in Objects \ There :
    /\ obj'  = [obj EXCEPT ![o] = Object(id, info)]
    /\ held' = [held EXCEPT ![o] = 1]

AddRef(o)  == obj' = [obj EXCEPT ![o].m_nRefCount = @ + 1]

Released(o) ==
  LET n == obj[o].m_nRefCount IN
  obj' = [obj EXCEPT ![o] = IF n <= 1 THEN NoObject
                            ELSE [obj[o] EXCEPT !.m_nRefCount = n - 1]]

Release(o) ==
  /\ Calls(o)
  /\ held' = [held EXCEPT ![o] = @ - 1]
  /\ Released(o)
  /\ UNCHANGED <<server, current, login, others, astray, lost>>

(* createEmptyUser, createEmptyBook.                                       *)
createEmpty ==
  /\ login = 0
  /\ Make(0, NoInfo)
  /\ UNCHANGED <<server, current, login, others, astray, lost>>

(* What a CUser takes the answer for: the user's name is in it, book_num   *)
(* is not, and is 0 to the client.                                         *)
UserAnswers(u) == {info \in Infos[u] : info.taken = row[u].taken}

(* CUserManager::getUserByID: a CUser that reads its info, and is deleted  *)
(* again if it cannot.                                                     *)
getUserByID(u) ==
  /\ login = 0 /\ session # 0
  /\ \E info \in UserAnswers(u) : Make(u, info)
  /\ UNCHANGED <<server, current, login, others, astray, lost>>

(* getUserByName drops the info that the answer holds.                     *)
getUserByName(u) ==
  /\ login = 0 /\ session # 0
  /\ Make(u, NoInfo)
  /\ UNCHANGED <<server, current, login, others, astray, lost>>

(* CLibrary::queryById, queryByISBN, and each book of queryByName.         *)
queryBook(b) ==
  /\ login = 0
  /\ Make(b, row[b])
  /\ UNCHANGED <<server, current, login, others, astray, lost>>

-----------------------------------------------------------------------------
(* CUser and CBook *)

(* CUser::getBasicInfo asks the server only once; CBook's never does.      *)
getBasicInfo(o) ==
  /\ Calls(o) /\ obj[o].id \in Users /\ obj[o].info = NoInfo
  /\ session # 0
  /\ \E info \in UserAnswers(obj[o].id) :
       obj' = [obj EXCEPT ![o].info = info, ![o].oldInfo = FALSE]
  /\ UNCHANGED <<server, held, current, login, others, astray, lost>>

(* setBasicInfo caches all of the info before it sends the request, and    *)
(* leaves it so when that fails; the server writes the part it takes.  An  *)
(* object without id only keeps the info.                                  *)
setBasicInfo(o, info, fate) ==
  LET i == obj[o].id IN
  /\ Calls(o) /\ May(fate)
  /\ IF i = 0
     THEN /\ fate = "ok"
          /\ obj' = [obj EXCEPT ![o].info = info]
          /\ UNCHANGED row
     ELSE /\ row' = [row EXCEPT ![i].taken = IF Executed(fate) THEN info.taken ELSE @]
          /\ obj' = NewInfo([obj EXCEPT ![o].info = info, ![o].oldInfo = ~Executed(fate)],
                            IF Executed(fate) THEN i ELSE 0, o)
  /\ UNCHANGED <<level, session, held, current, login, others, astray, lost>>

(* Wrong on purpose: the level of the user who has logged in.              *)
getAuthLevelOwn(o) ==
  /\ Calls(o) /\ obj[o].id \in Users /\ obj[o].level = -1
  /\ session # 0
  /\ obj' = [obj EXCEPT ![o].level = level[session], ![o].oldLevel = FALSE]
  /\ UNCHANGED <<server, held, current, login, others, astray, lost>>

(* CUser::getAuthLevel, also by CAuthManager::getAuthLevel for the current *)
(* user, asks only once.                                                   *)
getAuthLevel(o) ==
  /\ login = 0 /\ (held[o] > 0 \/ o = current)
  /\ obj[o].id \in Users /\ obj[o].level = -1
  /\ session # 0
  /\ obj' = [obj EXCEPT ![o].level = level[obj[o].id], ![o].oldLevel = FALSE]
  /\ UNCHANGED <<server, held, current, login, others, astray, lost>>

(* setAuthLevel caches the level only when the server has taken it.        *)
setAuthLevel(o, l, fate) ==
  LET u == obj[o].id IN
  /\ Calls(o) /\ u \in Users /\ May(fate)
  /\ level' = [level EXCEPT ![u] = IF Executed(fate) THEN l ELSE @]
  /\ obj' = NewLevel([obj EXCEPT ![o].level = IF fate = "ok" THEN l ELSE @,
                                 ![o].oldLevel = fate # "ok" /\ (@ \/ fate = "unheard")],
                     IF Executed(fate) THEN u ELSE 0, o)
  /\ UNCHANGED <<row, session, held, current, login, others, astray, lost>>

-----------------------------------------------------------------------------
(* CAuthManager *)

(* Wrong on purpose: the reference handed out is not counted.              *)
getCurrentUserUncounted ==
  /\ login = 0 /\ current # NoObject
  /\ held[current] < MaxHeld
  /\ held' = [held EXCEPT ![current] = @ + 1]
  /\ UNCHANGED <<server, obj, current, login, others, astray, lost>>

getCurrentUser ==
  /\ login = 0 /\ current # NoObject
  /\ held[current] < MaxHeld
  /\ AddRef(current)
  /\ held' = [held EXCEPT ![current] = @ + 1]
  /\ UNCHANGED <<server, current, login, others, astray, lost>>

(* Wrong on purpose: the client is logged out whatever the server says.    *)
LogoutAnyway(fate) ==
  /\ fate # "no"
  /\ session' = IF Executed(fate) THEN 0 ELSE session
  /\ Released(current)
  /\ current' = NoObject
  /\ astray' = (astray /\ fate # "ok")

(* The request of Logout, which the server never refuses.                  *)
LogoutRequest(fate) ==
  /\ fate # "no"
  /\ session' = IF Executed(fate) THEN 0 ELSE session
  /\ IF fate = "ok"
     THEN Released(current) /\ current' = NoObject /\ astray' = FALSE
     ELSE UNCHANGED <<obj, current>> /\ astray' = (astray \/ fate = "unheard")

Logout(fate) ==
  /\ login = 0 /\ current # NoObject
  /\ LogoutRequest(fate)
  /\ UNCHANGED <<row, level, held, login, others, lost>>

(* Login logs out first if m_pCurrentUser is there, whatever comes of it.  *)
LoginFirst(u, fate) ==
  /\ login = 0 /\ current # NoObject
  /\ LogoutRequest(fate)
  /\ login' = u
  /\ UNCHANGED <<row, level, held, others, lost>>

(* The request of Login.  The new CUser takes the place of the old one,    *)
(* which is never released if Logout has failed.                           *)
Login(u, fate) ==
  /\ login = u \/ (login = 0 /\ current = NoObject)
  /\ Objects # There
  /\ login' = 0
  /\ session' = IF Executed(fate) THEN u ELSE session
  /\ IF fate = "ok"
     THEN /\ \E o \in Objects \ There :
               obj' = [obj EXCEPT ![o] = Object(u, NoInfo)] /\ current' = o
          /\ lost' = IF current = NoObject THEN lost ELSE lost \union {current}
          /\ astray' = FALSE
     ELSE /\ UNCHANGED <<obj, current, lost>>
          /\ astray' = (astray \/ fate = "unheard")
  /\ UNCHANGED <<row, level, held, others>>

-----------------------------------------------------------------------------
(* The server forgets the session, and the next request starts a new one.  *)
Expire ==
  /\ session # 0
  /\ session' = 0 /\ astray' = TRUE
  /\ UNCHANGED <<row, level, obj, held, current, login, others, lost>>

(* The server changes what it keeps of a row: a book is borrowed or        *)
(* returned, by this client or another.                                    *)
Keeps ==
  /\ \E i \in Ids : \E k \in Kept[i] : row' = [row EXCEPT ![i].kept = k]
  /\ UNCHANGED <<level, session, obj, held, current, login, others, astray, lost>>

(* Another client changes a row.                                           *)
Other ==
  /\ others < MaxOthers
  /\ others' = others + 1
  /\ \/ \E i \in Ids : \E t \in Taken[i] :
          /\ row' = [row EXCEPT ![i].taken = t] /\ obj' = NewInfo(obj, i, NoObject)
          /\ UNCHANGED level
     \/ \E u \in Users : \E l \in Levels[u] :
          /\ level' = [level EXCEPT ![u] = l] /\ obj' = NewLevel(obj, u, NoObject)
          /\ UNCHANGED row
  /\ UNCHANGED <<session, held, current, login, astray, lost>>

Next ==
  \/ createEmpty \/ getCurrentUser \/ Expire \/ Keeps \/ Other
  \/ \E u \in Users : getUserByID(u) \/ getUserByName(u)
  \/ \E b \in Books : queryBook(b)
  \/ \E o \in There : Release(o) \/ getBasicInfo(o) \/ getAuthLevel(o)
  \/ \E o \in There, fate \in Fates :
       \/ \E info \in InfosOf(obj[o].id) : setBasicInfo(o, info, fate)
       \/ \E l \in LevelsOf(obj[o].id) : setAuthLevel(o, l, fate)
  \/ \E fate \in Fates : Logout(fate)
  \/ \E u \in Users, fate \in Fates : LoginFirst(u, fate) \/ Login(u, fate)

Spec == Init /\ [][Next]_vars

-----------------------------------------------------------------------------
TypeOK ==
  /\ row \in [Ids -> AllInfos] /\ \A i \in Ids : row[i] \in Infos[i]
  /\ level \in [Users -> AllLevels] /\ \A u \in Users : level[u] \in Levels[u]
  /\ session \in Users \union {0} /\ login \in Users \union {0}
  /\ obj \in [Objects -> ObjectType \union {NoObject}]
  /\ \A o \in There :
       /\ obj[o].info \in InfosOf(obj[o].id) \union {NoInfo}
       /\ obj[o].level \in LevelsOf(obj[o].id) \union {-1}
       /\ obj[o].m_nRefCount \in 1 .. MaxHeld + 1
  /\ held \in [Objects -> 0 .. MaxHeld]
  /\ current \in Objects \union {NoObject} /\ others \in 0 .. MaxOthers
  /\ astray \in BOOLEAN /\ lost \subseteq Objects

(* What the client believes is what the server does: the user who is       *)
(* logged in is the user of the session, unless since the last Login or    *)
(* Logout that succeeded the session has expired or one of them went       *)
(* unheard.                                                                *)
BeliefIsRight ==
  ~astray => session = IF current = NoObject THEN 0 ELSE obj[current].id

(* An object lives as long as somebody refers to it: none is used after it *)
(* has been deleted, and none is left over, but for the user that Login    *)
(* forgets after a Logout that failed.                                     *)
LivesWhileReferred ==
  /\ \A o \in Objects : held[o] > 0 \/ o = current => o \in There
  /\ \A o \in There :
       obj[o].m_nRefCount = held[o] + (IF o = current THEN 1 ELSE 0)
                                    + (IF o \in lost THEN 1 ELSE 0)

(* Of a cached info the part that setBasicInfo can change, and a cached    *)
(* level, differ from the row only if another object or client has changed *)
(* it since, the object's own setBasicInfo has not been executed, or the   *)
(* answer to its own setAuthLevel was not heard.  (Of the rest nothing is  *)
(* promised: the server drops the name and num a CUser caches and never    *)
(* sends num with the info, and bcount changes with every borrowing.)      *)
CachesAreFresh ==
  \A o \in There :
    /\ obj[o].id # 0 /\ obj[o].info # NoInfo /\ ~obj[o].oldInfo
         => obj[o].info.taken = row[obj[o].id].taken
    /\ obj[o].level # -1 /\ ~obj[o].oldLevel => obj[o].level = level[obj[o].id]
=============================================================================

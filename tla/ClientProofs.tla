--------------------------- MODULE ClientProofs ---------------------------
(***************************************************************************)
(* Proofs about the two models of the client, ClientObjects and NetClient. *)
(*                                                                         *)
(* The objects, for any number of users, books, objects and references:    *)
(* they live exactly as long as they are referred to, what the client      *)
(* believes about its login is right unless something went astray, and a   *)
(* cache that is not known to be old is fresh.                             *)
(*                                                                         *)
(* The network client, for any number of calls, sessions forgotten and     *)
(* connections lost: no request is executed twice, and the kept connection *)
(* answers every call with the answer to its own request.                  *)
(***************************************************************************)
EXTENDS ClientObjects, NetClient, SequenceTheorems, TLAPS

(* An object whose fields fit its id.                                      *)
Sound(x) == /\ x \in ObjectType
            /\ x.info \in InfosOf(x.id) \union {NoInfo}
            /\ x.level \in LevelsOf(x.id) \union {-1}

ObjectsSound == /\ obj \in [Objects -> ObjectType \union {NoObject}]
                /\ \A o \in There : Sound(obj[o])

ServerTypes == /\ row \in [Ids -> AllInfos] /\ \A i \in Ids : row[i] \in Infos[i]
               /\ level \in [Users -> AllLevels] /\ \A u \in Users : level[u] \in Levels[u]
               /\ session \in Users \union {0} /\ login \in Users \union {0}
               /\ others \in 0 .. MaxOthers /\ astray \in BOOLEAN

(* Who refers to what: the user that Login forgot is there, and is not the *)
(* one who is logged in now.                                               *)
Refs == /\ held \in [Objects -> 0 .. MaxHeld]
        /\ current \in Objects \union {NoObject}
        /\ lost \subseteq There /\ current \notin lost
        /\ \A o \in There : held[o] > 0 \/ o = current \/ o \in lost
        /\ LivesWhileReferred

Base == ServerTypes /\ ObjectsSound /\ Refs

LEMMA Objs == /\ NoObject \notin Objects /\ NoObject \notin ObjectType
              /\ 0 \notin Ids /\ -1 \notin AllLevels /\ MaxHeld \in Nat \ {0}
              /\ \A i \in Ids : NoInfo \notin Infos[i] /\ Infos[i] \subseteq AllInfos
              /\ \A u \in Users : Levels[u] \subseteq AllLevels
  BY ClientAssumption DEF AllLevels, AllInfos, Ids

(* The two parts of an info.                                               *)
LEMMA Parts ==
  ASSUME NEW i \in Ids
  PROVE  /\ Infos[i] = [taken : Taken[i], kept : Kept[i]] /\ Infos[i] # {}
         /\ \A info \in Infos[i] : info.taken \in Taken[i] /\ info.kept \in Kept[i]
         /\ \A info \in Infos[i], t \in Taken[i] :
              LET x == [info EXCEPT !.taken = t] IN x \in Infos[i] /\ x.taken = t
         /\ \A info \in Infos[i], k \in Kept[i] :
              LET x == [info EXCEPT !.kept = k] IN x \in Infos[i] /\ x.taken = info.taken
<1>1. Infos[i] = [taken : Taken[i], kept : Kept[i]] /\ Taken[i] # {} /\ Kept[i] # {}
  BY ClientAssumption DEF Infos
<1>2. PICK t \in Taken[i], k \in Kept[i] : TRUE
  BY <1>1
<1>3. [taken |-> t, kept |-> k] \in Infos[i]
  BY <1>1
<1>4. ASSUME NEW info \in Infos[i] PROVE info.taken \in Taken[i] /\ info.kept \in Kept[i]
  BY <1>1
<1>5. ASSUME NEW info \in Infos[i], NEW u \in Taken[i]
      PROVE  LET x == [info EXCEPT !.taken = u] IN x \in Infos[i] /\ x.taken = u
  BY <1>1
<1>6. ASSUME NEW info \in Infos[i], NEW l \in Kept[i]
      PROVE  LET x == [info EXCEPT !.kept = l] IN x \in Infos[i] /\ x.taken = info.taken
  BY <1>1
<1> QED BY <1>1, <1>3, <1>4, <1>5, <1>6, Zenon

LEMMA BaseTypes == Base => TypeOK
<1> SUFFICES ASSUME Base PROVE TypeOK
  OBVIOUS
<1>1. \A o \in There : obj[o].m_nRefCount \in 1 .. MaxHeld + 1
  <2> SUFFICES ASSUME NEW o \in There PROVE obj[o].m_nRefCount \in 1 .. MaxHeld + 1
    OBVIOUS
  <2>1. /\ o \in Objects /\ held[o] \in 0 .. MaxHeld /\ obj[o] # NoObject
        /\ o = current => o \notin lost
        /\ held[o] > 0 \/ o = current \/ o \in lost
    BY DEF Base, Refs, There
  <2>2. obj[o].m_nRefCount = held[o] + (IF o = current THEN 1 ELSE 0)
                                    + (IF o \in lost THEN 1 ELSE 0)
    BY DEF Base, Refs, LivesWhileReferred
  <2> QED BY <2>1, <2>2, Objs
<1>2. ObjectsSound /\ ServerTypes /\ Refs
  BY DEF Base
<1>3. \A o \in There :
        /\ obj[o].info \in InfosOf(obj[o].id) \union {NoInfo}
        /\ obj[o].level \in LevelsOf(obj[o].id) \union {-1}
  BY <1>2 DEF ObjectsSound, Sound
<1>4. lost \subseteq Objects
  BY <1>2 DEF Refs, There
<1>5. obj \in [Objects -> ObjectType \union {NoObject}]
  BY <1>2 DEF ObjectsSound
<1> QED BY <1>1, <1>2, <1>3, <1>4, <1>5, Zenon DEF ServerTypes, Refs, TypeOK

-----------------------------------------------------------------------------
(* What the steps do to the objects *)

(* The step leaves the id and the count of every object.                   *)
Edited == \A p \in Objects :
            IF obj[p] = NoObject THEN obj'[p] = NoObject
            ELSE /\ obj'[p] \in ObjectType
                 /\ obj'[p].id = obj[p].id /\ obj'[p].m_nRefCount = obj[p].m_nRefCount

LEMMA EditedRefs ==
  ASSUME Refs, Edited, UNCHANGED <<held, current, lost>>
  PROVE  Refs'
<1>1. There' = There
  BY Objs DEF Edited, There
<1>2. \A o \in There : obj'[o].m_nRefCount = obj[o].m_nRefCount
  BY DEF Edited, There
<1> QED BY <1>1, <1>2 DEF Refs, LivesWhileReferred

(* NewInfo and NewLevel mark objects and do nothing else.                  *)
LEMMA InfoMarks ==
  ASSUME NEW objs \in [Objects -> ObjectType \union {NoObject}], NEW i, NEW by
  PROVE  /\ NewInfo(objs, i, by) \in [Objects -> ObjectType \union {NoObject}]
         /\ \A p \in Objects :
              LET x == objs[p]  y == NewInfo(objs, i, by)[p] IN
              /\ x = NoObject => y = NoObject
              /\ x # NoObject => /\ y \in ObjectType
                                 /\ y.id = x.id /\ y.info = x.info /\ y.level = x.level
                                 /\ y.m_nRefCount = x.m_nRefCount
                                 /\ y.oldLevel = x.oldLevel
                                 /\ p # by /\ x.id = i => y.oldInfo
                                 /\ ~(p # by /\ x.id = i) => y = x
<1>1. \A p \in Objects :
        NewInfo(objs, i, by)[p] = IF p # by /\ objs[p] # NoObject /\ objs[p].id = i
                                  THEN [objs[p] EXCEPT !.oldInfo = TRUE] ELSE objs[p]
  BY DEF NewInfo
<1>2. ASSUME NEW x \in ObjectType
      PROVE  LET y == [x EXCEPT !.oldInfo = TRUE] IN
             /\ y \in ObjectType /\ y.oldInfo = TRUE
             /\ y.id = x.id /\ y.info = x.info /\ y.level = x.level
             /\ y.m_nRefCount = x.m_nRefCount /\ y.oldLevel = x.oldLevel
  BY DEF ObjectType
<1>3. \A p \in Objects : NewInfo(objs, i, by)[p] \in ObjectType \union {NoObject}
  BY <1>1, <1>2
<1>4. NewInfo(objs, i, by) \in [Objects -> ObjectType \union {NoObject}]
  BY <1>3 DEF NewInfo
<1> QED BY ZenonT(40), <1>1, <1>2, <1>4

LEMMA LevelMarks ==
  ASSUME NEW objs \in [Objects -> ObjectType \union {NoObject}], NEW i, NEW by
  PROVE  /\ NewLevel(objs, i, by) \in [Objects -> ObjectType \union {NoObject}]
         /\ \A p \in Objects :
              LET x == objs[p]  y == NewLevel(objs, i, by)[p] IN
              /\ x = NoObject => y = NoObject
              /\ x # NoObject => /\ y \in ObjectType
                                 /\ y.id = x.id /\ y.info = x.info /\ y.level = x.level
                                 /\ y.m_nRefCount = x.m_nRefCount
                                 /\ y.oldInfo = x.oldInfo
                                 /\ p # by /\ x.id = i => y.oldLevel
                                 /\ ~(p # by /\ x.id = i) => y = x
<1>1. \A p \in Objects :
        NewLevel(objs, i, by)[p] = IF p # by /\ objs[p] # NoObject /\ objs[p].id = i
                                  THEN [objs[p] EXCEPT !.oldLevel = TRUE] ELSE objs[p]
  BY DEF NewLevel
<1>2. ASSUME NEW x \in ObjectType
      PROVE  LET y == [x EXCEPT !.oldLevel = TRUE] IN
             /\ y \in ObjectType /\ y.oldLevel = TRUE
             /\ y.id = x.id /\ y.info = x.info /\ y.level = x.level
             /\ y.m_nRefCount = x.m_nRefCount /\ y.oldInfo = x.oldInfo
  BY DEF ObjectType
<1>3. \A p \in Objects : NewLevel(objs, i, by)[p] \in ObjectType \union {NoObject}
  BY <1>1, <1>2
<1>4. NewLevel(objs, i, by) \in [Objects -> ObjectType \union {NoObject}]
  BY <1>3 DEF NewLevel
<1> QED BY ZenonT(40), <1>1, <1>2, <1>4

(* Two fields of one object are set.                                       *)
WithInfo(o, info, old) == [obj EXCEPT ![o].info = info, ![o].oldInfo = old]
WithLevel(o, l, old)   == [obj EXCEPT ![o].level = l, ![o].oldLevel = old]

LEMMA InfoSet ==
  ASSUME ObjectsSound, NEW o \in There, NEW info \in AllInfos \union {NoInfo}, NEW old \in BOOLEAN,
         NEW objs, objs = WithInfo(o, info, old)
  PROVE  /\ objs \in [Objects -> ObjectType \union {NoObject}]
         /\ \A p \in Objects : p # o => objs[p] = obj[p]
         /\ objs[o] \in ObjectType /\ objs[o].info = info /\ (old => objs[o].oldInfo)
         /\ objs[o].id = obj[o].id /\ objs[o].level = obj[o].level
         /\ objs[o].m_nRefCount = obj[o].m_nRefCount
         /\ objs[o].oldLevel = obj[o].oldLevel
<1>1. o \in Objects /\ obj[o] \in ObjectType /\ obj \in [Objects -> ObjectType \union {NoObject}]
  BY DEF ObjectsSound, There
<1> DEFINE x == [obj[o] EXCEPT !.info = info, !.oldInfo = old]
<1>2. objs = [obj EXCEPT ![o] = x]
  BY <1>1 DEF WithInfo
<1>3. /\ x \in ObjectType /\ x.info = info /\ (old => x.oldInfo)
      /\ x.id = obj[o].id /\ x.level = obj[o].level
      /\ x.m_nRefCount = obj[o].m_nRefCount /\ x.oldLevel = obj[o].oldLevel
  BY <1>1 DEF ObjectType
<1> HIDE DEF x
<1> QED BY <1>1, <1>2, <1>3

LEMMA LevelSet ==
  ASSUME ObjectsSound, NEW o \in There, NEW l \in AllLevels \union {-1}, NEW old \in BOOLEAN,
         NEW objs, objs = WithLevel(o, l, old)
  PROVE  /\ objs \in [Objects -> ObjectType \union {NoObject}]
         /\ \A p \in Objects : p # o => objs[p] = obj[p]
         /\ objs[o] \in ObjectType /\ objs[o].level = l /\ (old => objs[o].oldLevel)
         /\ objs[o].id = obj[o].id /\ objs[o].info = obj[o].info
         /\ objs[o].m_nRefCount = obj[o].m_nRefCount
         /\ objs[o].oldInfo = obj[o].oldInfo
<1>1. o \in Objects /\ obj[o] \in ObjectType /\ obj \in [Objects -> ObjectType \union {NoObject}]
  BY DEF ObjectsSound, There
<1> DEFINE x == [obj[o] EXCEPT !.level = l, !.oldLevel = old]
<1>2. objs = [obj EXCEPT ![o] = x]
  BY <1>1 DEF WithLevel
<1>3. /\ x \in ObjectType /\ x.level = l /\ (old => x.oldLevel)
      /\ x.id = obj[o].id /\ x.info = obj[o].info
      /\ x.m_nRefCount = obj[o].m_nRefCount /\ x.oldInfo = obj[o].oldInfo
  BY <1>1 DEF ObjectType
<1> HIDE DEF x
<1> QED BY <1>1, <1>2, <1>3

-----------------------------------------------------------------------------
(* Making and releasing *)

LEMMA FreshSound ==
  ASSUME NEW id \in Ids \union {0}, NEW info \in InfosOf(id) \union {NoInfo}
  PROVE  /\ Sound(Object(id, info)) /\ Object(id, info) # NoObject
         /\ Object(id, info).id = id /\ Object(id, info).info = info
         /\ Object(id, info).level = -1 /\ Object(id, info).m_nRefCount = 1
<1>1. info \in AllInfos \union {NoInfo}
  BY Objs DEF InfosOf
<1> DEFINE x == Object(id, info)
<1>2. /\ x.id = id /\ x.info = info /\ x.level = -1 /\ x.m_nRefCount = 1
      /\ x \in ObjectType
  BY <1>1 DEF Object, ObjectType
<1> HIDE DEF x
<1>3. Sound(x) /\ x # NoObject
  BY <1>2, Objs DEF Sound
<1> QED BY <1>2, <1>3 DEF x

LEMMA MakeKeeps ==
  ASSUME Base, NEW id \in Ids \union {0}, NEW info \in InfosOf(id) \union {NoInfo},
         Make(id, info), UNCHANGED <<current, lost>>
  PROVE  /\ ObjectsSound' /\ Refs'
         /\ \A p \in There : obj'[p] = obj[p]
         /\ \A p \in There' \ There : obj'[p] = Object(id, info)
<1> DEFINE x == Object(id, info)
<1>1. PICK o \in Objects \ There : /\ obj'  = [obj EXCEPT ![o] = x]
                                  /\ held' = [held EXCEPT ![o] = 1]
  BY DEF Make
<1>2. Sound(x) /\ x # NoObject /\ x.m_nRefCount = 1 /\ x \in ObjectType
  BY FreshSound DEF Sound
<1> HIDE DEF x
<1>3. obj \in [Objects -> ObjectType \union {NoObject}] /\ \A p \in There : Sound(obj[p])
  BY DEF Base, ObjectsSound
<1>4. /\ obj' \in [Objects -> ObjectType \union {NoObject}]
      /\ obj'[o] = x /\ \A p \in Objects : p # o => obj'[p] = obj[p]
  BY <1>1, <1>2, <1>3
<1>5. There' = There \union {o} /\ o \notin There /\ o \in Objects
  BY <1>1, <1>2, <1>4 DEF There
<1>6. ObjectsSound'
  BY <1>2, <1>3, <1>4, <1>5 DEF ObjectsSound, There
<1>7. Refs
  BY DEF Base
<1>8. /\ held' \in [Objects -> 0 .. MaxHeld]
      /\ held'[o] = 1 /\ \A p \in Objects : p # o => held'[p] = held[p]
  BY <1>1, <1>7, Objs DEF Refs
<1>9. o # current /\ o \notin lost
  BY <1>5, <1>7 DEF Refs, LivesWhileReferred
<1>10. LivesWhileReferred'
  <2>1. \A p \in Objects : held'[p] > 0 \/ p = current => p \in There'
    BY <1>5, <1>7, <1>8 DEF Refs, LivesWhileReferred
  <2>2. \A p \in There' :
          obj'[p].m_nRefCount = held'[p] + (IF p = current THEN 1 ELSE 0)
                                         + (IF p \in lost THEN 1 ELSE 0)
    BY <1>2, <1>4, <1>5, <1>7, <1>8, <1>9 DEF Refs, LivesWhileReferred, There
  <2> QED BY <2>1, <2>2 DEF LivesWhileReferred
<1>11. Refs'
  BY <1>5, <1>7, <1>8, <1>9, <1>10 DEF Refs, There
<1>12. \A p \in There : obj'[p] = obj[p]
  BY <1>4, <1>5 DEF There
<1> QED BY <1>4, <1>5, <1>6, <1>11, <1>12 DEF x

(* What Release leaves of the object.                                      *)
LEMMA ReleasedLeaves ==
  ASSUME ObjectsSound, NEW o \in There, Released(o)
  PROVE  /\ obj' \in [Objects -> ObjectType \union {NoObject}]
         /\ \A p \in Objects : p # o => obj'[p] = obj[p]
         /\ obj[o].m_nRefCount <= 1 => obj'[o] = NoObject
         /\ obj[o].m_nRefCount > 1 =>
              /\ Sound(obj'[o]) /\ obj'[o] # NoObject
              /\ obj'[o].m_nRefCount = obj[o].m_nRefCount - 1
              /\ obj'[o].id = obj[o].id /\ obj'[o].info = obj[o].info
              /\ obj'[o].level = obj[o].level
              /\ obj'[o].oldInfo = obj[o].oldInfo /\ obj'[o].oldLevel = obj[o].oldLevel
<1>1. o \in Objects /\ obj[o] \in ObjectType /\ Sound(obj[o])
      /\ obj \in [Objects -> ObjectType \union {NoObject}]
  BY DEF ObjectsSound, There, Sound
<1> DEFINE y == [obj[o] EXCEPT !.m_nRefCount = obj[o].m_nRefCount - 1]
           x == IF obj[o].m_nRefCount <= 1 THEN NoObject ELSE y
<1>2. obj' = [obj EXCEPT ![o] = x]
  BY <1>1 DEF Released
<1>3. obj[o].m_nRefCount \in Nat
  BY <1>1 DEF ObjectType
<1>4. ASSUME obj[o].m_nRefCount > 1
      PROVE  /\ y \in ObjectType /\ y.m_nRefCount = obj[o].m_nRefCount - 1
             /\ y.id = obj[o].id /\ y.info = obj[o].info /\ y.level = obj[o].level
             /\ y.oldInfo = obj[o].oldInfo /\ y.oldLevel = obj[o].oldLevel
  BY <1>1, <1>3, <1>4 DEF ObjectType
<1> HIDE DEF y
<1>5. obj[o].m_nRefCount > 1 => Sound(y) /\ y # NoObject
  BY <1>1, <1>4, Objs DEF Sound
<1>6. x \in ObjectType \union {NoObject}
  BY <1>3, <1>4
<1>7. /\ obj[o].m_nRefCount <= 1 => x = NoObject
      /\ obj[o].m_nRefCount > 1 => x = y
  BY <1>3
<1> HIDE DEF x
<1>8. obj' \in [Objects -> ObjectType \union {NoObject}] /\ obj'[o] = x
      /\ \A p \in Objects : p # o => obj'[p] = obj[p]
  BY <1>1, <1>2, <1>6
<1> QED BY <1>4, <1>5, <1>7, <1>8

(* A reference is given up: one the user interface holds, or the one of    *)
(* m_pCurrentUser.                                                         *)
LEMMA ReleaseKeeps ==
  ASSUME Base, NEW o \in There, Released(o), UNCHANGED lost,
         \/ held[o] > 0 /\ held' = [held EXCEPT ![o] = @ - 1] /\ UNCHANGED current
         \/ o = current /\ current' = NoObject /\ UNCHANGED held
  PROVE  /\ ObjectsSound' /\ Refs' /\ There' \subseteq There
         /\ \A p \in There' : /\ obj'[p].id = obj[p].id /\ obj'[p].info = obj[p].info
                              /\ obj'[p].level = obj[p].level
                              /\ obj'[p].oldInfo = obj[p].oldInfo
                              /\ obj'[p].oldLevel = obj[p].oldLevel
<1>1. /\ obj' \in [Objects -> ObjectType \union {NoObject}]
      /\ \A p \in Objects : p # o => obj'[p] = obj[p]
      /\ obj[o].m_nRefCount <= 1 => obj'[o] = NoObject
      /\ obj[o].m_nRefCount > 1 =>
              /\ Sound(obj'[o]) /\ obj'[o] # NoObject
              /\ obj'[o].m_nRefCount = obj[o].m_nRefCount - 1
              /\ obj'[o].id = obj[o].id /\ obj'[o].info = obj[o].info
              /\ obj'[o].level = obj[o].level
              /\ obj'[o].oldInfo = obj[o].oldInfo /\ obj'[o].oldLevel = obj[o].oldLevel
  BY ReleasedLeaves DEF Base
<1>2. Refs /\ \A p \in There : Sound(obj[p])
  BY DEF Base, ObjectsSound
<1>3. PICK n \in Nat : /\ n = obj[o].m_nRefCount
                      /\ n = held[o] + (IF o = current THEN 1 ELSE 0)
                                      + (IF o \in lost THEN 1 ELSE 0)
  BY <1>2 DEF Refs, LivesWhileReferred, Sound, ObjectType
<1>4. o \in Objects /\ obj[o] # NoObject /\ held[o] \in Nat
  BY <1>2 DEF There, Refs
<1>5. There' = IF n <= 1 THEN There \ {o} ELSE There
  BY <1>1, <1>3, <1>4 DEF There
<1>6. \A p \in There' : p # o \/ n > 1
  BY <1>3, <1>5
<1>7. ObjectsSound'
  BY <1>1, <1>2, <1>3, <1>5, <1>6 DEF ObjectsSound, There
<1>8. /\ held' \in [Objects -> 0 .. MaxHeld]
      /\ \A p \in Objects : p # o => held'[p] = held[p]
      /\ held'[o] = IF UNCHANGED current THEN held[o] - 1 ELSE held[o]
  <2>1. CASE held[o] > 0 /\ held' = [held EXCEPT ![o] = @ - 1] /\ UNCHANGED current
    BY <2>1, <1>2, <1>4, Objs DEF Refs
  <2>2. CASE o = current /\ current' = NoObject /\ UNCHANGED held
    BY <2>2, <1>2, <1>4, Objs DEF Refs
  <2> QED BY <2>1, <2>2
<1>9. \/ current' = current /\ held[o] > 0
      \/ current' = NoObject /\ o = current /\ o # NoObject
  BY <1>4, Objs
<1>10. \A p \in There' : held'[p] > 0 \/ p = current' \/ p \in lost
  BY <1>2, <1>3, <1>4, <1>5, <1>6, <1>8, <1>9 DEF Refs, There
<1>11. LivesWhileReferred'
  <2>1. \A p \in Objects : held'[p] > 0 \/ p = current' => p \in There'
    BY <1>2, <1>3, <1>4, <1>5, <1>8, <1>9, Objs DEF Refs, LivesWhileReferred
  <2>2. \A p \in There' :
          obj'[p].m_nRefCount = held'[p] + (IF p = current' THEN 1 ELSE 0)
                                         + (IF p \in lost THEN 1 ELSE 0)
    <3> SUFFICES ASSUME NEW p \in There'
                 PROVE  obj'[p].m_nRefCount = held'[p] + (IF p = current' THEN 1 ELSE 0)
                                                       + (IF p \in lost THEN 1 ELSE 0)
      OBVIOUS
    <3>1. p \in There
      BY <1>5
    <3>2. CASE p # o
      BY <1>1, <1>2, <1>8, <1>9, <3>1, <3>2, Objs DEF Refs, LivesWhileReferred, There
    <3>3. CASE p = o
      BY <1>1, <1>3, <1>4, <1>6, <1>8, <1>9, <3>3
    <3> QED BY <3>2, <3>3
  <2> QED BY <2>1, <2>2 DEF LivesWhileReferred
<1>12. lost \subseteq There' /\ current' \notin lost
  BY <1>2, <1>3, <1>4, <1>5, <1>9, Objs DEF Refs, There
<1>13. Refs'
  BY <1>2, <1>8, <1>9, <1>10, <1>11, <1>12 DEF Refs
<1> QED BY <1>1, <1>3, <1>5, <1>6, <1>7, <1>13 DEF There

-----------------------------------------------------------------------------
(* The inductive invariant, and the steps *)

ClientInv == Base /\ BeliefIsRight /\ CachesAreFresh

(* Nothing happens to the login, and the user who has logged in stays.     *)
LEMMA BeliefStays ==
  ASSUME Refs, BeliefIsRight, UNCHANGED <<session, current, astray>>,
         current \in There => obj'[current].id = obj[current].id
  PROVE  BeliefIsRight'
<1>1. current = NoObject \/ current \in There
  BY Objs DEF Refs, LivesWhileReferred
<1> QED BY <1>1, Objs DEF BeliefIsRight

LEMMA MakeStep ==
  ASSUME ClientInv, NEW id \in Ids \union {0}, NEW info \in InfosOf(id) \union {NoInfo},
         id # 0 /\ info # NoInfo => info.taken = row[id].taken,
         Make(id, info), UNCHANGED <<server, current, login, others, astray, lost>>
  PROVE  ClientInv'
<1>1. Base /\ UNCHANGED <<row, level, session>>
  BY DEF ClientInv, server
<1>2. /\ ObjectsSound' /\ Refs'
      /\ \A p \in There : obj'[p] = obj[p]
      /\ \A p \in There' \ There : obj'[p] = Object(id, info)
  BY <1>1, MakeKeeps
<1>3. ServerTypes'
  BY <1>1 DEF Base, ServerTypes
<1>4. BeliefIsRight'
  BY <1>1, <1>2, BeliefStays DEF ClientInv, Base
<1>5. CachesAreFresh'
  BY <1>1, <1>2, FreshSound DEF ClientInv, CachesAreFresh
<1> QED BY <1>2, <1>3, <1>4, <1>5 DEF ClientInv, Base

LEMMA MakersStep ==
  ASSUME ClientInv,
         \/ createEmpty
         \/ \E u \in Users : getUserByID(u) \/ getUserByName(u)
         \/ \E b \in Books : queryBook(b)
  PROVE  ClientInv'
<1>1. CASE createEmpty
  BY <1>1, MakeStep DEF createEmpty
<1>2. \A i \in Ids : i # 0 /\ row[i] \in InfosOf(i)
  BY Objs DEF ClientInv, Base, ServerTypes, InfosOf
<1>3. CASE \E u \in Users : getUserByID(u)
  <2>1. PICK u \in Users : getUserByID(u)
    BY <1>3
  <2>2. PICK info \in UserAnswers(u) : Make(u, info)
    BY <2>1 DEF getUserByID
  <2>3. u \in Ids /\ u # 0 /\ info \in InfosOf(u) /\ info.taken = row[u].taken
    BY <1>2, <2>2 DEF UserAnswers, InfosOf, Ids
  <2> QED BY <2>1, <2>2, <2>3, MakeStep DEF getUserByID
<1>4. CASE \E u \in Users : getUserByName(u)
  BY <1>4, MakeStep DEF getUserByName, Ids
<1>5. CASE \E b \in Books : queryBook(b)
  BY <1>2, <1>5, MakeStep DEF queryBook, Ids
<1> QED BY <1>1, <1>3, <1>4, <1>5

LEMMA ReleaseStep ==
  ASSUME ClientInv, NEW o \in There, Release(o)
  PROVE  ClientInv'
<1>1. /\ Base /\ Released(o) /\ held[o] > 0 /\ held' = [held EXCEPT ![o] = @ - 1]
      /\ UNCHANGED <<row, level, session, current, login, others, astray, lost>>
  BY DEF ClientInv, Release, Calls, server
<1>2. /\ ObjectsSound' /\ Refs' /\ There' \subseteq There
      /\ \A p \in There' : /\ obj'[p].id = obj[p].id /\ obj'[p].info = obj[p].info
                           /\ obj'[p].level = obj[p].level
                           /\ obj'[p].oldInfo = obj[p].oldInfo
                           /\ obj'[p].oldLevel = obj[p].oldLevel
  BY <1>1, ReleaseKeeps
<1>3. ServerTypes'
  BY <1>1 DEF Base, ServerTypes
<1>4. BeliefIsRight'
  <2>1. current \in There => current \in There'
    BY <1>1, <1>2 DEF Refs, LivesWhileReferred, There
  <2> QED BY <1>1, <1>2, <2>1, BeliefStays DEF ClientInv, Base
<1>5. CachesAreFresh'
  BY <1>1, <1>2 DEF ClientInv, CachesAreFresh
<1> QED BY <1>2, <1>3, <1>4, <1>5 DEF ClientInv, Base

LEMMA LogoutRequestStep ==
  ASSUME ClientInv, current # NoObject, NEW fate \in Fates, LogoutRequest(fate),
         login' \in Users \union {0}, UNCHANGED <<row, level, held, others, lost>>
  PROVE  ClientInv'
<1>0. Base /\ ServerTypes /\ current \in There
  BY DEF ClientInv, Base, Refs, LivesWhileReferred
<1>1. CASE fate = "ok"
  <2>1. /\ Released(current) /\ current' = NoObject /\ astray' = FALSE
        /\ session' = 0
    BY <1>1 DEF LogoutRequest, Executed
  <2>2. /\ ObjectsSound' /\ Refs' /\ There' \subseteq There
        /\ \A p \in There' : /\ obj'[p].id = obj[p].id /\ obj'[p].info = obj[p].info
                             /\ obj'[p].level = obj[p].level
                             /\ obj'[p].oldInfo = obj[p].oldInfo
                             /\ obj'[p].oldLevel = obj[p].oldLevel
    BY <1>0, <2>1, ReleaseKeeps
  <2>3. ServerTypes'
    BY <1>0, <2>1 DEF ServerTypes
  <2>4. BeliefIsRight'
    BY <2>1 DEF BeliefIsRight
  <2>5. CachesAreFresh'
    BY <2>2 DEF ClientInv, CachesAreFresh
  <2> QED BY <2>2, <2>3, <2>4, <2>5 DEF ClientInv, Base
<1>2. CASE fate # "ok"
  <2>1. /\ UNCHANGED <<obj, current>>
        /\ fate = "unheard" => astray' = TRUE
        /\ fate # "unheard" => session' = session /\ astray' = astray
        /\ session' \in {0, session}
    BY <1>0, <1>2 DEF LogoutRequest, Executed, Fates, ServerTypes
  <2>2. ServerTypes'
    BY <1>0, <2>1 DEF ServerTypes
  <2>3. ObjectsSound' /\ Refs' /\ CachesAreFresh'
    BY <2>1 DEF ClientInv, Base, ObjectsSound, Refs, There, LivesWhileReferred, CachesAreFresh
  <2>4. BeliefIsRight'
    BY <2>1 DEF ClientInv, BeliefIsRight
  <2> QED BY <2>2, <2>3, <2>4 DEF ClientInv, Base
<1> QED BY <1>1, <1>2

(* The new user takes the place of the old one, which is lost if there is  *)
(* one.                                                                    *)
LEMMA LoginStep ==
  ASSUME ClientInv, NEW u \in Users, NEW fate \in Fates, Login(u, fate)
  PROVE  ClientInv'
<1>0. Base /\ ServerTypes /\ ObjectsSound /\ Refs
  BY DEF ClientInv, Base
<1>1. CASE fate = "ok"
  <2> DEFINE x == Object(u, NoInfo)
  <2>1. PICK o \in Objects \ There : obj' = [obj EXCEPT ![o] = x] /\ current' = o
    BY <1>1 DEF Login
  <2>2. /\ lost' = IF current = NoObject THEN lost ELSE lost \union {current}
        /\ astray' = FALSE /\ session' = u /\ login' = 0
        /\ UNCHANGED <<row, level, held, others>>
    BY <1>1 DEF Login, Executed
  <2>3. /\ Sound(x) /\ x # NoObject /\ x \in ObjectType
        /\ x.id = u /\ x.info = NoInfo /\ x.level = -1 /\ x.m_nRefCount = 1
    BY FreshSound DEF Sound, Ids
  <2> HIDE DEF x
  <2>4. /\ obj' \in [Objects -> ObjectType \union {NoObject}]
        /\ obj'[o] = x /\ \A p \in Objects : p # o => obj'[p] = obj[p]
    BY <1>0, <2>1, <2>3 DEF ObjectsSound
  <2>5. There' = There \union {o} /\ o \notin There /\ o \in Objects
    BY <2>1, <2>3, <2>4 DEF There
  <2>6. ObjectsSound'
    BY <1>0, <2>3, <2>4, <2>5 DEF ObjectsSound, There
  <2>7. /\ o # current /\ o \notin lost /\ held[o] = 0
        /\ current = NoObject \/ (current \in There /\ current \notin lost)
    BY <1>0, <2>5, Objs DEF Refs, LivesWhileReferred
  <2>8. LivesWhileReferred'
    <3>1. \A p \in Objects : held[p] > 0 \/ p = o => p \in There'
      BY <1>0, <2>5 DEF Refs, LivesWhileReferred
    <3>2. \A p \in There' :
            obj'[p].m_nRefCount = held[p] + (IF p = o THEN 1 ELSE 0)
                                          + (IF p \in lost' THEN 1 ELSE 0)
      <4> SUFFICES ASSUME NEW p \in There'
                   PROVE  obj'[p].m_nRefCount = held[p] + (IF p = o THEN 1 ELSE 0)
                                                        + (IF p \in lost' THEN 1 ELSE 0)
        OBVIOUS
      <4>1. CASE p = o
        BY <2>2, <2>3, <2>4, <2>5, <2>7, <4>1
      <4>2. CASE p # o
        <5>1. p \in There /\ p # NoObject /\ held[p] \in Nat
          BY <1>0, <2>5, <4>2, Objs DEF There, Refs
        <5>2. obj'[p] = obj[p]
          BY <2>4, <4>2, <5>1 DEF There
        <5>3. obj[p].m_nRefCount = held[p] + (IF p = current THEN 1 ELSE 0)
                                           + (IF p \in lost THEN 1 ELSE 0)
          BY <1>0, <5>1 DEF Refs, LivesWhileReferred
        <5> QED BY <2>2, <2>7, <4>2, <5>1, <5>2, <5>3
      <4> QED BY <4>1, <4>2
    <3> QED BY <2>1, <2>2, <3>1, <3>2 DEF LivesWhileReferred
  <2>9. Refs'
    <3>1. lost' \subseteq There' /\ o \notin lost'
      BY <1>0, <2>2, <2>5, <2>7 DEF Refs
    <3>2. \A p \in There : p # NoObject /\ (held[p] > 0 \/ p = current \/ p \in lost)
      BY <1>0, Objs DEF Refs, There
    <3>3. \A p \in There' : held[p] > 0 \/ p = o \/ p \in lost'
      BY <2>2, <2>5, <3>2
    <3> QED BY <1>0, <2>1, <2>2, <2>5, <2>8, <3>1, <3>3 DEF Refs
  <2>10. ServerTypes'
    BY <1>0, <2>2 DEF ServerTypes
  <2>11. BeliefIsRight'
    BY <2>1, <2>2, <2>3, <2>4, Objs DEF BeliefIsRight
  <2>12. CachesAreFresh'
    BY <2>2, <2>3, <2>4, <2>5 DEF ClientInv, CachesAreFresh, There
  <2> QED BY <2>6, <2>9, <2>10, <2>11, <2>12 DEF ClientInv, Base
<1>2. CASE fate # "ok"
  <2>1. /\ UNCHANGED <<obj, current, lost, row, level, held, others>>
        /\ fate = "unheard" => astray' = TRUE
        /\ fate # "unheard" => session' = session /\ astray' = astray
        /\ session' \in {u, session} /\ login' = 0
    BY <1>0, <1>2 DEF Login, Executed, Fates, ServerTypes
  <2>2. ServerTypes'
    BY <1>0, <2>1 DEF ServerTypes
  <2>3. ObjectsSound' /\ Refs' /\ CachesAreFresh'
    BY <2>1 DEF ClientInv, Base, ObjectsSound, Refs, There, LivesWhileReferred, CachesAreFresh
  <2>4. BeliefIsRight'
    BY <2>1 DEF ClientInv, BeliefIsRight
  <2> QED BY <2>2, <2>3, <2>4 DEF ClientInv, Base
<1> QED BY <1>1, <1>2

LEMMA GetCurrentStep ==
  ASSUME ClientInv, getCurrentUser
  PROVE  ClientInv'
<1>0. /\ Base /\ ObjectsSound /\ Refs /\ ServerTypes /\ current \in There
      /\ held[current] < MaxHeld
      /\ UNCHANGED <<row, level, session, current, login, others, astray, lost>>
  BY DEF ClientInv, Base, Refs, LivesWhileReferred, getCurrentUser, server
<1>1. PICK o \in There : o = current
  BY <1>0
<1> DEFINE n == obj[o].m_nRefCount + 1
           x == [obj[o] EXCEPT !.m_nRefCount = n]
<1>2. /\ obj' = [obj EXCEPT ![o] = x]
      /\ held' = [held EXCEPT ![o] = held[o] + 1]
  BY <1>1 DEF getCurrentUser, AddRef
<1>3. /\ o \in Objects /\ obj[o] \in ObjectType /\ Sound(obj[o])
      /\ obj[o].m_nRefCount \in Nat /\ held[o] \in Nat
  BY <1>0 DEF ObjectsSound, Sound, There, Refs, ObjectType
<1>4. /\ x \in ObjectType /\ x.m_nRefCount = n
      /\ x.id = obj[o].id /\ x.info = obj[o].info /\ x.level = obj[o].level
      /\ x.oldInfo = obj[o].oldInfo /\ x.oldLevel = obj[o].oldLevel
  BY <1>3 DEF ObjectType
<1> HIDE DEF x
<1>5. Sound(x) /\ x # NoObject
  BY <1>3, <1>4, Objs DEF Sound
<1>6. /\ obj' \in [Objects -> ObjectType \union {NoObject}]
      /\ obj'[o] = x /\ \A p \in Objects : p # o => obj'[p] = obj[p]
  BY <1>0, <1>2, <1>3, <1>4 DEF ObjectsSound
<1>7. There' = There
  BY <1>5, <1>6 DEF There
<1>8. ObjectsSound'
  BY <1>0, <1>5, <1>6, <1>7 DEF ObjectsSound, There
<1>9. /\ held' \in [Objects -> 0 .. MaxHeld]
      /\ held'[o] = held[o] + 1 /\ \A p \in Objects : p # o => held'[p] = held[p]
  BY <1>0, <1>1, <1>2, <1>3, Objs DEF Refs
<1>10. LivesWhileReferred'
  <2>1. \A p \in Objects : held'[p] > 0 \/ p = current => p \in There'
    BY <1>0, <1>1, <1>7, <1>9 DEF Refs, LivesWhileReferred
  <2>2. ASSUME NEW p \in There
        PROVE  obj'[p].m_nRefCount = held'[p] + (IF p = current THEN 1 ELSE 0)
                                              + (IF p \in lost THEN 1 ELSE 0)
    <3>1. /\ obj[p].m_nRefCount = held[p] + (IF p = current THEN 1 ELSE 0)
                                          + (IF p \in lost THEN 1 ELSE 0)
          /\ p \in Objects
      BY <1>0, <2>2 DEF Refs, LivesWhileReferred, There
    <3> QED BY <1>3, <1>4, <1>6, <1>9, <3>1
  <2> QED BY <1>0, <1>7, <2>1, <2>2 DEF LivesWhileReferred
<1>11. Refs'
  <2>1. \A p \in There : held'[p] > 0 \/ p = current \/ p \in lost
    BY <1>0, <1>1, <1>9 DEF Refs, There
  <2> QED BY <1>0, <1>7, <1>9, <1>10, <2>1 DEF Refs
<1>12. ServerTypes'
  BY <1>0 DEF ServerTypes
<1>13. BeliefIsRight'
  BY <1>0, <1>1, <1>4, <1>6, BeliefStays DEF ClientInv
<1>14. CachesAreFresh'
  BY <1>0, <1>4, <1>6, <1>7 DEF ClientInv, CachesAreFresh, There
<1> QED BY <1>8, <1>11, <1>12, <1>13, <1>14 DEF ClientInv, Base

-----------------------------------------------------------------------------
(* The steps that read and write the caches.  With by # NoObject object    *)
(* `by' is the one that is read or written.                                *)

LEMMA EditStep ==
  ASSUME ClientInv, ServerTypes', obj' \in [Objects -> ObjectType \union {NoObject}],
         Edited, \A p \in There : Sound(obj'[p]),
         UNCHANGED <<session, held, current, astray, lost>>, CachesAreFresh'
  PROVE  ClientInv'
<1>0. Base /\ Refs
  BY DEF ClientInv, Base
<1>1. Refs'
  BY <1>0, EditedRefs
<1>2. There' = There
  BY Objs DEF Edited, There
<1>3. ObjectsSound'
  BY <1>2 DEF ObjectsSound
<1>4. BeliefIsRight'
  BY <1>0, BeliefStays DEF ClientInv, Edited, There
<1> QED BY <1>1, <1>3, <1>4 DEF ClientInv, Base

(* One object reads its info or its level from the server.                 *)
LEMMA ReadsStep ==
  ASSUME ClientInv, NEW o \in There, getBasicInfo(o) \/ getAuthLevel(o)
  PROVE  ClientInv'
<1>0. /\ Base /\ ObjectsSound /\ ServerTypes /\ CachesAreFresh /\ o \in Objects
      /\ obj[o] \in ObjectType /\ Sound(obj[o])
      /\ UNCHANGED <<row, level, session, held, current, login, others, astray, lost>>
  BY DEF ClientInv, Base, ObjectsSound, There, getBasicInfo, getAuthLevel, server
<1>1. ServerTypes'
  BY <1>0 DEF ServerTypes
<1>2. PICK u \in Users : u = obj[o].id
  BY DEF getBasicInfo, getAuthLevel
<1>3. u \in Ids /\ u # 0 /\ row[u] \in Infos[u] /\ row[u] \in AllInfos
      /\ level[u] \in Levels[u] /\ level[u] \in AllLevels /\ level[u] # -1
  BY <1>0, Objs DEF Ids, ServerTypes
<1> DEFINE no == FALSE
<1>6. no \in BOOLEAN
  OBVIOUS
<1>4. CASE getBasicInfo(o)
  <2>0. PICK info \in UserAnswers(u) : obj' = WithInfo(o, info, no)
    BY <1>2, <1>4 DEF getBasicInfo, WithInfo
  <2>1. /\ obj' = WithInfo(o, info, no) /\ info.taken = row[u].taken
        /\ info \in Infos[u] /\ info \in AllInfos
    BY <1>3, <2>0, Objs DEF UserAnswers
  <2>2. /\ obj' \in [Objects -> ObjectType \union {NoObject}]
        /\ \A p \in Objects : p # o => obj'[p] = obj[p]
        /\ obj'[o] \in ObjectType /\ obj'[o].info = info
        /\ obj'[o].id = u /\ obj'[o].level = obj[o].level
        /\ obj'[o].m_nRefCount = obj[o].m_nRefCount
        /\ obj'[o].oldLevel = obj[o].oldLevel
    <3> DEFINE x == WithInfo(o, info, no)
    <3>1. /\ x \in [Objects -> ObjectType \union {NoObject}]
          /\ \A p \in Objects : p # o => x[p] = obj[p]
          /\ x[o] \in ObjectType /\ x[o].info = info
          /\ x[o].id = u /\ x[o].level = obj[o].level
          /\ x[o].m_nRefCount = obj[o].m_nRefCount
          /\ x[o].oldLevel = obj[o].oldLevel
      <4> HIDE DEF no
      <4> QED BY <1>0, <1>2, <1>3, <1>6, <2>1, InfoSet
    <3> QED BY <2>1, <3>1
  <2>3. Edited
    BY <1>0, <1>2, <2>2, Objs DEF Edited, ObjectsSound
  <2>4. Sound(obj'[o])
    BY <1>0, <1>2, <1>3, <2>1, <2>2 DEF Sound, InfosOf
  <2>5. \A p \in There : Sound(obj'[p])
    BY <1>0, <2>2, <2>4 DEF ObjectsSound, There
  <2>6. CachesAreFresh'
    <3>1. \A p \in There' : p \in There /\ (p # o => obj'[p] = obj[p])
      BY <2>2, <2>3 DEF There, Edited
    <3>2. obj'[o].info = info /\ obj'[o].level = obj[o].level /\ obj'[o].oldLevel = obj[o].oldLevel
      BY <2>2
    <3>3. ASSUME NEW p \in There, p # o, obj'[p] = obj[p]
          PROVE  /\ obj'[p].id # 0 /\ obj'[p].info # NoInfo /\ ~obj'[p].oldInfo
                      => obj'[p].info.taken = row'[obj'[p].id].taken
                 /\ obj'[p].level # -1 /\ ~obj'[p].oldLevel
                      => obj'[p].level = level'[obj'[p].id]
      BY <1>0, <3>3, Zenon DEF CachesAreFresh
    <3>4. /\ row' = row /\ level' = level /\ obj'[o].id = obj[o].id
          /\ obj'[o].info.taken = row[obj'[o].id].taken
      BY <1>0, <1>2, <2>1, <2>2
    <3>5. /\ obj'[o].id # 0 /\ obj'[o].info # NoInfo /\ ~obj'[o].oldInfo
               => obj'[o].info.taken = row'[obj'[o].id].taken
          /\ obj'[o].level # -1 /\ ~obj'[o].oldLevel
               => obj'[o].level = level'[obj'[o].id]
      BY <1>0, <3>2, <3>4, Zenon DEF CachesAreFresh
    <3> QED BY <3>1, <3>3, <3>5, Zenon DEF CachesAreFresh
  <2> QED BY <1>0, <1>1, <2>2, <2>3, <2>5, <2>6, EditStep
<1>5. CASE getAuthLevel(o)
  <2>1. obj' = WithLevel(o, level[u], no)
    BY <1>2, <1>5 DEF getAuthLevel, WithLevel
  <2>2. /\ obj' \in [Objects -> ObjectType \union {NoObject}]
        /\ \A p \in Objects : p # o => obj'[p] = obj[p]
        /\ obj'[o] \in ObjectType /\ obj'[o].level = level[u]
        /\ obj'[o].id = u /\ obj'[o].info = obj[o].info
        /\ obj'[o].m_nRefCount = obj[o].m_nRefCount
        /\ obj'[o].oldInfo = obj[o].oldInfo
    <3> DEFINE x == WithLevel(o, level[u], no)
    <3>1. /\ x \in [Objects -> ObjectType \union {NoObject}]
          /\ \A p \in Objects : p # o => x[p] = obj[p]
          /\ x[o] \in ObjectType /\ x[o].level = level[u]
          /\ x[o].id = u /\ x[o].info = obj[o].info
          /\ x[o].m_nRefCount = obj[o].m_nRefCount
          /\ x[o].oldInfo = obj[o].oldInfo
      <4> HIDE DEF no
      <4> QED BY <1>0, <1>2, <1>3, <1>6, LevelSet
    <3> QED BY <2>1, <3>1
  <2>3. Edited
    BY <1>0, <1>2, <2>2, Objs DEF Edited, ObjectsSound
  <2>4. Sound(obj'[o])
    BY <1>0, <1>2, <1>3, <2>2 DEF Sound, LevelsOf
  <2>5. \A p \in There : Sound(obj'[p])
    BY <1>0, <2>2, <2>4 DEF ObjectsSound, There
  <2>6. CachesAreFresh'
    <3>1. \A p \in There' : p \in There /\ (p # o => obj'[p] = obj[p])
      BY <2>2, <2>3 DEF There, Edited
    <3>2. obj'[o].level = level[u] /\ obj'[o].info = obj[o].info /\ obj'[o].oldInfo = obj[o].oldInfo
      BY <2>2
    <3> QED BY <1>0, <1>2, <2>2, <3>1, <3>2 DEF CachesAreFresh
  <2> QED BY <1>0, <1>1, <2>2, <2>3, <2>5, <2>6, EditStep
<1> QED BY <1>4, <1>5

(* The info of one object is set, and the row of its id if the request is  *)
(* executed.                                                               *)
LEMMA SetInfoStep ==
  ASSUME ClientInv, NEW o \in There, NEW info \in InfosOf(obj[o].id), NEW fate \in Fates,
         setBasicInfo(o, info, fate)
  PROVE  ClientInv'
<1>0. /\ Base /\ ObjectsSound /\ ServerTypes /\ CachesAreFresh /\ o \in Objects
      /\ obj[o] \in ObjectType /\ Sound(obj[o])
      /\ UNCHANGED <<level, session, held, current, login, others, astray, lost>>
  BY DEF ClientInv, Base, ObjectsSound, There, setBasicInfo
<1>1. PICK i \in Ids \union {0} : i = obj[o].id
  BY <1>0 DEF ObjectType
<1>2. info \in InfosOf(i) /\ info \in AllInfos
  BY <1>1, Objs DEF InfosOf
<1>3. CASE i = 0
  <2> DEFINE x == [obj[o] EXCEPT !.info = info]
  <2>1. obj' = [obj EXCEPT ![o] = x] /\ row' = row
    BY <1>1, <1>3 DEF setBasicInfo
  <2>2. /\ x \in ObjectType /\ x.info = info /\ x.id = obj[o].id /\ x.level = obj[o].level
        /\ x.m_nRefCount = obj[o].m_nRefCount /\ x.oldLevel = obj[o].oldLevel
    BY <1>0, <1>2 DEF ObjectType
  <2> HIDE DEF x
  <2>3. /\ obj' \in [Objects -> ObjectType \union {NoObject}]
        /\ obj'[o] = x /\ \A p \in Objects : p # o => obj'[p] = obj[p]
    BY <1>0, <2>1, <2>2 DEF ObjectsSound
  <2>4. Edited
    BY <1>0, <2>2, <2>3, Objs DEF Edited, ObjectsSound
  <2>5. \A p \in There : Sound(obj'[p])
    BY <1>0, <1>1, <1>2, <2>2, <2>3 DEF ObjectsSound, There, Sound
  <2>6. ServerTypes'
    BY <1>0, <2>1 DEF ServerTypes
  <2>7. CachesAreFresh'
    <3>1. \A p \in There' : p \in There /\ (p # o => obj'[p] = obj[p])
      BY <2>3, <2>4 DEF There, Edited
    <3> QED BY ZenonT(40), <1>0, <1>1, <1>3, <2>1, <2>2, <2>3, <3>1 DEF CachesAreFresh
  <2> QED BY <1>0, <2>3, <2>4, <2>5, <2>6, <2>7, EditStep
<1>4. CASE i # 0
  <2> DEFINE old  == ~Executed(fate)
             objs == WithInfo(o, info, old)
             k    == IF Executed(fate) THEN i ELSE 0
  <2>1. /\ obj' = NewInfo(objs, k, o)
        /\ row' = [row EXCEPT ![i].taken = IF Executed(fate) THEN info.taken ELSE @]
    BY <1>1, <1>4 DEF setBasicInfo, WithInfo
  <2>2. /\ objs \in [Objects -> ObjectType \union {NoObject}]
        /\ \A p \in Objects : p # o => objs[p] = obj[p]
        /\ objs[o] \in ObjectType /\ objs[o].info = info /\ (old => objs[o].oldInfo)
        /\ objs[o].id = obj[o].id /\ objs[o].level = obj[o].level
        /\ objs[o].m_nRefCount = obj[o].m_nRefCount
        /\ objs[o].oldLevel = obj[o].oldLevel
    <3>1. old \in BOOLEAN
      BY DEF Executed
    <3> HIDE DEF old
    <3> QED BY <1>0, <1>2, <3>1, InfoSet
  <2> HIDE DEF objs, k
  <2>3. /\ obj' \in [Objects -> ObjectType \union {NoObject}]
        /\ \A p \in Objects :
             LET x == objs[p]  y == obj'[p] IN
             /\ x = NoObject => y = NoObject
             /\ x # NoObject => /\ y \in ObjectType
                                /\ y.id = x.id /\ y.info = x.info /\ y.level = x.level
                                /\ y.m_nRefCount = x.m_nRefCount
                                /\ y.oldLevel = x.oldLevel
                                /\ p # o /\ x.id = k => y.oldInfo
                                /\ ~(p # o /\ x.id = k) => y = x
    BY <2>1, <2>2, InfoMarks
  <2>4. obj'[o] = objs[o] /\ objs[o] # NoObject
    BY <1>0, <2>2, <2>3, Objs
  <2>5. \A p \in Objects : p # o =>
             /\ obj[p] = NoObject => obj'[p] = NoObject
             /\ obj[p] # NoObject => /\ obj'[p] \in ObjectType
                                     /\ obj'[p].id = obj[p].id /\ obj'[p].info = obj[p].info
                                     /\ obj'[p].level = obj[p].level
                                     /\ obj'[p].m_nRefCount = obj[p].m_nRefCount
                                     /\ obj'[p].oldLevel = obj[p].oldLevel
                                     /\ obj[p].id = k => obj'[p].oldInfo
                                     /\ obj[p].id # k => obj'[p] = obj[p]
    BY <2>2, <2>3
  <2>6. Edited
    BY <1>0, <2>2, <2>4, <2>5, Objs DEF Edited, There
  <2>7. \A p \in There : Sound(obj'[p])
    <3>1. Sound(obj'[o])
      BY <1>0, <1>1, <1>2, <2>2, <2>4 DEF Sound
    <3> QED BY <1>0, <2>5, <3>1 DEF ObjectsSound, Sound, There
  <2>8. /\ row' \in [Ids -> AllInfos] /\ \A j \in Ids : row'[j] \in Infos[j]
        /\ \A j \in Ids : j # i => row'[j] = row[j]
        /\ row'[i].taken = IF Executed(fate) THEN info.taken ELSE row[i].taken
    <3> DEFINE t == IF Executed(fate) THEN info.taken ELSE row[i].taken
               r == [row[i] EXCEPT !.taken = t]
    <3>1. i \in Ids /\ info \in Infos[i] /\ row \in [Ids -> AllInfos]
          /\ \A j \in Ids : row[j] \in Infos[j] /\ Infos[j] \subseteq AllInfos
      BY <1>0, <1>2, <1>4, Objs DEF ServerTypes, InfosOf
    <3>2. t \in Taken[i]
      BY <3>1, Parts
    <3>3. row' = [row EXCEPT ![i] = r]
      BY <2>1, <3>1
    <3> HIDE DEF t
    <3>4. r \in Infos[i] /\ r.taken = t
      BY <3>1, <3>2, Parts
    <3> HIDE DEF r
    <3>5. /\ row' \in [Ids -> AllInfos] /\ row'[i] = r
          /\ \A j \in Ids : j # i => row'[j] = row[j]
      BY <3>1, <3>3, <3>4
    <3> QED BY <3>1, <3>4, <3>5 DEF t
  <2>9. ServerTypes'
    BY <1>0, <2>8 DEF ServerTypes
  <2>10. CachesAreFresh'
    <3>1. \A p \in There' : p \in There
      BY <2>6 DEF There, Edited
    <3>2. ASSUME NEW p \in There, p # o
          PROVE  /\ obj'[p].id # 0 /\ obj'[p].info # NoInfo /\ ~obj'[p].oldInfo
                      => obj'[p].info.taken = row'[obj'[p].id].taken
                 /\ obj'[p].level # -1 /\ ~obj'[p].oldLevel
                      => obj'[p].level = level[obj'[p].id]
      <4>1. /\ obj'[p].id = obj[p].id /\ obj'[p].info = obj[p].info
            /\ obj'[p].level = obj[p].level /\ obj'[p].oldLevel = obj[p].oldLevel
            /\ obj[p].id = k => obj'[p].oldInfo
            /\ obj[p].id # k => obj'[p] = obj[p]
        BY <2>5, <3>2 DEF There
      <4>2. obj[p].id \in Ids \union {0}
        BY <1>0 DEF ObjectsSound, Sound, ObjectType
      <4>3. obj[p].id \in Ids /\ obj[p].id # k => row'[obj[p].id].taken = row[obj[p].id].taken
        BY <2>8 DEF k
      <4>4. CASE obj[p].id = k
        BY <1>0, <4>1, <4>4, Zenon DEF CachesAreFresh
      <4>5. CASE obj[p].id # k /\ obj[p].id # 0
        <5>1. row'[obj[p].id].taken = row[obj[p].id].taken /\ obj'[p] = obj[p]
          BY <4>1, <4>2, <4>3, <4>5
        <5> QED BY <1>0, <5>1, Zenon DEF CachesAreFresh
      <4>6. CASE obj[p].id = 0
        BY <1>0, <4>1, <4>6, Zenon DEF CachesAreFresh
      <4> QED BY <4>4, <4>5, <4>6
    <3>3. /\ obj'[o].id # 0 /\ obj'[o].info # NoInfo /\ ~obj'[o].oldInfo
                => obj'[o].info.taken = row'[obj'[o].id].taken
          /\ obj'[o].level # -1 /\ ~obj'[o].oldLevel
                => obj'[o].level = level[obj'[o].id]
      BY <1>0, <1>1, <1>4, <2>2, <2>4, <2>8 DEF CachesAreFresh
    <3> QED BY <1>0, <3>1, <3>2, <3>3 DEF CachesAreFresh
  <2> QED BY <1>0, <2>3, <2>6, <2>7, <2>9, <2>10, EditStep
<1> QED BY <1>3, <1>4

(* The level of one user is set; his object only takes it over when it has *)
(* heard that it was.                                                      *)
LEMMA SetLevelStep ==
  ASSUME ClientInv, NEW o \in There, NEW l \in LevelsOf(obj[o].id), NEW fate \in Fates,
         setAuthLevel(o, l, fate)
  PROVE  ClientInv'
<1>0. /\ Base /\ ObjectsSound /\ ServerTypes /\ CachesAreFresh /\ o \in Objects
      /\ obj[o] \in ObjectType /\ Sound(obj[o])
      /\ UNCHANGED <<row, session, held, current, login, others, astray, lost>>
  BY DEF ClientInv, Base, ObjectsSound, There, setAuthLevel
<1>1. PICK u \in Users : u = obj[o].id
  BY DEF setAuthLevel
<1>2. l \in Levels[u] /\ l \in AllLevels /\ l # -1
  BY <1>1, Objs DEF LevelsOf
<1>3. obj[o].level \in AllLevels \union {-1} /\ obj[o].oldLevel \in BOOLEAN
  BY <1>0 DEF ObjectType
<1> DEFINE n    == IF fate = "ok" THEN l ELSE obj[o].level
           old  == fate # "ok" /\ (obj[o].oldLevel \/ fate = "unheard")
           objs == WithLevel(o, n, old)
           k    == IF Executed(fate) THEN u ELSE 0
<1>4. /\ obj' = NewLevel(objs, k, o)
      /\ level' = [level EXCEPT ![u] = IF Executed(fate) THEN l ELSE @]
  <2>1. /\ obj' = NewLevel([obj EXCEPT ![o].level = IF fate = "ok" THEN l ELSE @,
                                      ![o].oldLevel = fate # "ok" /\ (@ \/ fate = "unheard")],
                           IF Executed(fate) THEN obj[o].id ELSE 0, o)
        /\ level' = [level EXCEPT ![u] = IF Executed(fate) THEN l ELSE @]
    BY <1>1 DEF setAuthLevel
  <2>2. [obj EXCEPT ![o].level = IF fate = "ok" THEN l ELSE @,
                    ![o].oldLevel = fate # "ok" /\ (@ \/ fate = "unheard")] = objs
    BY <1>0 DEF WithLevel, ObjectsSound, ObjectType
  <2> QED BY <1>1, <2>1, <2>2
<1>5. /\ objs \in [Objects -> ObjectType \union {NoObject}]
      /\ \A p \in Objects : p # o => objs[p] = obj[p]
      /\ objs[o] \in ObjectType /\ objs[o].level = n /\ (old => objs[o].oldLevel)
      /\ objs[o].id = obj[o].id /\ objs[o].info = obj[o].info
      /\ objs[o].m_nRefCount = obj[o].m_nRefCount
      /\ objs[o].oldInfo = obj[o].oldInfo
  <2>1. old \in BOOLEAN /\ n \in AllLevels \union {-1}
    BY <1>2, <1>3
  <2> HIDE DEF old, n
  <2> QED BY <1>0, <2>1, LevelSet
<1> HIDE DEF objs, k
<1>6. /\ obj' \in [Objects -> ObjectType \union {NoObject}]
      /\ \A p \in Objects :
           LET x == objs[p]  y == obj'[p] IN
           /\ x = NoObject => y = NoObject
           /\ x # NoObject => /\ y \in ObjectType
                              /\ y.id = x.id /\ y.info = x.info /\ y.level = x.level
                              /\ y.m_nRefCount = x.m_nRefCount
                              /\ y.oldInfo = x.oldInfo
                              /\ p # o /\ x.id = k => y.oldLevel
                              /\ ~(p # o /\ x.id = k) => y = x
  BY <1>4, <1>5, LevelMarks
<1>7. obj'[o] = objs[o] /\ objs[o] # NoObject
  BY <1>0, <1>5, <1>6, Objs
<1>8. \A p \in Objects : p # o =>
           /\ obj[p] = NoObject => obj'[p] = NoObject
           /\ obj[p] # NoObject => /\ obj'[p] \in ObjectType
                                   /\ obj'[p].id = obj[p].id /\ obj'[p].info = obj[p].info
                                   /\ obj'[p].level = obj[p].level
                                   /\ obj'[p].m_nRefCount = obj[p].m_nRefCount
                                   /\ obj'[p].oldInfo = obj[p].oldInfo
                                   /\ obj[p].id = k => obj'[p].oldLevel
                                   /\ obj[p].id # k => obj'[p] = obj[p]
  BY <1>5, <1>6
<1>9. Edited
  BY <1>0, <1>5, <1>7, <1>8, Objs DEF Edited, There
<1>10. \A p \in There : Sound(obj'[p])
  <2>1. Sound(obj'[o])
    BY <1>0, <1>1, <1>2, <1>5, <1>7 DEF Sound, LevelsOf
  <2> QED BY <1>0, <1>8, <2>1 DEF ObjectsSound, Sound, There
<1>11. /\ level' \in [Users -> AllLevels]
       /\ \A j \in Users : level'[j] = IF j = u /\ Executed(fate) THEN l ELSE level[j]
  BY <1>0, <1>2, <1>4 DEF ServerTypes
<1>12. ServerTypes'
  BY <1>0, <1>2, <1>11 DEF ServerTypes
<1>13. CachesAreFresh'
  <2>1. \A p \in There' : p \in There
    BY <1>9 DEF There, Edited
  <2>2. ASSUME NEW p \in There, p # o
        PROVE  /\ obj'[p].id # 0 /\ obj'[p].info # NoInfo /\ ~obj'[p].oldInfo
                    => obj'[p].info.taken = row[obj'[p].id].taken
               /\ obj'[p].level # -1 /\ ~obj'[p].oldLevel
                    => obj'[p].level = level'[obj'[p].id]
    <3>1. /\ obj'[p].id = obj[p].id /\ obj'[p].info = obj[p].info
          /\ obj'[p].level = obj[p].level /\ obj'[p].oldInfo = obj[p].oldInfo
          /\ obj[p].id = k => obj'[p].oldLevel
          /\ obj[p].id # k => obj'[p] = obj[p]
      BY <1>8, <2>2 DEF There
    <3>2. obj[p].level # -1 => obj[p].id \in Users
      BY <1>0 DEF ObjectsSound, Sound, LevelsOf
    <3>3. obj[p].id \in Users /\ obj[p].id # k => level'[obj[p].id] = level[obj[p].id]
      BY <1>11 DEF k
    <3> QED BY <1>0, <3>1, <3>2, <3>3 DEF CachesAreFresh
  <2>3. /\ obj'[o].id # 0 /\ obj'[o].info # NoInfo /\ ~obj'[o].oldInfo
              => obj'[o].info.taken = row[obj'[o].id].taken
        /\ obj'[o].level # -1 /\ ~obj'[o].oldLevel
              => obj'[o].level = level'[obj'[o].id]
    <3>1. fate = "ok" => level'[u] = l
      BY <1>11 DEF Executed
    <3>2. fate # "ok" /\ ~old => ~obj[o].oldLevel /\ level'[u] = level[u]
      BY <1>1, <1>11 DEF Executed
    <3> QED BY <1>0, <1>1, <1>5, <1>7, <3>1, <3>2 DEF CachesAreFresh
  <2> QED BY <1>0, <2>1, <2>2, <2>3 DEF CachesAreFresh
<1> QED BY <1>0, <1>6, <1>9, <1>10, <1>12, <1>13, EditStep

(* The session is forgotten, or the server or others change a row.         *)
LEMMA OutsideStep ==
  ASSUME ClientInv, Expire \/ Keeps \/ Other
  PROVE  ClientInv'
<1>0. Base /\ ObjectsSound /\ ServerTypes /\ CachesAreFresh /\ Refs
      /\ obj \in [Objects -> ObjectType \union {NoObject}]
  BY DEF ClientInv, Base, ObjectsSound
<1>1. CASE Expire
  <2>1. /\ session' = 0 /\ astray' = TRUE
        /\ UNCHANGED <<row, level, obj, held, current, login, others, lost>>
    BY <1>1 DEF Expire
  <2>2. ServerTypes' /\ BeliefIsRight'
    BY <1>0, <2>1 DEF ServerTypes, BeliefIsRight
  <2>3. ObjectsSound' /\ Refs' /\ CachesAreFresh'
    BY <1>0, <2>1 DEF ObjectsSound, Refs, There, LivesWhileReferred, CachesAreFresh
  <2> QED BY <2>2, <2>3 DEF ClientInv, Base
<1>4. CASE Keeps
  <2>0. PICK i \in Ids : \E k \in Kept[i] : row' = [row EXCEPT ![i].kept = k]
    BY <1>4 DEF Keeps
  <2>1. PICK k \in Kept[i] : row' = [row EXCEPT ![i].kept = k]
    BY <2>0
  <2>2. UNCHANGED <<level, session, obj, held, current, login, others, astray, lost>>
    BY <1>4 DEF Keeps
  <2>3. /\ row' \in [Ids -> AllInfos]
        /\ \A j \in Ids : row'[j] \in Infos[j] /\ row'[j].taken = row[j].taken
    <3> DEFINE r == [row[i] EXCEPT !.kept = k]
    <3>1. row \in [Ids -> AllInfos] /\ \A j \in Ids : row[j] \in Infos[j] /\ Infos[j] \subseteq AllInfos
      BY <1>0, Objs DEF ServerTypes
    <3>2. r \in Infos[i] /\ r.taken = row[i].taken
      BY <3>1, Parts
    <3>3. row' = [row EXCEPT ![i] = r]
      BY <2>1, <3>1
    <3> HIDE DEF r
    <3>4. /\ row' \in [Ids -> AllInfos] /\ row'[i] = r
          /\ \A j \in Ids : j # i => row'[j] = row[j]
      BY <3>1, <3>2, <3>3
    <3> QED BY <3>1, <3>2, <3>4
  <2>4. ServerTypes' /\ BeliefIsRight'
    BY <1>0, <2>2, <2>3 DEF ServerTypes, BeliefIsRight, ClientInv
  <2>5. ObjectsSound' /\ Refs'
    BY <1>0, <2>2 DEF ObjectsSound, Refs, There, LivesWhileReferred
  <2>6. CachesAreFresh'
    <3> SUFFICES ASSUME NEW p \in There
                 PROVE  /\ obj[p].id # 0 /\ obj[p].info # NoInfo /\ ~obj[p].oldInfo
                             => obj[p].info.taken = row'[obj[p].id].taken
                        /\ obj[p].level # -1 /\ ~obj[p].oldLevel
                             => obj[p].level = level[obj[p].id]
      BY <2>2 DEF CachesAreFresh, There
    <3>1. obj[p].id \in Ids \union {0}
      BY <1>0 DEF ObjectsSound, Sound, ObjectType
    <3> QED BY <1>0, <2>3, <3>1 DEF CachesAreFresh
  <2> QED BY <2>4, <2>5, <2>6 DEF ClientInv, Base
<1>2. ASSUME Other, NEW i \in Ids, NEW t \in Taken[i], row' = [row EXCEPT ![i].taken = t],
             obj' = NewInfo(obj, i, NoObject), UNCHANGED level
      PROVE  ClientInv'
  <2>1. /\ obj' \in [Objects -> ObjectType \union {NoObject}]
        /\ \A p \in Objects :
             LET x == obj[p]  y == obj'[p] IN
             /\ x = NoObject => y = NoObject
             /\ x # NoObject => /\ y \in ObjectType
                                /\ y.id = x.id /\ y.info = x.info /\ y.level = x.level
                                /\ y.m_nRefCount = x.m_nRefCount
                                /\ y.oldLevel = x.oldLevel
                                /\ p # NoObject /\ x.id = i => y.oldInfo
                                /\ ~(p # NoObject /\ x.id = i) => y = x
    BY <1>0, <1>2, InfoMarks
  <2>2. Edited
    BY <2>1, Objs DEF Edited
  <2>3. \A p \in There : Sound(obj'[p])
    BY <1>0, <2>1 DEF ObjectsSound, Sound, There
  <2>4. /\ UNCHANGED <<level, session, held, current, login, astray, lost>>
        /\ others' \in 0 .. MaxOthers
    BY <1>0, <1>2, ClientAssumption DEF Other, ServerTypes
  <2>5. /\ row' \in [Ids -> AllInfos] /\ \A j \in Ids : row'[j] \in Infos[j]
        /\ \A j \in Ids : j # i => row'[j] = row[j]
    <3> DEFINE r == [row[i] EXCEPT !.taken = t]
    <3>1. row \in [Ids -> AllInfos] /\ \A j \in Ids : row[j] \in Infos[j] /\ Infos[j] \subseteq AllInfos
      BY <1>0, Objs DEF ServerTypes
    <3>2. r \in Infos[i]
      BY <1>2, <3>1, Parts
    <3>3. row' = [row EXCEPT ![i] = r]
      BY <1>2, <3>1
    <3> HIDE DEF r
    <3> QED BY <3>1, <3>2, <3>3
  <2>6. ServerTypes'
    BY <1>0, <2>4, <2>5 DEF ServerTypes
  <2>7. CachesAreFresh'
    <3> SUFFICES ASSUME NEW p \in There'
                 PROVE  /\ obj'[p].id # 0 /\ obj'[p].info # NoInfo /\ ~obj'[p].oldInfo
                             => obj'[p].info.taken = row'[obj'[p].id].taken
                        /\ obj'[p].level # -1 /\ ~obj'[p].oldLevel
                             => obj'[p].level = level'[obj'[p].id]
      BY DEF CachesAreFresh
    <3>1. p \in There /\ p \in Objects /\ p # NoObject /\ obj[p] # NoObject
      BY <2>2, Objs DEF There, Edited
    <3>2. obj[p].id \in Ids \union {0}
      BY <1>0, <3>1 DEF ObjectsSound, Sound, ObjectType
    <3> QED BY <1>0, <2>1, <2>4, <2>5, <3>1, <3>2 DEF CachesAreFresh
  <2> QED BY <2>1, <2>2, <2>3, <2>4, <2>6, <2>7, EditStep
<1>3. ASSUME Other, NEW u \in Users, NEW l \in Levels[u], level' = [level EXCEPT ![u] = l],
             obj' = NewLevel(obj, u, NoObject), UNCHANGED row
      PROVE  ClientInv'
  <2>1. /\ obj' \in [Objects -> ObjectType \union {NoObject}]
        /\ \A p \in Objects :
             LET x == obj[p]  y == obj'[p] IN
             /\ x = NoObject => y = NoObject
             /\ x # NoObject => /\ y \in ObjectType
                                /\ y.id = x.id /\ y.info = x.info /\ y.level = x.level
                                /\ y.m_nRefCount = x.m_nRefCount
                                /\ y.oldInfo = x.oldInfo
                                /\ p # NoObject /\ x.id = u => y.oldLevel
                                /\ ~(p # NoObject /\ x.id = u) => y = x
    BY <1>0, <1>3, LevelMarks
  <2>2. Edited
    BY <2>1, Objs DEF Edited
  <2>3. \A p \in There : Sound(obj'[p])
    BY <1>0, <2>1 DEF ObjectsSound, Sound, There
  <2>4. /\ UNCHANGED <<row, session, held, current, login, astray, lost>>
        /\ others' \in 0 .. MaxOthers
    BY <1>0, <1>3, ClientAssumption DEF Other, ServerTypes
  <2>5. /\ level' \in [Users -> AllLevels]
        /\ \A j \in Users : level'[j] = IF j = u THEN l ELSE level[j]
    BY <1>0, <1>3, Objs DEF ServerTypes
  <2>6. ServerTypes'
    BY <1>0, <2>4, <2>5 DEF ServerTypes
  <2>7. CachesAreFresh'
    <3> SUFFICES ASSUME NEW p \in There'
                 PROVE  /\ obj'[p].id # 0 /\ obj'[p].info # NoInfo /\ ~obj'[p].oldInfo
                             => obj'[p].info.taken = row'[obj'[p].id].taken
                        /\ obj'[p].level # -1 /\ ~obj'[p].oldLevel
                             => obj'[p].level = level'[obj'[p].id]
      BY DEF CachesAreFresh
    <3>1. p \in There /\ p \in Objects /\ p # NoObject /\ obj[p] # NoObject
      BY <2>2, Objs DEF There, Edited
    <3>2. obj[p].level # -1 => obj[p].id \in Users
      BY <1>0, <3>1 DEF ObjectsSound, Sound, LevelsOf
    <3> QED BY <1>0, <2>1, <2>4, <2>5, <3>1, <3>2 DEF CachesAreFresh
  <2> QED BY <2>1, <2>2, <2>3, <2>4, <2>6, <2>7, EditStep
<1> QED BY <1>1, <1>2, <1>3, <1>4 DEF Other

-----------------------------------------------------------------------------
LEMMA ClientInit == Init => ClientInv
<1> SUFFICES ASSUME Init PROVE ClientInv
  OBVIOUS
<1>1. There = {}
  BY DEF Init, There
<1>2. \A i \in Ids : row[i] \in Infos[i]
  BY Parts DEF Init
<1>3. \A u \in Users : level[u] \in Levels[u]
  BY ClientAssumption DEF Init
<1>4. ServerTypes
  <2>1. row \in [Ids -> AllInfos] /\ level \in [Users -> AllLevels]
    BY <1>2, <1>3, Objs DEF Init
  <2>2. session = 0 /\ login = 0 /\ astray = FALSE /\ others = 0 /\ MaxOthers \in Nat
    BY ClientAssumption DEF Init
  <2>3. others \in 0 .. MaxOthers
    BY <2>2
  <2> QED BY <1>2, <1>3, <2>1, <2>2, <2>3, Zenon DEF ServerTypes
<1>5. ObjectsSound /\ Refs /\ BeliefIsRight /\ CachesAreFresh
  BY <1>1, Objs DEF Init, ObjectsSound, Refs, LivesWhileReferred, BeliefIsRight, CachesAreFresh
<1> QED BY <1>4, <1>5 DEF ClientInv, Base

LEMMA ClientStep == ClientInv /\ [Next]_vars => ClientInv'
<1> SUFFICES ASSUME ClientInv, [Next]_vars PROVE ClientInv'
  OBVIOUS
<1>1. CASE UNCHANGED vars
  BY <1>1 DEF vars, ClientInv, Base, ServerTypes, ObjectsSound, Refs, There,
              LivesWhileReferred, BeliefIsRight, CachesAreFresh
<1>2. ASSUME NEW fate \in Fates, Logout(fate) PROVE ClientInv'
  BY <1>2, LogoutRequestStep DEF Logout, ClientInv, Base, ServerTypes
<1>3. ASSUME NEW u \in Users, NEW fate \in Fates, LoginFirst(u, fate) PROVE ClientInv'
  BY <1>3, LogoutRequestStep DEF LoginFirst
<1> QED
  BY <1>1, <1>2, <1>3, MakersStep, ReleaseStep, LoginStep, GetCurrentStep, ReadsStep,
     SetInfoStep, SetLevelStep, OutsideStep
  DEF Next

(* The rows of the server, the two caches and every reference count keep   *)
(* their types whatever the user interface calls and the network loses.    *)
THEOREM ClientTypeCorrect == Spec => []TypeOK
<1>1. ClientInv => TypeOK
  BY BaseTypes DEF ClientInv
<1> QED BY <1>1, ClientInit, ClientStep, PTL DEF Spec

(* As long as no session has expired and no Login or Logout went unheard,  *)
(* the user m_pCurrentUser stands for is the user of the session.          *)
THEOREM BeliefsAreRight == Spec => []BeliefIsRight
<1>1. ClientInv => BeliefIsRight
  BY DEF ClientInv
<1> QED BY <1>1, ClientInit, ClientStep, PTL DEF Spec

(* No object is used after it was deleted, and none is left over.          *)
THEOREM ObjectsLiveWhileReferred == Spec => []LivesWhileReferred
<1>1. ClientInv => LivesWhileReferred
  BY DEF ClientInv, Base, Refs
<1> QED BY <1>1, ClientInit, ClientStep, PTL DEF Spec

(* Of what an object has cached, the level and the part of the info that   *)
(* the server takes from clients are what the row holds, unless the object *)
(* was told otherwise.                                                     *)
THEOREM CachesStayFresh == Spec => []CachesAreFresh
<1>1. ClientInv => CachesAreFresh
  BY DEF ClientInv
<1> QED BY <1>1, ClientInit, ClientStep, PTL DEF Spec

-----------------------------------------------------------------------------
(* The network client *)

(* A call is under way, or the program has ended in it.                    *)
Active == pc \in {"post", "handshake", "send", "recv", "fail", "answered", "evaluate", "crashed"}

(* The tokens the server can have sent so far.                             *)
Issued == {<<"n">>} \union ({"id"} \X (1 .. lastID)) \union ({"ok", "inv"} \X Nat)
Request == [k : 1 .. MaxCalls, hello : BOOLEAN, id : 0 .. lastID, live : BOOLEAN]

CallerTypes ==
  /\ mode \in [keepAlive : BOOLEAN, tls : BOOLEAN]
  /\ pc \in {"off", "failed", "gone", "idle", "post", "handshake", "send", "recv",
             "fail", "answered", "evaluate", "crashed"}
  /\ call \in [k : 0 .. MaxCalls, hello : BOOLEAN, again : BOOLEAN, resend : BOOLEAN]
  /\ result.k \in 0 .. MaxCalls
  /\ Active => call.k = result.k + 1
  /\ ~Active => call = NoCall
SocketTypes ==
  /\ open \in BOOLEAN /\ serverOpen \in BOOLEAN /\ disturbed \in BOOLEAN
  /\ connected \in BOOLEAN /\ tlsClient \in BOOLEAN
  /\ recvError \in Nat /\ armed \in Nat /\ failed \in Nat /\ worker \in {"idle", "rearm"}
PeerTypes ==
  /\ sessionID \in 0 .. lastID /\ valid \subseteq 1 .. lastID /\ lastID \in Nat
  /\ expired \in Nat /\ executed \in [1 .. MaxCalls -> Nat]
StreamTypes ==
  /\ strBuffer \in Seq(Issued) /\ strRecv \in Seq(Issued) /\ down \in Seq(Issued)
  /\ requests \in Seq(Request)
Types == CallerTypes /\ SocketTypes /\ PeerTypes /\ StreamTypes

(* The request of call k has been written to a socket.                     *)
Written(k) == \/ k <= result.k
              \/ k = call.k /\ ~call.hello /\ pc \in {"recv", "fail", "answered", "evaluate"}

(* As long as the server has forgotten no session, no call is told that    *)
(* its session is unknown, so each writes its request once.                *)
Genuine == {<<"n">>} \union ({"id"} \X (1 .. lastID)) \union ({"ok"} \X Nat)
Remembered ==
  /\ valid = 1 .. lastID
  /\ strBuffer \in Seq(Genuine) /\ strRecv \in Seq(Genuine) /\ down \in Seq(Genuine)
  /\ ~call.again
  /\ Active /\ ~call.hello => sessionID # 0
Pending(k) == \E i \in DOMAIN requests : ~requests[i].hello /\ requests[i].k = k
WrittenOnce ==
  /\ \A i \in DOMAIN requests : ~requests[i].hello => requests[i].id # 0
  /\ \A i, j \in DOMAIN requests :
       ~requests[i].hello /\ ~requests[j].hello /\ requests[i].k = requests[j].k => i = j
  /\ \A k \in 1 .. MaxCalls : /\ Pending(k) => Written(k) /\ executed[k] = 0
                              /\ executed[k] > 0 => Written(k)
                              /\ executed[k] <= 1
NoneForgotten == expired = 0 => Remembered /\ WrittenOnce

(* The kept connection of a network that behaves.                          *)
Smooth == mode.keepAlive /\ ~disturbed

(* It is opened once, and one receive is pending or about to be.           *)
Connected ==
  /\ failed = 0 /\ recvError = 0 /\ pc # "fail" /\ serverOpen = open /\ connected = open
  /\ IF open THEN armed + (IF worker = "rearm" THEN 1 ELSE 0) = 1
             ELSE armed = 0 /\ worker = "idle"
  /\ pc \in {"handshake", "send", "recv", "answered", "evaluate"} => open

Silent == requests = <<>> /\ down = <<>> /\ strRecv = <<>>
Answer(b) == <<b, <<"n">>, <<"n">>>>
End == << <<"n">>, <<"n">> >>

(* The places where the answer b can be while recvData waits for it: it is *)
(* not cut between the two newlines.                                       *)
Coming(b) ==
  \/ strBuffer = <<>>  /\ strRecv = <<>>      /\ down = Answer(b)
  \/ strBuffer = <<>>  /\ strRecv = <<b>>     /\ down = End
  \/ strBuffer = <<>>  /\ strRecv = Answer(b) /\ down = <<>>
  \/ strBuffer = <<b>> /\ strRecv = <<>>      /\ down = End
  \/ strBuffer = <<b>> /\ strRecv = End       /\ down = <<>>

(* b answers the request under way.                                        *)
Replies(b) ==
  \/ /\ call.hello /\ lastID > 0 /\ b = <<"id", lastID>>
     /\ executed[call.k] = 0
     /\ lastID \in valid \/ expired > (IF call.again THEN 1 ELSE 0)
  \/ ~call.hello /\ b = <<"ok", call.k>> /\ executed[call.k] = 1
  \/ /\ ~call.hello /\ b = <<"inv", 0>> /\ executed[call.k] = 0
     /\ expired > (IF call.again THEN 1 ELSE 0)
Bodily == {<<"id", lastID>>, <<"ok", call.k>>, <<"inv", 0>>}

Unserved == Active => executed[call.k] = 0
TheRequest == [k |-> call.k, hello |-> call.hello, id |-> sessionID, live |-> TRUE]

(* Where the request under way, or the answer to it, is.                   *)
Stage ==
  \/ /\ pc \in {"off", "failed", "gone", "idle", "post", "handshake", "send"} /\ Silent
     /\ strBuffer = <<>> /\ Unserved
  \/ /\ pc = "recv" /\ requests = <<TheRequest>> /\ Unserved
     /\ down = <<>> /\ strRecv = <<>> /\ strBuffer = <<>>
  \/ /\ pc = "recv" /\ requests = <<>>
     /\ \E b \in Bodily : Replies(b) /\ Coming(b)
  \/ /\ pc \in {"answered", "evaluate"} /\ Silent
     /\ \E b \in Bodily : Replies(b) /\ strBuffer = Answer(b)

(* The session is known unless the server has since forgotten it.          *)
Known ==
  /\ Active /\ ~call.hello => sessionID # 0
  /\ call.again => expired > 0
  /\ sessionID # 0 => sessionID \in valid \/ expired > 0
  /\ call.again /\ ~call.hello => sessionID \in valid \/ expired > 1

Exact ==
  /\ result.k > 0 /\ expired <= 1 =>
       result.ok /\ result.answer = Own(result.k) /\ executed[result.k] = 1
  /\ \A k \in 1 .. MaxCalls : /\ k > result.k /\ k # call.k => executed[k] = 0
                              /\ executed[k] <= 1
Good == Exact /\ Known /\ Stage /\ (pc # "gone" => Connected)
Behaved == Smooth => Good

NetInv == Types /\ NoneForgotten /\ Behaved

-----------------------------------------------------------------------------
(* Types *)

LEMMA PostTypes ==
  ASSUME CallerTypes, Active, NEW h \in BOOLEAN, NEW a \in BOOLEAN, Post(h, a), mode' = mode
  PROVE  CallerTypes' /\ Active'
  BY DEF Post, CallerTypes, Active

LEMMA ReturnTypes ==
  ASSUME NetClientAssumption, CallerTypes, Active, NEW ok, NEW answer, Return(ok, answer), mode' = mode
  PROVE  CallerTypes' /\ ~Active'
  BY DEF NetClientAssumption, Return, CallerTypes, Active, NoCall

LEMMA GiveUpTypes ==
  ASSUME NetClientAssumption, CallerTypes, Active, GiveUp, mode' = mode
  PROVE  CallerTypes'
<1>1. CASE call.hello /\ call.again
  BY <1>1, PostTypes DEF GiveUp
<1>2. CASE ~(call.hello /\ call.again)
  BY <1>2, ReturnTypes DEF GiveUp
<1> QED BY <1>1, <1>2

LEMMA CallerTypesNext ==
  ASSUME NetClientAssumption, CallerTypes, [NetNext]_netVars
  PROVE  CallerTypes'
<1> USE DEF caller
<1>1. ASSUME UNCHANGED <<mode, caller>> PROVE CallerTypes'
  BY <1>1 DEF CallerTypes, Active
<1>2. CASE initNetClient \/ cleanupNetClient
  BY <1>2 DEF initNetClient, cleanupNetClient, CallerTypes, Active
<1>3. CASE sendRequest
  BY <1>3 DEF sendRequest, CallerTypes, Active, NetClientAssumption
<1>4. CASE PostOpen \/ sendData \/ Timeout
  BY <1>4 DEF PostOpen, sendData, Timeout, CallerTypes, Active
<1>5. CASE connectToServer
  <2>1. CASE GiveUp
    BY <1>5, <2>1, GiveUpTypes DEF connectToServer, Active
  <2>2. CASE ~GiveUp
    BY <1>5, <2>2 DEF connectToServer, CallerTypes, Active
  <2> QED BY <2>1, <2>2
<1>6. CASE initTLSSession
  <2>1. CASE GiveUp
    BY <1>6, <2>1, GiveUpTypes DEF initTLSSession, Active
  <2>2. CASE ~GiveUp
    BY <1>6, <2>2 DEF initTLSSession, CallerTypes, Active
  <2> QED BY <2>1, <2>2
<1>7. CASE sendDataFails
  <2>1. pc = "send" /\ Active /\ mode' = mode
    BY <1>7 DEF sendDataFails, Active
  <2>2. \/ GiveUp
        \/ Return(FALSE, {})
        \/ pc' = "post" /\ call' = [call EXCEPT !.resend = TRUE] /\ result' = result
        \/ pc' = "crashed" /\ UNCHANGED <<call, result>>
    BY <1>7 DEF sendDataFails
  <2>6. CASE pc' = "crashed" /\ UNCHANGED <<call, result>>
    BY <2>1, <2>6 DEF CallerTypes, Active
  <2>3. CASE GiveUp
    BY <2>1, <2>3, GiveUpTypes
  <2>4. CASE Return(FALSE, {})
    BY <2>1, <2>4, ReturnTypes
  <2>5. CASE pc' = "post" /\ call' = [call EXCEPT !.resend = TRUE] /\ result' = result
    BY <2>1, <2>5 DEF CallerTypes, Active
  <2> QED BY <2>2, <2>3, <2>4, <2>5, <2>6
<1>8. CASE recvData
  BY <1>8 DEF recvData, CallerTypes, Active
<1>9. CASE RecvFailed
  BY <1>9, GiveUpTypes DEF RecvFailed, Active
<1>10. CASE Answered
  <2>1. CASE Return(FALSE, {})
    BY <1>10, <2>1, ReturnTypes DEF Answered, Active
  <2>2. CASE ~Return(FALSE, {})
    BY <1>10, <2>2 DEF Answered, CallerTypes, Active
  <2> QED BY <2>1, <2>2
<1>11. CASE getSession
  <2>1. pc = "evaluate" /\ Active /\ mode' = mode /\ call.again \in BOOLEAN
    BY <1>11 DEF getSession, Active, CallerTypes
  <2>2. Post(FALSE, call.again) \/ Post(FALSE, TRUE) \/ Return(FALSE, {})
    BY <1>11 DEF getSession
  <2> QED BY <2>1, <2>2, PostTypes, ReturnTypes
<1>12. CASE EndRequest
  <2>1. pc = "evaluate" /\ Active /\ mode' = mode
    BY <1>12 DEF EndRequest, Active
  <2>2. Post(TRUE, TRUE) \/ (\E ok, answer : Return(ok, answer))
    BY <1>12 DEF EndRequest
  <2> QED BY <2>1, <2>2, PostTypes, ReturnTypes
<1>13. CASE doRecv \/ Rearm \/ doRecvError
  BY <1>1, <1>13 DEF doRecv, Rearm, doRecvError
<1>14. CASE Serve \/ SessionsExpire \/ Lost
  BY <1>1, <1>14 DEF Serve, SessionsExpire, Lost
<1>15. CASE UNCHANGED netVars
  BY <1>1, <1>15 DEF netVars
<1> QED BY <1>2, <1>3, <1>4, <1>5, <1>6, <1>7, <1>8, <1>9, <1>10, <1>11, <1>12, <1>13, <1>14, <1>15
           DEF NetNext, Caller, Worker

LEMMA SocketTypesNext ==
  ASSUME SocketTypes, [NetNext]_netVars
  PROVE  SocketTypes'
<1> USE DEF SocketTypes, buffers, socket, stream
<1> DEFINE Flags   == open' \in BOOLEAN /\ serverOpen' \in BOOLEAN /\ disturbed' \in BOOLEAN
                      /\ connected' \in BOOLEAN /\ tlsClient' \in BOOLEAN
           Numbers == recvError' \in Nat /\ armed' \in Nat /\ failed' \in Nat
                      /\ worker' \in {"idle", "rearm"}
<1> SUFFICES Flags /\ Numbers
  OBVIOUS
<1>1. ASSUME UNCHANGED <<buffers, socket, worker, serverOpen, disturbed>> PROVE Flags /\ Numbers
  BY <1>1
<1>2. ASSUME UNCHANGED <<open, connected, armed, failed, serverOpen>> \/ Close, recvError' \in Nat,
             tlsClient' \in BOOLEAN,
             worker' = worker, disturbed' \in BOOLEAN
      PROVE  Flags /\ Numbers
  <2>1. Flags
    BY Zenon, <1>2 DEF Close
  <2>2. \/ armed' = armed /\ failed' = failed
        \/ armed' = 0 /\ failed' = failed + armed
    BY Zenon, <1>2 DEF Close
  <2>3. Numbers
    BY <1>2, <2>2
  <2> QED BY <2>1, <2>3
<1>3. CASE initNetClient \/ sendRequest \/ PostOpen \/ sendData \/ getSession \/ EndRequest
  BY <1>1, <1>3 DEF initNetClient, sendRequest, PostOpen, sendData, getSession, EndRequest
<1>4. CASE cleanupNetClient \/ initTLSSession \/ sendDataFails \/ recvData \/ Timeout
           \/ RecvFailed \/ Answered
  <2>1. /\ UNCHANGED <<open, connected, armed, failed, serverOpen>> \/ Close
        /\ worker' = worker
    BY Zenon, <1>4 DEF cleanupNetClient, initTLSSession, sendDataFails, recvData, Timeout,
                       RecvFailed, Answered
  <2>2. disturbed' = disturbed \/ disturbed' = TRUE
    BY Zenon, <1>4 DEF cleanupNetClient, initTLSSession, sendDataFails, recvData, Timeout,
                       RecvFailed, Answered
  <2>3. \/ recvError' = recvError
        \/ recvError > 0 /\ recvError' = recvError - 1
    BY Zenon, <1>4 DEF cleanupNetClient, initTLSSession, sendDataFails, recvData, Timeout,
                       RecvFailed, Answered
  <2>4. recvError' \in Nat
    BY <2>3
  <2>5. disturbed' \in BOOLEAN
    BY Zenon, <2>2
  <2>6. tlsClient' = tlsClient \/ tlsClient' = TRUE \/ tlsClient' = FALSE
        \/ tlsClient' = (tlsClient /\ ~open)
    BY Zenon, <1>4 DEF cleanupNetClient, initTLSSession, sendDataFails, recvData, Timeout,
                       RecvFailed, Answered
  <2>7. tlsClient' \in BOOLEAN
    BY Zenon, <2>6
  <2> QED BY <1>2, <2>1, <2>4, <2>5, <2>7
<1>5. CASE connectToServer
  <2>1. Flags
    BY Zenon, <1>5 DEF connectToServer
  <2>2. Numbers
    BY <1>5 DEF connectToServer
  <2> QED BY <2>1, <2>2
<1>6. CASE doRecv
  <2>1. disturbed' \in BOOLEAN
    <3>1. PICK n : disturbed' = (disturbed \/ (n < Len(down) /\ down[n] = down[n + 1]))
      BY Zenon, <1>6 DEF doRecv
    <3> QED BY Zenon, <3>1
  <2>2. Flags
    BY Zenon, <1>6, <2>1 DEF doRecv
  <2>3. armed > 0 /\ armed' = armed - 1 /\ worker' = "rearm" /\ failed' = failed
        /\ recvError' = recvError
    BY Zenon, <1>6 DEF doRecv
  <2>4. Numbers
    BY <2>3
  <2> QED BY <2>2, <2>4
<1>7. CASE Rearm \/ doRecvError
  <2>1. Flags
    BY Zenon, <1>7 DEF Rearm, doRecvError
  <2>2. /\ \/ armed' = armed + 1 /\ failed' = failed
           \/ armed' = armed /\ failed' = failed + 1
           \/ armed' = 0 /\ failed > 0 /\ failed' = failed - 1 + armed
           \/ armed' = 0 /\ armed > 0 /\ failed' = failed + armed - 1
        /\ recvError' = recvError \/ recvError' = recvError + 1
        /\ worker' = worker \/ worker' = "idle"
    BY Zenon, <1>7 DEF Rearm, doRecvError
  <2>3. Numbers
    BY <2>2
  <2> QED BY <2>1, <2>3
<1>8. CASE Serve \/ SessionsExpire \/ Lost
  <2>1. UNCHANGED <<recvError, armed, failed, worker, open, connected, tlsClient>>
    BY Zenon, <1>8 DEF Serve, SessionsExpire, Lost
  <2>2. CASE Serve
    BY Zenon, <2>1, <2>2 DEF Serve
  <2>3. CASE SessionsExpire \/ Lost
    BY Zenon, <2>1, <2>3 DEF SessionsExpire, Lost
  <2> QED BY <1>8, <2>2, <2>3
<1>9. CASE UNCHANGED netVars
  BY <1>1, <1>9 DEF netVars
<1> QED BY <1>3, <1>4, <1>5, <1>6, <1>7, <1>8, <1>9 DEF NetNext, Caller, Worker

LEMMA IdIs ==
  ASSUME NEW b \in Issued, b # <<"n">>, b[1] = "id", lastID \in Nat
  PROVE  b[2] \in 1 .. lastID
<1>1. b \in {"id"} \X (1 .. lastID) \/ b \in {"ok", "inv"} \X Nat
  BY Zenon DEF Issued
<1>2. CASE b \in {"id"} \X (1 .. lastID)
  BY <1>2
<1>3. CASE b \in {"ok", "inv"} \X Nat
  BY <1>3
<1> QED BY <1>1, <1>2, <1>3

(* What Serve does for the first request r.                                *)
Reply(r) == IF r.hello THEN <<"id", lastID + 1>>
            ELSE IF r.id \in valid THEN <<"ok", r.k>> ELSE <<"inv", 0>>

LEMMA ServeIs ==
  ASSUME PeerTypes, StreamTypes, Serve
  PROVE  \E r \in Request :
           /\ requests # <<>> /\ r = Head(requests) /\ r = requests[1]
           /\ IF r.hello THEN /\ lastID' = lastID + 1 /\ valid' = valid \union {lastID + 1}
                              /\ executed' = executed
                         ELSE /\ lastID' = lastID /\ valid' = valid
                              /\ executed' = [executed EXCEPT ![r.k] =
                                                @ + IF r.id \in valid THEN 1 ELSE 0]
           /\ IF r.live THEN /\ down' = down \o Answer(Reply(r))
                             /\ serverOpen' = (serverOpen /\ mode.keepAlive)
                        ELSE UNCHANGED <<down, serverOpen>>
           /\ requests' = Tail(requests)
           /\ UNCHANGED <<mode, caller, buffers, socket, worker, expired, disturbed>>
<1>1. requests # <<>> /\ requests \in Seq(Request)
  BY DEF Serve, StreamTypes
<1>2. Head(requests) \in Request /\ Head(requests) = requests[1]
  BY <1>1
<1> QED BY <1>1, <1>2, Zenon DEF Serve, serverState, Answer, Reply

LEMMA ServerTypesNext ==
  ASSUME CallerTypes, PeerTypes, StreamTypes, [NetNext]_netVars
  PROVE  PeerTypes' /\ lastID' \in Nat /\ lastID <= lastID'
<1> USE DEF caller, serverState
<1> DEFINE Goal == PeerTypes' /\ lastID' \in Nat /\ lastID <= lastID'
<1>1. ASSUME UNCHANGED serverState, sessionID' \in 0 .. lastID PROVE Goal
  BY <1>1 DEF PeerTypes
<1>2. ASSUME UNCHANGED <<serverState, sessionID>> PROVE Goal
  BY <1>2 DEF PeerTypes
<1>3. CASE initNetClient \/ cleanupNetClient \/ sendRequest \/ PostOpen \/ sendData \/ recvData
           \/ connectToServer \/ initTLSSession \/ sendDataFails \/ RecvFailed \/ Answered
           \/ Timeout
  BY <1>2, <1>3 DEF initNetClient, cleanupNetClient, sendRequest, PostOpen, sendData, recvData,
                    connectToServer, initTLSSession, sendDataFails, RecvFailed, Answered, Timeout
<1>4. CASE getSession
  <2>1. UNCHANGED serverState
    BY <1>4 DEF getSession
  <2>2. CASE sessionID' = 0
    BY <1>1, <2>1, <2>2 DEF PeerTypes
  <2>3. CASE sessionID' # 0
    <3>1. PICK i \in Session : sessionID' = strBuffer[i][2]
      BY <1>4, <2>3 DEF getSession
    <3>2. i \in DOMAIN strBuffer /\ strBuffer[i] # <<"n">> /\ strBuffer[i][1] = "id"
      BY <3>1 DEF Session, Bodies
    <3>3. strBuffer[i] \in Issued
      BY <3>2 DEF StreamTypes
    <3>4. strBuffer[i][2] \in 1 .. lastID
      BY <3>2, <3>3, IdIs DEF PeerTypes
    <3> QED BY <1>1, <2>1, <3>1, <3>4
  <2> QED BY <2>2, <2>3
<1>5. CASE EndRequest
  <2>1. UNCHANGED serverState /\ (sessionID' = sessionID \/ sessionID' = 0)
    BY <1>5 DEF EndRequest
  <2> QED BY <1>1, <2>1 DEF PeerTypes
<1>6. CASE doRecv \/ Rearm \/ doRecvError \/ Lost
  BY <1>2, <1>6 DEF doRecv, Rearm, doRecvError, Lost
<1>7. CASE Serve
  <2>1. PICK r \in Request :
          /\ IF r.hello THEN /\ lastID' = lastID + 1 /\ valid' = valid \union {lastID + 1}
                             /\ executed' = executed
                        ELSE /\ lastID' = lastID /\ valid' = valid
                             /\ executed' = [executed EXCEPT ![r.k] =
                                               @ + IF r.id \in valid THEN 1 ELSE 0]
          /\ UNCHANGED <<expired, sessionID>>
    BY <1>7, ServeIs
  <2>2. CASE r.hello
    <3>1. lastID' = lastID + 1 /\ valid' = valid \union {lastID + 1}
          /\ UNCHANGED <<executed, expired, sessionID>>
      BY <2>1, <2>2
    <3>2. lastID \in Nat /\ valid \subseteq 1 .. lastID /\ sessionID \in 0 .. lastID
      BY DEF PeerTypes
    <3>3. 1 .. lastID' = (1 .. lastID) \union {lastID + 1}
      BY <3>1, <3>2
    <3>4. valid' \subseteq 1 .. lastID'
      BY <3>1, <3>2, <3>3
    <3> QED BY <3>1, <3>2, <3>4 DEF PeerTypes
  <2>3. CASE ~r.hello
    <3>1. lastID' = lastID /\ valid' = valid /\ executed' \in [1 .. MaxCalls -> Nat]
      BY <2>1, <2>3 DEF PeerTypes, Request
    <3> QED BY <2>1, <3>1 DEF PeerTypes
  <2> QED BY <2>2, <2>3
<1>8. CASE SessionsExpire
  BY <1>8 DEF SessionsExpire, PeerTypes
<1>9. CASE UNCHANGED netVars
  BY <1>2, <1>9 DEF netVars
<1> QED BY <1>3, <1>4, <1>5, <1>6, <1>7, <1>8, <1>9 DEF NetNext, Caller, Worker

(* What has been issued stays issued.                                      *)
LEMMA IssuedGrows ==
  ASSUME lastID \in Nat, lastID' \in Nat, lastID <= lastID'
  PROVE  /\ Seq(Issued) \subseteq Seq(Issued') /\ Seq(Genuine) \subseteq Seq(Genuine')
         /\ Request \subseteq Request'
<1>1. 1 .. lastID \subseteq 1 .. lastID' /\ 0 .. lastID \subseteq 0 .. lastID'
  OBVIOUS
<1>2. Issued \subseteq Issued' /\ Genuine \subseteq Genuine'
  BY Zenon, <1>1 DEF Issued, Genuine
<1>3. Request \subseteq Request'
  BY <1>1 DEF Request
<1> QED BY <1>2, <1>3

LEMMA RepliesAreIssued ==
  ASSUME PeerTypes, NEW r \in Request, lastID' = (IF r.hello THEN lastID + 1 ELSE lastID)
  PROVE  Answer(Reply(r)) \in Seq(Issued')
<1>1. lastID \in Nat
  BY DEF PeerTypes
<1>2. r.k \in 1 .. MaxCalls /\ 1 .. MaxCalls \subseteq Nat /\ 0 \in Nat
  BY DEF Request
<1>3. r.hello => lastID + 1 \in 1 .. lastID'
  BY <1>1
<1>4. Reply(r) \in Issued'
  BY Zenon, <1>2, <1>3 DEF Reply, Issued
<1>5. <<"n">> \in Issued'
  BY Zenon DEF Issued
<1> QED BY <1>4, <1>5 DEF Answer

LEMMA AbandonedIs ==
  ASSUME requests \in Seq(Request)
  PROVE  /\ Abandoned \in Seq(Request) /\ DOMAIN Abandoned = DOMAIN requests
         /\ \A i \in DOMAIN requests : /\ Abandoned[i].k = requests[i].k
                                       /\ Abandoned[i].hello = requests[i].hello
                                       /\ Abandoned[i].id = requests[i].id
<1>1. \A i \in DOMAIN requests : requests[i] \in Request
  OBVIOUS
<1>2. DOMAIN requests = 1 .. Len(requests) /\ Len(requests) \in Nat
  OBVIOUS
<1>3. \A i \in DOMAIN requests : [requests[i] EXCEPT !.live = FALSE] \in Request
  BY <1>1 DEF Request
<1> QED BY <1>1, <1>2, <1>3 DEF Abandoned, Request

(* Apart from Serve, every step leaves the bytes, moves or drops them.     *)
LEMMA BytesMove ==
  ASSUME NEW S, strBuffer \in Seq(S), strRecv \in Seq(S), down \in Seq(S), [NetNext]_netVars, ~Serve
  PROVE  strBuffer' \in Seq(S) /\ strRecv' \in Seq(S) /\ down' \in Seq(S)
<1> USE DEF caller, buffers, stream
<1> DEFINE Goal == strBuffer' \in Seq(S) /\ strRecv' \in Seq(S) /\ down' \in Seq(S)
<1>a. <<>> \in Seq(S)
  OBVIOUS
<1>1. ASSUME strBuffer' \in {strBuffer, <<>>}, strRecv' = strRecv, down' \in {down, <<>>}
      PROVE  Goal
  BY <1>a, <1>1
<1>2. CASE \/ initNetClient \/ cleanupNetClient \/ sendRequest \/ PostOpen \/ sendData
           \/ Timeout \/ Answered \/ Rearm \/ doRecvError \/ SessionsExpire \/ Lost \/ UNCHANGED netVars
  BY <1>1, <1>2 DEF initNetClient, cleanupNetClient, sendRequest, PostOpen, sendData,
           Timeout, Answered, Rearm, doRecvError, SessionsExpire, Lost, netVars, Close, Return
<1>3. GiveUp => strBuffer' = <<>>
  BY DEF GiveUp, Post, Return
<1>4. CASE connectToServer \/ initTLSSession \/ sendDataFails \/ RecvFailed
  BY <1>1, <1>3, <1>4 DEF connectToServer, initTLSSession, sendDataFails, RecvFailed, Close, Return
<1>5. CASE getSession \/ EndRequest
  BY <1>1, <1>5 DEF getSession, EndRequest, Post, Return
<1>6. CASE recvData
  <2>1. down' = down
    BY <1>6 DEF recvData
  <2>2. CASE UNCHANGED <<strRecv, strBuffer>>
    BY <1>1, <2>1, <2>2
  <2>3. CASE strBuffer' = strBuffer \o strRecv /\ strRecv' = <<>>
    BY <1>a, <2>1, <2>3
  <2>4. ASSUME NEW i \in Ends(strRecv),
               strBuffer' = strBuffer \o SubSeq(strRecv, 1, i),
               strRecv' = SubSeq(strRecv, i + 1, Len(strRecv))
        PROVE  Goal
    <3>1. i \in 1 .. Len(strRecv) /\ Len(strRecv) \in Nat
      BY DEF Ends
    <3>2. SubSeq(strRecv, 1, i) \in Seq(S) /\ SubSeq(strRecv, i + 1, Len(strRecv)) \in Seq(S)
      BY <3>1
    <3> QED BY <2>1, <2>4, <3>2
  <2> QED BY <1>6, <2>2, <2>3, <2>4 DEF recvData
<1>7. CASE doRecv
  <2>1. PICK n \in 1 .. Len(down) : strRecv' = strRecv \o SubSeq(down, 1, n)
                                    /\ down' = SubSeq(down, n + 1, Len(down))
    BY <1>7 DEF doRecv
  <2>2. SubSeq(down, 1, n) \in Seq(S) /\ SubSeq(down, n + 1, Len(down)) \in Seq(S)
    OBVIOUS
  <2> QED BY <1>7, <2>1, <2>2 DEF doRecv
<1> QED BY <1>2, <1>4, <1>5, <1>6, <1>7 DEF NetNext, Caller, Worker

(* What can happen to the requests on their way.                           *)
LEMMA RequestsMove ==
  ASSUME [NetNext]_netVars, ~Serve
  PROVE  \/ requests' \in {requests, Abandoned, <<>>}
         \/ sendData
  BY DEF NetNext, Caller, Worker, netVars, caller, buffers, socket, stream, Close,
         initNetClient, cleanupNetClient, sendRequest, PostOpen, connectToServer, initTLSSession,
         sendDataFails, recvData, RecvFailed, Answered, getSession, EndRequest, Timeout, doRecv,
         Rearm, doRecvError, SessionsExpire, Lost

LEMMA StreamTypesNext ==
  ASSUME NetClientAssumption, CallerTypes, SocketTypes, PeerTypes, StreamTypes, [NetNext]_netVars
  PROVE  StreamTypes'
<1>1. lastID \in Nat /\ lastID' \in Nat /\ lastID <= lastID'
  BY ServerTypesNext DEF PeerTypes
<1>2. /\ Seq(Issued) \subseteq Seq(Issued') /\ Request \subseteq Request'
  BY <1>1, IssuedGrows
<1>3. CASE Serve
  <2>1. PICK r \in Request :
          /\ lastID' = (IF r.hello THEN lastID + 1 ELSE lastID)
          /\ down' = down \o Answer(Reply(r)) \/ down' = down
          /\ requests # <<>> /\ requests' = Tail(requests)
          /\ strBuffer' = strBuffer /\ strRecv' = strRecv
    BY <1>3, ServeIs DEF caller, buffers
  <2>2. Answer(Reply(r)) \in Seq(Issued')
    BY <2>1, RepliesAreIssued
  <2>3. down' \in Seq(Issued')
    <3>1. down \in Seq(Issued')
      BY <1>2 DEF StreamTypes
    <3>2. down \o Answer(Reply(r)) \in Seq(Issued')
      BY <2>2, <3>1
    <3> QED BY <2>1, <3>1, <3>2
  <2>4. Tail(requests) \in Seq(Request)
    BY <2>1 DEF StreamTypes
  <2>5. Tail(requests) \in Seq(Request')
    BY <1>2, <2>4
  <2> QED BY <1>2, <2>1, <2>3, <2>5 DEF StreamTypes
<1>4. CASE ~Serve
  <2>1. strBuffer' \in Seq(Issued) /\ strRecv' \in Seq(Issued) /\ down' \in Seq(Issued)
    BY <1>4, BytesMove DEF StreamTypes
  <2>2. requests' \in Seq(Request)
    <3>1. Abandoned \in Seq(Request) /\ <<>> \in Seq(Request) /\ requests \in Seq(Request)
      BY AbandonedIs DEF StreamTypes
    <3>2. CASE sendData
      <4>1. requests' = Append(requests, [k |-> call.k, hello |-> call.hello,
                                          id |-> sessionID, live |-> serverOpen])
        BY <3>2 DEF sendData
      <4>2. call.k = result.k + 1 /\ result.k \in 0 .. MaxCalls /\ call.k \in 0 .. MaxCalls
            /\ call.hello \in BOOLEAN
        BY <3>2 DEF CallerTypes, Active, sendData
      <4>3. call.k \in 1 .. MaxCalls
        BY <4>2 DEF NetClientAssumption
      <4>4. sessionID \in 0 .. lastID /\ serverOpen \in BOOLEAN
        BY DEF PeerTypes, SocketTypes
      <4>5. [k |-> call.k, hello |-> call.hello, id |-> sessionID, live |-> serverOpen] \in Request
        BY <4>2, <4>3, <4>4 DEF Request
      <4> QED BY <3>1, <4>1, <4>5
    <3> QED BY <1>4, <3>1, <3>2, RequestsMove
  <2>3. requests' \in Seq(Request')
    BY <1>2, <2>2
  <2>4. strBuffer' \in Seq(Issued') /\ strRecv' \in Seq(Issued') /\ down' \in Seq(Issued')
    BY <1>2, <2>1
  <2> QED BY <2>3, <2>4 DEF StreamTypes
<1> QED BY <1>3, <1>4

LEMMA TypesNext == ASSUME NetClientAssumption, Types, [NetNext]_netVars PROVE Types'
  BY CallerTypesNext, SocketTypesNext, ServerTypesNext, StreamTypesNext DEF Types

-----------------------------------------------------------------------------
(* No request is executed twice as long as no session is forgotten *)

LEMMA GenuineIs ==
  ASSUME NEW b \in Genuine
  PROVE  b[1] # "inv"
<1>1. b = <<"n">> \/ b \in {"id"} \X (1 .. lastID) \/ b \in {"ok"} \X Nat
  BY Zenon DEF Genuine
<1>2. CASE b = <<"n">>
  BY <1>2
<1>3. CASE b \in {"id"} \X (1 .. lastID)
  BY <1>3
<1>4. CASE b \in {"ok"} \X Nat
  BY <1>4
<1> QED BY <1>1, <1>2, <1>3, <1>4

LEMMA NoInvalid ==
  ASSUME Remembered
  PROVE  ~Retcode("inv")
  BY GenuineIs DEF Remembered, Retcode, Bodies

(* The caller's part.                                                      *)
LEMMA StaysKnown ==
  ASSUME PeerTypes, StreamTypes, CallerTypes, Remembered, [NetNext]_netVars
  PROVE  /\ ~call'.again
         /\ Active' /\ ~call'.hello => sessionID' # 0
<1> USE DEF caller
<1> DEFINE Goal == ~call'.again /\ (Active' /\ ~call'.hello => sessionID' # 0)
<1>0. ~call.again /\ (Active /\ ~call.hello => sessionID # 0)
  BY DEF Remembered
<1>1. ASSUME UNCHANGED <<call, sessionID>>, Active' => Active PROVE Goal
  BY <1>0, <1>1
<1>2. CASE initNetClient \/ cleanupNetClient \/ PostOpen \/ sendData \/ recvData \/ Timeout
           \/ doRecv \/ Rearm \/ doRecvError \/ Serve \/ SessionsExpire \/ Lost \/ UNCHANGED netVars
  BY <1>1, <1>2 DEF initNetClient, cleanupNetClient, PostOpen, sendData, recvData, Timeout,
                    doRecv, Rearm, doRecvError, Serve, SessionsExpire, Lost, netVars, Active
<1>3. CASE sendRequest
  BY <1>3 DEF sendRequest
<1>4. ASSUME NEW ok, NEW answer, Return(ok, answer) PROVE Goal
  BY <1>4 DEF Return, NoCall, Active
<1>5. GiveUp => Goal
  BY <1>0, <1>4 DEF GiveUp
<1>6. CASE connectToServer \/ initTLSSession \/ RecvFailed
  <2>1. CASE GiveUp
    BY <1>5, <2>1
  <2>2. CASE ~GiveUp
    BY <1>1, <1>6, <2>2 DEF connectToServer, initTLSSession, RecvFailed, Active
  <2> QED BY <2>1, <2>2
<1>7. CASE sendDataFails
  <2>1. CASE GiveUp \/ Return(FALSE, {})
    BY <1>4, <1>5, <2>1
  <2>3. CASE ~(GiveUp \/ Return(FALSE, {})) /\ pc' = "crashed"
    <3>1. call' = call /\ sessionID' = sessionID /\ Active
      BY <1>7, <2>3 DEF sendDataFails, Active
    <3> QED BY <1>0, <3>1
  <2>2. CASE ~(GiveUp \/ Return(FALSE, {})) /\ pc' # "crashed"
    <3>1. call' = [call EXCEPT !.resend = TRUE] /\ sessionID' = sessionID /\ Active
      BY <1>7, <2>2 DEF sendDataFails, Active
    <3>2. call'.again = call.again /\ call'.hello = call.hello
      BY <3>1 DEF CallerTypes
    <3> QED BY <1>0, <3>1, <3>2
  <2> QED BY <2>1, <2>2, <2>3
<1>8. CASE Answered
  <2>1. CASE Return(FALSE, {})
    BY <1>4, <2>1
  <2>2. CASE ~Return(FALSE, {})
    BY <1>1, <1>8, <2>2 DEF Answered, Active
  <2> QED BY <2>1, <2>2
<1>9. CASE getSession
  <2>1. CASE Return(FALSE, {})
    BY <1>4, <2>1
  <2>2. CASE ~Return(FALSE, {})
    <3>1. PICK i \in Session : sessionID' = strBuffer[i][2] /\ Post(FALSE, call.again)
      BY <1>0, <1>9, <2>2 DEF getSession
    <3>2. i \in DOMAIN strBuffer /\ strBuffer[i] # <<"n">> /\ strBuffer[i][1] = "id"
      BY <3>1 DEF Session, Bodies
    <3>3. strBuffer[i] \in Issued /\ lastID \in Nat
      BY <3>2 DEF StreamTypes, PeerTypes
    <3>4. strBuffer[i][2] \in 1 .. lastID
      BY <3>2, <3>3, IdIs
    <3>5. call' = [call EXCEPT !.hello = FALSE, !.again = call.again, !.resend = FALSE]
      BY <3>1 DEF Post
    <3>6. call'.again = call.again
      BY <3>5 DEF CallerTypes
    <3> QED BY <1>0, <3>1, <3>3, <3>4, <3>6
  <2> QED BY <2>1, <2>2
<1>10. CASE EndRequest
  <2>1. \E ok, answer : Return(ok, answer)
    BY <1>10, NoInvalid DEF EndRequest
  <2> QED BY <1>4, <2>1
<1> QED BY <1>2, <1>3, <1>6, <1>7, <1>8, <1>9, <1>10 DEF NetNext, Caller, Worker

LEMMA RememberedNext ==
  ASSUME Types, Remembered, WrittenOnce, [NetNext]_netVars, expired' = 0
  PROVE  Remembered'
<1>0. CallerTypes /\ SocketTypes /\ PeerTypes /\ StreamTypes
  BY DEF Types
<1>1. lastID \in Nat /\ lastID' \in Nat /\ lastID <= lastID'
  BY <1>0, ServerTypesNext DEF PeerTypes
<1>2. Seq(Genuine) \subseteq Seq(Genuine')
  BY <1>1, IssuedGrows
<1>3. ~call'.again /\ (Active' /\ ~call'.hello => sessionID' # 0)
  BY <1>0, StaysKnown
<1>4. strBuffer \in Seq(Genuine) /\ strRecv \in Seq(Genuine) /\ down \in Seq(Genuine)
      /\ valid = 1 .. lastID
  BY DEF Remembered
<1>5. CASE Serve
  <2>1. PICK r \in Request :
          /\ requests # <<>> /\ r = requests[1]
          /\ IF r.hello THEN lastID' = lastID + 1 /\ valid' = valid \union {lastID + 1}
                        ELSE lastID' = lastID /\ valid' = valid
          /\ down' = down \o Answer(Reply(r)) \/ down' = down
          /\ strBuffer' = strBuffer /\ strRecv' = strRecv
    BY <1>0, <1>5, ServeIs DEF caller, buffers
  <2>3. r.id \in 0 .. lastID /\ r.k \in 1 .. MaxCalls /\ r.hello \in BOOLEAN
    BY DEF Request
  <2>2. valid' = 1 .. lastID'
    <3>1. 1 .. (lastID + 1) = (1 .. lastID) \union {lastID + 1}
      BY <1>1
    <3>2. CASE r.hello
      BY <1>4, <2>1, <3>1, <3>2
    <3>3. CASE ~r.hello
      BY <1>4, <2>1, <3>3
    <3> QED BY <3>2, <3>3
  <2>4. ~r.hello => r.id \in valid
    <3>1. 1 \in DOMAIN requests
      BY <1>0, <2>1 DEF StreamTypes
    <3>2. ~r.hello => r.id # 0
      BY <2>1, <3>1 DEF WrittenOnce
    <3> QED BY <1>1, <1>4, <2>3, <3>2
  <2>5. Reply(r) \in Genuine'
    <3>1. CASE r.hello
      <4>1. Reply(r) = <<"id", lastID + 1>> /\ lastID + 1 \in 1 .. lastID'
        BY <1>1, <2>1, <3>1 DEF Reply
      <4>2. Reply(r) \in {"id"} \X (1 .. lastID')
        BY <4>1
      <4> QED BY Zenon, <4>2 DEF Genuine
    <3>2. CASE ~r.hello
      <4>1. Reply(r) = <<"ok", r.k>> /\ r.k \in Nat
        BY <2>3, <2>4, <3>2 DEF Reply
      <4>2. Reply(r) \in {"ok"} \X Nat
        BY <4>1
      <4> QED BY Zenon, <4>2 DEF Genuine
    <3> QED BY <3>1, <3>2
  <2>6. <<"n">> \in Genuine'
    BY Zenon DEF Genuine
  <2>7. Answer(Reply(r)) \in Seq(Genuine')
    BY <2>5, <2>6 DEF Answer
  <2>8. down \o Answer(Reply(r)) \in Seq(Genuine')
    BY <1>2, <1>4, <2>7
  <2> QED BY <1>2, <1>3, <1>4, <2>1, <2>2, <2>8 DEF Remembered
<1>6. CASE ~Serve
  <2>1. strBuffer' \in Seq(Genuine) /\ strRecv' \in Seq(Genuine) /\ down' \in Seq(Genuine)
    BY <1>4, <1>6, BytesMove
  <2>2. ~SessionsExpire
    BY <1>0 DEF SessionsExpire, PeerTypes
  <2>3. valid' = valid /\ lastID' = lastID
    BY <1>6, <2>2 DEF NetNext, Caller, Worker, netVars, serverState,
         initNetClient, cleanupNetClient, sendRequest, PostOpen, connectToServer, initTLSSession,
         sendData, sendDataFails, recvData, RecvFailed, Answered, getSession, EndRequest, Timeout,
         doRecv, Rearm, doRecvError, Lost
  <2> QED BY <1>2, <1>3, <1>4, <2>1, <2>3 DEF Remembered
<1> QED BY <1>5, <1>6

LEMMA WrittenStays ==
  ASSUME CallerTypes, Remembered, [NetNext]_netVars, NEW k \in Nat, Written(k)
  PROVE  Written(k)'
<1> USE DEF caller
<1>0. ~call.again
  BY DEF Remembered
<1>1. ASSUME UNCHANGED <<call, result>>,
             pc \in {"recv", "fail", "answered", "evaluate"}
               => pc' \in {"recv", "fail", "answered", "evaluate"}
      PROVE  Written(k)'
  BY <1>1 DEF Written
<1>2. CASE \/ initNetClient \/ cleanupNetClient \/ PostOpen \/ sendData \/ recvData \/ Timeout
           \/ doRecv \/ Rearm \/ doRecvError \/ Serve \/ SessionsExpire \/ Lost \/ UNCHANGED netVars
  BY <1>1, <1>2 DEF initNetClient, cleanupNetClient, PostOpen, sendData, recvData, Timeout,
                    doRecv, Rearm, doRecvError, Serve, SessionsExpire, Lost, netVars
<1>3. ASSUME NEW ok, NEW answer, Return(ok, answer), Active PROVE Written(k)'
  BY <1>3 DEF Return, Written, CallerTypes
<1>4. ASSUME k <= result.k, result' = result PROVE Written(k)'
  BY <1>4 DEF Written
<1>5. GiveUp /\ Active => Written(k)'
  BY <1>0, <1>3 DEF GiveUp
<1>6. CASE sendRequest
  BY <1>4, <1>6 DEF sendRequest, Written
<1>7. CASE connectToServer \/ initTLSSession \/ RecvFailed
  <2>1. CASE GiveUp
    BY <1>5, <1>7, <2>1 DEF connectToServer, initTLSSession, RecvFailed, Active
  <2>2. CASE ~GiveUp
    BY <1>4, <1>7, <2>2 DEF connectToServer, initTLSSession, RecvFailed, Written
  <2> QED BY <2>1, <2>2
<1>8. CASE sendDataFails
  <2>1. pc = "send" /\ Active /\ (GiveUp \/ Return(FALSE, {}) \/ result' = result)
    BY <1>8 DEF sendDataFails, Active
  <2> QED BY <1>3, <1>4, <1>5, <2>1 DEF Written
<1>9. CASE Answered
  <2>1. CASE Return(FALSE, {})
    BY <1>3, <1>9, <2>1 DEF Answered, Active
  <2>2. CASE ~Return(FALSE, {})
    BY <1>1, <1>9, <2>2 DEF Answered
  <2> QED BY <2>1, <2>2
<1>10. CASE getSession
  <2>1. call.hello /\ Active /\ (Return(FALSE, {}) \/ result' = result)
    BY <1>10 DEF getSession, Active, Post
  <2> QED BY <1>3, <1>4, <2>1 DEF Written
<1>11. CASE EndRequest
  <2>1. Active /\ \E ok, answer : Return(ok, answer)
    BY <1>11, NoInvalid DEF EndRequest, Active
  <2> QED BY <1>3, <2>1
<1> QED BY <1>2, <1>6, <1>7, <1>8, <1>9, <1>10, <1>11 DEF NetNext, Caller, Worker

LEMMA WrittenOnceNext ==
  ASSUME NetClientAssumption, Types, Remembered, WrittenOnce, [NetNext]_netVars
  PROVE  WrittenOnce'
<1>0. CallerTypes /\ SocketTypes /\ PeerTypes /\ StreamTypes
  BY DEF Types
<1>1. requests \in Seq(Request) /\ requests' \in Seq(Request')
  BY <1>0, StreamTypesNext DEF StreamTypes
<1>2. \A i \in DOMAIN requests : requests[i] \in Request
  BY <1>1
<1>3. \A k \in 1 .. MaxCalls : Written(k) => Written(k)'
  BY <1>0, WrittenStays
<1>a. \A i, j \in DOMAIN requests :
        ~requests[i].hello /\ ~requests[j].hello /\ requests[i].k = requests[j].k => i = j
  BY DEF WrittenOnce
<1>b. \A k \in 1 .. MaxCalls : /\ Pending(k) => Written(k) /\ executed[k] = 0
                               /\ executed[k] > 0 => Written(k)
                               /\ executed[k] <= 1
  BY DEF WrittenOnce
<1>c. \A i \in DOMAIN requests : ~requests[i].hello => requests[i].id # 0
  BY DEF WrittenOnce
<1> DEFINE HasId ==  \A i \in DOMAIN requests' : ~requests'[i].hello => requests'[i].id # 0
           Apart == \A i, j \in DOMAIN requests' :
             ~requests'[i].hello /\ ~requests'[j].hello /\ requests'[i].k = requests'[j].k => i = j
           Fine(k) == /\ Pending(k)' => Written(k)' /\ executed'[k] = 0
                      /\ executed'[k] > 0 => Written(k)'
                      /\ executed'[k] <= 1
<1>d. ASSUME NEW k \in 1 .. MaxCalls
      PROVE  /\ Written(k) => Written(k)'
             /\ Pending(k) => Written(k) /\ executed[k] = 0
             /\ executed[k] > 0 => Written(k)
             /\ executed[k] <= 1 /\ executed[k] \in Nat
  <2>1. executed[k] \in Nat
    BY <1>0 DEF PeerTypes
  <2> QED BY Zenon, <1>3, <1>b, <2>1
<1> SUFFICES HasId /\ Apart /\ \A k \in 1 .. MaxCalls : Fine(k)
  BY DEF WrittenOnce
<1>4. CASE Serve
  <2>1. PICK r \in Request :
          /\ requests # <<>> /\ r = requests[1]
          /\ executed' = IF r.hello THEN executed
                         ELSE [executed EXCEPT ![r.k] = @ + IF r.id \in valid THEN 1 ELSE 0]
          /\ requests' = Tail(requests)
    BY <1>0, <1>4, ServeIs
  <2>2. /\ DOMAIN requests' = 1 .. Len(requests) - 1 /\ Len(requests) \in Nat \ {0}
        /\ DOMAIN requests = 1 .. Len(requests)
        /\ \A i \in DOMAIN requests' : requests'[i] = requests[i + 1]
    BY <1>1, <2>1
  <2>3. \A i \in DOMAIN requests' : i + 1 \in DOMAIN requests /\ i + 1 # 1 /\ i \in Int
    BY <2>2
  <2>4. 1 \in DOMAIN requests /\ r.k \in 1 .. MaxCalls /\ r.hello \in BOOLEAN
    BY <2>2 DEF Request
  <2>5. ASSUME NEW k \in 1 .. MaxCalls
        PROVE  \/ executed'[k] = executed[k]
               \/ ~r.hello /\ k = r.k /\ executed'[k] = executed[k] + 1
    BY <1>0, <2>1, <2>4 DEF PeerTypes
  <2>6. HasId
    BY <1>c, <2>2, <2>3
  <2>7. Apart
    <3> SUFFICES ASSUME NEW i \in DOMAIN requests', NEW j \in DOMAIN requests',
                        ~requests'[i].hello, ~requests'[j].hello, requests'[i].k = requests'[j].k
                 PROVE  i = j
      OBVIOUS
    <3>1. i + 1 = j + 1
      BY <1>a, <2>2, <2>3
    <3> QED BY <2>3, <3>1
  <2>8. ASSUME NEW k \in 1 .. MaxCalls PROVE Fine(k)
    <3>1. Pending(k)' => Pending(k) /\ ~(~r.hello /\ k = r.k)
      <4> SUFFICES ASSUME NEW i \in DOMAIN requests', ~requests'[i].hello, requests'[i].k = k
                   PROVE  Pending(k) /\ ~(~r.hello /\ k = r.k)
        BY DEF Pending
      <4>1. requests'[i] = requests[i + 1] /\ i + 1 \in DOMAIN requests /\ i + 1 # 1
        BY <2>2, <2>3
      <4> QED BY <1>a, <2>1, <2>4, <4>1 DEF Pending
    <3>2. CASE executed'[k] = executed[k]
      BY <1>d, <3>1, <3>2
    <3>3. CASE ~r.hello /\ k = r.k /\ executed'[k] = executed[k] + 1
      <4>1. Pending(k)
        BY <2>1, <2>4, <3>3 DEF Pending
      <4>2. Written(k)' /\ executed'[k] = 1
        BY <1>d, <3>3, <4>1
      <4> QED BY <3>1, <3>3, <4>2
    <3> QED BY <2>5, <3>2, <3>3
  <2> QED BY <2>6, <2>7, <2>8
<1>5. CASE sendData
  <2>1. /\ pc = "send" /\ pc' = "recv" /\ UNCHANGED <<call, result, executed>>
        /\ requests' = Append(requests, [k |-> call.k, hello |-> call.hello,
                                         id |-> sessionID, live |-> serverOpen])
    BY <1>5 DEF sendData, caller, serverState
  <2>2. call.k = result.k + 1 /\ result.k \in 0 .. MaxCalls /\ call.k \in 0 .. MaxCalls
    BY <1>0, <2>1 DEF CallerTypes, Active
  <2>3. call.k \in 1 .. MaxCalls /\ ~Written(call.k)
    BY <2>1, <2>2 DEF NetClientAssumption, Written
  <2>4. /\ DOMAIN requests = 1 .. Len(requests) /\ Len(requests) \in Nat
        /\ DOMAIN requests' = 1 .. Len(requests) + 1
        /\ \A i \in DOMAIN requests : requests'[i] = requests[i]
    BY <1>1, <2>1
  <2>5. /\ requests'[Len(requests) + 1].id = sessionID
        /\ requests'[Len(requests) + 1].k = call.k
        /\ requests'[Len(requests) + 1].hello = call.hello
    BY <1>1, <2>1
  <2>6. \A i \in DOMAIN requests' : i \in DOMAIN requests \/ i = Len(requests) + 1
    BY <2>4
  <2>7. ~call.hello => sessionID # 0
    BY <2>1 DEF Remembered, Active
  <2>8. \A i \in DOMAIN requests : ~requests[i].hello => requests[i].k # call.k
    BY <1>d, <2>3 DEF Pending
  <2>9. executed[call.k] = 0
    BY <1>d, <2>3
  <2>10. HasId
    BY <1>c, <2>4, <2>5, <2>6, <2>7
  <2>11. Apart
    BY <1>a, <2>4, <2>5, <2>6, <2>8
  <2>12. ASSUME NEW k \in 1 .. MaxCalls PROVE Fine(k)
    <3>1. Pending(k)' => Pending(k) \/ (k = call.k /\ ~call.hello)
      BY <2>4, <2>5, <2>6 DEF Pending
    <3>2. k = call.k /\ ~call.hello => Written(k)'
      BY <2>1 DEF Written
    <3> QED BY <1>d, <2>1, <2>9, <3>1, <3>2
  <2> QED BY <2>10, <2>11, <2>12
<1>6. CASE ~Serve /\ ~sendData
  <2>1. executed' = executed
    BY <1>6 DEF NetNext, Caller, Worker, netVars, serverState,
         initNetClient, cleanupNetClient, sendRequest, PostOpen, connectToServer, initTLSSession,
         sendDataFails, recvData, RecvFailed, Answered, getSession, EndRequest, Timeout,
         doRecv, Rearm, doRecvError, SessionsExpire, Lost
  <2>2. requests' \in {requests, Abandoned, <<>>}
    BY <1>6, RequestsMove
  <2>3. /\ DOMAIN requests' \subseteq DOMAIN requests
        /\ \A i \in DOMAIN requests' : /\ requests'[i].k = requests[i].k
                                       /\ requests'[i].hello = requests[i].hello
                                       /\ requests'[i].id = requests[i].id
    <3>1. /\ DOMAIN Abandoned = DOMAIN requests
          /\ \A i \in DOMAIN requests : /\ Abandoned[i].k = requests[i].k
                                        /\ Abandoned[i].hello = requests[i].hello
                                        /\ Abandoned[i].id = requests[i].id
      BY <1>1, AbandonedIs
    <3>2. CASE requests' = requests
      BY <3>2
    <3>3. CASE requests' = Abandoned
      BY <3>1, <3>3
    <3>4. CASE requests' = <<>>
      BY <3>4
    <3> QED BY <2>2, <3>2, <3>3, <3>4
  <2>4. HasId
    BY <1>c, <2>3
  <2>5. Apart
    BY <1>a, <2>3
  <2>6. ASSUME NEW k \in 1 .. MaxCalls PROVE Fine(k)
    <3>1. Pending(k)' => Pending(k)
      BY <2>3 DEF Pending
    <3> QED BY <1>d, <2>1, <3>1
  <2> QED BY <2>4, <2>5, <2>6
<1> QED BY <1>4, <1>5, <1>6

LEMMA NoneForgottenNext ==
  ASSUME NetClientAssumption, Types, NoneForgotten, [NetNext]_netVars
  PROVE  NoneForgotten'
<1>1. expired' = 0 => expired = 0
  <2>1. expired \in Nat
    BY DEF Types, PeerTypes
  <2>2. expired' = expired \/ expired' = expired + 1
    BY Zenon DEF NetNext, Caller, Worker, netVars, serverState, initNetClient, cleanupNetClient,
         sendRequest, PostOpen, connectToServer, initTLSSession, sendData, sendDataFails,
         recvData, RecvFailed, Answered, getSession, EndRequest, Timeout,
         doRecv, Rearm, doRecvError, Serve, SessionsExpire, Lost
  <2> QED BY <2>1, <2>2
<1> QED BY <1>1, RememberedNext, WrittenOnceNext DEF NoneForgotten

-----------------------------------------------------------------------------
(* The kept connection: what the bytes of an answer look like *)

LEMMA SmallSequences ==
  ASSUME NEW b
  PROVE  /\ <<>> \o <<b>> = <<b>> /\ <<>> \o Answer(b) = Answer(b) /\ <<>> \o End = End
         /\ <<b>> \o End = Answer(b)
         /\ SubSeq(End, 1, 2) = End /\ SubSeq(End, 3, 2) = <<>>
         /\ SubSeq(Answer(b), 1, 3) = Answer(b) /\ SubSeq(Answer(b), 4, 3) = <<>>
         /\ SubSeq(Answer(b), 1, 1) = <<b>> /\ SubSeq(Answer(b), 2, 3) = End
         /\ Len(End) = 2 /\ Len(Answer(b)) = 3 /\ Len(<<b>>) = 1
         /\ End # <<>> /\ Answer(b) # <<>> /\ <<b>> # <<>>
         /\ Answer(b)[2] = Answer(b)[3] /\ End[1] = End[2]
<1> DEFINE T == {b, <<"n">>}
<1>1. Answer(b) \in Seq(T) /\ End \in Seq(T) /\ <<b>> \in Seq(T) /\ <<>> \in Seq(T)
  BY DEF Answer, End
<1>2. /\ Len(Answer(b)) = 3 /\ Answer(b)[1] = b /\ Answer(b)[2] = <<"n">> /\ Answer(b)[3] = <<"n">>
      /\ Len(End) = 2 /\ End[1] = <<"n">> /\ End[2] = <<"n">>
      /\ Len(<<b>>) = 1 /\ <<b>>[1] = b
  BY DEF Answer, End
<1> HIDE DEF T
<1>3. <<>> \o <<b>> = <<b>> /\ <<>> \o Answer(b) = Answer(b) /\ <<>> \o End = End
  BY <1>1
<1>4. <<b>> \o End = Answer(b)
  <2>1. <<b>> \o End \in Seq(T) /\ Len(<<b>> \o End) = 3
    BY SMTT(30), <1>1, <1>2
  <2>2. (<<b>> \o End)[1] = b /\ (<<b>> \o End)[2] = <<"n">> /\ (<<b>> \o End)[3] = <<"n">>
    BY <1>1, <1>2, ConcatProperties
  <2>3. \A i \in 1 .. 3 : i = 1 \/ i = 2 \/ i = 3
    OBVIOUS
  <2>4. \A i \in 1 .. Len(<<b>> \o End) : (<<b>> \o End)[i] = Answer(b)[i]
    BY <1>2, <2>1, <2>2, <2>3
  <2> QED BY <1>1, <1>2, <2>1, <2>4, SeqEqual
<1>5. SubSeq(End, 1, 2) = End
  BY <1>1, <1>2
<1>6. SubSeq(Answer(b), 1, 3) = Answer(b)
  BY <1>1, <1>2
<1>7. SubSeq(End, 3, 2) = <<>> /\ SubSeq(Answer(b), 4, 3) = <<>>
  BY <1>1, <1>2
<1>8. SubSeq(Answer(b), 1, 1) = <<b>>
  <2>1. SubSeq(Answer(b), 1, 1) \in Seq(T) /\ Len(SubSeq(Answer(b), 1, 1)) = 1
        /\ SubSeq(Answer(b), 1, 1)[1] = b
    BY <1>1, <1>2
  <2>2. \A i \in 1 .. Len(SubSeq(Answer(b), 1, 1)) : SubSeq(Answer(b), 1, 1)[i] = <<b>>[i]
    BY <1>2, <2>1
  <2> QED BY <1>1, <1>2, <2>1, <2>2, SeqEqual
<1>9. SubSeq(Answer(b), 2, 3) = End
  BY <1>1, <1>2
<1>10. End # <<>> /\ Answer(b) # <<>> /\ <<b>> # <<>>
  BY <1>2
<1> QED BY <1>2, <1>3, <1>4, <1>5, <1>6, <1>7, <1>8, <1>9, <1>10

LEMMA AnswerIs ==
  ASSUME NEW b, b # <<"n">>
  PROVE  /\ Ends(<<b>>) = {} /\ Ends(End) = {2} /\ Ends(Answer(b)) = {3}
         /\ Bodies(Answer(b)) = {1} /\ Answer(b)[1] = b
<1>1. Ends(<<b>>) = {}
  BY DEF Ends
<1>2. Ends(End) = {2}
  BY DEF Ends, End
<1>3. Ends(Answer(b)) = {3}
  <2>1. 2 .. 3 = {2, 3}
    OBVIOUS
  <2>2. /\ Len(Answer(b)) = 3 /\ Answer(b)[1] = b
        /\ Answer(b)[2] = <<"n">> /\ Answer(b)[3] = <<"n">>
    BY DEF Answer
  <2>3. 2 - 1 = 1 /\ 3 - 1 = 2
    OBVIOUS
  <2> QED BY <2>1, <2>2, <2>3 DEF Ends
<1>4. Bodies(Answer(b)) = {1} /\ Answer(b)[1] = b
  <2>1. DOMAIN Answer(b) = {1, 2, 3}
    BY DEF Answer
  <2>2. /\ Answer(b)[1] = b /\ Answer(b)[2] = <<"n">> /\ Answer(b)[3] = <<"n">>
    BY DEF Answer
  <2> QED BY <2>1, <2>2 DEF Bodies
<1> QED BY <1>1, <1>2, <1>3, <1>4

LEMMA BodilyIs ==
  ASSUME NEW b \in Bodily
  PROVE  b # <<"n">> /\ b \in {<<"id", lastID>>, <<"ok", call.k>>, <<"inv", 0>>}
<1>1. Len(<<"n">>) = 1 /\ Len(<<"id", lastID>>) = 2 /\ Len(<<"ok", call.k>>) = 2 /\ Len(<<"inv", 0>>) = 2
  OBVIOUS
<1>2. b \in {<<"id", lastID>>, <<"ok", call.k>>, <<"inv", 0>>}
  BY DEF Bodily
<1>3. Len(b) = 2
  BY <1>1, <1>2
<1> QED BY <1>1, <1>2, <1>3

LEMMA NoneAbandoned ==
  ASSUME requests = <<>>
  PROVE  Abandoned = <<>>
<1>1. requests \in Seq(Request) /\ DOMAIN requests = {}
  BY DEF Request
<1>2. Abandoned \in Seq(Request) /\ DOMAIN Abandoned = {}
  BY <1>1, AbandonedIs
<1> QED BY <1>2

(* The answer read completely: what the caller finds in it.                *)
LEMMA ContentIs ==
  ASSUME NEW b \in Bodily, strBuffer = Answer(b)
  PROVE  /\ Bodies(strBuffer) = {1} /\ strBuffer[1] = b
         /\ {strBuffer[i] : i \in Bodies(strBuffer)} = {b}
         /\ \A kind : Retcode(kind) <=> b[1] = kind
         /\ b[1] = "id" => Session = {1}
<1>1. Bodies(strBuffer) = {1} /\ strBuffer[1] = b
  BY BodilyIs, AnswerIs
<1>2. {strBuffer[i] : i \in Bodies(strBuffer)} = {b}
  BY <1>1
<1>3. \A kind : Retcode(kind) <=> b[1] = kind
  BY <1>1 DEF Retcode
<1>4. b[1] = "id" => Session = {1}
  BY <1>1 DEF Session
<1> QED BY <1>1, <1>2, <1>3, <1>4

-----------------------------------------------------------------------------
(* The kept connection: what every step does *)

LEMMA ExactStays ==
  ASSUME Exact, UNCHANGED <<result, executed>>, call.k = 0 \/ call'.k = call.k,
         expired \in Nat, expired' \in Nat, expired <= expired'
  PROVE  Exact'
  BY DEF Exact, Own

LEMMA KnownStays ==
  ASSUME Known, UNCHANGED <<call, sessionID, valid, expired>>, Active' => Active
  PROVE  Known'
  BY DEF Known

(* Before the request is written, and between the calls.                   *)
LEMMA CallStarts ==
  ASSUME NetClientAssumption, Types, Good, ~disturbed',
         initNetClient \/ cleanupNetClient \/ sendRequest \/ PostOpen
  PROVE  Good'
<1> USE DEF caller, buffers, socket, stream, serverState
<1>0. CallerTypes /\ SocketTypes /\ PeerTypes /\ pc \in {"off", "idle", "post"}
  BY DEF Types, initNetClient, cleanupNetClient, sendRequest, PostOpen
<1>1. /\ requests = <<>> /\ down = <<>> /\ strRecv = <<>> /\ strBuffer = <<>> /\ Unserved
      /\ Known /\ Exact /\ Connected
  BY <1>0 DEF Good, Stage, Silent
<1>2. UNCHANGED <<strRecv, strBuffer, sessionID, result, recvError, worker, valid, lastID, expired,
                  executed, mode, disturbed>>
      /\ pc' \in {"idle", "failed", "gone", "post", "send"}
  BY DEF initNetClient, cleanupNetClient, sendRequest, PostOpen
<1>3. requests' = <<>> /\ down' = <<>>
  <2>1. CASE cleanupNetClient
    BY <1>1, <2>1, NoneAbandoned DEF cleanupNetClient, Close
  <2>2. CASE initNetClient \/ sendRequest \/ PostOpen
    BY <1>1, <2>2 DEF initNetClient, sendRequest, PostOpen
  <2> QED BY <2>1, <2>2
<1>4. call.k = 0 \/ call'.k = call.k
  BY <1>0 DEF initNetClient, cleanupNetClient, sendRequest, PostOpen, CallerTypes, Active, NoCall
<1>5. Exact'
  BY <1>0, <1>1, <1>2, <1>4, ExactStays DEF PeerTypes
<1>6. Known'
  <2>1. CASE sendRequest
    <3>1. call' = [k |-> result.k + 1, hello |-> sessionID = 0, again |-> FALSE, resend |-> FALSE]
      BY <2>1 DEF sendRequest
    <3>2. ~call'.again /\ (call'.hello <=> sessionID = 0)
      BY <3>1
    <3> QED BY <1>1, <1>2, <3>2 DEF Known
  <2>2. CASE initNetClient \/ cleanupNetClient \/ PostOpen
    BY <1>1, <1>2, <2>2, KnownStays DEF initNetClient, cleanupNetClient, PostOpen, Active
  <2> QED BY <2>1, <2>2
<1>7. Unserved'
  <2>1. CASE sendRequest
    <3>1. /\ pc = "idle" /\ result.k < MaxCalls /\ call'.k = result.k + 1
      BY <2>1 DEF sendRequest
    <3>2. call.k = 0 /\ result.k \in 0 .. MaxCalls
      BY <1>0, <3>1 DEF CallerTypes, Active, NoCall
    <3>3. call'.k \in 1 .. MaxCalls /\ call'.k > result.k /\ call'.k # call.k
      BY <3>1, <3>2 DEF NetClientAssumption
    <3>4. executed[call'.k] = 0
      BY <1>1, <3>3 DEF Exact
    <3> QED BY <1>2, <3>4 DEF Unserved
  <2>2. CASE initNetClient \/ cleanupNetClient \/ PostOpen
    BY <1>1, <1>2, <2>2 DEF initNetClient, cleanupNetClient, PostOpen, Unserved, Active
  <2> QED BY <2>1, <2>2
<1>8. Stage'
  BY <1>1, <1>2, <1>3, <1>7 DEF Stage, Silent
<1>9. pc' # "gone" => Connected'
  BY <1>1 DEF initNetClient, cleanupNetClient, sendRequest, PostOpen, Connected
<1> QED BY <1>5, <1>6, <1>8, <1>9 DEF Good

LEMMA CallConnects ==
  ASSUME Types, Good, ~disturbed', connectToServer \/ initTLSSession
  PROVE  Good'
<1> USE DEF caller, buffers, socket, stream, serverState
<1>0. CallerTypes /\ SocketTypes /\ PeerTypes /\ pc \in {"post", "handshake"}
  BY DEF Types, connectToServer, initTLSSession
<1>1. /\ requests = <<>> /\ down = <<>> /\ strRecv = <<>> /\ strBuffer = <<>> /\ Unserved
      /\ Known /\ Exact /\ Connected
  BY <1>0 DEF Good, Stage, Silent
<1>2. UNCHANGED <<strRecv, strBuffer, sessionID, result, worker, valid, lastID, expired,
                  executed, mode, requests, down, call, failed>>
      /\ pc' \in {"handshake", "send"} /\ recvError' = 0
  BY <1>1 DEF connectToServer, initTLSSession, Connected
<1>3. Exact'
  BY <1>0, <1>1, <1>2, ExactStays DEF PeerTypes
<1>4. Known'
  BY <1>0, <1>1, <1>2, KnownStays DEF Active
<1>5. Unserved'
  BY <1>0, <1>1, <1>2 DEF Unserved, Active
<1>6. Stage'
  BY <1>1, <1>2, <1>5 DEF Stage, Silent
<1>7. Connected'
  <2>1. CASE connectToServer
    <3>1. ~open /\ open' = TRUE /\ connected' = TRUE /\ armed' = 1 /\ serverOpen' = TRUE
      BY <2>1 DEF connectToServer
    <3>2. worker = "idle" /\ failed = 0
      BY <1>1, <3>1 DEF Connected
    <3> QED BY <1>2, <3>1, <3>2 DEF Connected
  <2>2. CASE initTLSSession
    <3>1. open /\ UNCHANGED <<open, connected, armed, serverOpen>>
      BY <2>2 DEF initTLSSession
    <3> QED BY <1>1, <1>2, <3>1 DEF Connected
  <2> QED BY <2>1, <2>2
<1> QED BY <1>3, <1>4, <1>6, <1>7 DEF Good

LEMMA RequestIsSent ==
  ASSUME Types, Good, sendData
  PROVE  Good'
<1> USE DEF caller, buffers, socket, stream, serverState
<1>0. CallerTypes /\ SocketTypes /\ PeerTypes /\ pc = "send" /\ connected
  BY DEF Types, sendData
<1>1. /\ requests = <<>> /\ down = <<>> /\ strRecv = <<>> /\ strBuffer = <<>> /\ Unserved
      /\ Known /\ Exact /\ Connected
  BY <1>0 DEF Good, Stage, Silent
<1>2. UNCHANGED <<strRecv, strBuffer, sessionID, result, worker, valid, lastID, expired,
                  executed, mode, down, call, failed, armed, open, connected, serverOpen, recvError>>
      /\ pc' = "recv"
  BY DEF sendData
<1>3. Exact'
  BY <1>0, <1>1, <1>2, ExactStays DEF PeerTypes
<1>4. Known'
  BY <1>0, <1>1, <1>2, KnownStays DEF Active
<1>5. Unserved'
  BY <1>0, <1>1, <1>2 DEF Unserved, Active
<1>6. requests' = <<TheRequest>>
  <2>1. requests' = Append(requests, [k |-> call.k, hello |-> call.hello,
                                      id |-> sessionID, live |-> serverOpen])
    BY DEF sendData
  <2>2. serverOpen = TRUE
    BY <1>0, <1>1 DEF Connected, SocketTypes
  <2>3. requests' = Append(<<>>, TheRequest)
    BY <1>1, <2>1, <2>2 DEF TheRequest
  <2> QED BY <2>3
<1>7. TheRequest' = TheRequest
  BY <1>2 DEF TheRequest
<1>8. Stage'
  BY <1>1, <1>2, <1>5, <1>6, <1>7 DEF Stage
<1>9. Connected'
  BY <1>0, <1>1, <1>2 DEF Connected
<1> QED BY <1>3, <1>4, <1>8, <1>9 DEF Good

LEMMA Waiting ==
  ASSUME Good, pc = "recv"
  PROVE  \/ /\ requests = <<TheRequest>> /\ Unserved
            /\ down = <<>> /\ strRecv = <<>> /\ strBuffer = <<>>
         \/ /\ requests = <<>>
            /\ \E b \in Bodily : Replies(b) /\ Coming(b)
  BY DEF Good, Stage

LEMMA RepliesStay ==
  ASSUME NEW b \in Bodily, Replies(b), UNCHANGED <<call, executed, lastID, valid, expired>>
  PROVE  b \in Bodily' /\ Replies(b)'
  BY DEF Replies, Bodily

LEMMA AnswerIsRead ==
  ASSUME Types, Good, recvData
  PROVE  Good'
<1> USE DEF caller, buffers, socket, stream, serverState
<1>0. CallerTypes /\ PeerTypes /\ pc = "recv" /\ Known /\ Exact /\ Connected
  BY DEF Types, recvData, Good
<1>1. recvError = 0 /\ recvError' = 0 /\ strRecv # <<>>
  BY <1>0 DEF recvData, Connected
<1>a. ~(recvError > 0)
  BY <1>1
<1>2. UNCHANGED <<sessionID, result, worker, valid, lastID, expired, requests,
                  executed, mode, down, call, failed, armed, open, connected, serverOpen>>
      /\ pc' \in {"recv", "answered"}
  BY <1>0, <1>a DEF recvData
<1>3. PICK b \in Bodily : Replies(b) /\ Coming(b)
  BY <1>0, <1>1, Waiting
<1>4. requests = <<>>
  BY <1>0, <1>1, Waiting
<1>5. b # <<"n">> /\ b \in Bodily' /\ Replies(b)'
  BY <1>2, <1>3, RepliesStay, BodilyIs
<1>6. \/ /\ pc' = "recv" /\ Ends(strRecv) = {}
         /\ strBuffer' = strBuffer \o strRecv /\ strRecv' = <<>>
      \/ /\ pc' = "answered"
         /\ \E i \in Ends(strRecv) : /\ strBuffer' = strBuffer \o SubSeq(strRecv, 1, i)
                                     /\ strRecv' = SubSeq(strRecv, i + 1, Len(strRecv))
  BY Zenon, <1>0, <1>a DEF recvData
<1>b. /\ Ends(<<b>>) = {} /\ Ends(End) = {2} /\ Ends(Answer(b)) = {3}
      /\ Len(Answer(b)) = 3 /\ Len(End) = 2
  BY <1>5, AnswerIs, SmallSequences
<1>7. Stage'
  <2>1. CASE strBuffer = <<>> /\ strRecv = <<b>> /\ down = End
    <3>1. strBuffer' = <<b>> /\ strRecv' = <<>> /\ pc' = "recv"
      BY <1>5, <1>6, <2>1, AnswerIs, SmallSequences
    <3>2. Coming(b)'
      BY <1>2, <2>1, <3>1 DEF Coming, End
    <3> QED BY <1>2, <1>4, <1>5, <3>1, <3>2 DEF Stage
  <2>2. CASE strBuffer = <<>> /\ strRecv = Answer(b) /\ down = <<>>
    <3>1. Ends(strRecv) = {3} /\ 3 + 1 = 4 /\ Len(strRecv) = 3
      BY <1>b, <2>2
    <3>2. strBuffer' = <<>> \o SubSeq(Answer(b), 1, 3) /\ strRecv' = SubSeq(Answer(b), 4, 3)
          /\ pc' = "answered"
      BY <1>6, <2>2, <3>1
    <3>3. strBuffer' = Answer(b) /\ strRecv' = <<>>
      BY <3>2, SmallSequences
    <3>4. strBuffer' = Answer(b)' /\ Silent'
      BY <1>2, <1>4, <2>2, <3>3 DEF Silent, Answer
    <3> QED BY <1>5, <3>2, <3>4 DEF Stage
  <2>3. CASE strBuffer = <<b>> /\ strRecv = End /\ down = <<>>
    <3>1. Ends(strRecv) = {2} /\ 2 + 1 = 3 /\ Len(strRecv) = 2
      BY <1>b, <2>3
    <3>2. strBuffer' = <<b>> \o SubSeq(End, 1, 2) /\ strRecv' = SubSeq(End, 3, 2)
          /\ pc' = "answered"
      BY <1>6, <2>3, <3>1
    <3>3. strBuffer' = Answer(b) /\ strRecv' = <<>>
      BY <3>2, SmallSequences
    <3>4. strBuffer' = Answer(b)' /\ Silent'
      BY <1>2, <1>4, <2>3, <3>3 DEF Silent, Answer
    <3> QED BY <1>5, <3>2, <3>4 DEF Stage
  <2> QED BY <1>1, <1>3, <2>1, <2>2, <2>3 DEF Coming
<1>8. Exact'
  BY <1>0, <1>2, ExactStays DEF PeerTypes
<1>9. Known'
  BY <1>0, <1>2, KnownStays DEF Active
<1>10. Connected'
  BY <1>0, <1>1, <1>2 DEF Connected
<1> QED BY <1>7, <1>8, <1>9, <1>10 DEF Good

LEMMA BytesArrive ==
  ASSUME Types, Good, doRecv, ~disturbed'
  PROVE  Good'
<1> USE DEF caller, buffers, socket, stream, serverState
<1>0. CallerTypes /\ SocketTypes /\ PeerTypes /\ pc # "gone" /\ Known /\ Exact /\ Connected
  BY DEF Types, doRecv, WorkerRuns, Good
<1>1. UNCHANGED <<pc, sessionID, strBuffer, result, valid, lastID, expired, requests, recvError,
                  executed, mode, call, failed, open, connected, serverOpen>>
      /\ armed > 0 /\ armed' = armed - 1 /\ worker = "idle" /\ worker' = "rearm"
  BY DEF doRecv, WorkerRuns
<1>2. PICK n \in 1 .. Len(down) :
        /\ strRecv' = strRecv \o SubSeq(down, 1, n)
        /\ down' = SubSeq(down, n + 1, Len(down))
        /\ disturbed' = (disturbed \/ (n < Len(down) /\ down[n] = down[n + 1]))
  BY DEF doRecv
<1>3. ~(n < Len(down) /\ down[n] = down[n + 1])
  BY Zenon, <1>2
<1>4. down # <<>>
  BY <1>2
<1>5. pc = "recv"
  BY <1>0, <1>4 DEF Good, Stage, Silent
<1>6. PICK b \in Bodily : Replies(b) /\ Coming(b)
  BY <1>4, <1>5, Waiting
<1>7. requests = <<>>
  BY <1>4, <1>5, Waiting
<1>8. b \in Bodily' /\ Replies(b)'
  BY <1>1, <1>6, RepliesStay
<1>a. /\ Len(Answer(b)) = 3 /\ Len(End) = 2 /\ Answer(b)[2] = Answer(b)[3] /\ End[1] = End[2]
  BY SmallSequences
<1>9. Coming(b)'
  <2>1. CASE strBuffer = <<>> /\ strRecv = <<>> /\ down = Answer(b)
    <3>1. Len(down) = 3 /\ n \in {1, 2, 3} /\ down[2] = down[3]
      <4>1. down = Answer(b)
        BY <2>1
      <4>2. Len(down) = 3 /\ down[2] = down[3]
        BY Zenon, <1>a, <4>1
      <4>3. n \in 1 .. 3
        BY Zenon, <4>2
      <4> QED BY <4>2, <4>3
    <3>2. n \in {1, 3}
      BY <1>3, <3>1
    <3>3. CASE n = 1
      <4>1. strRecv' = <<>> \o SubSeq(Answer(b), 1, 1) /\ down' = SubSeq(Answer(b), 2, 3)
        BY <1>2, <2>1, <3>1, <3>3
      <4>2. strRecv' = <<b>> /\ down' = End /\ strBuffer' = <<>>
        BY <1>1, <2>1, <4>1, SmallSequences
      <4> QED BY <4>2 DEF Coming, End
    <3>4. CASE n = 3
      <4>1. strRecv' = <<>> \o SubSeq(Answer(b), 1, 3) /\ down' = SubSeq(Answer(b), 4, 3)
        BY <1>2, <2>1, <3>1, <3>4
      <4>2. strRecv' = Answer(b) /\ down' = <<>> /\ strBuffer' = <<>>
        BY <1>1, <2>1, <4>1, SmallSequences
      <4> QED BY <4>2 DEF Coming, Answer
    <3> QED BY <3>2, <3>3, <3>4
  <2>2. CASE down = End /\ ((strBuffer = <<>> /\ strRecv = <<b>>) \/ (strBuffer = <<b>> /\ strRecv = <<>>))
    <3>1. Len(down) = 2 /\ n \in {1, 2} /\ down[1] = down[2]
      <4>1. down = End
        BY <2>2
      <4>2. Len(down) = 2 /\ down[1] = down[2]
        BY Zenon, <1>a, <4>1
      <4>3. n \in 1 .. 2
        BY Zenon, <4>2
      <4> QED BY <4>2, <4>3
    <3>2. n = 2
      BY <1>3, <3>1
    <3>3. strRecv' = strRecv \o SubSeq(End, 1, 2) /\ down' = SubSeq(End, 3, 2)
      BY <1>2, <2>2, <3>1, <3>2
    <3>4. strRecv' = strRecv \o End /\ down' = <<>> /\ strBuffer' = strBuffer
      BY <1>1, <3>3, SmallSequences
    <3>5. CASE strBuffer = <<>> /\ strRecv = <<b>>
      <4>1. strRecv' = Answer(b)
        BY <3>4, <3>5, SmallSequences
      <4> QED BY <3>4, <3>5, <4>1 DEF Coming, Answer
    <3>6. CASE strBuffer = <<b>> /\ strRecv = <<>>
      <4>1. strRecv' = End
        BY <3>4, <3>6, SmallSequences
      <4> QED BY <3>4, <3>6, <4>1 DEF Coming, End
    <3> QED BY <2>2, <3>5, <3>6
  <2>3. CASE down = <<>>
    BY <1>4, <2>3
  <2>4. Coming(b)
    BY <1>6
  <2>5. \/ strBuffer = <<>> /\ strRecv = <<>> /\ down = Answer(b)
        \/ down = End /\ ((strBuffer = <<>> /\ strRecv = <<b>>) \/ (strBuffer = <<b>> /\ strRecv = <<>>))
        \/ down = <<>>
    BY Zenon, <2>4 DEF Coming
  <2> QED BY <2>1, <2>2, <2>3, <2>5
<1>10. Stage'
  BY <1>1, <1>5, <1>7, <1>8, <1>9 DEF Stage
<1>11. Exact'
  BY <1>0, <1>1, ExactStays DEF PeerTypes
<1>12. Known'
  BY <1>0, <1>1, KnownStays DEF Active
<1>13. Connected'
  <2>1. open /\ armed = 1
    BY <1>0, <1>1 DEF Connected, SocketTypes
  <2> QED BY <1>0, <1>1, <2>1 DEF Connected
<1> QED BY <1>10, <1>11, <1>12, <1>13 DEF Good

(* The steps that leave the stage and its data.                            *)
LEMMA NothingMoves ==
  ASSUME Types, Good, pc' = pc \/ (pc = "answered" /\ pc' = "evaluate"),
         UNCHANGED <<call, sessionID, strBuffer, result, strRecv, recvError, open, connected, failed, serverOpen,
                     requests, down, valid, lastID, expired, executed>>,
         armed' + (IF worker' = "rearm" THEN 1 ELSE 0) = armed + (IF worker = "rearm" THEN 1 ELSE 0),
         ~open => armed' = armed /\ worker' = worker
  PROVE  Good'
<1>1. Active' <=> Active
  BY DEF Active
<1>2. Exact'
  BY ExactStays DEF Good, Types, PeerTypes
<1>3. Known'
  BY <1>1 DEF Good, Known
<1>4. Stage'
  <2>1. CASE pc \in {"off", "failed", "gone", "idle", "post", "handshake", "send"} /\ Silent
             /\ strBuffer = <<>> /\ Unserved
    BY <1>1, <2>1 DEF Stage, Silent, Unserved
  <2>2. CASE pc = "recv" /\ requests = <<TheRequest>> /\ Unserved
             /\ down = <<>> /\ strRecv = <<>> /\ strBuffer = <<>>
    BY <1>1, <2>2 DEF Stage, TheRequest, Unserved
  <2>3. CASE pc = "recv" /\ requests = <<>> /\ \E b \in Bodily : Replies(b) /\ Coming(b)
    <3>1. PICK b \in Bodily : Replies(b) /\ Coming(b)
      BY <2>3
    <3>2. b \in Bodily' /\ Replies(b)'
      BY <3>1, RepliesStay
    <3>3. Coming(b)'
      BY Zenon, <3>1 DEF Coming, Answer, End
    <3> QED BY <2>3, <3>2, <3>3 DEF Stage
  <2>4. CASE pc \in {"answered", "evaluate"} /\ Silent
             /\ \E b \in Bodily : Replies(b) /\ strBuffer = Answer(b)
    <3>1. PICK b \in Bodily : Replies(b) /\ strBuffer = Answer(b)
      BY <2>4
    <3>2. b \in Bodily' /\ Replies(b)'
      BY <3>1, RepliesStay
    <3>3. strBuffer' = Answer(b)' /\ Silent'
      BY <2>4, <3>1 DEF Answer, Silent
    <3> QED BY <2>4, <3>2, <3>3 DEF Stage
  <2> QED BY <2>1, <2>2, <2>3, <2>4 DEF Good, Stage
<1>5. pc' # "gone" => Connected'
  BY DEF Good, Connected
<1> QED BY <1>2, <1>3, <1>4, <1>5 DEF Good

LEMMA WorkerGoesOn ==
  ASSUME Types, Good, Rearm \/ doRecvError
  PROVE  Good'
<1> USE DEF caller, buffers, socket, stream, serverState
<1>1. SocketTypes /\ pc # "gone" /\ Connected
  BY DEF Types, Good, Rearm, doRecvError, WorkerRuns
<1>2. CASE Rearm
  <2>1. worker = "rearm" /\ worker' = "idle" /\ open /\ connected
    BY <1>1, <1>2 DEF Rearm, Connected
  <2>2. armed' = armed + 1 /\ failed' = failed /\ armed = 0
    BY <1>1, <1>2, <2>1 DEF Rearm, Connected, SocketTypes
  <2> QED BY <1>2, <2>1, <2>2, NothingMoves DEF Rearm
<1>3. ~doRecvError
  <2>1. failed = 0 /\ (armed > 0 => serverOpen)
    BY <1>1 DEF Connected, SocketTypes
  <2> QED BY <2>1 DEF doRecvError
<1> QED BY <1>2, <1>3

LEMMA AnswerIsComplete ==
  ASSUME Types, Smooth, Good, Answered
  PROVE  Good'
<1>1. mode.keepAlive
  BY DEF Smooth
<1>2. pc = "answered" /\ pc' = "evaluate" /\ UNCHANGED <<call, strBuffer, result, socket, stream>>
      /\ UNCHANGED <<mode, sessionID, buffers, worker, serverState, disturbed>>
  BY <1>1 DEF Answered
<1>3. armed \in Nat
  BY DEF Types, SocketTypes
<1> QED BY <1>2, <1>3, NothingMoves DEF socket, stream, buffers, serverState

(* The server answers the only request there is.                           *)
LEMMA RequestIsServed ==
  ASSUME NetClientAssumption, Types, Smooth, Good, Serve
  PROVE  Good'
<1> USE DEF caller, buffers, socket, stream, serverState
<1>0. CallerTypes /\ SocketTypes /\ PeerTypes /\ StreamTypes /\ Known /\ Exact
  BY DEF Types, Good
<1>1. requests # <<>>
  BY DEF Serve
<1>2. /\ pc = "recv" /\ requests = <<TheRequest>> /\ Unserved
      /\ down = <<>> /\ strRecv = <<>> /\ strBuffer = <<>>
  BY <1>1 DEF Good, Stage, Silent
<1>3. Connected /\ Active /\ mode.keepAlive
  BY <1>2 DEF Good, Active, Smooth
<1>4. call.k \in 1 .. MaxCalls /\ call.hello \in BOOLEAN /\ call.k > result.k /\ executed[call.k] = 0
  BY <1>0, <1>2, <1>3 DEF CallerTypes, Unserved
<1>5. PICK r \in Request :
        /\ r = requests[1]
        /\ IF r.hello THEN /\ lastID' = lastID + 1 /\ valid' = valid \union {lastID + 1}
                           /\ executed' = executed
                      ELSE /\ lastID' = lastID /\ valid' = valid
                           /\ executed' = [executed EXCEPT ![r.k] =
                                             @ + IF r.id \in valid THEN 1 ELSE 0]
        /\ IF r.live THEN /\ down' = down \o Answer(Reply(r))
                          /\ serverOpen' = (serverOpen /\ mode.keepAlive)
                     ELSE UNCHANGED <<down, serverOpen>>
        /\ requests' = Tail(requests)
        /\ UNCHANGED <<mode, caller, buffers, socket, worker, expired, disturbed>>
  BY <1>0, ServeIs
<1>6. /\ r.k = call.k /\ r.hello = call.hello /\ r.id = sessionID /\ r.live = TRUE
  BY <1>2, <1>5 DEF TheRequest
<1>7. requests' = <<>>
  BY <1>2, <1>5
<1>a. PICK b : b = Reply(r)
  OBVIOUS
<1>8. down' = Answer(b) /\ serverOpen' = (serverOpen /\ mode.keepAlive)
  <2>1. down' = <<>> \o Answer(b) /\ serverOpen' = (serverOpen /\ mode.keepAlive)
    BY <1>2, <1>5, <1>6, <1>a
  <2> QED BY <2>1, SmallSequences
<1>9. serverOpen' = serverOpen
  BY Zenon, <1>0, <1>3, <1>8 DEF SocketTypes
<1>10. /\ UNCHANGED <<pc, call, sessionID, strBuffer, result, strRecv, recvError, open, connected, armed, failed,
                      worker, expired>>
  BY <1>5
<1>11. Connected'
  BY <1>3, <1>9, <1>10 DEF Connected
<1>12. b \in Bodily' /\ Replies(b)'
  <2>1. CASE call.hello
    <3>1. b = <<"id", lastID + 1>> /\ lastID' = lastID + 1 /\ lastID' \in valid'
          /\ executed' = executed /\ lastID \in Nat
      BY <1>0, <1>5, <1>6, <1>a, <2>1 DEF Reply, PeerTypes
    <3> QED BY <1>4, <1>10, <2>1, <3>1 DEF Replies, Bodily
  <2>2. CASE ~call.hello /\ sessionID \in valid
    <3>1. b = <<"ok", call.k>> /\ executed' = [executed EXCEPT ![call.k] = @ + 1]
      BY <1>5, <1>6, <1>a, <2>2 DEF Reply
    <3>2. executed'[call.k] = 1
      BY <1>0, <1>4, <3>1 DEF PeerTypes
    <3> QED BY <1>10, <2>2, <3>1, <3>2 DEF Replies, Bodily
  <2>3. CASE ~call.hello /\ sessionID \notin valid
    <3>1. b = <<"inv", 0>> /\ executed' = [executed EXCEPT ![call.k] = @ + 0]
      BY <1>5, <1>6, <1>a, <2>3 DEF Reply
    <3>2. executed'[call.k] = 0
      BY <1>0, <1>4, <3>1 DEF PeerTypes
    <3>3. expired > (IF call.again THEN 1 ELSE 0)
      BY <1>0, <1>3, <2>3 DEF Known
    <3> QED BY <1>10, <2>3, <3>1, <3>2, <3>3 DEF Replies, Bodily
  <2> QED BY <2>1, <2>2, <2>3, <1>4
<1>13. Coming(b)'
  <2>1. strBuffer' = <<>> /\ strRecv' = <<>> /\ down' = Answer(b)
    BY <1>2, <1>8, <1>10
  <2> QED BY Zenon, <2>1 DEF Coming, Answer
<1>14. Stage'
  BY <1>2, <1>7, <1>10, <1>12, <1>13 DEF Stage
<1>15. Known'
  <2>1. valid \subseteq valid' /\ (Active' <=> Active)
    BY <1>5, <1>10 DEF Active
  <2> QED BY <1>0, <1>10, <2>1 DEF Known
<1>16. Exact'
  <2>1. \A k \in 1 .. MaxCalls : k # call.k => executed'[k] = executed[k]
    BY <1>0, <1>5, <1>6 DEF PeerTypes
  <2>2. executed'[call.k] \in {0, 1}
    <3>1. executed' = executed \/ executed' = [executed EXCEPT ![call.k] = @ + 0]
          \/ executed' = [executed EXCEPT ![call.k] = @ + 1]
      BY <1>5, <1>6
    <3>2. executed \in [1 .. MaxCalls -> Nat] /\ executed[call.k] = 0
      BY <1>0, <1>4 DEF PeerTypes
    <3> QED BY <1>4, <3>1, <3>2
  <2>3. MaxCalls \in Nat /\ result.k \in 0 .. MaxCalls /\ result.k < call.k
    BY <1>0, <1>4 DEF CallerTypes, NetClientAssumption
  <2>4. result.k > 0 => executed'[result.k] = executed[result.k]
    BY <1>4, <2>1, <2>3
  <2>5. result.k > 0 /\ expired <= 1 =>
           result.ok /\ result.answer = Own(result.k) /\ executed'[result.k] = 1
    BY <1>0, <2>4 DEF Exact
  <2>6. \A k \in 1 .. MaxCalls : /\ k > result.k /\ k # call.k => executed'[k] = 0
                                 /\ executed'[k] <= 1
    BY <1>0, <1>4, <2>1, <2>2 DEF Exact
  <2> QED BY <1>10, <2>5, <2>6 DEF Exact, Own
<1> QED BY <1>11, <1>14, <1>15, <1>16 DEF Good

(* The server forgets the sessions: what the caller knows may be out of    *)
(* date, and an answer "unknown" may follow.                               *)
LEMMA SessionsAreForgotten ==
  ASSUME Types, Good, SessionsExpire
  PROVE  Good'
<1> USE DEF caller, buffers, socket, stream, serverState
<1>0. CallerTypes /\ PeerTypes /\ Known /\ Exact /\ Stage
  BY DEF Types, Good
<1>1. UNCHANGED <<mode, pc, call, sessionID, strBuffer, result, strRecv, recvError, open, connected, armed,
                  failed, worker, requests, down, serverOpen, lastID, executed, disturbed>>
  BY DEF SessionsExpire
<1>2. expired' = expired + 1 /\ expired \in Nat /\ expired' \in Nat
  BY <1>0 DEF SessionsExpire, PeerTypes
<1>3. Active' <=> Active
  BY <1>1 DEF Active
<1>4. Exact'
  BY <1>0, <1>1, <1>2, ExactStays
<1>5. Known'
  <2>1. call.again => expired' > 1
    BY <1>0, <1>2 DEF Known
  <2>2. expired' > 0
    BY <1>2
  <2> QED BY <1>0, <1>1, <1>3, <2>1, <2>2 DEF Known
<1>6. pc' # "gone" => Connected'
  BY <1>1 DEF Good, Connected
<1>7. ASSUME NEW b \in Bodily, Replies(b) PROVE b \in Bodily' /\ Replies(b)'
  <2>1. b \in Bodily'
    BY <1>1 DEF Bodily
  <2>2. call.again => expired > 0
    BY <1>0 DEF Known
  <2>3. expired' > (IF call.again THEN 1 ELSE 0)
    BY <1>2, <2>2
  <2> QED BY <1>1, <1>7, <2>1, <2>3 DEF Replies
<1>8. Stage'
  <2>1. CASE pc \in {"off", "failed", "gone", "idle", "post", "handshake", "send"} /\ Silent
             /\ strBuffer = <<>> /\ Unserved
    BY <1>1, <1>3, <2>1 DEF Stage, Silent, Unserved
  <2>2. CASE pc = "recv" /\ requests = <<TheRequest>> /\ Unserved
             /\ down = <<>> /\ strRecv = <<>> /\ strBuffer = <<>>
    BY <1>1, <1>3, <2>2 DEF Stage, TheRequest, Unserved
  <2>3. CASE pc = "recv" /\ requests = <<>> /\ \E b \in Bodily : Replies(b) /\ Coming(b)
    <3>1. PICK b \in Bodily : Replies(b) /\ Coming(b)
      BY <2>3
    <3>2. Coming(b)'
      BY Zenon, <1>1, <3>1 DEF Coming, Answer, End
    <3> QED BY <1>1, <1>7, <2>3, <3>1, <3>2 DEF Stage
  <2>4. CASE pc \in {"answered", "evaluate"} /\ Silent
             /\ \E b \in Bodily : Replies(b) /\ strBuffer = Answer(b)
    <3>1. PICK b \in Bodily : Replies(b) /\ strBuffer = Answer(b)
      BY <2>4
    <3>2. strBuffer' = Answer(b)' /\ Silent'
      BY <1>1, <2>4, <3>1 DEF Answer, Silent
    <3> QED BY <1>1, <1>7, <2>4, <3>1, <3>2 DEF Stage
  <2> QED BY <1>0, <2>1, <2>2, <2>3, <2>4 DEF Stage
<1> QED BY <1>4, <1>5, <1>6, <1>8 DEF Good

(* The caller looks at the answer.                                         *)
LEMMA AnswerIsThere ==
  ASSUME Types, Good, pc = "evaluate"
  PROVE  /\ Known /\ Exact /\ Connected /\ Silent /\ Active
         /\ call.k = result.k + 1 /\ call.k \in 1 .. MaxCalls /\ call.hello \in BOOLEAN
         /\ \E b \in Bodily : Replies(b) /\ strBuffer = Answer(b)
<1>1. CallerTypes /\ Active
  BY DEF Types, Active
<1>2. call.k = result.k + 1 /\ call.k \in 1 .. MaxCalls /\ call.hello \in BOOLEAN
  BY <1>1 DEF CallerTypes
<1>3. Silent /\ \E b \in Bodily : Replies(b) /\ strBuffer = Answer(b)
  BY DEF Good, Stage
<1> QED BY <1>1, <1>2, <1>3 DEF Good

(* The next request of the same call.                                      *)
LEMMA CallContinues ==
  ASSUME Types, Good, pc = "evaluate", NEW h \in BOOLEAN, NEW a \in BOOLEAN, Post(h, a),
         UNCHANGED <<mode, buffers, socket, worker, stream, serverState, disturbed>>,
         executed[call.k] = 0,
         ~h => sessionID' # 0,
         a => expired > 0,
         sessionID' # 0 => sessionID' \in valid \/ expired > 0,
         a /\ ~h => sessionID' \in valid \/ expired > 1
  PROVE  Good'
<1> USE DEF buffers, socket, stream, serverState
<1>1. /\ Known /\ Exact /\ Connected /\ Silent
      /\ call.k = result.k + 1 /\ call.k \in 1 .. MaxCalls
  BY AnswerIsThere
<1>2. /\ pc' = "post" /\ call'.k = call.k /\ call'.hello = h /\ call'.again = a
      /\ strBuffer' = <<>> /\ result' = result
  BY DEF Post, Types, CallerTypes
<1>3. Exact'
  BY <1>1, <1>2, ExactStays DEF Types, PeerTypes
<1>4. Known'
  BY <1>2 DEF Known
<1>5. Silent' /\ Unserved'
  BY <1>1, <1>2 DEF Silent, Unserved
<1>6. Stage'
  BY <1>2, <1>5 DEF Stage
<1>7. Connected'
  BY <1>1, <1>2 DEF Connected
<1> QED BY <1>3, <1>4, <1>6, <1>7 DEF Good

(* The call returns.                                                       *)
LEMMA CallEnds ==
  ASSUME Types, Good, pc = "evaluate", NEW ok, NEW answer, Return(ok, answer),
         UNCHANGED <<mode, buffers, socket, worker, stream, serverState, disturbed>>,
         expired <= 1 => ok /\ answer = Own(call.k) /\ executed[call.k] = 1,
         sessionID' # 0 => sessionID' \in valid \/ expired > 0
  PROVE  Good'
<1> USE DEF buffers, socket, stream, serverState
<1>1. /\ Known /\ Exact /\ Connected /\ Silent
      /\ call.k = result.k + 1 /\ call.k \in 1 .. MaxCalls
  BY AnswerIsThere
<1>2. /\ pc' = "idle" /\ call' = NoCall /\ strBuffer' = <<>>
      /\ result'.k = call.k /\ result'.ok = ok /\ result'.answer = answer
  BY DEF Return
<1>3. ~Active' /\ ~call'.again /\ call'.k = 0
  BY <1>2 DEF Active, NoCall
<1>4. Exact'
  <2>1. \A k \in 1 .. MaxCalls : k > call.k => k > result.k /\ k # call.k
    BY <1>1 DEF Types, CallerTypes
  <2>2. \A k \in 1 .. MaxCalls : (k > call.k => executed[k] = 0) /\ executed[k] <= 1
    BY <1>1, <2>1 DEF Exact
  <2> QED BY <1>2, <2>2 DEF Exact, Own
<1>5. Known'
  BY <1>3 DEF Known
<1>6. Silent' /\ Unserved'
  BY <1>1, <1>3 DEF Silent, Unserved
<1>7. Stage'
  BY <1>2, <1>6 DEF Stage
<1>8. Connected'
  BY <1>1, <1>2 DEF Connected
<1> QED BY <1>4, <1>5, <1>7, <1>8 DEF Good

LEMMA ModeStays == ASSUME [NetNext]_netVars PROVE mode' = mode
  BY DEF NetNext, Caller, Worker, netVars, initNetClient, cleanupNetClient, sendRequest, PostOpen,
         connectToServer, initTLSSession, sendData, sendDataFails, recvData, RecvFailed, Answered,
         getSession, EndRequest, Timeout, doRecv, Rearm, doRecvError, Serve, SessionsExpire, Lost

LEMMA DisturbedStays == ASSUME [NetNext]_netVars, disturbed \in BOOLEAN PROVE disturbed => disturbed'
  BY DEF NetNext, Caller, Worker, netVars, initNetClient, cleanupNetClient, sendRequest, PostOpen,
         connectToServer, initTLSSession, sendData, sendDataFails, recvData, RecvFailed, Answered,
         getSession, EndRequest, Timeout, doRecv, Rearm, doRecvError, Serve, SessionsExpire, Lost

LEMMA SessionIsTaken ==
  ASSUME Types, Good, getSession
  PROVE  Good'
<1>0. pc = "evaluate" /\ call.hello
      /\ UNCHANGED <<mode, buffers, socket, worker, stream, serverState, disturbed>>
  BY DEF getSession
<1>1. /\ Known /\ Exact /\ Active
      /\ \E b \in Bodily : Replies(b) /\ strBuffer = Answer(b)
  BY <1>0, AnswerIsThere
<1>2. PICK b \in Bodily : Replies(b) /\ strBuffer = Answer(b)
  BY <1>1
<1>3. /\ lastID > 0 /\ b = <<"id", lastID>> /\ executed[call.k] = 0
      /\ lastID \in valid \/ expired > (IF call.again THEN 1 ELSE 0)
  BY <1>0, <1>2 DEF Replies
<1>4. b[1] = "id" /\ b[2] = lastID
  BY <1>3
<1>5. Session = {1} /\ strBuffer[1] = b
  BY <1>2, <1>4, ContentIs
<1>6. sessionID' = lastID /\ Post(FALSE, call.again)
  BY <1>4, <1>5 DEF getSession
<1>7. lastID \in Nat /\ lastID' = lastID /\ valid' = valid /\ expired' = expired /\ expired \in Nat
      /\ call.again \in BOOLEAN
  BY <1>0 DEF serverState, Types, PeerTypes, CallerTypes
<1>8. sessionID' # 0
  BY <1>3, <1>6, <1>7
<1>9. call.again => expired > 0
  BY <1>1 DEF Known
<1>10. sessionID' \in valid \/ expired > 0
  BY <1>3, <1>6, <1>7
<1>11. call.again => sessionID' \in valid \/ expired > 1
  BY <1>3, <1>6
<1> QED BY <1>0, <1>3, <1>6, <1>7, <1>8, <1>9, <1>10, <1>11, CallContinues

LEMMA RequestEnds ==
  ASSUME Types, Good, EndRequest
  PROVE  Good'
<1>0. pc = "evaluate" /\ ~call.hello
      /\ UNCHANGED <<mode, buffers, socket, worker, stream, serverState, disturbed>>
  BY DEF EndRequest
<1>1. /\ Known /\ Exact /\ Active
      /\ \E b \in Bodily : Replies(b) /\ strBuffer = Answer(b)
  BY <1>0, AnswerIsThere
<1>2. PICK b \in Bodily : Replies(b) /\ strBuffer = Answer(b)
  BY <1>1
<1>3. /\ {strBuffer[i] : i \in Bodies(strBuffer)} = {b}
      /\ \A kind : Retcode(kind) <=> b[1] = kind
  BY <1>2, ContentIs
<1>4. CASE b = <<"ok", call.k>> /\ executed[call.k] = 1
  <2>1. b[1] = "ok" /\ {b} = Own(call.k)
    BY <1>4 DEF Own
  <2>2. Retcode("ok") /\ ~Retcode("inv")
    BY <1>3, <2>1
  <2>3. Return(TRUE, {strBuffer[i] : i \in Bodies(strBuffer)}) /\ sessionID' = sessionID
    BY <2>2 DEF EndRequest
  <2>4. Return(TRUE, Own(call.k))
    BY <1>3, <2>1, <2>3
  <2>5. sessionID' # 0 => sessionID' \in valid \/ expired > 0
    BY <1>1, <2>3 DEF Known
  <2> QED BY <1>0, <1>4, <2>4, <2>5, CallEnds
<1>5. CASE b = <<"inv", 0>> /\ executed[call.k] = 0 /\ expired > (IF call.again THEN 1 ELSE 0)
  <2>1. b[1] = "inv"
    BY <1>5
  <2>2. ~Retcode("ok") /\ Retcode("inv")
    BY <1>3, <2>1
  <2>3. sessionID' = 0 /\ IF call.again THEN Return(FALSE, {}) ELSE Post(TRUE, TRUE)
    BY <2>2 DEF EndRequest
  <2>4. expired \in Nat /\ call.again \in BOOLEAN
    BY DEF Types, PeerTypes, CallerTypes
  <2>5. CASE call.again
    <3>1. Return(FALSE, {})
      BY <2>3, <2>5
    <3>2. expired > 1
      BY <1>5, <2>5
    <3>3. ~(expired <= 1)
      BY <2>4, <3>2
    <3> QED BY <1>0, <2>3, <3>1, <3>3, CallEnds
  <2>6. CASE ~call.again
    <3>1. expired > 0 /\ Post(TRUE, TRUE)
      BY <1>5, <2>3, <2>4, <2>6
    <3> QED BY <1>0, <1>5, <2>3, <3>1, CallContinues
  <2> QED BY <2>4, <2>5, <2>6
<1> QED BY <1>0, <1>2, <1>4, <1>5 DEF Replies

(* What does not happen: the connection holds, and an answer is under way  *)
(* whenever one is awaited.                                                *)
LEMMA NothingFails ==
  ASSUME Types, Good, ~disturbed'
  PROVE  ~sendDataFails /\ ~Timeout /\ ~RecvFailed /\ ~Lost
<1>1. ~sendDataFails
  <2>1. pc = "send" => connected
    BY DEF Good, Connected
  <2> QED BY <2>1 DEF sendDataFails
<1>2. ~Timeout
  BY DEF Timeout
<1>3. ~RecvFailed
  BY DEF RecvFailed, Good, Connected
<1>4. ~Lost
  BY DEF Lost
<1> QED BY <1>1, <1>2, <1>3, <1>4

(* The first call has not begun.                                           *)
LEMMA SmoothBefore ==
  ASSUME Types, [NetNext]_netVars, Smooth'
  PROVE  Smooth
<1>1. mode' = mode /\ mode.keepAlive /\ ~disturbed'
  BY ModeStays DEF Smooth
<1>2. ~disturbed
  BY <1>1, DisturbedStays DEF Types, SocketTypes
<1> QED BY <1>1, <1>2 DEF Smooth

LEMMA BehavedNext ==
  ASSUME NetClientAssumption, Types, Behaved, [NetNext]_netVars
  PROVE  Behaved'
<1> SUFFICES ASSUME Smooth' PROVE Good'
  BY DEF Behaved
<1>1. Smooth /\ Good /\ ~disturbed'
  BY SmoothBefore DEF Behaved, Smooth
<1>2. CASE initNetClient \/ cleanupNetClient \/ sendRequest \/ PostOpen
  BY <1>1, <1>2, CallStarts
<1>3. CASE connectToServer \/ initTLSSession
  BY <1>1, <1>3, CallConnects
<1>4. CASE sendData
  BY <1>1, <1>4, RequestIsSent
<1>5. CASE recvData
  BY <1>1, <1>5, AnswerIsRead
<1>6. CASE Answered
  BY <1>1, <1>6, AnswerIsComplete
<1>7. CASE getSession
  BY <1>1, <1>7, SessionIsTaken
<1>8. CASE EndRequest
  BY <1>1, <1>8, RequestEnds
<1>9. CASE doRecv
  BY <1>1, <1>9, BytesArrive
<1>10. CASE Rearm \/ doRecvError
  BY <1>1, <1>10, WorkerGoesOn
<1>11. CASE Serve
  BY <1>1, <1>11, RequestIsServed
<1>12. CASE SessionsExpire
  BY <1>1, <1>12, SessionsAreForgotten
<1>13. CASE UNCHANGED netVars
  BY <1>1, <1>13, NothingMoves DEF netVars, caller, buffers, socket, stream, serverState
<1>14. ~sendDataFails /\ ~Timeout /\ ~RecvFailed /\ ~Lost
  BY <1>1, NothingFails
<1> QED BY Zenon, <1>2, <1>3, <1>4, <1>5, <1>6, <1>7, <1>8, <1>9, <1>10, <1>11, <1>12, <1>13,
           <1>14 DEF NetNext, Caller, Worker

LEMMA NetInitInv == ASSUME NetClientAssumption, NetInit PROVE NetInv
<1>1. ~Active /\ call = NoCall /\ expired = 0 /\ lastID = 0
  BY DEF NetInit, Active
<1>2. CallerTypes
  BY <1>1 DEF NetInit, NetClientAssumption, CallerTypes, NoCall
<1>3. SocketTypes /\ PeerTypes
  <2>1. SocketTypes
    BY DEF NetInit, SocketTypes
  <2>2. sessionID \in 0 .. lastID /\ valid \subseteq 1 .. lastID /\ lastID \in Nat /\ expired \in Nat
    BY DEF NetInit
  <2>3. executed \in [1 .. MaxCalls -> Nat]
    BY DEF NetInit
  <2> QED BY <2>1, <2>2, <2>3 DEF PeerTypes
<1>4. StreamTypes
  BY DEF NetInit, StreamTypes
<1>5. Remembered
  BY <1>1 DEF NetInit, Remembered, NoCall
<1>6. WrittenOnce
  BY DEF NetInit, WrittenOnce, Pending
<1>7. Good
  <2>1. Exact
    BY <1>1 DEF NetInit, Exact
  <2>2. Known
    BY <1>1 DEF NetInit, Known, NoCall
  <2>3. Stage
    BY <1>1 DEF NetInit, Stage, Silent, Unserved
  <2>4. Connected
    BY DEF NetInit, Connected
  <2> QED BY <2>1, <2>2, <2>3, <2>4 DEF Good
<1> QED BY <1>2, <1>3, <1>4, <1>5, <1>6, <1>7 DEF NetInv, Types, NoneForgotten, Behaved

LEMMA NetStepInv == ASSUME NetClientAssumption, NetInv, [NetNext]_netVars PROVE NetInv'
  BY TypesNext, NoneForgottenNext, BehavedNext DEF NetInv

LEMMA NetAlways == NetClientAssumption => (NetSpec => []NetInv)
<1> SUFFICES ASSUME NetClientAssumption PROVE NetSpec => []NetInv
  OBVIOUS
<1>1. NetInit => NetInv
  BY NetInitInv
<1>2. NetInv /\ [NetNext]_netVars => NetInv'
  BY NetStepInv
<1> QED BY <1>1, <1>2, PTL DEF NetSpec

(* What only the type invariant says: a receive is pending and the server *)
(* listens only on a connected socket.                                     *)
OpenOnly == /\ mode \in Modes /\ expired <= MaxExpiry
            /\ (serverOpen => connected) /\ (armed > 0 => connected) /\ (connected => open)

LEMMA OpenOnlyInit == ASSUME NetClientAssumption, NetInit PROVE OpenOnly
  BY DEF NetClientAssumption, NetInit, OpenOnly

LEMMA OpenOnlyNext ==
  ASSUME NetClientAssumption, SocketTypes, PeerTypes, OpenOnly, [NetNext]_netVars
  PROVE  OpenOnly'
<1> USE DEF caller, buffers, socket, stream, serverState
<1> DEFINE Goal == (serverOpen' => connected') /\ (armed' > 0 => connected') /\ (connected' => open')
<1>1. mode' \in Modes
  BY ModeStays DEF OpenOnly
<1>2. expired' <= MaxExpiry
  <2>1. expired \in Nat /\ MaxExpiry \in Nat /\ expired <= MaxExpiry
    BY DEF PeerTypes, NetClientAssumption, OpenOnly
  <2>2. expired' = expired \/ (expired < MaxExpiry /\ expired' = expired + 1)
    BY Zenon DEF NetNext, Caller, Worker, netVars, initNetClient, cleanupNetClient, sendRequest,
         PostOpen, connectToServer, initTLSSession, sendData, sendDataFails, recvData, RecvFailed,
         Answered, getSession, EndRequest, Timeout, doRecv, Rearm, doRecvError, Serve,
         SessionsExpire, Lost
  <2> QED BY <2>1, <2>2
<1>3. Goal
  <2>0. /\ armed \in Nat
        /\ (serverOpen => connected) /\ (armed > 0 => connected) /\ (connected => open)
    BY DEF SocketTypes, OpenOnly
  <2>1. CASE UNCHANGED <<open, connected, armed, serverOpen>>
    BY <2>0, <2>1
  <2>2. CASE ~serverOpen' /\ armed' = 0 /\ ~connected'
    BY <2>2
  <2>3. CASE open' /\ connected'
    BY <2>3
  <2>4. CASE open' = open /\ connected' = connected /\ ~serverOpen' /\ armed' = armed
    BY <2>0, <2>4
  <2>9. CASE open' /\ UNCHANGED <<connected, armed, serverOpen>>
    BY <2>0, <2>9
  <2>5. CASE initNetClient \/ cleanupNetClient \/ sendRequest \/ PostOpen \/ sendData \/ recvData
             \/ connectToServer \/ initTLSSession \/ sendDataFails \/ RecvFailed \/ Answered
             \/ getSession \/ EndRequest \/ Timeout \/ SessionsExpire \/ Lost \/ doRecvError
             \/ UNCHANGED netVars
    BY Zenon, <2>1, <2>2, <2>3, <2>4, <2>5, <2>9 DEF Close, initNetClient, cleanupNetClient, sendRequest,
         PostOpen, connectToServer, initTLSSession, sendData, sendDataFails, recvData, RecvFailed,
         Answered, getSession, EndRequest, Timeout, doRecvError, SessionsExpire, Lost, netVars
  <2>6. CASE doRecv
    BY <2>0, <2>6 DEF doRecv
  <2>7. CASE Rearm
    <3>1. CASE connected
      BY <2>0, <2>3, <2>7, <3>1 DEF Rearm
    <3>2. CASE ~connected
      BY <2>0, <2>7, <3>2 DEF Rearm
    <3> QED BY <3>1, <3>2
  <2>8. CASE Serve
    <3>1. open' = open /\ connected' = connected /\ armed' = armed /\ (serverOpen' => serverOpen)
      BY <2>8 DEF Serve
    <3> QED BY <2>0, <3>1
  <2> QED BY Zenon, <2>5, <2>6, <2>7, <2>8 DEF NetNext, Caller, Worker
<1> QED BY <1>1, <1>2, <1>3 DEF OpenOnly

LEMMA IssuedIsToken == ASSUME lastID \in Nat PROVE Issued \subseteq Tokens
<1>1. 1 .. lastID \subseteq Nat
  OBVIOUS
<1> QED BY Zenon, <1>1 DEF Issued, Tokens

(* The variables of the network client keep their types: sockets, buffers  *)
(* and the stage of the call, through every fault.                         *)
THEOREM NetClientTypeCorrect == NetSpec => []NetTypeOK
<1>1. NetInv /\ OpenOnly => NetTypeOK
  <2> SUFFICES ASSUME NetInv, OpenOnly PROVE NetTypeOK
    OBVIOUS
  <2>1. CallerTypes /\ SocketTypes /\ PeerTypes /\ StreamTypes
    BY DEF NetInv, Types
  <2>2. \A x \in {strRecv, strBuffer, down} : \A i \in DOMAIN x : x[i] \in Tokens
    <3>1. \A x \in {strRecv, strBuffer, down} : x \in Seq(Issued)
      BY <2>1 DEF StreamTypes
    <3>2. Issued \subseteq Tokens
      BY <2>1, IssuedIsToken DEF PeerTypes
    <3> QED BY <3>1, <3>2
  <2>3. expired \in 0 .. MaxExpiry
    BY <2>1, NetClientAssumption DEF PeerTypes, OpenOnly
  <2>4. (serverOpen \/ armed > 0 => connected) /\ (connected => open)
    BY DEF OpenOnly
  <2> QED BY <2>1, <2>2, <2>3, <2>4 DEF NetTypeOK, CallerTypes, SocketTypes, PeerTypes, OpenOnly
<1>2. NetInit => OpenOnly
  BY OpenOnlyInit, NetClientAssumption
<1>3. NetInv /\ OpenOnly /\ [NetNext]_netVars => OpenOnly'
  BY OpenOnlyNext, NetClientAssumption DEF NetInv, Types
<1> QED BY <1>1, <1>2, <1>3, NetAlways, NetClientAssumption, PTL DEF NetSpec

(* With KEEP-ALIVE on a network that behaves, every call of sendRequest    *)
(* returns the answer to its own request, which has been executed once,    *)
(* also when the server forgets the session in the middle of it: for any   *)
(* number of calls.                                                        *)
THEOREM CallsAreExact == NetSpec => []KeptAliveIsExact
<1>1. NetInv => KeptAliveIsExact
  BY DEF NetInv, Behaved, Smooth, Good, Exact, KeptAliveIsExact
<1> QED BY <1>1, NetAlways, NetClientAssumption, PTL

(* sendRequest makes the server carry out no request twice, although it    *)
(* repeats some, for any number of calls and whatever breaks, as long as   *)
(* the server forgets no session or the network behaves.                   *)
THEOREM ExecutedOnce == NetSpec => []ExecutedAtMostOnce
<1>1. NetInv => ExecutedAtMostOnce
  BY DEF NetInv, NoneForgotten, WrittenOnce, Behaved, Smooth, Good, Exact, ExecutedAtMostOnce
<1> QED BY <1>1, NetAlways, NetClientAssumption, PTL
=============================================================================

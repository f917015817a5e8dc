-------------------------- MODULE CatalogueProofs --------------------------
(***************************************************************************)
(* Proofs about Catalogue, for any number of workers and books, whatever   *)
(* Sphinx answers and whatever statements fail: ISBNs are repeated only by *)
(* concurrent insertions and by corrections, an insertion answered with    *)
(* success has a row of its own, a search names the right books once each, *)
(* and while MySQL accepts connections the server goes down only in two    *)
(* commands that find nothing and by a level beyond the table of rights.   *)
(***************************************************************************)
EXTENDS Catalogue, SequenceTheorems, FiniteSetTheorems, TLAPS

(* What a worker knows of the rows R: the checks by the copy still stand   *)
(* when it is written, and only rows that verify has not seen may have the *)
(* ISBN that is to be inserted.                                            *)
JobOK(j, R) ==
  /\ j.pc = "update" =>
       /\ j.copy.id \in DOMAIN R
       /\ j.c.cmd = "book_setBasicInfo" => Valid(j.c)
       /\ j.c.cmd = "book_deleteBook" => j.copy.count >= j.c.count
  /\ j.copy.isbn # Empty => j.copy.count >= 1 /\ j.copy.name # Empty
  /\ j.pc = "insert" =>
       /\ j.copy.id <= Len(R)
       /\ \A i \in DOMAIN R :
            R[i].alive /\ R[i].isbn = j.copy.isbn /\ ~R[i].edited => i > j.copy.id
  /\ j.pc = "lastInsertId" => j.copy.isbn # Empty

(* What a search knows: must and may enclose the books that match now, and *)
(* after the first SELECT what has been found; Sphinx's hits may be named. *)
Matching(R, q) == {i \in DOMAIN R : R[i].alive /\ R[i].name = q}

SearchOK(j, R) ==
  /\ Searching(j) => /\ j.must \subseteq Matching(R, j.c.name)
                     /\ Matching(R, j.c.name) \subseteq j.may
  /\ j.pc \in {"sphinx", "hit", "result"} =>
       /\ \A i, k \in DOMAIN j.found : i # k => j.found[i] # j.found[k]
       /\ j.must \subseteq ToSet(j.found) /\ ToSet(j.found) \subseteq j.may
  /\ j.pc = "hit" => ToSet(j.hits) \subseteq j.may

Types == /\ rows \in Seq(Row) /\ \A i \in DOMAIN rows : rows[i].after < i
         /\ index \subseteq (1 .. Len(rows)) \X Names
         /\ job \in [Workers -> JobType]
         /\ served \in 0 .. MaxRequests /\ rebuilds \in 0 .. MaxRebuilds
         /\ up \in BOOLEAN /\ told \in [ISBNs -> Nat]

CatalogueInv == /\ Types /\ RepeatedOnlyIfConcurrent
                /\ \A w \in Workers : JobOK(job[w], rows) /\ SearchOK(job[w], rows)

-----------------------------------------------------------------------------
(* The data *)

LEMMA RowsAre ==
  ASSUME NEW R \in Seq(Row)
  PROVE  /\ Len(R) \in Nat /\ DOMAIN R = 1 .. Len(R)
         /\ \A i \in DOMAIN R : R[i] \in Row
  BY LenProperties

LEMMA Commanded ==
  ASSUME NEW c \in Commands
  PROVE  /\ c \in Command /\ c.isbn \in ISBNs /\ c.name \in Names \union {Empty}
         /\ c.descr \in Descrs
         /\ Valid(c) => c.count \in Nat \ {0} /\ c.isbn \in ISBNs \ {Empty} /\ c.name \in Names
<1>1. /\ c \in Command /\ c.isbn \in ISBNs /\ c.name \in Names \union {Empty}
      /\ c.descr \in Descrs
  BY CatalogueAssumption DEF ISBNs, Descrs
<1>2. c.count \in Int
  BY <1>1 DEF Command
<1> QED BY <1>1, <1>2 DEF Valid

CopyType == [id : Nat, isbn : ISBNs \union {Empty}, name : Names \union {Empty},
             count : Int, descr : Descrs]

LEMMA NoBookFacts == NoBook \in CopyType /\ NoBook.isbn = Empty /\ NoBook.id = 0
  BY DEF NoBook, CopyType, Descrs

LEMMA IdleFacts ==
  /\ Idle \in JobType /\ Idle.pc = "idle" /\ Idle.copy.isbn = Empty /\ Idle.copy = NoBook
  /\ Idle.found = <<>> /\ Idle.hits = <<>> /\ Idle.must = {} /\ Idle.may = {}
<1>1. (CHOOSE c \in Commands : TRUE) \in Commands
  BY CatalogueAssumption
<1>2. <<>> \in Seq(Nat)
  OBVIOUS
<1> QED BY <1>1, <1>2, NoBookFacts DEF Idle, JobType, PCs, CopyType

LEMMA IdleKnows ==
  ASSUME NEW R
  PROVE  JobOK(Idle, R) /\ SearchOK(Idle, R)
  BY IdleFacts DEF JobOK, SearchOK, Searching

(* SetToSeq names every element of a finite set once.                      *)
LEMMA SetToSeqIs ==
  ASSUME NEW S \in SUBSET Nat, IsFiniteSet(S)
  PROVE  /\ SetToSeq(S) \in Seq(Nat) /\ ToSet(SetToSeq(S)) = S
         /\ \A i, j \in DOMAIN SetToSeq(S) : i # j => SetToSeq(S)[i] # SetToSeq(S)[j]
<1> DEFINE n == Cardinality(S)
           f == SetToSeq(S)
<1>1. n \in Nat
  BY FS_CardinalityType
<1>2. \E g : g \in [1 .. n -> S] /\ IsInjective(g)
  <2>1. PICK m \in Nat : ExistsBijection(1 .. m, S)
    BY FS_NatBijection
  <2>2. m = n
    BY <2>1, FS_CountingElements
  <2> QED BY <2>1, <2>2 DEF ExistsBijection, Bijection, Injection
<1>3. f \in [1 .. n -> S] /\ IsInjective(f)
  BY <1>2 DEF SetToSeq
<1> HIDE DEF n, f
<1>4. f \in Injection(1 .. n, S)
  BY <1>3 DEF Injection
<1>5. Cardinality(1 .. n) = n
  BY <1>1, FS_Interval
<1>6. f \in Surjection(1 .. n, S)
  BY <1>4, <1>5, FS_Injection DEF n
<1>7. \A x \in S : \E i \in 1 .. n : f[i] = x
  BY <1>6 DEF Surjection
<1>8. ToSet(f) = S
  BY <1>3, <1>7 DEF ToSet
<1>9. f \in Seq(Nat)
  <2>1. f \in [1 .. n -> Nat]
    BY <1>3
  <2>2. f \in UNION {[1 .. m -> Nat] : m \in Nat}
    BY <1>1, <2>1, Zenon
  <2> QED BY <2>2
<1>10. \A i, j \in DOMAIN f : i # j => f[i] # f[j]
  BY <1>3 DEF IsInjective
<1> QED BY <1>8, <1>9, <1>10 DEF f

(* From R to Q: rows stay, a dead one stays dead, a corrected one is known *)
(* as such, and only a correction changes an ISBN.                         *)
Evolves(R, Q) ==
  /\ R \in Seq(Row) /\ Q \in Seq(Row) /\ Len(R) <= Len(Q)
  /\ \A i \in DOMAIN R :
       /\ Q[i].alive => R[i].alive
       /\ ~Q[i].edited => ~R[i].edited /\ Q[i].isbn = R[i].isbn
       /\ Q[i].after = R[i].after

LEMMA EvolvesSame ==
  ASSUME NEW R \in Seq(Row)
  PROVE  Evolves(R, R)
  BY RowsAre DEF Evolves

LEMMA KeptJob ==
  ASSUME NEW R, NEW Q, Evolves(R, Q), NEW j \in JobType, JobOK(j, R)
  PROVE  JobOK(j, Q)
<1>1. /\ Len(R) \in Nat /\ DOMAIN R = 1 .. Len(R) /\ Len(Q) \in Nat /\ DOMAIN Q = 1 .. Len(Q)
      /\ Len(R) <= Len(Q)
  BY RowsAre DEF Evolves
<1>2. DOMAIN R \subseteq DOMAIN Q
  BY <1>1
<1>3. j.copy.id \in Nat
  BY DEF JobType
<1>4. ASSUME j.pc = "insert"
      PROVE  /\ j.copy.id <= Len(Q)
             /\ \A i \in DOMAIN Q :
                  Q[i].alive /\ Q[i].isbn = j.copy.isbn /\ ~Q[i].edited => i > j.copy.id
  <2>1. /\ j.copy.id <= Len(R)
        /\ \A i \in DOMAIN R :
             R[i].alive /\ R[i].isbn = j.copy.isbn /\ ~R[i].edited => i > j.copy.id
    BY <1>4 DEF JobOK
  <2>2. ASSUME NEW i \in DOMAIN Q, Q[i].alive, Q[i].isbn = j.copy.isbn, ~Q[i].edited
        PROVE  i > j.copy.id
    <3>1. CASE i \in DOMAIN R
      BY <3>1, <2>1, <2>2 DEF Evolves
    <3>2. CASE i \notin DOMAIN R
      BY <3>2, <2>1, <1>1, <1>3
    <3> QED BY <3>1, <3>2
  <2> QED BY <2>1, <2>2, <1>1, <1>3
<1> QED BY <1>2, <1>4 DEF JobOK

(* When the rows evolve the rule about ISBNs stays, for the old rows.      *)
LEMMA KeptRule ==
  ASSUME RepeatedOnlyIfConcurrent, Evolves(rows, rows'),
         NEW i \in DOMAIN rows, NEW j \in DOMAIN rows, rows'[i].alive, rows'[j].alive,
         i < j, rows'[i].isbn = rows'[j].isbn, ~rows'[i].edited, ~rows'[j].edited
  PROVE  rows'[j].after < i
<1>1. i \in There /\ j \in There
  BY DEF Evolves, There
<1>2. rows[i].isbn = rows[j].isbn /\ ~rows[i].edited /\ ~rows[j].edited
  BY DEF Evolves
<1> QED BY <1>1, <1>2 DEF RepeatedOnlyIfConcurrent, Evolves

LEMMA InitInv == Init => CatalogueInv
<1> SUFFICES ASSUME Init PROVE CatalogueInv
  OBVIOUS
<1>1. rows = <<>> /\ rows \in Seq(Row) /\ DOMAIN rows = {}
  BY DEF Init
<1>2. Types
  BY <1>1, IdleFacts, CatalogueAssumption DEF Init, Types
<1>3. RepeatedOnlyIfConcurrent
  BY <1>1 DEF RepeatedOnlyIfConcurrent, There
<1>4. \A w \in Workers : JobOK(job[w], rows) /\ SearchOK(job[w], rows)
  BY IdleKnows DEF Init
<1> QED BY <1>2, <1>3, <1>4 DEF CatalogueInv

Accepts == accepting \in BOOLEAN

LEMMA CatalogueInvTypes == CatalogueInv /\ Accepts => TypeOK
  BY DEF Accepts, CatalogueInv, Types, TypeOK, JobOK

-----------------------------------------------------------------------------
(* How a worker's job changes *)

OnlyJob(w) ==
  /\ job' \in [Workers -> JobType]
  /\ \A v \in Workers \ {w} : job'[v] = job[v]

LEMMA Answered ==
  ASSUME Types, NEW w \in Workers, Answer(w)
  PROVE  OnlyJob(w) /\ job'[w] = Idle
  BY IdleFacts DEF Types, Answer, OnlyJob

(* A step that leaves the rows alone, and every job but one.               *)
LEMMA Quiet ==
  ASSUME CatalogueInv, NEW w \in Workers, OnlyJob(w), rows' = rows, index' = index,
         rebuilds' = rebuilds, served' \in 0 .. MaxRequests, up' \in BOOLEAN,
         told' \in [ISBNs -> Nat], JobOK(job'[w], rows), SearchOK(job'[w], rows)
  PROVE  CatalogueInv'
<1>1. Types'
  BY DEF CatalogueInv, Types, OnlyJob
<1>2. RepeatedOnlyIfConcurrent'
  BY DEF CatalogueInv, RepeatedOnlyIfConcurrent, There
<1>3. ASSUME NEW v \in Workers
      PROVE  JobOK(job'[v], rows') /\ SearchOK(job'[v], rows')
  <2>1. CASE v = w
    BY <2>1
  <2>2. CASE v # w
    BY <2>2 DEF OnlyJob, CatalogueInv
  <2> QED BY <2>1, <2>2
<1> QED BY <1>1, <1>2, <1>3 DEF CatalogueInv

LEMMA AnsweredQuietly ==
  ASSUME CatalogueInv, NEW w \in Workers, Answer(w), rows' = rows, index' = index,
         rebuilds' = rebuilds, served' = served, up' \in BOOLEAN, told' \in [ISBNs -> Nat]
  PROVE  CatalogueInv'
<1>1. OnlyJob(w) /\ job'[w] = Idle /\ served' \in 0 .. MaxRequests
  BY Answered DEF CatalogueInv, Types
<1> QED BY <1>1, IdleKnows, Quiet

(* A statement that writes: everybody who searches notes what matches.     *)
LEMMA Written ==
  ASSUME CatalogueInv, NEW w \in Workers, NEW j \in JobType, Write(w, j),
         Evolves(rows, rows'), JobOK(j, rows'), SearchOK(j, rows')
  PROVE  /\ job' \in [Workers -> JobType] /\ job'[w] = j
         /\ \A v \in Workers \ {w} : job'[v].pc = job[v].pc /\ job'[v].copy = job[v].copy
         /\ \A v \in Workers : JobOK(job'[v], rows') /\ SearchOK(job'[v], rows')
<1> DEFINE M(v) == Matching(rows', job[v].c.name)
           New(v) == IF ~Searching(job[v]) THEN job[v]
                     ELSE [job[v] EXCEPT !.must = {i \in job[v].must : i \in M(v)},
                                         !.may  = job[v].may \union M(v)]
<1>1. job' = [v \in Workers |-> IF v = w THEN j ELSE New(v)]
  <2>1. \A v \in Workers :
          LET ids == {i \in DOMAIN rows' : rows'[i].alive}
              q   == job[v].c.name IN
          /\ {i \in job[v].must : i \in ids /\ rows'[i].name = q} =
               {i \in job[v].must : i \in M(v)}
          /\ {i \in ids : rows'[i].name = q} = M(v)
    BY DEF Matching
  <2>2. job' = [v \in Workers |->
            IF v = w THEN j
            ELSE IF ~Searching(job[v]) THEN job[v]
            ELSE LET ids == {i \in DOMAIN rows' : rows'[i].alive}
                     q   == job[v].c.name IN
                 [job[v] EXCEPT
                   !.must = {i \in job[v].must : i \in ids /\ rows'[i].name = q},
                   !.may  = job[v].may \union {i \in ids : rows'[i].name = q}]]
    BY DEF Write
  <2> QED BY <2>1, <2>2
<1>2. \A v : M(v) \subseteq Nat
  BY RowsAre DEF Matching, Evolves
<1>3. ASSUME NEW v \in Workers
      PROVE  /\ New(v) \in JobType /\ New(v).pc = job[v].pc /\ New(v).c = job[v].c
             /\ New(v).copy = job[v].copy /\ New(v).found = job[v].found
             /\ New(v).hits = job[v].hits
             /\ Searching(job[v]) => /\ New(v).must = {i \in job[v].must : i \in M(v)}
                                     /\ New(v).may = job[v].may \union M(v)
  <2>1. job[v] \in JobType /\ M(v) \subseteq Nat
    BY <1>2 DEF CatalogueInv, Types
  <2> HIDE DEF M
  <2>2. {i \in job[v].must : i \in M(v)} \in SUBSET Nat /\ job[v].may \union M(v) \in SUBSET Nat
    BY <2>1 DEF JobType
  <2> QED BY <2>1, <2>2 DEF JobType
<1>4. ASSUME NEW v \in Workers
      PROVE  JobOK(New(v), rows') /\ SearchOK(New(v), rows')
  <2>1. JobOK(job[v], rows) /\ SearchOK(job[v], rows) /\ job[v] \in JobType
    BY DEF CatalogueInv, Types
  <2>2. JobOK(job[v], rows')
    BY <2>1, KeptJob
  <2>3. JobOK(New(v), rows')
    <3> HIDE DEF New
    <3> QED BY <1>3, <2>2 DEF JobOK
  <2>4. CASE ~Searching(job[v])
    BY <2>3, <2>4 DEF SearchOK, Searching
  <2>5. CASE Searching(job[v])
    <3>1. PICK x : x = New(v)
      OBVIOUS
    <3>2. /\ x.pc = job[v].pc /\ x.c = job[v].c /\ x.found = job[v].found
          /\ x.hits = job[v].hits /\ x.must = {i \in job[v].must : i \in M(v)}
          /\ x.may = job[v].may \union M(v)
      BY <1>3, <2>5, <3>1
    <3>3. x.must \subseteq Matching(rows', x.c.name) /\ Matching(rows', x.c.name) \subseteq x.may
      BY <3>2
    <3> HIDE DEF M
    <3>4. x.must \subseteq job[v].must /\ job[v].may \subseteq x.may
      BY <3>2
    <3>5. SearchOK(x, rows')
      BY <2>1, <3>2, <3>3, <3>4 DEF SearchOK, Searching
    <3> QED BY <2>3, <3>1, <3>5
  <2> QED BY <2>4, <2>5
<1> HIDE DEF New
<1> QED BY <1>1, <1>3, <1>4

-----------------------------------------------------------------------------
(* The operations that only read keep the invariant *)

LEMMA ReadStays ==
  ASSUME CatalogueInv, NEW w \in Workers
  PROVE  /\ job[w] \in JobType /\ job[w].c \in Commands /\ told \in [ISBNs -> Nat]
         /\ up \in BOOLEAN /\ served \in 0 .. MaxRequests /\ rows \in Seq(Row)
         /\ JobOK(job[w], rows) /\ SearchOK(job[w], rows) /\ Types
  BY DEF CatalogueInv, Types, JobType

LEMMA NamedIs ==
  ASSUME Types, NEW q
  PROVE  /\ Named({q}) = Matching(rows, q) /\ Named({q}) \in SUBSET Nat
         /\ IsFiniteSet(Named({q}))
<1>1. DOMAIN rows = 1 .. Len(rows) /\ Len(rows) \in Nat
  BY RowsAre DEF Types
<1>2. Named({q}) = Matching(rows, q) /\ Named({q}) \subseteq DOMAIN rows
  BY DEF Named, There, Matching
<1>3. IsFiniteSet(DOMAIN rows)
  BY <1>1, FS_Interval
<1>4. IsFiniteSet(Named({q}))
  BY <1>2, <1>3, FS_Subset
<1>5. Named({q}) \in SUBSET Nat
  <2>1. DOMAIN rows \subseteq Nat
    BY <1>1
  <2>2. PICK D : D = DOMAIN rows
    OBVIOUS
  <2>3. PICK N : N = Named({q})
    OBVIOUS
  <2>4. N \subseteq D /\ D \subseteq Nat
    BY <1>2, <2>1, <2>2, <2>3
  <2> QED BY <2>3, <2>4
<1> QED BY <1>2, <1>4, <1>5

LEMMA recvRequestInv ==
  ASSUME CatalogueInv, NEW w \in Workers, recvRequest(w)
  PROVE  CatalogueInv'
<1>1. /\ job[w] \in JobType /\ told' = told /\ told \in [ISBNs -> Nat] /\ up' = up
      /\ up \in BOOLEAN /\ rows' = rows /\ index' = index /\ rebuilds' = rebuilds
      /\ served' \in 0 .. MaxRequests /\ rows \in Seq(Row) /\ Types
  BY ReadStays, CatalogueAssumption DEF recvRequest
<1>2. ASSUME NEW x \in JobType, job' = [job EXCEPT ![w] = x], JobOK(x, rows), SearchOK(x, rows)
      PROVE  CatalogueInv'
  <2>1. OnlyJob(w) /\ job'[w] = x
    BY <1>1, <1>2 DEF OnlyJob, Types
  <2> QED BY <1>1, <1>2, <2>1, Quiet
<1>3. PICK c \in Commands :
        \/ job' = job
        \/ job' = [job EXCEPT ![w] =
                [Idle EXCEPT !.pc = "verify", !.c = c,
                             !.copy = IF Valid(c)
                                      THEN [id |-> 0, isbn |-> c.isbn, name |-> c.name,
                                            count |-> c.count, descr |-> c.descr]
                                      ELSE [NoBook EXCEPT !.descr = c.descr]]]
        \/ job' = [job EXCEPT ![w] =
                [Idle EXCEPT !.pc = "name", !.c = c,
                             !.must = Named({c.name}), !.may = Named({c.name})]]
        \/ job' = [job EXCEPT ![w] = [Idle EXCEPT !.pc = "select", !.c = c]]
  BY DEF recvRequest
<1>4. CASE job' = job
  <2>1. OnlyJob(w) /\ job'[w] = job[w]
    BY <1>1, <1>4 DEF OnlyJob, Types
  <2> QED BY <1>1, <2>1, ReadStays, Quiet
<1>5. CASE \E k \in CopyType : /\ k.isbn # Empty => k.count >= 1 /\ k.name # Empty
                               /\ job' = [job EXCEPT ![w] =
                                    [Idle EXCEPT !.pc = "verify", !.c = c, !.copy = k]]
  <2>1. PICK k \in CopyType : /\ k.isbn # Empty => k.count >= 1 /\ k.name # Empty
                              /\ job' = [job EXCEPT ![w] =
                                   [Idle EXCEPT !.pc = "verify", !.c = c, !.copy = k]]
    BY <1>5
  <2>2. PICK x : x = [Idle EXCEPT !.pc = "verify", !.c = c, !.copy = k]
    OBVIOUS
  <2>3. x \in JobType /\ x.pc = "verify" /\ x.copy = k
    BY <2>2, IdleFacts DEF JobType, PCs, CopyType
  <2>4. JobOK(x, rows) /\ SearchOK(x, rows)
    BY <2>1, <2>3 DEF JobOK, SearchOK, Searching
  <2> QED BY <1>2, <2>1, <2>2, <2>3, <2>4
<1>6. CASE job' = [job EXCEPT ![w] =
                [Idle EXCEPT !.pc = "verify", !.c = c,
                             !.copy = IF Valid(c)
                                      THEN [id |-> 0, isbn |-> c.isbn, name |-> c.name,
                                            count |-> c.count, descr |-> c.descr]
                                      ELSE [NoBook EXCEPT !.descr = c.descr]]]
  <2>1. PICK k : k = IF Valid(c)
                     THEN [id |-> 0, isbn |-> c.isbn, name |-> c.name,
                           count |-> c.count, descr |-> c.descr]
                     ELSE [NoBook EXCEPT !.descr = c.descr]
    OBVIOUS
  <2>2. k \in CopyType /\ (k.isbn # Empty => k.count >= 1 /\ k.name # Empty)
    <3>1. CASE Valid(c)
      <4>1. c.count >= 1 /\ c.name # Empty
        BY <3>1 DEF Valid
      <4>2. c.isbn \in ISBNs /\ c.name \in Names /\ c.count \in Int /\ c.descr \in Descrs
        BY <3>1, Commanded
      <4> QED BY <2>1, <3>1, <4>1, <4>2 DEF CopyType
    <3>2. CASE ~Valid(c)
      <4>1. k = [NoBook EXCEPT !.descr = c.descr]
        BY <2>1, <3>2
      <4> QED BY <4>1, NoBookFacts, Commanded DEF CopyType
    <3> QED BY <3>1, <3>2
  <2>3. job' = [job EXCEPT ![w] = [Idle EXCEPT !.pc = "verify", !.c = c, !.copy = k]]
    BY <1>6, <2>1
  <2> QED BY <1>5, <2>2, <2>3
<1>7. CASE job' = [job EXCEPT ![w] =
                [Idle EXCEPT !.pc = "name", !.c = c,
                             !.must = Named({c.name}), !.may = Named({c.name})]]
  <2>1. PICK m \in SUBSET Nat : m = Named({c.name}) /\ m = Matching(rows, c.name)
    BY <1>1, NamedIs
  <2>2. job' = [job EXCEPT ![w] = [Idle EXCEPT !.pc = "name", !.c = c, !.must = m, !.may = m]]
    BY <1>7, <2>1
  <2>3. PICK x : x = [Idle EXCEPT !.pc = "name", !.c = c, !.must = m, !.may = m]
    OBVIOUS
  <2>4. /\ x \in JobType /\ x.pc = "name" /\ x.c = c /\ x.must = m /\ x.may = m
        /\ x.copy.isbn = Empty
    BY <2>3, IdleFacts DEF JobType, PCs
  <2>5. JobOK(x, rows) /\ SearchOK(x, rows)
    BY <2>1, <2>4 DEF JobOK, SearchOK, Searching
  <2> QED BY <1>2, <2>2, <2>3, <2>4, <2>5
<1>8. CASE job' = [job EXCEPT ![w] = [Idle EXCEPT !.pc = "select", !.c = c]]
  <2>1. PICK x : x = [Idle EXCEPT !.pc = "select", !.c = c]
    OBVIOUS
  <2>2. x \in JobType /\ x.pc = "select" /\ x.copy.isbn = Empty
    BY <2>1, IdleFacts DEF JobType, PCs
  <2>3. JobOK(x, rows) /\ SearchOK(x, rows)
    BY <2>2 DEF JobOK, SearchOK, Searching
  <2> QED BY <1>2, <1>8, <2>1, <2>2, <2>3
<1> QED BY <1>3, <1>4, <1>6, <1>7, <1>8

LEMMA CopyTypes ==
  ASSUME Types, NEW i \in DOMAIN rows
  PROVE  /\ CopyOf(i) \in CopyType /\ CopyOf(i).id = i
         /\ CopyOf(i).count >= 1 /\ CopyOf(i).name # Empty
<1>1. rows[i] \in Row /\ i \in Nat
  BY RowsAre DEF Types
<1>2. Empty \notin Names
  BY CatalogueAssumption
<1>3. Empty \in Descrs
  BY DEF Descrs
<1> QED BY <1>1, <1>2, <1>3 DEF CopyOf, Row, CopyType

LEMMA selectInv ==
  ASSUME CatalogueInv, NEW w \in Workers, select(w)
  PROVE  CatalogueInv'
<1> DEFINE c == job[w].c
<1>1. /\ job[w] \in JobType /\ c \in Commands /\ told' = told /\ told \in [ISBNs -> Nat]
      /\ up' \in BOOLEAN /\ rows' = rows /\ index' = index /\ rebuilds' = rebuilds
      /\ served' = served /\ served \in 0 .. MaxRequests /\ Types /\ job[w].pc = "select"
  BY ReadStays DEF select
<1>2. CASE Answer(w)
  BY <1>1, <1>2, AnsweredQuietly
<1>3. ASSUME NEW i \in Found(c), GoesOn(c, CopyOf(i)),
             job' = [job EXCEPT ![w].pc = "update", ![w].copy = CopyOf(i)]
      PROVE  CatalogueInv'
  <2>1. i \in DOMAIN rows
    BY DEF Found, There
  <2>2. PICK k : k = CopyOf(i)
    OBVIOUS
  <2>3. k \in CopyType /\ k.id = i /\ k.count >= 1 /\ k.name # Empty
    BY <1>1, <2>1, <2>2, CopyTypes
  <2>4. job' = [job EXCEPT ![w].pc = "update", ![w].copy = k] /\ GoesOn(c, k)
    BY <1>3, <2>2
  <2>5. /\ OnlyJob(w) /\ job'[w].pc = "update" /\ job'[w].c = c /\ job'[w].copy = k
    BY <1>1, <2>3, <2>4 DEF OnlyJob, Types, JobType, PCs, CopyType
  <2>6. JobOK(job'[w], rows)
    BY <2>1, <2>3, <2>4, <2>5 DEF JobOK, GoesOn
  <2>7. SearchOK(job'[w], rows)
    BY <2>5 DEF SearchOK, Searching
  <2> QED BY <1>1, <2>5, <2>6, <2>7, Quiet
<1>4. \/ Answer(w)
      \/ \E i \in Found(c) :
           /\ GoesOn(c, CopyOf(i))
           /\ job' = [job EXCEPT ![w].pc = "update", ![w].copy = CopyOf(i)]
  BY DEF select
<1> QED BY <1>2, <1>3, <1>4

LEMMA verifyInv ==
  ASSUME CatalogueInv, NEW w \in Workers, verify(w)
  PROVE  CatalogueInv'
<1> DEFINE taken == \E i \in There : rows[i].isbn = job[w].copy.isbn
<1>1. /\ job[w] \in JobType /\ told' = told /\ told \in [ISBNs -> Nat] /\ up' = up
      /\ up \in BOOLEAN /\ rows' = rows /\ index' = index /\ rebuilds' = rebuilds
      /\ served' = served /\ served \in 0 .. MaxRequests /\ rows \in Seq(Row) /\ Types
      /\ job[w].pc = "verify" /\ JobOK(job[w], rows)
  BY ReadStays DEF verify
<1>2. CASE Answer(w)
  BY <1>1, <1>2, AnsweredQuietly
<1>3. CASE ~taken /\ job' = [job EXCEPT ![w].pc = "insert", ![w].copy.id = Len(rows)]
  <2>1. Len(rows) \in Nat /\ DOMAIN rows = 1 .. Len(rows)
    BY <1>1, RowsAre
  <2>2. PICK k : k = [job[w].copy EXCEPT !.id = Len(rows)]
    OBVIOUS
  <2>3. /\ k \in CopyType /\ k.id = Len(rows) /\ k.isbn = job[w].copy.isbn
        /\ k.name = job[w].copy.name /\ k.count = job[w].copy.count
    BY <1>1, <2>1, <2>2 DEF JobType, CopyType
  <2>4. job' = [job EXCEPT ![w].pc = "insert", ![w].copy = k]
    BY <1>1, <1>3, <2>2 DEF Types, JobType
  <2>5. /\ OnlyJob(w) /\ job'[w].pc = "insert" /\ job'[w].copy = k
    BY <1>1, <2>3, <2>4 DEF OnlyJob, Types, JobType, PCs, CopyType
  <2>6. \A i \in DOMAIN rows : rows[i].alive => rows[i].isbn # k.isbn
    BY <1>3, <2>3 DEF There
  <2>7. JobOK(job'[w], rows)
    BY <1>1, <2>1, <2>3, <2>5, <2>6 DEF JobOK
  <2>8. SearchOK(job'[w], rows)
    BY <2>5 DEF SearchOK, Searching
  <2> QED BY <1>1, <2>5, <2>7, <2>8, Quiet
<1> QED BY <1>2, <1>3 DEF verify

LEMMA lastInsertIdInv ==
  ASSUME CatalogueInv, NEW w \in Workers, lastInsertId(w)
  PROVE  CatalogueInv'
<1>1. /\ job[w] \in JobType /\ told \in [ISBNs -> Nat] /\ up' = up
      /\ up \in BOOLEAN /\ rows' = rows /\ index' = index /\ rebuilds' = rebuilds
      /\ served' = served /\ Answer(w) /\ JobOK(job[w], rows) /\ job[w].pc = "lastInsertId"
  BY ReadStays DEF lastInsertId
<1>2. job[w].copy.isbn \in ISBNs
  BY <1>1 DEF JobOK, JobType
<1>3. told' \in [ISBNs -> Nat]
  BY <1>1, <1>2 DEF lastInsertId
<1> QED BY <1>1, <1>3, AnsweredQuietly

-----------------------------------------------------------------------------
(* Searching *)

LEMMA queryByNameInv ==
  ASSUME CatalogueInv, NEW w \in Workers, queryByName(w)
  PROVE  CatalogueInv'
<1>1. /\ job[w] \in JobType /\ told' = told /\ told \in [ISBNs -> Nat] /\ up' = up
      /\ up \in BOOLEAN /\ rows' = rows /\ index' = index /\ rebuilds' = rebuilds
      /\ served' = served /\ served \in 0 .. MaxRequests /\ Types /\ job[w].pc = "name"
      /\ JobOK(job[w], rows) /\ SearchOK(job[w], rows)
  BY ReadStays DEF queryByName
<1>2. CASE Answer(w)
  BY <1>1, <1>2, AnsweredQuietly
<1>3. CASE \E p \in {"sphinx", "result"} :
             job' = [job EXCEPT ![w].pc = p, ![w].found = SetToSeq(Named({job[w].c.name}))]
  <2>1. PICK p \in {"sphinx", "result"} :
          job' = [job EXCEPT ![w].pc = p, ![w].found = SetToSeq(Named({job[w].c.name}))]
    BY <1>3
  <2>2. PICK f : f = SetToSeq(Named({job[w].c.name}))
    OBVIOUS
  <2>3. /\ f \in Seq(Nat) /\ ToSet(f) = Matching(rows, job[w].c.name)
        /\ \A i, j \in DOMAIN f : i # j => f[i] # f[j]
    <3>1. PICK q : q = job[w].c.name
      OBVIOUS
    <3>2. PICK N : N = Named({q})
      OBVIOUS
    <3>3. N = Matching(rows, q) /\ N \in SUBSET Nat /\ IsFiniteSet(N)
      BY <1>1, <3>2, NamedIs
    <3>4. f = SetToSeq(N)
      BY <2>2, <3>1, <3>2
    <3>5. /\ f \in Seq(Nat) /\ ToSet(f) = N
          /\ \A i, j \in DOMAIN f : i # j => f[i] # f[j]
      BY <3>3, <3>4, SetToSeqIs
    <3> QED BY <3>1, <3>3, <3>5
  <2>4. job' = [job EXCEPT ![w].pc = p, ![w].found = f]
    BY <1>3, <2>1, <2>2
  <2>5. /\ OnlyJob(w) /\ job'[w].pc = p /\ job'[w].found = f /\ job'[w].c = job[w].c
        /\ job'[w].must = job[w].must /\ job'[w].may = job[w].may
        /\ job'[w].copy = job[w].copy
    BY <1>1, <2>3, <2>4 DEF OnlyJob, Types, JobType, PCs
  <2>6. JobOK(job'[w], rows)
    BY <1>1, <2>5 DEF JobOK
  <2>7. SearchOK(job'[w], rows)
    BY <1>1, <2>3, <2>5 DEF SearchOK, Searching
  <2> QED BY <1>1, <2>5, <2>6, <2>7, Quiet
<1> QED BY <1>2, <1>3 DEF queryByName

LEMMA TwoSeqs ==
  ASSUME NEW s \in Seq(Nat), NEW t \in Seq(Nat)
  PROVE  s \o t \in Seq(Nat) /\ ToSet(s \o t) = ToSet(s) \union ToSet(t)
<1>1. /\ s \o t \in Seq(Nat) /\ Len(s \o t) = Len(s) + Len(t)
      /\ \A i \in 1 .. Len(s) + Len(t) :
           (s \o t)[i] = IF i <= Len(s) THEN s[i] ELSE t[i - Len(s)]
  BY ConcatProperties
<1>2. /\ DOMAIN s = 1 .. Len(s) /\ DOMAIN t = 1 .. Len(t) /\ Len(s) \in Nat /\ Len(t) \in Nat
      /\ DOMAIN (s \o t) = 1 .. Len(s) + Len(t)
  BY <1>1, LenProperties
<1>3. ToSet(s \o t) \subseteq ToSet(s) \union ToSet(t)
  <2> SUFFICES ASSUME NEW i \in 1 .. Len(s) + Len(t)
               PROVE  (s \o t)[i] \in ToSet(s) \union ToSet(t)
    BY <1>2 DEF ToSet
  <2>1. CASE i <= Len(s)
    <3>1. (s \o t)[i] = s[i] /\ i \in DOMAIN s
      BY <1>1, <1>2, <2>1
    <3> QED BY <3>1 DEF ToSet
  <2>2. CASE i > Len(s)
    <3>1. (s \o t)[i] = t[i - Len(s)] /\ i - Len(s) \in DOMAIN t
      BY <1>1, <1>2, <2>2
    <3> QED BY <3>1 DEF ToSet
  <2> QED BY <1>2, <2>1, <2>2
<1>4. ToSet(s) \subseteq ToSet(s \o t)
  <2> SUFFICES ASSUME NEW i \in DOMAIN s PROVE s[i] \in ToSet(s \o t)
    BY DEF ToSet
  <2>1. i \in DOMAIN (s \o t) /\ (s \o t)[i] = s[i]
    BY <1>1, <1>2
  <2> QED BY <2>1 DEF ToSet
<1>5. ToSet(t) \subseteq ToSet(s \o t)
  <2> SUFFICES ASSUME NEW i \in DOMAIN t PROVE t[i] \in ToSet(s \o t)
    BY DEF ToSet
  <2>1. i + Len(s) \in DOMAIN (s \o t) /\ (s \o t)[i + Len(s)] = t[i]
    BY SMTT(30), <1>1, <1>2
  <2> QED BY <2>1 DEF ToSet
<1> QED BY <1>1, <1>3, <1>4, <1>5

LEMMA querySphinxInv ==
  ASSUME CatalogueInv, NEW w \in Workers, querySphinx(w)
  PROVE  CatalogueInv'
<1> DEFINE hits == {p[1] : p \in {q \in index : q[2] \in Matches[job[w].c.name]}}
<1>1. /\ job[w] \in JobType /\ told' = told /\ told \in [ISBNs -> Nat] /\ up' = up
      /\ up \in BOOLEAN /\ rows' = rows /\ index' = index /\ rebuilds' = rebuilds
      /\ served' = served /\ served \in 0 .. MaxRequests /\ Types /\ job[w].pc = "sphinx"
      /\ JobOK(job[w], rows) /\ SearchOK(job[w], rows) /\ rows \in Seq(Row)
  BY ReadStays DEF querySphinx
<1>2. CASE Answer(w)
  BY <1>1, <1>2, AnsweredQuietly
<1>3. ASSUME NEW both \in SUBSET hits,
             job' = [job EXCEPT ![w].pc = "hit",
                                ![w].hits = SetToSeq(hits) \o SetToSeq(both),
                                ![w].may = @ \union hits]
      PROVE  CatalogueInv'
  <2>1. hits \subseteq 1 .. Len(rows) /\ Len(rows) \in Nat
    BY <1>1, RowsAre DEF Types
  <2>2. PICK H \in SUBSET Nat : H = hits
    <3>1. hits \in SUBSET Nat
      BY <2>1
    <3> HIDE DEF hits
    <3> QED BY <3>1
  <2>3. IsFiniteSet(1 .. Len(rows))
    BY <2>1, FS_Interval
  <2>4. IsFiniteSet(H) /\ both \in SUBSET H
    BY <2>1, <2>2, <2>3, FS_Subset
  <2>5. IsFiniteSet(both) /\ both \in SUBSET Nat
    BY <2>4, FS_Subset
  <2>6. PICK h : h = SetToSeq(hits) \o SetToSeq(both)
    OBVIOUS
  <2>7. h = SetToSeq(H) \o SetToSeq(both)
    BY <2>2, <2>6
  <2>8. /\ SetToSeq(H) \in Seq(Nat) /\ ToSet(SetToSeq(H)) = H
        /\ SetToSeq(both) \in Seq(Nat) /\ ToSet(SetToSeq(both)) = both
    BY <2>4, <2>5, SetToSeqIs
  <2>9. h \in Seq(Nat) /\ ToSet(h) = H
    <3>1. PICK s \in Seq(Nat) : s = SetToSeq(H)
      BY <2>8
    <3>2. PICK t \in Seq(Nat) : t = SetToSeq(both)
      BY <2>8
    <3>3. h = s \o t /\ ToSet(s) = H /\ ToSet(t) = both
      BY <2>7, <2>8, <3>1, <3>2
    <3>4. h \in Seq(Nat) /\ ToSet(h) = ToSet(s) \union ToSet(t)
      BY <3>3, TwoSeqs
    <3> QED BY <2>4, <3>3, <3>4
  <2> HIDE DEF hits
  <2>10. PICK m \in SUBSET Nat : m = job[w].may \union H
    BY <1>1 DEF JobType
  <2>11. job' = [job EXCEPT ![w].pc = "hit", ![w].hits = h, ![w].may = m]
    BY <1>1, <1>3, <2>2, <2>6, <2>10 DEF Types, JobType
  <2>12. /\ OnlyJob(w) /\ job'[w].pc = "hit" /\ job'[w].found = job[w].found
         /\ job'[w].c = job[w].c /\ job'[w].must = job[w].must /\ job'[w].may = m
         /\ job'[w].copy = job[w].copy /\ job'[w].hits = h
    BY <1>1, <2>9, <2>10, <2>11 DEF OnlyJob, Types, JobType, PCs
  <2>13. JobOK(job'[w], rows)
    BY <1>1, <2>12 DEF JobOK
  <2>14. SearchOK(job'[w], rows)
    BY <1>1, <2>9, <2>10, <2>12 DEF SearchOK, Searching
  <2> QED BY <1>1, <2>12, <2>13, <2>14, Quiet
<1> QED BY <1>2, <1>3 DEF querySphinx

LEMMA readHitInv ==
  ASSUME CatalogueInv, NEW w \in Workers, readHit(w)
  PROVE  CatalogueInv'
<1> DEFINE i == Head(job[w].hits)
           new == i \in There /\ \A j \in DOMAIN job[w].found : job[w].found[j] # i
<1>1. /\ job[w] \in JobType /\ told' = told /\ told \in [ISBNs -> Nat] /\ up' = up
      /\ up \in BOOLEAN /\ rows' = rows /\ index' = index /\ rebuilds' = rebuilds
      /\ served' = served /\ served \in 0 .. MaxRequests /\ Types /\ job[w].pc = "hit"
      /\ JobOK(job[w], rows) /\ SearchOK(job[w], rows) /\ job[w].hits # <<>>
  BY ReadStays DEF readHit
<1>2. CASE Answer(w)
  BY <1>1, <1>2, AnsweredQuietly
<1>3. CASE job' = [job EXCEPT ![w].hits = Tail(@),
                              ![w].found = IF new THEN Append(@, i) ELSE @]
  <2>1. PICK h : h = job[w].hits
    OBVIOUS
  <2>2. PICK f : f = job[w].found
    OBVIOUS
  <2>3. h \in Seq(Nat) /\ f \in Seq(Nat) /\ h # <<>> /\ ToSet(h) \subseteq job[w].may
    BY <1>1, <2>1, <2>2 DEF JobType, SearchOK
  <2>4. /\ Head(h) \in Nat /\ Tail(h) \in Seq(Nat) /\ ToSet(Tail(h)) \subseteq ToSet(h)
        /\ Head(h) \in ToSet(h)
    BY <2>3, HeadTailProperties, LenProperties DEF ToSet
  <2>5. PICK g : g = IF new THEN Append(f, Head(h)) ELSE f
    OBVIOUS
  <2>6. /\ \A j, k \in DOMAIN f : j # k => f[j] # f[k]
        /\ job[w].must \subseteq ToSet(f) /\ ToSet(f) \subseteq job[w].may
    BY <1>1, <2>2 DEF SearchOK
  <2>7. /\ g \in Seq(Nat) /\ \A j, k \in DOMAIN g : j # k => g[j] # g[k]
        /\ ToSet(f) \subseteq ToSet(g) /\ ToSet(g) \subseteq ToSet(f) \union {Head(h)}
    <3>1. CASE ~new
      BY <2>3, <2>5, <2>6, <3>1
    <3>2. CASE new
      <4>1. g = Append(f, Head(h)) /\ \A j \in DOMAIN f : f[j] # Head(h)
        BY <2>1, <2>2, <2>5, <3>2
      <4>2. /\ g \in Seq(Nat) /\ Len(g) = Len(f) + 1 /\ \A j \in 1 .. Len(f) : g[j] = f[j]
            /\ g[Len(f) + 1] = Head(h)
        BY <2>3, <2>4, <4>1, AppendProperties
      <4>3. DOMAIN f = 1 .. Len(f) /\ DOMAIN g = 1 .. Len(f) + 1 /\ Len(f) \in Nat
        BY <2>3, <4>2, LenProperties
      <4>4. \A j \in DOMAIN g : j \in DOMAIN f \/ j = Len(f) + 1
        BY <4>3
      <4>5. DOMAIN f \subseteq DOMAIN g /\ \A j \in DOMAIN f : g[j] = f[j]
        BY <4>2, <4>3
      <4> QED BY <2>6, <4>1, <4>2, <4>4, <4>5 DEF ToSet
    <3> QED BY <3>1, <3>2
  <2>8. PICK t \in Seq(Nat) : t = Tail(h)
    BY <2>4
  <2>9. job' = [job EXCEPT ![w].hits = t, ![w].found = g]
    <3>1. job' = [job EXCEPT ![w] = [job[w] EXCEPT !.hits = t, !.found = g]]
      BY <1>1, <1>3, <2>1, <2>2, <2>5, <2>8 DEF Types, JobType
    <3> QED BY <1>1, <3>1 DEF Types
  <2>10. /\ OnlyJob(w) /\ job'[w].pc = "hit" /\ job'[w].found = g
         /\ job'[w].c = job[w].c /\ job'[w].must = job[w].must /\ job'[w].may = job[w].may
         /\ job'[w].copy = job[w].copy /\ job'[w].hits = t
    BY <1>1, <2>7, <2>9 DEF OnlyJob, Types, JobType, PCs
  <2>11. JobOK(job'[w], rows)
    BY <1>1, <2>10 DEF JobOK
  <2>12. ToSet(g) \subseteq job[w].may /\ ToSet(t) \subseteq job[w].may
         /\ job[w].must \subseteq ToSet(g)
    BY <2>3, <2>4, <2>6, <2>7, <2>8
  <2>13. SearchOK(job'[w], rows)
    BY <1>1, <2>7, <2>10, <2>12 DEF SearchOK, Searching
  <2> QED BY <1>1, <2>10, <2>11, <2>13, Quiet
<1> QED BY <1>2, <1>3 DEF readHit

LEMMA lastHitInv ==
  ASSUME CatalogueInv, NEW w \in Workers, lastHit(w)
  PROVE  CatalogueInv'
<1>1. /\ job[w] \in JobType /\ told' = told /\ told \in [ISBNs -> Nat] /\ up' = up
      /\ up \in BOOLEAN /\ rows' = rows /\ index' = index /\ rebuilds' = rebuilds
      /\ served' = served /\ served \in 0 .. MaxRequests /\ Types /\ job[w].pc = "hit"
      /\ JobOK(job[w], rows) /\ SearchOK(job[w], rows)
  BY ReadStays DEF lastHit
<1>2. job' = [job EXCEPT ![w].pc = "result"]
  BY DEF lastHit, Goto
<1>3. /\ OnlyJob(w) /\ job'[w].pc = "result" /\ job'[w].found = job[w].found
      /\ job'[w].c = job[w].c /\ job'[w].must = job[w].must /\ job'[w].may = job[w].may
      /\ job'[w].copy = job[w].copy
  BY <1>1, <1>2 DEF OnlyJob, Types, JobType, PCs
<1>4. JobOK(job'[w], rows) /\ SearchOK(job'[w], rows)
  BY <1>1, <1>3 DEF JobOK, SearchOK, Searching
<1> QED BY <1>1, <1>3, <1>4, Quiet

-----------------------------------------------------------------------------
(* The operations that write keep the invariant *)

(* Putting x in the place of the row i.                                    *)
LEMMA RowSet ==
  ASSUME NEW R \in Seq(Row), NEW i \in DOMAIN R, NEW x \in Row, NEW Q,
         Q = [R EXCEPT ![i] = x], x.after = R[i].after, x.alive => R[i].alive,
         ~x.edited => ~R[i].edited /\ x.isbn = R[i].isbn
  PROVE  Evolves(R, Q) /\ DOMAIN Q = DOMAIN R /\ Len(Q) = Len(R)
<1>1. DOMAIN R = 1 .. Len(R) /\ Len(R) \in Nat
  BY RowsAre
<1>2. Q \in Seq(Row) /\ Len(Q) = Len(R)
  BY <1>1, ExceptSeq
<1>3. \A k \in 1 .. Len(R) : Q[k] = IF k = i THEN x ELSE R[k]
  BY <1>1, ExceptSeq
<1>4. DOMAIN Q = 1 .. Len(Q)
  BY <1>2, RowsAre
<1> QED BY <1>1, <1>2, <1>3, <1>4 DEF Evolves

LEMMA UpdatedRows ==
  ASSUME CatalogueInv, NEW w \in Workers, update(w)
  PROVE  Evolves(rows, rows') /\ DOMAIN rows' = DOMAIN rows /\ Len(rows') = Len(rows)
<1> DEFINE c == job[w].c
           i == job[w].copy.id
           left == job[w].copy.count - c.count
<1>1. /\ rows \in Seq(Row) /\ c \in Commands /\ i \in DOMAIN rows
      /\ job[w].copy.count \in Int
      /\ c.cmd = "book_setBasicInfo" => Valid(c)
      /\ c.cmd = "book_deleteBook" => job[w].copy.count >= c.count
  BY DEF update, CatalogueInv, Types, JobType, JobOK
<1>2. /\ rows[i] \in Row /\ c.count \in Int /\ c.descr \in Descrs
      /\ Valid(c) => c.count \in Nat \ {0} /\ c.isbn \in ISBNs \ {Empty} /\ c.name \in Names
  BY <1>1, RowsAre, Commanded DEF Command
<1>3. ASSUME NEW x \in Row, rows' = [rows EXCEPT ![i] = x], x.after = rows[i].after,
             x.alive => rows[i].alive,
             ~x.edited => ~rows[i].edited /\ x.isbn = rows[i].isbn
      PROVE  Evolves(rows, rows') /\ DOMAIN rows' = DOMAIN rows /\ Len(rows') = Len(rows)
  <2>1. PICK n \in DOMAIN rows : n = i
    BY <1>1
  <2>2. PICK Q : Q = rows'
    OBVIOUS
  <2>3. /\ Q = [rows EXCEPT ![n] = x] /\ x.after = rows[n].after
        /\ x.alive => rows[n].alive
        /\ ~x.edited => ~rows[n].edited /\ x.isbn = rows[n].isbn
    BY <1>3, <2>1, <2>2
  <2>4. Evolves(rows, Q) /\ DOMAIN Q = DOMAIN rows /\ Len(Q) = Len(rows)
    BY <1>1, <2>3, RowSet
  <2> QED BY <2>2, <2>4
<1>4. CASE /\ c.cmd = "book_setBasicInfo"
           /\ rows' = [rows EXCEPT ![i].isbn = c.isbn, ![i].name = c.name,
                                   ![i].count = c.count, ![i].edited = TRUE]
  <2>1. PICK x : x = [rows[i] EXCEPT !.isbn = c.isbn, !.name = c.name,
                                     !.count = c.count, !.edited = TRUE]
    OBVIOUS
  <2>2. /\ x \in Row /\ x.after = rows[i].after /\ x.alive = rows[i].alive /\ x.edited
    BY <1>1, <1>2, <1>4, <2>1 DEF Row
  <2>3. rows' = [rows EXCEPT ![i] = x]
    BY <1>1, <1>4, <2>1
  <2> QED BY <1>3, <2>2, <2>3
<1>5. CASE rows' = [rows EXCEPT ![i].descr = c.descr]
  <2>1. PICK x : x = [rows[i] EXCEPT !.descr = c.descr]
    OBVIOUS
  <2>2. /\ x \in Row /\ x.after = rows[i].after /\ x.alive = rows[i].alive
        /\ x.edited = rows[i].edited /\ x.isbn = rows[i].isbn
    BY <1>2, <2>1 DEF Row
  <2>3. rows' = [rows EXCEPT ![i] = x]
    BY <1>5, <2>1
  <2> QED BY <1>3, <2>2, <2>3
<1>6. CASE rows' = [rows EXCEPT ![i].alive = FALSE]
  <2>1. PICK x : x = [rows[i] EXCEPT !.alive = FALSE]
    OBVIOUS
  <2>2. /\ x \in Row /\ x.after = rows[i].after /\ ~x.alive
        /\ x.edited = rows[i].edited /\ x.isbn = rows[i].isbn
    BY <1>2, <2>1 DEF Row
  <2>3. rows' = [rows EXCEPT ![i] = x]
    BY <1>6, <2>1
  <2> QED BY <1>3, <2>2, <2>3
<1>7. CASE c.cmd = "book_deleteBook" /\ left # 0 /\ rows' = [rows EXCEPT ![i].count = left]
  <2>1. left \in Nat \ {0}
    BY <1>1, <1>2, <1>7
  <2> HIDE DEF left
  <2>2. PICK x : x = [rows[i] EXCEPT !.count = left]
    OBVIOUS
  <2>3. /\ x \in Row /\ x.after = rows[i].after /\ x.alive = rows[i].alive
        /\ x.edited = rows[i].edited /\ x.isbn = rows[i].isbn
    BY <1>2, <2>1, <2>2 DEF Row
  <2>4. rows' = [rows EXCEPT ![i] = x]
    BY <1>7, <2>2
  <2> QED BY <1>3, <2>3, <2>4
<1>8. CASE rows' = rows
  BY <1>1, <1>8, EvolvesSame
<1> QED BY <1>4, <1>5, <1>6, <1>7, <1>8 DEF update

LEMMA updateInv ==
  ASSUME CatalogueInv, NEW w \in Workers, update(w)
  PROVE  CatalogueInv'
<1>1. Evolves(rows, rows') /\ DOMAIN rows' = DOMAIN rows /\ Len(rows') = Len(rows)
  BY UpdatedRows
<1>2. /\ Write(w, Idle) /\ index' = index /\ rebuilds' = rebuilds /\ served' = served
      /\ up' = up /\ told' = told
  BY DEF update
<1>3. JobOK(Idle, rows') /\ SearchOK(Idle, rows')
  BY IdleKnows
<1>4. /\ job' \in [Workers -> JobType]
      /\ \A v \in Workers : JobOK(job'[v], rows') /\ SearchOK(job'[v], rows')
  BY <1>1, <1>2, <1>3, IdleFacts, Written
<1>5. Types'
  BY <1>1, <1>2, <1>4 DEF CatalogueInv, Types, Evolves
<1>6. RepeatedOnlyIfConcurrent'
  BY <1>1, KeptRule DEF CatalogueInv, RepeatedOnlyIfConcurrent, There
<1> QED BY <1>4, <1>5, <1>6 DEF CatalogueInv

(* What the INSERT of a book that is not empty does.                       *)
Inserted(w, x) ==
  /\ x \in Row /\ x.isbn = job[w].copy.isbn /\ x.after = job[w].copy.id
  /\ ~x.edited /\ x.alive
  /\ rows' \in Seq(Row) /\ Len(rows') = Len(rows) + 1 /\ rows'[Len(rows) + 1] = x
  /\ \A i \in DOMAIN rows : rows'[i] = rows[i]
  /\ Write(w, [job[w] EXCEPT !.pc = "lastInsertId"])

LEMMA Inserts ==
  ASSUME CatalogueInv, NEW w \in Workers, insert(w)
  PROVE  \/ Answer(w) /\ rows' = rows
         \/ job[w].copy.isbn # Empty /\ \E x : Inserted(w, x)
<1> DEFINE copy == job[w].copy
<1>1. /\ job[w] \in JobType /\ rows \in Seq(Row) /\ JobOK(job[w], rows)
  BY ReadStays
<1>2. CASE copy.isbn # Empty /\
           /\ rows' = Append(rows, [isbn |-> copy.isbn, name |-> copy.name,
                                    count |-> copy.count, descr |-> copy.descr,
                                    alive |-> TRUE, edited |-> FALSE, after |-> copy.id])
           /\ Write(w, [job[w] EXCEPT !.pc = "lastInsertId"])
  <2>1. PICK x : x = [isbn |-> copy.isbn, name |-> copy.name,
                      count |-> copy.count, descr |-> copy.descr,
                      alive |-> TRUE, edited |-> FALSE, after |-> copy.id]
    OBVIOUS
  <2>2. copy.count \in Nat \ {0} /\ copy.name \in Names /\ copy.isbn \in ISBNs \ {Empty}
    BY <1>1, <1>2 DEF JobOK, JobType
  <2>3. /\ x \in Row /\ x.isbn = copy.isbn /\ x.after = copy.id /\ ~x.edited /\ x.alive
    BY <1>1, <2>1, <2>2 DEF JobType, Row
  <2>4. rows' = Append(rows, x)
    BY <1>2, <2>1
  <2>5. /\ rows' \in Seq(Row) /\ Len(rows') = Len(rows) + 1 /\ rows'[Len(rows) + 1] = x
        /\ \A i \in 1 .. Len(rows) : rows'[i] = rows[i]
    BY <1>1, <2>3, <2>4, AppendProperties
  <2>6. \A i \in DOMAIN rows : rows'[i] = rows[i]
    BY <1>1, <2>5, RowsAre
  <2> QED BY <1>2, <2>3, <2>5, <2>6 DEF Inserted
<1> QED BY <1>2 DEF insert

LEMMA InsertedStep ==
  ASSUME CatalogueInv, NEW w \in Workers, insert(w), NEW x, Inserted(w, x),
         job[w].copy.isbn # Empty
  PROVE  /\ Evolves(rows, rows') /\ job' \in [Workers -> JobType]
         /\ job'[w] = [job[w] EXCEPT !.pc = "lastInsertId"]
         /\ \A v \in Workers \ {w} : job'[v].pc = job[v].pc /\ job'[v].copy = job[v].copy
         /\ \A v \in Workers : JobOK(job'[v], rows') /\ SearchOK(job'[v], rows')
<1>1. /\ job[w] \in JobType /\ rows \in Seq(Row) /\ JobOK(job[w], rows)
      /\ job[w].pc = "insert"
  BY ReadStays DEF insert
<1>2. /\ rows' \in Seq(Row) /\ Len(rows') = Len(rows) + 1
      /\ \A i \in DOMAIN rows : rows'[i] = rows[i]
  BY DEF Inserted
<1>3. Len(rows) \in Nat /\ DOMAIN rows = 1 .. Len(rows)
  BY <1>1, RowsAre
<1>4. Evolves(rows, rows')
  BY <1>1, <1>2, <1>3 DEF Evolves
<1>5. PICK j : j = [job[w] EXCEPT !.pc = "lastInsertId"]
  OBVIOUS
<1>6. j \in JobType /\ j.pc = "lastInsertId" /\ j.copy = job[w].copy
  BY <1>1, <1>5 DEF JobType, PCs
<1>7. JobOK(j, rows') /\ SearchOK(j, rows')
  BY <1>1, <1>6 DEF JobOK, SearchOK, Searching
<1>8. Write(w, j)
  BY <1>5 DEF Inserted
<1>9. /\ job' \in [Workers -> JobType] /\ job'[w] = j
      /\ \A v \in Workers \ {w} : job'[v].pc = job[v].pc /\ job'[v].copy = job[v].copy
      /\ \A v \in Workers : JobOK(job'[v], rows') /\ SearchOK(job'[v], rows')
  BY <1>4, <1>6, <1>7, <1>8, Written
<1> QED BY <1>4, <1>5, <1>9

LEMMA insertInv ==
  ASSUME CatalogueInv, NEW w \in Workers, insert(w)
  PROVE  CatalogueInv'
<1>1. /\ job[w].pc = "insert" /\ index' = index /\ rebuilds' = rebuilds /\ served' = served
      /\ up' = up /\ told' = told /\ JobOK(job[w], rows) /\ Types /\ rows \in Seq(Row)
      /\ up \in BOOLEAN /\ told \in [ISBNs -> Nat] /\ job[w] \in JobType
  BY ReadStays DEF insert
<1>2. CASE Answer(w) /\ rows' = rows
  BY <1>1, <1>2, AnsweredQuietly
<1>3. ASSUME NEW x, Inserted(w, x), job[w].copy.isbn # Empty
      PROVE  CatalogueInv'
  <2>1. /\ Evolves(rows, rows') /\ job' \in [Workers -> JobType]
        /\ \A v \in Workers : JobOK(job'[v], rows') /\ SearchOK(job'[v], rows')
    BY <1>3, InsertedStep
  <2>2. /\ Len(rows) \in Nat /\ DOMAIN rows = 1 .. Len(rows) /\ rows' \in Seq(Row)
        /\ Len(rows') = Len(rows) + 1 /\ DOMAIN rows' = 1 .. Len(rows) + 1
        /\ \A i \in DOMAIN rows : rows'[i] = rows[i]
        /\ rows'[Len(rows) + 1] = x
    BY <1>1, <1>3, RowsAre DEF Inserted
  <2>3. job[w].copy.id <= Len(rows) /\ job[w].copy.id \in Nat /\ x.after = job[w].copy.id
        /\ x.isbn = job[w].copy.isbn
    BY <1>1, <1>3 DEF JobOK, JobType, Inserted
  <2>4. Types'
    <3>1. \A i \in DOMAIN rows' : rows'[i].after < i
      BY <1>1, <2>2, <2>3 DEF Types
    <3>2. index' \subseteq (1 .. Len(rows')) \X Names
      BY <1>1, <2>2 DEF Types
    <3> QED BY <1>1, <2>1, <2>2, <3>1, <3>2 DEF Types
  <2>5. RepeatedOnlyIfConcurrent'
    <3> SUFFICES ASSUME NEW i \in DOMAIN rows', NEW j \in DOMAIN rows',
                        rows'[i].alive, rows'[j].alive, i < j,
                        rows'[i].isbn = rows'[j].isbn, ~rows'[i].edited, ~rows'[j].edited
                 PROVE  rows'[j].after < i
      BY DEF RepeatedOnlyIfConcurrent, There
    <3>1. i \in DOMAIN rows /\ rows'[i] = rows[i]
      BY <2>2
    <3>2. CASE j \in DOMAIN rows
      BY <2>1, <3>1, <3>2, KeptRule DEF CatalogueInv
    <3>3. CASE j = Len(rows) + 1
      <4>1. rows'[j] = x
        BY <2>2, <3>3
      <4>2. i > job[w].copy.id
        BY <1>1, <2>3, <3>1, <4>1 DEF JobOK
      <4> QED BY <2>2, <2>3, <4>1, <4>2
    <3> QED BY <2>2, <3>2, <3>3
  <2> QED BY <2>1, <2>4, <2>5 DEF CatalogueInv
<1> QED BY <1>2, <1>3, Inserts

LEMMA indexerInv ==
  ASSUME CatalogueInv, indexer
  PROVE  CatalogueInv'
<1>1. /\ rows' = rows /\ job' = job /\ served' = served /\ up' = up /\ told' = told
      /\ rebuilds' = rebuilds + 1 /\ rebuilds < MaxRebuilds
      /\ index' = {<<i, rows[i].name>> : i \in There}
  BY DEF indexer
<1>2. index' \subseteq (1 .. Len(rows)) \X Names
  <2>1. \A i \in There : i \in 1 .. Len(rows) /\ rows[i].name \in Names
    BY RowsAre DEF CatalogueInv, Types, There, Row
  <2> QED BY <1>1, <2>1
<1>3. Types'
  BY <1>1, <1>2, CatalogueAssumption DEF CatalogueInv, Types
<1> QED BY <1>1, <1>3 DEF CatalogueInv, RepeatedOnlyIfConcurrent, There

LEMMA sendResultInv ==
  ASSUME CatalogueInv, NEW w \in Workers, sendResult(w)
  PROVE  CatalogueInv'
<1>1. /\ Answer(w) /\ rows' = rows /\ index' = index /\ rebuilds' = rebuilds
      /\ served' = served /\ up' = up /\ told' = told
      /\ up \in BOOLEAN /\ told \in [ISBNs -> Nat]
  BY ReadStays DEF sendResult
<1> QED BY <1>1, AnsweredQuietly

(* Whoever crashes knows nothing.                                          *)
LEMMA Crashed ==
  ASSUME CatalogueInv, NEW w \in Workers, NEW c \in Commands, Crash(w, c)
  PROVE  /\ OnlyJob(w) /\ job'[w].pc = "crashed" /\ up' \in BOOLEAN
         /\ JobOK(job'[w], rows) /\ SearchOK(job'[w], rows)
<1>1. PICK x : x = [Idle EXCEPT !.pc = "crashed", !.c = c]
  OBVIOUS
<1>2. x \in JobType /\ x.pc = "crashed" /\ x.copy = NoBook
  BY <1>1, IdleFacts DEF JobType, PCs
<1>3. job' = [job EXCEPT ![w] = x] /\ up' = FALSE
  BY <1>1 DEF Crash
<1>4. OnlyJob(w) /\ job'[w] = x
  BY <1>2, <1>3 DEF CatalogueInv, Types, OnlyJob
<1>5. JobOK(x, rows) /\ SearchOK(x, rows)
  BY <1>2, NoBookFacts DEF JobOK, SearchOK, Searching
<1> QED BY <1>2, <1>3, <1>4, <1>5

LEMMA Crashers ==
  ASSUME CatalogueInv, NEW w \in Workers, Crashing(w)
  PROVE  /\ \E c \in Commands : Crash(w, c)
         /\ rows' = rows /\ index' = index /\ rebuilds' = rebuilds /\ told' = told
         /\ served' \in 0 .. MaxRequests /\ job[w].pc # "lastInsertId"
<1>1. job[w].c \in Commands
  BY DEF CatalogueInv, Types, JobType
<1>2. served \in 0 .. MaxRequests /\ MaxRequests \in Nat
  BY CatalogueAssumption DEF CatalogueInv, Types
<1> QED BY <1>1, <1>2 DEF Crashing, recvRequestCrash, getConnectionRefused

LEMMA crashingInv ==
  ASSUME CatalogueInv, NEW w \in Workers, Crashing(w)
  PROVE  CatalogueInv'
<1>1. PICK c \in Commands : Crash(w, c)
  BY Crashers
<1>2. told' \in [ISBNs -> Nat]
  BY Crashers DEF CatalogueInv, Types
<1> QED BY <1>1, <1>2, Crashed, Crashers, Quiet

LEMMA NextInv == CatalogueInv /\ [Next]_vars => CatalogueInv'
<1> SUFFICES ASSUME CatalogueInv, [Next]_vars PROVE CatalogueInv'
  OBVIOUS
<1>1. CASE UNCHANGED vars \/ mysqlTurns
  BY <1>1 DEF vars, mysqlTurns, CatalogueInv, Types, RepeatedOnlyIfConcurrent, There
<1>2. CASE indexer
  BY <1>2, indexerInv
<1>3. ASSUME NEW w \in Workers, recvRequest(w) \/ Serve(w)
      PROVE  CatalogueInv'
  BY <1>3, recvRequestInv, selectInv, updateInv, verifyInv, insertInv, lastInsertIdInv,
     queryByNameInv, querySphinxInv, readHitInv, lastHitInv, sendResultInv DEF Serve
<1>4. ASSUME NEW w \in Workers, Crashing(w)
      PROVE  CatalogueInv'
  BY <1>4, crashingInv
<1> QED BY <1>1, <1>2, <1>3, <1>4 DEF Next

LEMMA Invariant == Spec => []CatalogueInv
  BY InitInv, NextInv, PTL DEF Spec

LEMMA AcceptsAlways == Spec => []Accepts
<1>1. Init => Accepts
  BY DEF Init, Accepts
<1>2. Accepts /\ [Next]_vars => Accepts'
  BY DEF Next, vars, Serve, Crashing, recvRequest, recvRequestCrash, getConnectionRefused,
         mysqlTurns, indexer, select, update, verify, insert, lastInsertId, queryByName,
         querySphinx, readHit, lastHit, sendResult, Accepts
<1> QED BY <1>1, <1>2, PTL DEF Spec

(* Whatever is received and fails the state is well-typed: every row keeps *)
(* passing the checks of CBook, and an UPDATE names a row there was.       *)
THEOREM CatalogueTypeCorrect == Spec => []TypeOK
  BY Invariant, AcceptsAlways, CatalogueInvTypes, PTL

(* A search names no book twice, misses none that matched all the time and *)
(* names none that matched at no time and was not indexed as a match.      *)
THEOREM SearchesAreExact == Spec => []SearchIsExact
<1>1. CatalogueInv => SearchIsExact
  BY DEF CatalogueInv, SearchOK, SearchIsExact
<1> QED BY <1>1, Invariant, PTL

(* While MySQL accepts connections the server goes down only by the two    *)
(* commands that go on with a null pointer when nothing is found, and by a *)
(* session whose level is beyond the table of rights: the reading of a row *)
(* that has just been deleted, or of a hit that is gone, is no such case.  *)
THEOREM OnlyKnownCrashes == Spec => CrashesAreKnown
<1>1. CatalogueInv /\ [Next]_vars =>
        [up /\ ~up' /\ accepting => \E w \in Workers : NotThere(w) \/ BeyondTable(w)]_vars
  <2> SUFFICES ASSUME CatalogueInv, [Next]_vars, up, ~up', accepting
               PROVE  \E w \in Workers : NotThere(w) \/ BeyondTable(w)
    OBVIOUS
  <2>1. PICK w \in Workers : recvRequest(w) \/ Serve(w) \/ Crashing(w)
    BY DEF Next, vars, indexer, mysqlTurns
  <2>2. CASE recvRequestCrash(w)
    <3>1. PICK c \in Commands : OutOfTable(c) /\ Crash(w, c)
      BY <2>2 DEF recvRequestCrash
    <3>2. PICK x : x = [Idle EXCEPT !.pc = "crashed", !.c = c]
      OBVIOUS
    <3>3. x.pc = "crashed" /\ x.c = c
      BY <3>2, IdleFacts DEF JobType
    <3>4. job'[w] = x
      BY <3>1, <3>2 DEF Crash, CatalogueInv, Types
    <3> QED BY <2>2, <3>1, <3>3, <3>4 DEF recvRequestCrash, BeyondTable
  <2>3. CASE select(w)
    BY <2>3 DEF select, Crashes, NotThere
  <2>4. ~getConnectionRefused(w)
    BY DEF getConnectionRefused
  <2>5. ~Serve(w) \/ select(w)
    BY DEF Serve, update, verify, insert, lastInsertId, queryByName, querySphinx, readHit,
           lastHit, sendResult
  <2> QED BY <2>1, <2>2, <2>3, <2>4, <2>5 DEF recvRequest, Crashing
<1> QED BY <1>1, Invariant, PTL DEF Spec, CrashesAreKnown

-----------------------------------------------------------------------------
(* Insertion: whoever is about to answer has a row too.                    *)

Pending(n) == {w \in Workers : job[w].pc = "lastInsertId" /\ job[w].copy.isbn = n}
Having(n)  == {i \in DOMAIN rows : rows[i].isbn = n \/ rows[i].edited}

EachHasARow == \A n \in ISBNs : told[n] + Cardinality(Pending(n)) <= Cardinality(Having(n))

LEMMA FiniteSets ==
  ASSUME IsFiniteSet(Workers), Types, NEW n
  PROVE  /\ IsFiniteSet(Pending(n)) /\ Cardinality(Pending(n)) \in Nat
         /\ IsFiniteSet(Having(n)) /\ Cardinality(Having(n)) \in Nat
<1>1. IsFiniteSet(Pending(n))
  BY FS_Subset DEF Pending
<1>2. DOMAIN rows = 1 .. Len(rows) /\ Len(rows) \in Nat
  BY RowsAre DEF Types
<1>3. IsFiniteSet(DOMAIN rows)
  BY <1>2, FS_Interval
<1>4. IsFiniteSet(Having(n))
  BY <1>3, FS_Subset DEF Having
<1> QED BY <1>1, <1>4, FS_CardinalityType

(* A step in which nobody enters or leaves lastInsertId, and no row is     *)
(* lost.                                                                   *)
LEMMA NobodyTold ==
  ASSUME IsFiniteSet(Workers), Types, Types', EachHasARow, told' = told,
         Evolves(rows, rows'),
         \A v \in Workers : job'[v].pc = "lastInsertId" <=> job[v].pc = "lastInsertId",
         \A v \in Workers : job[v].pc = "lastInsertId" => job'[v].copy = job[v].copy
  PROVE  EachHasARow'
<1> SUFFICES ASSUME NEW n \in ISBNs
             PROVE  told'[n] + Cardinality(Pending(n)') <= Cardinality(Having(n)')
  BY DEF EachHasARow
<1>1. Pending(n)' = Pending(n)
  BY DEF Pending
<1>2. Having(n) \subseteq Having(n)'
  <2> SUFFICES ASSUME NEW i \in DOMAIN rows, rows[i].isbn = n \/ rows[i].edited
               PROVE  i \in DOMAIN rows' /\ (rows'[i].isbn = n \/ rows'[i].edited)
    BY DEF Having
  <2>1. i \in DOMAIN rows'
    BY RowsAre DEF Evolves
  <2> QED BY <2>1 DEF Evolves
<1>3. IsFiniteSet(Having(n)') /\ Cardinality(Having(n)') \in Nat
  <2>1. Len(rows') \in Nat /\ DOMAIN rows' = 1 .. Len(rows')
    BY RowsAre DEF Evolves
  <2>2. IsFiniteSet(DOMAIN rows')
    BY <2>1, FS_Interval
  <2>3. IsFiniteSet(Having(n)')
    BY <2>2, FS_Subset DEF Having
  <2> QED BY <2>3, FS_CardinalityType
<1>4. Cardinality(Having(n)) <= Cardinality(Having(n)')
  BY <1>2, <1>3, FS_Subset
<1>5. /\ told[n] \in Nat /\ told[n] + Cardinality(Pending(n)) <= Cardinality(Having(n))
      /\ Cardinality(Pending(n)) \in Nat /\ Cardinality(Having(n)) \in Nat
  BY FiniteSets DEF EachHasARow, Types
<1> QED BY <1>1, <1>3, <1>4, <1>5

LEMMA InsertCounts ==
  ASSUME IsFiniteSet(Workers), CatalogueInv, CatalogueInv', EachHasARow, NEW w \in Workers,
         insert(w)
  PROVE  EachHasARow'
<1> DEFINE copy == job[w].copy
<1>1. /\ job[w].pc = "insert" /\ told' = told /\ Types /\ Types' /\ rows \in Seq(Row)
      /\ job[w] \in JobType
  BY DEF insert, CatalogueInv, Types
<1>2. CASE Answer(w) /\ rows' = rows
  <2>1. OnlyJob(w) /\ job'[w] = Idle
    BY <1>1, <1>2, Answered
  <2>2. Evolves(rows, rows')
    BY <1>1, <1>2, EvolvesSame
  <2>3. /\ \A v \in Workers : job'[v].pc = "lastInsertId" <=> job[v].pc = "lastInsertId"
        /\ \A v \in Workers : job[v].pc = "lastInsertId" => job'[v].copy = job[v].copy
    BY <1>1, <2>1, IdleFacts DEF OnlyJob
  <2> QED BY <1>1, <2>2, <2>3, NobodyTold
<1>3. ASSUME NEW x, Inserted(w, x), copy.isbn # Empty
      PROVE  EachHasARow'
  <2>1. /\ job'[w] = [job[w] EXCEPT !.pc = "lastInsertId"]
        /\ \A v \in Workers \ {w} : job'[v].pc = job[v].pc /\ job'[v].copy = job[v].copy
    BY <1>3, InsertedStep
  <2>2. job'[w].pc = "lastInsertId" /\ job'[w].copy = copy
    BY <1>1, <2>1 DEF JobType
  <2>3. /\ Len(rows) \in Nat /\ DOMAIN rows = 1 .. Len(rows)
        /\ DOMAIN rows' = 1 .. Len(rows) + 1
        /\ \A i \in DOMAIN rows : rows'[i] = rows[i]
        /\ rows'[Len(rows) + 1] = x /\ x.isbn = copy.isbn /\ ~x.edited
    BY <1>1, <1>3, RowsAre DEF Inserted
  <2>4. SUFFICES ASSUME NEW n \in ISBNs
                 PROVE  told[n] + Cardinality(Pending(n)') <= Cardinality(Having(n)')
    BY <1>1 DEF EachHasARow
  <2>5. /\ told[n] \in Nat /\ told[n] + Cardinality(Pending(n)) <= Cardinality(Having(n))
        /\ IsFiniteSet(Pending(n)) /\ Cardinality(Pending(n)) \in Nat
        /\ IsFiniteSet(Having(n)) /\ Cardinality(Having(n)) \in Nat
    BY <1>1, FiniteSets DEF EachHasARow, Types
  <2>6. CASE n = copy.isbn
    <3>1. Pending(n)' = Pending(n) \union {w} /\ w \notin Pending(n)
      BY <1>1, <2>1, <2>2, <2>6 DEF Pending
    <3>2. PICK k : k = Len(rows) + 1
      OBVIOUS
    <3>3. Having(n)' = Having(n) \union {k} /\ k \notin Having(n)
      BY <2>3, <2>6, <3>2 DEF Having
    <3>4. Cardinality(Pending(n)') = Cardinality(Pending(n)) + 1
      BY <2>5, <3>1, FS_AddElement
    <3>5. Cardinality(Having(n)') = Cardinality(Having(n)) + 1
      BY <2>5, <3>3, FS_AddElement
    <3> QED BY <2>5, <3>4, <3>5
  <2>7. CASE n # copy.isbn
    <3>1. Pending(n)' = Pending(n)
      BY <1>1, <2>1, <2>2, <2>7 DEF Pending
    <3>2. Having(n)' = Having(n)
      BY <2>3, <2>7 DEF Having
    <3> QED BY <2>5, <3>1, <3>2
  <2> QED BY <2>6, <2>7
<1> QED BY <1>2, <1>3, Inserts

LEMMA ToldCounts ==
  ASSUME IsFiniteSet(Workers), CatalogueInv, EachHasARow, NEW w \in Workers, lastInsertId(w)
  PROVE  EachHasARow'
<1> DEFINE isbn == job[w].copy.isbn
<1>1. job[w].pc = "lastInsertId" /\ rows' = rows /\ Types /\ Answer(w)
  BY DEF lastInsertId, CatalogueInv
<1>2. OnlyJob(w) /\ job'[w] = Idle
  BY <1>1, Answered
<1>3. told' = [told EXCEPT ![isbn] = @ + 1] \/ told' = told
  BY DEF lastInsertId
<1>4. SUFFICES ASSUME NEW n \in ISBNs
               PROVE  told'[n] + Cardinality(Pending(n)') <= Cardinality(Having(n)')
  BY DEF EachHasARow
<1>5. /\ told[n] \in Nat /\ told[n] + Cardinality(Pending(n)) <= Cardinality(Having(n))
      /\ IsFiniteSet(Pending(n)) /\ Cardinality(Pending(n)) \in Nat
      /\ IsFiniteSet(Having(n)) /\ Cardinality(Having(n)) \in Nat
  BY <1>1, FiniteSets DEF EachHasARow, Types
<1>6. Having(n)' = Having(n)
  BY <1>1 DEF Having
<1>7. CASE n = isbn
  <2>1. Pending(n)' = Pending(n) \ {w} /\ w \in Pending(n)
    BY <1>1, <1>2, <1>7, IdleFacts DEF Pending, OnlyJob
  <2>2. Cardinality(Pending(n)') = Cardinality(Pending(n)) - 1
    BY <1>5, <2>1, FS_RemoveElement
  <2>3. told'[n] \in {told[n], told[n] + 1}
    BY <1>1, <1>3, <1>7 DEF Types
  <2> QED BY <1>5, <1>6, <2>2, <2>3
<1>8. CASE n # isbn
  <2>1. Pending(n)' = Pending(n)
    BY <1>1, <1>2, <1>8, IdleFacts DEF Pending, OnlyJob
  <2>2. told'[n] = told[n]
    BY <1>1, <1>3, <1>8 DEF Types
  <2> QED BY <1>5, <1>6, <2>1, <2>2
<1> QED BY <1>7, <1>8

LEMMA CountsStep ==
  ASSUME IsFiniteSet(Workers), CatalogueInv, EachHasARow, [Next]_vars
  PROVE  EachHasARow'
<1>1. CatalogueInv' /\ Types /\ Types' /\ Evolves(rows, rows)
  BY NextInv, EvolvesSame DEF CatalogueInv, Types
<1>2. CASE UNCHANGED vars \/ indexer \/ mysqlTurns
  <2>1. rows' = rows /\ told' = told /\ job' = job
    BY <1>2 DEF vars, indexer, mysqlTurns
  <2>2. Evolves(rows, rows')
    BY <1>1, <2>1
  <2> QED BY <1>1, <2>1, <2>2, NobodyTold
<1>3. ASSUME NEW w \in Workers, recvRequest(w) \/ Serve(w)
      PROVE  EachHasARow'
  <2>1. CASE insert(w)
    BY <1>1, <2>1, InsertCounts
  <2>2. CASE lastInsertId(w)
    BY <2>2, ToldCounts
  <2>3. CASE update(w)
    <3>1. Evolves(rows, rows')
      BY <2>3, UpdatedRows
    <3>2. JobOK(Idle, rows') /\ SearchOK(Idle, rows')
      BY IdleKnows
    <3>3. Write(w, Idle) /\ told' = told /\ job[w].pc = "update"
      BY <2>3 DEF update
    <3>4. /\ job'[w] = Idle
          /\ \A v \in Workers \ {w} : job'[v].pc = job[v].pc /\ job'[v].copy = job[v].copy
      BY <3>1, <3>2, <3>3, IdleFacts, Written
    <3>5. /\ \A v \in Workers : job'[v].pc = "lastInsertId" <=> job[v].pc = "lastInsertId"
          /\ \A v \in Workers : job[v].pc = "lastInsertId" => job'[v].copy = job[v].copy
      BY <3>3, <3>4, IdleFacts
    <3> QED BY <1>1, <3>1, <3>3, <3>5, NobodyTold
  <2>4. CASE recvRequest(w) \/ select(w) \/ verify(w) \/ queryByName(w) \/ querySphinx(w)
             \/ readHit(w) \/ lastHit(w) \/ sendResult(w)
    <3>1. rows' = rows /\ told' = told /\ job[w].pc # "lastInsertId"
      BY <2>4 DEF recvRequest, select, verify, queryByName, querySphinx, readHit, lastHit,
                  sendResult
    <3>2. job \in [Workers -> JobType]
      BY <1>1 DEF Types
    <3>3. ASSUME NEW x, job' = [job EXCEPT ![w] = x], x.pc # "lastInsertId"
          PROVE  /\ \A v \in Workers \ {w} : job'[v] = job[v]
                 /\ job'[w].pc # "lastInsertId"
      BY <3>2, <3>3
    <3>4. /\ \A v \in Workers \ {w} : job'[v] = job[v]
          /\ job'[w].pc # "lastInsertId"
      <4>1. CASE recvRequest(w)
        <5>1. \/ job' = job
              \/ \E c, k : job' = [job EXCEPT ![w] = [Idle EXCEPT !.pc = "verify", !.c = c,
                                                                 !.copy = k]]
              \/ \E c, m : job' = [job EXCEPT ![w] = [Idle EXCEPT !.pc = "name", !.c = c,
                                                                 !.must = m, !.may = m]]
              \/ \E c : job' = [job EXCEPT ![w] = [Idle EXCEPT !.pc = "select", !.c = c]]
          BY <4>1 DEF recvRequest
        <5>2. ASSUME NEW c, NEW k, NEW x, x = [Idle EXCEPT !.pc = "verify", !.c = c, !.copy = k],
                     job' = [job EXCEPT ![w] = x]
              PROVE  job'[w].pc # "lastInsertId" /\ \A v \in Workers \ {w} : job'[v] = job[v]
          <6>1. x.pc = "verify"
            BY <5>2, IdleFacts DEF JobType
          <6> QED BY <3>3, <5>2, <6>1
        <5>3. ASSUME NEW c, NEW m, NEW x, job' = [job EXCEPT ![w] = x],
                     x = [Idle EXCEPT !.pc = "name", !.c = c, !.must = m, !.may = m]
              PROVE  job'[w].pc # "lastInsertId" /\ \A v \in Workers \ {w} : job'[v] = job[v]
          <6>1. x.pc = "name"
            BY <5>3, IdleFacts DEF JobType
          <6> QED BY <3>3, <5>3, <6>1
        <5>4. ASSUME NEW c, NEW x, job' = [job EXCEPT ![w] = x],
                     x = [Idle EXCEPT !.pc = "select", !.c = c]
              PROVE  job'[w].pc # "lastInsertId" /\ \A v \in Workers \ {w} : job'[v] = job[v]
          <6>1. x.pc = "select"
            BY <5>4, IdleFacts DEF JobType
          <6> QED BY <3>3, <5>4, <6>1
        <5>5. CASE job' = job
          BY <3>1, <5>5
        <5> QED BY <5>1, <5>2, <5>3, <5>4, <5>5
      <4>2. CASE Answer(w)
        BY <3>3, <4>2, IdleFacts DEF Answer
      <4>3. CASE select(w) \/ verify(w)
        <5>1. \/ Answer(w) \/ \E k : job' = [job EXCEPT ![w].pc = "update", ![w].copy = k]
              \/ job' = [job EXCEPT ![w].pc = "insert", ![w].copy.id = Len(rows)]
          BY <4>3 DEF select, verify
        <5> QED BY <3>2, <4>2, <5>1 DEF JobType
      <4>4. CASE queryByName(w) \/ querySphinx(w)
        <5>1. \/ Answer(w)
              \/ \E p \in {"sphinx", "result"} : \E f :
                   job' = [job EXCEPT ![w].pc = p, ![w].found = f]
              \/ \E h, m : job' = [job EXCEPT ![w].pc = "hit", ![w].hits = h,
                                                ![w].may = @ \union m]
          BY <4>4 DEF queryByName, querySphinx
        <5>2. ASSUME NEW p \in {"sphinx", "result"}, NEW f,
                     job' = [job EXCEPT ![w].pc = p, ![w].found = f]
              PROVE  job'[w].pc # "lastInsertId" /\ \A v \in Workers \ {w} : job'[v] = job[v]
          BY <3>2, <5>2 DEF JobType
        <5>3. ASSUME NEW h, NEW m,
                     job' = [job EXCEPT ![w].pc = "hit", ![w].hits = h, ![w].may = @ \union m]
              PROVE  job'[w].pc # "lastInsertId" /\ \A v \in Workers \ {w} : job'[v] = job[v]
          BY <3>2, <5>3 DEF JobType
        <5> QED BY <4>2, <5>1, <5>2, <5>3
      <4>5. CASE readHit(w)
        <5>1. \/ Answer(w)
              \/ \E f : job' = [job EXCEPT ![w].hits = Tail(@), ![w].found = f]
          BY <4>5 DEF readHit
        <5> QED BY <3>1, <3>2, <4>2, <5>1 DEF JobType
      <4>6. CASE lastHit(w)
        BY <3>2, <4>6 DEF lastHit, Goto, JobType
      <4> QED BY <2>4, <4>1, <4>2, <4>3, <4>4, <4>5, <4>6 DEF sendResult
    <3>5. /\ \A v \in Workers : job'[v].pc = "lastInsertId" <=> job[v].pc = "lastInsertId"
          /\ \A v \in Workers : job[v].pc = "lastInsertId" => job'[v].copy = job[v].copy
      BY <3>1, <3>4
    <3>6. Evolves(rows, rows')
      BY <1>1, <3>1
    <3> QED BY <1>1, <3>1, <3>5, <3>6, NobodyTold
  <2> QED BY <1>3, <2>1, <2>2, <2>3, <2>4 DEF Serve
<1>4. ASSUME NEW w \in Workers, Crashing(w)
      PROVE  EachHasARow'
  <2>1. PICK c \in Commands : Crash(w, c)
    BY <1>1, <1>4, Crashers
  <2>2. OnlyJob(w) /\ job'[w].pc = "crashed"
    BY <2>1, Crashed
  <2>3. rows' = rows /\ told' = told /\ job[w].pc # "lastInsertId"
    BY <1>4, Crashers
  <2>4. Evolves(rows, rows')
    BY <1>1, <2>3
  <2>5. /\ \A v \in Workers : job'[v].pc = "lastInsertId" <=> job[v].pc = "lastInsertId"
        /\ \A v \in Workers : job[v].pc = "lastInsertId" => job'[v].copy = job[v].copy
    BY <2>2, <2>3 DEF OnlyJob
  <2> QED BY <1>1, <2>3, <2>4, <2>5, NobodyTold
<1> QED BY <1>2, <1>3, <1>4 DEF Next

LEMMA CountsInit == IsFiniteSet(Workers) /\ Init => EachHasARow
<1> SUFFICES ASSUME IsFiniteSet(Workers), Init, NEW n \in ISBNs
             PROVE  told[n] + Cardinality(Pending(n)) <= Cardinality(Having(n))
  BY DEF EachHasARow
<1>1. Types
  BY InitInv DEF CatalogueInv
<1>2. Cardinality(Having(n)) \in Nat
  BY <1>1, FiniteSets
<1>3. Pending(n) = {}
  BY IdleFacts DEF Init, Pending
<1>4. told[n] = 0 /\ Cardinality(Pending(n)) = 0
  BY <1>3, FS_EmptySet DEF Init
<1> QED BY <1>2, <1>4

(* ISBNs are repeated only by insertions at the same time and corrections, *)
(* and whoever was told that the insertion succeeded has made a row; with  *)
(* any finite number of workers, and failures of any statement.            *)
THEOREM InsertionsAreSound ==
  ASSUME IsFiniteSet(Workers)
  PROVE  Spec => []InsertionIsSound
<1>1. CatalogueInv /\ EachHasARow => InsertionIsSound
  <2> SUFFICES ASSUME CatalogueInv, EachHasARow, NEW n \in ISBNs
               PROVE  told[n] <= Cardinality(Having(n))
    BY DEF InsertionIsSound, CatalogueInv, Having
  <2>1. Types
    BY DEF CatalogueInv
  <2>2. Cardinality(Pending(n)) \in Nat /\ Cardinality(Having(n)) \in Nat
    BY <2>1, FiniteSets
  <2> QED BY <2>1, <2>2 DEF Types, EachHasARow
<1>2. Init => EachHasARow
  BY CountsInit
<1>3. CatalogueInv /\ EachHasARow /\ [Next]_vars => EachHasARow'
  BY CountsStep
<1> QED BY <1>1, <1>2, <1>3, Invariant, PTL DEF Spec

=============================================================================

------------------------ MODULE NetServerAsioProofs ------------------------
(***************************************************************************)
(* Proofs about NetServerAsio, for any number of sockets, buffer size and  *)
(* answers, and whatever the clients send: a socket is deleted once and    *)
(* not used afterwards, requests are cut out of the bytes at every empty   *)
(* line, and answers are sent completely and in order.                     *)
(***************************************************************************)
EXTENDS NetServerAsio, FiniteSetTheorems, SequenceTheorems, TLAPS

Token == Nat \X Nat

(* The types.                                                              *)
SocketTypes ==
  /\ nRefCount \in [Sockets -> Nat] /\ deleted \in [Sockets -> Nat]
  /\ vpClientSocks \subseteq Sockets
  /\ recv \in [Sockets -> {"new", "listening", "armed", "scan", "post", "start",
                           "next", "sent", "end", "off"}]
  /\ send \in [Sockets -> BOOLEAN] /\ releasing \in [Sockets -> Nat]
  /\ closing \in [Sockets -> BOOLEAN] /\ keep \in [Sockets -> BOOLEAN]
  /\ cut \in [Sockets -> BOOLEAN] /\ main \in {"run", "mark", "join", "done"}

DataTypes ==
  /\ input \in [Sockets -> Seq(Bytes)] /\ rawBuffer \in [Sockets -> Seq(Bytes)]
  /\ recvBuffer \in [Sockets -> Seq(Bytes)] /\ received \in [Sockets -> Seq(Bytes)]
  /\ requests \in [Sockets -> Seq(Seq(Bytes))]
  /\ answers \in [Sockets -> Seq(Seq(Token))] /\ rest \in [Sockets -> Seq(Token)]
  /\ qSend \in [Sockets -> Seq(Seq(Token))]
  /\ flying \in [Sockets -> Seq(Token)] /\ wire \in [Sockets -> Seq(Token)]

(* The references to a socket: of the chain of receive handlers, of the    *)
(* send, of the send handlers that still have to release theirs.           *)
One(p) == IF p THEN 1 ELSE 0
Receiving(s) == recv[s] \notin {"new", "off"}
Refs(s) == One(Receiving(s)) + One(send[s]) + releasing[s]
Counted(s) ==
  /\ nRefCount[s] = Refs(s)
  /\ s \in vpClientSocks <=> nRefCount[s] > 0
  /\ recv[s] = "new" => nRefCount[s] = 0
  /\ deleted[s] = One(recv[s] # "new" /\ (nRefCount[s] = 0 \/ main = "done"))
  /\ main = "done" => ~Handling(s)

(* The buffer of a send stays at the head of the queue.                    *)
Queued(s) ==
  /\ send[s] => qSend[s] # <<>>
  /\ recv[s] = "start" => qSend[s] # <<>> /\ ~send[s]
  /\ qSend[s] # <<>> /\ ~cut[s] => send[s] \/ recv[s] = "start"

(* buf is what came after the last request in q, which ends at b.          *)
After(q, b, buf) ==
  /\ buf = SubSeq(q, b + 1, Len(q))
  /\ b = 0 \/ b \in Boundaries(q)
  /\ \A j \in Boundaries(q) : j <= b
Open(q, buf) == \E b \in 0 .. Len(q) : After(q, b, buf)

(* The blocks in the queue as they will be sent: of the first one only the *)
(* part that async_send was given.                                         *)
Block(s) == [m \in DOMAIN qSend[s] |->
               IF m > 1 THEN qSend[s][m]
               ELSE IF send[s] THEN flying[s] ELSE AtMost(BufferSize, qSend[s][1])]

Elements(q) == {q[i] : i \in DOMAIN q}
Reach(w, bl) == Elements(w) \union UNION {Elements(bl[m]) : m \in DOMAIN bl}

(* What precedes a byte in all comes before it: on the wire w, in the      *)
(* blocks bl, in the rest r of an answer.                                  *)
Ordered(w, bl, r, all) ==
  /\ \A i \in DOMAIN w : \A b \in all :
       Precedes(b, w[i]) => \E j \in 1 .. i : w[j] = b
  /\ \A m \in DOMAIN bl : \A i \in DOMAIN bl[m] : \A b \in all :
       Precedes(b, bl[m][i]) =>
         \/ b \in Elements(w)
         \/ \E l \in DOMAIN bl : \E j \in DOMAIN bl[l] :
              bl[l][j] = b /\ (l < m \/ (l = m /\ j <= i))
  /\ \A i \in DOMAIN r : \A b \in all :
       Precedes(b, r[i]) => b \in Reach(w, bl) \/ \E j \in 1 .. i : r[j] = b

(* Nothing is there twice.                                                 *)
Once(w, bl) ==
  /\ \A i, j \in DOMAIN w : w[i] = w[j] => i = j
  /\ \A m \in DOMAIN bl : \A i \in DOMAIN bl[m] : bl[m][i] \notin Elements(w)
  /\ \A m, l \in DOMAIN bl : \A i \in DOMAIN bl[m], j \in DOMAIN bl[l] :
       bl[m][i] = bl[l][j] => m = l /\ i = j

Fits(s) == \A k \in DOMAIN answers[s] : Len(answers[s][k]) <= BufferSize

(* all is on the wire, in the queue or in the rest, in order; the next     *)
(* block of the rest has been queued; nothing of it has been; there is     *)
(* nothing twice.                                                          *)
Flow(w, bl, r, all) == all = Reach(w, bl) \union Elements(r) /\ Ordered(w, bl, r, all)
Resent(w, bl, r) == \A i \in DOMAIN r : i <= BufferSize => r[i] \in Reach(w, bl)
Fresh(w, bl, r) == \A i \in DOMAIN r : r[i] \notin Reach(w, bl)
Single(w, bl, r) == /\ Once(w, bl) /\ Len(r) <= BufferSize
                    /\ \A i, j \in DOMAIN r : r[i] = r[j] => i = j

(* rest is empty unless an answer is being queued.                         *)
Resting(s) ==
  /\ (rest[s] # <<>>) <=> recv[s] \in {"post", "start", "next"}
  /\ Answered(s) \subseteq Token
  /\ \A b \in Answered(s) : b[1] <= Len(requests[s])
  /\ ~cut[s] =>
       /\ Flow(wire[s], Block(s), rest[s], Answered(s))
       /\ recv[s] \in {"start", "next"} => Resent(wire[s], Block(s), rest[s])
       /\ Fits(s) => /\ Single(wire[s], Block(s), rest[s])
                     /\ recv[s] = "post" => Fresh(wire[s], Block(s), rest[s])

-----------------------------------------------------------------------------
(* The least number *)

LEMMA LeastIs ==
  ASSUME NEW S \in SUBSET Nat, S # {}
  PROVE  Least(S) \in S /\ \A y \in S : Least(S) <= y
<1> DEFINE T == {0 .. m : m \in S}
<1>1. T \subseteq FiniteSubsetsOf(Nat) /\ T # {}
  <2>1. \A m \in S : IsFiniteSet(0 .. m) /\ 0 .. m \subseteq Nat
    BY FS_Interval
  <2> QED BY <2>1 DEF FiniteSubsetsOf
<1>2. PICK u \in T : \A v \in T : ~(<<v, u>> \in StrictSubsetOrdering(Nat))
  BY <1>1, FS_StrictSubsetOrderingWellFounded, WFMin
<1>3. PICK x \in S : u = 0 .. x
  OBVIOUS
<1>4. ASSUME NEW y \in S, y < x PROVE FALSE
  <2>1. 0 .. y \in T /\ 0 .. y \subseteq u /\ 0 .. y # u /\ 0 .. y \subseteq Nat /\ u \subseteq Nat
    BY <1>3, <1>4
  <2> QED BY <1>2, <2>1 DEF StrictSubsetOrdering
<1>5. \A y \in S : x <= y
  BY <1>4
<1> QED BY <1>5 DEF Least

LEMMA LeastEquals ==
  ASSUME NEW S \in SUBSET Nat, NEW x \in S, \A y \in S : x <= y
  PROVE  Least(S) = x
<1>1. Least(S) \in S /\ \A y \in S : Least(S) <= y
  BY LeastIs
<1>2. Least(S) \in Nat /\ x \in Nat /\ Least(S) <= x /\ x <= Least(S)
  BY <1>1
<1> QED BY <1>2

-----------------------------------------------------------------------------
(* Runs of newlines *)

(* The newlines that end at j go on by one at j + 1, or end.               *)
LEMMA NewlinesNext ==
  ASSUME NEW q, NEW j \in Nat
  PROVE  /\ NewlinesTo(q, j) \in Nat
         /\ NewlinesTo(q, 0) = 0
         /\ q[j + 1] = "n" => NewlinesTo(q, j + 1) = NewlinesTo(q, j) + 1
         /\ q[j + 1] # "n" => NewlinesTo(q, j + 1) = 0
<1> DEFINE Runs(i) == {k \in 0 .. i : \A l \in k + 1 .. i : q[l] = "n"}
<1>1. \A i \in Nat : Runs(i) \in SUBSET Nat /\ i \in Runs(i) /\ NewlinesTo(q, i) = i - Least(Runs(i))
  BY DEF NewlinesTo
<1>2. Least(Runs(j)) \in Runs(j) /\ \A y \in Runs(j) : Least(Runs(j)) <= y
  BY <1>1, LeastIs
<1>3. NewlinesTo(q, j) \in Nat
  BY <1>1, <1>2
<1>4. NewlinesTo(q, 0) = 0
  <2>1. Least(Runs(0)) = 0
    BY <1>1, LeastEquals
  <2> QED BY <1>1, <2>1
<1>5. ASSUME q[j + 1] = "n" PROVE NewlinesTo(q, j + 1) = NewlinesTo(q, j) + 1
  <2>1. Runs(j + 1) = Runs(j) \union {j + 1}
    BY <1>5
  <2>2. Least(Runs(j)) \in Runs(j + 1) /\ \A y \in Runs(j + 1) : Least(Runs(j)) <= y
    BY <1>2, <2>1
  <2>3. Least(Runs(j + 1)) = Least(Runs(j))
    BY <1>1, <2>2, LeastEquals
  <2> QED BY <1>1, <1>2, <2>3
<1>6. ASSUME q[j + 1] # "n" PROVE NewlinesTo(q, j + 1) = 0
  <2>1. Runs(j + 1) = {j + 1}
    BY <1>6
  <2>2. Least(Runs(j + 1)) = j + 1
    BY <1>1, <2>1, LeastEquals
  <2> QED BY <1>1, <2>2
<1> QED BY <1>3, <1>4, <1>5, <1>6

(* Only the bytes up to j count.                                           *)
LEMMA NewlinesSame ==
  ASSUME NEW q, NEW p, NEW j \in Nat, \A l \in 1 .. j : q[l] = p[l]
  PROVE  NewlinesTo(q, j) = NewlinesTo(p, j)
<1>1. {i \in 0 .. j : \A l \in i + 1 .. j : q[l] = "n"}
        = {i \in 0 .. j : \A l \in i + 1 .. j : p[l] = "n"}
  OBVIOUS
<1> QED BY <1>1 DEF NewlinesTo

Even(n) == n % 2 = 0

LEMMA EvenNext ==
  ASSUME NEW n \in Nat
  PROVE  Even(0) /\ (Even(n + 1) <=> ~Even(n))
  BY DEF Even

(* The newlines from the place f on, when those before it are even.        *)
IsBoundary(q, j) == NewlinesTo(q, j) > 0 /\ Even(NewlinesTo(q, j))

LEMMA BoundaryIs ==
  ASSUME NEW q
  PROVE  Boundaries(q) = {j \in 1 .. Len(q) : IsBoundary(q, j)}
  BY DEF Boundaries, IsBoundary, Even

(* A byte ends a request if it is a newline after a newline that does not. *)
LEMMA BoundaryNext ==
  ASSUME NEW q, NEW j \in Nat
  PROVE  /\ ~IsBoundary(q, 0)
         /\ IsBoundary(q, j + 1) <=> q[j + 1] = "n" /\ ~Even(NewlinesTo(q, j))
         /\ j > 0 /\ q[j] = "n" /\ ~IsBoundary(q, j) => ~Even(NewlinesTo(q, j))
         /\ j = 0 \/ IsBoundary(q, j) \/ q[j] # "n" => Even(NewlinesTo(q, j))
<1>1. NewlinesTo(q, j) \in Nat /\ NewlinesTo(q, j + 1) \in Nat /\ NewlinesTo(q, 0) = 0
  BY NewlinesNext
<1>2. ~IsBoundary(q, 0) /\ (j = 0 => Even(NewlinesTo(q, j)))
  BY <1>1, EvenNext DEF IsBoundary
<1>3. IsBoundary(q, j + 1) <=> q[j + 1] = "n" /\ ~Even(NewlinesTo(q, j))
  BY <1>1, EvenNext, NewlinesNext DEF IsBoundary
<1>4. ASSUME j > 0
      PROVE  /\ q[j] # "n" => Even(NewlinesTo(q, j))
             /\ q[j] = "n" => NewlinesTo(q, j) > 0
  <2>1. j - 1 \in Nat /\ (j - 1) + 1 = j
    BY <1>4
  <2>2. /\ NewlinesTo(q, j - 1) \in Nat
        /\ q[j] = "n" => NewlinesTo(q, j) = NewlinesTo(q, j - 1) + 1
        /\ q[j] # "n" => NewlinesTo(q, j) = 0
    BY <2>1, NewlinesNext
  <2> QED BY <2>2, EvenNext
<1> QED BY <1>1, <1>2, <1>3, <1>4 DEF IsBoundary

-----------------------------------------------------------------------------
(* Cutting requests out of bytes *)

(* From m to n s is what t is from k to l.                                 *)
SameBytes(s, m, n, t, k, l) ==
  /\ m \in Int /\ n \in Int /\ k \in Int /\ l \in Int /\ n - m = l - k
  /\ \A i \in m .. n : s[i] \in Bytes /\ s[i] = t[i + (k - m)]

LEMMA SubSeqEqual ==
  ASSUME NEW s, NEW t, NEW m \in Int, NEW n \in Int, NEW k \in Int, NEW l \in Int,
         SameBytes(s, m, n, t, k, l)
  PROVE  SubSeq(s, m, n) = SubSeq(t, k, l)
<1> DEFINE S == Bytes
<1>0. /\ m \in Int /\ n \in Int /\ k \in Int /\ l \in Int /\ n - m = l - k
      /\ \A i \in m .. n : s[i] \in S /\ s[i] = t[i + (k - m)]
  BY DEF SameBytes
<1> HIDE DEF S
<1>1. /\ SubSeq(s, m, n) \in Seq(S) /\ Len(SubSeq(s, m, n)) = IF m <= n THEN n - m + 1 ELSE 0
      /\ \A i \in 1 .. n - m + 1 : SubSeq(s, m, n)[i] = s[m + i - 1]
  BY <1>0, SubSeqProperties
<1>2. \A j \in k .. l : t[j] \in S /\ t[j] = s[j + (m - k)]
  <2>1. ASSUME NEW j \in k .. l PROVE t[j] \in S /\ t[j] = s[j + (m - k)]
    <3>1. PICK i \in m .. n : i = j + (m - k) /\ i + (k - m) = j
      BY <1>0
    <3> QED BY <1>0, <3>1
  <2> QED BY <2>1
<1>3. /\ SubSeq(t, k, l) \in Seq(S) /\ Len(SubSeq(t, k, l)) = IF k <= l THEN l - k + 1 ELSE 0
      /\ \A i \in 1 .. l - k + 1 : SubSeq(t, k, l)[i] = t[k + i - 1]
  BY <1>0, <1>2, SubSeqProperties
<1>4. Len(SubSeq(s, m, n)) = Len(SubSeq(t, k, l))
  BY <1>0, <1>1, <1>3
<1>5. ASSUME NEW i \in 1 .. Len(SubSeq(s, m, n))
      PROVE  SubSeq(s, m, n)[i] = SubSeq(t, k, l)[i]
  <2>1. i \in 1 .. n - m + 1 /\ i \in 1 .. l - k + 1 /\ m + i - 1 \in m .. n
        /\ (m + i - 1) + (k - m) = k + i - 1
    BY <1>0, <1>1
  <2>2. SubSeq(s, m, n)[i] = s[m + i - 1] /\ SubSeq(t, k, l)[i] = t[k + i - 1]
    BY <1>1, <1>3, <2>1
  <2>3. s[m + i - 1] = t[k + i - 1]
    BY <1>0, <2>1
  <2> QED BY <2>2, <2>3
<1> QED BY <1>1, <1>3, <1>4, <1>5, SeqEqual

(* The bytes x come after q, of which those after the b-th, buf, belong to *)
(* no request; together they are p.                                        *)
Chunk(q, b, buf, x, p) ==
  /\ p \in Seq(Bytes) /\ Len(p) = Len(q) + Len(x) /\ Len(q) \in Nat /\ Len(x) \in Nat
  /\ \A j \in 1 .. Len(q) : p[j] = q[j]
  /\ \A i \in 1 .. Len(x) : p[Len(q) + i] = x[i]
  /\ buf \in Seq(Bytes) /\ Len(buf) = Len(q) - b
  /\ \A j \in 1 .. Len(buf) : buf[j] = q[b + j]
  /\ buf # <<>> => /\ Len(q) > 0 /\ buf[Len(buf)] = q[Len(q)]
                   /\ ~IsBoundary(q, Len(q))
  /\ buf = <<>> => Len(q) = 0 \/ IsBoundary(q, Len(q))

LEMMA ChunkIs ==
  ASSUME NEW q \in Seq(Bytes), NEW x \in Seq(Bytes), NEW b \in 0 .. Len(q), NEW buf,
         After(q, b, buf)
  PROVE  Chunk(q, b, buf, x, q \o x)
<1> SUFFICES ASSUME NEW p, p = q \o x PROVE Chunk(q, b, buf, x, p)
  OBVIOUS
<1>0. buf = SubSeq(q, b + 1, Len(q)) /\ (b = 0 \/ b \in Boundaries(q))
      /\ \A j \in Boundaries(q) : j <= b
  BY DEF After
<1>1. /\ p \in Seq(Bytes) /\ Len(p) = Len(q) + Len(x) /\ Len(q) \in Nat /\ Len(x) \in Nat
      /\ \A j \in 1 .. Len(q) : p[j] = q[j]
      /\ \A i \in 1 .. Len(x) : p[Len(q) + i] = x[i]
  BY ConcatProperties
<1>2. \A i \in b + 1 .. Len(q) : q[i] \in Bytes
  BY <1>1
<1>3. /\ buf \in Seq(Bytes) /\ Len(buf) = IF b + 1 <= Len(q) THEN Len(q) - (b + 1) + 1 ELSE 0
      /\ \A i \in 1 .. Len(q) - (b + 1) + 1 : buf[i] = q[(b + 1) + i - 1]
  BY <1>0, <1>1, <1>2, SubSeqProperties
<1>4. Len(buf) = Len(q) - b /\ (buf # <<>> <=> b < Len(q))
  BY <1>1, <1>3, EmptySeq
<1>5. \A j \in 1 .. Len(buf) : buf[j] = q[b + j]
  <2>1. \A j \in 1 .. Len(buf) : j \in 1 .. Len(q) - (b + 1) + 1 /\ (b + 1) + j - 1 = b + j
    BY <1>1, <1>4
  <2> QED BY <1>3, <2>1
<1>6. Boundaries(q) = {j \in 1 .. Len(q) : IsBoundary(q, j)}
  BY BoundaryIs
<1>7. ASSUME buf # <<>>
      PROVE  Len(q) > 0 /\ buf[Len(buf)] = q[Len(q)] /\ ~IsBoundary(q, Len(q))
  <2>1. Len(q) > 0 /\ Len(buf) \in 1 .. Len(buf) /\ b + Len(buf) = Len(q)
    BY <1>1, <1>4, <1>7
  <2>2. Len(q) \notin Boundaries(q) /\ Len(q) \in 1 .. Len(q)
    BY <1>0, <1>1, <1>4, <1>7
  <2> QED BY <1>5, <1>6, <2>1, <2>2
<1>8. ASSUME buf = <<>>
      PROVE  Len(q) = 0 \/ IsBoundary(q, Len(q))
  <2>1. b = Len(q)
    BY <1>1, <1>4, <1>8
  <2> QED BY <1>0, <1>1, <1>6, <2>1
<1> QED BY <1>1, <1>3, <1>4, <1>5, <1>7, <1>8 DEF Chunk

(* The first of Ends ends a request.                                       *)
LEMMA ChunkEnds ==
  ASSUME NEW q, NEW b, NEW buf, NEW x, NEW p, Chunk(q, b, buf, x, p)
  PROVE  /\ \A j \in 0 .. Len(q) : IsBoundary(p, j) <=> IsBoundary(q, j)
         /\ \A i \in 1 .. Len(x) :
              /\ i \notin Ends(buf, x) => ~IsBoundary(p, Len(q) + i)
              /\ i \in Ends(buf, x) /\ i - 1 \notin Ends(buf, x) => IsBoundary(p, Len(q) + i)
<1> SUFFICES
      ASSUME Len(q) \in Nat, Len(x) \in Nat,
             \A j \in 1 .. Len(q) : p[j] = q[j],
             \A i \in 1 .. Len(x) : p[Len(q) + i] = x[i],
             buf # <<>> => Len(q) > 0 /\ buf[Len(buf)] = q[Len(q)] /\ ~IsBoundary(q, Len(q)),
             buf = <<>> => Len(q) = 0 \/ IsBoundary(q, Len(q))
      PROVE  /\ \A j \in 0 .. Len(q) : IsBoundary(p, j) <=> IsBoundary(q, j)
             /\ \A i \in 1 .. Len(x) :
                  /\ i \notin Ends(buf, x) => ~IsBoundary(p, Len(q) + i)
                  /\ i \in Ends(buf, x) /\ i - 1 \notin Ends(buf, x) => IsBoundary(p, Len(q) + i)
  BY DEF Chunk
<1>3. ASSUME NEW j \in 0 .. Len(q)
      PROVE  NewlinesTo(p, j) = NewlinesTo(q, j)
  <2>1. j \in Nat /\ \A l \in 1 .. j : p[l] = q[l]
    OBVIOUS
  <2> QED BY <2>1, NewlinesSame
<1>4. \A j \in 0 .. Len(q) : IsBoundary(p, j) <=> IsBoundary(q, j)
  BY <1>3 DEF IsBoundary
<1>5. /\ buf # <<>> => ~IsBoundary(p, Len(q))
      /\ buf = <<>> => Len(q) = 0 \/ IsBoundary(p, Len(q))
  BY <1>4
(* The first new byte.                                                     *)
<1>6. ASSUME 1 \in 1 .. Len(x)
      PROVE  1 \in Ends(buf, x) <=> IsBoundary(p, Len(q) + 1)
  <2>1. p[Len(q) + 1] = x[1]
    BY <1>6
  <2>2. IsBoundary(p, Len(q) + 1) <=> x[1] = "n" /\ ~Even(NewlinesTo(p, Len(q)))
    BY <2>1, BoundaryNext
  <2>3. 1 \in Ends(buf, x) <=> x[1] = "n" /\ buf # <<>> /\ buf[Len(buf)] = "n"
    BY <1>6 DEF Ends
  <2>4. CASE buf = <<>>
    BY <1>5, <2>2, <2>3, <2>4, BoundaryNext
  <2>5. CASE buf # <<>>
    <3>1. Len(q) > 0 /\ p[Len(q)] = q[Len(q)] /\ buf[Len(buf)] = q[Len(q)]
      BY <2>5
    <3>2. q[Len(q)] = "n" <=> ~Even(NewlinesTo(p, Len(q)))
      BY <1>5, <2>5, <3>1, BoundaryNext
    <3> QED BY <2>2, <2>3, <2>5, <3>1, <3>2
  <2> QED BY <2>4, <2>5
<1>7. ASSUME NEW i \in 2 .. Len(x)
      PROVE  /\ i \in Ends(buf, x) <=> x[i] = "n" /\ x[i - 1] = "n"
             /\ IsBoundary(p, Len(q) + i) <=> x[i] = "n" /\ ~Even(NewlinesTo(p, Len(q) + (i - 1)))
             /\ x[i - 1] # "n" => Even(NewlinesTo(p, Len(q) + (i - 1)))
             /\ x[i - 1] = "n" /\ ~IsBoundary(p, Len(q) + (i - 1))
                  => ~Even(NewlinesTo(p, Len(q) + (i - 1)))
  <2>a. PICK k \in Nat : k = Len(q) + (i - 1)
    OBVIOUS
  <2>1. /\ k + 1 = Len(q) + i /\ k > 0
        /\ i \in 1 .. Len(x) /\ i - 1 \in 1 .. Len(x) /\ i > 1
    BY <2>a
  <2>2. p[k + 1] = x[i] /\ p[k] = x[i - 1]
    BY <2>a, <2>1
  <2>3. i \in Ends(buf, x) <=> x[i] = "n" /\ x[i - 1] = "n"
    BY <2>1 DEF Ends
  <2>4. /\ IsBoundary(p, k + 1) <=> x[i] = "n" /\ ~Even(NewlinesTo(p, k))
        /\ x[i - 1] # "n" => Even(NewlinesTo(p, k))
        /\ x[i - 1] = "n" /\ ~IsBoundary(p, k) => ~Even(NewlinesTo(p, k))
    BY <2>1, <2>2, BoundaryNext
  <2> QED BY <2>a, <2>1, <2>3, <2>4
<1>8. ASSUME NEW i \in 1 .. Len(x), i \notin Ends(buf, x)
      PROVE  ~IsBoundary(p, Len(q) + i)
  <2>1. CASE i = 1
    BY <1>6, <1>8, <2>1
  <2>2. CASE i # 1
    <3>1. i \in 2 .. Len(x)
      BY <2>2
    <3> QED BY <1>7, <1>8, <3>1
  <2> QED BY <2>1, <2>2
<1>9. ASSUME NEW i \in 1 .. Len(x), i \in Ends(buf, x), i - 1 \notin Ends(buf, x)
      PROVE  IsBoundary(p, Len(q) + i)
  <2>1. CASE i = 1
    BY <1>6, <1>9, <2>1
  <2>2. CASE i # 1
    <3>1. i \in 2 .. Len(x) /\ i - 1 \in 1 .. Len(x)
      BY <2>2
    <3>2. ~IsBoundary(p, Len(q) + (i - 1))
      BY <1>8, <1>9, <3>1
    <3> QED BY <1>7, <1>9, <3>1, <3>2
  <2> QED BY <2>1, <2>2
<1> QED BY <1>4, <1>8, <1>9

(* FramingIsRight for the bytes q and the requests of one socket.          *)
UpTo(E, j) == Cardinality({i \in E : i <= j})
Prev(E, j) == Least({i \in 0 .. j : \A l \in E : l < j => l <= i})
Split(q, reqs) ==
  /\ Len(reqs) = Cardinality(Boundaries(q))
  /\ \A j \in Boundaries(q) :
       reqs[UpTo(Boundaries(q), j)] = Strip(SubSeq(q, Prev(Boundaries(q), j) + 1, j - 2))

LEMMA FramingIs == FramingIsRight <=> \A s \in Sockets : Split(received[s], requests[s])
  BY DEF FramingIsRight, Split, UpTo, Prev

LEMMA PrevIs ==
  ASSUME NEW E \in SUBSET Nat, NEW j \in Nat
  PROVE  Prev(E, j) \in 0 .. j
<1> DEFINE S == {i \in 0 .. j : \A l \in E : l < j => l <= i}
<1>1. S \in SUBSET Nat /\ j \in S
  OBVIOUS
<1>2. Least(S) \in S
  BY <1>1, LeastIs
<1> QED BY <1>2 DEF Prev

(* No request ends in the bytes that are added.                            *)
LEMMA SplitRest ==
  ASSUME NEW q \in Seq(Bytes), NEW p \in Seq(Bytes), NEW reqs, Split(q, reqs),
         Boundaries(p) = Boundaries(q), Len(q) <= Len(p), \A j \in 1 .. Len(q) : p[j] = q[j]
  PROVE  Split(p, reqs)
<1> SUFFICES ASSUME NEW j \in Boundaries(q)
             PROVE  SubSeq(q, Prev(Boundaries(q), j) + 1, j - 2)
                      = SubSeq(p, Prev(Boundaries(q), j) + 1, j - 2)
  BY DEF Split
<1>1. j \in 1 .. Len(q) /\ Boundaries(q) \in SUBSET Nat
  BY DEF Boundaries
<1>2. PICK k \in 0 .. j : k = Prev(Boundaries(q), j)
  BY <1>1, PrevIs
<1>3. \A i \in k + 1 .. j - 2 : q[i] \in Bytes /\ q[i] = p[i]
  BY <1>1
<1>4. SubSeq(q, k + 1, j - 2) = SubSeq(p, k + 1, j - 2)
  <2>1. k + 1 \in Int /\ j - 2 \in Int /\ \A i \in k + 1 .. j - 2 : i + ((k + 1) - (k + 1)) = i
    BY <1>1
  <2>2. SameBytes(q, k + 1, j - 2, p, k + 1, j - 2)
    BY <1>3, <2>1 DEF SameBytes
  <2> QED BY <2>1, <2>2, SubSeqEqual
<1> QED BY <1>2, <1>4

(* The last of the bytes that are added ends a request.                    *)
LEMMA SplitNext ==
  ASSUME NEW q \in Seq(Bytes), NEW p \in Seq(Bytes), NEW reqs \in Seq(Seq(Bytes)), Split(q, reqs),
         NEW J \in Nat, J = Len(p), Len(q) < J, Boundaries(p) = Boundaries(q) \union {J},
         \A j \in 1 .. Len(q) : p[j] = q[j],
         NEW b \in 0 .. Len(q), b = 0 \/ b \in Boundaries(q), \A j \in Boundaries(q) : j <= b,
         NEW r \in Seq(Bytes), r = Strip(SubSeq(p, b + 1, J - 2)),
         NEW new, new = Append(reqs, r)
  PROVE  Split(p, new)
<1> PICK E, D : E = Boundaries(q) /\ D = Boundaries(p)
  OBVIOUS
<1>1. /\ E \subseteq 1 .. Len(q) /\ Len(q) \in Nat /\ IsFiniteSet(E) /\ J \notin E
      /\ D = E \union {J}
  <2>1. E \subseteq 1 .. Len(q) /\ Len(q) \in Nat
    BY DEF Boundaries
  <2>2. IsFiniteSet(1 .. Len(q))
    BY <2>1, FS_Interval
  <2> QED BY <2>1, <2>2, FS_Subset
<1>2. /\ Cardinality(E) \in Nat /\ Cardinality(D) = Cardinality(E) + 1
  <2>1. Cardinality(E) \in Nat
    BY <1>1, FS_CardinalityType
  <2>2. Cardinality(E \union {J}) = Cardinality(E) + 1
    BY <1>1, FS_AddElement
  <2> QED BY <1>1, <2>1, <2>2
<1>3. Len(reqs) = Cardinality(E)
  BY DEF Split
<1>4. /\ Len(new) = Cardinality(D) /\ \A i \in 1 .. Cardinality(E) : new[i] = reqs[i]
      /\ new[Cardinality(D)] = r
  BY <1>2, <1>3, AppendProperties
<1>5. ASSUME NEW j \in E
      PROVE  new[UpTo(D, j)] = Strip(SubSeq(p, Prev(D, j) + 1, j - 2))
  <2>1. j \in 1 .. Len(q) /\ j < J
    BY <1>1
  <2>a. PICK F : F = {i \in E : i <= j}
    OBVIOUS
  <2>2. {i \in D : i <= j} = F /\ F # {} /\ F \in SUBSET E
    BY <1>1, <2>1, <2>a
  <2>3. UpTo(D, j) = UpTo(E, j) /\ UpTo(E, j) \in 1 .. Cardinality(E)
    <3>1. IsFiniteSet(F) /\ Cardinality(F) <= Cardinality(E)
      BY <1>1, <2>2, FS_Subset
    <3>2. Cardinality(F) \in Nat /\ Cardinality(F) # 0
      BY <2>2, <3>1, FS_CardinalityType, FS_EmptySet
    <3>3. UpTo(D, j) = Cardinality(F) /\ UpTo(E, j) = Cardinality(F)
      BY <2>2, <2>a DEF UpTo
    <3> QED BY <1>2, <3>1, <3>2, <3>3
  <2>4. Prev(D, j) = Prev(E, j)
    <3>1. \A i : (\A l \in D : l < j => l <= i) <=> (\A l \in E : l < j => l <= i)
      BY <1>1, <2>1
    <3> QED BY <3>1 DEF Prev
  <2>5. PICK k \in 0 .. j : k = Prev(E, j)
    <3>1. E \in SUBSET Nat /\ j \in Nat
      BY <1>1, <2>1
    <3> QED BY <3>1, PrevIs
  <2>6. SubSeq(q, k + 1, j - 2) = SubSeq(p, k + 1, j - 2)
    <3>1. k + 1 \in Int /\ j - 2 \in Int /\ \A i \in k + 1 .. j - 2 : i + ((k + 1) - (k + 1)) = i
      BY <2>1
    <3>2. \A i \in k + 1 .. j - 2 : q[i] \in Bytes /\ q[i] = p[i]
      <4>1. \A i \in k + 1 .. j - 2 : i \in 1 .. Len(q)
        BY <1>1, <2>1
      <4> QED BY <4>1
    <3>3. SameBytes(q, k + 1, j - 2, p, k + 1, j - 2)
      BY <3>1, <3>2 DEF SameBytes
    <3>4. PICK c \in Int, d \in Int : c = k + 1 /\ d = j - 2
      BY <3>1
    <3>5. SameBytes(q, c, d, p, c, d)
      BY <3>3, <3>4
    <3>6. SubSeq(q, c, d) = SubSeq(p, c, d)
      BY <3>5, SubSeqEqual
    <3> QED BY <3>4, <3>6
  <2>7. reqs[UpTo(E, j)] = Strip(SubSeq(q, k + 1, j - 2))
    BY <2>5 DEF Split
  <2> QED BY <1>4, <2>3, <2>4, <2>5, <2>6, <2>7
<1>6. new[UpTo(D, J)] = Strip(SubSeq(p, Prev(D, J) + 1, J - 2))
  <2>1. {i \in D : i <= J} = D
    BY <1>1
  <2>2. Prev(D, J) = b
    <3> DEFINE S == {i \in 0 .. J : \A l \in D : l < J => l <= i}
    <3>1. S \in SUBSET Nat /\ b \in S
      BY <1>1
    <3>2. \A i \in S : b <= i
      BY <1>1
    <3>3. Prev(D, J) = Least(S)
      BY DEF Prev
    <3> HIDE DEF S
    <3> QED BY <3>1, <3>2, <3>3, LeastEquals
  <2> QED BY <1>4, <2>1, <2>2 DEF UpTo
<1> QED BY <1>1, <1>4, <1>5, <1>6 DEF Split

LEMMA StripType ==
  ASSUME NEW q \in Seq(Bytes)
  PROVE  Strip(q) \in Seq(Bytes)
<1> DEFINE S == {i \in 1 .. Len(q) + 1 : i > Len(q) \/ q[i] # "n"}
<1>1. S \in SUBSET Nat /\ Len(q) + 1 \in S
  OBVIOUS
<1>2. PICK fi \in 1 .. Len(q) + 1 : fi = Least(S)
  BY <1>1, LeastIs
<1>3. \A i \in fi .. Len(q) : q[i] \in Bytes
  OBVIOUS
<1>4. SubSeq(q, fi, Len(q)) \in Seq(Bytes)
  BY <1>3, SubSeqProperties
<1> QED BY <1>2, <1>4 DEF Strip

(* Where requests end if none ends in x, or one where x ends.              *)
LEMMA ChunkBoundaries ==
  ASSUME NEW q, NEW b, NEW buf, NEW x, NEW p, Chunk(q, b, buf, x, p)
  PROVE  /\ Len(p) = Len(q) + Len(x) /\ Boundaries(q) \subseteq 1 .. Len(q)
         /\ Ends(buf, x) = {} => Boundaries(p) = Boundaries(q)
         /\ Len(x) > 0 /\ Ends(buf, x) = {Len(x)}
              => Boundaries(p) = Boundaries(q) \union {Len(q) + Len(x)}
<1>n. PICK n \in Nat, m \in Nat : n = Len(q) /\ m = Len(x)
  BY DEF Chunk
<1>1. /\ \A j \in 0 .. n : IsBoundary(p, j) <=> IsBoundary(q, j)
      /\ \A i \in 1 .. m :
           /\ i \notin Ends(buf, x) => ~IsBoundary(p, n + i)
           /\ i \in Ends(buf, x) /\ i - 1 \notin Ends(buf, x) => IsBoundary(p, n + i)
  BY <1>n, ChunkEnds
<1>2. Boundaries(p) = {j \in 1 .. n + m : IsBoundary(p, j)} /\ Len(p) = n + m
      /\ Boundaries(q) = {j \in 1 .. n : IsBoundary(q, j)}
  <2>1. Len(p) = n + m
    BY <1>n DEF Chunk
  <2> QED BY <1>n, <2>1, BoundaryIs
<1>3. \A j \in 1 .. n : j \in 1 .. n + m /\ (IsBoundary(p, j) <=> IsBoundary(q, j))
  BY <1>1
<1>4. ASSUME NEW j \in 1 .. n + m, j \notin 1 .. n
      PROVE  \E i \in 1 .. m : j = n + i
  <2>1. j - n \in 1 .. m /\ j = n + (j - n)
    BY <1>4
  <2> QED BY <2>1
<1>5. ASSUME Ends(buf, x) = {}
      PROVE  Boundaries(p) = Boundaries(q)
  <2>1. \A j \in 1 .. n + m : j \notin 1 .. n => ~IsBoundary(p, j)
    BY <1>1, <1>4, <1>5
  <2> QED BY <1>2, <1>3, <2>1
<1>6. ASSUME m > 0, Ends(buf, x) = {m}
      PROVE  Boundaries(p) = Boundaries(q) \union {n + m}
  <2>1. ASSUME NEW j \in 1 .. n + m, j \notin 1 .. n, j # n + m
        PROVE  ~IsBoundary(p, j)
    <3>1. PICK i \in 1 .. m : j = n + i
      BY <1>4, <2>1
    <3>2. i \notin Ends(buf, x)
      BY <1>6, <2>1, <3>1
    <3> QED BY <1>1, <3>1, <3>2
  <2>2. IsBoundary(p, n + m) /\ n + m \in 1 .. n + m
    <3>1. m \in 1 .. m /\ m - 1 # m
      BY <1>6
    <3> QED BY <1>1, <1>6, <3>1
  <2> QED BY <1>2, <1>3, <2>1, <2>2
<1> QED BY <1>n, <1>2, <1>5, <1>6

(* The bytes after the b-th are buf and x.                                 *)
LEMMA ChunkWhole ==
  ASSUME NEW q, NEW b \in 0 .. Len(q), NEW buf, NEW x \in Seq(Bytes), NEW p,
         Chunk(q, b, buf, x, p)
  PROVE  /\ buf \o x \in Seq(Bytes) /\ Len(buf \o x) = Len(q) + Len(x) - b
         /\ \A i \in 1 .. Len(q) + Len(x) - b : (buf \o x)[i] = p[b + i]
<1>n. PICK n \in Nat, m \in Nat : n = Len(q) /\ m = Len(x)
  BY DEF Chunk
<1>1. PICK l \in Nat : l = n - b /\ b \in Nat /\ b <= n
  <2>1. b \in Nat /\ b <= n
    BY <1>n
  <2>2. n - b \in Nat
    BY <2>1
  <2> QED BY <2>1, <2>2
<1>2. /\ buf \in Seq(Bytes) /\ Len(buf) = l
      /\ \A j \in 1 .. l : buf[j] = q[b + j]
      /\ \A j \in 1 .. n : p[j] = q[j]
      /\ \A i \in 1 .. m : p[n + i] = x[i]
  BY <1>n, <1>1 DEF Chunk
<1>3. /\ buf \o x \in Seq(Bytes) /\ Len(buf \o x) = l + m
      /\ \A k \in 1 .. l + m : (buf \o x)[k] = IF k <= l THEN buf[k] ELSE x[k - l]
  <2>1. buf \in Seq(Bytes) /\ x \in Seq(Bytes) /\ Len(buf) = l /\ Len(x) = m
    BY <1>n, <1>2
  <2>2. /\ buf \o x \in Seq(Bytes) /\ Len(buf \o x) = Len(buf) + Len(x)
        /\ \A k \in 1 .. Len(buf) + Len(x) :
             (buf \o x)[k] = IF k <= Len(buf) THEN buf[k] ELSE x[k - Len(buf)]
    BY ONLY <2>1, ConcatProperties
  <2> QED BY ONLY <2>1, <2>2
<1>4. ASSUME NEW k \in 1 .. l + m PROVE (buf \o x)[k] = p[b + k]
  <2>1. CASE k <= l
    <3>1. b + k \in 1 .. n /\ k \in 1 .. l
      BY <1>1, <2>1
    <3> QED BY <1>2, <1>3, <2>1, <3>1
  <2>2. CASE ~(k <= l)
    <3>1. k - l \in 1 .. m /\ n + (k - l) = b + k
      BY <1>1, <2>2
    <3>2. p[b + k] = x[k - l]
      BY <1>2, <3>1
    <3> QED BY <1>3, <2>2, <3>2
  <2> QED BY <2>1, <2>2
<1>5. l + m = n + m - b
  BY <1>1
<1> QED BY <1>n, <1>3, <1>4, <1>5

(* receivedData takes the request that ends first.                         *)
Takes(q, raw, buf, reqs, i, all, r, p, new) ==
  /\ Ends(buf, raw) # {} /\ i = Least(Ends(buf, raw))
  /\ all = buf \o SubSeq(raw, 1, i)
  /\ r = Strip(SubSeq(all, 1, Len(all) - 2))
  /\ p = q \o SubSeq(raw, 1, i) /\ new = Append(reqs, r)

LEMMA TakesRequest ==
  ASSUME NEW q \in Seq(Bytes), NEW raw \in Seq(Bytes), NEW buf, Open(q, buf),
         NEW reqs \in Seq(Seq(Bytes)), Split(q, reqs),
         NEW i, NEW all, NEW r, NEW p, NEW new, Takes(q, raw, buf, reqs, i, all, r, p, new)
  PROVE  /\ i \in 1 .. Len(raw) /\ p \in Seq(Bytes) /\ new \in Seq(Seq(Bytes))
         /\ Len(new) = Len(reqs) + 1 /\ r \in Seq(Bytes)
         /\ Open(p, <<>>) /\ Split(p, new)
<1>h. /\ Ends(buf, raw) # {} /\ i = Least(Ends(buf, raw))
      /\ all = buf \o SubSeq(raw, 1, i)
      /\ r = Strip(SubSeq(all, 1, Len(all) - 2))
      /\ p = q \o SubSeq(raw, 1, i) /\ new = Append(reqs, r)
  BY DEF Takes
<1>1. PICK b \in 0 .. Len(q) : After(q, b, buf)
  BY DEF Open
<1>2. i \in Ends(buf, raw) /\ (\A k \in Ends(buf, raw) : i <= k) /\ i \in 1 .. Len(raw)
  <2>1. Ends(buf, raw) \subseteq 1 .. Len(raw)
    BY DEF Ends
  <2>2. Ends(buf, raw) \in SUBSET Nat
    BY <2>1
  <2> QED BY <1>h, <2>1, <2>2, LeastIs
<1>a. PICK x : x = SubSeq(raw, 1, i)
  OBVIOUS
<1>3. /\ x \in Seq(Bytes) /\ Len(x) = i /\ i \in Nat /\ i > 0 /\ \A k \in 1 .. i : x[k] = raw[k]
  <2>1. \A k \in 1 .. i : raw[k] \in Bytes
    BY <1>2
  <2>2. /\ SubSeq(raw, 1, i) \in Seq(Bytes) /\ Len(SubSeq(raw, 1, i)) = IF 1 <= i THEN i - 1 + 1 ELSE 0
        /\ \A k \in 1 .. i - 1 + 1 : SubSeq(raw, 1, i)[k] = raw[1 + k - 1]
    BY <1>2, <2>1, SubSeqProperties
  <2> QED BY <1>2, <1>a, <2>2
<1>4. Ends(buf, x) = {i}
  <2>1. \A k \in 1 .. i : k \in Ends(buf, x) <=> k \in Ends(buf, raw)
    BY <1>2, <1>3 DEF Ends
  <2>2. Ends(buf, x) \subseteq 1 .. i
    BY <1>3 DEF Ends
  <2> QED BY <1>2, <2>1, <2>2
<1>5. Chunk(q, b, buf, x, p)
  <2>1. Chunk(q, b, buf, x, q \o x)
    BY <1>1, <1>3, ChunkIs
  <2>2. p = q \o x
    BY <1>h, <1>a
  <2> QED BY <2>1, <2>2
<1>n. PICK n \in Nat : n = Len(q)
  OBVIOUS
<1>6. /\ p \in Seq(Bytes) /\ Len(p) = n + i /\ b \in 0 .. n
      /\ Boundaries(q) \subseteq 1 .. n /\ Boundaries(p) = Boundaries(q) \union {n + i}
  <2>1. p \in Seq(Bytes)
    BY <1>5 DEF Chunk
  <2>2. /\ Len(p) = Len(q) + Len(x) /\ Boundaries(q) \subseteq 1 .. Len(q)
        /\ Len(x) > 0 /\ Ends(buf, x) = {Len(x)}
             => Boundaries(p) = Boundaries(q) \union {Len(q) + Len(x)}
    BY <1>5, ChunkBoundaries
  <2>3. b \in 0 .. n
    BY <1>n
  <2> QED BY <1>3, <1>4, <1>n, <2>1, <2>2, <2>3
<1>7. \A j \in 1 .. n : p[j] = q[j]
  BY <1>5, <1>n DEF Chunk
<1>8. /\ all \in Seq(Bytes) /\ Len(all) = n + i - b
      /\ \A k \in 1 .. n + i - b : all[k] = p[b + k]
  <2>1. all = buf \o x
    BY <1>h, <1>a
  <2>3. /\ buf \o x \in Seq(Bytes) /\ Len(buf \o x) = n + i - b
        /\ \A k \in 1 .. n + i - b : (buf \o x)[k] = p[b + k]
    <3>1. /\ buf \o x \in Seq(Bytes) /\ Len(buf \o x) = Len(q) + Len(x) - b
          /\ \A k \in 1 .. Len(q) + Len(x) - b : (buf \o x)[k] = p[b + k]
      <4>1. x \in Seq(Bytes)
        BY <1>3
      <4> QED BY <1>5, <4>1, ChunkWhole
    <3> QED BY <1>3, <1>n, <3>1
  <2> QED BY <2>1, <2>3
<1>9. r = Strip(SubSeq(p, b + 1, n + i - 2)) /\ r \in Seq(Bytes)
  <2>a. PICK k \in Int : k = n + i - b - 2
    BY <1>3, <1>6
  <2>1. \A j \in 1 .. k : j \in 1 .. n + i - b /\ j + ((b + 1) - 1) = b + j
    BY <1>3, <1>6, <2>a
  <2>2. \A j \in 1 .. k : all[j] \in Bytes /\ all[j] = p[j + ((b + 1) - 1)]
    BY <1>8, <2>1
  <2>b. PICK l \in Int, c \in Int : l = n + i - 2 /\ c = b + 1
    BY <1>3, <1>6
  <2>3. k - 1 = l - c /\ 1 \in Int
    BY <1>3, <1>6, <2>a, <2>b
  <2>c. \A j \in 1 .. k : all[j] \in Bytes /\ all[j] = p[j + (c - 1)]
    BY <2>2, <2>b
  <2>4. SubSeq(all, 1, k) = SubSeq(p, b + 1, n + i - 2)
    <3>1. SameBytes(all, 1, k, p, c, l)
      BY <2>3, <2>c DEF SameBytes
    <3>2. SubSeq(all, 1, k) = SubSeq(p, c, l)
      BY <2>3, <3>1, SubSeqEqual
    <3> QED BY <2>b, <3>2
  <2>5. SubSeq(all, 1, k) \in Seq(Bytes)
    <3>1. \A j \in 1 .. k : all[j] \in Bytes
      BY <2>2
    <3> QED BY <2>3, <3>1, SubSeqProperties
  <2>6. r = Strip(SubSeq(all, 1, k))
    BY <1>h, <1>8, <2>a
  <2> QED BY <2>4, <2>5, <2>6, StripType
<1>11. Split(p, new)
  <2>a. PICK J \in Nat : J = n + i
    BY <1>3
  <2>1. /\ J = Len(p) /\ Len(q) < J /\ Boundaries(p) = Boundaries(q) \union {J}
        /\ \A j \in 1 .. Len(q) : p[j] = q[j]
        /\ r = Strip(SubSeq(p, b + 1, J - 2))
    BY <1>3, <1>6, <1>7, <1>9, <1>n, <2>a
  <2>2. b = 0 \/ b \in Boundaries(q)
    BY <1>1 DEF After
  <2>3. \A j \in Boundaries(q) : j <= b
    BY <1>1 DEF After
  <2>4. new = Append(reqs, r)
    BY <1>h
  <2> QED BY <1>6, <1>9, <2>1, <2>2, <2>3, <2>4, SplitNext
<1>12. Open(p, <<>>)
  <2>a. PICK J \in Nat : J = n + i
    BY <1>3
  <2>1. Len(p) = J /\ J \in Boundaries(p) /\ \A j \in Boundaries(p) : j <= J
    BY <1>3, <1>6, <2>a
  <2>2. SubSeq(p, J + 1, J) = <<>>
    BY SubSeqEmpty
  <2>3. After(p, J, <<>>)
    BY <2>1, <2>2 DEF After
  <2> QED BY <2>1, <2>3 DEF Open
<1>13. new \in Seq(Seq(Bytes)) /\ Len(new) = Len(reqs) + 1
  BY <1>h, <1>9, AppendProperties
<1> QED BY <1>2, <1>6, <1>9, <1>11, <1>12, <1>13

(* No request ends in raw.                                                 *)
TakesAll(q, raw, buf, p, all) == p = q \o raw /\ all = buf \o raw

LEMMA TakesRest ==
  ASSUME NEW q \in Seq(Bytes), NEW raw \in Seq(Bytes), NEW buf, Open(q, buf),
         NEW reqs, Split(q, reqs), Ends(buf, raw) = {}, NEW p, NEW all,
         TakesAll(q, raw, buf, p, all)
  PROVE  p \in Seq(Bytes) /\ all \in Seq(Bytes) /\ Open(p, all) /\ Split(p, reqs)
<1>h. p = q \o raw /\ all = buf \o raw
  BY DEF TakesAll
<1>1. PICK b \in 0 .. Len(q) : After(q, b, buf)
  BY DEF Open
<1>5. Chunk(q, b, buf, raw, p)
  <2>1. Chunk(q, b, buf, raw, q \o raw)
    BY <1>1, ChunkIs
  <2> QED BY <1>h, <2>1
<1>n. PICK n \in Nat, m \in Nat : n = Len(q) /\ m = Len(raw)
  OBVIOUS
<1>6. /\ p \in Seq(Bytes) /\ Len(p) = n + m /\ b \in 0 .. n /\ Boundaries(p) = Boundaries(q)
  <2>1. p \in Seq(Bytes)
    BY <1>5 DEF Chunk
  <2> QED BY <1>1, <1>5, <1>n, <2>1, ChunkBoundaries
<1>7. \A j \in 1 .. n : p[j] = q[j]
  BY <1>5, <1>n DEF Chunk
<1>8. /\ all \in Seq(Bytes) /\ Len(all) = n + m - b
      /\ \A k \in 1 .. n + m - b : all[k] = p[b + k]
  <2>3. /\ buf \o raw \in Seq(Bytes) /\ Len(buf \o raw) = n + m - b
        /\ \A k \in 1 .. n + m - b : (buf \o raw)[k] = p[b + k]
    <3>1. /\ buf \o raw \in Seq(Bytes) /\ Len(buf \o raw) = Len(q) + Len(raw) - b
          /\ \A k \in 1 .. Len(q) + Len(raw) - b : (buf \o raw)[k] = p[b + k]
      BY <1>5, ChunkWhole
    <3> QED BY <1>n, <3>1
  <2> QED BY <1>h, <2>3
<1>9. Split(p, reqs)
  <2>1. Len(q) <= Len(p) /\ \A j \in 1 .. Len(q) : p[j] = q[j]
    BY <1>6, <1>7, <1>n
  <2> QED BY <1>6, <2>1, SplitRest
<1>10. all = SubSeq(p, b + 1, Len(p))
  <2>a. PICK k \in Nat : k = n + m - b
    BY <1>6
  <2>1. \A j \in 1 .. k : j + ((b + 1) - 1) = b + j
    BY <1>6, <2>a
  <2>2. \A j \in 1 .. k : all[j] \in Bytes /\ all[j] = p[j + ((b + 1) - 1)]
    BY <1>8, <2>1, <2>a
  <2>3. k - 1 = (n + m) - (b + 1) /\ n + m \in Int /\ b + 1 \in Int /\ 1 \in Int /\ k \in Int
    BY <1>6, <2>a
  <2>4. SubSeq(all, 1, k) = SubSeq(p, b + 1, n + m)
    <3>1. SameBytes(all, 1, k, p, b + 1, n + m)
      BY <2>2, <2>3 DEF SameBytes
    <3> QED BY <2>3, <3>1, SubSeqEqual
  <2>5. SubSeq(all, 1, Len(all)) = all
    BY <1>8, SubSeqFull
  <2> QED BY <1>6, <1>8, <2>a, <2>4, <2>5
<1>11. Open(p, all)
  <2>1. b \in 0 .. Len(p)
    BY <1>6
  <2>2. b = 0 \/ b \in Boundaries(q)
    BY <1>1 DEF After
  <2>3. \A j \in Boundaries(q) : j <= b
    BY <1>1 DEF After
  <2>4. After(p, b, all)
    BY <1>6, <1>10, <2>2, <2>3 DEF After
  <2> QED BY <2>1, <2>4 DEF Open
<1> QED BY <1>6, <1>8, <1>9, <1>11

-----------------------------------------------------------------------------
(* The references of a socket *)

(* The references of s, when those of the other sockets stay.              *)
LEMMA ReleaseCounts ==
  ASSUME SocketTypes, NEW s \in Sockets, Counted(s), nRefCount[s] > 0, main # "done", Release(s),
         main' = main,
         Refs(s)' = Refs(s) - 1, recv[s] # "new", recv'[s] # "new"
  PROVE  /\ nRefCount' \in [Sockets -> Nat] /\ deleted' \in [Sockets -> Nat]
         /\ vpClientSocks' \subseteq Sockets
         /\ Counted(s)'
         /\ \A t \in Sockets : t # s => /\ nRefCount'[t] = nRefCount[t] /\ deleted'[t] = deleted[t]
                                        /\ t \in vpClientSocks' <=> t \in vpClientSocks
<1>1. nRefCount \in [Sockets -> Nat] /\ deleted \in [Sockets -> Nat] /\ vpClientSocks \subseteq Sockets
  BY DEF SocketTypes
<1>2. /\ nRefCount[s] = Refs(s) /\ s \in vpClientSocks /\ deleted[s] = 0
  BY DEF Counted, One
<1>3. /\ nRefCount' = [nRefCount EXCEPT ![s] = nRefCount[s] - 1]
      /\ nRefCount[s] <= 1 => /\ vpClientSocks' = vpClientSocks \ {s}
                              /\ deleted' = [deleted EXCEPT ![s] = deleted[s] + 1]
      /\ ~(nRefCount[s] <= 1) => vpClientSocks' = vpClientSocks /\ deleted' = deleted
  BY DEF Release
<1>4. /\ nRefCount' \in [Sockets -> Nat] /\ deleted' \in [Sockets -> Nat]
      /\ vpClientSocks' \subseteq Sockets
  BY <1>1, <1>2, <1>3
<1>5. /\ nRefCount'[s] = Refs(s)' /\ (s \in vpClientSocks' <=> nRefCount'[s] > 0)
      /\ deleted'[s] = IF nRefCount'[s] = 0 THEN 1 ELSE 0
  BY <1>1, <1>2, <1>3
<1>6. Counted(s)'
  BY <1>5 DEF Counted, One
<1>7. \A t \in Sockets : t # s => /\ nRefCount'[t] = nRefCount[t] /\ deleted'[t] = deleted[t]
                                  /\ t \in vpClientSocks' <=> t \in vpClientSocks
  BY <1>1, <1>3
<1> QED BY <1>4, <1>6, <1>7

(* A socket that an action does not touch.                                 *)
LEMMA CountedSame ==
  ASSUME NEW s, Counted(s), main' = main, nRefCount'[s] = nRefCount[s], deleted'[s] = deleted[s],
         s \in vpClientSocks' <=> s \in vpClientSocks,
         recv'[s] = recv[s], send'[s] = send[s], releasing'[s] = releasing[s]
  PROVE  Counted(s)'
  BY DEF Counted, Refs, Receiving, One, Handling

LEMMA ReleaseNext ==
  ASSUME SocketTypes, \A t \in Sockets : Counted(t), NEW s \in Sockets, Release(s),
         nRefCount[s] > 0, main # "done", main' = main, recv[s] # "new", recv'[s] # "new",
         Refs(s)' = Refs(s) - 1,
         \A t \in Sockets : t # s => /\ recv'[t] = recv[t] /\ send'[t] = send[t]
                                     /\ releasing'[t] = releasing[t]
  PROVE  /\ nRefCount' \in [Sockets -> Nat] /\ deleted' \in [Sockets -> Nat]
         /\ vpClientSocks' \subseteq Sockets
         /\ \A t \in Sockets : Counted(t)'
<1>1. /\ nRefCount' \in [Sockets -> Nat] /\ deleted' \in [Sockets -> Nat]
      /\ vpClientSocks' \subseteq Sockets
      /\ Counted(s)'
      /\ \A t \in Sockets : t # s => /\ nRefCount'[t] = nRefCount[t] /\ deleted'[t] = deleted[t]
                                     /\ t \in vpClientSocks' <=> t \in vpClientSocks
  BY ReleaseCounts
<1>2. \A t \in Sockets : t # s => Counted(t)'
  BY <1>1, CountedSame
<1> QED BY <1>1, <1>2

LEMMA LifeNext ==
  ASSUME SocketTypes, \A s \in Sockets : Counted(s) /\ Queued(s), [Next]_vars
  PROVE  SocketTypes' /\ \A s \in Sockets : Counted(s)'
<1> USE DEF vars, life, inward, answer, outward
<1> DEFINE Goal == SocketTypes' /\ \A s \in Sockets : Counted(s)'
<1>1. ASSUME NEW s \in Sockets, doAccept(s) PROVE Goal
  <2>1. /\ Running /\ recv[s] = "listening" /\ main' = main
        /\ UNCHANGED <<send, releasing, closing, keep, cut, deleted>>
        /\ releasing \in [Sockets -> Nat]
    BY <1>1 DEF doAccept, SocketTypes
  <2> DEFINE new == {t \in Sockets : recv[t] = "new"}
  <2>2. CASE new = {}
    <3>1. recv' = [recv EXCEPT ![s] = "armed"] /\ UNCHANGED life
      BY <1>1, <2>2 DEF doAccept
    <3>2. SocketTypes'
      BY <2>1, <3>1 DEF SocketTypes
    <3>3. Counted(s)'
      BY <2>1, <3>1 DEF Counted, SocketTypes, Refs, Receiving, One, Handling
    <3>4. \A t \in Sockets : t # s => Counted(t)'
      BY <2>1, <3>1, CountedSame DEF SocketTypes
    <3> QED BY <3>2, <3>3, <3>4
  <2>3. CASE new # {}
    <3>1. PICK t \in new : t = CHOOSE x \in new : TRUE
      BY <2>3
    <3>2. /\ recv' = [recv EXCEPT ![s] = "armed", ![t] = "listening"]
          /\ nRefCount' = [nRefCount EXCEPT ![t] = 1]
          /\ vpClientSocks' = vpClientSocks \union {t}
      BY <1>1, <2>3, <3>1 DEF doAccept
    <3>3. SocketTypes'
      BY <2>1, <3>2 DEF SocketTypes
    <3>4. Counted(s)' /\ t # s
      BY <2>1, <3>2 DEF Counted, SocketTypes, Refs, Receiving, One, Handling
    <3>5. Counted(t)'
      <4>1. /\ recv[t] = "new" /\ Counted(t) /\ nRefCount[t] = 0 /\ recv'[t] = "listening" /\ nRefCount'[t] = 1
            /\ t \in vpClientSocks' /\ main' # "done"
        BY <2>1, <3>2 DEF Counted, SocketTypes, Running
      <4>2. send[t] \in BOOLEAN /\ releasing[t] \in Nat
        BY DEF SocketTypes
      <4>3. ~send[t] /\ releasing[t] = 0
        BY <4>1, <4>2 DEF Counted, Refs, Receiving, One
      <4> QED BY <2>1, <4>1, <4>3 DEF Counted, Refs, Receiving, One, Handling
    <3>6. \A u \in Sockets : u # s /\ u # t => Counted(u)'
      BY <2>1, <3>2, CountedSame DEF SocketTypes
    <3> QED BY <3>3, <3>4, <3>5, <3>6
  <2> QED BY <2>2, <2>3
<1>2. ASSUME NEW s \in Sockets, doAcceptError(s) PROVE Goal
  <2>1. /\ recv[s] = "listening" /\ recv' = [recv EXCEPT ![s] = "off"] /\ Release(s)
        /\ main \in {"run", "mark"} /\ UNCHANGED <<send, releasing, closing, keep, cut, main>>
    BY <1>2 DEF doAcceptError, Running
  <2>2. /\ recv'[s] = "off" /\ Refs(s)' = Refs(s) - 1 /\ nRefCount[s] > 0
        /\ \A t \in Sockets : t # s => recv'[t] = recv[t]
    BY <2>1 DEF SocketTypes, Refs, Receiving, One, Counted
  <2>3. Goal
    BY <2>1, <2>2, ReleaseNext DEF SocketTypes
  <2> QED BY <2>3
<1>3. ASSUME NEW s \in Sockets, doRecvError(s) PROVE Goal
  <2>1. /\ recv[s] = "armed" /\ recv' = [recv EXCEPT ![s] = "off"] /\ Release(s)
        /\ main \in {"run", "mark"} /\ UNCHANGED <<send, releasing, closing, keep, cut, main>>
    BY <1>3 DEF doRecvError, Running
  <2>2. /\ recv'[s] = "off" /\ Refs(s)' = Refs(s) - 1 /\ nRefCount[s] > 0
        /\ \A t \in Sockets : t # s => recv'[t] = recv[t]
    BY <2>1 DEF SocketTypes, Refs, Receiving, One, Counted
  <2> QED BY <2>1, <2>2, ReleaseNext DEF SocketTypes
<1>4. ASSUME NEW s \in Sockets, EndRecv(s) PROVE Goal
  <2>1. /\ recv[s] = "end" /\ UNCHANGED <<send, releasing, closing, keep, cut, main>>
        /\ main # "done"
    BY <1>4 DEF EndRecv, Counted, Handling
  <2>2. CASE recv' = [recv EXCEPT ![s] = "armed"] /\ UNCHANGED life
    <3>1. Counted(s)'
      BY <2>1, <2>2 DEF Counted, SocketTypes, Refs, Receiving, One, Handling
    <3>2. \A t \in Sockets : t # s => Counted(t)'
      BY <2>1, <2>2, CountedSame DEF SocketTypes
    <3>3. SocketTypes'
      BY <2>1, <2>2 DEF SocketTypes
    <3> QED BY <3>1, <3>2, <3>3
  <2>3. CASE recv' = [recv EXCEPT ![s] = "off"] /\ Release(s)
    <3>2. /\ recv'[s] = "off" /\ Refs(s)' = Refs(s) - 1 /\ nRefCount[s] > 0
          /\ \A t \in Sockets : t # s => recv'[t] = recv[t]
      BY <2>1, <2>3 DEF SocketTypes, Refs, Receiving, One, Counted
    <3> QED BY <2>1, <2>3, <3>2, ReleaseNext DEF SocketTypes
  <2> QED BY <1>4, <2>2, <2>3 DEF EndRecv
<1>5. ASSUME NEW s \in Sockets, EndSend(s) PROVE Goal
  <2>1. /\ releasing[s] > 0 /\ releasing' = [releasing EXCEPT ![s] = @ - 1] /\ Release(s)
        /\ main # "done" /\ UNCHANGED <<recv, send, closing, keep, cut, main>>
    BY <1>5 DEF EndSend, Counted, Handling
  <2>2. /\ recv[s] # "new" /\ Refs(s)' = Refs(s) - 1 /\ nRefCount[s] > 0
        /\ \A t \in Sockets : t # s => releasing'[t] = releasing[t]
        /\ releasing' \in [Sockets -> Nat]
    BY <2>1 DEF SocketTypes, Refs, Receiving, One, Counted
  <2> QED BY <2>1, <2>2, ReleaseNext DEF SocketTypes
<1>6. ASSUME NEW s \in Sockets, doSendError(s) PROVE Goal
  <2>1. /\ send[s] /\ send' = [send EXCEPT ![s] = FALSE] /\ Release(s)
        /\ cut' = [cut EXCEPT ![s] = TRUE]
        /\ main \in {"run", "mark"} /\ UNCHANGED <<recv, releasing, closing, keep, main>>
    BY <1>6 DEF doSendError, Running
  <2>2. /\ recv[s] # "new" /\ Refs(s)' = Refs(s) - 1 /\ nRefCount[s] > 0
        /\ \A t \in Sockets : t # s => send'[t] = send[t]
        /\ send' \in [Sockets -> BOOLEAN] /\ cut' \in [Sockets -> BOOLEAN]
    BY <2>1 DEF SocketTypes, Refs, Receiving, One, Counted
  <2> QED BY <2>1, <2>2, ReleaseNext DEF SocketTypes
<1>7. ASSUME NEW s \in Sockets, doSend(s) PROVE Goal
  <2>1. /\ send[s] /\ main \in {"run", "mark"} /\ UNCHANGED <<life, recv, closing, keep, main>>
        /\ \/ cut' = cut
           \/ cut' = [cut EXCEPT ![s] = TRUE]
        /\ \/ UNCHANGED <<send, releasing>>
           \/ /\ send' = [send EXCEPT ![s] = FALSE]
              /\ releasing' = [releasing EXCEPT ![s] = @ + 1]
    BY <1>7 DEF doSend, Running
  <2>2. SocketTypes'
    <3>1. cut' \in [Sockets -> BOOLEAN] /\ send' \in [Sockets -> BOOLEAN]
      BY <2>1 DEF SocketTypes
    <3>2. releasing' \in [Sockets -> Nat]
      BY <2>1 DEF SocketTypes
    <3> QED BY <2>1, <3>1, <3>2 DEF SocketTypes
  <2>3. Counted(s)'
    BY <2>1 DEF Counted, SocketTypes, Refs, Receiving, One, Handling
  <2>4. \A t \in Sockets : t # s => Counted(t)'
    BY <2>1, CountedSame DEF SocketTypes
  <2> QED BY <2>2, <2>3, <2>4
<1>8. ASSUME NEW s \in Sockets, StartSend(s) PROVE Goal
  <2>1. /\ recv[s] = "start" /\ recv' = [recv EXCEPT ![s] = "next"] /\ ~send[s]
        /\ UNCHANGED <<deleted, vpClientSocks, releasing, closing, keep, cut, main>>
        /\ nRefCount' = [nRefCount EXCEPT ![s] = @ + 1]
        /\ send'   = [send EXCEPT ![s] = TRUE]
    BY <1>8 DEF StartSend, Queued
  <2>2. SocketTypes'
    BY <2>1 DEF SocketTypes
  <2>3. Counted(s)'
    BY <2>1 DEF Counted, SocketTypes, Refs, Receiving, One, Handling
  <2>4. \A t \in Sockets : t # s => Counted(t)'
    BY <2>1, CountedSame DEF SocketTypes
  <2> QED BY <2>2, <2>3, <2>4
(* The chain of receive handlers goes on, with its reference.              *)
<1>9. ASSUME NEW s \in Sockets, NEW a \in {"armed", "scan", "post", "start", "next", "sent", "end"},
             recv[s] \in {"armed", "scan", "post", "next", "sent"},
             recv' = [recv EXCEPT ![s] = a], UNCHANGED <<life, send, releasing, cut, main>>,
             closing' \in [Sockets -> BOOLEAN], keep' \in [Sockets -> BOOLEAN],
             main = "done" => recv[s] # "armed"
      PROVE  Goal
  <2>2. SocketTypes'
    BY <1>9 DEF SocketTypes
  <2>3. Counted(s)'
    BY <1>9 DEF Counted, SocketTypes, Refs, Receiving, One, Handling
  <2>4. \A t \in Sockets : t # s => Counted(t)'
    BY <1>9, CountedSame DEF SocketTypes
  <2> QED BY <2>2, <2>3, <2>4
<1>10. ASSUME NEW s \in Sockets, doRecv(s) PROVE Goal
  <2>1. /\ recv[s] = "armed" /\ recv' = [recv EXCEPT ![s] = "scan"] /\ main # "done"
        /\ UNCHANGED <<life, send, releasing, cut, closing, keep, main>>
    BY <1>10 DEF doRecv, Running
  <2> QED BY <1>9, <2>1 DEF SocketTypes
<1>11. ASSUME NEW s \in Sockets, ReceiveRequest(s) PROVE Goal
  <2>1. /\ recv[s] = "scan" /\ UNCHANGED <<life, send, releasing, cut, closing, main>>
        /\ \/ recv' = [recv EXCEPT ![s] = "sent"]
           \/ recv' = [recv EXCEPT ![s] = "post"]
    BY <1>11 DEF ReceiveRequest
  <2>2. keep' \in [Sockets -> BOOLEAN]
    <3>1. \E r : keep' = [keep EXCEPT ![s] = KeepAlive(r)]
      BY <1>11 DEF ReceiveRequest
    <3>2. \A r : KeepAlive(r) \in BOOLEAN
      BY DEF KeepAlive
    <3> QED BY <3>1, <3>2 DEF SocketTypes
  <2> QED BY <1>9, <2>1, <2>2 DEF SocketTypes
<1>12. ASSUME NEW s \in Sockets, ReceiveRest(s) PROVE Goal
  <2>1. /\ recv[s] = "scan" /\ recv' = [recv EXCEPT ![s] = "end"]
        /\ UNCHANGED <<life, send, releasing, cut, closing, keep, main>>
    BY <1>12 DEF ReceiveRest
  <2> QED BY <1>9, <2>1 DEF SocketTypes
<1>13. ASSUME NEW s \in Sockets, postToSendQueue(s) PROVE Goal
  <2>1. /\ recv[s] = "post" /\ UNCHANGED <<life, send, releasing, cut, closing, keep, main>>
        /\ recv' = [recv EXCEPT ![s] = IF qSend[s] = <<>> THEN "start" ELSE "next"]
    BY <1>13 DEF postToSendQueue
  <2> QED BY <1>9, <2>1 DEF SocketTypes
<1>14. ASSUME NEW s \in Sockets, NextBlock(s) PROVE Goal
  <2>1. /\ recv[s] = "next" /\ UNCHANGED <<life, send, releasing, cut, closing, keep, main>>
        /\ \/ recv' = [recv EXCEPT ![s] = "sent"]
           \/ recv' = [recv EXCEPT ![s] = "post"]
    BY <1>14 DEF NextBlock
  <2> QED BY <1>9, <2>1 DEF SocketTypes
<1>15. ASSUME NEW s \in Sockets, AfterAnswer(s) PROVE Goal
  <2>1. /\ recv[s] = "sent" /\ UNCHANGED <<life, send, releasing, cut, keep, main>>
        /\ recv' = [recv EXCEPT ![s] = "scan"]
        /\ closing' = [closing EXCEPT ![s] = @ \/ ~keep[s]]
    BY <1>15 DEF AfterAnswer
  <2>2. closing' \in [Sockets -> BOOLEAN]
    BY <2>1 DEF SocketTypes
  <2> QED BY <1>9, <2>1, <2>2 DEF SocketTypes
(* The main thread.                                                        *)
<1>16. ASSUME UNCHANGED <<life, recv, send, releasing, keep, cut>>,
              closing' \in [Sockets -> BOOLEAN],
              main # "done", main' \in {"run", "mark", "join"}
       PROVE  Goal
  <2>1. SocketTypes'
    BY <1>16 DEF SocketTypes
  <2>2. \A s \in Sockets : Counted(s)'
    BY <1>16 DEF Counted, Refs, Receiving, One, Handling
  <2> QED BY <2>1, <2>2
<1>17. ASSUME LockSocks \/ StopService PROVE Goal
  BY <1>16, <1>17 DEF LockSocks, StopService, SocketTypes
<1>18. ASSUME NEW s \in Sockets, MarkSocket(s) PROVE Goal
  BY <1>16, <1>18 DEF MarkSocket, SocketTypes
<1>19. ASSUME DeleteSockets PROVE Goal
  <2>1. /\ main = "join" /\ main' = "done" /\ (\A s \in Sockets : ~Handling(s))
        /\ deleted' = [s \in Sockets |-> deleted[s] + IF s \in vpClientSocks THEN 1 ELSE 0]
        /\ UNCHANGED <<nRefCount, vpClientSocks, recv, send, releasing, keep, cut, closing>>
    BY <1>19 DEF DeleteSockets
  <2>2. SocketTypes'
    BY <2>1 DEF SocketTypes
  <2>3. ASSUME NEW s \in Sockets PROVE Counted(s)'
    <3>1. Counted(s) /\ nRefCount[s] \in Nat /\ deleted[s] \in Nat
      BY DEF SocketTypes
    <3>2. deleted'[s] = One(recv[s] # "new")
      BY <2>1, <3>1 DEF Counted, One
    <3> QED BY <2>1, <3>1, <3>2 DEF Counted, Refs, Receiving, One, Handling
  <2> QED BY <2>2, <2>3
<1>20. CASE UNCHANGED vars
  <2>1. SocketTypes'
    BY <1>20 DEF SocketTypes
  <2>2. \A s \in Sockets : Counted(s)'
    BY <1>20, CountedSame
  <2> QED BY <2>1, <2>2
<1> QED BY <1>1, <1>2, <1>3, <1>4, <1>5, <1>6, <1>7, <1>8, <1>10, <1>11, <1>12, <1>13, <1>14,
           <1>15, <1>17, <1>18, <1>19, <1>20 DEF Next, stopServer, Handlers

-----------------------------------------------------------------------------
(* The data *)

LEMMA TailIs ==
  ASSUME NEW T, NEW q \in Seq(T), NEW n \in Nat
  PROVE  /\ SubSeq(q, n + 1, Len(q)) \in Seq(T)
         /\ Len(SubSeq(q, n + 1, Len(q))) = IF n <= Len(q) THEN Len(q) - n ELSE 0
         /\ \A i \in 1 .. Len(q) - n : SubSeq(q, n + 1, Len(q))[i] = q[n + i]
<1>1. \A i \in n + 1 .. Len(q) : q[i] \in T
  OBVIOUS
<1>2. /\ SubSeq(q, n + 1, Len(q)) \in Seq(T)
      /\ Len(SubSeq(q, n + 1, Len(q))) = IF n + 1 <= Len(q) THEN Len(q) - (n + 1) + 1 ELSE 0
      /\ \A i \in 1 .. Len(q) - (n + 1) + 1 : SubSeq(q, n + 1, Len(q))[i] = q[(n + 1) + i - 1]
  BY <1>1, SubSeqProperties
<1>3. \A i \in 1 .. Len(q) - n : i \in 1 .. Len(q) - (n + 1) + 1 /\ (n + 1) + i - 1 = n + i
  OBVIOUS
<1> QED BY <1>2, <1>3

LEMMA AtMostIs ==
  ASSUME NEW T, NEW q \in Seq(T), NEW n \in Nat
  PROVE  /\ AtMost(n, q) \in Seq(T)
         /\ Len(AtMost(n, q)) = IF Len(q) < n THEN Len(q) ELSE n
         /\ \A i \in 1 .. Len(AtMost(n, q)) : AtMost(n, q)[i] = q[i]
<1>1. PICK m \in Nat : m = IF Len(q) < n THEN Len(q) ELSE n
  OBVIOUS
<1>2. m <= Len(q) /\ \A i \in 1 .. m : q[i] \in T
  BY <1>1
<1>3. /\ SubSeq(q, 1, m) \in Seq(T)
      /\ Len(SubSeq(q, 1, m)) = IF 1 <= m THEN m - 1 + 1 ELSE 0
      /\ \A i \in 1 .. m - 1 + 1 : SubSeq(q, 1, m)[i] = q[1 + i - 1]
  BY <1>2, SubSeqProperties
<1>4. AtMost(n, q) = SubSeq(q, 1, m)
  BY <1>1 DEF AtMost
<1>5. Len(SubSeq(q, 1, m)) = m /\ \A i \in 1 .. m : i \in 1 .. m - 1 + 1 /\ 1 + i - 1 = i
  BY <1>3
<1> QED BY <1>1, <1>3, <1>4, <1>5

LEMMA ConcatIs ==
  ASSUME NEW T, NEW q \in Seq(T), NEW x \in Seq(T)
  PROVE  q \o x \in Seq(T)
  BY ConcatProperties

LEMMA QueuedNext ==
  ASSUME DataTypes, SocketTypes, \A s \in Sockets : Queued(s), [Next]_vars
  PROVE  \A s \in Sockets : Queued(s)'
<1> USE DEF vars, life, inward, answer, outward
<1> SUFFICES ASSUME NEW s \in Sockets PROVE Queued(s)'
  OBVIOUS
<1>a. /\ qSend \in [Sockets -> Seq(Seq(Token))]
      /\ send \in [Sockets -> BOOLEAN] /\ cut \in [Sockets -> BOOLEAN]
      /\ rest \in [Sockets -> Seq(Token)] /\ Queued(s)
  BY DEF DataTypes, SocketTypes
<1>b. recv \in [Sockets -> {"new", "listening", "armed", "scan", "post", "start",
                           "next", "sent", "end", "off"}]
  BY DEF SocketTypes
(* Nothing about this socket's queue changes.                              *)
<1>c. ASSUME send'[s] = send[s], qSend'[s] = qSend[s], cut'[s] = cut[s],
             recv'[s] = "start" <=> recv[s] = "start"
      PROVE  Queued(s)'
  BY <1>c, <1>a DEF Queued
<1>1. ASSUME NEW t \in Sockets, doAccept(t) PROVE Queued(s)'
  <2>1. UNCHANGED <<send, qSend, cut>> /\ recv[t] = "listening"
    BY <1>1 DEF doAccept
  <2> DEFINE new == {u \in Sockets : recv[u] = "new"}
  <2>2. CASE new = {}
    <3>1. recv' = [recv EXCEPT ![t] = "armed"]
      BY <1>1, <2>2 DEF doAccept
    <3> QED BY <1>b, <1>c, <2>1, <3>1
  <2>3. CASE new # {}
    <3>1. PICK u \in new : u = CHOOSE x \in new : TRUE
      BY <2>3
    <3>2. recv' = [recv EXCEPT ![t] = "armed", ![u] = "listening"] /\ recv[u] = "new"
      BY <1>1, <2>3, <3>1 DEF doAccept
    <3> QED BY <1>b, <1>c, <2>1, <3>2
  <2> QED BY <2>2, <2>3
<1>2. ASSUME NEW t \in Sockets, doAcceptError(t) \/ doRecvError(t) \/ doRecv(t) PROVE Queued(s)'
  <2>1. /\ UNCHANGED <<send, qSend, cut>> /\ recv[t] \in {"listening", "armed"}
        /\ \E a \in {"off", "scan"} : recv' = [recv EXCEPT ![t] = a]
    BY <1>2 DEF doAcceptError, doRecvError, doRecv
  <2> QED BY <1>b, <1>c, <2>1
<1>3. ASSUME NEW t \in Sockets, ReceiveRequest(t) PROVE Queued(s)'
  <2>1. /\ UNCHANGED <<send, qSend, cut>> /\ recv[t] = "scan"
        /\ \E a \in {"sent", "post"} : recv' = [recv EXCEPT ![t] = a]
    BY <1>3 DEF ReceiveRequest
  <2> QED BY <1>b, <1>c, <2>1
<1>4. ASSUME NEW t \in Sockets, ReceiveRest(t) \/ EndRecv(t) \/ AfterAnswer(t) PROVE Queued(s)'
  <2>1. /\ UNCHANGED <<send, qSend, cut>> /\ recv[t] \in {"scan", "end", "sent"}
        /\ \E a \in {"end", "armed", "off", "scan"} : recv' = [recv EXCEPT ![t] = a]
    BY <1>4 DEF ReceiveRest, EndRecv, AfterAnswer
  <2> QED BY <1>b, <1>c, <2>1
<1>5. ASSUME NEW t \in Sockets, postToSendQueue(t) PROVE Queued(s)'
  <2>1. /\ UNCHANGED <<send, cut>> /\ recv[t] = "post"
        /\ qSend' = [qSend EXCEPT ![t] = Append(qSend[t], rest[t])]
        /\ recv'  = [recv EXCEPT ![t] = IF qSend[t] = <<>> THEN "start" ELSE "next"]
    BY <1>5 DEF postToSendQueue
  <2>2. CASE t # s
    BY <1>a, <1>b, <1>c, <2>1, <2>2
  <2>3. CASE t = s
    <3>1. qSend'[s] = Append(qSend[s], rest[s]) /\ Append(qSend[s], rest[s]) # <<>>
      <4>1. qSend'[s] = Append(qSend[s], rest[s])
        BY <1>a, <2>1, <2>3
      <4>2. qSend[s] \in Seq(Seq(Token)) /\ rest[s] \in Seq(Token)
        BY <1>a
      <4>3. Append(qSend[s], rest[s]) # <<>>
        BY <4>2, AppendProperties
      <4> QED BY <4>1, <4>3
    <3>2. recv'[s] = IF qSend[s] = <<>> THEN "start" ELSE "next"
      BY <1>b, <2>1, <2>3
    <3> QED BY <1>a, <2>1, <2>3, <3>1, <3>2 DEF Queued
  <2> QED BY <2>2, <2>3
<1>6. ASSUME NEW t \in Sockets, StartSend(t) PROVE Queued(s)'
  <2>1. /\ UNCHANGED <<qSend, cut>> /\ recv[t] = "start" /\ qSend[t] # <<>>
        /\ recv' = [recv EXCEPT ![t] = "next"] /\ send' = [send EXCEPT ![t] = TRUE]
    BY <1>6 DEF StartSend, Queued
  <2> QED BY <1>a, <1>b, <2>1 DEF Queued
<1>7. ASSUME NEW t \in Sockets, NextBlock(t) PROVE Queued(s)'
  <2>1. /\ UNCHANGED <<send, qSend, cut>> /\ recv[t] = "next"
        /\ \E a \in {"sent", "post"} : recv' = [recv EXCEPT ![t] = a]
    BY <1>7 DEF NextBlock
  <2> QED BY <1>b, <1>c, <2>1
<1>8. ASSUME NEW t \in Sockets, EndSend(t) PROVE Queued(s)'
  BY <1>8, <1>c DEF EndSend
<1>9. ASSUME NEW t \in Sockets, doSend(t) PROVE Queued(s)'
  <2>1. /\ send[t] /\ recv' = recv
        /\ qSend' = [qSend EXCEPT ![t] = SubSeq(qSend[t], 2, Len(qSend[t]))]
        /\ \/ SubSeq(qSend[t], 2, Len(qSend[t])) # <<>> /\ send' = send
           \/ SubSeq(qSend[t], 2, Len(qSend[t])) = <<>> /\ send' = [send EXCEPT ![t] = FALSE]
        /\ cut' = cut \/ cut' = [cut EXCEPT ![t] = TRUE]
    BY <1>9 DEF doSend
  <2>2. CASE t # s
    BY <1>a, <1>b, <1>c, <2>1, <2>2
  <2>3. CASE t = s
    <3>1. PICK q : q = SubSeq(qSend[t], 2, Len(qSend[t]))
      OBVIOUS
    <3>2. qSend'[s] = q /\ recv[s] # "start"
      BY <1>a, <2>1, <2>3, <3>1 DEF Queued
    <3> QED BY <1>a, <2>1, <2>3, <3>1, <3>2 DEF Queued
  <2> QED BY <2>2, <2>3
<1>10. ASSUME NEW t \in Sockets, doSendError(t) PROVE Queued(s)'
  <2>1. /\ send[t] /\ UNCHANGED <<recv, qSend>>
        /\ send' = [send EXCEPT ![t] = FALSE] /\ cut' = [cut EXCEPT ![t] = TRUE]
    BY <1>10 DEF doSendError
  <2> QED BY <1>a, <1>b, <2>1 DEF Queued
<1>11. ASSUME stopServer PROVE Queued(s)'
  BY <1>11, <1>c DEF stopServer, LockSocks, StopService, DeleteSockets, MarkSocket
<1>12. CASE UNCHANGED vars
  BY <1>12, <1>c
<1> QED BY <1>1, <1>2, <1>3, <1>4, <1>5, <1>6, <1>7, <1>8, <1>9, <1>10, <1>11, <1>12
           DEF Next, Handlers

InwardTypes ==
  /\ input \in [Sockets -> Seq(Bytes)] /\ rawBuffer \in [Sockets -> Seq(Bytes)]
  /\ recvBuffer \in [Sockets -> Seq(Bytes)] /\ received \in [Sockets -> Seq(Bytes)]
  /\ requests \in [Sockets -> Seq(Seq(Bytes))]
OutwardTypes ==
  /\ answers \in [Sockets -> Seq(Seq(Token))] /\ rest \in [Sockets -> Seq(Token)]
  /\ qSend \in [Sockets -> Seq(Seq(Token))]
  /\ flying \in [Sockets -> Seq(Token)] /\ wire \in [Sockets -> Seq(Token)]

LEMMA DataAre == DataTypes <=> InwardTypes /\ OutwardTypes
  BY DEF DataTypes, InwardTypes, OutwardTypes

Framed(s) == Open(received[s], recvBuffer[s]) /\ Split(received[s], requests[s])

(* What ReceiveRequest does with the bytes.                                *)
LEMMA RequestIs ==
  ASSUME InwardTypes, NEW s \in Sockets, Framed(s), ReceiveRequest(s)
  PROVE  \E i \in 1 .. Len(rawBuffer[s]), p \in Seq(Bytes), new \in Seq(Seq(Bytes)) :
           /\ requests'  = [requests EXCEPT ![s] = new]
           /\ received'  = [received EXCEPT ![s] = p]
           /\ rawBuffer' = [rawBuffer EXCEPT ![s] = SubSeq(rawBuffer[s], i + 1, Len(rawBuffer[s]))]
           /\ recvBuffer' = [recvBuffer EXCEPT ![s] = <<>>]
           /\ Len(new) = Len(requests[s]) + 1
           /\ Open(p, <<>>) /\ Split(p, new)
<1>1. /\ received[s] \in Seq(Bytes) /\ rawBuffer[s] \in Seq(Bytes)
      /\ requests[s] \in Seq(Seq(Bytes))
      /\ Open(received[s], recvBuffer[s]) /\ Split(received[s], requests[s])
  BY DEF InwardTypes, Framed
<1>2. PICK i, all, r, p, new :
        Takes(received[s], rawBuffer[s], recvBuffer[s], requests[s], i, all, r, p, new)
  BY DEF ReceiveRequest, Takes
<1>3. /\ i \in 1 .. Len(rawBuffer[s]) /\ p \in Seq(Bytes) /\ new \in Seq(Seq(Bytes))
      /\ Len(new) = Len(requests[s]) + 1
      /\ Open(p, <<>>) /\ Split(p, new)
  BY <1>1, <1>2, TakesRequest
<1>4. /\ requests'  = [requests EXCEPT ![s] = new]
      /\ received'  = [received EXCEPT ![s] = p]
      /\ rawBuffer' = [rawBuffer EXCEPT ![s] = SubSeq(rawBuffer[s], i + 1, Len(rawBuffer[s]))]
      /\ recvBuffer' = [recvBuffer EXCEPT ![s] = <<>>]
  BY <1>2 DEF ReceiveRequest, Takes
<1> QED BY <1>3, <1>4

LEMMA InwardNext ==
  ASSUME InwardTypes, \A s \in Sockets : Framed(s), [Next]_vars
  PROVE  InwardTypes' /\ \A s \in Sockets : Framed(s)'
<1> USE DEF vars, life, inward, answer, outward
<1> DEFINE Goal == InwardTypes' /\ \A s \in Sockets : Framed(s)'
<1>1. ASSUME UNCHANGED inward PROVE Goal
  BY <1>1 DEF InwardTypes, Framed
<1>2. ASSUME NEW s \in Sockets, doRecv(s) PROVE Goal
  <2>1. PICK n \in 1 .. Len(input[s]) :
          /\ rawBuffer' = [rawBuffer EXCEPT ![s] = SubSeq(input[s], 1, n)]
          /\ input' = [input EXCEPT ![s] = SubSeq(input[s], n + 1, Len(input[s]))]
          /\ UNCHANGED <<recvBuffer, received, requests>>
    BY <1>2 DEF doRecv
  <2>2. input[s] \in Seq(Bytes) /\ n \in Nat /\ n <= Len(input[s])
    BY DEF InwardTypes
  <2>3. SubSeq(input[s], 1, n) \in Seq(Bytes)
    <3>1. \A i \in 1 .. n : input[s][i] \in Bytes
      BY <2>2
    <3>2. 1 \in Int /\ n \in Int
      BY <2>2
    <3> QED BY <3>1, <3>2, SubSeqProperties
  <2>4. SubSeq(input[s], n + 1, Len(input[s])) \in Seq(Bytes)
    BY <2>2, TailIs
  <2>5. InwardTypes'
    BY <2>1, <2>3, <2>4 DEF InwardTypes
  <2> QED BY <2>1, <2>5 DEF Framed
<1>3. ASSUME NEW s \in Sockets, ReceiveRequest(s) PROVE Goal
  <2>1. PICK i \in 1 .. Len(rawBuffer[s]), p \in Seq(Bytes), new \in Seq(Seq(Bytes)) :
           /\ requests'  = [requests EXCEPT ![s] = new]
           /\ received'  = [received EXCEPT ![s] = p]
           /\ rawBuffer' = [rawBuffer EXCEPT ![s] = SubSeq(rawBuffer[s], i + 1, Len(rawBuffer[s]))]
           /\ recvBuffer' = [recvBuffer EXCEPT ![s] = <<>>]
           /\ Len(new) = Len(requests[s]) + 1
           /\ Open(p, <<>>) /\ Split(p, new)
    BY <1>3, RequestIs
  <2>2. input' = input
    BY <1>3 DEF ReceiveRequest
  <2>3. SubSeq(rawBuffer[s], i + 1, Len(rawBuffer[s])) \in Seq(Bytes)
    <3>1. rawBuffer[s] \in Seq(Bytes) /\ i \in Nat
      BY DEF InwardTypes
    <3> QED BY <3>1, TailIs
  <2>4. <<>> \in Seq(Bytes)
    OBVIOUS
  <2>5. InwardTypes'
    BY <2>1, <2>2, <2>3, <2>4 DEF InwardTypes
  <2>6. received'[s] = p /\ requests'[s] = new /\ recvBuffer'[s] = <<>>
    BY <2>1 DEF InwardTypes
  <2>7. \A t \in Sockets : t # s => /\ received'[t] = received[t] /\ requests'[t] = requests[t]
                                  /\ recvBuffer'[t] = recvBuffer[t]
    BY <2>1 DEF InwardTypes
  <2>8. Framed(s)'
    BY <2>1, <2>6 DEF Framed
  <2>9. \A t \in Sockets : t # s => Framed(t)'
    BY <2>7 DEF Framed
  <2> QED BY <2>5, <2>8, <2>9
<1>4. ASSUME NEW s \in Sockets, ReceiveRest(s) PROVE Goal
  <2>1. PICK p, all : TakesAll(received[s], rawBuffer[s], recvBuffer[s], p, all)
    BY DEF TakesAll
  <2>2. /\ Ends(recvBuffer[s], rawBuffer[s]) = {}
        /\ recvBuffer' = [recvBuffer EXCEPT ![s] = all]
        /\ received'   = [received EXCEPT ![s] = p]
        /\ rawBuffer'  = [rawBuffer EXCEPT ![s] = <<>>]
        /\ UNCHANGED <<input, requests>>
    BY <1>4, <2>1 DEF ReceiveRest, TakesAll
  <2>3. /\ received[s] \in Seq(Bytes) /\ rawBuffer[s] \in Seq(Bytes)
        /\ Open(received[s], recvBuffer[s]) /\ Split(received[s], requests[s])
    BY DEF InwardTypes, Framed
  <2>4. p \in Seq(Bytes) /\ all \in Seq(Bytes) /\ Open(p, all) /\ Split(p, requests[s])
    BY <2>1, <2>2, <2>3, TakesRest
  <2>5. <<>> \in Seq(Bytes)
    OBVIOUS
  <2>6. InwardTypes'
    BY <2>2, <2>4, <2>5 DEF InwardTypes
  <2>7. received'[s] = p /\ requests'[s] = requests[s] /\ recvBuffer'[s] = all
    BY <2>2 DEF InwardTypes
  <2>8. \A t \in Sockets : t # s => /\ received'[t] = received[t] /\ requests'[t] = requests[t]
                                  /\ recvBuffer'[t] = recvBuffer[t]
    BY <2>2 DEF InwardTypes
  <2>9. Framed(s)'
    BY <2>4, <2>7 DEF Framed
  <2>10. \A t \in Sockets : t # s => Framed(t)'
    BY <2>8 DEF Framed
  <2> QED BY <2>6, <2>9, <2>10
<1>5. ASSUME NEW s \in Sockets,
             \/ doAccept(s) \/ doAcceptError(s) \/ doRecvError(s) \/ doSend(s) \/ doSendError(s)
             \/ EndRecv(s) \/ postToSendQueue(s) \/ StartSend(s) \/ NextBlock(s)
             \/ AfterAnswer(s) \/ EndSend(s)
      PROVE  UNCHANGED inward
  BY <1>5 DEF doAccept, doAcceptError, doRecvError, doSend, doSendError, EndRecv,
              postToSendQueue, StartSend, NextBlock, AfterAnswer, EndSend
<1>6. ASSUME stopServer \/ UNCHANGED vars PROVE UNCHANGED inward
  BY <1>6 DEF stopServer, LockSocks, StopService, DeleteSockets, MarkSocket
<1> QED BY <1>1, <1>2, <1>3, <1>4, <1>5, <1>6 DEF Next, Handlers

LEMMA OutwardNext ==
  ASSUME NetAssumption, InwardTypes, OutwardTypes, \A s \in Sockets : Queued(s), [Next]_vars
  PROVE  OutwardTypes'
<1> USE DEF vars, life, inward, answer, outward
<1>0. BufferSize \in Nat
  BY DEF NetAssumption
<1>1. ASSUME UNCHANGED <<answers, rest, qSend, flying, wire>> PROVE OutwardTypes'
  BY <1>1 DEF OutwardTypes
<1>2. ASSUME NEW s \in Sockets, ReceiveRequest(s) PROVE OutwardTypes'
  <2>a. PICK k : k = Len(requests[s]) + 1
    OBVIOUS
  <2>1. PICK len \in Lengths :
          /\ \/ UNCHANGED <<rest, answers>>
             \/ /\ rest' = [rest EXCEPT ![s] = [j \in 1 .. len |-> <<k, j>>]]
                /\ answers' = [answers EXCEPT ![s] = Append(answers[s], [j \in 1 .. len |-> <<k, j>>])]
          /\ UNCHANGED <<qSend, flying, wire>>
    BY <1>2, <2>a DEF ReceiveRequest
  <2>b. len \in Nat
    BY Zenon, <2>1, NetAssumption DEF NetAssumption
  <2>c. requests[s] \in Seq(Seq(Bytes))
    BY DEF InwardTypes
  <2>2. k \in Nat /\ len \in Nat
    BY <2>a, <2>b, <2>c
  <2>3. [j \in 1 .. len |-> <<k, j>>] \in Seq(Token)
    <3>1. \A j \in 1 .. len : <<k, j>> \in Token
      BY <2>2 DEF Token
    <3> QED BY <2>2, <3>1
  <2>4. Append(answers[s], [j \in 1 .. len |-> <<k, j>>]) \in Seq(Seq(Token))
    <3>1. answers[s] \in Seq(Seq(Token))
      BY DEF OutwardTypes
    <3> QED BY <2>3, <3>1, AppendProperties
  <2> QED BY <2>1, <2>3, <2>4 DEF OutwardTypes
<1>3. ASSUME NEW s \in Sockets, postToSendQueue(s) PROVE OutwardTypes'
  <2>1. /\ qSend' = [qSend EXCEPT ![s] = Append(qSend[s], rest[s])]
        /\ UNCHANGED <<answers, rest, flying, wire>>
    BY <1>3 DEF postToSendQueue
  <2>2. Append(qSend[s], rest[s]) \in Seq(Seq(Token))
    <3>1. qSend[s] \in Seq(Seq(Token)) /\ rest[s] \in Seq(Token)
      BY DEF OutwardTypes
    <3> QED BY <3>1, AppendProperties
  <2> QED BY <2>1, <2>2 DEF OutwardTypes
<1>4. ASSUME NEW s \in Sockets, StartSend(s) PROVE OutwardTypes'
  <2>1. /\ flying' = [flying EXCEPT ![s] = AtMost(BufferSize, qSend[s][1])]
        /\ UNCHANGED <<answers, rest, qSend, wire>> /\ qSend[s] # <<>>
    BY <1>4 DEF StartSend, Queued
  <2>2. AtMost(BufferSize, qSend[s][1]) \in Seq(Token)
    <3>1. qSend[s][1] \in Seq(Token)
      BY <2>1 DEF OutwardTypes
    <3> QED BY <1>0, <3>1, AtMostIs
  <2> QED BY <2>1, <2>2 DEF OutwardTypes
<1>5. ASSUME NEW s \in Sockets, NextBlock(s) PROVE OutwardTypes'
  <2>1. /\ rest' = [rest EXCEPT ![s] = SubSeq(rest[s], BufferSize + 1, Len(rest[s]))]
        /\ UNCHANGED <<answers, qSend, flying, wire>>
    BY <1>5 DEF NextBlock
  <2>2. SubSeq(rest[s], BufferSize + 1, Len(rest[s])) \in Seq(Token)
    <3>1. rest[s] \in Seq(Token)
      BY DEF OutwardTypes
    <3> QED BY <1>0, <3>1, TailIs
  <2> QED BY <2>1, <2>2 DEF OutwardTypes
<1>6. ASSUME NEW s \in Sockets, doSend(s) PROVE OutwardTypes'
  <2>1. PICK q : q = SubSeq(qSend[s], 2, Len(qSend[s]))
    OBVIOUS
  <2>2. /\ \/ wire' = [wire EXCEPT ![s] = wire[s] \o flying[s]]
           \/ /\ Len(flying[s]) > 1
              /\ wire' = [wire EXCEPT ![s] = Append(wire[s], flying[s][1])]
        /\ qSend' = [qSend EXCEPT ![s] = q]
        /\ \/ q # <<>> /\ flying' = [flying EXCEPT ![s] = q[1]]
           \/ flying' = [flying EXCEPT ![s] = <<>>]
        /\ UNCHANGED <<answers, rest>>
    BY <1>6, <2>1 DEF doSend
  <2>3. /\ qSend[s] \in Seq(Seq(Token)) /\ wire[s] \in Seq(Token) /\ flying[s] \in Seq(Token)
    BY DEF OutwardTypes
  <2>4. q \in Seq(Seq(Token))
    <3>1. 1 \in Nat /\ 1 + 1 = 2
      OBVIOUS
    <3>2. SubSeq(qSend[s], 1 + 1, Len(qSend[s])) \in Seq(Seq(Token))
      BY <2>3, <3>1, TailIs
    <3> QED BY <2>1, <3>1, <3>2
  <2>5. q # <<>> => q[1] \in Seq(Token)
    BY <2>4
  <2>6. wire' \in [Sockets -> Seq(Token)]
    <3>1. wire[s] \o flying[s] \in Seq(Token)
      BY <2>3, ConcatIs
    <3>2. Len(flying[s]) > 1 => Append(wire[s], flying[s][1]) \in Seq(Token)
      <4>1. ASSUME Len(flying[s]) > 1 PROVE flying[s][1] \in Token
        BY <2>3, <4>1
      <4> QED BY <2>3, <4>1, AppendProperties
    <3> QED BY <2>2, <3>1, <3>2 DEF OutwardTypes
  <2>7. flying' \in [Sockets -> Seq(Token)]
    <3>1. <<>> \in Seq(Token)
      OBVIOUS
    <3> QED BY <2>2, <2>5, <3>1 DEF OutwardTypes
  <2> QED BY <2>2, <2>4, <2>6, <2>7 DEF OutwardTypes
<1>7. ASSUME NEW s \in Sockets, doSendError(s) PROVE OutwardTypes'
  <2>1. /\ flying' = [flying EXCEPT ![s] = <<>>] /\ <<>> \in Seq(Token)
        /\ UNCHANGED <<answers, rest, qSend, wire>>
    BY <1>7 DEF doSendError
  <2> QED BY <2>1 DEF OutwardTypes
<1>8. ASSUME NEW s \in Sockets,
             \/ doAccept(s) \/ doAcceptError(s) \/ doRecvError(s) \/ doRecv(s) \/ ReceiveRest(s)
             \/ EndRecv(s) \/ AfterAnswer(s) \/ EndSend(s)
      PROVE  UNCHANGED <<answers, rest, qSend, flying, wire>>
  BY <1>8 DEF doAccept, doAcceptError, doRecvError, doRecv, ReceiveRest, EndRecv,
              AfterAnswer, EndSend
<1>9. ASSUME stopServer \/ UNCHANGED vars PROVE UNCHANGED <<answers, rest, qSend, flying, wire>>
  BY <1>9 DEF stopServer, LockSocks, StopService, DeleteSockets, MarkSocket
<1> QED BY <1>1, <1>2, <1>3, <1>4, <1>5, <1>6, <1>7, <1>8, <1>9 DEF Next, Handlers

-----------------------------------------------------------------------------
(* Answers on their way *)

LEMMA ReachIs ==
  ASSUME NEW w, NEW bl, NEW b
  PROVE  b \in Reach(w, bl) <=> \/ \E i \in DOMAIN w : w[i] = b
                                \/ \E m \in DOMAIN bl : \E i \in DOMAIN bl[m] : bl[m][i] = b
  BY DEF Reach, Elements

(* x, the start of r or the whole of it, comes behind the n blocks bl.     *)
Pushed(n, bl, r, x, bl2) ==
  /\ n \in Nat /\ DOMAIN bl = 1 .. n /\ DOMAIN bl2 = 1 .. n + 1
  /\ bl2[n + 1] = x /\ \A m \in 1 .. n : bl2[m] = bl[m]
  /\ DOMAIN x \subseteq DOMAIN r /\ \A i \in DOMAIN x : x[i] = r[i]
  /\ DOMAIN r \subseteq Nat
  /\ \A i \in DOMAIN x : \A j \in 1 .. i : j \in DOMAIN x
  /\ \A i \in DOMAIN r : i <= BufferSize => i \in DOMAIN x

LEMMA PushReach ==
  ASSUME NEW n, NEW w, NEW bl, NEW r, NEW x, NEW bl2, Pushed(n, bl, r, x, bl2)
  PROVE  \A b : b \in Reach(w, bl2) <=> b \in Reach(w, bl) \/ \E i \in DOMAIN x : x[i] = b
<1> PICK N \in Nat : N = n
  BY DEF Pushed
<1>1. /\ DOMAIN bl = 1 .. N /\ DOMAIN bl2 = 1 .. N + 1
      /\ bl2[N + 1] = x /\ \A m \in 1 .. N : bl2[m] = bl[m]
  BY DEF Pushed
<1>2. ASSUME NEW b
      PROVE  (\E m \in 1 .. N + 1 : \E i \in DOMAIN bl2[m] : bl2[m][i] = b)
               <=> (\E m \in 1 .. N : \E i \in DOMAIN bl[m] : bl[m][i] = b)
                     \/ \E i \in DOMAIN x : x[i] = b
  <2>1. \A m \in 1 .. N + 1 : m \in 1 .. N \/ m = N + 1
    OBVIOUS
  <2>2. \A m \in 1 .. N : m \in 1 .. N + 1
    OBVIOUS
  <2>3. N + 1 \in 1 .. N + 1
    OBVIOUS
  <2> QED BY <1>1, <2>1, <2>2, <2>3
<1> QED BY <1>1, <1>2, ReachIs

LEMMA PushFlow ==
  ASSUME NEW n, NEW w, NEW bl, NEW r, NEW x, NEW bl2, Pushed(n, bl, r, x, bl2),
         NEW all, Flow(w, bl, r, all)
  PROVE  Flow(w, bl2, r, all) /\ Resent(w, bl2, r)
<1> PICK N \in Nat : N = n
  BY DEF Pushed
<1>1. /\ DOMAIN bl = 1 .. N /\ DOMAIN bl2 = 1 .. N + 1
      /\ bl2[N + 1] = x /\ \A m \in 1 .. N : bl2[m] = bl[m]
      /\ DOMAIN x \subseteq DOMAIN r /\ \A i \in DOMAIN x : x[i] = r[i]
      /\ DOMAIN r \subseteq Nat
      /\ \A i \in DOMAIN x : \A j \in 1 .. i : j \in DOMAIN x
      /\ \A i \in DOMAIN r : i <= BufferSize => i \in DOMAIN x
  BY DEF Pushed
<1>2. \A b : b \in Reach(w, bl2) <=> b \in Reach(w, bl) \/ \E i \in DOMAIN x : x[i] = b
  BY PushReach
<1>3. all = Reach(w, bl) \union Elements(r) /\ Ordered(w, bl, r, all)
  BY DEF Flow
<1>4. all = Reach(w, bl2) \union Elements(r)
  BY <1>1, <1>2, <1>3 DEF Elements
<1>5. \A i \in DOMAIN w : \A b \in all : Precedes(b, w[i]) => \E j \in 1 .. i : w[j] = b
  BY <1>3 DEF Ordered
<1>6. ASSUME NEW m \in 1 .. N + 1, NEW i \in DOMAIN bl2[m], NEW b \in all, Precedes(b, bl2[m][i])
      PROVE  \/ b \in Elements(w)
             \/ \E l \in 1 .. N + 1 : \E j \in DOMAIN bl2[l] :
                  bl2[l][j] = b /\ (l < m \/ (l = m /\ j <= i))
  <2>1. CASE m \in 1 .. N
    <3>1. \/ b \in Elements(w)
          \/ \E l \in 1 .. N : \E j \in DOMAIN bl[l] : bl[l][j] = b /\ (l < m \/ (l = m /\ j <= i))
      BY <1>1, <1>3, <1>6, <2>1 DEF Ordered
    <3>2. CASE b \in Elements(w)
      BY <3>2
    <3>3. CASE \E l \in 1 .. N : \E j \in DOMAIN bl[l] : bl[l][j] = b /\ (l < m \/ (l = m /\ j <= i))
      <4>1. PICK l \in 1 .. N : \E j \in DOMAIN bl[l] : bl[l][j] = b /\ (l < m \/ (l = m /\ j <= i))
        BY <3>3
      <4>2. l \in 1 .. N + 1 /\ bl2[l] = bl[l]
        BY <1>1
      <4> QED BY <4>1, <4>2
    <3> QED BY <3>1, <3>2, <3>3
  <2>2. CASE m = N + 1
    <3>1. i \in DOMAIN x /\ Precedes(b, r[i])
      BY <1>1, <1>6, <2>2
    <3>2. b \in Reach(w, bl) \/ \E j \in 1 .. i : r[j] = b
      BY <1>1, <1>3, <3>1 DEF Ordered
    <3>3. CASE \E j \in 1 .. i : r[j] = b
      <4>1. PICK j \in 1 .. i : r[j] = b
        BY <3>3
      <4>2. j \in DOMAIN bl2[N + 1] /\ bl2[N + 1][j] = b /\ N + 1 \in 1 .. N + 1 /\ j <= i
        BY <1>1, <3>1, <4>1
      <4> QED BY <2>2, <4>2
    <3>4. CASE \E j \in DOMAIN w : w[j] = b
      BY <3>4 DEF Elements
    <3>5. CASE \E l \in DOMAIN bl : \E j \in DOMAIN bl[l] : bl[l][j] = b
      <4>1. PICK l \in 1 .. N : \E j \in DOMAIN bl[l] : bl[l][j] = b
        BY <1>1, <3>5
      <4>2. l \in 1 .. N + 1 /\ l < m /\ bl2[l] = bl[l]
        BY <1>1, <2>2
      <4> QED BY <4>1, <4>2
    <3> QED BY <3>2, <3>3, <3>4, <3>5, ReachIs
  <2> QED BY <2>1, <2>2
<1>7. ASSUME NEW i \in DOMAIN r, NEW b \in all, Precedes(b, r[i])
      PROVE  b \in Reach(w, bl2) \/ \E j \in 1 .. i : r[j] = b
  BY <1>2, <1>3, <1>7 DEF Ordered
<1>8. Ordered(w, bl2, r, all)
  BY <1>1, <1>5, <1>6, <1>7 DEF Ordered
<1>9. Resent(w, bl2, r)
  BY <1>1, <1>2 DEF Resent
<1> QED BY <1>4, <1>8, <1>9 DEF Flow

LEMMA PushSingle ==
  ASSUME NEW n, NEW w, NEW bl, NEW r, NEW x, NEW bl2, Pushed(n, bl, r, x, bl2),
         Single(w, bl, r), Fresh(w, bl, r)
  PROVE  Single(w, bl2, r)
<1> PICK N \in Nat : N = n
  BY DEF Pushed
<1>1. /\ DOMAIN bl = 1 .. N /\ DOMAIN bl2 = 1 .. N + 1
      /\ bl2[N + 1] = x /\ \A m \in 1 .. N : bl2[m] = bl[m]
      /\ DOMAIN x \subseteq DOMAIN r /\ \A i \in DOMAIN x : x[i] = r[i]
  BY DEF Pushed
<1>2. Once(w, bl) /\ Len(r) <= BufferSize /\ \A i, j \in DOMAIN r : r[i] = r[j] => i = j
  BY DEF Single
<1>3. /\ \A i \in DOMAIN x : \A j \in DOMAIN w : x[i] # w[j]
      /\ \A i \in DOMAIN x : \A l \in 1 .. N : \A j \in DOMAIN bl[l] : x[i] # bl[l][j]
      /\ \A i, j \in DOMAIN x : x[i] = x[j] => i = j
  BY <1>1, <1>2, ReachIs DEF Fresh
<1>4. /\ \A i, j \in DOMAIN w : w[i] = w[j] => i = j
      /\ \A m \in 1 .. N : \A i \in DOMAIN bl[m] : bl[m][i] \notin Elements(w)
      /\ \A m, l \in 1 .. N : \A i \in DOMAIN bl[m], j \in DOMAIN bl[l] :
           bl[m][i] = bl[l][j] => m = l /\ i = j
  BY <1>1, <1>2 DEF Once
<1>5. ASSUME NEW m \in 1 .. N + 1 PROVE (m \in 1 .. N /\ bl2[m] = bl[m]) \/ (m = N + 1 /\ bl2[m] = x)
  BY <1>1
<1>6. ASSUME NEW m \in 1 .. N + 1, NEW i \in DOMAIN bl2[m]
      PROVE  bl2[m][i] \notin Elements(w)
  <2>1. \A y \in Elements(w) : \E j \in DOMAIN w : w[j] = y
    BY DEF Elements
  <2> QED BY <1>3, <1>4, <1>5, <2>1
<1>7. ASSUME NEW m \in 1 .. N + 1, NEW l \in 1 .. N + 1,
             NEW i \in DOMAIN bl2[m], NEW j \in DOMAIN bl2[l], bl2[m][i] = bl2[l][j]
      PROVE  m = l /\ i = j
  <2>1. CASE m \in 1 .. N /\ bl2[m] = bl[m]
    BY <1>3, <1>4, <1>5, <1>7, <2>1
  <2>2. CASE m = N + 1 /\ bl2[m] = x
    BY <1>3, <1>4, <1>5, <1>7, <2>2
  <2> QED BY <1>5, <2>1, <2>2
<1>8. Once(w, bl2)
  BY <1>1, <1>4, <1>6, <1>7 DEF Once
<1> QED BY <1>2, <1>8 DEF Single

(* The first of the n + 1 blocks, x, goes to the end of the wire.          *)
Shifted(n, a, k, w, x, bl, w2, bl2) ==
  /\ DOMAIN w = 1 .. a /\ DOMAIN x = 1 .. k /\ DOMAIN w2 = 1 .. a + k
  /\ DOMAIN bl = 1 .. n + 1 /\ DOMAIN bl2 = 1 .. n
  /\ bl[1] = x /\ \A m \in 1 .. n : bl2[m] = bl[m + 1]
  /\ \A i \in 1 .. a : w2[i] = w[i]
  /\ \A i \in 1 .. k : w2[a + i] = x[i]

LEMMA ShiftReach ==
  ASSUME NEW n \in Nat, NEW a \in Nat, NEW k \in Nat, NEW w, NEW x, NEW bl, NEW w2, NEW bl2,
         Shifted(n, a, k, w, x, bl, w2, bl2)
  PROVE  /\ \A b : b \in Reach(w2, bl2) <=> b \in Reach(w, bl)
         /\ \A b : b \in Elements(w2) <=> b \in Elements(w) \/ \E i \in 1 .. k : x[i] = b
<1>1. /\ DOMAIN w = 1 .. a /\ DOMAIN x = 1 .. k /\ DOMAIN w2 = 1 .. a + k
      /\ DOMAIN bl = 1 .. n + 1 /\ DOMAIN bl2 = 1 .. n
      /\ bl[1] = x /\ \A m \in 1 .. n : bl2[m] = bl[m + 1]
      /\ \A i \in 1 .. a : w2[i] = w[i]
      /\ \A i \in 1 .. k : w2[a + i] = x[i]
  BY DEF Shifted
<1>2. ASSUME NEW b
      PROVE  (\E i \in 1 .. a + k : w2[i] = b) <=> (\E i \in 1 .. a : w[i] = b) \/ \E i \in 1 .. k : x[i] = b
  <2>1. ASSUME NEW i \in 1 .. a + k, w2[i] = b
        PROVE  (\E j \in 1 .. a : w[j] = b) \/ \E j \in 1 .. k : x[j] = b
    <3>1. CASE i <= a
      <4>1. i \in 1 .. a
        BY <3>1
      <4> QED BY <1>1, <2>1, <4>1
    <3>2. CASE ~(i <= a)
      <4>1. PICK j \in 1 .. k : i = a + j
        <5>1. i - a \in 1 .. k /\ i = a + (i - a)
          BY <3>2
        <5> QED BY <5>1
      <4>2. x[j] = b
        BY <1>1, <2>1, <4>1
      <4> QED BY <4>2
    <3> QED BY <3>1, <3>2
  <2>2. ASSUME NEW j \in 1 .. a, w[j] = b PROVE j \in 1 .. a + k /\ w2[j] = b
    BY <1>1, <2>2
  <2>3. ASSUME NEW j \in 1 .. k, x[j] = b PROVE a + j \in 1 .. a + k /\ w2[a + j] = b
    BY <1>1, <2>3
  <2> QED BY <2>1, <2>2, <2>3
<1> DEFINE In(y, b) == \E i \in DOMAIN y : y[i] = b
<1>3. ASSUME NEW b
      PROVE  (\E m \in 1 .. n + 1 : In(bl[m], b)) <=> (\E m \in 1 .. n : In(bl2[m], b)) \/ In(x, b)
  <2> HIDE DEF In
  <2>1. ASSUME NEW m \in 1 .. n + 1, In(bl[m], b)
        PROVE  (\E l \in 1 .. n : In(bl2[l], b)) \/ In(x, b)
    <3>1. CASE m = 1
      BY <1>1, <2>1, <3>1
    <3>2. CASE m # 1
      <4>1. PICK l \in 1 .. n : m = l + 1
        <5>1. m - 1 \in 1 .. n /\ m = (m - 1) + 1
          BY <3>2
        <5> QED BY <5>1
      <4>2. bl2[l] = bl[m]
        BY <1>1, <4>1
      <4> QED BY <2>1, <4>2
    <3> QED BY <3>1, <3>2
  <2>2. ASSUME NEW m \in 1 .. n, In(bl2[m], b)
        PROVE  m + 1 \in 1 .. n + 1 /\ In(bl[m + 1], b)
    BY <1>1, <2>2
  <2>3. ASSUME In(x, b)
        PROVE  1 \in 1 .. n + 1 /\ In(bl[1], b)
    BY <1>1, <2>3
  <2> QED BY <2>1, <2>2, <2>3
<1>4. ASSUME NEW b PROVE b \in Reach(w2, bl2) <=> b \in Reach(w, bl)
  <2>1. b \in Reach(w2, bl2) <=> (\E i \in 1 .. a + k : w2[i] = b) \/ \E m \in 1 .. n : In(bl2[m], b)
    BY SMTT(30), <1>1, ReachIs
  <2>2. b \in Reach(w, bl) <=> (\E i \in 1 .. a : w[i] = b) \/ \E m \in 1 .. n + 1 : In(bl[m], b)
    BY <1>1, ReachIs
  <2>3. In(x, b) <=> \E i \in 1 .. k : x[i] = b
    BY <1>1
  <2> HIDE DEF In
  <2> QED BY <1>2, <1>3, <2>1, <2>2, <2>3
<1>5. ASSUME NEW b PROVE b \in Elements(w2) <=> b \in Elements(w) \/ \E i \in 1 .. k : x[i] = b
  <2>1. b \in Elements(w2) <=> \E i \in 1 .. a + k : w2[i] = b
    BY <1>1 DEF Elements
  <2>2. b \in Elements(w) <=> \E i \in 1 .. a : w[i] = b
    BY <1>1 DEF Elements
  <2> QED BY <1>2, <2>1, <2>2
<1> QED BY <1>4, <1>5

LEMMA ShiftFlow ==
  ASSUME NEW n \in Nat, NEW a \in Nat, NEW k \in Nat, NEW w, NEW x, NEW bl, NEW w2, NEW bl2,
         Shifted(n, a, k, w, x, bl, w2, bl2), NEW r, NEW all, Flow(w, bl, r, all)
  PROVE  Flow(w2, bl2, r, all)
<1>1. /\ DOMAIN w = 1 .. a /\ DOMAIN x = 1 .. k /\ DOMAIN w2 = 1 .. a + k
      /\ DOMAIN bl = 1 .. n + 1 /\ DOMAIN bl2 = 1 .. n
      /\ bl[1] = x /\ \A m \in 1 .. n : bl2[m] = bl[m + 1]
      /\ \A i \in 1 .. a : w2[i] = w[i]
      /\ \A i \in 1 .. k : w2[a + i] = x[i]
  BY DEF Shifted
<1>2. /\ \A b : b \in Reach(w2, bl2) <=> b \in Reach(w, bl)
      /\ \A b : b \in Elements(w2) <=> b \in Elements(w) \/ \E i \in 1 .. k : x[i] = b
  BY ShiftReach
<1>3. all = Reach(w, bl) \union Elements(r) /\ Ordered(w, bl, r, all)
  BY DEF Flow
<1>4. all = Reach(w2, bl2) \union Elements(r)
  BY <1>2, <1>3
<1>5. /\ \A i \in 1 .. a : \A b \in all : Precedes(b, w[i]) => \E j \in 1 .. i : w[j] = b
      /\ \A m \in 1 .. n + 1 : \A i \in DOMAIN bl[m] : \A b \in all :
           Precedes(b, bl[m][i]) =>
             \/ b \in Elements(w)
             \/ \E l \in 1 .. n + 1 : \E j \in DOMAIN bl[l] :
                  bl[l][j] = b /\ (l < m \/ (l = m /\ j <= i))
      /\ \A i \in DOMAIN r : \A b \in all :
           Precedes(b, r[i]) => b \in Reach(w, bl) \/ \E j \in 1 .. i : r[j] = b
  BY <1>1, <1>3 DEF Ordered
<1>6. ASSUME NEW i \in 1 .. a + k, NEW b \in all, Precedes(b, w2[i])
      PROVE  \E j \in 1 .. i : w2[j] = b
  <2>1. CASE i <= a
    <3>1. i \in 1 .. a /\ Precedes(b, w[i])
      BY <1>1, <1>6, <2>1
    <3>2. PICK j \in 1 .. i : w[j] = b
      BY <1>5, <3>1
    <3>3. j \in 1 .. a
      BY <2>1
    <3> QED BY <1>1, <3>2, <3>3
  <2>2. CASE ~(i <= a)
    <3>1. PICK c \in 1 .. k : i = a + c
      <4>1. i - a \in 1 .. k /\ i = a + (i - a)
        BY <2>2
      <4> QED BY <4>1
    <3>2. 1 \in 1 .. n + 1 /\ c \in DOMAIN bl[1] /\ Precedes(b, bl[1][c])
      <4>1. w2[i] = x[c]
        BY <1>1, <3>1
      <4> QED BY <1>1, <1>6, <4>1
    <3>3. b \in Elements(w) \/ \E j \in DOMAIN x : x[j] = b /\ j <= c
      <4>1. \/ b \in Elements(w)
            \/ \E l \in 1 .. n + 1 : \E j \in DOMAIN bl[l] :
                  bl[l][j] = b /\ (l < 1 \/ (l = 1 /\ j <= c))
        BY <1>5, <3>2
      <4> QED BY <1>1, <4>1
    <3>4. CASE b \in Elements(w)
      <4>1. PICK j \in 1 .. a : w[j] = b
        BY <1>1, <3>4 DEF Elements
      <4>2. j \in 1 .. i /\ w2[j] = b
        BY <1>1, <2>2, <4>1
      <4> QED BY <4>2
    <3>5. CASE \E j \in DOMAIN x : x[j] = b /\ j <= c
      <4>1. PICK j \in 1 .. k : x[j] = b /\ j <= c
        BY <1>1, <3>5
      <4>2. a + j \in 1 .. i
        BY <3>1, <4>1
      <4>3. w2[a + j] = b
        BY <1>1, <4>1
      <4> QED BY <4>2, <4>3
    <3> QED BY <3>3, <3>4, <3>5
  <2> QED BY <2>1, <2>2
<1>7. ASSUME NEW m \in 1 .. n, NEW i \in DOMAIN bl2[m], NEW b \in all, Precedes(b, bl2[m][i])
      PROVE  \/ b \in Elements(w2)
             \/ \E l \in 1 .. n : \E j \in DOMAIN bl2[l] :
                  bl2[l][j] = b /\ (l < m \/ (l = m /\ j <= i))
  <2>1. PICK c \in 1 .. n + 1 : c = m + 1
    OBVIOUS
  <2>2. bl[c] = bl2[m]
    BY <1>1, <2>1
  <2>3. \/ b \in Elements(w)
        \/ \E l \in 1 .. n + 1 : \E j \in DOMAIN bl[l] :
             bl[l][j] = b /\ (l < c \/ (l = c /\ j <= i))
    BY <1>5, <1>7, <2>2
  <2>4. CASE b \in Elements(w)
    BY <1>2, <2>4
  <2>5. CASE \E l \in 1 .. n + 1 : \E j \in DOMAIN bl[l] :
               bl[l][j] = b /\ (l < c \/ (l = c /\ j <= i))
    <3>1. PICK l \in 1 .. n + 1 : \E j \in DOMAIN bl[l] :
               bl[l][j] = b /\ (l < c \/ (l = c /\ j <= i))
      BY <2>5
    <3>2. CASE l = 1
      BY <1>1, <1>2, <3>1, <3>2
    <3>3. CASE l # 1
      <4>1. PICK d \in 1 .. n : l = d + 1
        <5>1. l - 1 \in 1 .. n /\ l = (l - 1) + 1
          BY <3>3
        <5> QED BY <5>1
      <4>2. bl2[d] = bl[l]
        BY <1>1, <4>1
      <4>3. (l < c <=> d < m) /\ (l = c <=> d = m)
        BY <2>1, <4>1
      <4>4. PICK j \in DOMAIN bl2[d] : bl2[d][j] = b /\ (d < m \/ (d = m /\ j <= i))
        BY <3>1, <4>2, <4>3
      <4> QED BY <4>4
    <3> QED BY <3>2, <3>3
  <2> QED BY <2>3, <2>4, <2>5
<1>8. Ordered(w2, bl2, r, all)
  <2>1. \A i \in DOMAIN r : \A b \in all :
           Precedes(b, r[i]) => b \in Reach(w2, bl2) \/ \E j \in 1 .. i : r[j] = b
    BY <1>2, <1>5
  <2> QED BY <1>1, <1>6, <1>7, <2>1 DEF Ordered
<1> QED BY <1>4, <1>8 DEF Flow

LEMMA ShiftSingle ==
  ASSUME NEW n \in Nat, NEW a \in Nat, NEW k \in Nat, NEW w, NEW x, NEW bl, NEW w2, NEW bl2,
         Shifted(n, a, k, w, x, bl, w2, bl2), NEW r
  PROVE  /\ Resent(w, bl, r) => Resent(w2, bl2, r)
         /\ Fresh(w, bl, r) => Fresh(w2, bl2, r)
         /\ Single(w, bl, r) => Single(w2, bl2, r)
<1>1. /\ DOMAIN w = 1 .. a /\ DOMAIN x = 1 .. k /\ DOMAIN w2 = 1 .. a + k
      /\ DOMAIN bl = 1 .. n + 1 /\ DOMAIN bl2 = 1 .. n
      /\ bl[1] = x /\ \A m \in 1 .. n : bl2[m] = bl[m + 1]
      /\ \A i \in 1 .. a : w2[i] = w[i]
      /\ \A i \in 1 .. k : w2[a + i] = x[i]
  BY DEF Shifted
<1>2. /\ \A b : b \in Reach(w2, bl2) <=> b \in Reach(w, bl)
      /\ \A b : b \in Elements(w2) <=> b \in Elements(w) \/ \E i \in 1 .. k : x[i] = b
  BY ShiftReach
<1>3. (Resent(w, bl, r) => Resent(w2, bl2, r)) /\ (Fresh(w, bl, r) => Fresh(w2, bl2, r))
  BY <1>2 DEF Resent, Fresh
<1>4. ASSUME Single(w, bl, r) PROVE Single(w2, bl2, r)
  <2>1. Once(w, bl) /\ Len(r) <= BufferSize /\ \A i, j \in DOMAIN r : r[i] = r[j] => i = j
    BY <1>4 DEF Single
  <2>2. /\ \A i, j \in 1 .. a : w[i] = w[j] => i = j
        /\ \A m \in 1 .. n + 1 : \A i \in DOMAIN bl[m] : bl[m][i] \notin Elements(w)
        /\ \A m, l \in 1 .. n + 1 : \A i \in DOMAIN bl[m], j \in DOMAIN bl[l] :
             bl[m][i] = bl[l][j] => m = l /\ i = j
    BY <1>1, <2>1 DEF Once
  <2>3. 1 \in 1 .. n + 1 /\ \A m \in 1 .. n : m + 1 \in 1 .. n + 1 /\ m + 1 # 1
    OBVIOUS
  <2>4. /\ \A i \in 1 .. k : \A j \in 1 .. a : x[i] # w[j]
        /\ \A i, j \in 1 .. k : x[i] = x[j] => i = j
    <3>1. \A j \in 1 .. a : w[j] \in Elements(w)
      BY <1>1 DEF Elements
    <3>2. /\ \A i \in 1 .. k : x[i] \notin Elements(w)
          /\ \A i, j \in 1 .. k : x[i] = x[j] => i = j
      <4>1. /\ \A i \in DOMAIN bl[1] : bl[1][i] \notin Elements(w)
            /\ \A i \in DOMAIN bl[1], j \in DOMAIN bl[1] : bl[1][i] = bl[1][j] => i = j
        BY <2>2, <2>3
      <4>2. DOMAIN bl[1] = 1 .. k
        BY <1>1
      <4> QED BY <1>1, <4>1, <4>2
    <3>3. \A i \in 1 .. k : \A j \in 1 .. a : x[i] # w[j]
      BY <3>1, <3>2
    <3> QED BY <3>2, <3>3
  <2>5. \A i \in 1 .. a + k : i \in 1 .. a \/ \E j \in 1 .. k : i = a + j
    <3>1. \A i \in 1 .. a + k : i \notin 1 .. a => i - a \in 1 .. k /\ i = a + (i - a)
      OBVIOUS
    <3> QED BY <3>1
  <2>6. ASSUME NEW i \in 1 .. a + k, NEW j \in 1 .. a + k, w2[i] = w2[j] PROVE i = j
    <3>1. CASE i \in 1 .. a /\ j \in 1 .. a
      BY <1>1, <2>2, <2>6, <3>1
    <3>2. CASE i \in 1 .. a /\ j \notin 1 .. a
      <4>1. PICK d \in 1 .. k : j = a + d
        BY <2>5, <3>2
      <4>2. w2[j] = x[d]
        BY <1>1, <4>1
      <4> QED BY <1>1, <2>4, <2>6, <3>2, <4>2
    <3>3. CASE i \notin 1 .. a /\ j \in 1 .. a
      <4>1. PICK d \in 1 .. k : i = a + d
        BY <2>5, <3>3
      <4>2. w2[i] = x[d]
        BY <1>1, <4>1
      <4> QED BY ZenonT(40), <1>1, <2>4, <2>6, <3>3, <4>2
    <3>4. CASE i \notin 1 .. a /\ j \notin 1 .. a
      <4>1. PICK c \in 1 .. k : i = a + c
        BY <2>5, <3>4
      <4>2. PICK d \in 1 .. k : j = a + d
        BY <2>5, <3>4
      <4>3. w2[i] = x[c] /\ w2[j] = x[d]
        BY <1>1, <4>1, <4>2
      <4>4. c = d
        BY <2>4, <2>6, <4>3
      <4> QED BY <4>1, <4>2, <4>4
    <3> QED BY <3>1, <3>2, <3>3, <3>4
  <2>7. ASSUME NEW m \in 1 .. n, NEW i \in DOMAIN bl2[m] PROVE bl2[m][i] \notin Elements(w2)
    <3>1. PICK c \in 1 .. n + 1 : c = m + 1 /\ c # 1
      BY <2>3
    <3>2. bl2[m] = bl[c]
      BY <1>1, <3>1
    <3>3. bl[c][i] \notin Elements(w) /\ \A j \in 1 .. k : bl[c][i] # x[j]
      BY <1>1, <2>2, <2>3, <3>1, <3>2
    <3> QED BY <1>2, <3>2, <3>3
  <2>8. ASSUME NEW m \in 1 .. n, NEW l \in 1 .. n, NEW i \in DOMAIN bl2[m], NEW j \in DOMAIN bl2[l],
               bl2[m][i] = bl2[l][j]
        PROVE  m = l /\ i = j
    <3>1. PICK c \in 1 .. n + 1, d \in 1 .. n + 1 : c = m + 1 /\ d = l + 1
      BY <2>3
    <3>2. bl2[m] = bl[c] /\ bl2[l] = bl[d]
      BY <1>1, <3>1
    <3>3. c = d /\ i = j
      BY <2>2, <2>8, <3>2
    <3> QED BY <3>1, <3>3
  <2>9. Once(w2, bl2)
    BY <1>1, <2>6, <2>7, <2>8 DEF Once
  <2> QED BY <2>1, <2>9 DEF Single
<1> QED BY <1>3, <1>4

(* The block that has been queued is taken off the rest.                   *)
IsLeft(r, r2) == r2 = SubSeq(r, BufferSize + 1, Len(r))

LEMMA NextFlow ==
  ASSUME NetAssumption, NEW w, NEW bl, NEW r \in Seq(Token), NEW r2, NEW all, IsLeft(r, r2)
  PROVE  /\ Flow(w, bl, r, all) /\ Resent(w, bl, r) => Flow(w, bl, r2, all)
         /\ Single(w, bl, r) => Single(w, bl, r2) /\ r2 = <<>>
<1>0. BufferSize \in Nat
  BY DEF NetAssumption
<1>1. /\ r2 \in Seq(Token) /\ Len(r2) = IF BufferSize <= Len(r) THEN Len(r) - BufferSize ELSE 0
      /\ \A i \in 1 .. Len(r) - BufferSize : r2[i] = r[BufferSize + i]
  BY <1>0, TailIs DEF IsLeft
<1> PICK B \in Nat, n \in Nat : B = BufferSize /\ n = Len(r)
  BY <1>0
<1> PICK n2 \in Nat : n2 = Len(r2)
  BY <1>1
<1>2. /\ DOMAIN r = 1 .. n /\ DOMAIN r2 = 1 .. n2 /\ n2 = IF B <= n THEN n - B ELSE 0
      /\ \A i \in 1 .. n2 : r2[i] = r[B + i] /\ B + i \in 1 .. n
  <2>1. DOMAIN r = 1 .. n /\ DOMAIN r2 = 1 .. n2 /\ n2 = IF B <= n THEN n - B ELSE 0
    BY <1>1
  <2>2. \A i \in 1 .. n2 : i \in 1 .. n - B /\ B + i \in 1 .. n
    BY <2>1
  <2> QED BY <1>1, <2>1, <2>2
<1>3. ASSUME Flow(w, bl, r, all), Resent(w, bl, r)
      PROVE  Flow(w, bl, r2, all)
  <2>1. all = Reach(w, bl) \union Elements(r) /\ Ordered(w, bl, r, all)
    BY <1>3 DEF Flow
  <2>2. \A i \in 1 .. n : i <= B => r[i] \in Reach(w, bl)
    BY <1>2, <1>3 DEF Resent
  <2>3. \A i \in 1 .. n : i <= B \/ \E j \in 1 .. n2 : i = B + j
    <3>1. \A i \in 1 .. n : ~(i <= B) => i - B \in 1 .. n2 /\ i = B + (i - B)
      BY <1>2
    <3> QED BY <3>1
  <2>4. all = Reach(w, bl) \union Elements(r2)
    <3>1. ASSUME NEW i \in 1 .. n PROVE r[i] \in Reach(w, bl) \/ \E j \in 1 .. n2 : r[i] = r2[j]
      BY <1>2, <2>2, <2>3
    <3>2. ASSUME NEW j \in 1 .. n2 PROVE \E i \in 1 .. n : r2[j] = r[i]
      BY <1>2
    <3>3. \A b : (b \in Elements(r) <=> \E i \in 1 .. n : r[i] = b)
               /\ (b \in Elements(r2) <=> \E i \in 1 .. n2 : r2[i] = b)
      BY <1>2 DEF Elements
    <3>4. ASSUME NEW b PROVE b \in Reach(w, bl) \union Elements(r) <=> b \in Reach(w, bl) \union Elements(r2)
      <4>1. ASSUME b \in Elements(r) PROVE b \in Reach(w, bl) \/ b \in Elements(r2)
        <5>1. PICK i \in 1 .. n : r[i] = b
          BY <3>3, <4>1
        <5>2. r[i] \in Reach(w, bl) \/ \E j \in 1 .. n2 : r[i] = r2[j]
          BY <3>1
        <5> QED BY <3>3, <5>1, <5>2
      <4>2. b \in Elements(r2) => b \in Elements(r)
        BY <3>2, <3>3
      <4> QED BY <4>1, <4>2
    <3>5. Reach(w, bl) \union Elements(r) = Reach(w, bl) \union Elements(r2)
      BY <3>4
    <3> QED BY <2>1, <3>5
  <2>5. ASSUME NEW i \in 1 .. n2, NEW b \in all, Precedes(b, r2[i])
        PROVE  b \in Reach(w, bl) \/ \E j \in 1 .. i : r2[j] = b
    <3>1. B + i \in 1 .. n /\ r2[i] = r[B + i]
      BY <1>2
    <3>2. b \in Reach(w, bl) \/ \E j \in 1 .. B + i : r[j] = b
      BY <1>2, <2>1, <2>5, <3>1 DEF Ordered
    <3>3. ASSUME NEW j \in 1 .. B + i, r[j] = b
          PROVE  b \in Reach(w, bl) \/ \E l \in 1 .. i : r2[l] = b
      <4>1. j \in 1 .. n
        BY <3>1
      <4>2. CASE j <= B
        BY <2>2, <3>3, <4>1, <4>2
      <4>3. CASE ~(j <= B)
        <5>1. PICK l \in 1 .. n2 : j = B + l
          BY <2>3, <4>1, <4>3
        <5>2. l \in 1 .. i /\ r2[l] = r[j]
          BY <1>2, <5>1
        <5> QED BY <3>3, <5>2
      <4> QED BY <4>2, <4>3
    <3> QED BY <3>2, <3>3
  <2>6. Ordered(w, bl, r2, all)
    BY <1>2, <2>1, <2>5 DEF Ordered
  <2> QED BY <2>4, <2>6 DEF Flow
<1>4. ASSUME Single(w, bl, r)
      PROVE  Single(w, bl, r2) /\ r2 = <<>>
  <2>1. n <= B /\ Once(w, bl)
    BY <1>4 DEF Single
  <2>2. n2 = 0 /\ r2 = <<>>
    BY <1>1, <1>2, <2>1, EmptySeq
  <2>3. DOMAIN r2 = {}
    BY <1>2, <2>2
  <2> QED BY <2>1, <2>2, <2>3 DEF Single
<1> QED BY <1>3, <1>4

(* The answer x to request k is taken when nothing is left to be queued.   *)
LEMMA AnswerFlow ==
  ASSUME NEW w, NEW bl, NEW r, NEW all \in SUBSET Token, NEW k \in Nat, NEW n \in Nat, NEW x,
         DOMAIN r = {}, DOMAIN x = 1 .. n, \A i \in 1 .. n : x[i] = <<k, i>>,
         \A b \in all : b[1] < k, Flow(w, bl, r, all)
  PROVE  /\ Flow(w, bl, x, all \union Elements(x))
         /\ Fresh(w, bl, x)
         /\ Single(w, bl, r) /\ Len(x) <= BufferSize => Single(w, bl, x)
<1>1. all = Reach(w, bl) /\ Ordered(w, bl, r, all)
  <2>1. Elements(r) = {}
    BY DEF Elements
  <2> QED BY <2>1 DEF Flow
<1>2. \A b \in Elements(x) : \E j \in 1 .. n : b = <<k, j>>
  BY DEF Elements
<1>3. ASSUME NEW b \in Elements(x), NEW c \in all PROVE ~Precedes(b, c) /\ b # c
  <2>1. PICK j \in 1 .. n : b = <<k, j>>
    BY <1>2
  <2>2. c[1] \in Nat /\ c[1] < k /\ b[1] = k
    BY <2>1 DEF Token
  <2> QED BY <2>2 DEF Precedes
<1>4. ASSUME NEW i \in 1 .. n, NEW b \in Elements(x), Precedes(b, x[i])
      PROVE  \E j \in 1 .. i : x[j] = b
  <2>1. PICK j \in 1 .. n : b = <<k, j>>
    BY <1>2
  <2>2. j < i
    BY <1>4, <2>1 DEF Precedes
  <2> QED BY <2>1, <2>2
<1>5. /\ \A i \in DOMAIN w : w[i] \in all
      /\ \A m \in DOMAIN bl : \A i \in DOMAIN bl[m] : bl[m][i] \in all
  BY <1>1, ReachIs
<1>6. Ordered(w, bl, x, all \union Elements(x))
  <2>1. ASSUME NEW i \in DOMAIN w, NEW b \in all \union Elements(x), Precedes(b, w[i])
        PROVE  \E j \in 1 .. i : w[j] = b
    <3>1. b \in all
      BY <1>3, <1>5, <2>1
    <3> QED BY <1>1, <2>1, <3>1 DEF Ordered
  <2>2. ASSUME NEW m \in DOMAIN bl, NEW i \in DOMAIN bl[m], NEW b \in all \union Elements(x),
               Precedes(b, bl[m][i])
        PROVE  \/ b \in Elements(w)
               \/ \E l \in DOMAIN bl : \E j \in DOMAIN bl[l] :
                    bl[l][j] = b /\ (l < m \/ (l = m /\ j <= i))
    <3>1. b \in all
      BY <1>3, <1>5, <2>2
    <3> QED BY <1>1, <2>2, <3>1 DEF Ordered
  <2>3. ASSUME NEW i \in DOMAIN x, NEW b \in all \union Elements(x), Precedes(b, x[i])
        PROVE  b \in Reach(w, bl) \/ \E j \in 1 .. i : x[j] = b
    BY <1>1, <1>4, <2>3
  <2> QED BY <2>1, <2>2, <2>3 DEF Ordered
<1>7. \A i \in DOMAIN x : x[i] \in Elements(x)
  BY DEF Elements
<1>8. Fresh(w, bl, x)
  BY <1>1, <1>3, <1>7 DEF Fresh
<1>9. \A i, j \in DOMAIN x : x[i] = x[j] => i = j
  OBVIOUS
<1> QED BY <1>1, <1>6, <1>8, <1>9 DEF Flow, Single

(* All bytes of the answers q.                                             *)
AllOf(q) == UNION {Elements(q[k]) : k \in DOMAIN q}

LEMMA AnsweredIs ==
  ASSUME NEW s
  PROVE  Answered(s) = AllOf(answers[s]) /\ Answered(s)' = AllOf(answers'[s])
  BY DEF Answered, AllOf, Elements

LEMMA AllAppend ==
  ASSUME NEW q \in Seq(Seq(Token)), NEW x \in Seq(Token)
  PROVE  /\ AllOf(Append(q, x)) = AllOf(q) \union Elements(x)
         /\ (\A k \in DOMAIN Append(q, x) : Len(Append(q, x)[k]) <= BufferSize)
              => (\A k \in DOMAIN q : Len(q[k]) <= BufferSize) /\ Len(x) <= BufferSize
<1>n. PICK n \in Nat : n = Len(q)
  OBVIOUS
<1>p. PICK p : p = Append(q, x)
  OBVIOUS
<1>1. n = Len(q) /\ p = Append(q, x)
  BY <1>n, <1>p
<1>2. /\ DOMAIN q = 1 .. n /\ DOMAIN p = 1 .. n + 1 /\ p[n + 1] = x /\ \A k \in 1 .. n : p[k] = q[k]
  BY <1>1, AppendProperties
<1>3. /\ n + 1 \in 1 .. n + 1 /\ \A k \in 1 .. n : k \in 1 .. n + 1
      /\ \A k \in 1 .. n + 1 : k \in 1 .. n \/ k = n + 1
  OBVIOUS
<1>4. AllOf(p) = AllOf(q) \union Elements(x)
  <2>1. \A k \in 1 .. n : Elements(p[k]) = Elements(q[k])
    BY <1>2
  <2>2. \A b : b \in AllOf(p) <=> \E k \in 1 .. n + 1 : b \in Elements(p[k])
    BY <1>2 DEF AllOf
  <2>3. \A b : b \in AllOf(q) <=> \E k \in 1 .. n : b \in Elements(q[k])
    BY <1>2 DEF AllOf
  <2>4. Elements(p[n + 1]) = Elements(x)
    BY <1>2
  <2>5. ASSUME NEW b PROVE b \in AllOf(p) <=> b \in AllOf(q) \union Elements(x)
    BY <1>3, <2>1, <2>2, <2>3, <2>4
  <2> QED BY <2>5
<1>5. (\A k \in DOMAIN p : Len(p[k]) <= BufferSize)
        => (\A k \in DOMAIN q : Len(q[k]) <= BufferSize) /\ Len(x) <= BufferSize
  BY <1>2, <1>3
<1> QED BY <1>1, <1>4, <1>5

(* The socket's answers stay where they are.                               *)
LEMMA RestingSame ==
  ASSUME NEW s, Resting(s), rest'[s] = rest[s], answers'[s] = answers[s],
         Len(requests[s]) \in Nat, Len(requests'[s]) \in Nat, Len(requests'[s]) >= Len(requests[s]),
         cut'[s] = cut[s], wire'[s] = wire[s], qSend'[s] = qSend[s],
         send'[s] = send[s], flying'[s] = flying[s],
         recv'[s] = recv[s] \/ {recv[s], recv'[s]} \cap {"post", "start", "next"} = {}
  PROVE  Resting(s)'
<1>1. Answered(s)' = Answered(s) /\ (Fits(s)' <=> Fits(s)) /\ Block(s)' = Block(s)
  BY DEF Answered, Fits, Block
<1>2. \A b \in Answered(s) : b[1] \in Nat
  BY DEF Resting, Token
<1>3. /\ recv'[s] \in {"post", "start", "next"} <=> recv[s] \in {"post", "start", "next"}
      /\ recv'[s] \in {"start", "next"} => recv[s] \in {"start", "next"}
      /\ recv'[s] = "post" => recv[s] = "post"
  OBVIOUS
<1>4. \A b \in Answered(s)' : b[1] <= Len(requests'[s])
  BY <1>1, <1>2 DEF Resting
<1> QED BY <1>1, <1>3, <1>4 DEF Resting

(* Nothing is said about the queue once a send has failed.                 *)
LEMMA RestingCut ==
  ASSUME NEW s, Resting(s), rest'[s] = rest[s], answers'[s] = answers[s],
         requests'[s] = requests[s], cut'[s], recv'[s] = recv[s]
  PROVE  Resting(s)'
<1>1. Answered(s)' = Answered(s)
  BY DEF Answered
<1> QED BY <1>1 DEF Resting

LEMMA BlockIs ==
  ASSUME OutwardTypes, NEW s \in Sockets
  PROVE  /\ DOMAIN Block(s) = 1 .. Len(qSend[s]) /\ Len(qSend[s]) \in Nat
         /\ DOMAIN qSend[s] = 1 .. Len(qSend[s])
         /\ \A m \in 1 .. Len(qSend[s]) :
              Block(s)[m] = IF m > 1 THEN qSend[s][m]
                            ELSE IF send[s] THEN flying[s] ELSE AtMost(BufferSize, qSend[s][1])
<1>1. qSend[s] \in Seq(Seq(Token))
  BY DEF OutwardTypes
<1>2. DOMAIN qSend[s] = 1 .. Len(qSend[s]) /\ Len(qSend[s]) \in Nat
  BY <1>1
<1> QED BY <1>2 DEF Block

LEMMA BlockIsNext ==
  ASSUME OutwardTypes', NEW s \in Sockets
  PROVE  /\ DOMAIN Block(s)' = 1 .. Len(qSend'[s]) /\ Len(qSend'[s]) \in Nat
         /\ DOMAIN qSend'[s] = 1 .. Len(qSend'[s])
         /\ \A m \in 1 .. Len(qSend'[s]) :
              Block(s)'[m] = IF m > 1 THEN qSend'[s][m]
                             ELSE IF send'[s] THEN flying'[s] ELSE AtMost(BufferSize, qSend'[s][1])
<1>1. qSend'[s] \in Seq(Seq(Token))
  BY DEF OutwardTypes
<1>2. DOMAIN qSend'[s] = 1 .. Len(qSend'[s]) /\ Len(qSend'[s]) \in Nat
  BY <1>1
<1> QED BY <1>2 DEF Block

(* What is left of an answer is put into the queue.                        *)
LEMMA PostRests ==
  ASSUME NetAssumption, SocketTypes, OutwardTypes, OutwardTypes', NEW s \in Sockets,
         Queued(s), Resting(s), postToSendQueue(s)
  PROVE  Resting(s)'
<1>0. BufferSize \in Nat
  BY DEF NetAssumption
<1>1. /\ recv[s] = "post" /\ qSend' = [qSend EXCEPT ![s] = Append(qSend[s], rest[s])]
      /\ recv'  = [recv EXCEPT ![s] = IF qSend[s] = <<>> THEN "start" ELSE "next"]
      /\ UNCHANGED <<send, rest, answers, flying, wire, cut, requests>>
  BY DEF postToSendQueue, answer, inward
<1>a. PICK q, r, n, w : q = qSend[s] /\ r = rest[s] /\ n = Len(qSend[s]) /\ w = wire[s]
  OBVIOUS
<1>b. PICK bl, bl2, all : bl = Block(s) /\ bl2 = Block(s)' /\ all = Answered(s)
  OBVIOUS
<1>2. /\ q = qSend[s] /\ r = rest[s] /\ n = Len(qSend[s])
      /\ w = wire[s] /\ bl = Block(s) /\ bl2 = Block(s)' /\ all = Answered(s)
  BY <1>a, <1>b
<1>3. q \in Seq(Seq(Token)) /\ r \in Seq(Token) /\ n \in Nat /\ (q = <<>> <=> n = 0)
  BY <1>2 DEF OutwardTypes
<1>4. /\ qSend'[s] = Append(q, r) /\ Len(Append(q, r)) = n + 1
      /\ \A m \in 1 .. n : Append(q, r)[m] = q[m]
      /\ Append(q, r)[n + 1] = r
  <2>1. qSend'[s] = Append(q, r)
    BY <1>1, <1>2 DEF OutwardTypes
  <2>2. n = Len(q)
    BY <1>2
  <2> QED BY <1>3, <2>1, <2>2, AppendProperties
<1>5. PICK x : x = IF n = 0 THEN AtMost(BufferSize, r) ELSE r
  OBVIOUS
<1>6. /\ DOMAIN x \subseteq DOMAIN r /\ (\A i \in DOMAIN x : x[i] = r[i]) /\ DOMAIN r \subseteq Nat
      /\ (\A i \in DOMAIN x : \A j \in 1 .. i : j \in DOMAIN x)
      /\ \A i \in DOMAIN r : i <= BufferSize => i \in DOMAIN x
  <2>1. PICK l \in Nat : DOMAIN r = 1 .. l /\ l = Len(r)
    BY <1>3
  <2>2. CASE n # 0
    BY <1>5, <2>1, <2>2
  <2>3. CASE n = 0
    <3>1. /\ AtMost(BufferSize, r) \in Seq(Token)
          /\ Len(AtMost(BufferSize, r)) = IF l < BufferSize THEN l ELSE BufferSize
          /\ \A i \in 1 .. Len(AtMost(BufferSize, r)) : AtMost(BufferSize, r)[i] = r[i]
      BY <1>0, <1>3, <2>1, AtMostIs
    <3>2. x = AtMost(BufferSize, r)
      BY <1>5, <2>3
    <3>3. PICK k \in Nat : k = IF l < BufferSize THEN l ELSE BufferSize
      BY <1>0
    <3>4. DOMAIN x = 1 .. k /\ \A i \in 1 .. k : x[i] = r[i]
      BY <3>1, <3>2, <3>3
    <3> QED BY <1>0, <2>1, <3>3, <3>4
  <2> QED BY <2>2, <2>3
<1>7. /\ DOMAIN bl = 1 .. n /\ DOMAIN bl2 = 1 .. n + 1
      /\ \A m \in 1 .. n : bl[m] = IF m > 1 THEN q[m]
                                   ELSE IF send[s] THEN flying[s] ELSE AtMost(BufferSize, q[1])
      /\ \A m \in 1 .. n + 1 : bl2[m] = IF m > 1 THEN Append(q, r)[m]
                                   ELSE IF send[s] THEN flying[s] ELSE AtMost(BufferSize, Append(q, r)[1])
  <2>1. send'[s] = send[s] /\ flying'[s] = flying[s]
    BY <1>1
  <2>2. n = Len(qSend[s]) /\ n + 1 = Len(qSend'[s]) /\ qSend'[s] = Append(q, r)
    BY <1>2, <1>4
  <2>3. /\ DOMAIN bl = 1 .. n
        /\ \A m \in 1 .. n : bl[m] = IF m > 1 THEN q[m]
                                     ELSE IF send[s] THEN flying[s] ELSE AtMost(BufferSize, q[1])
    BY <1>2, <2>2, BlockIs
  <2>4. /\ DOMAIN bl2 = 1 .. Len(qSend'[s])
        /\ \A m \in 1 .. Len(qSend'[s]) :
              bl2[m] = IF m > 1 THEN qSend'[s][m]
                       ELSE IF send'[s] THEN flying'[s] ELSE AtMost(BufferSize, qSend'[s][1])
    BY <1>b, BlockIsNext
  <2> QED BY <2>1, <2>2, <2>3, <2>4
<1>8. ~cut[s] => bl2[n + 1] = x
  <2>1. CASE n = 0
    <3>1. ~send[s]
      BY <1>2, <1>3, <2>1 DEF Queued
    <3>2. Append(q, r)[1] = r
      BY <1>4, <2>1
    <3> QED BY <1>5, <1>7, <2>1, <3>1, <3>2
  <2>2. CASE n # 0
    <3>1. n + 1 \in 1 .. n + 1 /\ n + 1 > 1
      BY <1>3, <2>2
    <3> QED BY <1>4, <1>5, <1>7, <2>2, <3>1
  <2> QED BY <2>1, <2>2
<1>9. \A m \in 1 .. n : bl2[m] = bl[m]
  <2>1. \A m \in 1 .. n : m \in 1 .. n + 1 /\ 1 \in 1 .. n
    BY <1>3
  <2> QED BY <1>4, <1>7, <2>1
<1>10. ~cut[s] => Pushed(n, bl, r, x, bl2)
  BY <1>3, <1>6, <1>7, <1>8, <1>9 DEF Pushed
<1>11. ASSUME ~cut[s]
       PROVE  /\ Flow(w, bl2, r, all) /\ Resent(w, bl2, r)
              /\ Fits(s) => Single(w, bl2, r)
  <2>1. Flow(w, bl, r, all) /\ (Fits(s) => Single(w, bl, r) /\ Fresh(w, bl, r))
    BY <1>1, <1>2, <1>11 DEF Resting
  <2>2. Pushed(n, bl, r, x, bl2)
    BY <1>10, <1>11
  <2> QED BY <2>1, <2>2, PushFlow, PushSingle
<1>12. /\ recv'[s] \in {"start", "next"} /\ rest'[s] = r /\ wire'[s] = w /\ (cut'[s] <=> cut[s])
       /\ Answered(s)' = all /\ (Fits(s)' <=> Fits(s)) /\ requests'[s] = requests[s]
  BY <1>1, <1>2 DEF SocketTypes, Answered, Fits
<1>13. r # <<>> /\ all \subseteq Token /\ \A b \in all : b[1] <= Len(requests[s])
  BY <1>1, <1>2 DEF Resting
<1>14. Block(s)' = bl2
  BY <1>2
<1> QED BY <1>11, <1>12, <1>13, <1>14 DEF Resting

(* The first buffer of the queue is sent.                                  *)
LEMMA StartRests ==
  ASSUME SocketTypes, OutwardTypes, NEW s \in Sockets, Queued(s), Resting(s), StartSend(s)
  PROVE  Resting(s)'
<1>1. /\ recv[s] = "start" /\ recv' = [recv EXCEPT ![s] = "next"] /\ qSend[s] # <<>> /\ ~send[s]
      /\ send' = [send EXCEPT ![s] = TRUE]
      /\ flying' = [flying EXCEPT ![s] = AtMost(BufferSize, qSend[s][1])]
      /\ UNCHANGED <<qSend, rest, answers, wire, cut, requests>>
  BY DEF StartSend, Queued, answer, inward
<1>2. recv'[s] = "next" /\ send'[s] = TRUE /\ flying'[s] = AtMost(BufferSize, qSend[s][1])
  BY <1>1 DEF SocketTypes, OutwardTypes
<1>3. Block(s)' = Block(s)
  BY <1>1, <1>2 DEF Block
<1>4. Answered(s)' = Answered(s) /\ (Fits(s)' <=> Fits(s))
  BY <1>1 DEF Answered, Fits
<1>5. rest'[s] = rest[s] /\ wire'[s] = wire[s] /\ (cut'[s] <=> cut[s]) /\ requests'[s] = requests[s]
  BY <1>1
<1> QED BY <1>1, <1>2, <1>3, <1>4, <1>5 DEF Resting

(* What has been queued is not queued again.                               *)
LEMMA NextRests ==
  ASSUME NetAssumption, SocketTypes, OutwardTypes, NEW s \in Sockets, Resting(s), NextBlock(s)
  PROVE  Resting(s)'
<1>1. PICK r, r2 : r = rest[s] /\ r2 = SubSeq(rest[s], BufferSize + 1, Len(rest[s]))
  OBVIOUS
<1>2. /\ recv[s] = "next" /\ rest' = [rest EXCEPT ![s] = r2]
      /\ recv' = [recv EXCEPT ![s] = IF r2 = <<>> THEN "sent" ELSE "post"]
      /\ UNCHANGED <<send, flying, qSend, answers, wire, cut, requests>>
  BY <1>1 DEF NextBlock, outward, inward
<1>3. rest'[s] = r2 /\ recv'[s] = IF r2 = <<>> THEN "sent" ELSE "post"
  BY <1>2 DEF SocketTypes, OutwardTypes
<1>4. Block(s)' = Block(s) /\ Answered(s)' = Answered(s) /\ (Fits(s)' <=> Fits(s))
  BY <1>2 DEF Block, Answered, Fits
<1>5. wire'[s] = wire[s] /\ (cut'[s] <=> cut[s]) /\ requests'[s] = requests[s]
  BY <1>2
<1>6. ASSUME NEW w, NEW bl, NEW all
      PROVE  /\ Flow(w, bl, r, all) /\ Resent(w, bl, r) => Flow(w, bl, r2, all)
             /\ Single(w, bl, r) => Single(w, bl, r2) /\ r2 = <<>>
  <2>1. r \in Seq(Token) /\ IsLeft(r, r2)
    BY <1>1 DEF OutwardTypes, IsLeft
  <2> QED BY <2>1, NextFlow
<1>7. ~cut[s] => /\ Flow(wire[s], Block(s), r2, Answered(s))
                 /\ Fits(s) => Single(wire[s], Block(s), r2) /\ r2 = <<>>
  <2>1. ~cut[s] => /\ Flow(wire[s], Block(s), r, Answered(s)) /\ Resent(wire[s], Block(s), r)
                   /\ Fits(s) => Single(wire[s], Block(s), r)
    BY <1>1, <1>2 DEF Resting
  <2> QED BY <1>6, <2>1
<1>8. Answered(s) \subseteq Token /\ \A b \in Answered(s) : b[1] <= Len(requests[s])
  BY DEF Resting
<1>9. /\ (r2 # <<>>) <=> recv'[s] \in {"post", "start", "next"}
      /\ recv'[s] \notin {"start", "next"} /\ (recv'[s] = "post" => r2 # <<>>)
  BY <1>3
<1> QED BY <1>3, <1>4, <1>5, <1>7, <1>8, <1>9 DEF Resting

(* A send has succeeded; if it sent all, its block is on the wire.         *)
LEMMA SendRests ==
  ASSUME SocketTypes, OutwardTypes, OutwardTypes', NEW s \in Sockets,
         Queued(s), Resting(s), doSend(s)
  PROVE  Resting(s)'
<1>1. PICK q : q = SubSeq(qSend[s], 2, Len(qSend[s]))
  OBVIOUS
<1>2. /\ send[s] /\ qSend' = [qSend EXCEPT ![s] = q]
      /\ \/ wire' = [wire EXCEPT ![s] = wire[s] \o flying[s]] /\ cut' = cut
         \/ cut' = [cut EXCEPT ![s] = TRUE]
      /\ q # <<>> => flying' = [flying EXCEPT ![s] = q[1]] /\ send' = send
      /\ UNCHANGED <<recv, rest, answers, requests>>
  BY <1>1 DEF doSend, answer, inward
<1>3. CASE cut' = [cut EXCEPT ![s] = TRUE]
  <2>1. cut'[s] /\ recv'[s] = recv[s] /\ rest'[s] = rest[s] /\ answers'[s] = answers[s]
        /\ requests'[s] = requests[s]
    BY <1>2, <1>3 DEF SocketTypes
  <2> QED BY <2>1, RestingCut
<1>4. CASE wire' = [wire EXCEPT ![s] = wire[s] \o flying[s]] /\ cut' = cut
  <2>d. PICK n \in Nat : Len(qSend[s]) = n + 1
    <3>1. qSend[s] \in Seq(Seq(Token)) /\ qSend[s] # <<>>
      BY <1>2 DEF OutwardTypes, Queued
    <3>2. Len(qSend[s]) - 1 \in Nat /\ Len(qSend[s]) = (Len(qSend[s]) - 1) + 1
      BY <3>1
    <3> QED BY <3>2
  <2>e. PICK a \in Nat, k \in Nat : a = Len(wire[s]) /\ k = Len(flying[s])
    BY DEF OutwardTypes
  <2>a. a = Len(wire[s]) /\ k = Len(flying[s]) /\ Len(qSend[s]) = n + 1
    BY <2>d, <2>e
  <2>b. PICK w, x, w2 : w = wire[s] /\ x = flying[s] /\ w2 = wire'[s]
    OBVIOUS
  <2>c. PICK bl, bl2, all : bl = Block(s) /\ bl2 = Block(s)' /\ all = Answered(s)
    OBVIOUS
  <2>1. /\ DOMAIN w = 1 .. a /\ DOMAIN x = 1 .. k /\ DOMAIN w2 = 1 .. a + k
        /\ (\A i \in 1 .. a : w2[i] = w[i]) /\ \A i \in 1 .. k : w2[a + i] = x[i]
    <3>1. w \in Seq(Token) /\ x \in Seq(Token) /\ w2 = w \o x /\ a = Len(w) /\ k = Len(x)
      BY <1>4, <2>a, <2>b DEF OutwardTypes
    <3>2. /\ w \o x \in Seq(Token) /\ Len(w \o x) = Len(w) + Len(x)
          /\ \A i \in 1 .. Len(w) + Len(x) : (w \o x)[i] = IF i <= Len(w) THEN w[i] ELSE x[i - Len(w)]
      BY <3>1, ConcatProperties
    <3>3. /\ w2 \in Seq(Token) /\ Len(w2) = a + k
          /\ \A i \in 1 .. a + k : w2[i] = IF i <= a THEN w[i] ELSE x[i - a]
      BY <3>1, <3>2
    <3>4. /\ \A i \in 1 .. a : i \in 1 .. a + k /\ i <= a
          /\ \A i \in 1 .. k : a + i \in 1 .. a + k /\ ~(a + i <= a) /\ (a + i) - a = i
      OBVIOUS
    <3>5. DOMAIN w = 1 .. a /\ DOMAIN x = 1 .. k /\ DOMAIN w2 = 1 .. a + k
      BY <3>1, <3>3
    <3> QED BY <3>3, <3>4, <3>5
  <2>2. /\ qSend'[s] = q /\ Len(q) = n /\ \A m \in 1 .. n : q[m] = qSend[s][m + 1]
    <3>1. qSend[s] \in Seq(Seq(Token)) /\ 1 \in Nat /\ 1 + 1 = 2
      BY DEF OutwardTypes
    <3>2. /\ Len(SubSeq(qSend[s], 1 + 1, Len(qSend[s]))) = IF 1 <= Len(qSend[s]) THEN Len(qSend[s]) - 1 ELSE 0
          /\ \A m \in 1 .. Len(qSend[s]) - 1 : SubSeq(qSend[s], 1 + 1, Len(qSend[s]))[m] = qSend[s][1 + m]
      BY <3>1, TailIs
    <3>3. q = SubSeq(qSend[s], 1 + 1, Len(qSend[s])) /\ Len(qSend[s]) - 1 = n /\ 1 <= Len(qSend[s])
      BY <1>1, <2>a, <3>1
    <3>4. Len(q) = n /\ \A m \in 1 .. n : q[m] = qSend[s][1 + m]
      BY <3>2, <3>3
    <3>5. \A m \in 1 .. n : 1 + m = m + 1
      OBVIOUS
    <3>6. qSend'[s] = q
      BY <1>2 DEF OutwardTypes
    <3> QED BY <3>4, <3>5, <3>6
  <2>3. /\ DOMAIN bl = 1 .. n + 1 /\ bl[1] = x
        /\ \A m \in 1 .. n : bl[m + 1] = qSend[s][m + 1]
    <3>1. /\ DOMAIN bl = 1 .. n + 1
          /\ \A m \in 1 .. n + 1 : bl[m] = IF m > 1 THEN qSend[s][m]
                                           ELSE IF send[s] THEN flying[s] ELSE AtMost(BufferSize, qSend[s][1])
      BY <2>a, <2>c, BlockIs
    <3>2. 1 \in 1 .. n + 1 /\ ~(1 > 1) /\ \A m \in 1 .. n : m + 1 \in 1 .. n + 1 /\ m + 1 > 1
      OBVIOUS
    <3> QED BY <1>2, <2>b, <3>1, <3>2
  <2>4. DOMAIN bl2 = 1 .. n /\ \A m \in 1 .. n : bl2[m] = q[m]
    <3>1. /\ DOMAIN bl2 = 1 .. n
          /\ \A m \in 1 .. n : bl2[m] = IF m > 1 THEN q[m]
                                        ELSE IF send'[s] THEN flying'[s] ELSE AtMost(BufferSize, q[1])
      BY <2>2, <2>c, BlockIsNext
    <3>2. ASSUME NEW m \in 1 .. n, ~(m > 1) PROVE bl2[m] = q[m]
      <4>1. m = 1 /\ n # 0
        BY <3>2
      <4>2. q # <<>>
        BY <2>2, <4>1
      <4>3. send'[s] = send[s] /\ flying'[s] = q[1]
        BY <1>2, <4>2 DEF OutwardTypes
      <4> QED BY <1>2, <3>1, <4>1, <4>3
    <3> QED BY <3>1, <3>2
  <2>5. Shifted(n, a, k, w, x, bl, w2, bl2)
    BY <2>1, <2>2, <2>3, <2>4 DEF Shifted
  <2>6. PICK r : r = rest[s]
    OBVIOUS
  <2>7. /\ Flow(w, bl, r, all) => Flow(w2, bl2, r, all)
        /\ Resent(w, bl, r) => Resent(w2, bl2, r)
        /\ Fresh(w, bl, r) => Fresh(w2, bl2, r)
        /\ Single(w, bl, r) => Single(w2, bl2, r)
    BY <2>5, ShiftFlow, ShiftSingle
  <2>8. /\ recv'[s] = recv[s] /\ rest'[s] = r /\ cut'[s] = cut[s] /\ requests'[s] = requests[s]
        /\ Answered(s)' = all /\ (Fits(s)' <=> Fits(s)) /\ wire'[s] = w2 /\ Block(s)' = bl2
    BY <1>2, <1>4, <2>b, <2>c, <2>6 DEF Answered, Fits
  <2>9. /\ rest[s] = r /\ wire[s] = w /\ Block(s) = bl /\ Answered(s) = all
    BY <2>b, <2>c, <2>6
  <2> QED BY <2>7, <2>8, <2>9 DEF Resting
<1> QED BY <1>2, <1>3, <1>4

(* A request is answered, or its answer dropped.                           *)
LEMMA RequestRests ==
  ASSUME NetAssumption, SocketTypes, InwardTypes, OutwardTypes, NEW s \in Sockets,
         Framed(s), Resting(s), ReceiveRequest(s)
  PROVE  Resting(s)'
<1>1. PICK k \in Nat : k = Len(requests[s]) + 1
  BY DEF InwardTypes
<1>2. requests'[s] \in Seq(Seq(Bytes)) /\ Len(requests'[s]) = k
  <2>1. PICK i, p \in Seq(Bytes), new \in Seq(Seq(Bytes)) :
           requests'  = [requests EXCEPT ![s] = new] /\ Len(new) = Len(requests[s]) + 1
    BY RequestIs
  <2> QED BY <1>1, <2>1 DEF InwardTypes
<1>3. /\ recv[s] = "scan" /\ UNCHANGED <<send, cut, wire, qSend, flying>>
  BY DEF ReceiveRequest, outward
<1>4. PICK len \in Lengths :
        \/ recv' = [recv EXCEPT ![s] = "sent"] /\ UNCHANGED <<rest, answers>>
        \/ /\ recv' = [recv EXCEPT ![s] = "post"]
           /\ rest' = [rest EXCEPT ![s] = [j \in 1 .. len |-> <<k, j>>]]
           /\ answers' = [answers EXCEPT ![s] = Append(answers[s], [j \in 1 .. len |-> <<k, j>>])]
  BY <1>1 DEF ReceiveRequest
<1>5. CASE recv' = [recv EXCEPT ![s] = "sent"] /\ UNCHANGED <<rest, answers>>
  <2>1. recv'[s] = "sent"
    BY <1>5 DEF SocketTypes
  <2>2. Len(requests[s]) \in Nat /\ Len(requests'[s]) \in Nat /\ Len(requests'[s]) >= Len(requests[s])
    BY <1>1, <1>2 DEF InwardTypes
  <2> QED BY <1>3, <1>5, <2>1, <2>2, RestingSame
<1>6. ASSUME NEW x, x = [j \in 1 .. len |-> <<k, j>>], recv' = [recv EXCEPT ![s] = "post"],
             rest' = [rest EXCEPT ![s] = x], answers' = [answers EXCEPT ![s] = Append(answers[s], x)]
      PROVE  Resting(s)'
  <2>1. PICK n \in Nat : n = len /\ n > 0
    BY DEF NetAssumption
  <2>2. DOMAIN x = 1 .. n /\ (\A i \in 1 .. n : x[i] = <<k, i>>) /\ x \in Seq(Token) /\ Len(x) = n
    <3>1. DOMAIN x = 1 .. n /\ \A i \in 1 .. n : x[i] = <<k, i>>
      BY <1>6, <2>1
    <3>2. \A i \in 1 .. n : x[i] \in Token
      <4>1. \A i \in 1 .. n : <<k, i>> \in Token
        BY DEF Token
      <4> QED BY <3>1, <4>1
    <3>3. x \in [1 .. n -> Token]
      BY <1>6, <2>1, <3>1, <3>2
    <3> QED BY <3>1, <3>3
  <2>3. PICK all, q : all = Answered(s) /\ q = answers[s]
    OBVIOUS
  <2>4. q \in Seq(Seq(Token)) /\ answers'[s] = Append(q, x) /\ rest'[s] = x /\ recv'[s] = "post"
    BY <1>6, <2>3 DEF OutwardTypes, SocketTypes
  <2>5. /\ Answered(s)' = all \union Elements(x)
        /\ Fits(s)' => Fits(s) /\ Len(x) <= BufferSize
    <3>1. Answered(s)' = AllOf(Append(q, x)) /\ all = AllOf(q)
      BY <2>3, <2>4, AnsweredIs
    <3>2. Fits(s)' => \A c \in DOMAIN Append(q, x) : Len(Append(q, x)[c]) <= BufferSize
      BY <2>4 DEF Fits
    <3>3. (\A c \in DOMAIN q : Len(q[c]) <= BufferSize) => Fits(s)
      BY <2>3 DEF Fits
    <3>4. /\ AllOf(Append(q, x)) = AllOf(q) \union Elements(x)
          /\ (\A c \in DOMAIN Append(q, x) : Len(Append(q, x)[c]) <= BufferSize)
                => (\A c \in DOMAIN q : Len(q[c]) <= BufferSize) /\ Len(x) <= BufferSize
      BY <2>2, <2>4, AllAppend
    <3>5. Answered(s)' = all \union Elements(x)
      BY <3>1, <3>4
    <3> QED BY <3>2, <3>3, <3>4, <3>5
  <2>6. all \in SUBSET Token /\ (\A b \in all : b[1] < k) /\ rest[s] = <<>>
    <3>1. all \subseteq Token /\ (\A b \in all : b[1] <= Len(requests[s])) /\ rest[s] = <<>>
      BY <1>3, <2>3 DEF Resting
    <3>2. \A b \in all : b[1] \in Nat
      BY <3>1 DEF Token
    <3>3. Len(requests[s]) \in Nat
      BY DEF InwardTypes
    <3> QED BY <1>1, <3>1, <3>2, <3>3
  <2>7. \A b \in Elements(x) : b \in Token /\ b[1] = k
    BY <2>2 DEF Elements, Token
  <2>8. Answered(s)' \subseteq Token /\ \A b \in Answered(s)' : b[1] <= Len(requests'[s])
    <3>1. \A b \in all : b[1] <= k
      <4>1. \A b \in all : b[1] \in Nat
        BY <2>6 DEF Token
      <4> QED BY <2>6, <4>1
    <3>2. \A b \in Elements(x) : b[1] <= k
      BY <2>7
    <3> QED BY <1>2, <2>5, <2>6, <2>7, <3>1, <3>2
  <2>9. PICK r, w, bl : r = rest[s] /\ w = wire[s] /\ bl = Block(s)
    OBVIOUS
  <2>10. DOMAIN r = {}
    BY <2>6, <2>9
  <2>11. Flow(w, bl, r, all)
           => /\ Flow(w, bl, x, all \union Elements(x))
              /\ Fresh(w, bl, x)
              /\ Single(w, bl, r) /\ Len(x) <= BufferSize => Single(w, bl, x)
    BY <2>2, <2>6, <2>10, AnswerFlow
  <2>12. Block(s)' = bl /\ wire'[s] = w /\ (cut'[s] <=> cut[s])
    BY <1>3, <2>9 DEF Block
  <2>13. ~cut[s] => Flow(w, bl, r, all) /\ (Fits(s) => Single(w, bl, r))
    BY <2>3, <2>9 DEF Resting
  <2>14. x # <<>>
    BY <2>1, <2>2
  <2> QED BY <2>4, <2>5, <2>8, <2>11, <2>12, <2>13, <2>14 DEF Resting
<1> QED BY <1>4, <1>5, <1>6

LEMMA RestingNext ==
  ASSUME NetAssumption, SocketTypes, InwardTypes, OutwardTypes, OutwardTypes', InwardTypes',
         \A s \in Sockets : Queued(s) /\ Framed(s) /\ Resting(s), [Next]_vars
  PROVE  \A s \in Sockets : Resting(s)'
<1> USE DEF vars, life, inward, answer, outward
<1> SUFFICES ASSUME NEW s \in Sockets PROVE Resting(s)'
  OBVIOUS
<1>a. /\ Resting(s) /\ Queued(s) /\ Framed(s) /\ Len(requests[s]) \in Nat /\ Len(requests[s]) >= Len(requests[s])
      /\ recv \in [Sockets -> {"new", "listening", "armed", "scan", "post", "start",
                               "next", "sent", "end", "off"}]
  <2>1. Len(requests[s]) \in Nat
    BY DEF InwardTypes
  <2>2. recv \in [Sockets -> {"new", "listening", "armed", "scan", "post", "start",
                               "next", "sent", "end", "off"}]
    BY DEF SocketTypes
  <2> QED BY <2>1, <2>2
(* The answers of a socket only change by what its own handlers do.        *)
<1>b. ASSUME rest'[s] = rest[s], answers'[s] = answers[s], requests'[s] = requests[s],
             cut'[s] = cut[s], wire'[s] = wire[s], qSend'[s] = qSend[s],
             send'[s] = send[s], flying'[s] = flying[s],
             recv'[s] = recv[s] \/ {recv[s], recv'[s]} \cap {"post", "start", "next"} = {}
      PROVE  Resting(s)'
  BY <1>a, <1>b, RestingSame
<1>c. ASSUME UNCHANGED <<rest, answers, requests, cut, wire, qSend, send, flying>>,
             recv'[s] = recv[s] \/ {recv[s], recv'[s]} \cap {"post", "start", "next"} = {}
      PROVE  Resting(s)'
  BY <1>b, <1>c
<1>1. ASSUME NEW t \in Sockets, doAccept(t) PROVE Resting(s)'
  <2>1. UNCHANGED <<rest, answers, requests, cut, wire, qSend, send, flying>> /\ recv[t] = "listening"
    BY <1>1 DEF doAccept
  <2> DEFINE new == {u \in Sockets : recv[u] = "new"}
  <2>2. CASE new = {}
    <3>1. recv' = [recv EXCEPT ![t] = "armed"]
      BY <1>1, <2>2 DEF doAccept
    <3>2. recv'[s] = recv[s] \/ {recv[s], recv'[s]} \cap {"post", "start", "next"} = {}
      BY <1>a, <2>1, <3>1
    <3> QED BY <1>c, <2>1, <3>2
  <2>3. CASE new # {}
    <3>1. PICK u \in new : u = CHOOSE x \in new : TRUE
      BY <2>3
    <3>2. recv' = [recv EXCEPT ![t] = "armed", ![u] = "listening"] /\ recv[u] = "new" /\ u \in Sockets
      BY <1>1, <2>3, <3>1 DEF doAccept
    <3>3. recv'[s] = recv[s] \/ {recv[s], recv'[s]} \cap {"post", "start", "next"} = {}
      BY <1>a, <2>1, <3>2
    <3> QED BY <1>c, <2>1, <3>3
  <2> QED BY <2>2, <2>3
<1>2. ASSUME NEW t \in Sockets,
             \/ doAcceptError(t) \/ doRecvError(t) \/ doRecv(t) \/ ReceiveRest(t)
             \/ EndRecv(t) \/ AfterAnswer(t)
      PROVE  Resting(s)'
  <2>1. /\ UNCHANGED <<rest, answers, requests, cut, wire, qSend, send, flying>>
        /\ recv[t] \in {"listening", "armed", "scan", "end", "sent"}
        /\ \E a \in {"off", "scan", "end", "armed"} : recv' = [recv EXCEPT ![t] = a]
    BY <1>2 DEF doAcceptError, doRecvError, doRecv, ReceiveRest, EndRecv, AfterAnswer
  <2>2. recv'[s] = recv[s] \/ {recv[s], recv'[s]} \cap {"post", "start", "next"} = {}
    BY <1>a, <2>1
  <2> QED BY <1>c, <2>1, <2>2
<1>3. ASSUME NEW t \in Sockets, EndSend(t) PROVE Resting(s)'
  <2>1. UNCHANGED <<rest, answers, requests, cut, wire, qSend, send, flying, recv>>
    BY <1>3 DEF EndSend
  <2> QED BY <1>c, <2>1
<1>4. ASSUME NEW t \in Sockets, t # s,
             \/ ReceiveRequest(t) \/ postToSendQueue(t) \/ StartSend(t) \/ NextBlock(t)
             \/ doSend(t) \/ doSendError(t)
      PROVE  Resting(s)'
  <2>1. CASE ReceiveRequest(t)
    <3>1. /\ UNCHANGED <<cut, wire, qSend, send, flying>>
          /\ \E a : recv' = [recv EXCEPT ![t] = a]
          /\ \E a : requests' = [requests EXCEPT ![t] = a]
          /\ rest' = rest \/ \E a : rest' = [rest EXCEPT ![t] = a]
          /\ answers' = answers \/ \E a : answers' = [answers EXCEPT ![t] = a]
      BY <2>1 DEF ReceiveRequest
    <3>2. /\ recv'[s] = recv[s] /\ requests'[s] = requests[s] /\ rest'[s] = rest[s]
          /\ answers'[s] = answers[s]
      <4>1. recv'[s] = recv[s] /\ requests'[s] = requests[s]
        BY <1>4, <3>1 DEF SocketTypes, InwardTypes
      <4>2. rest'[s] = rest[s] /\ answers'[s] = answers[s]
        BY <1>4, <3>1 DEF OutwardTypes
      <4> QED BY <4>1, <4>2
    <3> QED BY <1>b, <3>1, <3>2
  <2>2. CASE postToSendQueue(t)
    <3>1. /\ UNCHANGED <<rest, answers, requests, cut, wire, send, flying>>
          /\ recv'[s] = recv[s] /\ qSend'[s] = qSend[s]
      BY <1>4, <2>2 DEF postToSendQueue, SocketTypes, OutwardTypes
    <3> QED BY <1>b, <3>1
  <2>3. CASE StartSend(t)
    <3>1. /\ UNCHANGED <<rest, answers, requests, cut, wire, qSend>>
          /\ recv'[s] = recv[s] /\ send'[s] = send[s] /\ flying'[s] = flying[s]
      BY <1>4, <2>3 DEF StartSend, SocketTypes, OutwardTypes
    <3> QED BY <1>b, <3>1
  <2>4. CASE NextBlock(t)
    <3>1. /\ UNCHANGED <<answers, requests, cut, wire, qSend, send, flying>>
          /\ recv'[s] = recv[s] /\ rest'[s] = rest[s]
      BY <1>4, <2>4 DEF NextBlock, SocketTypes, OutwardTypes
    <3> QED BY <1>b, <3>1
  <2>5. CASE doSend(t)
    <3>1. /\ UNCHANGED <<rest, answers, requests, recv>>
          /\ \E a : wire' = [wire EXCEPT ![t] = a]
          /\ cut' = cut \/ cut' = [cut EXCEPT ![t] = TRUE]
          /\ \E a : qSend' = [qSend EXCEPT ![t] = a]
          /\ \E a : flying' = [flying EXCEPT ![t] = a]
          /\ send' = send \/ send' = [send EXCEPT ![t] = FALSE]
      BY <2>5 DEF doSend
    <3>2. /\ wire'[s] = wire[s] /\ cut'[s] = cut[s] /\ qSend'[s] = qSend[s]
          /\ flying'[s] = flying[s] /\ send'[s] = send[s]
      BY SMTT(30), <1>4, <3>1 DEF SocketTypes, OutwardTypes
    <3> QED BY <1>b, <3>1, <3>2
  <2>6. CASE doSendError(t)
    <3>1. /\ UNCHANGED <<rest, answers, requests, recv, wire, qSend>>
          /\ cut'[s] = cut[s] /\ flying'[s] = flying[s] /\ send'[s] = send[s]
      BY <1>4, <2>6 DEF doSendError, SocketTypes, OutwardTypes
    <3> QED BY <1>b, <3>1
  <2> QED BY <1>4, <2>1, <2>2, <2>3, <2>4, <2>5, <2>6
<1>5. ASSUME doSendError(s) PROVE Resting(s)'
  <2>1. UNCHANGED <<rest, answers, requests, recv>> /\ cut'[s]
    BY <1>5 DEF doSendError, SocketTypes
  <2> QED BY <1>a, <2>1, RestingCut
<1>6. ASSUME ReceiveRequest(s) \/ postToSendQueue(s) \/ StartSend(s) \/ NextBlock(s) \/ doSend(s)
      PROVE  Resting(s)'
  BY <1>a, <1>6, RequestRests, PostRests, StartRests, NextRests, SendRests
<1>7. ASSUME stopServer PROVE Resting(s)'
  <2>1. UNCHANGED <<rest, answers, requests, cut, wire, qSend, send, flying, recv>>
    BY <1>7 DEF stopServer, LockSocks, StopService, DeleteSockets, MarkSocket
  <2> QED BY <1>c, <2>1
<1>8. CASE UNCHANGED vars
  BY <1>8, <1>c
<1>9. ASSUME NEW t \in Sockets,
             \/ ReceiveRequest(t) \/ postToSendQueue(t) \/ StartSend(t) \/ NextBlock(t)
             \/ doSend(t) \/ doSendError(t)
      PROVE  Resting(s)'
  BY <1>4, <1>5, <1>6, <1>9
<1> QED BY <1>1, <1>2, <1>3, <1>7, <1>8, <1>9 DEF Next, Handlers

-----------------------------------------------------------------------------
(* The theorems *)

Local(s) == Counted(s) /\ Queued(s) /\ Framed(s) /\ Resting(s)
AsioInv == SocketTypes /\ InwardTypes /\ OutwardTypes /\ \A s \in Sockets : Local(s)

LEMMA EmptyIs == Open(<<>>, <<>>) /\ Split(<<>>, <<>>)
<1>1. Boundaries(<<>>) = {}
  BY DEF Boundaries
<1>2. SubSeq(<<>>, 1, 0) = <<>>
  BY SubSeqEmpty
<1>3. Len(<<>>) = 0 /\ 0 + 1 = 1
  OBVIOUS
<1>4. After(<<>>, 0, <<>>)
  BY <1>1, <1>2, <1>3 DEF After
<1>5. Open(<<>>, <<>>)
  BY <1>3, <1>4 DEF Open
<1>6. Split(<<>>, <<>>)
  BY <1>1, <1>3, FS_EmptySet DEF Split
<1> QED BY <1>5, <1>6

LEMMA AsioInit == NetAssumption /\ Init => AsioInv
<1> SUFFICES ASSUME NetAssumption, Init PROVE AsioInv
  OBVIOUS
<1>1. PICK s \in Sockets : s = CHOOSE t \in Sockets : TRUE
  BY DEF NetAssumption
<1>2. /\ nRefCount = [t \in Sockets |-> IF t = s THEN 1 ELSE 0]
      /\ recv = [t \in Sockets |-> IF t = s THEN "listening" ELSE "new"]
      /\ vpClientSocks = {s}
      /\ deleted = [t \in Sockets |-> 0] /\ releasing = [t \in Sockets |-> 0]
      /\ send = [t \in Sockets |-> FALSE] /\ main = "run"
      /\ closing = [t \in Sockets |-> FALSE] /\ keep = [t \in Sockets |-> FALSE]
      /\ cut = [t \in Sockets |-> FALSE]
  BY <1>1 DEF Init
<1>3. /\ rawBuffer = [t \in Sockets |-> <<>>] /\ recvBuffer = [t \in Sockets |-> <<>>]
      /\ rest = [t \in Sockets |-> <<>>] /\ qSend = [t \in Sockets |-> <<>>]
      /\ flying = [t \in Sockets |-> <<>>] /\ received = [t \in Sockets |-> <<>>]
      /\ requests = [t \in Sockets |-> <<>>] /\ answers = [t \in Sockets |-> <<>>]
      /\ wire = [t \in Sockets |-> <<>>]
  BY DEF Init
<1>4. SocketTypes
  BY <1>2 DEF SocketTypes
<1>5. InwardTypes
  <2>1. input \in [Sockets -> Seq(Bytes)]
    <3>1. \A t \in Sockets : Streams[t] \subseteq Seq(Bytes)
      BY DEF NetAssumption, Bytes
    <3>2. /\ input \in [Sockets -> UNION {Streams[t] : t \in Sockets}]
          /\ \A t \in Sockets : input[t] \in Streams[t]
      BY DEF Init
    <3> QED BY <3>1, <3>2
  <2> QED BY <1>3, <2>1 DEF InwardTypes
<1>6. OutwardTypes
  BY <1>3 DEF OutwardTypes
<1>7. ASSUME NEW t \in Sockets PROVE Local(t)
  <2>1. Counted(t)
    BY <1>2 DEF Counted, Refs, Receiving, One, Handling
  <2>2. Queued(t)
    BY <1>2, <1>3 DEF Queued
  <2>3. Framed(t)
    BY <1>3, EmptyIs DEF Framed
  <2>4. Resting(t)
    <3>1. rest[t] = <<>> /\ answers[t] = <<>> /\ wire[t] = <<>> /\ qSend[t] = <<>>
      BY <1>3
    <3>2. recv[t] \notin {"post", "start", "next"}
      BY <1>2
    <3>3. Answered(t) = {}
      BY <3>1 DEF Answered
    <3>4. DOMAIN Block(t) = {} /\ Elements(rest[t]) = {} /\ Elements(wire[t]) = {}
      BY <3>1 DEF Block, Elements
    <3>5. Reach(wire[t], Block(t)) = {}
      BY <3>4 DEF Reach
    <3>6. Ordered(wire[t], Block(t), rest[t], {})
      BY <3>1, <3>4 DEF Ordered
    <3>7. Once(wire[t], Block(t))
      BY <3>1, <3>4 DEF Once
    <3>8. Len(rest[t]) <= BufferSize
      BY <3>1 DEF NetAssumption
    <3> QED BY <3>1, <3>2, <3>3, <3>4, <3>5, <3>6, <3>7, <3>8 DEF Resting, Flow, Single
  <2> QED BY <2>1, <2>2, <2>3, <2>4 DEF Local
<1> QED BY <1>4, <1>5, <1>6, <1>7 DEF AsioInv

LEMMA AsioNext == NetAssumption /\ AsioInv /\ [Next]_vars => AsioInv'
<1> SUFFICES ASSUME NetAssumption, AsioInv, [Next]_vars PROVE AsioInv'
  OBVIOUS
<1>1. /\ SocketTypes /\ InwardTypes /\ OutwardTypes
      /\ \A s \in Sockets : Counted(s) /\ Queued(s) /\ Framed(s) /\ Resting(s)
  BY DEF AsioInv, Local
<1>2. SocketTypes' /\ \A s \in Sockets : Counted(s)'
  BY <1>1, LifeNext
<1>3. \A s \in Sockets : Queued(s)'
  BY <1>1, QueuedNext, DataAre
<1>4. InwardTypes' /\ \A s \in Sockets : Framed(s)'
  BY <1>1, InwardNext
<1>5. OutwardTypes'
  BY <1>1, OutwardNext
<1>6. \A s \in Sockets : Resting(s)'
  BY <1>1, <1>4, <1>5, RestingNext
<1> QED BY <1>2, <1>3, <1>4, <1>5, <1>6 DEF AsioInv, Local

LEMMA AsioAlways == Spec => []AsioInv
<1>1. NetAssumption
  BY NetAssumption
<1> QED BY <1>1, AsioInit, AsioNext, PTL DEF Spec

(* A receive never brings more than BufferSize bytes into rawBuffer.       *)
Short == \A s \in Sockets : Len(rawBuffer[s]) <= BufferSize

LEMMA ShortNext ==
  ASSUME NetAssumption, InwardTypes, \A s \in Sockets : Framed(s), Short, [Next]_vars
  PROVE  Short'
<1> USE DEF vars, life, inward, answer, outward
<1>0. BufferSize \in Nat /\ \A s \in Sockets : rawBuffer[s] \in Seq(Bytes)
  BY DEF NetAssumption, InwardTypes
<1>1. ASSUME UNCHANGED rawBuffer PROVE Short'
  BY <1>1 DEF Short
<1>2. ASSUME NEW s \in Sockets, NEW new, Len(new) <= BufferSize,
             rawBuffer' = [rawBuffer EXCEPT ![s] = new]
      PROVE  Short'
  BY <1>2 DEF Short, InwardTypes
<1>3. ASSUME NEW s \in Sockets, doRecv(s) PROVE Short'
  <2>1. PICK n \in 1 .. Len(input[s]) :
          n <= BufferSize /\ rawBuffer' = [rawBuffer EXCEPT ![s] = SubSeq(input[s], 1, n)]
    BY <1>3 DEF doRecv
  <2>2. input[s] \in Seq(Bytes)
    BY DEF InwardTypes
  <2>3. Len(SubSeq(input[s], 1, n)) <= BufferSize
    BY <2>1, <2>2
  <2> QED BY <1>2, <2>1, <2>3
<1>4. ASSUME NEW s \in Sockets, ReceiveRequest(s) PROVE Short'
  <2>1. PICK i \in 1 .. Len(rawBuffer[s]) :
          rawBuffer' = [rawBuffer EXCEPT ![s] = SubSeq(rawBuffer[s], i + 1, Len(rawBuffer[s]))]
    BY <1>4, RequestIs
  <2>2. Len(SubSeq(rawBuffer[s], i + 1, Len(rawBuffer[s]))) <= Len(rawBuffer[s])
    BY <1>0, <2>1
  <2>3. Len(SubSeq(rawBuffer[s], i + 1, Len(rawBuffer[s]))) <= BufferSize
    BY <1>0, <2>2 DEF Short
  <2> QED BY <1>2, <2>1, <2>3
<1>5. ASSUME NEW s \in Sockets, ReceiveRest(s) PROVE Short'
  <2>1. rawBuffer' = [rawBuffer EXCEPT ![s] = <<>>]
    BY <1>5 DEF ReceiveRest
  <2>2. Len(<<>>) <= BufferSize
    BY <1>0
  <2> QED BY <1>2, <2>1, <2>2
<1>6. ASSUME NEW s \in Sockets,
             \/ doAccept(s) \/ doAcceptError(s) \/ doRecvError(s) \/ doSend(s) \/ doSendError(s)
             \/ EndRecv(s) \/ postToSendQueue(s) \/ StartSend(s) \/ NextBlock(s)
             \/ AfterAnswer(s) \/ EndSend(s)
      PROVE  UNCHANGED rawBuffer
  BY <1>6 DEF doAccept, doAcceptError, doRecvError, doSend, doSendError, EndRecv,
              postToSendQueue, StartSend, NextBlock, AfterAnswer, EndSend
<1>7. ASSUME stopServer \/ UNCHANGED vars PROVE UNCHANGED rawBuffer
  BY <1>7 DEF stopServer, LockSocks, StopService, DeleteSockets, MarkSocket
<1> QED BY <1>1, <1>3, <1>4, <1>5, <1>6, <1>7 DEF Next, Handlers

(* The variables of netserver_asio.cpp keep their types, and rawBuffer,    *)
(* the array that async_receive fills, never holds more than it can.       *)
THEOREM AsioTypeCorrect == Spec => []TypeOK
<1>0. NetAssumption
  BY NetAssumption
<1>1. AsioInv /\ Short => TypeOK
  <2> SUFFICES ASSUME AsioInv, Short PROVE TypeOK
    OBVIOUS
  <2>1. SocketTypes /\ InwardTypes
    BY DEF AsioInv
  <2>2. ASSUME NEW s \in Sockets, NEW x \in {input[s], rawBuffer[s], recvBuffer[s], received[s]}
        PROVE  \A i \in DOMAIN x : x[i] \in Bytes
    <3>1. x \in Seq(Bytes)
      BY <2>1 DEF InwardTypes
    <3> QED BY <3>1
  <2>3. nRefCount \in [Sockets -> Int]
    BY <2>1 DEF SocketTypes
  <2> QED BY <2>1, <2>2, <2>3 DEF TypeOK, SocketTypes, Short
<1>2. Init => Short
  BY <1>0 DEF Init, Short, NetAssumption
<1>3. AsioInv /\ Short /\ [Next]_vars => Short'
  BY <1>0, ShortNext DEF AsioInv, Local
<1> QED BY <1>1, <1>2, <1>3, AsioAlways, PTL DEF Spec

(* Whatever the order in which the two chains of handlers of a socket and  *)
(* stopServer let it go, TSocketEx is deleted exactly once, and after its  *)
(* last use.                                                               *)
THEOREM SocketsAreDeletedOnce == Spec => []DeletedOnce
<1>1. AsioInv => DeletedOnce
  <2> SUFFICES ASSUME AsioInv PROVE DeletedOnce
    OBVIOUS
  <2>1. ASSUME NEW s \in Sockets
        PROVE  /\ Handling(s) \/ (Running /\ send[s]) => deleted[s] = 0
               /\ deleted[s] <= 1
               /\ recv[s] = "off" /\ ~send[s] /\ releasing[s] = 0 => deleted[s] = 1
               /\ main = "done" /\ recv[s] # "new" => deleted[s] = 1
    <3>1. Counted(s) /\ SocketTypes
      BY DEF AsioInv, Local
    <3> QED BY <3>1 DEF Counted, SocketTypes, Refs, Receiving, One, Handling, Running
  <2> QED BY <2>1 DEF DeletedOnce, NoUseAfterDelete
<1> QED BY <1>1, AsioAlways, PTL

(* receivedData cuts the requests at the empty lines, however the bytes    *)
(* arrive.                                                                 *)
THEOREM RequestsAreFramed == Spec => []FramingIsRight
<1>1. AsioInv => FramingIsRight
  BY FramingIs DEF AsioInv, Local, Framed
<1> QED BY <1>1, AsioAlways, PTL

(* While no send fails or is cut short the answers reach the client in     *)
(* order and, when the queue is empty or the socket gone, completely; if   *)
(* each fits into a buffer nothing is sent twice.                          *)
THEOREM AnswersAreNotLost == Spec => []NothingIsLost
<1>1. AsioInv => NothingIsLost
  <2> SUFFICES ASSUME AsioInv, NEW s \in Sockets, ~cut[s]
               PROVE  /\ \A i \in DOMAIN wire[s] : \A b \in Answered(s) :
                           Precedes(b, wire[s][i]) => \E j \in 1 .. i : wire[s][j] = b
                      /\ (qSend[s] = <<>> /\ rest[s] = <<>>) \/ (deleted[s] = 1 /\ main = "run")
                           => Answered(s) = Sent(s)
                      /\ (\A k \in DOMAIN answers[s] : Len(answers[s][k]) <= BufferSize)
                           => \A i, j \in DOMAIN wire[s] : i # j => wire[s][i] # wire[s][j]
    BY DEF NothingIsLost
  <2>1. SocketTypes /\ OutwardTypes /\ Counted(s) /\ Queued(s) /\ Resting(s)
    BY DEF AsioInv, Local
  <2>2. /\ Flow(wire[s], Block(s), rest[s], Answered(s))
        /\ Fits(s) => Single(wire[s], Block(s), rest[s])
    BY <2>1 DEF Resting
  <2>3. \A i \in DOMAIN wire[s] : \A b \in Answered(s) :
           Precedes(b, wire[s][i]) => \E j \in 1 .. i : wire[s][j] = b
    BY <2>2 DEF Flow, Ordered
  <2>4. Fits(s) => \A i, j \in DOMAIN wire[s] : i # j => wire[s][i] # wire[s][j]
    BY <2>2 DEF Single, Once
  <2>5. ASSUME deleted[s] = 1, main = "run" PROVE qSend[s] = <<>> /\ rest[s] = <<>>
    <3>1. nRefCount[s] = 0 /\ recv[s] # "new"
      BY <2>1, <2>5 DEF Counted, One
    <3>2. recv[s] = "off" /\ ~send[s]
      BY <2>1, <3>1 DEF Counted, SocketTypes, Refs, Receiving, One
    <3> QED BY <2>1, <3>2 DEF Queued, Resting
  <2>6. ASSUME qSend[s] = <<>>, rest[s] = <<>> PROVE Answered(s) = Sent(s)
    <3>1. DOMAIN Block(s) = {} /\ Elements(rest[s]) = {} /\ Elements(wire[s]) = Sent(s)
      BY <2>6 DEF Block, Elements, Sent
    <3>2. Reach(wire[s], Block(s)) = Sent(s)
      BY <3>1 DEF Reach
    <3> QED BY <2>2, <3>1, <3>2 DEF Flow
  <2> QED BY <2>3, <2>4, <2>5, <2>6 DEF Fits
<1> QED BY <1>1, AsioAlways, PTL
=============================================================================

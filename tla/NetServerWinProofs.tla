------------------------- MODULE NetServerWinProofs -------------------------
(***************************************************************************)
(* Proofs about NetServerWin, for any number of threads, clients, contexts *)
(* and errors and whatever the clients send: no socket is used after it    *)
(* was deleted or deleted twice, no block of an answer is lost, sent twice *)
(* or left in the queue, and a client's requests are executed in its order. *)
(***************************************************************************)
EXTENDS NetServerWin, SequenceTheorems, FiniteSetTheorems, TLAPS

Early == {"repost", "bind", "read"}
Later == {"scan", "post", "start", "end"}

Blocks == (Nat \X Nat) \union {<<>>}
Request == [of : Clients, k : Nat, keep : BOOLEAN, blocks : Nat]

(* What a thread may be doing.                                             *)
Exit == [pc |-> "exit"]
SendJob == [pc : {"resend", "erase"}, at : Clients]
RecvJob == [pc : Later, at : Clients, data : Seq(Request), rest : Seq(Blocks),
            keep : BOOLEAN, first : {FALSE}]
AcceptJob == [pc : Early \union Later, at : Clients, x : Contexts, data : Seq(Request),
              rest : Seq(Blocks), keep : BOOLEAN, first : {TRUE}]
Job == {Idle, Exit} \union SendJob \union RecvJob \union AcceptJob

SocketTypes ==
  /\ nRefCount \in [Clients -> Nat] /\ deleted \in [Clients -> Nat]
  /\ vpClientSocks \subseteq Clients
  /\ recvCtx \in [Clients -> {"none", "posted", "taken", "lost"}]
  /\ sendCtx \in [Clients -> {"none", "held", "posted", "taken", "lost"}]
  /\ closing \in [Clients -> BOOLEAN]

PortTypes ==
  /\ accept \in [Contexts -> {"posted", "complete", "taken", "erased", "lost"}]
  /\ sockClient \in [Contexts -> Clients] /\ buffer \in [Contexts -> Seq(Request)]
  /\ worker \in [Workers -> Job]
  /\ main \in {"run", "mark", "wait", "done"}
  /\ errors \in 0 .. MaxErrors

DataTypes ==
  /\ block \in [Clients -> Blocks] /\ qSend \in [Clients -> Seq(Blocks)]
  /\ input \in [Clients -> Seq(Request)] /\ executed \in [Clients -> Seq(Request)]
  /\ answered \in [Clients -> Seq(Blocks)] /\ wire \in [Clients -> Seq(Blocks)]
  /\ blemish \in [Clients -> SUBSET {"first", "late", "send"}]

Types == SocketTypes /\ PortTypes /\ DataTypes

(* The threads that have something of client c: its data, its send, its    *)
(* TSocketEx from doAccept, an answer to it that is not yet queued.        *)
Receives(w, c) == worker[w].pc \in Early \union Later /\ worker[w].at = c
Sends(w, c)    == worker[w].pc \in {"resend", "erase"} /\ worker[w].at = c
Accepts(w, c)  == Receives(w, c) /\ worker[w].first
Posts(w, c)    == worker[w].pc \in {"post", "start"} /\ worker[w].at = c

(* After the threads have been ended by stopServer, nothing goes on.       *)
Ended  == \A w \in Workers : worker[w].pc = "exit"
Frozen == main \in {"wait", "done"} /\ Ended

(* One thread receives for a client and one sends to it; what they have    *)
(* taken is marked so.                                                     *)
Alone(c) ==
  /\ \A v, w \in Workers : Receives(v, c) /\ Receives(w, c) => v = w
  /\ \A v, w \in Workers : Sends(v, c) /\ Sends(w, c) => v = w
  /\ \A w \in Workers :
       /\ Receives(w, c) => recvCtx[c] = IF worker[w].first THEN "none" ELSE "taken"
       /\ Receives(w, c) /\ worker[w].pc = "start" => sendCtx[c] = "held"
       /\ Receives(w, c) /\ worker[w].pc = "end" => worker[w].data = <<>>
       /\ Sends(w, c) => sendCtx[c] = "taken"

(* The references to the socket of c: of doAccept, of the receive, of the  *)
(* send.  The list of sockets has those that are referred to.              *)
One(p) == IF p THEN 1 ELSE 0
Accepting(c) == \E w \in Workers : Accepts(w, c)
Refs(c) == One(Accepting(c)) + One(recvCtx[c] # "none")
                              + One(sendCtx[c] \in {"posted", "taken", "lost"})
Counted(c) ==
  /\ nRefCount[c] >= Refs(c)
  /\ Frozen \/ nRefCount[c] = Refs(c)
  /\ c \in vpClientSocks <=> nRefCount[c] > 0
  /\ deleted[c] <= 1
  /\ main # "done" /\ nRefCount[c] > 0 => deleted[c] = 0
  /\ main = "done" /\ nRefCount[c] > 0 => deleted[c] = 1

(* The connection of c has not been taken by a thread.                     *)
Coming(x, c) == accept[x] = "complete" /\ sockClient[x] = c
New(c) == nRefCount[c] = 0 /\ deleted[c] = 0

(* A client is accepted once, and its context is free again only when the  *)
(* thread that took it has posted it.                                      *)
Accepted ==
  /\ main = "done" => Ended
  /\ \A x \in Contexts, c \in Clients : Coming(x, c) => main = "done" \/ New(c)
  /\ \A x, y \in Contexts, c \in Clients : Coming(x, c) /\ Coming(y, c) => x = y
  /\ \A v, w \in Workers : worker[w].pc = "repost" =>
       /\ accept[worker[w].x] = "taken"
       /\ worker[v].pc = "repost" /\ worker[v].x = worker[w].x => v = w

(* The requests of s are those of c from the n-th on.                      *)
Numbered(c, n, s) == \A i \in DOMAIN s : s[i].of = c /\ s[i].k = n + i

(* Nothing of c has been executed (done): s is the first that it has sent, *)
(* more the rest.                                                          *)
Begins(c, done, s, more) == done = <<>> /\ Numbered(c, 0, s) /\ Numbered(c, Len(s), more)

(* What was executed for c, is in a buffer or a thread's hands, and has    *)
(* not arrived are its requests in order.                                  *)
Own(c) == "first" \notin blemish[c] =>
  /\ Numbered(c, 0, executed[c])
  /\ New(c) /\ (\A x \in Contexts : ~Coming(x, c)) => Begins(c, executed[c], <<>>, input[c])
  /\ \A x \in Contexts : Coming(x, c) => Begins(c, executed[c], buffer[x], input[c])
  /\ \A w \in Workers : Receives(w, c) =>
       /\ worker[w].pc \in Early /\ sockClient[worker[w].x] = c
            => Begins(c, executed[c], buffer[worker[w].x], input[c])
       /\ worker[w].pc \in Later =>
            /\ Numbered(c, Len(executed[c]), worker[w].data)
            /\ Numbered(c, Len(executed[c]) + Len(worker[w].data), input[c])
  /\ recvCtx[c] = "posted" => Numbered(c, Len(executed[c]), input[c])

(* The blocks of the answers are sent, under way, queued, or with the      *)
(* thread that queues them, in this order.                                 *)
InFlight(c) ==
  IF \/ sendCtx[c] \in {"held", "posted", "lost"}
     \/ \E w \in Workers : Sends(w, c) /\ worker[w].pc = "resend"
  THEN <<block[c]>> ELSE <<>>
Sent(c) == wire[c] \o (InFlight(c) \o qSend[c])

Clean(c) == blemish[c] \intersect {"send", "late"} = {}
InOrder(c) == Clean(c) =>
  /\ IsPrefix(wire[c], answered[c])
  /\ sendCtx[c] = "none" => qSend[c] = <<>>
  /\ ~Frozen =>
       /\ \A w \in Workers : Posts(w, c) => Sent(c) \o worker[w].rest = answered[c]
       /\ (\A w \in Workers : ~Posts(w, c)) => Sent(c) = answered[c]
       /\ \A w \in Workers : Sends(w, c) /\ worker[w].pc = "erase" => qSend[c] = <<>>

Local(c) == Alone(c) /\ Counted(c) /\ Own(c) /\ InOrder(c)

WinInv == Types /\ Accepted /\ \A c \in Clients : Local(c)

-----------------------------------------------------------------------------
(* The threads *)

(* What a job is can be told from its pc.                                  *)
LEMMA JobIs ==
  ASSUME NEW j \in Job
  PROVE  /\ j.pc \in {"wait", "exit", "resend", "erase"} \union Early \union Later
         /\ j.pc = "wait" => j = Idle
         /\ j.pc \in Early => j \in AcceptJob /\ j.first /\ j.x \in Contexts
         /\ j.pc \in Later => j \in RecvJob \/ j \in AcceptJob
         /\ j.pc \in {"resend", "erase"} => j \in SendJob
         /\ j.pc \in Early \union Later =>
              /\ j.at \in Clients /\ j.data \in Seq(Request) /\ j.rest \in Seq(Blocks)
              /\ j.keep \in BOOLEAN /\ j.first \in BOOLEAN
              /\ j.first => j.x \in Contexts
<1>1. CASE j = Idle \/ j = Exit
  BY <1>1 DEF Idle, Exit, Early, Later
<1>2. CASE j \in SendJob
  BY <1>2 DEF SendJob, Early, Later
<1>3. CASE j \in RecvJob
  BY <1>3 DEF RecvJob, Early, Later
<1>4. CASE j \in AcceptJob
  BY <1>4 DEF AcceptJob, Early, Later
<1> QED BY <1>1, <1>2, <1>3, <1>4 DEF Job

(* A step of the thread w.                                                 *)
Only(w) == /\ worker' \in [Workers -> Job]
           /\ \A v \in Workers \ {w} : worker'[v] = worker[v]

(* w goes on with its data in another place.                               *)
LEMMA GoesOn ==
  ASSUME Types, NEW w \in Workers, worker[w].pc \in Early \union Later,
         NEW p \in Early \union Later, Goto(w, p), worker[w].first \/ p \in Later
  PROVE  /\ Only(w) /\ worker'[w].pc = p
         /\ worker'[w].at = worker[w].at /\ worker'[w].data = worker[w].data
         /\ worker'[w].rest = worker[w].rest /\ worker'[w].keep = worker[w].keep
         /\ worker'[w].first = worker[w].first
         /\ worker[w].first => worker'[w].x = worker[w].x
<1> DEFINE j == [worker[w] EXCEPT !.pc = p]
<1>1. worker[w] \in Job /\ worker' = [worker EXCEPT ![w] = j]
  BY DEF Types, PortTypes, Goto
<1>2. worker[w] \in RecvJob \/ worker[w] \in AcceptJob
  BY <1>1, JobIs DEF Early, Later
<1>3. CASE worker[w] \in RecvJob
  <2>1. worker[w].first = FALSE
    BY <1>3 DEF RecvJob
  <2>2. j \in RecvJob /\ j.pc = p /\ j.at = worker[w].at /\ j.data = worker[w].data
        /\ j.rest = worker[w].rest /\ j.keep = worker[w].keep /\ j.first = worker[w].first
    BY <1>3, <2>1 DEF RecvJob
  <2> HIDE DEF j
  <2> QED BY <1>1, <2>1, <2>2 DEF Types, PortTypes, Only, Job
<1>4. CASE worker[w] \in AcceptJob
  <2>2. j \in AcceptJob /\ j.pc = p /\ j.at = worker[w].at /\ j.data = worker[w].data
        /\ j.rest = worker[w].rest /\ j.keep = worker[w].keep /\ j.first = worker[w].first
        /\ j.x = worker[w].x
    BY <1>4 DEF AcceptJob
  <2> HIDE DEF j
  <2> QED BY <1>1, <2>2 DEF Types, PortTypes, Only, Job
<1> QED BY <1>2, <1>3, <1>4

LEMMA Finishes ==
  ASSUME Types, NEW w \in Workers, Done(w)
  PROVE  Only(w) /\ worker'[w].pc = "wait"
<1>1. Idle \in Job /\ Idle.pc = "wait"
  BY DEF Job, Idle
<1> QED BY <1>1 DEF Types, PortTypes, Done, Only

LEMMA Exits ==
  ASSUME Types, NEW w \in Workers, Waits(w), Goto(w, "exit")
  PROVE  Only(w) /\ worker'[w].pc = "exit" /\ worker[w].pc = "wait"
<1>1. [Idle EXCEPT !.pc = "exit"] = Exit /\ Exit \in Job /\ Exit.pc = "exit" /\ Idle.pc = "wait"
  BY DEF Idle, Exit, Job
<1>2. worker[w] = Idle /\ worker' = [worker EXCEPT ![w] = [Idle EXCEPT !.pc = "exit"]]
  BY DEF Waits, Goto
<1> QED BY <1>1, <1>2 DEF Types, PortTypes, Only

-----------------------------------------------------------------------------
(* What a step of the thread w does to a client c, one part of Local at a  *)
(* time.                                                                   *)

LEMMA AtWork ==
  ASSUME WinInv, NEW w \in Workers, worker[w].pc # "exit"
  PROVE  ~Frozen /\ main # "done"
  BY DEF WinInv, Accepted, Ended, Frozen

LEMMA AloneStep ==
  ASSUME NEW c \in Clients, Alone(c), NEW w \in Workers, Only(w),
         Receives(w, c)' => \/ Receives(w, c)
                            \/ \A v \in Workers : ~Receives(v, c),
         Sends(w, c)' => \/ Sends(w, c)
                         \/ \A v \in Workers : ~Sends(v, c),
         Receives(w, c)' =>
           /\ recvCtx'[c] = IF worker'[w].first THEN "none" ELSE "taken"
           /\ worker'[w].pc = "start" => sendCtx'[c] = "held"
           /\ worker'[w].pc = "end" => worker'[w].data = <<>>,
         Sends(w, c)' => sendCtx'[c] = "taken",
         \A v \in Workers \ {w} :
           /\ Receives(v, c) => recvCtx'[c] = recvCtx[c]
           /\ Receives(v, c) /\ worker[v].pc = "start" => sendCtx'[c] = sendCtx[c]
           /\ Sends(v, c) => sendCtx'[c] = sendCtx[c]
  PROVE  Alone(c)'
<1>1. \A v \in Workers \ {w} : /\ worker'[v] = worker[v]
                               /\ Receives(v, c)' <=> Receives(v, c)
                               /\ Sends(v, c)' <=> Sends(v, c)
  BY DEF Only, Receives, Sends
<1> QED BY <1>1 DEF Alone

LEMMA AcceptingStep ==
  ASSUME NEW c \in Clients, NEW w \in Workers, Only(w)
  PROVE  /\ (Accepts(w, c)' <=> Accepts(w, c)) => (Accepting(c)' <=> Accepting(c))
         /\ Accepts(w, c)' => Accepting(c)'
         /\ Alone(c) /\ Receives(w, c) /\ ~Accepts(w, c)' => ~Accepting(c)'
<1>1. \A v \in Workers \ {w} : Accepts(v, c)' <=> Accepts(v, c)
  BY DEF Only, Receives, Accepts
<1>2. Accepting(c)' <=> \E v \in Workers : Accepts(v, c)'
  BY DEF Accepting
<1>3. \A v \in Workers : Accepts(v, c) => Receives(v, c)
  BY DEF Accepts
<1> QED BY <1>1, <1>2, <1>3 DEF Accepting, Alone

LEMMA RefsSame ==
  ASSUME NEW c \in Clients, Accepting(c)' <=> Accepting(c),
         recvCtx'[c] = "none" <=> recvCtx[c] = "none",
         sendCtx'[c] \in {"posted", "taken", "lost"} <=>
           sendCtx[c] \in {"posted", "taken", "lost"}
  PROVE  Refs(c)' = Refs(c)
  BY DEF Refs, One

LEMMA RefsNat ==
  ASSUME NEW c \in Clients
  PROVE  Refs(c) \in Nat /\ Refs(c)' \in Nat
  BY DEF Refs, One

LEMMA CountedSame ==
  ASSUME NEW c \in Clients, Counted(c), ~Frozen, main # "done", main' # "done",
         nRefCount'[c] = nRefCount[c], deleted'[c] = deleted[c],
         c \in vpClientSocks' <=> c \in vpClientSocks, Refs(c)' = Refs(c)
  PROVE  Counted(c)'
  BY DEF Counted

LEMMA Released ==
  ASSUME SocketTypes, NEW c \in Clients, Counted(c), ~Frozen, main # "done", main' # "done",
         Release(c), Refs(c)' = Refs(c) - 1
  PROVE  Counted(c)' /\ ~New(c) /\ ~New(c)'
<1>1. Refs(c)' \in Nat /\ Refs(c) \in Nat
  BY RefsNat
<1>2. nRefCount[c] = Refs(c) /\ nRefCount[c] \in Nat /\ deleted[c] \in Nat
  BY DEF Counted, SocketTypes
<1>3. nRefCount[c] >= 1 /\ deleted[c] = 0 /\ c \in vpClientSocks
  BY <1>1, <1>2 DEF Counted
<1>4. nRefCount'[c] = nRefCount[c] - 1
  BY DEF Release, SocketTypes
<1>5. CASE nRefCount[c] = 1
  <2>1. deleted'[c] = 1 /\ c \notin vpClientSocks'
    BY <1>3, <1>5 DEF Release, SocketTypes
  <2> QED BY <1>1, <1>2, <1>4, <1>5, <2>1 DEF Counted, New
<1>6. CASE nRefCount[c] # 1
  <2>1. deleted'[c] = 0 /\ c \in vpClientSocks'
    BY <1>3, <1>6 DEF Release
  <2>2. nRefCount'[c] > 0
    BY <1>2, <1>3, <1>4, <1>6
  <2> QED BY <1>1, <1>2, <1>4, <2>1, <2>2 DEF Counted, New
<1> QED BY <1>5, <1>6

(* ... and to the sockets of others, and to the types.                     *)
LEMMA ReleasedOthers ==
  ASSUME SocketTypes, NEW c \in Clients, nRefCount[c] >= 1, Release(c)
  PROVE  /\ nRefCount' \in [Clients -> Nat] /\ deleted' \in [Clients -> Nat]
         /\ vpClientSocks' \subseteq Clients
         /\ \A d \in Clients \ {c} :
              /\ nRefCount'[d] = nRefCount[d] /\ deleted'[d] = deleted[d]
              /\ d \in vpClientSocks' <=> d \in vpClientSocks
<1>1. nRefCount[c] \in Nat /\ nRefCount[c] - 1 \in Nat
  BY DEF SocketTypes
<1>2. nRefCount' \in [Clients -> Nat] /\ \A d \in Clients \ {c} : nRefCount'[d] = nRefCount[d]
  BY <1>1 DEF Release, SocketTypes
<1>3. deleted' \in [Clients -> Nat] /\ \A d \in Clients \ {c} : deleted'[d] = deleted[d]
  BY DEF Release, SocketTypes
<1>4. vpClientSocks' = vpClientSocks \ {c} \/ vpClientSocks' = vpClientSocks
  BY DEF Release
<1> QED BY <1>2, <1>3, <1>4 DEF SocketTypes

LEMMA AddedRef ==
  ASSUME SocketTypes, NEW c \in Clients, Counted(c), ~Frozen, main # "done", main' # "done",
         AddRef(c), Refs(c)' = Refs(c) + 1, nRefCount[c] >= 1
  PROVE  /\ Counted(c)' /\ ~New(c)'
         /\ nRefCount' \in [Clients -> Nat]
         /\ \A d \in Clients \ {c} : nRefCount'[d] = nRefCount[d]
<1>1. Refs(c) \in Nat /\ nRefCount[c] \in Nat
  BY RefsNat DEF SocketTypes
<1>2. nRefCount'[c] = nRefCount[c] + 1
  BY DEF AddRef, SocketTypes
<1>3. /\ nRefCount' \in [Clients -> Nat]
      /\ \A d \in Clients \ {c} : nRefCount'[d] = nRefCount[d]
  BY <1>1 DEF AddRef, SocketTypes
<1>4. UNCHANGED <<deleted, vpClientSocks>>
  BY DEF AddRef
<1>5. nRefCount[c] = Refs(c) /\ c \in vpClientSocks /\ deleted[c] = 0
  BY <1>1 DEF Counted
<1> QED BY <1>1, <1>2, <1>3, <1>4, <1>5 DEF Counted, New

(* Own stays if w executes nothing for c and takes no data of it.          *)
LEMMA OwnKept ==
  ASSUME NEW c \in Clients, Own(c), NEW w \in Workers, Only(w),
         "first" \in blemish[c] => "first" \in blemish'[c],
         executed'[c] = executed[c], input'[c] = input[c],
         sockClient' = sockClient, buffer' = buffer,
         \A x \in Contexts : Coming(x, c)' <=> Coming(x, c),
         New(c)' => New(c),
         recvCtx'[c] = "posted" => recvCtx[c] = "posted",
         Receives(w, c)' =>
           /\ Receives(w, c) /\ worker'[w].data = worker[w].data
           /\ \/ worker[w].pc \in Early /\ worker'[w].pc \in Early
                   /\ worker'[w].x = worker[w].x
              \/ worker[w].pc \in Later /\ worker'[w].pc \in Later
  PROVE  Own(c)'
<1> SUFFICES ASSUME "first" \notin blemish'[c] PROVE Own(c)'
  BY DEF Own
<1>1. \A v \in Workers \ {w} : worker'[v] = worker[v] /\ (Receives(v, c)' <=> Receives(v, c))
  BY DEF Only, Receives
<1>2. Early \intersect Later = {}
  BY DEF Early, Later
<1>3. ASSUME NEW v \in Workers, Receives(v, c)'
      PROVE  /\ worker'[v].pc \in Early /\ sockClient'[worker'[v].x] = c
                  => Begins(c, executed'[c], buffer'[worker'[v].x], input'[c])
             /\ worker'[v].pc \in Later =>
                  /\ Numbered(c, Len(executed'[c]), worker'[v].data)
                  /\ Numbered(c, Len(executed'[c]) + Len(worker'[v].data), input'[c])
  <2>1. CASE v # w
    BY <1>1, <1>3, <2>1 DEF Own
  <2>2. CASE v = w
    BY <1>2, <1>3, <2>2 DEF Own
  <2> QED BY <2>1, <2>2
<1>4. /\ Numbered(c, 0, executed'[c])
      /\ recvCtx'[c] = "posted" => Numbered(c, Len(executed'[c]), input'[c])
      /\ New(c)' /\ (\A x \in Contexts : ~Coming(x, c)')
           => Begins(c, executed'[c], <<>>, input'[c])
      /\ \A x \in Contexts : Coming(x, c)' => Begins(c, executed'[c], buffer'[x], input'[c])
  BY DEF Own
<1> QED BY <1>3, <1>4 DEF Own

(* InOrder stays if w moves no block of c.                                 *)
LEMMA InOrderKept ==
  ASSUME NEW c \in Clients, InOrder(c), NEW w \in Workers, Only(w), ~Frozen,
         Clean(c)' => Clean(c),
         wire'[c] = wire[c], answered'[c] = answered[c], qSend'[c] = qSend[c],
         InFlight(c)' = InFlight(c),
         sendCtx'[c] = "none" => sendCtx[c] = "none",
         Posts(w, c)' <=> Posts(w, c),
         Posts(w, c) => worker'[w].rest = worker[w].rest,
         Sends(w, c)' /\ worker'[w].pc = "erase" => Sends(w, c) /\ worker[w].pc = "erase"
  PROVE  InOrder(c)'
<1> SUFFICES ASSUME Clean(c)', Clean(c) PROVE InOrder(c)'
  BY DEF InOrder
<1>1. \A v \in Workers \ {w} : /\ worker'[v] = worker[v] /\ (Posts(v, c)' <=> Posts(v, c))
                               /\ Sends(v, c)' <=> Sends(v, c)
  BY DEF Only, Posts, Sends
<1>2. Sent(c)' = Sent(c)
  BY DEF Sent
<1>3. \A v \in Workers : Posts(v, c)' => Sent(c)' \o worker'[v].rest = answered'[c]
  BY <1>1, <1>2 DEF InOrder
<1>4. (\A v \in Workers : ~Posts(v, c)') => Sent(c)' = answered'[c]
  BY <1>1, <1>2 DEF InOrder
<1>5. \A v \in Workers : Sends(v, c)' /\ worker'[v].pc = "erase" => qSend'[c] = <<>>
  BY <1>1 DEF InOrder
<1> QED BY <1>3, <1>4, <1>5 DEF InOrder

LEMMA InFlightSame ==
  ASSUME NEW c \in Clients, NEW w \in Workers, Only(w), block'[c] = block[c],
         sendCtx'[c] \in {"held", "posted", "lost"} <=> sendCtx[c] \in {"held", "posted", "lost"},
         Sends(w, c)' <=> Sends(w, c), Sends(w, c) => worker'[w].pc = worker[w].pc
  PROVE  InFlight(c)' = InFlight(c)
<1>1. \A v \in Workers : Sends(v, c)' /\ worker'[v].pc = "resend"
                           <=> Sends(v, c) /\ worker[v].pc = "resend"
  BY DEF Only, Sends
<1>2. (\E v \in Workers : Sends(v, c)' /\ worker'[v].pc = "resend")
         <=> (\E v \in Workers : Sends(v, c) /\ worker[v].pc = "resend")
  BY <1>1
<1> QED BY <1>2 DEF InFlight

(* The clients w has nothing to do with.                                   *)
SameSocket(c) == /\ nRefCount'[c] = nRefCount[c] /\ deleted'[c] = deleted[c]
                 /\ c \in vpClientSocks' <=> c \in vpClientSocks

SameData(c) ==
  /\ block'[c] = block[c] /\ qSend'[c] = qSend[c] /\ input'[c] = input[c]
  /\ executed'[c] = executed[c] /\ answered'[c] = answered[c] /\ wire'[c] = wire[c]
  /\ blemish'[c] = blemish[c]

Apart(w, c) == ~Receives(w, c) /\ ~Sends(w, c)

LEMMA OtherClients ==
  ASSUME WinInv, NEW w \in Workers, Only(w), worker[w].pc # "exit", main' = main,
         NEW c \in Clients, Apart(w, c), Apart(w, c)', SameSocket(c), SameData(c),
         recvCtx'[c] = recvCtx[c], sendCtx'[c] = sendCtx[c],
         sockClient' = sockClient, buffer' = buffer,
         \A x \in Contexts : Coming(x, c)' <=> Coming(x, c)
  PROVE  Local(c)'
<1> USE DEF Apart, SameSocket, SameData
<1>1. ~Frozen /\ main # "done" /\ Local(c)
  BY AtWork DEF WinInv
<1>2. Alone(c)'
  BY <1>1, AloneStep DEF Local
<1>3. Accepting(c)' <=> Accepting(c)
  <2>1. ~Accepts(w, c) /\ ~Accepts(w, c)'
    BY DEF Accepts
  <2> QED BY <2>1, AcceptingStep
<1>4. Counted(c)'
  <2>1. Refs(c)' = Refs(c)
    BY <1>3, RefsSame
  <2> QED BY <1>1, <2>1, CountedSame DEF Local
<1>5. Own(c)'
  <2>1. New(c)' => New(c)
    BY DEF New
  <2> QED BY <1>1, <2>1, OwnKept DEF Local
<1>6. InOrder(c)'
  <2>1. ~Posts(w, c) /\ ~Posts(w, c)'
    BY DEF Posts, Receives, Later
  <2>2. InFlight(c)' = InFlight(c)
    BY InFlightSame
  <2>3. Clean(c)' => Clean(c)
    BY DEF Clean
  <2> QED BY <1>1, <2>1, <2>2, <2>3, InOrderKept DEF Local
<1> QED BY <1>2, <1>4, <1>5, <1>6 DEF Local

LEMMA AcceptedKept ==
  ASSUME Accepted, NEW w \in Workers, Only(w), main' = main, main # "done",
         sockClient' = sockClient,
         \A x \in Contexts : accept'[x] = "complete" => accept[x] = "complete",
         \A d \in Clients : New(d) => New(d)',
         \A v \in Workers \ {w} : worker[v].pc = "repost" =>
            accept'[worker[v].x] = "taken",
         worker'[w].pc # "repost"
  PROVE  Accepted'
<1>1. \A v \in Workers \ {w} : worker'[v] = worker[v]
  BY DEF Only
<1>2. \A v, u \in Workers : worker'[u].pc = "repost" =>
        /\ accept'[worker'[u].x] = "taken"
        /\ worker'[v].pc = "repost" /\ worker'[v].x = worker'[u].x => v = u
  BY <1>1 DEF Accepted
<1>3. \A x \in Contexts, c \in Clients : Coming(x, c)' => Coming(x, c)
  BY DEF Coming
<1>4. \A x \in Contexts, c \in Clients : Coming(x, c)' => New(c)'
  BY <1>3 DEF Accepted
<1> QED BY <1>2, <1>3, <1>4 DEF Accepted

(* The client whose data the thread w has.                                 *)
LEMMA AtClient ==
  ASSUME WinInv, NEW w \in Workers, worker[w].pc \in Early \union Later
  PROVE  /\ worker[w].at \in Clients /\ Receives(w, worker[w].at) /\ ~Sends(w, worker[w].at)
         /\ \A d \in Clients \ {worker[w].at} : Apart(w, d)
         /\ Local(worker[w].at) /\ nRefCount[worker[w].at] >= 1
         /\ ~Frozen /\ main # "done" /\ worker[w].pc # "exit"
<1> DEFINE c == worker[w].at
<1>1. worker[w] \in Job /\ worker[w].pc \notin {"resend", "erase", "exit"}
  BY DEF WinInv, Types, PortTypes, Early, Later
<1>2. c \in Clients
  BY <1>1, JobIs
<1>3. Receives(w, c) /\ ~Sends(w, c) /\ \A d \in Clients \ {c} : Apart(w, d)
  BY <1>1 DEF Receives, Sends, Apart
<1>4. Local(c)
  BY <1>2 DEF WinInv
<1> HIDE DEF c
<1>5. nRefCount[c] >= 1
  <2>1. Accepting(c) \/ recvCtx[c] # "none"
    BY <1>3, <1>4 DEF Local, Alone, Accepting, Accepts
  <2>2. nRefCount[c] \in Nat /\ nRefCount[c] >= Refs(c)
    BY <1>2, <1>4 DEF WinInv, Types, SocketTypes, Local, Counted
  <2> QED BY <2>1, <2>2 DEF Refs, One
<1> QED BY <1>1, <1>2, <1>3, <1>4, <1>5, AtWork DEF c

(* ... and the client it sends to.                                         *)
LEMMA AtSend ==
  ASSUME WinInv, NEW w \in Workers, worker[w].pc \in {"resend", "erase"}
  PROVE  /\ worker[w].at \in Clients /\ Sends(w, worker[w].at) /\ ~Receives(w, worker[w].at)
         /\ \A d \in Clients \ {worker[w].at} : Apart(w, d)
         /\ Local(worker[w].at) /\ nRefCount[worker[w].at] >= 1
         /\ sendCtx[worker[w].at] = "taken"
         /\ ~Frozen /\ main # "done" /\ worker[w].pc # "exit"
<1> DEFINE c == worker[w].at
<1>1. worker[w] \in SendJob /\ worker[w].pc \notin Early \union Later \union {"exit"}
  BY JobIs DEF WinInv, Types, PortTypes, Early, Later
<1>2. c \in Clients
  BY <1>1 DEF SendJob
<1>3. Sends(w, c) /\ ~Receives(w, c) /\ \A d \in Clients \ {c} : Apart(w, d)
  BY <1>1 DEF Receives, Sends, Apart
<1>4. Local(c)
  BY <1>2 DEF WinInv
<1> HIDE DEF c
<1>5. sendCtx[c] = "taken"
  BY <1>3, <1>4 DEF Local, Alone
<1>6. nRefCount[c] >= 1
  <2>2. nRefCount[c] \in Nat /\ nRefCount[c] >= Refs(c)
    BY <1>2, <1>4 DEF WinInv, Types, SocketTypes, Local, Counted
  <2> QED BY <1>5, <2>2 DEF Refs, One
<1> QED BY <1>1, <1>2, <1>3, <1>4, <1>5, <1>6, AtWork DEF c

(* w gives back a reference to c and has nothing of c any more.            *)
LEMMA LetsGo ==
  ASSUME WinInv, NEW w \in Workers, NEW c \in Clients, worker[w].pc # "exit",
         \A d \in Clients \ {c} : Apart(w, d),
         Only(w), worker'[w].pc = "wait", Release(c), Refs(c)' = Refs(c) - 1,
         UNCHANGED <<port, block, qSend, stop, input, executed, answered, wire, errors>>,
         recvCtx' \in [Clients -> {"none", "posted", "taken", "lost"}],
         sendCtx' \in [Clients -> {"none", "held", "posted", "taken", "lost"}],
         closing' \in [Clients -> BOOLEAN],
         blemish' \in [Clients -> SUBSET {"first", "late", "send"}],
         \A d \in Clients \ {c} : /\ recvCtx'[d] = recvCtx[d] /\ sendCtx'[d] = sendCtx[d]
                                  /\ blemish'[d] = blemish[d],
         recvCtx'[c] = "posted" => recvCtx[c] = "posted",
         blemish[c] \subseteq blemish'[c]
  PROVE  /\ Types' /\ Accepted' /\ Counted(c)' /\ Own(c)'
         /\ \A d \in Clients \ {c} : Local(d)'
<1>1. ~Frozen /\ main # "done" /\ main' = main /\ Local(c) /\ Types /\ Accepted
  BY AtWork DEF WinInv, stop
<1>2. Counted(c)' /\ ~New(c) /\ ~New(c)'
  BY <1>1, Released DEF Local, Types
<1>3. nRefCount[c] >= 1
  <2>1. nRefCount[c] \in Nat /\ nRefCount[c] = Refs(c) /\ Refs(c)' \in Nat
    BY <1>1, RefsNat DEF Types, SocketTypes, Local, Counted
  <2> QED BY <2>1
<1>4. /\ nRefCount' \in [Clients -> Nat] /\ deleted' \in [Clients -> Nat]
      /\ vpClientSocks' \subseteq Clients /\ \A d \in Clients \ {c} : SameSocket(d)
  BY <1>1, <1>3, ReleasedOthers DEF Types, SameSocket
<1>5. Types'
  BY <1>1, <1>4 DEF Types, SocketTypes, PortTypes, DataTypes, port, stop, Only
<1>6. \A d \in Clients : New(d) <=> New(d)'
  BY <1>2, <1>4 DEF SameSocket, New
<1>7. \A d \in Clients, x \in Contexts : Coming(x, d)' <=> Coming(x, d)
  BY DEF port, Coming
<1>8. Accepted'
  <2>1. \A v \in Workers : worker[v].pc = "repost" => accept'[worker[v].x] = "taken"
    BY <1>1 DEF Accepted, port
  <2>2. /\ sockClient' = sockClient
        /\ \A x \in Contexts : accept'[x] = "complete" => accept[x] = "complete"
    BY DEF port
  <2> QED BY <1>1, <1>6, <2>1, <2>2, AcceptedKept
<1>9. \A d \in Clients : Apart(w, d)'
  BY DEF Apart, Receives, Sends, Early, Later
<1>10. Own(c)'
  BY <1>1, <1>6, <1>7, <1>9, OwnKept DEF Local, port, Apart
<1>11. ASSUME NEW d \in Clients \ {c} PROVE Local(d)'
  <2>1. SameData(d)
    BY DEF SameData
  <2> QED BY <1>1, <1>4, <1>7, <1>9, <2>1, OtherClients DEF port
<1> QED BY <1>2, <1>5, <1>8, <1>10, <1>11

(* The receive of c is posted again by w, which had it or accepted c.      *)
LEMMA Reposts ==
  ASSUME WinInv, NEW w \in Workers, worker[w].pc = "end", Done(w),
         recvCtx' = [recvCtx EXCEPT ![worker[w].at] = "posted"],
         UNCHANGED <<life, port, out, closing, stop, seen>>
  PROVE  WinInv'
<1> PICK c : c = worker[w].at
  OBVIOUS
<1>1. /\ c \in Clients /\ Receives(w, c) /\ ~Sends(w, c) /\ Local(c)
      /\ \A d \in Clients \ {c} : Apart(w, d)
      /\ ~Frozen /\ main # "done" /\ worker[w].pc # "exit"
  BY AtClient DEF Later
<1>2. Types /\ Only(w) /\ worker'[w].pc = "wait" /\ \A d \in Clients : Apart(w, d)'
  BY Finishes DEF WinInv, Apart, Receives, Sends, Early, Later
<1>3. Types'
  BY <1>2 DEF Types, SocketTypes, PortTypes, DataTypes, life, port, out, stop, seen, Only
<1>4. \A d \in Clients : SameSocket(d) /\ SameData(d) /\ (New(d)' <=> New(d))
  BY DEF SameSocket, SameData, New, life, out, seen
<1>5. \A d \in Clients, x \in Contexts : Coming(x, d)' <=> Coming(x, d)
  BY DEF port, Coming
<1>6. Accepted'
  <2>1. \A v \in Workers : worker[v].pc = "repost" => accept'[worker[v].x] = "taken"
    BY DEF WinInv, Accepted, port
  <2> QED BY <1>1, <1>2, <1>4, <2>1, AcceptedKept DEF WinInv, stop, port
<1>7. recvCtx'[c] = "posted" /\ \A d \in Clients \ {c} : recvCtx'[d] = recvCtx[d]
  BY <1>1, <1>2 DEF Types, SocketTypes
<1>8. Local(c)'
  <2>1. Alone(c)'
    <3>1. \A v \in Workers \ {w} : ~Receives(v, c)
      BY <1>1 DEF Local, Alone
    <3> QED BY <1>1, <1>2, <3>1, AloneStep DEF Local, Apart, out
  <2>2. Counted(c)'
    <3>1. ~Accepting(c)'
      BY <1>1, <1>2, AcceptingStep DEF Local, Apart, Accepts
    <3>2. CASE worker[w].first
      <4>1. Accepting(c) /\ recvCtx[c] = "none"
        BY <1>1, <3>2 DEF Accepting, Accepts, Local, Alone
      <4>2. Refs(c)' = Refs(c)
        BY <1>7, <3>1, <4>1 DEF Refs, One, out
      <4> QED BY <1>1, <1>4, <4>2, CountedSame DEF Local, SameSocket, stop
    <3>3. CASE ~worker[w].first
      <4>1. recvCtx[c] = "taken" /\ ~Accepting(c)
        BY <1>1, <3>3 DEF Accepting, Accepts, Local, Alone
      <4>2. Refs(c)' = Refs(c)
        BY <1>7, <3>1, <4>1 DEF Refs, One, out
      <4> QED BY <1>1, <1>4, <4>2, CountedSame DEF Local, SameSocket, stop
    <3> QED BY <3>2, <3>3
  <2>3. Own(c)'
    <3> SUFFICES ASSUME "first" \notin blemish[c] PROVE Own(c)'
      BY DEF Own, seen
    <3>1. \A v \in Workers : ~Receives(v, c)'
      BY <1>1, <1>2 DEF Local, Alone, Only, Apart, Receives
    <3>2. worker[w].data = <<>> /\ Len(<<>>) = 0 /\ worker[w].pc \in Later
      BY <1>1 DEF Local, Alone, Later
    <3>3. Len(executed[c]) \in Nat
      BY <1>1, <1>2, LenProperties DEF Types, DataTypes
    <3>4. Numbered(c, Len(executed[c]) + 0, input[c])
      BY <1>1, <3>2 DEF Local, Own
    <3>5. Numbered(c, Len(executed'[c]), input'[c])
      BY <3>3, <3>4 DEF seen
    <3> QED BY <1>1, <1>4, <1>5, <3>1, <3>5 DEF Local, Own, seen, port
  <2>4. InOrder(c)'
    <3>1. ~Posts(w, c) /\ ~Posts(w, c)'
      BY <1>2 DEF Posts
    <3> QED BY <1>1, <1>2, <3>1, InFlightSame, InOrderKept
        DEF Local, Apart, out, seen, Clean
  <2> QED BY <2>1, <2>2, <2>3, <2>4 DEF Local
<1>9. ASSUME NEW d \in Clients \ {c} PROVE Local(d)'
  BY <1>1, <1>2, <1>4, <1>5, <1>7, OtherClients DEF out, stop, port
<1> QED BY <1>3, <1>6, <1>8, <1>9 DEF WinInv

-----------------------------------------------------------------------------
(* Accepting *)

LEMMA postAcceptRqInv ==
  ASSUME WinInv, NEW w \in Workers, postAcceptRq(w)
  PROVE  WinInv'
<1> PICK c : c = worker[w].at
  OBVIOUS
<1> PICK x : x = worker[w].x
  OBVIOUS
<1>1. worker[w].pc = "repost" /\ worker[w].pc \in Early /\ "bind" \in Early
  BY DEF postAcceptRq, At, Early
<1>2. Types /\ worker[w].first /\ x \in Contexts
  BY <1>1, JobIs DEF WinInv, Types, PortTypes
<1>3. /\ c \in Clients /\ Receives(w, c) /\ ~Sends(w, c) /\ Local(c)
      /\ \A d \in Clients \ {c} : Apart(w, d)
      /\ ~Frozen /\ main # "done" /\ worker[w].pc # "exit"
  BY <1>1, AtClient
<1>4. /\ Only(w) /\ worker'[w].pc = "bind" /\ worker'[w].at = c /\ worker'[w].first
      /\ worker'[w].x = x /\ worker'[w].data = worker[w].data
  BY <1>1, <1>2, GoesOn DEF postAcceptRq
<1>5. PICK now \in {"posted", "erased"} : accept' = [accept EXCEPT ![x] = now]
  BY DEF postAcceptRq
<1>6. UNCHANGED <<life, sockClient, buffer, out, recvCtx, closing, stop, seen>>
  BY DEF postAcceptRq
<1>7. \A y \in Contexts, d \in Clients : Coming(y, d)' <=> Coming(y, d)
  <2>1. accept[x] = "taken"
    BY <1>1 DEF WinInv, Accepted
  <2> QED BY <2>1, <1>2, <1>5, <1>6 DEF Coming, Types, PortTypes
<1>8. Types'
  BY <1>2, <1>4, <1>5, <1>6
  DEF Types, SocketTypes, PortTypes, DataTypes, life, out, stop, seen, Only
<1>9. \A d \in Clients : SameSocket(d) /\ SameData(d) /\ (New(d)' <=> New(d))
  BY <1>6 DEF SameSocket, SameData, New, life, out, seen
<1>10. Accepted'
  <2>1. \A v \in Workers \ {w} : worker[v].pc = "repost" =>
            accept'[worker[v].x] = "taken"
    BY <1>1, <1>2, <1>5 DEF WinInv, Accepted, Types, PortTypes
  <2> QED BY <1>3, <1>4, <1>5, <1>6, <1>9, <2>1, AcceptedKept DEF WinInv, stop
<1>11. Local(c)'
  <2>1. Receives(w, c)' /\ ~Sends(w, c)' /\ Accepts(w, c)' /\ Accepts(w, c)
    BY <1>2, <1>3, <1>4 DEF Receives, Sends, Accepts, Early, Later
  <2>2. Alone(c)'
    BY <1>3, <1>4, <1>6, <2>1, <1>2, AloneStep DEF Local, Alone, out
  <2>3. Counted(c)'
    BY <1>3, <1>4, <1>6, <1>9, <2>1, AcceptingStep, RefsSame, CountedSame
    DEF Local, SameSocket, out, stop
  <2>4. Own(c)'
    BY <1>1, <1>3, <1>4, <1>6, <1>7, <1>9, <2>1, OwnKept DEF Local, seen, Early
  <2>5. InOrder(c)'
    <3>1. ~Posts(w, c) /\ ~Posts(w, c)'
      BY <1>1, <1>4 DEF Posts
    <3> QED BY <1>3, <1>4, <1>6, <2>1, <3>1, InFlightSame, InOrderKept
        DEF Local, out, seen, Clean
  <2> QED BY <2>2, <2>3, <2>4, <2>5 DEF Local
<1>12. ASSUME NEW d \in Clients \ {c} PROVE Local(d)'
  <2>1. Apart(w, d)'
    BY <1>4 DEF Apart, Receives, Sends
  <2> QED BY <1>3, <1>4, <1>6, <1>7, <1>9, <2>1, OtherClients DEF out, stop
<1> QED BY <1>8, <1>10, <1>11, <1>12 DEF WinInv

LEMMA BindInv ==
  ASSUME WinInv, NEW w \in Workers, Bind(w)
  PROVE  WinInv'
<1> PICK c : c = worker[w].at
  OBVIOUS
<1>1. worker[w].pc = "bind" /\ worker[w].pc \in Early /\ "read" \in Early /\ Types
  BY DEF Bind, At, Early, WinInv
<1>2. worker[w].first
  BY <1>1, JobIs DEF Types, PortTypes
<1>3. /\ c \in Clients /\ Receives(w, c) /\ ~Sends(w, c) /\ Local(c)
      /\ \A d \in Clients \ {c} : Apart(w, d)
      /\ ~Frozen /\ main # "done" /\ worker[w].pc # "exit"
  BY <1>1, AtClient
<1>4. UNCHANGED <<port, out, recvCtx, closing, stop, seen>>
  BY DEF Bind
<1>5. ~Posts(w, c)
  BY <1>1 DEF Posts
<1>6. CASE Goto(w, "read") /\ UNCHANGED life
  <2>1. /\ Only(w) /\ worker'[w].pc = "read" /\ worker'[w].at = c /\ worker'[w].first
        /\ worker'[w].x = worker[w].x /\ worker'[w].data = worker[w].data
    BY <1>1, <1>2, <1>6, GoesOn
  <2>2. Types'
    BY <1>1, <1>4, <1>6, <2>1
    DEF Types, SocketTypes, PortTypes, DataTypes, life, port, out, stop, seen, Only
  <2>3. \A d \in Clients : /\ SameSocket(d) /\ SameData(d) /\ (New(d)' <=> New(d))
                           /\ \A y \in Contexts : Coming(y, d)' <=> Coming(y, d)
    BY <1>4, <1>6 DEF SameSocket, SameData, New, Coming, life, port, out, seen
  <2>4. Accepted'
    <3>1. \A v \in Workers : worker[v].pc = "repost" => accept'[worker[v].x] = "taken"
      BY <1>4 DEF WinInv, Accepted, port
    <3> QED BY <1>3, <1>4, <2>1, <2>3, <3>1, AcceptedKept DEF WinInv, stop, port
  <2>5. Receives(w, c)' /\ ~Sends(w, c)' /\ Accepts(w, c)' /\ Accepts(w, c) /\ ~Posts(w, c)'
    BY <1>2, <1>3, <2>1 DEF Receives, Sends, Accepts, Posts, Early, Later
  <2>6. Alone(c)'
    BY <1>2, <1>3, <1>4, <2>1, <2>5, AloneStep DEF Local, Alone, out
  <2>7. Counted(c)'
    BY <1>3, <1>4, <2>1, <2>3, <2>5, AcceptingStep, RefsSame, CountedSame
    DEF Local, SameSocket, out, stop
  <2>8. Own(c)'
    BY <1>1, <1>3, <1>4, <2>1, <2>3, <2>5, OwnKept DEF Local, seen, Early, port
  <2>9. InOrder(c)'
    BY <1>3, <1>4, <1>5, <2>1, <2>5, InFlightSame, InOrderKept DEF Local, out, seen, Clean
  <2>10. ASSUME NEW d \in Clients \ {c} PROVE Local(d)'
    <3>1. Apart(w, d)'
      BY <2>1 DEF Apart, Receives, Sends
    <3> QED BY <1>3, <1>4, <2>1, <2>3, <3>1, OtherClients DEF out, stop, port
  <2> QED BY <2>2, <2>4, <2>6, <2>7, <2>8, <2>9, <2>10 DEF WinInv, Local
<1>7. CASE Release(c) /\ Done(w)
  <2>1. Only(w) /\ worker'[w].pc = "wait"
    BY <1>1, <1>7, Finishes
  <2>2. ~Receives(w, c)' /\ ~Sends(w, c)' /\ ~Accepts(w, c)' /\ ~Posts(w, c)'
    BY <2>1 DEF Receives, Sends, Accepts, Posts, Early, Later
  <2>3. Refs(c)' = Refs(c) - 1
    <3>1. Accepting(c) /\ ~Accepting(c)'
      BY <1>2, <1>3, <2>1, <2>2, AcceptingStep DEF Accepting, Accepts, Local
    <3> QED BY <1>4, <3>1 DEF Refs, One, out
  <2>4. /\ Types' /\ Accepted' /\ Counted(c)' /\ Own(c)'
        /\ \A d \in Clients \ {c} : Local(d)'
    BY <1>1, <1>3, <1>4, <1>7, <2>1, <2>3, LetsGo
    DEF out, stop, seen, Types, SocketTypes, DataTypes
  <2>5. Alone(c)'
    BY <1>3, <1>4, <2>1, <2>2, AloneStep DEF Local, out
  <2>6. InOrder(c)'
    BY <1>3, <1>4, <1>5, <2>1, <2>2, InFlightSame, InOrderKept DEF Local, out, seen, Clean
  <2> QED BY <2>4, <2>5, <2>6 DEF WinInv, Local
<1> QED BY <1>6, <1>7 DEF Bind

LEMMA EndAcceptInv ==
  ASSUME WinInv, NEW w \in Workers, EndAccept(w)
  PROVE  WinInv'
<1> PICK c : c = worker[w].at
  OBVIOUS
<1>1. worker[w].pc = "end" /\ worker[w].pc \in Later /\ worker[w].first /\ Types
  BY DEF EndAccept, At, Later, WinInv
<1>2. Done(w) /\ UNCHANGED <<port, out, closing, stop, seen>>
  BY DEF EndAccept
<1>3. CASE recvCtx' = [recvCtx EXCEPT ![c] = "posted"] /\ UNCHANGED life
  BY <1>1, <1>2, <1>3, Reposts
<1>4. CASE UNCHANGED recvCtx /\ Release(c)
  <2>1. /\ c \in Clients /\ Receives(w, c) /\ ~Sends(w, c) /\ Local(c)
        /\ \A d \in Clients \ {c} : Apart(w, d)
        /\ ~Frozen /\ main # "done" /\ worker[w].pc # "exit"
    BY <1>1, AtClient
  <2>2. Only(w) /\ worker'[w].pc = "wait"
    BY <1>1, <1>2, Finishes
  <2>3. /\ ~Receives(w, c)' /\ ~Sends(w, c)' /\ ~Accepts(w, c)'
        /\ ~Posts(w, c)' /\ ~Posts(w, c)
    BY <1>1, <2>2 DEF Receives, Sends, Accepts, Posts, Early, Later
  <2>4. Refs(c)' = Refs(c) - 1
    <3>1. Accepting(c) /\ ~Accepting(c)'
      BY <1>1, <2>1, <2>2, <2>3, AcceptingStep DEF Accepting, Accepts, Local
    <3> QED BY <1>2, <1>4, <3>1 DEF Refs, One, out
  <2>5. /\ Types' /\ Accepted' /\ Counted(c)' /\ Own(c)'
        /\ \A d \in Clients \ {c} : Local(d)'
    BY <1>1, <1>2, <1>4, <2>1, <2>2, <2>4, LetsGo
    DEF out, stop, seen, Types, SocketTypes, DataTypes
  <2>6. Alone(c)'
    BY <1>2, <1>4, <2>1, <2>2, <2>3, AloneStep DEF Local, out
  <2>7. InOrder(c)'
    BY <1>2, <2>1, <2>2, <2>3, InFlightSame, InOrderKept DEF Local, out, seen, Clean
  <2> QED BY <2>5, <2>6, <2>7 DEF WinInv, Local
<1> QED BY <1>3, <1>4 DEF EndAccept

(* A client that is new has no references.                                 *)
LEMMA NewHasNone ==
  ASSUME Types, NEW c \in Clients, Local(c), New(c)
  PROVE  /\ Refs(c) = 0 /\ ~Accepting(c) /\ recvCtx[c] = "none"
         /\ sendCtx[c] \in {"none", "held"}
         /\ \A v \in Workers : ~Receives(v, c) /\ ~Sends(v, c)
         /\ c \notin vpClientSocks
<1>1. Refs(c) = 0
  BY RefsNat DEF Local, Counted, New
<1>2. /\ ~Accepting(c) /\ recvCtx[c] = "none"
      /\ sendCtx[c] \notin {"posted", "taken", "lost"}
  BY <1>1 DEF Refs, One
<1>3. \A v \in Workers : ~Receives(v, c) /\ ~Sends(v, c)
  BY <1>2 DEF Local, Alone, Accepting, Accepts
<1> QED BY <1>1, <1>2, <1>3 DEF Types, SocketTypes, Local, Counted, New

LEMMA doAcceptInv ==
  ASSUME WinInv, NEW w \in Workers, NEW x \in Contexts, doAccept(w, x)
  PROVE  WinInv'
<1> PICK c : c = sockClient[x]
  OBVIOUS
<1>1. Types /\ worker[w].pc = "wait" /\ c \in Clients /\ Coming(x, c)
  BY DEF doAccept, Waits, Idle, WinInv, Types, PortTypes, Coming
<1>2. ~Frozen /\ main # "done" /\ Local(c) /\ New(c) /\ Accepted
  BY <1>1, AtWork DEF WinInv, Accepted
<1>3. /\ Refs(c) = 0 /\ ~Accepting(c) /\ recvCtx[c] = "none"
      /\ sendCtx[c] \in {"none", "held"}
      /\ \A v \in Workers : ~Receives(v, c) /\ ~Sends(v, c)
      /\ c \notin vpClientSocks
  BY <1>1, <1>2, NewHasNone
<1>4. PICK j : j = [pc |-> "repost", at |-> c, x |-> x, data |-> <<>>, rest |-> <<>>,
                    keep |-> TRUE, first |-> TRUE]
  OBVIOUS
<1>5. j \in Job /\ j.pc = "repost" /\ j.at = c /\ j.x = x /\ j.first
  <2>1. <<>> \in Seq(Request) /\ <<>> \in Seq(Blocks)
    BY EmptySeq
  <2>2. j \in AcceptJob
    BY <1>1, <1>4, <2>1 DEF AcceptJob, Early, Later
  <2> QED BY <1>4, <2>2 DEF Job
<1>6. worker' = [worker EXCEPT ![w] = j]
  BY <1>4 DEF doAccept
<1>7. Only(w) /\ worker'[w] = j
  BY <1>1, <1>5, <1>6 DEF Types, PortTypes, Only
<1>8. /\ nRefCount' = [nRefCount EXCEPT ![c] = 1] /\ vpClientSocks' = vpClientSocks \union {c}
      /\ accept' = [accept EXCEPT ![x] = "taken"]
      /\ UNCHANGED <<deleted, sockClient, buffer, out, recvCtx, closing, stop, seen>>
  BY DEF doAccept
<1>9. Types'
  BY <1>1, <1>7, <1>8
  DEF Types, SocketTypes, PortTypes, DataTypes, life, port, out, stop, seen, Only
<1>10. /\ \A y \in Contexts : ~Coming(y, c)'
       /\ \A d \in Clients \ {c}, y \in Contexts : Coming(y, d)' <=> Coming(y, d)
  <2>1. \A y \in Contexts \ {x} : ~Coming(y, c)
    BY <1>1, <1>2 DEF Accepted
  <2> QED BY <1>1, <1>8, <2>1 DEF Coming, Types, PortTypes
<1>11. /\ nRefCount'[c] = 1 /\ deleted'[c] = 0 /\ c \in vpClientSocks' /\ ~New(c)'
       /\ \A d \in Clients \ {c} : SameSocket(d) /\ (New(d)' <=> New(d))
       /\ \A d \in Clients : SameData(d)
  BY <1>1, <1>2, <1>8 DEF SameSocket, SameData, New, out, seen, Types, SocketTypes
<1>12. /\ Receives(w, c)' /\ ~Sends(w, c)' /\ Accepts(w, c)'
       /\ ~Posts(w, c)' /\ ~Posts(w, c)
       /\ \A d \in Clients \ {c} : Apart(w, d)'
       /\ \A d \in Clients : Apart(w, d)
  BY <1>1, <1>5, <1>7 DEF Receives, Sends, Accepts, Posts, Apart, Early, Later
<1>13. Accepted'
  <2>1. \A v \in Workers \ {w} : worker'[v] = worker[v]
    BY <1>7 DEF Only
  <2>2. \A v \in Workers \ {w} : worker[v].pc = "repost" =>
          accept[worker[v].x] = "taken" /\ worker[v].x # x
    BY <1>1, <1>2 DEF Accepted, Coming
  <2>3. \A v \in Workers : worker'[v].pc = "repost" =>
          /\ accept'[worker'[v].x] = "taken"
          /\ v # w => worker'[v].x # x
    BY <1>1, <1>5, <1>7, <1>8, <2>1, <2>2 DEF Types, PortTypes
  <2>4. \A v, u \in Workers :
          worker'[u].pc = "repost" /\ worker'[v].pc = "repost" /\ worker'[v].x = worker'[u].x
            => v = u
    <3>1. \A v, u \in Workers \ {w} :
            worker[u].pc = "repost" /\ worker[v].pc = "repost" /\ worker[v].x = worker[u].x
              => v = u
      BY <1>2 DEF Accepted
    <3>2. worker'[w].x = x
      BY <1>5, <1>7
    <3> SUFFICES ASSUME NEW v \in Workers, NEW u \in Workers,
                        worker'[u].pc = "repost", worker'[v].pc = "repost",
                        worker'[v].x = worker'[u].x
                 PROVE  v = u
      OBVIOUS
    <3>3. CASE v # w /\ u # w
      BY <2>1, <3>1, <3>3
    <3>4. CASE v = w \/ u = w
      BY <2>3, <3>2, <3>4
    <3> QED BY <3>3, <3>4
  <2>5. \A y \in Contexts, d \in Clients : Coming(y, d)' => d # c /\ Coming(y, d)
    BY <1>10
  <2> QED BY <1>2, <1>8, <1>11, <2>3, <2>4, <2>5 DEF Accepted, stop
<1>14. Local(c)'
  <2>1. Alone(c)'
    BY <1>1, <1>2, <1>3, <1>5, <1>7, <1>8, <1>12, AloneStep DEF Local
  <2>2. Counted(c)'
    <3>1. Accepting(c)'
      BY <1>1, <1>7, <1>12, AcceptingStep
    <3>2. Refs(c)' = 1
      BY <1>3, <1>8, <3>1 DEF Refs, One, out
    <3> QED BY <1>2, <1>8, <1>11, <3>2 DEF Counted, stop
  <2>3. Own(c)'
    <3> SUFFICES ASSUME "first" \notin blemish[c] PROVE Own(c)'
      BY <1>8 DEF Own, seen
    <3>1. /\ Begins(c, executed[c], buffer[x], input[c])
          /\ Numbered(c, 0, executed[c])
      BY <1>1, <1>2 DEF Local, Own
    <3>2. \A v \in Workers : Receives(v, c)' => v = w
      BY <1>3, <1>7 DEF Only, Receives
    <3>3. j.pc \in Early /\ j.pc \notin Later
      BY <1>5 DEF Early, Later
    <3> QED BY <1>3, <1>5, <1>7, <1>8, <1>10, <1>11, <3>1, <3>2, <3>3 DEF Own, seen
  <2>4. InOrder(c)'
    BY <1>1, <1>2, <1>7, <1>8, <1>12, InFlightSame, InOrderKept DEF Local, out, seen, Clean, Apart
  <2> QED BY <2>1, <2>2, <2>3, <2>4 DEF Local
<1>15. ASSUME NEW d \in Clients \ {c} PROVE Local(d)'
  BY <1>1, <1>7, <1>8, <1>10, <1>11, <1>12, OtherClients DEF out, stop
<1> QED BY <1>9, <1>13, <1>14, <1>15 DEF WinInv

(* The first n requests of s and the others.                               *)
LEMMA Cut ==
  ASSUME NEW s \in Seq(Request), NEW n \in 0 .. Len(s)
  PROVE  /\ SubSeq(s, 1, n) \in Seq(Request) /\ Len(SubSeq(s, 1, n)) = n
         /\ DOMAIN SubSeq(s, 1, n) = 1 .. n /\ \A i \in 1 .. n : SubSeq(s, 1, n)[i] = s[i]
         /\ SubSeq(s, n + 1, Len(s)) \in Seq(Request)
         /\ DOMAIN SubSeq(s, n + 1, Len(s)) = 1 .. Len(s) - n
         /\ \A i \in 1 .. Len(s) - n : SubSeq(s, n + 1, Len(s))[i] = s[n + i]
<1>1. Len(s) \in Nat /\ DOMAIN s = 1 .. Len(s)
  BY LenProperties
<1>2. /\ \A i \in 1 .. n : s[i] \in Request
      /\ \A i \in n + 1 .. Len(s) : s[i] \in Request
  BY <1>1, ElementOfSeq
<1>3. /\ SubSeq(s, 1, n) \in Seq(Request) /\ Len(SubSeq(s, 1, n)) = n
      /\ DOMAIN SubSeq(s, 1, n) = 1 .. n /\ \A i \in 1 .. n : SubSeq(s, 1, n)[i] = s[i]
  BY <1>1, <1>2, SubSeqProperties
<1>4. /\ SubSeq(s, n + 1, Len(s)) \in Seq(Request)
      /\ DOMAIN SubSeq(s, n + 1, Len(s)) = 1 .. Len(s) - n
      /\ \A i \in 1 .. Len(s) - n : SubSeq(s, n + 1, Len(s))[i] = s[n + i]
  BY <1>1, <1>2, SubSeqProperties
<1> QED BY <1>3, <1>4

LEMMA NumberedCut ==
  ASSUME NEW c, NEW m \in Nat, NEW s \in Seq(Request), NEW n \in 0 .. Len(s), Numbered(c, m, s)
  PROVE  Numbered(c, m, SubSeq(s, 1, n)) /\ Numbered(c, m + n, SubSeq(s, n + 1, Len(s)))
<1>1. Len(s) \in Nat /\ DOMAIN s = 1 .. Len(s)
  BY LenProperties
<1>2. \A i \in 1 .. Len(s) : s[i].of = c /\ s[i].k = m + i
  BY <1>1 DEF Numbered
<1>3. Numbered(c, m, SubSeq(s, 1, n))
  BY <1>1, <1>2, Cut DEF Numbered
<1>4. Numbered(c, m + n, SubSeq(s, n + 1, Len(s)))
  <2>1. ASSUME NEW i \in 1 .. Len(s) - n
        PROVE  s[n + i].of = c /\ s[n + i].k = m + n + i
    BY <1>1, <1>2
  <2> QED BY <2>1, Cut DEF Numbered
<1> QED BY <1>3, <1>4

LEMMA ConnectInv ==
  ASSUME WinInv, NEW x \in Contexts, NEW c \in Clients, Connect(x, c)
  PROVE  WinInv'
<1>1. Types /\ Accepted /\ accept[x] = "posted" /\ New(c) /\ main # "done" /\ Local(c)
  BY DEF WinInv, Connect, New
<1>2. \A y \in Contexts : ~Coming(y, c)
  BY DEF Connect, Coming
<1>3. PICK n \in 0 .. Len(input[c]) :
        /\ buffer' = [buffer EXCEPT ![x] = SubSeq(input[c], 1, n)]
        /\ input' = [input EXCEPT ![c] = SubSeq(input[c], n + 1, Len(input[c]))]
  BY DEF Connect
<1>4. /\ accept' = [accept EXCEPT ![x] = "complete"]
      /\ sockClient' = [sockClient EXCEPT ![x] = c]
      /\ UNCHANGED <<life, out, recvCtx, closing, worker, stop, executed, answered, wire,
                     blemish, errors>>
  BY DEF Connect
<1>5. /\ SubSeq(input[c], 1, n) \in Seq(Request) /\ Len(SubSeq(input[c], 1, n)) = n
      /\ SubSeq(input[c], n + 1, Len(input[c])) \in Seq(Request)
  BY <1>1, Cut DEF Types, DataTypes
<1>6. Types'
  BY <1>1, <1>3, <1>4, <1>5
  DEF Types, SocketTypes, PortTypes, DataTypes, life, out, stop
<1>7. /\ Coming(x, c)'
      /\ \A y \in Contexts, d \in Clients : y # x \/ d # c => (Coming(y, d)' <=> Coming(y, d))
  BY <1>1, <1>4 DEF Types, PortTypes, Coming
<1>8. \A d \in Clients : New(d)' <=> New(d)
  BY <1>4 DEF New, life
<1>9. Accepted'
  <2>1. \A v \in Workers : worker[v].pc = "repost" =>
          accept'[worker[v].x] = accept[worker[v].x]
    BY <1>1, <1>4 DEF Accepted, Types, PortTypes
  <2>2. \A v, w \in Workers : worker'[w].pc = "repost" =>
         /\ accept'[worker'[w].x] = "taken"
         /\ worker'[v].pc = "repost" /\ worker'[v].x = worker'[w].x => v = w
    BY <1>1, <1>4, <2>1 DEF Accepted
  <2>3. \A y \in Contexts, d \in Clients : Coming(y, d)' => New(d)'
    BY <1>1, <1>7, <1>8 DEF Accepted
  <2>4. \A y, z \in Contexts, d \in Clients : Coming(y, d)' /\ Coming(z, d)' => y = z
    BY <1>1, <1>2, <1>7 DEF Accepted
  <2> QED BY <1>1, <1>4, <2>2, <2>3, <2>4 DEF Accepted, stop
<1>10. ASSUME NEW d \in Clients PROVE Alone(d)' /\ Counted(d)' /\ InOrder(d)'
  <2>1. Local(d) /\ worker' = worker
    BY <1>4 DEF WinInv
  <2>2. Alone(d)'
    BY <1>4, <2>1 DEF Local, Alone, Receives, Sends, out
  <2>3. Frozen' <=> Frozen
    BY <1>4 DEF Frozen, Ended, stop
  <2>4. Counted(d)'
    <3>1. Refs(d)' = Refs(d)
      BY <1>4 DEF Refs, Accepting, Accepts, Receives, out
    <3> QED BY <1>4, <2>1, <2>3, <3>1 DEF Local, Counted, stop, life
  <2>5. InOrder(d)'
    <3>1. Sent(d)' = Sent(d)
      BY <1>4 DEF Sent, InFlight, Sends, out
    <3>2. \A v \in Workers : (Posts(v, d)' <=> Posts(v, d)) /\ (Sends(v, d)' <=> Sends(v, d))
      BY <2>1 DEF Posts, Sends
    <3> QED BY <1>4, <2>1, <2>3, <3>1, <3>2 DEF Local, InOrder, Clean, out
  <2> QED BY <2>2, <2>4, <2>5
<1>11. Own(c)'
  <2> SUFFICES ASSUME "first" \notin blemish[c] PROVE Own(c)'
    BY <1>4 DEF Own
  <2>1. executed[c] = <<>> /\ Numbered(c, 0, executed[c]) /\ Numbered(c, 0, input[c])
    <3>1. Begins(c, executed[c], <<>>, input[c]) /\ Numbered(c, 0, executed[c])
      BY <1>1, <1>2 DEF Local, Own
    <3>2. Len(<<>>) = 0
      OBVIOUS
    <3> QED BY <3>1, <3>2 DEF Begins
  <2>2. /\ Numbered(c, 0, SubSeq(input[c], 1, n))
        /\ Numbered(c, n, SubSeq(input[c], n + 1, Len(input[c])))
    <3>1. /\ Numbered(c, 0, SubSeq(input[c], 1, n))
          /\ Numbered(c, 0 + n, SubSeq(input[c], n + 1, Len(input[c])))
      BY <1>1, <2>1, NumberedCut DEF Types, DataTypes
    <3> QED BY <3>1
  <2>3. Begins(c, executed'[c], buffer'[x], input'[c])
    BY <1>1, <1>3, <1>4, <1>5, <2>1, <2>2 DEF Begins, Types, PortTypes, DataTypes
  <2>4. (\A v \in Workers : ~Receives(v, c)') /\ recvCtx'[c] = "none"
    BY <1>1, <1>4, NewHasNone DEF Receives
  <2> QED BY <1>2, <1>4, <1>7, <2>1, <2>3, <2>4 DEF Own
<1>12. ASSUME NEW d \in Clients \ {c} PROVE Own(d)'
  <2>1. Own(d) /\ input'[d] = input[d]
    BY <1>1, <1>3 DEF WinInv, Local, Types, DataTypes
  <2>2. \A y \in Contexts : sockClient'[y] = d => sockClient[y] = d /\ buffer'[y] = buffer[y]
    BY <1>1, <1>3, <1>4 DEF Types, PortTypes
  <2>3. \A y \in Contexts : Coming(y, d)' <=> Coming(y, d)
    BY <1>7
  <2>4. \A v \in Workers : Receives(v, d)' <=> Receives(v, d)
    BY <1>4 DEF Receives
  <2>5. \A v \in Workers : worker[v].pc \in Early => worker[v].x \in Contexts
    BY <1>1, JobIs DEF Types, PortTypes
  <2>6. \A y \in Contexts : Coming(y, d)' => buffer'[y] = buffer[y]
    BY <2>2 DEF Coming
  <2> QED BY <1>4, <1>8, <2>1, <2>2, <2>3, <2>4, <2>5, <2>6 DEF Own
<1> QED BY <1>6, <1>9, <1>10, <1>11, <1>12 DEF WinInv, Local

(* The requests the thread will execute for c are the first of c, unless   *)
(* it takes the data of another client.                                    *)
LEMMA FirstDataInv ==
  ASSUME WinInv, NEW w \in Workers, FirstData(w)
  PROVE  WinInv'
<1> PICK c : c = worker[w].at
  OBVIOUS
<1> PICK x : x = worker[w].x
  OBVIOUS
<1>1. worker[w].pc = "read" /\ worker[w].pc \in Early /\ Types
  BY DEF FirstData, At, Early, WinInv
<1>2. worker[w] \in AcceptJob /\ worker[w].first /\ x \in Contexts /\ worker[w] \in Job
  BY <1>1, JobIs DEF Types, PortTypes
<1>3. /\ c \in Clients /\ Receives(w, c) /\ ~Sends(w, c) /\ Local(c)
      /\ \A d \in Clients \ {c} : Apart(w, d)
      /\ ~Frozen /\ main # "done" /\ worker[w].pc # "exit"
  BY <1>1, AtClient
<1>4. PICK data : /\ data = buffer[x] \/ (accept[x] = "erased" /\ data = <<>>)
                  /\ worker' = [worker EXCEPT ![w].pc = "scan", ![w].data = data]
  BY DEF FirstData
<1>5. /\ blemish' = [blemish EXCEPT ![c] = @ \union
           IF accept[x] = "erased" \/ sockClient[x] # c THEN {"first"} ELSE {}]
      /\ UNCHANGED <<life, port, out, recvCtx, closing, stop, input, executed, answered,
                     wire, errors>>
  BY DEF FirstData
<1>6. data \in Seq(Request)
  BY <1>1, <1>2, <1>4, EmptySeq DEF Types, PortTypes
<1>7. PICK j : j = [worker[w] EXCEPT !.pc = "scan", !.data = data]
  OBVIOUS
<1>8. /\ j \in Job /\ j.pc = "scan" /\ j.at = c /\ j.first /\ j.data = data
      /\ worker' = [worker EXCEPT ![w] = j]
  <2>1. j \in AcceptJob /\ j.pc = "scan" /\ j.at = c /\ j.first /\ j.data = data
    BY <1>2, <1>6, <1>7 DEF AcceptJob, Later
  <2> QED BY <1>4, <1>7, <2>1 DEF Job
<1>9. Only(w) /\ worker'[w] = j
  BY <1>1, <1>8 DEF Types, PortTypes, Only
<1>10. /\ \A d \in Clients \ {c} : blemish'[d] = blemish[d]
       /\ blemish[c] \subseteq blemish'[c]
       /\ blemish'[c] \subseteq blemish[c] \union {"first"}
       /\ "first" \notin blemish'[c] => accept[x] # "erased" /\ sockClient[x] = c
       /\ blemish' \in [Clients -> SUBSET {"first", "late", "send"}]
  BY <1>1, <1>3, <1>5 DEF Types, DataTypes
<1>11. Types'
  BY <1>1, <1>5, <1>9, <1>10
  DEF Types, SocketTypes, PortTypes, DataTypes, life, port, out, stop, Only
<1>12. /\ \A d \in Clients : SameSocket(d) /\ (New(d)' <=> New(d))
       /\ \A d \in Clients \ {c} : SameData(d)
       /\ \A d \in Clients, y \in Contexts : Coming(y, d)' <=> Coming(y, d)
  BY <1>5, <1>10 DEF SameSocket, SameData, New, Coming, life, port, out
<1>13. Accepted'
  <2>1. \A v \in Workers : worker[v].pc = "repost" => accept'[worker[v].x] = "taken"
    BY <1>5 DEF WinInv, Accepted, port
  <2> QED BY <1>3, <1>5, <1>8, <1>9, <1>12, <2>1, AcceptedKept DEF WinInv, stop, port
<1>14. /\ Receives(w, c)' /\ ~Sends(w, c)' /\ Accepts(w, c)' /\ Accepts(w, c)
       /\ ~Posts(w, c)' /\ ~Posts(w, c) /\ \A d \in Clients \ {c} : Apart(w, d)'
  BY <1>1, <1>2, <1>3, <1>8, <1>9 DEF Receives, Sends, Accepts, Posts, Apart, Early, Later
<1>15. Local(c)'
  <2>1. Alone(c)'
    BY <1>2, <1>3, <1>5, <1>8, <1>9, <1>14, AloneStep DEF Local, Alone, out
  <2>2. Counted(c)'
    BY <1>3, <1>5, <1>9, <1>12, <1>14, AcceptingStep, RefsSame, CountedSame
    DEF Local, SameSocket, out, stop
  <2>3. Own(c)'
    <3> SUFFICES ASSUME "first" \notin blemish'[c] PROVE Own(c)'
      BY DEF Own
    <3>1. "first" \notin blemish[c] /\ sockClient[x] = c /\ data = buffer[x]
      BY <1>4, <1>10
    <3>2. Begins(c, executed[c], data, input[c])
      BY <1>1, <1>3, <3>1 DEF Local, Own
    <3>3. /\ Numbered(c, Len(executed[c]), data)
          /\ Numbered(c, Len(executed[c]) + Len(data), input[c])
      <4>1. Len(executed[c]) = 0 /\ Len(data) \in Nat /\ 0 + Len(data) = Len(data)
        BY <1>6, <3>2, LenProperties DEF Begins
      <4> QED BY <3>2, <4>1 DEF Begins
    <3>4. \A v \in Workers : Receives(v, c)' => v = w
      BY <1>3, <1>9 DEF Only, Receives, Local, Alone
    <3>5. j.pc \notin Early
      BY <1>8 DEF Early
    <3> QED BY <1>3, <1>5, <1>8, <1>9, <1>12, <3>1, <3>3, <3>4, <3>5 DEF Local, Own, port
  <2>4. InOrder(c)'
    <3>1. Clean(c)' => Clean(c)
      BY <1>10 DEF Clean
    <3> QED BY <1>3, <1>5, <1>9, <1>14, <3>1, InFlightSame, InOrderKept DEF Local, out
  <2> QED BY <2>1, <2>2, <2>3, <2>4 DEF Local
<1>16. ASSUME NEW d \in Clients \ {c} PROVE Local(d)'
  BY <1>3, <1>5, <1>9, <1>12, <1>14, OtherClients DEF out, stop, port
<1> QED BY <1>11, <1>13, <1>15, <1>16 DEF WinInv

-----------------------------------------------------------------------------
(* Receiving *)

LEMMA doRecvInv ==
  ASSUME WinInv, NEW w \in Workers, NEW c \in Clients, doRecv(w, c)
  PROVE  WinInv'
<1>1. Types /\ worker[w].pc = "wait" /\ recvCtx[c] = "posted" /\ Local(c)
  BY DEF doRecv, Waits, Idle, WinInv
<1>2. ~Frozen /\ main # "done" /\ worker[w].pc # "exit"
  BY <1>1, AtWork
<1>3. PICK n \in 1 .. Len(input[c]) :
        /\ worker' = [worker EXCEPT ![w] =
             [pc |-> "scan", at |-> c, data |-> SubSeq(input[c], 1, n), rest |-> <<>>,
              keep |-> TRUE, first |-> FALSE]]
        /\ input' = [input EXCEPT ![c] = SubSeq(input[c], n + 1, Len(input[c]))]
  BY DEF doRecv
<1>4. /\ recvCtx' = [recvCtx EXCEPT ![c] = "taken"]
      /\ UNCHANGED <<life, port, out, closing, stop, executed, answered, wire, blemish, errors>>
  BY DEF doRecv
<1>5. n \in 0 .. Len(input[c]) /\ Len(input[c]) \in Nat /\ input[c] \in Seq(Request)
  BY <1>1, LenProperties DEF Types, DataTypes
<1>6. PICK data, more : data = SubSeq(input[c], 1, n)
                        /\ more = SubSeq(input[c], n + 1, Len(input[c]))
  OBVIOUS
<1>7. data \in Seq(Request) /\ more \in Seq(Request) /\ Len(data) = n
  BY <1>5, <1>6, Cut
<1>8. PICK j : j = [pc |-> "scan", at |-> c, data |-> data, rest |-> <<>>,
                    keep |-> TRUE, first |-> FALSE]
  OBVIOUS
<1>9. /\ j \in Job /\ j.pc = "scan" /\ j.at = c /\ j.data = data /\ ~j.first
      /\ worker' = [worker EXCEPT ![w] = j]
  <2>1. <<>> \in Seq(Blocks)
    BY EmptySeq
  <2>2. j \in RecvJob
    BY <1>7, <1>8, <2>1 DEF RecvJob, Later
  <2> QED BY <1>3, <1>6, <1>8, <2>2 DEF Job
<1>10. Only(w) /\ worker'[w] = j
  BY <1>1, <1>9 DEF Types, PortTypes, Only
<1>11. Types'
  BY <1>1, <1>3, <1>4, <1>6, <1>7, <1>10
  DEF Types, SocketTypes, PortTypes, DataTypes, life, port, out, stop, Only
<1>12. /\ \A d \in Clients : SameSocket(d) /\ (New(d)' <=> New(d))
       /\ \A d \in Clients \ {c} : SameData(d) /\ recvCtx'[d] = recvCtx[d]
       /\ \A d \in Clients, y \in Contexts : Coming(y, d)' <=> Coming(y, d)
       /\ recvCtx'[c] = "taken" /\ input'[c] = more
  BY <1>1, <1>3, <1>4, <1>6
  DEF SameSocket, SameData, New, Coming, life, port, out, Types, SocketTypes, DataTypes
<1>13. Accepted'
  <2>1. \A v \in Workers : worker[v].pc = "repost" => accept'[worker[v].x] = "taken"
    BY <1>4 DEF WinInv, Accepted, port
  <2> QED BY <1>2, <1>4, <1>9, <1>10, <1>12, <2>1, AcceptedKept DEF WinInv, stop, port
<1>14. /\ Receives(w, c)' /\ ~Sends(w, c)' /\ ~Accepts(w, c)' /\ ~Accepts(w, c)
       /\ ~Posts(w, c)' /\ ~Posts(w, c) /\ \A d \in Clients \ {c} : Apart(w, d)'
       /\ \A d \in Clients : Apart(w, d)
  BY <1>1, <1>9, <1>10 DEF Receives, Sends, Accepts, Posts, Apart, Early, Later
<1>15. \A v \in Workers : ~Receives(v, c)
  BY <1>1 DEF Local, Alone
<1>16. Local(c)'
  <2>1. Alone(c)'
    BY <1>1, <1>4, <1>9, <1>10, <1>12, <1>14, <1>15, AloneStep DEF Local, out
  <2>2. Counted(c)'
    BY <1>1, <1>2, <1>4, <1>10, <1>12, <1>14, AcceptingStep, RefsSame, CountedSame
    DEF Local, SameSocket, out, stop
  <2>3. Own(c)'
    <3> SUFFICES ASSUME "first" \notin blemish[c] PROVE Own(c)'
      BY <1>4 DEF Own
    <3>1. /\ Numbered(c, 0, executed[c])
          /\ Numbered(c, Len(executed[c]), input[c])
      BY <1>1 DEF Local, Own
    <3>2. /\ Numbered(c, Len(executed[c]), data)
          /\ Numbered(c, Len(executed[c]) + Len(data), more)
      <4>1. Len(executed[c]) \in Nat
        BY <1>1, LenProperties DEF Types, DataTypes
      <4> QED BY <1>5, <1>6, <1>7, <3>1, <4>1, NumberedCut
    <3>3. \A v \in Workers : Receives(v, c)' => v = w
      BY <1>10, <1>15 DEF Only, Receives
    <3>4. j.pc \notin Early
      BY <1>9 DEF Early
    <3>5. ~New(c)' /\ \A x \in Contexts : ~Coming(x, c)'
      <4>1. ~New(c)
        BY <1>1, NewHasNone
      <4> QED BY <1>2, <1>12, <4>1 DEF WinInv, Accepted
    <3> QED BY <1>4, <1>9, <1>10, <1>12, <3>1, <3>2, <3>3, <3>4, <3>5 DEF Own, port
  <2>4. InOrder(c)'
    BY <1>1, <1>2, <1>4, <1>10, <1>14, InFlightSame, InOrderKept DEF Local, out, Clean, Apart
  <2> QED BY <2>1, <2>2, <2>3, <2>4 DEF Local
<1>17. ASSUME NEW d \in Clients \ {c} PROVE Local(d)'
  BY <1>1, <1>2, <1>4, <1>10, <1>12, <1>14, OtherClients DEF out, stop, port
<1> QED BY <1>11, <1>13, <1>16, <1>17 DEF WinInv

(* A waiting thread gives back the reference of a posted receive.          *)
LEMMA RecvGone ==
  ASSUME WinInv, NEW w \in Workers, NEW c \in Clients, worker[w].pc = "wait",
         recvCtx[c] = "posted", recvCtx' = [recvCtx EXCEPT ![c] = "none"], Release(c),
         closing' \in [Clients -> BOOLEAN],
         UNCHANGED <<port, out, worker, stop, seen>>
  PROVE  WinInv'
<1>1. Types /\ Local(c) /\ ~Frozen /\ Only(w)
  BY AtWork DEF WinInv, Only, Types, PortTypes
<1>2. /\ recvCtx' \in [Clients -> {"none", "posted", "taken", "lost"}] /\ recvCtx'[c] = "none"
      /\ \A d \in Clients \ {c} : recvCtx'[d] = recvCtx[d]
  BY <1>1 DEF Types, SocketTypes
<1>3. /\ \A d \in Clients : Apart(w, d) /\ Apart(w, d)'
      /\ ~Accepts(w, c) /\ ~Accepts(w, c)' /\ ~Posts(w, c) /\ ~Posts(w, c)'
  BY DEF Apart, Receives, Sends, Accepts, Posts, Early, Later
<1>4. Refs(c)' = Refs(c) - 1
  <2>1. Accepting(c)' <=> Accepting(c)
    BY <1>1, <1>3, AcceptingStep
  <2> QED BY <1>2, <2>1 DEF Refs, One, out
<1>5. /\ Types' /\ Accepted' /\ Counted(c)' /\ Own(c)'
      /\ \A d \in Clients \ {c} : Local(d)'
  BY <1>1, <1>2, <1>3, <1>4, LetsGo DEF out, stop, seen, Types, SocketTypes, DataTypes
<1>6. Alone(c)'
  <2>1. \A v \in Workers : ~Receives(v, c)
    BY <1>1 DEF Local, Alone
  <2> QED BY <1>1, <1>3, <2>1, AloneStep DEF Local, out, Apart
<1>7. InOrder(c)'
  BY <1>1, <1>3, InFlightSame, InOrderKept DEF Local, out, seen, Clean, Apart
<1> QED BY <1>5, <1>6, <1>7 DEF WinInv, Local

LEMMA DisconnectInv ==
  ASSUME WinInv, NEW w \in Workers, NEW c \in Clients, Disconnect(w, c)
  PROVE  WinInv'
<1>1. worker[w].pc = "wait" /\ closing' \in [Clients -> BOOLEAN]
  BY DEF Disconnect, Waits, Idle, WinInv, Types, SocketTypes
<1> QED BY <1>1, RecvGone DEF Disconnect

LEMMA EndRecvInv ==
  ASSUME WinInv, NEW w \in Workers, EndRecv(w)
  PROVE  WinInv'
<1> PICK c : c = worker[w].at
  OBVIOUS
<1>1. worker[w].pc = "end" /\ worker[w].pc \in Later /\ ~worker[w].first /\ Types
  BY DEF EndRecv, At, Later, WinInv
<1>2. Done(w) /\ UNCHANGED <<port, out, closing, stop, seen>>
  BY DEF EndRecv
<1>3. CASE recvCtx' = [recvCtx EXCEPT ![c] = "posted"] /\ UNCHANGED life
  BY <1>1, <1>2, <1>3, Reposts
<1>4. CASE recvCtx' = [recvCtx EXCEPT ![c] = "none"] /\ Release(c)
  <2>1. /\ c \in Clients /\ Receives(w, c) /\ ~Sends(w, c) /\ Local(c)
        /\ \A d \in Clients \ {c} : Apart(w, d)
        /\ ~Frozen /\ main # "done" /\ worker[w].pc # "exit"
    BY <1>1, AtClient
  <2>2. Only(w) /\ worker'[w].pc = "wait"
    BY <1>1, <1>2, Finishes
  <2>3. /\ ~Receives(w, c)' /\ ~Sends(w, c)' /\ ~Accepts(w, c)' /\ ~Accepts(w, c)
        /\ ~Posts(w, c)' /\ ~Posts(w, c)
    BY <1>1, <2>2 DEF Receives, Sends, Accepts, Posts, Early, Later
  <2>4. /\ recvCtx' \in [Clients -> {"none", "posted", "taken", "lost"}]
        /\ recvCtx[c] = "taken" /\ recvCtx'[c] = "none"
        /\ \A d \in Clients \ {c} : recvCtx'[d] = recvCtx[d]
    BY <1>1, <1>4, <2>1 DEF Types, SocketTypes, Local, Alone
  <2>5. Refs(c)' = Refs(c) - 1
    <3>1. Accepting(c)' <=> Accepting(c)
      BY <2>1, <2>2, <2>3, AcceptingStep
    <3> QED BY <1>2, <2>4, <3>1 DEF Refs, One, out
  <2>6. /\ Types' /\ Accepted' /\ Counted(c)' /\ Own(c)'
        /\ \A d \in Clients \ {c} : Local(d)'
    BY <1>1, <1>2, <1>4, <2>1, <2>2, <2>4, <2>5, LetsGo
    DEF out, stop, seen, Types, SocketTypes, DataTypes
  <2>7. Alone(c)'
    <3>1. \A v \in Workers \ {w} : ~Receives(v, c)
      BY <2>1 DEF Local, Alone
    <3> QED BY <1>2, <2>1, <2>2, <2>3, <3>1, AloneStep DEF Local, out
  <2>8. InOrder(c)'
    BY <1>2, <2>1, <2>2, <2>3, InFlightSame, InOrderKept DEF Local, out, seen, Clean
  <2> QED BY <2>6, <2>7, <2>8 DEF WinInv, Local
<1> QED BY <1>3, <1>4 DEF EndRecv

LEMMA NoMoreDataInv ==
  ASSUME WinInv, NEW w \in Workers, NoMoreData(w)
  PROVE  WinInv'
<1> PICK c : c = worker[w].at
  OBVIOUS
<1>1. /\ worker[w].pc = "scan" /\ worker[w].pc \in Later /\ "end" \in Later /\ Types
      /\ worker[w].data = <<>>
  BY DEF NoMoreData, At, Later, WinInv
<1>2. /\ c \in Clients /\ Receives(w, c) /\ ~Sends(w, c) /\ Local(c)
      /\ \A d \in Clients \ {c} : Apart(w, d)
      /\ ~Frozen /\ main # "done" /\ worker[w].pc # "exit"
  BY <1>1, AtClient
<1>3. /\ Only(w) /\ worker'[w].pc = "end" /\ worker'[w].at = c
      /\ worker'[w].first = worker[w].first /\ worker'[w].data = <<>>
  BY <1>1, GoesOn DEF NoMoreData
<1>4. UNCHANGED <<life, port, out, recvCtx, closing, stop, seen>>
  BY DEF NoMoreData
<1>5. Types'
  BY <1>1, <1>3, <1>4
  DEF Types, SocketTypes, PortTypes, DataTypes, life, port, out, stop, seen, Only
<1>6. \A d \in Clients : /\ SameSocket(d) /\ SameData(d) /\ (New(d)' <=> New(d))
                         /\ \A y \in Contexts : Coming(y, d)' <=> Coming(y, d)
  BY <1>4 DEF SameSocket, SameData, New, Coming, life, port, out, seen
<1>7. Accepted'
  <2>1. \A v \in Workers : worker[v].pc = "repost" => accept'[worker[v].x] = "taken"
    BY <1>4 DEF WinInv, Accepted, port
  <2> QED BY <1>2, <1>3, <1>4, <1>6, <2>1, AcceptedKept DEF WinInv, stop, port
<1>8. /\ Receives(w, c)' /\ ~Sends(w, c)' /\ (Accepts(w, c)' <=> Accepts(w, c))
      /\ ~Posts(w, c)' /\ ~Posts(w, c) /\ \A d \in Clients \ {c} : Apart(w, d)'
  BY <1>1, <1>2, <1>3 DEF Receives, Sends, Accepts, Posts, Apart, Early, Later
<1>9. Alone(c)'
  BY <1>2, <1>3, <1>4, <1>8, AloneStep DEF Local, Alone, out
<1>10. Counted(c)'
  BY <1>2, <1>3, <1>4, <1>6, <1>8, AcceptingStep, RefsSame, CountedSame
  DEF Local, SameSocket, out, stop
<1>11. Own(c)'
  BY <1>1, <1>2, <1>3, <1>4, <1>6, <1>8, OwnKept DEF Local, seen, port
<1>12. InOrder(c)'
  BY <1>2, <1>3, <1>4, <1>8, InFlightSame, InOrderKept DEF Local, out, seen, Clean
<1>13. ASSUME NEW d \in Clients \ {c} PROVE Local(d)'
  BY <1>2, <1>3, <1>4, <1>6, <1>8, OtherClients DEF out, stop, port
<1> QED BY <1>5, <1>7, <1>9, <1>10, <1>11, <1>12, <1>13 DEF WinInv, Local

(* What w does with the data it has taken and the answer it sends.         *)
With(j, p, data, rest, r) == [j EXCEPT !.pc = p, !.data = data, !.rest = rest, !.keep = r.keep]
WithRest(j, p, rest) == [j EXCEPT !.pc = p, !.rest = rest]

LEMMA WithIs ==
  ASSUME NEW j \in Job, j.pc \in Later, NEW p \in Later, NEW data \in Seq(Request),
         NEW rest \in Seq(Blocks), NEW r \in Request
  PROVE  LET i == With(j, p, data, rest, r) IN
         /\ i \in Job /\ i.pc = p /\ i.data = data /\ i.rest = rest
         /\ i.at = j.at /\ i.first = j.first
<1> PICK i : i = With(j, p, data, rest, r)
  OBVIOUS
<1>0. r.keep \in BOOLEAN
  BY DEF Request
<1>1. j \in RecvJob \/ j \in AcceptJob
  BY JobIs
<1>2. CASE j \in RecvJob
  <2>1. /\ i \in RecvJob /\ i.pc = p /\ i.data = data /\ i.rest = rest
        /\ i.at = j.at /\ i.first = j.first
    BY <1>0, <1>2 DEF RecvJob, With
  <2> QED BY <2>1 DEF Job
<1>3. CASE j \in AcceptJob
  <2>1. /\ i \in AcceptJob /\ i.pc = p /\ i.data = data /\ i.rest = rest
        /\ i.at = j.at /\ i.first = j.first
    BY <1>0, <1>3 DEF AcceptJob, With
  <2> QED BY <2>1 DEF Job
<1> QED BY <1>1, <1>2, <1>3

LEMMA WithRestIs ==
  ASSUME NEW j \in Job, j.pc \in Later, NEW p \in Later, NEW rest \in Seq(Blocks)
  PROVE  LET i == WithRest(j, p, rest) IN
         /\ i \in Job /\ i.pc = p /\ i.data = j.data /\ i.rest = rest
         /\ i.at = j.at /\ i.first = j.first
<1> PICK i : i = WithRest(j, p, rest)
  OBVIOUS
<1>1. j \in RecvJob \/ j \in AcceptJob
  BY JobIs
<1>2. CASE j \in RecvJob
  <2>1. /\ i \in RecvJob /\ i.pc = p /\ i.data = j.data /\ i.rest = rest
        /\ i.at = j.at /\ i.first = j.first
    BY <1>2 DEF RecvJob, WithRest
  <2> QED BY <2>1 DEF Job
<1>3. CASE j \in AcceptJob
  <2>1. /\ i \in AcceptJob /\ i.pc = p /\ i.data = j.data /\ i.rest = rest
        /\ i.at = j.at /\ i.first = j.first
    BY <1>3 DEF AcceptJob, WithRest
  <2> QED BY <2>1 DEF Job
<1> QED BY <1>1, <1>2, <1>3

(* The first of the requests that were received is the next one executed.  *)
LEMMA NumberedNext ==
  ASSUME NEW c, NEW s \in Seq(Request), NEW t \in Seq(Request), NEW more, t # <<>>,
         Numbered(c, 0, s), Numbered(c, Len(s), t), Numbered(c, Len(s) + Len(t), more)
  PROVE  LET u == Append(s, Head(t)) IN
         /\ u \in Seq(Request) /\ Tail(t) \in Seq(Request)
         /\ Numbered(c, 0, u) /\ Numbered(c, Len(u), Tail(t))
         /\ Numbered(c, Len(u) + Len(Tail(t)), more)
<1> PICK u, h, l : u = Append(s, h) /\ h = Head(t) /\ l = Tail(t)
  OBVIOUS
<1>1. Len(s) \in Nat /\ DOMAIN s = 1 .. Len(s) /\ Len(t) \in Nat /\ DOMAIN t = 1 .. Len(t)
  BY LenProperties
<1>2. Len(t) # 0 /\ h \in Request /\ h = t[1] /\ l \in Seq(Request) /\ Len(l) = Len(t) - 1
      /\ \A i \in 1 .. Len(l) : l[i] = t[i + 1]
  BY <1>1, HeadTailProperties, EmptySeq
<1>3. u \in Seq(Request) /\ Len(u) = Len(s) + 1 /\ (\A i \in 1 .. Len(s) : u[i] = s[i])
      /\ u[Len(s) + 1] = h
  BY <1>2, AppendProperties
<1>4. DOMAIN u = 1 .. Len(u) /\ DOMAIN l = 1 .. Len(l)
  BY <1>2, <1>3, LenProperties
<1>5. h.of = c /\ h.k = Len(s) + 1
  BY <1>1, <1>2 DEF Numbered
<1>6. Numbered(c, 0, u)
  <2>1. \A i \in 1 .. Len(s) : u[i].of = c /\ u[i].k = 0 + i
    BY <1>1, <1>3 DEF Numbered
  <2> QED BY <1>1, <1>3, <1>4, <1>5, <2>1 DEF Numbered
<1>7. Numbered(c, Len(u), l)
  <2> SUFFICES ASSUME NEW i \in 1 .. Len(l)
               PROVE  l[i].of = c /\ l[i].k = Len(u) + i
    BY <1>4 DEF Numbered
  <2>1. i \in Nat /\ i + 1 \in 1 .. Len(t) /\ l[i] = t[i + 1]
    BY <1>1, <1>2
  <2>2. t[i + 1].of = c /\ t[i + 1].k = Len(s) + (i + 1)
    BY <1>1, <2>1 DEF Numbered
  <2>3. Len(s) + (i + 1) = Len(u) + i
    BY <1>1, <1>3, <2>1
  <2> QED BY <2>1, <2>2, <2>3
<1>8. Len(u) + Len(l) = Len(s) + Len(t)
  BY <1>1, <1>2, <1>3
<1> QED BY <1>2, <1>3, <1>6, <1>7, <1>8

LEMMA PrefixOfConcat ==
  ASSUME NEW S, NEW s \in Seq(S), NEW t \in Seq(S)
  PROVE  IsPrefix(s, s \o t)
<1> PICK u : u = s \o t
  OBVIOUS
<1>1. Len(s) \in Nat /\ Len(t) \in Nat /\ \A i \in 1 .. Len(s) : s[i] \in S
  BY LenProperties, ElementOfSeq
<1>2. u \in Seq(S) /\ Len(u) = Len(s) + Len(t) /\ \A i \in 1 .. Len(s) : u[i] = s[i]
  BY <1>1, ConcatProperties
<1>3. /\ SubSeq(s, 1, Len(s)) \in Seq(S) /\ Len(SubSeq(s, 1, Len(s))) = Len(s)
      /\ \A i \in 1 .. Len(s) : SubSeq(s, 1, Len(s))[i] = s[i]
  BY <1>1, SubSeqProperties
<1>4. /\ SubSeq(u, 1, Len(s)) \in Seq(S) /\ Len(SubSeq(u, 1, Len(s))) = Len(s)
      /\ \A i \in 1 .. Len(s) : SubSeq(u, 1, Len(s))[i] = u[i]
  BY <1>1, <1>2, SubSeqProperties
<1>5. SubSeq(s, 1, Len(s)) = SubSeq(u, 1, Len(s))
  BY <1>2, <1>3, <1>4, SeqEqual
<1> QED BY <1>1, <1>2, <1>5 DEF IsPrefix

LEMMA PrefixOfConcats ==
  ASSUME NEW S, NEW s \in Seq(S), NEW t \in Seq(S), NEW u \in Seq(S)
  PROVE  IsPrefix(s, (s \o t) \o u)
<1>1. (s \o t) \o u = s \o (t \o u)
  BY ConcatAssociative
<1>2. t \o u \in Seq(S)
  BY ConcatProperties
<1> QED BY <1>1, <1>2, PrefixOfConcat

(* Where the blocks are: what is sent, under way and queued.               *)
LEMMA SentTypes ==
  ASSUME DataTypes, NEW c \in Clients
  PROVE  /\ wire[c] \in Seq(Blocks) /\ qSend[c] \in Seq(Blocks) /\ answered[c] \in Seq(Blocks)
         /\ block[c] \in Blocks /\ InFlight(c) \in Seq(Blocks)
         /\ InFlight(c) \o qSend[c] \in Seq(Blocks) /\ Sent(c) \in Seq(Blocks)
<1>1. /\ wire[c] \in Seq(Blocks) /\ qSend[c] \in Seq(Blocks) /\ answered[c] \in Seq(Blocks)
      /\ block[c] \in Blocks
  BY DEF DataTypes
<1>2. InFlight(c) \in Seq(Blocks)
  BY <1>1, EmptySeq DEF InFlight
<1> QED BY <1>1, <1>2, ConcatProperties DEF Sent

(* InOrder after a step, from where the blocks are.                        *)
LEMMA InOrderAfter ==
  ASSUME Types', NEW c \in Clients,
         Clean(c)' =>
           /\ \A w \in Workers : Posts(w, c)' => Sent(c)' \o worker'[w].rest = answered'[c]
           /\ (\A w \in Workers : ~Posts(w, c)') => Sent(c)' = answered'[c]
           /\ sendCtx'[c] = "none" => qSend'[c] = <<>>
           /\ \A w \in Workers : Sends(w, c)' /\ worker'[w].pc = "erase" => qSend'[c] = <<>>
  PROVE  InOrder(c)'
<1> SUFFICES ASSUME Clean(c)' PROVE IsPrefix(wire[c], answered[c])'
  BY DEF InOrder
<1> PICK a, b, q : a = wire'[c] /\ b = answered'[c] /\ q = (InFlight(c) \o qSend[c])'
  OBVIOUS
<1>1. a \in Seq(Blocks) /\ q \in Seq(Blocks) /\ Sent(c)' = a \o q
  <2>1. /\ block'[c] \in Blocks /\ wire'[c] \in Seq(Blocks) /\ qSend'[c] \in Seq(Blocks)
    BY DEF Types, DataTypes
  <2>2. InFlight(c)' \in Seq(Blocks)
    BY <2>1, EmptySeq DEF InFlight
  <2> QED BY <2>1, <2>2, ConcatProperties DEF Sent
<1>2. CASE \A w \in Workers : ~Posts(w, c)'
  BY <1>1, <1>2, PrefixOfConcat
<1>3. ASSUME NEW w \in Workers, Posts(w, c)'
      PROVE  IsPrefix(a, b)
  <2> PICK r : r = worker'[w].rest
    OBVIOUS
  <2>1. r \in Seq(Blocks)
    <3>1. worker'[w] \in Job /\ worker'[w].pc \in Early \union Later
      BY <1>3 DEF Types, PortTypes, Posts, Later
    <3> QED BY <3>1, JobIs
  <2>2. (a \o q) \o r = b
    BY <1>1, <1>3
  <2>3. a \in Seq(Blocks) /\ q \in Seq(Blocks)
    BY <1>1
  <2> QED BY <2>1, <2>2, <2>3, PrefixOfConcats
<1> QED BY <1>2, <1>3

LEMMA receivedDataInv ==
  ASSUME WinInv, NEW w \in Workers, receivedData(w)
  PROVE  WinInv'
<1> PICK c : c = worker[w].at
  OBVIOUS
<1>a. PICK r : r = Head(worker[w].data)
  OBVIOUS
<1>b. PICK blocks : blocks = [i \in 1 .. r.blocks |-> <<Len(executed[c]) + 1, i>>]
  OBVIOUS
<1>1. /\ worker[w].pc = "scan" /\ worker[w].pc \in Later /\ "post" \in Later /\ Types
      /\ worker[w].data # <<>>
  BY DEF receivedData, At, Later, WinInv
<1>2. /\ c \in Clients /\ Receives(w, c) /\ ~Sends(w, c) /\ Local(c)
      /\ \A d \in Clients \ {c} : Apart(w, d)
      /\ ~Frozen /\ main # "done" /\ worker[w].pc # "exit"
  BY <1>1, AtClient
<1>3. worker[w].data \in Seq(Request) /\ executed[c] \in Seq(Request)
      /\ answered[c] \in Seq(Blocks)
  BY <1>1, <1>2, JobIs DEF Types, PortTypes, DataTypes
<1>4. r \in Request /\ Tail(worker[w].data) \in Seq(Request) /\ r.blocks \in Nat
      /\ r.keep \in BOOLEAN
  <2>1. r \in Request /\ Tail(worker[w].data) \in Seq(Request)
    BY <1>1, <1>3, <1>a, HeadTailProperties
  <2> QED BY <2>1 DEF Request
<1>5. blocks \in Seq(Blocks)
  <2>1. Len(executed[c]) + 1 \in Nat
    BY <1>3, LenProperties
  <2>2. \A i \in 1 .. r.blocks : <<Len(executed[c]) + 1, i>> \in Blocks
    BY <1>4, <2>1 DEF Blocks
  <2>3. blocks \in [1 .. r.blocks -> Blocks]
    BY <1>b, <2>2
  <2> QED BY <1>4, <2>3, SeqDef
<1>6. /\ executed' = [executed EXCEPT ![c] = Append(executed[c], r)]
      /\ answered' = [answered EXCEPT ![c] = answered[c] \o blocks]
      /\ UNCHANGED <<life, port, out, recvCtx, closing, stop, input, wire, blemish, errors>>
  BY <1>a, <1>b DEF receivedData
<1>7. /\ Only(w) /\ worker'[w].pc = "post" /\ worker'[w].data = Tail(worker[w].data)
      /\ worker'[w].rest = blocks
      /\ worker'[w].at = c /\ worker'[w].first = worker[w].first
  <2>l. PICK l : l = Tail(worker[w].data)
    OBVIOUS
  <2>j. PICK g, j : g = worker[w] /\ j = With(g, "post", l, blocks, r)
    OBVIOUS
  <2>1. worker' = [worker EXCEPT ![w] = j]
    BY <1>a, <1>b, <2>l, <2>j DEF receivedData, With
  <2>2. l \in Seq(Request) /\ g \in Job /\ g.pc \in Later /\ "post" \in Later
    BY <1>1, <1>4, <2>l, <2>j DEF Types, PortTypes
  <2>3. /\ j \in Job /\ j.pc = "post" /\ j.data = l /\ j.rest = blocks
        /\ j.at = g.at /\ j.first = g.first
    <3>1. r \in Request
      BY <1>4
    <3> QED BY <1>5, <2>j, <2>2, <3>1, WithIs
  <2> QED BY <1>1, <2>l, <2>j, <2>1, <2>3 DEF Types, PortTypes, Only
<1>8. /\ Append(executed[c], r) \in Seq(Request) /\ answered[c] \o blocks \in Seq(Blocks)
      /\ executed'[c] = Append(executed[c], r) /\ answered'[c] = answered[c] \o blocks
  <2>1. Append(executed[c], r) \in Seq(Request) /\ answered[c] \o blocks \in Seq(Blocks)
    BY <1>3, <1>4, <1>5, AppendProperties, ConcatProperties
  <2> QED BY <1>1, <1>2, <1>6, <2>1 DEF Types, DataTypes
<1>9. Types'
  BY <1>1, <1>6, <1>7, <1>8
  DEF Types, SocketTypes, PortTypes, DataTypes, life, port, out, stop, Only
<1>10. /\ \A d \in Clients : SameSocket(d) /\ (New(d)' <=> New(d))
       /\ \A d \in Clients \ {c} : SameData(d)
       /\ \A d \in Clients, y \in Contexts : Coming(y, d)' <=> Coming(y, d)
  BY <1>1, <1>6 DEF SameSocket, SameData, New, Coming, life, port, out, Types, DataTypes
<1>11. Accepted'
  <2>1. \A v \in Workers : worker[v].pc = "repost" => accept'[worker[v].x] = "taken"
    BY <1>6 DEF WinInv, Accepted, port
  <2> QED BY <1>2, <1>6, <1>7, <1>10, <2>1, AcceptedKept DEF WinInv, stop, port
<1>12. /\ Receives(w, c)' /\ ~Sends(w, c)' /\ (Accepts(w, c)' <=> Accepts(w, c))
       /\ Posts(w, c)' /\ ~Posts(w, c) /\ \A d \in Clients \ {c} : Apart(w, d)'
       /\ \A v \in Workers \ {w} : ~Receives(v, c) /\ ~Posts(v, c)
       /\ \A v \in Workers \ {w} : ~Receives(v, c)' /\ ~Posts(v, c)'
  <2>1. /\ Receives(w, c)' /\ ~Sends(w, c)' /\ (Accepts(w, c)' <=> Accepts(w, c))
        /\ Posts(w, c)' /\ ~Posts(w, c) /\ \A d \in Clients \ {c} : Apart(w, d)'
    BY <1>1, <1>2, <1>7 DEF Receives, Sends, Accepts, Posts, Apart, Early, Later
  <2>2. \A v \in Workers \ {w} : ~Receives(v, c) /\ worker'[v] = worker[v]
    BY <1>2, <1>7 DEF Local, Alone, Only
  <2> QED BY <2>1, <2>2 DEF Receives, Posts, Later
<1>13. Alone(c)'
  BY <1>2, <1>6, <1>7, <1>12, AloneStep DEF Local, Alone, out
<1>14. Counted(c)'
  BY <1>2, <1>6, <1>7, <1>10, <1>12, AcceptingStep, RefsSame, CountedSame
  DEF Local, SameSocket, out, stop
<1>15. Own(c)'
  <2> SUFFICES ASSUME "first" \notin blemish[c] PROVE Own(c)'
    BY <1>6 DEF Own
  <2>1. /\ Numbered(c, 0, executed[c])
        /\ Numbered(c, Len(executed[c]), worker[w].data)
        /\ Numbered(c, Len(executed[c]) + Len(worker[w].data), input[c])
    BY <1>1, <1>2 DEF Local, Own
  <2>2. /\ Numbered(c, 0, executed'[c])
        /\ Numbered(c, Len(executed'[c]), worker'[w].data)
        /\ Numbered(c, Len(executed'[c]) + Len(worker'[w].data), input'[c])
    <3> PICK s, t, more : s = executed[c] /\ t = worker[w].data /\ more = input[c]
      OBVIOUS
    <3>1. s \in Seq(Request) /\ t \in Seq(Request) /\ t # <<>>
      BY <1>1, <1>3
    <3> PICK u : u = Append(s, Head(t))
      OBVIOUS
    <3>2. Numbered(c, 0, u) /\ Numbered(c, Len(u), Tail(t))
          /\ Numbered(c, Len(u) + Len(Tail(t)), more)
      BY <2>1, <3>1, NumberedNext
    <3>3. executed'[c] = u /\ worker'[w].data = Tail(t) /\ input'[c] = more
      BY <1>6, <1>7, <1>8, <1>a
    <3> QED BY <3>2, <3>3
  <2>3. recvCtx'[c] # "posted" /\ worker'[w].pc \notin Early
    BY <1>2, <1>6, <1>7 DEF Local, Alone, Early
  <2>4. ~New(c)' /\ \A x \in Contexts : ~Coming(x, c)'
    <3>1. ~New(c)
      BY <1>1, <1>2, NewHasNone
    <3> QED BY <1>2, <1>10, <3>1 DEF WinInv, Accepted
  <2> QED BY <1>12, <2>2, <2>3, <2>4 DEF Own
<1>16. InOrder(c)'
  <2> SUFFICES ASSUME Clean(c)'
               PROVE  /\ Sent(c)' \o blocks = answered'[c]
                      /\ sendCtx'[c] = "none" => qSend'[c] = <<>>
                      /\ \A v \in Workers : Sends(v, c)' /\ worker'[v].pc = "erase"
                                              => qSend'[c] = <<>>
    BY <1>2, <1>7, <1>9, <1>12, InOrderAfter
  <2>1. Clean(c)
    BY <1>6 DEF Clean
  <2>2. Sent(c) = answered[c] /\ (sendCtx[c] = "none" => qSend[c] = <<>>)
        /\ \A v \in Workers : Sends(v, c) /\ worker[v].pc = "erase" => qSend[c] = <<>>
    BY <1>2, <1>12, <2>1 DEF Local, InOrder
  <2>3. InFlight(c)' = InFlight(c)
    BY <1>2, <1>6, <1>7, <1>12, InFlightSame DEF out
  <2>4. Sent(c)' = Sent(c)
    BY <1>6, <2>3 DEF Sent, out
  <2>5. \A v \in Workers : Sends(v, c)' => Sends(v, c) /\ worker'[v] = worker[v]
    BY <1>7, <1>12 DEF Only, Sends
  <2> QED BY <1>6, <1>8, <2>2, <2>4, <2>5 DEF out
<1>17. ASSUME NEW d \in Clients \ {c} PROVE Local(d)'
  BY <1>2, <1>6, <1>7, <1>10, <1>12, OtherClients DEF out, stop, port
<1> QED BY <1>9, <1>11, <1>13, <1>14, <1>15, <1>16, <1>17 DEF WinInv, Local

-----------------------------------------------------------------------------
(* Sending *)

(* What the thread w, which sends an answer to c, leaves as it is.         *)
LEMMA PostStep ==
  ASSUME WinInv, NEW w \in Workers, NEW c, c = worker[w].at, worker[w].pc \in {"post", "start"},
         Only(w), worker'[w].pc \in {"scan", "post", "start"}, worker'[w].at = c,
         worker'[w].first = worker[w].first, worker'[w].data = worker[w].data,
         UNCHANGED <<deleted, vpClientSocks, port, recvCtx, stop, input, executed, answered,
                     wire, errors>>,
         closing' \in [Clients -> BOOLEAN], nRefCount' \in [Clients -> Nat],
         sendCtx' \in [Clients -> {"none", "held", "posted", "taken", "lost"}],
         block' \in [Clients -> Blocks], qSend' \in [Clients -> Seq(Blocks)],
         blemish' \in [Clients -> SUBSET {"first", "late", "send"}],
         \A d \in Clients \ {c} :
           /\ nRefCount'[d] = nRefCount[d] /\ sendCtx'[d] = sendCtx[d] /\ block'[d] = block[d]
           /\ qSend'[d] = qSend[d] /\ blemish'[d] = blemish[d],
         nRefCount'[c] >= nRefCount[c], blemish[c] \subseteq blemish'[c],
         worker'[w].pc = "start" => sendCtx'[c] = "held",
         sendCtx[c] = "taken" => sendCtx'[c] = "taken"
  PROVE  /\ c \in Clients /\ Local(c) /\ nRefCount[c] >= 1 /\ ~Frozen /\ main # "done" /\ Types
         /\ ~Sends(w, c) /\ ~Sends(w, c)' /\ Posts(w, c)
         /\ \A v \in Workers \ {w} : ~Posts(v, c) /\ ~Posts(v, c)'
         /\ \A v \in Workers : Sends(v, c)' => Sends(v, c) /\ v # w /\ worker'[v] = worker[v]
         /\ Types' /\ Accepted' /\ Alone(c)' /\ Own(c)' /\ (Accepting(c)' <=> Accepting(c))
         /\ \A d \in Clients \ {c} : Local(d)'
<1>1. worker[w].pc \in Later
  BY DEF Later
<1>2. /\ c \in Clients /\ Receives(w, c) /\ ~Sends(w, c) /\ Local(c) /\ nRefCount[c] >= 1
      /\ \A d \in Clients \ {c} : Apart(w, d)
      /\ ~Frozen /\ main # "done" /\ worker[w].pc # "exit" /\ Types
  BY <1>1, AtClient DEF WinInv
<1>3. Types'
  BY <1>2 DEF Types, SocketTypes, PortTypes, DataTypes, port, stop, Only
<1>4. \A d \in Clients \ {c} : SameSocket(d) /\ SameData(d) /\ (New(d)' <=> New(d))
  BY DEF SameSocket, SameData, New
<1>5. \A d \in Clients, y \in Contexts : Coming(y, d)' <=> Coming(y, d)
  BY DEF port, Coming
<1>6. ~New(c) /\ ~New(c)'
  <2>1. nRefCount[c] \in Nat /\ nRefCount'[c] \in Nat
    BY <1>2, <1>3 DEF Types, SocketTypes
  <2> QED BY <1>2, <2>1 DEF New
<1>7. Accepted'
  <2>1. \A v \in Workers : worker[v].pc = "repost" => accept'[worker[v].x] = "taken"
    BY DEF WinInv, Accepted, port
  <2> QED BY <1>2, <1>4, <1>6, <2>1, AcceptedKept DEF WinInv, stop, port
<1>8. /\ Receives(w, c)' /\ ~Sends(w, c)' /\ (Accepts(w, c)' <=> Accepts(w, c))
      /\ Posts(w, c) /\ \A d \in Clients \ {c} : Apart(w, d)'
  BY <1>2 DEF Receives, Sends, Accepts, Posts, Apart, Later
<1>9. \A v \in Workers \ {w} : ~Receives(v, c) /\ worker'[v] = worker[v]
  BY <1>2 DEF Local, Alone, Only
<1>10. \A v \in Workers \ {w} : ~Posts(v, c) /\ ~Posts(v, c)'
  BY <1>9 DEF Posts, Receives, Later
<1>11. \A v \in Workers : Sends(v, c)' => Sends(v, c) /\ v # w /\ worker'[v] = worker[v]
  BY <1>8, <1>9 DEF Sends
<1>12. Alone(c)'
  <2>1. \A v \in Workers : Sends(v, c) => sendCtx'[c] = sendCtx[c]
    BY <1>2 DEF Local, Alone
  <2> QED BY ZenonT(40), <1>2, <1>8, <1>9, <2>1, AloneStep DEF Local, Alone
<1>13. Own(c)'
  BY <1>1, <1>2, <1>5, <1>6, <1>8, OwnKept DEF Local, port, Later
<1>14. Accepting(c)' <=> Accepting(c)
  BY <1>2, <1>8, AcceptingStep
<1>15. ASSUME NEW d \in Clients \ {c} PROVE Local(d)'
  BY <1>2, <1>4, <1>5, <1>8, OtherClients DEF stop, port
<1> QED BY <1>2, <1>3, <1>7, <1>8, <1>10, <1>11, <1>12, <1>13, <1>14, <1>15

LEMMA HeadThenTail ==
  ASSUME NEW S, NEW s \in Seq(S), s # <<>>
  PROVE  /\ s = <<Head(s)>> \o Tail(s) /\ Head(s) \in S /\ Tail(s) \in Seq(S)
         /\ <<Head(s)>> \in Seq(S)
<1>1. Head(s) \in S /\ Tail(s) \in Seq(S)
  BY HeadTailProperties
<1>2. Len(s) \in Nat /\ Len(s) # 0
  BY EmptySeq, LenProperties
<1>3. SubSeq(s, 1, Len(s)) = <<s[1]>> \o SubSeq(s, 1 + 1, Len(s))
  BY <1>2, SubSeqRecursiveFirst
<1>4. SubSeq(s, 1, Len(s)) = s /\ Tail(s) = SubSeq(s, 2, Len(s))
  BY SubSeqFull, TailIsSubSeq
<1>5. <<Head(s)>> \in Seq(S)
  BY <1>1
<1>6. Head(s) = s[1] /\ 1 + 1 = 2
  BY <1>2
<1> QED BY <1>1, <1>3, <1>4, <1>5, <1>6

(* The blocks sent, under way, queued and to be queued, in line.           *)
Line(s, f, q, t) == (s \o (f \o q)) \o t
Before(b, t) == <<b>> \o t
Queued(q, b) == Append(q, b)

(* The next block goes to the end of the queue, ...                        *)
LEMMA BlockQueued ==
  ASSUME NEW s \in Seq(Blocks), NEW f \in Seq(Blocks), NEW q \in Seq(Blocks), NEW b \in Blocks,
         NEW t \in Seq(Blocks)
  PROVE  Line(s, f, Queued(q, b), t) = Line(s, f, q, Before(b, t))
<1>1. <<b>> \in Seq(Blocks)
  OBVIOUS
<1>2. Append(q, b) = q \o <<b>> /\ q \o <<b>> \in Seq(Blocks) /\ f \o q \in Seq(Blocks)
  BY <1>1, AppendIsConcat, ConcatProperties
<1>3. f \o (q \o <<b>>) = (f \o q) \o <<b>>
  BY <1>1, ConcatAssociative
<1>4. s \o ((f \o q) \o <<b>>) = (s \o (f \o q)) \o <<b>> /\ s \o (f \o q) \in Seq(Blocks)
  BY <1>1, <1>2, ConcatAssociative, ConcatProperties
<1>5. ((s \o (f \o q)) \o <<b>>) \o t = (s \o (f \o q)) \o (<<b>> \o t)
  BY SMTT(30), <1>1, <1>4, ConcatAssociative
<1> QED BY <1>2, <1>3, <1>4, <1>5 DEF Line, Before, Queued

(* ... or is the one under way, if nothing is queued.                      *)
LEMMA BlockHeld ==
  ASSUME NEW s \in Seq(Blocks), NEW b \in Blocks, NEW t \in Seq(Blocks)
  PROVE  Line(s, <<b>>, <<>>, t) = Line(s, <<>>, <<>>, Before(b, t))
<1>1. <<b>> \in Seq(Blocks) /\ <<>> \in Seq(Blocks)
  BY EmptySeq
<1>2. <<b>> \o <<>> = <<b>> /\ <<>> \o <<>> = <<>> /\ s \o <<>> = s
  BY <1>1, ConcatEmptySeq
<1>3. (s \o <<b>>) \o t = s \o (<<b>> \o t)
  BY <1>1, ConcatAssociative
<1> QED BY <1>2, <1>3 DEF Line, Before

LEMMA postToSendQueueInv ==
  ASSUME WinInv, NEW w \in Workers, postToSendQueue(w)
  PROVE  WinInv'
<1> PICK c : c = worker[w].at
  OBVIOUS
<1>a. PICK b, t : b = Head(worker[w].rest) /\ t = Tail(worker[w].rest)
  OBVIOUS
<1>1. /\ worker[w].pc = "post" /\ worker[w].pc \in Later /\ {"post", "start"} \subseteq Later
      /\ worker[w] \in Job /\ Types
  BY DEF postToSendQueue, At, Later, WinInv, Types, PortTypes
<1>2. /\ c \in Clients /\ Local(c) /\ ~Frozen /\ worker[w].pc # "exit" /\ ~Sends(w, c)
      /\ Receives(w, c)
  BY <1>1, AtClient
<1>3. worker[w].rest \in Seq(Blocks) /\ worker[w].rest # <<>>
  BY <1>1, JobIs DEF postToSendQueue
<1>4. worker[w].rest = <<b>> \o t /\ b \in Blocks /\ t \in Seq(Blocks)
  BY <1>a, <1>3, HeadThenTail
<1>5. UNCHANGED <<life, port, recvCtx, closing, stop, input, executed, answered, wire, errors>>
  BY DEF postToSendQueue
<1>6. /\ wire[c] \in Seq(Blocks) /\ qSend[c] \in Seq(Blocks) /\ InFlight(c) \in Seq(Blocks)
  BY <1>1, <1>2, SentTypes DEF Types
<1>7. /\ closing' \in [Clients -> BOOLEAN] /\ nRefCount' \in [Clients -> Nat]
      /\ \A d \in Clients : nRefCount'[d] = nRefCount[d] /\ nRefCount[d] >= nRefCount[d]
  BY <1>1, <1>5 DEF Types, SocketTypes, life
<1>8. CASE sendCtx[c] # "none"
  <2>a. PICK j : j = WithRest(worker[w], "post", t)
    OBVIOUS
  <2>1. /\ qSend' = [qSend EXCEPT ![c] = Append(qSend[c], b)] /\ UNCHANGED <<sendCtx, block>>
        /\ blemish' = [blemish EXCEPT ![c] = @ \union
             IF \E v \in Workers : At(v, "erase") /\ worker[v].at = c THEN {"late"} ELSE {}]
    BY <1>8, <1>a DEF postToSendQueue
  <2>2. worker' = [worker EXCEPT ![w] = j]
    <3>1. worker' = [worker EXCEPT ![w] = [worker[w] EXCEPT !.rest = t]]
      BY <1>8, <1>a DEF postToSendQueue
    <3>2. [worker[w] EXCEPT !.rest = t] = [worker[w] EXCEPT !.pc = "post", !.rest = t]
      <4>1. worker[w] \in RecvJob \/ worker[w] \in AcceptJob
        BY <1>1, JobIs
      <4>2. CASE worker[w] \in RecvJob
        BY <1>1, <4>2 DEF RecvJob
      <4>3. CASE worker[w] \in AcceptJob
        BY <1>1, <4>3 DEF AcceptJob
      <4> QED BY <4>1, <4>2, <4>3
    <3> QED BY <2>a, <3>1, <3>2 DEF WithRest
  <2>3. /\ Only(w) /\ worker'[w].pc = "post" /\ worker'[w].rest = t /\ worker'[w].at = c
        /\ worker'[w].first = worker[w].first /\ worker'[w].data = worker[w].data
    <3>1. /\ j \in Job /\ j.pc = "post" /\ j.rest = t /\ j.at = c
          /\ j.first = worker[w].first /\ j.data = worker[w].data
      BY <1>1, <1>4, <2>a, WithRestIs
    <3> QED BY <1>1, <2>2, <3>1 DEF Types, PortTypes, Only
  <2>4. /\ Append(qSend[c], b) \in Seq(Blocks) /\ qSend' \in [Clients -> Seq(Blocks)]
        /\ qSend'[c] = Append(qSend[c], b) /\ \A d \in Clients \ {c} : qSend'[d] = qSend[d]
    <3>1. Append(qSend[c], b) \in Seq(Blocks)
      BY <1>4, <1>6, AppendProperties
    <3> QED BY <1>1, <1>2, <2>1, <3>1 DEF Types, DataTypes
  <2>5. /\ blemish' \in [Clients -> SUBSET {"first", "late", "send"}]
        /\ blemish[c] \subseteq blemish'[c] /\ \A d \in Clients \ {c} : blemish'[d] = blemish[d]
        /\ (\E v \in Workers : Sends(v, c) /\ worker[v].pc = "erase") => "late" \in blemish'[c]
    BY <1>1, <1>2, <2>1 DEF Types, DataTypes, At, Sends
  <2>6. /\ sendCtx' \in [Clients -> {"none", "held", "posted", "taken", "lost"}]
        /\ block' \in [Clients -> Blocks] /\ sendCtx' = sendCtx /\ block' = block
    BY <1>1, <2>1 DEF Types, SocketTypes, DataTypes
  <2>7. /\ ~Sends(w, c)' /\ Posts(w, c)
        /\ \A v \in Workers \ {w} : ~Posts(v, c)'
        /\ \A v \in Workers : Sends(v, c)' => Sends(v, c) /\ worker'[v] = worker[v]
        /\ Types' /\ Accepted' /\ Alone(c)' /\ Own(c)' /\ (Accepting(c)' <=> Accepting(c))
        /\ \A d \in Clients \ {c} : Local(d)'
    <3>1. \A d \in Clients \ {c} :
           /\ nRefCount'[d] = nRefCount[d] /\ sendCtx'[d] = sendCtx[d] /\ block'[d] = block[d]
           /\ qSend'[d] = qSend[d] /\ blemish'[d] = blemish[d]
      BY <1>7, <2>4, <2>5, <2>6
    <3>2. /\ nRefCount'[c] >= nRefCount[c] /\ worker'[w].pc # "start"
          /\ sendCtx[c] = "taken" => sendCtx'[c] = "taken"
      BY <1>2, <1>7, <2>3, <2>6
    <3>3. UNCHANGED <<deleted, vpClientSocks, port, recvCtx, stop, input, executed, answered,
                      wire, errors>>
      BY <1>5 DEF life
    <3>4. blemish[c] \subseteq blemish'[c] /\ worker'[w].pc = "post"
      BY <2>3, <2>5
    <3>5. /\ blemish' \in [Clients -> SUBSET {"first", "late", "send"}]
          /\ qSend' \in [Clients -> Seq(Blocks)]
      BY <2>4, <2>5
    <3> QED BY <1>1, <1>7, <2>3, <2>6, <3>1, <3>2, <3>3, <3>4, <3>5, PostStep
  <2>8. Counted(c)'
    BY <1>1, <1>2, <1>5, <2>1, <2>7, RefsSame, CountedSame, AtClient DEF Local, life, stop
  <2>9. InOrder(c)'
    <3>1. Posts(w, c)' /\ sendCtx'[c] # "none"
      BY <1>8, <2>1, <2>3 DEF Posts
    <3> SUFFICES ASSUME Clean(c)'
                 PROVE  /\ Sent(c)' \o t = answered'[c]
                        /\ \A v \in Workers : ~(Sends(v, c)' /\ worker'[v].pc = "erase")
      BY <1>2, <2>3, <2>7, <3>1, InOrderAfter
    <3>2. Clean(c) /\ "late" \notin blemish'[c]
      BY <2>5 DEF Clean
    <3>3. \A v \in Workers : ~(Sends(v, c)' /\ worker'[v].pc = "erase")
      BY <2>5, <2>7, <3>2
    <3>4. Sent(c) \o worker[w].rest = answered[c]
      BY <1>2, <2>7, <3>2 DEF Local, InOrder
    <3>5. InFlight(c)' = InFlight(c)
      BY <1>2, <2>1, <2>3, <2>7, InFlightSame
    <3>6. Sent(c)' \o t = Sent(c) \o (<<b>> \o t)
      <4>1. PICK s, f, q : s = wire[c] /\ f = InFlight(c) /\ q = qSend[c]
        OBVIOUS
      <4>2. Line(s, f, Queued(q, b), t) = Line(s, f, q, Before(b, t))
        <5>1. /\ s \in Seq(Blocks) /\ f \in Seq(Blocks) /\ q \in Seq(Blocks)
              /\ b \in Blocks /\ t \in Seq(Blocks)
          BY <1>4, <1>6, <4>1
        <5> QED BY <5>1, BlockQueued
      <4>3. Sent(c)' \o t = Line(s, f, Queued(q, b), t)
        BY <1>5, <2>4, <3>5, <4>1 DEF Sent, Line, Queued
      <4>4. Sent(c) \o (<<b>> \o t) = Line(s, f, q, Before(b, t))
        BY <4>1 DEF Sent, Line, Before
      <4> QED BY <4>2, <4>3, <4>4
    <3> QED BY <1>4, <1>5, <3>3, <3>4, <3>6
  <2> QED BY <2>7, <2>8, <2>9 DEF WinInv, Local
<1>9. CASE sendCtx[c] = "none"
  <2>a. PICK j : j = WithRest(worker[w], "start", t)
    OBVIOUS
  <2>1. /\ sendCtx' = [sendCtx EXCEPT ![c] = "held"] /\ block' = [block EXCEPT ![c] = b]
        /\ UNCHANGED <<qSend, blemish>>
    BY <1>9, <1>a DEF postToSendQueue
  <2>2. worker' = [worker EXCEPT ![w] = j]
    <3>1. worker' = [worker EXCEPT ![w] = [worker[w] EXCEPT !.rest = t, !.pc = "start"]]
      BY <1>9, <1>a DEF postToSendQueue
    <3>2. [worker[w] EXCEPT !.rest = t, !.pc = "start"]
            = [worker[w] EXCEPT !.pc = "start", !.rest = t]
      <4>1. worker[w] \in RecvJob \/ worker[w] \in AcceptJob
        BY <1>1, JobIs
      <4>2. CASE worker[w] \in RecvJob
        BY <1>1, <4>2 DEF RecvJob
      <4>3. CASE worker[w] \in AcceptJob
        BY <1>1, <4>3 DEF AcceptJob
      <4> QED BY <4>1, <4>2, <4>3
    <3> QED BY <2>a, <3>1, <3>2 DEF WithRest
  <2>3. /\ Only(w) /\ worker'[w].pc = "start" /\ worker'[w].rest = t /\ worker'[w].at = c
        /\ worker'[w].first = worker[w].first /\ worker'[w].data = worker[w].data
    <3>1. /\ j \in Job /\ j.pc = "start" /\ j.rest = t /\ j.at = c
          /\ j.first = worker[w].first /\ j.data = worker[w].data
      BY <1>1, <1>4, <2>a, WithRestIs
    <3> QED BY <1>1, <2>2, <3>1 DEF Types, PortTypes, Only
  <2>4. /\ sendCtx' \in [Clients -> {"none", "held", "posted", "taken", "lost"}]
        /\ block' \in [Clients -> Blocks] /\ sendCtx'[c] = "held" /\ block'[c] = b
        /\ \A d \in Clients \ {c} : sendCtx'[d] = sendCtx[d] /\ block'[d] = block[d]
    BY <1>1, <1>2, <1>4, <2>1 DEF Types, SocketTypes, DataTypes
  <2>5. /\ qSend' \in [Clients -> Seq(Blocks)]
        /\ blemish' \in [Clients -> SUBSET {"first", "late", "send"}]
    BY <1>1, <2>1 DEF Types, DataTypes
  <2>6. \A v \in Workers : ~Sends(v, c)
    BY <1>2, <1>9 DEF Local, Alone
  <2>7. /\ ~Sends(w, c)' /\ Posts(w, c)
        /\ \A v \in Workers \ {w} : ~Posts(v, c)'
        /\ \A v \in Workers : Sends(v, c)' => Sends(v, c) /\ worker'[v] = worker[v]
        /\ Types' /\ Accepted' /\ Alone(c)' /\ Own(c)' /\ (Accepting(c)' <=> Accepting(c))
        /\ \A d \in Clients \ {c} : Local(d)'
    BY <1>1, <1>2, <1>5, <1>7, <1>9, <2>1, <2>3, <2>4, <2>5, PostStep DEF life
  <2>8. Counted(c)'
    BY <1>1, <1>2, <1>5, <1>9, <2>4, <2>7, RefsSame, CountedSame, AtClient DEF Local, life, stop
  <2>9. InOrder(c)'
    <3>1. Posts(w, c)' /\ sendCtx'[c] # "none" /\ \A v \in Workers : ~Sends(v, c)'
      BY <2>3, <2>4, <2>6, <2>7 DEF Posts
    <3> SUFFICES ASSUME Clean(c)'
                 PROVE  Sent(c)' \o t = answered'[c]
      BY <1>2, <2>3, <2>7, <3>1, InOrderAfter
    <3>2. Clean(c)
      BY <2>1 DEF Clean
    <3>3. Sent(c) \o worker[w].rest = answered[c] /\ qSend[c] = <<>>
      BY <1>2, <1>9, <2>7, <3>2 DEF Local, InOrder
    <3>4. InFlight(c) = <<>> /\ InFlight(c)' = <<b>>
      BY <1>9, <2>4, <2>6 DEF InFlight
    <3>5. Sent(c)' \o t = Sent(c) \o (<<b>> \o t)
      <4>1. PICK s : s = wire[c]
        OBVIOUS
      <4>2. Line(s, <<b>>, <<>>, t) = Line(s, <<>>, <<>>, Before(b, t))
        <5>1. s \in Seq(Blocks) /\ b \in Blocks /\ t \in Seq(Blocks)
          BY <1>4, <1>6, <4>1
        <5> QED BY <5>1, BlockHeld
      <4>3. Sent(c)' \o t = Line(s, <<b>>, <<>>, t)
        BY <1>5, <2>1, <3>3, <3>4, <4>1 DEF Sent, Line
      <4>4. Sent(c) \o (<<b>> \o t) = Line(s, <<>>, <<>>, Before(b, t))
        BY <3>3, <3>4, <4>1 DEF Sent, Line, Before
      <4> QED BY <4>2, <4>3, <4>4
    <3> QED BY <1>4, <1>5, <3>3, <3>5
  <2> QED BY <2>7, <2>8, <2>9 DEF WinInv, Local
<1> QED BY <1>8, <1>9

LEMMA StartSendInv ==
  ASSUME WinInv, NEW w \in Workers, StartSend(w)
  PROVE  WinInv'
<1> PICK c : c = worker[w].at
  OBVIOUS
<1>1. /\ worker[w].pc = "start" /\ worker[w].pc \in Later /\ {"post", "start"} \subseteq Later
      /\ worker[w] \in Job /\ Types
  BY DEF StartSend, At, Later, WinInv, Types, PortTypes
<1>2. /\ c \in Clients /\ Local(c) /\ ~Frozen /\ worker[w].pc # "exit" /\ ~Sends(w, c)
      /\ Receives(w, c) /\ nRefCount[c] >= 1 /\ main # "done"
  BY <1>1, AtClient
<1>3. /\ UNCHANGED <<port, recvCtx, block, qSend, closing, stop, input, executed, answered,
                     wire, errors>>
      /\ closing' \in [Clients -> BOOLEAN] /\ block' \in [Clients -> Blocks]
      /\ qSend' \in [Clients -> Seq(Blocks)] /\ nRefCount[c] \in Nat
  BY <1>1, <1>2 DEF StartSend, Types, SocketTypes, DataTypes
<1>4. sendCtx[c] = "held" /\ sendCtx' \in [Clients -> {"none", "held", "posted", "taken", "lost"}]
      /\ \A d \in Clients \ {c} : sendCtx'[d] = sendCtx[d]
  BY <1>1, <1>2 DEF Local, Alone, StartSend, Types, SocketTypes
<1>5. CASE sendCtx' = [sendCtx EXCEPT ![c] = "posted"] /\ AddRef(c) /\ Goto(w, "post")
             /\ UNCHANGED blemish
  <2>1. /\ Only(w) /\ worker'[w].pc = "post" /\ worker'[w].at = c
        /\ worker'[w].first = worker[w].first /\ worker'[w].data = worker[w].data
        /\ worker'[w].rest = worker[w].rest
    BY <1>1, <1>5, GoesOn
  <2>2. sendCtx'[c] = "posted"
    BY <1>1, <1>2, <1>5 DEF Types, SocketTypes
  <2>3. /\ nRefCount' = [nRefCount EXCEPT ![c] = @ + 1] /\ UNCHANGED <<deleted, vpClientSocks>>
        /\ nRefCount' \in [Clients -> Nat] /\ nRefCount'[c] >= nRefCount[c]
        /\ \A d \in Clients \ {c} : nRefCount'[d] = nRefCount[d]
    BY <1>1, <1>2, <1>3, <1>5 DEF AddRef, Types, SocketTypes
  <2>4. /\ blemish' \in [Clients -> SUBSET {"first", "late", "send"}]
        /\ blemish[c] \subseteq blemish'[c]
    BY <1>1, <1>5 DEF Types, DataTypes
  <2>5. /\ ~Sends(w, c)' /\ Posts(w, c)
        /\ Types' /\ Accepted' /\ Alone(c)' /\ Own(c)' /\ (Accepting(c)' <=> Accepting(c))
        /\ \A d \in Clients \ {c} : Local(d)'
    <3>1. \A d \in Clients \ {c} :
           /\ nRefCount'[d] = nRefCount[d] /\ sendCtx'[d] = sendCtx[d] /\ block'[d] = block[d]
           /\ qSend'[d] = qSend[d] /\ blemish'[d] = blemish[d]
      BY <1>3, <1>4, <1>5, <2>3
    <3> QED BY <1>1, <1>3, <1>4, <2>1, <2>3, <2>4, <3>1, PostStep
  <2>6. Counted(c)'
    <3>1. Refs(c)' = Refs(c) + 1
      BY <1>3, <1>4, <2>2, <2>5 DEF Refs, One
    <3> QED BY <1>1, <1>2, <1>3, <1>5, <3>1, AddedRef DEF Local, Types, stop
  <2>7. InOrder(c)'
    <3>1. Posts(w, c)'
      BY <2>1 DEF Posts
    <3>2. InFlight(c)' = InFlight(c)
      BY <1>2, <1>3, <1>4, <2>1, <2>2, <2>5, InFlightSame
    <3> QED BY <1>2, <1>3, <1>5, <2>1, <2>2, <2>5, <3>1, <3>2, InOrderKept DEF Local, Clean
  <2> QED BY <2>5, <2>6, <2>7 DEF WinInv, Local
<1>6. CASE /\ sendCtx' = [sendCtx EXCEPT ![c] = "none"]
           /\ blemish' = [blemish EXCEPT ![c] = @ \union {"send"}]
           /\ worker' = [worker EXCEPT ![w].pc = "post", ![w].rest = <<>>]
           /\ UNCHANGED life
  <2>a. PICK e, j : e = <<>> /\ j = WithRest(worker[w], "post", e)
    OBVIOUS
  <2>1. /\ Only(w) /\ worker'[w].pc = "post" /\ worker'[w].at = c
        /\ worker'[w].first = worker[w].first /\ worker'[w].data = worker[w].data
    <3>1. worker' = [worker EXCEPT ![w] = j]
      BY <1>6, <2>a DEF WithRest
    <3>b. PICK g : g = worker[w]
      OBVIOUS
    <3>2. e \in Seq(Blocks) /\ j = WithRest(g, "post", e) /\ g \in Job /\ g.pc \in Later
          /\ "post" \in Later
      BY <1>1, <2>a, <3>b, EmptySeq
    <3>3. /\ j \in Job /\ j.pc = "post" /\ j.at = c
          /\ j.first = worker[w].first /\ j.data = worker[w].data
      <4>1. /\ j \in Job /\ j.pc = "post" /\ j.at = g.at /\ j.first = g.first
            /\ j.data = g.data
        BY <3>2, WithRestIs
      <4> QED BY <3>b, <4>1
    <3> QED BY <1>1, <3>1, <3>3 DEF Types, PortTypes, Only
  <2>2. sendCtx'[c] = "none"
    BY <1>1, <1>2, <1>6 DEF Types, SocketTypes
  <2>3. /\ UNCHANGED <<nRefCount, deleted, vpClientSocks>>
        /\ nRefCount' \in [Clients -> Nat] /\ nRefCount'[c] >= nRefCount[c]
    BY <1>1, <1>3, <1>6 DEF life, Types, SocketTypes
  <2>4. /\ blemish' \in [Clients -> SUBSET {"first", "late", "send"}]
        /\ blemish[c] \subseteq blemish'[c] /\ "send" \in blemish'[c]
        /\ \A d \in Clients \ {c} : blemish'[d] = blemish[d]
    BY <1>1, <1>2, <1>6 DEF Types, DataTypes
  <2>5. /\ Types' /\ Accepted' /\ Alone(c)' /\ Own(c)' /\ (Accepting(c)' <=> Accepting(c))
        /\ \A d \in Clients \ {c} : Local(d)'
    <3>1. \A d \in Clients \ {c} :
           /\ nRefCount'[d] = nRefCount[d] /\ sendCtx'[d] = sendCtx[d] /\ block'[d] = block[d]
           /\ qSend'[d] = qSend[d] /\ blemish'[d] = blemish[d]
      BY <1>3, <1>4, <2>3, <2>4
    <3> QED BY <1>1, <1>3, <1>4, <2>1, <2>3, <2>4, <3>1, PostStep
  <2>6. Counted(c)'
    BY <1>2, <1>3, <1>4, <2>2, <2>3, <2>5, RefsSame, CountedSame DEF Local, stop
  <2>7. InOrder(c)'
    BY <2>4 DEF InOrder, Clean
  <2> QED BY <2>5, <2>6, <2>7 DEF WinInv, Local
<1> QED BY <1>5, <1>6 DEF StartSend

LEMMA setSocketCloseInv ==
  ASSUME WinInv, NEW w \in Workers, setSocketClose(w)
  PROVE  WinInv'
<1> PICK c : c = worker[w].at
  OBVIOUS
<1>1. /\ worker[w].pc = "post" /\ worker[w].pc \in Later /\ {"post", "scan"} \subseteq Later
      /\ worker[w] \in Job /\ Types /\ worker[w].rest = <<>>
  BY DEF setSocketClose, At, Later, WinInv, Types, PortTypes
<1>2. /\ c \in Clients /\ Local(c) /\ ~Frozen /\ worker[w].pc # "exit" /\ ~Sends(w, c)
      /\ Receives(w, c) /\ nRefCount[c] >= 1 /\ main # "done"
  BY <1>1, AtClient
<1>3. UNCHANGED <<nRefCount, deleted, vpClientSocks, port, sendCtx, block, qSend, recvCtx, stop,
                  input, executed, answered, wire, blemish, errors>>
  BY DEF setSocketClose, life, out, seen
<1>4. /\ closing' \in [Clients -> BOOLEAN] /\ block' \in [Clients -> Blocks]
      /\ qSend' \in [Clients -> Seq(Blocks)] /\ nRefCount' \in [Clients -> Nat]
      /\ sendCtx' \in [Clients -> {"none", "held", "posted", "taken", "lost"}]
      /\ blemish' \in [Clients -> SUBSET {"first", "late", "send"}]
      /\ nRefCount'[c] >= nRefCount[c]
  <2>1. closing' \in [Clients -> BOOLEAN]
    BY <1>1 DEF setSocketClose, Types, SocketTypes
  <2> QED BY <1>1, <1>2, <1>3, <2>1 DEF Types, SocketTypes, DataTypes
<1>5. /\ Only(w) /\ worker'[w].pc = "scan" /\ worker'[w].at = c
      /\ worker'[w].first = worker[w].first /\ worker'[w].data = worker[w].data
  BY <1>1, GoesOn DEF setSocketClose
<1>6. /\ ~Sends(w, c)' /\ Posts(w, c)
      /\ \A v \in Workers \ {w} : ~Posts(v, c)'
      /\ \A v \in Workers : Sends(v, c)' => Sends(v, c) /\ worker'[v] = worker[v]
      /\ Types' /\ Accepted' /\ Alone(c)' /\ Own(c)' /\ (Accepting(c)' <=> Accepting(c))
      /\ \A d \in Clients \ {c} : Local(d)'
  BY <1>1, <1>3, <1>4, <1>5, PostStep
<1>7. Counted(c)'
  BY <1>2, <1>3, <1>6, RefsSame, CountedSame DEF Local, stop
<1>8. InOrder(c)'
  <2>1. \A v \in Workers : ~Posts(v, c)'
    BY <1>5, <1>6 DEF Posts
  <2> SUFFICES ASSUME Clean(c)'
               PROVE  /\ Sent(c)' = answered'[c]
                      /\ sendCtx'[c] = "none" => qSend'[c] = <<>>
                      /\ \A v \in Workers : Sends(v, c)' /\ worker'[v].pc = "erase"
                                              => qSend'[c] = <<>>
    BY <1>2, <1>6, <2>1, InOrderAfter
  <2>2. Clean(c)
    BY <1>3 DEF Clean
  <2>3. /\ Sent(c) \o <<>> = answered[c] /\ (sendCtx[c] = "none" => qSend[c] = <<>>)
        /\ \A v \in Workers : Sends(v, c) /\ worker[v].pc = "erase" => qSend[c] = <<>>
    BY <1>1, <1>2, <1>6, <2>2 DEF Local, InOrder
  <2>4. Sent(c) \o <<>> = Sent(c)
    BY <1>1, <1>2, SentTypes, ConcatEmptySeq DEF Types
  <2>5. InFlight(c)' = InFlight(c)
    BY <1>2, <1>3, <1>5, <1>6, InFlightSame
  <2>6. Sent(c)' = Sent(c)
    BY <1>3, <2>5 DEF Sent
  <2> QED BY <1>3, <1>6, <2>3, <2>4, <2>6
<1> QED BY <1>6, <1>7, <1>8 DEF WinInv, Local

(* What the thread w, which sends to c, leaves as it is.                   *)
LEMMA SendStep ==
  ASSUME WinInv, NEW w \in Workers, NEW c \in Clients, worker[w].pc \in {"wait", "resend"},
         Only(w), worker'[w].pc \in {"wait", "resend", "erase"},
         worker[w].pc = "resend" => worker[w].at = c,
         worker'[w].pc \in {"resend", "erase"} =>
           /\ worker'[w].at = c /\ worker[w].pc = "wait" /\ sendCtx[c] = "posted"
           /\ sendCtx'[c] = "taken",
         sendCtx[c] = IF worker[w].pc = "wait" THEN "posted" ELSE "taken",
         sendCtx'[c] \in {"posted", "taken"},
         UNCHANGED <<life, port, recvCtx, closing, stop, input, executed, answered, blemish,
                     errors>>,
         sendCtx' \in [Clients -> {"none", "held", "posted", "taken", "lost"}],
         block' \in [Clients -> Blocks], qSend' \in [Clients -> Seq(Blocks)],
         wire' \in [Clients -> Seq(Blocks)],
         \A d \in Clients \ {c} : /\ sendCtx'[d] = sendCtx[d] /\ block'[d] = block[d]
                                  /\ qSend'[d] = qSend[d] /\ wire'[d] = wire[d]
  PROVE  /\ Local(c) /\ ~Frozen /\ Types
         /\ \A v \in Workers : /\ Posts(v, c)' <=> Posts(v, c)
                               /\ Posts(v, c) => worker'[v].rest = worker[v].rest
         /\ \A v \in Workers \ {w} : ~Sends(v, c) /\ ~Sends(v, c)'
         /\ Types' /\ Accepted' /\ Alone(c)' /\ Counted(c)' /\ Own(c)'
         /\ \A d \in Clients \ {c} : Local(d)'
<1>1. /\ Local(c) /\ ~Frozen /\ main # "done" /\ Types /\ main' = main
      /\ \A d \in Clients : ~Receives(w, d) /\ ~Receives(w, d)'
      /\ \A d \in Clients \ {c} : Apart(w, d) /\ Apart(w, d)'
  BY AtWork DEF WinInv, stop, Apart, Receives, Sends, Early, Later
<1>2. Types'
  BY <1>1 DEF Types, SocketTypes, PortTypes, DataTypes, life, port, stop, Only
<1>3. /\ \A d \in Clients : SameSocket(d) /\ (New(d)' <=> New(d))
      /\ \A d \in Clients, y \in Contexts : Coming(y, d)' <=> Coming(y, d)
      /\ \A d \in Clients \ {c} : SameData(d)
  BY DEF SameSocket, SameData, New, Coming, life, port
<1>4. Accepted'
  <2>1. \A v \in Workers : worker[v].pc = "repost" => accept'[worker[v].x] = "taken"
    BY DEF WinInv, Accepted, port
  <2> QED BY <1>1, <1>3, <2>1, AcceptedKept DEF WinInv, port
<1>5. \A v \in Workers \ {w} : worker'[v] = worker[v] /\ ~Sends(v, c) /\ ~Sends(v, c)'
  <2>1. \A v \in Workers \ {w} : ~Sends(v, c)
    <3>1. CASE worker[w].pc = "wait"
      BY <1>1, <3>1 DEF Local, Alone
    <3>2. CASE worker[w].pc = "resend"
      BY <1>1, <3>2 DEF Local, Alone, Sends
    <3> QED BY <3>1, <3>2
  <2> QED BY <2>1 DEF Only, Sends
<1>6. Alone(c)'
  <2>1. \A v \in Workers : ~(Receives(v, c) /\ worker[v].pc = "start")
    BY <1>1 DEF Local, Alone
  <2>2. Sends(w, c)' => \A v \in Workers : ~Sends(v, c)
    BY <1>5 DEF Sends
  <2>3. Sends(w, c)' => sendCtx'[c] = "taken"
    BY DEF Sends
  <2> QED BY <1>1, <1>5, <2>1, <2>2, <2>3, AloneStep DEF Local
<1>7. Counted(c)'
  <2>1. Accepting(c)' <=> Accepting(c)
    BY <1>1, AcceptingStep DEF Accepts
  <2>2. Refs(c)' = Refs(c)
    BY <2>1, RefsSame
  <2> QED BY <1>1, <1>3, <2>2, CountedSame DEF Local, SameSocket
<1>8. Own(c)'
  BY <1>1, <1>3, OwnKept DEF Local, port
<1>9. \A v \in Workers : /\ Posts(v, c)' <=> Posts(v, c)
                         /\ Posts(v, c) => worker'[v].rest = worker[v].rest
  BY <1>5 DEF Posts
<1>10. ASSUME NEW d \in Clients \ {c} PROVE Local(d)'
  BY <1>1, <1>3, OtherClients DEF port
<1> QED BY <1>1, <1>2, <1>4, <1>5, <1>6, <1>7, <1>8, <1>9, <1>10

(* The block under way is sent and the next one, if there is one, is under *)
(* way.                                                                    *)
Then(s, f, q) == s \o (f \o q)

LEMMA BlockSent ==
  ASSUME NEW s \in Seq(Blocks), NEW q \in Seq(Blocks), NEW b \in Blocks
  PROVE  /\ q = <<>> => Then(Queued(s, b), <<>>, q) = Then(s, <<b>>, q)
         /\ q # <<>> => Then(Queued(s, b), <<Head(q)>>, Tail(q)) = Then(s, <<b>>, q)
<1>1. <<b>> \in Seq(Blocks) /\ <<>> \in Seq(Blocks)
  BY EmptySeq
<1>2. Queued(s, b) = s \o <<b>> /\ s \o <<b>> \in Seq(Blocks)
  BY <1>1, AppendIsConcat, ConcatProperties DEF Queued
<1>3. CASE q = <<>>
  <2>1. <<>> \o <<>> = <<>> /\ <<b>> \o <<>> = <<b>> /\ (s \o <<b>>) \o <<>> = s \o <<b>>
    BY <1>1, <1>2, ConcatEmptySeq
  <2> QED BY <1>2, <1>3, <2>1 DEF Then
<1>4. CASE q # <<>>
  <2>1. q = <<Head(q)>> \o Tail(q)
    BY <1>4, HeadThenTail
  <2>2. (s \o <<b>>) \o q = s \o (<<b>> \o q)
    BY <1>1, ConcatAssociative
  <2> QED BY <1>2, <1>4, <2>1, <2>2 DEF Then
<1> QED BY <1>3, <1>4

LEMMA doSendInv ==
  ASSUME WinInv, NEW w \in Workers, NEW c \in Clients, doSend(w, c)
  PROVE  WinInv'
<1>1. Types /\ worker[w].pc = "wait" /\ sendCtx[c] = "posted"
  BY DEF doSend, Waits, Idle, WinInv
<1>2. /\ UNCHANGED <<life, port, recvCtx, closing, stop, input, executed, answered, blemish,
                     errors>>
      /\ wire' = [wire EXCEPT ![c] = Append(wire[c], block[c])]
      /\ sendCtx' = [sendCtx EXCEPT ![c] = "taken"]
  BY DEF doSend
<1>3. /\ wire[c] \in Seq(Blocks) /\ qSend[c] \in Seq(Blocks) /\ block[c] \in Blocks
  BY <1>1, SentTypes DEF Types
<1>4. /\ sendCtx' \in [Clients -> {"none", "held", "posted", "taken", "lost"}]
      /\ sendCtx'[c] = "taken" /\ \A d \in Clients \ {c} : sendCtx'[d] = sendCtx[d]
  BY <1>1, <1>2 DEF Types, SocketTypes
<1>5. /\ wire' \in [Clients -> Seq(Blocks)] /\ wire'[c] = Append(wire[c], block[c])
      /\ \A d \in Clients \ {c} : wire'[d] = wire[d]
  <2>1. Append(wire[c], block[c]) \in Seq(Blocks)
    BY <1>3, AppendProperties
  <2> QED BY <1>1, <1>2, <2>1 DEF Types, DataTypes
<1>6. PICK p \in {"erase", "resend"} :
        /\ worker' = [worker EXCEPT ![w] = [pc |-> p, at |-> c]]
        /\ p = "erase" => qSend[c] = <<>> /\ UNCHANGED <<block, qSend>>
        /\ p = "resend" => /\ qSend[c] # <<>>
                           /\ block' = [block EXCEPT ![c] = Head(qSend[c])]
                           /\ qSend' = [qSend EXCEPT ![c] = Tail(qSend[c])]
  <2>1. CASE qSend[c] = <<>>
    BY <2>1 DEF doSend
  <2>2. CASE qSend[c] # <<>>
    BY <2>2 DEF doSend
  <2> QED BY <2>1, <2>2
<1>7. Only(w) /\ worker'[w].pc = p /\ worker'[w].at = c
  <2>a. PICK j : j = [pc |-> p, at |-> c]
    OBVIOUS
  <2>1. j \in SendJob /\ j.pc = p /\ j.at = c
    BY <2>a DEF SendJob
  <2> QED BY <1>1, <1>6, <2>a, <2>1 DEF Types, PortTypes, Only, Job
<1>8. /\ block' \in [Clients -> Blocks] /\ qSend' \in [Clients -> Seq(Blocks)]
      /\ \A d \in Clients \ {c} : block'[d] = block[d] /\ qSend'[d] = qSend[d]
      /\ p = "resend" => block'[c] = Head(qSend[c]) /\ qSend'[c] = Tail(qSend[c])
  <2>1. CASE p = "erase"
    BY <1>1, <1>6, <2>1 DEF Types, DataTypes
  <2>2. CASE p = "resend"
    <3>1. Head(qSend[c]) \in Blocks /\ Tail(qSend[c]) \in Seq(Blocks)
      BY <1>3, <1>6, <2>2, HeadThenTail
    <3> QED BY <1>1, <1>6, <2>2, <3>1 DEF Types, DataTypes
  <2> QED BY <2>1, <2>2
<1>9. /\ Local(c) /\ ~Frozen
      /\ \A v \in Workers : /\ Posts(v, c)' <=> Posts(v, c)
                            /\ Posts(v, c) => worker'[v].rest = worker[v].rest
      /\ \A v \in Workers \ {w} : ~Sends(v, c) /\ ~Sends(v, c)'
      /\ Types' /\ Accepted' /\ Alone(c)' /\ Counted(c)' /\ Own(c)'
      /\ \A d \in Clients \ {c} : Local(d)'
  <2>1. \A d \in Clients \ {c} : /\ sendCtx'[d] = sendCtx[d] /\ block'[d] = block[d]
                                 /\ qSend'[d] = qSend[d] /\ wire'[d] = wire[d]
    BY <1>4, <1>5, <1>8
  <2>2. UNCHANGED <<life, port, recvCtx, closing, stop, input, executed, answered, blemish,
                    errors>>
    BY <1>2
  <2>3. wire' \in [Clients -> Seq(Blocks)]
    BY <1>5
  <2> QED BY <1>1, <1>4, <1>7, <1>8, <2>1, <2>2, <2>3, SendStep
<1>10. Sent(c)' = Sent(c)
  <2>1. PICK s, q, b : s = wire[c] /\ q = qSend[c] /\ b = block[c]
    OBVIOUS
  <2>2. /\ q = <<>> => Then(Queued(s, b), <<>>, q) = Then(s, <<b>>, q)
        /\ q # <<>> => Then(Queued(s, b), <<Head(q)>>, Tail(q)) = Then(s, <<b>>, q)
    <3>1. s \in Seq(Blocks) /\ q \in Seq(Blocks) /\ b \in Blocks
      BY <1>3, <2>1
    <3> QED BY <3>1, BlockSent
  <2>3. InFlight(c) = <<b>>
    BY <1>1, <2>1 DEF InFlight
  <2>4. Sent(c) = Then(s, <<b>>, q)
    BY <2>1, <2>3 DEF Sent, Then
  <2>5. CASE p = "erase"
    <3>1. \A v \in Workers : ~(Sends(v, c)' /\ worker'[v].pc = "resend")
      BY <1>7, <1>9, <2>5
    <3>2. InFlight(c)' = <<>>
      BY <1>4, <3>1 DEF InFlight
    <3>3. Sent(c)' = Then(Queued(s, b), <<>>, q) /\ q = <<>>
      BY <1>5, <1>6, <2>1, <2>5, <3>2 DEF Sent, Then, Queued
    <3> QED BY <2>2, <2>4, <3>3
  <2>6. CASE p = "resend"
    <3>1. Sends(w, c)' /\ worker'[w].pc = "resend"
      BY <1>7, <2>6 DEF Sends
    <3>2. InFlight(c)' = <<Head(q)>>
      BY <1>8, <2>1, <2>6, <3>1 DEF InFlight
    <3>3. Sent(c)' = Then(Queued(s, b), <<Head(q)>>, Tail(q)) /\ q # <<>>
      BY <1>5, <1>6, <1>8, <2>1, <2>6, <3>2 DEF Sent, Then, Queued
    <3> QED BY <2>2, <2>4, <3>3
  <2> QED BY <2>5, <2>6
<1>11. InOrder(c)'
  <2> SUFFICES ASSUME Clean(c)'
               PROVE  /\ \A v \in Workers : Posts(v, c)' =>
                           Sent(c)' \o worker'[v].rest = answered'[c]
                      /\ (\A v \in Workers : ~Posts(v, c)') => Sent(c)' = answered'[c]
                      /\ \A v \in Workers : Sends(v, c)' /\ worker'[v].pc = "erase"
                                              => qSend'[c] = <<>>
    BY <1>4, <1>9, InOrderAfter
  <2>1. Clean(c)
    BY <1>2 DEF Clean
  <2>2. \A v \in Workers : Posts(v, c)' => Sent(c)' \o worker'[v].rest = answered'[c]
    BY <1>2, <1>9, <1>10, <2>1 DEF Local, InOrder
  <2>3. (\A v \in Workers : ~Posts(v, c)') => Sent(c)' = answered'[c]
    BY <1>2, <1>9, <1>10, <2>1 DEF Local, InOrder
  <2>4. \A v \in Workers : Sends(v, c)' /\ worker'[v].pc = "erase" => qSend'[c] = <<>>
    BY <1>6, <1>7, <1>9
  <2> QED BY <2>2, <2>3, <2>4
<1> QED BY <1>9, <1>11 DEF WinInv, Local

(* w gives back the reference of a send of c.  Without an error this is    *)
(* the one for which no block was left.                                    *)
LEMMA SendGone ==
  ASSUME WinInv, NEW w \in Workers, NEW c \in Clients,
         worker[w].pc \in {"wait", "resend", "erase"},
         IF worker[w].pc = "wait" THEN sendCtx[c] = "posted" ELSE worker[w].at = c,
         Only(w), worker'[w].pc = "wait", Release(c), sendCtx' = [sendCtx EXCEPT ![c] = "none"],
         UNCHANGED <<port, recvCtx, block, qSend, closing, stop, input, executed, answered,
                     wire, errors>>,
         blemish' \in [Clients -> SUBSET {"first", "late", "send"}],
         blemish[c] \subseteq blemish'[c], \A d \in Clients \ {c} : blemish'[d] = blemish[d],
         "send" \in blemish'[c] \/ worker[w].pc = "erase"
  PROVE  WinInv'
<1>1. /\ Types /\ Local(c) /\ ~Frozen /\ worker[w].pc # "exit"
      /\ \A d \in Clients : ~Receives(w, d) /\ ~Receives(w, d)' /\ ~Sends(w, d)'
      /\ \A d \in Clients \ {c} : Apart(w, d)
  BY AtWork DEF WinInv, Apart, Receives, Sends, Early, Later
<1>2. sendCtx[c] \in {"posted", "taken"}
  BY <1>1 DEF Local, Alone, Sends
<1>3. /\ sendCtx' \in [Clients -> {"none", "held", "posted", "taken", "lost"}]
      /\ sendCtx'[c] = "none" /\ \A d \in Clients \ {c} : sendCtx'[d] = sendCtx[d]
  BY <1>1 DEF Types, SocketTypes
<1>4. Refs(c)' = Refs(c) - 1
  <2>1. Accepting(c)' <=> Accepting(c)
    BY <1>1, AcceptingStep DEF Accepts
  <2> QED BY <1>2, <1>3, <2>1 DEF Refs, One
<1>5. /\ Types' /\ Accepted' /\ Counted(c)' /\ Own(c)'
      /\ \A d \in Clients \ {c} : Local(d)'
  BY <1>1, <1>3, <1>4, LetsGo DEF Types, SocketTypes
<1>6. \A v \in Workers \ {w} : worker'[v] = worker[v] /\ ~Sends(v, c) /\ ~Sends(v, c)'
  <2>1. \A v \in Workers \ {w} : ~Sends(v, c)
    BY <1>1 DEF Local, Alone, Sends
  <2> QED BY <2>1 DEF Only, Sends
<1>7. Alone(c)'
  <2>1. \A v \in Workers : ~(Receives(v, c) /\ worker[v].pc = "start")
    BY <1>1, <1>2 DEF Local, Alone
  <2> QED BY <1>1, <1>6, <2>1, AloneStep DEF Local
<1>8. InOrder(c)'
  <2>1. CASE "send" \in blemish'[c]
    BY <2>1 DEF InOrder, Clean
  <2>2. CASE "send" \notin blemish'[c]
    <3>1. Sends(w, c) /\ worker[w].pc = "erase" /\ sendCtx[c] = "taken"
      BY <1>1, <2>2 DEF Local, Alone, Sends
    <3>2. /\ InFlight(c) = <<>> /\ InFlight(c)' = <<>>
      BY <1>1, <1>3, <1>6, <3>1 DEF InFlight
    <3>3. Sent(c)' = Sent(c)
      BY <3>2 DEF Sent
    <3>4. \A v \in Workers : /\ Posts(v, c)' <=> Posts(v, c)
                             /\ Posts(v, c) => worker'[v].rest = worker[v].rest
      BY <1>6, <3>1 DEF Posts
    <3>5. Clean(c)' => Clean(c) /\ qSend[c] = <<>>
      <4>1. Clean(c)' => Clean(c)
        BY DEF Clean
      <4> QED BY <1>1, <3>1, <4>1 DEF Local, InOrder
    <3> SUFFICES ASSUME Clean(c)', Clean(c), qSend[c] = <<>>
                 PROVE  /\ \A v \in Workers : Posts(v, c)' =>
                             Sent(c)' \o worker'[v].rest = answered'[c]
                        /\ (\A v \in Workers : ~Posts(v, c)') => Sent(c)' = answered'[c]
      BY <1>5, <3>5, InOrderAfter
    <3> QED BY <1>1, <3>3, <3>4 DEF Local, InOrder
  <2> QED BY <2>1, <2>2
<1> QED BY <1>5, <1>7, <1>8 DEF WinInv, Local

LEMMA postSendRqInv ==
  ASSUME WinInv, NEW w \in Workers, postSendRq(w)
  PROVE  WinInv'
<1> PICK c : c = worker[w].at
  OBVIOUS
<1>1. worker[w].pc = "resend" /\ Types
  BY DEF postSendRq, At, WinInv
<1>2. /\ c \in Clients /\ Sends(w, c) /\ ~Receives(w, c) /\ sendCtx[c] = "taken" /\ Local(c)
      /\ \A d \in Clients \ {c} : Apart(w, d)
      /\ ~Frozen /\ main # "done" /\ worker[w].pc # "exit"
  BY <1>1, AtSend
<1>3. Only(w) /\ worker'[w].pc = "wait"
  BY <1>1, Finishes DEF postSendRq
<1>4. UNCHANGED <<port, recvCtx, block, qSend, closing, stop, input, executed, answered, wire,
                  errors>>
  BY DEF postSendRq
<1>5. /\ sendCtx' \in [Clients -> {"none", "held", "posted", "taken", "lost"}]
      /\ \A d \in Clients \ {c} : sendCtx'[d] = sendCtx[d]
  BY <1>1, <1>2 DEF postSendRq, Types, SocketTypes
<1>6. CASE sendCtx' = [sendCtx EXCEPT ![c] = "posted"] /\ UNCHANGED <<life, blemish>>
  <2>1. sendCtx'[c] = "posted"
    BY <1>1, <1>2, <1>6 DEF Types, SocketTypes
  <2>2. /\ block' \in [Clients -> Blocks] /\ qSend' \in [Clients -> Seq(Blocks)]
        /\ wire' \in [Clients -> Seq(Blocks)]
    BY <1>1, <1>4 DEF Types, DataTypes
  <2>3. /\ \A v \in Workers : /\ Posts(v, c)' <=> Posts(v, c)
                              /\ Posts(v, c) => worker'[v].rest = worker[v].rest
        /\ \A v \in Workers \ {w} : ~Sends(v, c) /\ ~Sends(v, c)'
        /\ Types' /\ Accepted' /\ Alone(c)' /\ Counted(c)' /\ Own(c)'
        /\ \A d \in Clients \ {c} : Local(d)'
    BY <1>1, <1>2, <1>3, <1>4, <1>5, <1>6, <2>1, <2>2, SendStep
  <2>4. \A v \in Workers : ~Sends(v, c)'
    BY <1>3, <2>3 DEF Sends
  <2>5. InFlight(c)' = InFlight(c)
    BY <1>1, <1>2, <1>4, <2>1 DEF InFlight
  <2>6. Sent(c)' = Sent(c)
    BY <1>4, <2>5 DEF Sent
  <2>7. Clean(c)' => Clean(c)
    BY <1>6 DEF Clean
  <2>8. InOrder(c)'
    BY <1>2, <1>4, <2>1, <2>3, <2>4, <2>6, <2>7, InOrderAfter DEF Local, InOrder
  <2> QED BY <2>3, <2>8 DEF WinInv, Local
<1>7. CASE /\ sendCtx' = [sendCtx EXCEPT ![c] = "none"]
           /\ blemish' = [blemish EXCEPT ![c] = @ \union {"send"}]
           /\ Release(c)
  <2>2. /\ blemish' \in [Clients -> SUBSET {"first", "late", "send"}]
        /\ blemish[c] \subseteq blemish'[c] /\ "send" \in blemish'[c]
        /\ \A d \in Clients \ {c} : blemish'[d] = blemish[d]
    BY <1>1, <1>2, <1>7 DEF Types, DataTypes
  <2> QED BY <1>1, <1>2, <1>3, <1>4, <1>7, <2>2, SendGone
<1> QED BY <1>6, <1>7 DEF postSendRq

LEMMA EndSendInv ==
  ASSUME WinInv, NEW w \in Workers, EndSend(w)
  PROVE  WinInv'
<1> PICK c : c = worker[w].at
  OBVIOUS
<1>1. worker[w].pc = "erase" /\ Types
  BY DEF EndSend, At, WinInv
<1>2. c \in Clients
  BY <1>1, AtSend
<1>3. Only(w) /\ worker'[w].pc = "wait"
  BY <1>1, Finishes DEF EndSend
<1>4. /\ UNCHANGED <<port, recvCtx, block, qSend, closing, stop, input, executed, answered,
                     wire, errors, blemish>>
      /\ sendCtx' = [sendCtx EXCEPT ![c] = "none"] /\ Release(c)
  BY DEF EndSend, seen
<1>5. /\ blemish' \in [Clients -> SUBSET {"first", "late", "send"}]
      /\ blemish[c] \subseteq blemish'[c] /\ \A d \in Clients \ {c} : blemish'[d] = blemish[d]
  BY <1>1, <1>4 DEF Types, DataTypes
<1> QED BY <1>1, <1>2, <1>3, <1>4, <1>5, SendGone

-----------------------------------------------------------------------------
(* Errors and the end *)

(* What a waiting thread leaves as it is when it takes a packet that is    *)
(* not a client's, or ends: an operation may be lost.                      *)
LEMMA WaiterStep ==
  ASSUME WinInv, NEW w \in Workers, worker[w].pc = "wait", Only(w),
         worker'[w].pc \in {"wait", "exit"}, errors' \in 0 .. MaxErrors,
         UNCHANGED <<life, sockClient, buffer, block, qSend, closing, main, input, executed,
                     answered, wire, blemish>>,
         accept' \in [Contexts -> {"posted", "complete", "taken", "erased", "lost"}],
         \A y \in Contexts : /\ accept'[y] = "complete" <=> accept[y] = "complete"
                             /\ accept'[y] = "taken" <=> accept[y] = "taken",
         recvCtx' \in [Clients -> {"none", "posted", "taken", "lost"}],
         sendCtx' \in [Clients -> {"none", "held", "posted", "taken", "lost"}],
         \A d \in Clients :
           /\ recvCtx'[d] = recvCtx[d] \/ (recvCtx[d] = "posted" /\ recvCtx'[d] = "lost")
           /\ sendCtx'[d] = sendCtx[d] \/ (sendCtx[d] = "posted" /\ sendCtx'[d] = "lost")
  PROVE  WinInv'
<1>1. Types /\ ~Frozen /\ main # "done" /\ Accepted
  BY AtWork DEF WinInv
<1>2. Types'
  BY <1>1 DEF Types, SocketTypes, PortTypes, DataTypes, life, Only
<1>3. /\ \A d \in Clients : New(d)' <=> New(d)
      /\ \A d \in Clients, y \in Contexts : Coming(y, d)' <=> Coming(y, d)
  BY DEF New, Coming, life
<1>4. Accepted'
  <2>1. worker'[w].pc # "repost"
    OBVIOUS
  <2>2. \A v \in Workers : worker[v].pc = "repost" => accept'[worker[v].x] = "taken"
    <3>1. \A v \in Workers : worker[v].pc = "repost" => worker[v].x \in Contexts
      BY <1>1, JobIs DEF Types, PortTypes, Early
    <3> QED BY <1>1, <3>1 DEF Accepted
  <2> QED BY <1>1, <1>3, <2>1, <2>2, AcceptedKept
<1>5. ASSUME NEW d \in Clients PROVE Local(d)'
  <2>1. /\ Local(d) /\ ~Receives(w, d) /\ ~Receives(w, d)' /\ ~Sends(w, d) /\ ~Sends(w, d)'
        /\ ~Posts(w, d) /\ ~Posts(w, d)'
    BY DEF WinInv, Receives, Sends, Posts, Early, Later
  <2>2. Alone(d)'
    <3>1. \A v \in Workers \ {w} :
            /\ Receives(v, d) => recvCtx'[d] = recvCtx[d]
            /\ Receives(v, d) /\ worker[v].pc = "start" => sendCtx'[d] = sendCtx[d]
            /\ Sends(v, d) => sendCtx'[d] = sendCtx[d]
      BY <2>1 DEF Local, Alone
    <3> QED BY <2>1, <3>1, AloneStep DEF Local
  <2>3. Counted(d)'
    <3>1. Accepting(d)' <=> Accepting(d)
      BY <2>1, AcceptingStep DEF Accepts
    <3>2. Refs(d)' = Refs(d)
      BY <3>1, RefsSame
    <3>3. nRefCount'[d] = Refs(d)' /\ nRefCount'[d] >= Refs(d)'
      BY <1>1, <2>1, <3>2 DEF Local, Counted, life
    <3> QED BY <1>1, <2>1, <3>3 DEF Local, Counted, life
  <2>4. Own(d)'
    BY <1>3, <2>1, OwnKept DEF Local
  <2>5. InOrder(d)'
    <3>1. InFlight(d)' = InFlight(d)
      BY <2>1, InFlightSame
    <3>2. Sent(d)' = Sent(d)
      BY <3>1 DEF Sent
    <3>3. \A v \in Workers : /\ Posts(v, d)' <=> Posts(v, d)
                             /\ Posts(v, d) => worker'[v].rest = worker[v].rest
                             /\ Sends(v, d)' => Sends(v, d) /\ worker'[v] = worker[v]
      BY <2>1 DEF Only, Posts, Sends
    <3>4. Clean(d)' => Clean(d)
      BY DEF Clean
    <3>5. Clean(d) =>
            /\ sendCtx[d] = "none" => qSend[d] = <<>>
            /\ \A v \in Workers : Posts(v, d) => Sent(d) \o worker[v].rest = answered[d]
            /\ (\A v \in Workers : ~Posts(v, d)) => Sent(d) = answered[d]
            /\ \A v \in Workers : Sends(v, d) /\ worker[v].pc = "erase" => qSend[d] = <<>>
      BY <1>1, <2>1 DEF Local, InOrder
    <3> SUFFICES ASSUME Clean(d)', Clean(d)
                 PROVE  /\ \A v \in Workers : Posts(v, d)' =>
                             Sent(d)' \o worker'[v].rest = answered'[d]
                        /\ (\A v \in Workers : ~Posts(v, d)') => Sent(d)' = answered'[d]
                        /\ sendCtx'[d] = "none" => qSend'[d] = <<>>
                        /\ \A v \in Workers : Sends(v, d)' /\ worker'[v].pc = "erase"
                                                => qSend'[d] = <<>>
      BY <1>2, <3>4, InOrderAfter
    <3>6. sendCtx'[d] = "none" => qSend'[d] = <<>>
      BY <3>5
    <3>7. \A v \in Workers : Sends(v, d)' /\ worker'[v].pc = "erase" => qSend'[d] = <<>>
      BY <3>3, <3>5
    <3>8. \A v \in Workers : Posts(v, d)' => Sent(d)' \o worker'[v].rest = answered'[d]
      BY SMTT(30), <3>2, <3>3, <3>5
    <3>9. (\A v \in Workers : ~Posts(v, d)') => Sent(d)' = answered'[d]
      BY <3>2, <3>3, <3>5
    <3> QED BY <3>6, <3>7, <3>8, <3>9
  <2> QED BY <2>2, <2>3, <2>4, <2>5 DEF Local
<1> QED BY <1>2, <1>4, <1>5 DEF WinInv

(* A context posted with AcceptEx is erased or lost.                       *)
LEMMA AcceptGone ==
  ASSUME WinInv, NEW x \in Contexts, accept[x] = "posted", NEW a \in {"erased", "lost"},
         accept' = [accept EXCEPT ![x] = a]
  PROVE  /\ accept' \in [Contexts -> {"posted", "complete", "taken", "erased", "lost"}]
         /\ \A y \in Contexts : /\ accept'[y] = "complete" <=> accept[y] = "complete"
                                /\ accept'[y] = "taken" <=> accept[y] = "taken"
  BY DEF WinInv, Types, PortTypes

LEMMA NetnameDeletedInv ==
  ASSUME WinInv, NEW w \in Workers, NetnameDeleted(w)
  PROVE  WinInv'
<1>1. /\ worker[w].pc = "wait" /\ Types /\ worker' = worker /\ Only(w)
      /\ UNCHANGED <<sockClient, buffer, block, qSend, closing, stop, input, executed, answered,
                     wire, errors>>
  BY DEF NetnameDeleted, Waits, Idle, WinInv, Types, PortTypes, Only
<1>2. ASSUME NEW c \in Clients, recvCtx[c] = "posted",
             recvCtx' = [recvCtx EXCEPT ![c] = "none"], Release(c),
             UNCHANGED <<sendCtx, blemish, accept>>
      PROVE  WinInv'
  <2>1. closing' \in [Clients -> BOOLEAN]
    BY <1>1 DEF Types, SocketTypes
  <2> QED BY <1>1, <1>2, <2>1, RecvGone DEF port, out, seen
<1>3. ASSUME NEW c \in Clients, sendCtx[c] = "posted",
             sendCtx' = [sendCtx EXCEPT ![c] = "none"],
             blemish' = [blemish EXCEPT ![c] = @ \union {"send"}], Release(c),
             UNCHANGED <<recvCtx, accept>>
      PROVE  WinInv'
  <2>1. /\ blemish' \in [Clients -> SUBSET {"first", "late", "send"}]
        /\ blemish[c] \subseteq blemish'[c] /\ "send" \in blemish'[c]
        /\ \A d \in Clients \ {c} : blemish'[d] = blemish[d]
    BY <1>1, <1>3 DEF Types, DataTypes
  <2> QED BY <1>1, <1>3, <2>1, SendGone DEF port
<1>4. ASSUME NEW x \in Contexts, accept[x] = "posted",
             accept' = [accept EXCEPT ![x] = "erased"],
             UNCHANGED <<life, recvCtx, sendCtx, blemish>>
      PROVE  WinInv'
  <2>1. /\ accept' \in [Contexts -> {"posted", "complete", "taken", "erased", "lost"}]
        /\ \A y \in Contexts : /\ accept'[y] = "complete" <=> accept[y] = "complete"
                               /\ accept'[y] = "taken" <=> accept[y] = "taken"
    BY <1>4, AcceptGone
  <2>2. /\ recvCtx' \in [Clients -> {"none", "posted", "taken", "lost"}]
        /\ sendCtx' \in [Clients -> {"none", "held", "posted", "taken", "lost"}]
        /\ errors' \in 0 .. MaxErrors
    BY <1>1, <1>4 DEF Types, SocketTypes, PortTypes
  <2> QED BY <1>1, <1>4, <2>1, <2>2, WaiterStep DEF stop
<1> QED BY <1>2, <1>3, <1>4 DEF NetnameDeleted

LEMMA IocpErrorInv ==
  ASSUME WinInv, NEW w \in Workers, IocpError(w)
  PROVE  WinInv'
<1>1. Types /\ Only(w) /\ worker'[w].pc = "exit" /\ worker[w].pc = "wait"
  BY Exits DEF IocpError, WinInv
<1>2. errors' \in 0 .. MaxErrors
  BY <1>1, WinAssumption DEF IocpError, Types, PortTypes
<1>3. UNCHANGED <<life, sockClient, buffer, block, qSend, closing, main, input, executed,
                  answered, wire, blemish>>
  BY DEF IocpError, stop
<1>4. /\ recvCtx \in [Clients -> {"none", "posted", "taken", "lost"}]
      /\ sendCtx \in [Clients -> {"none", "held", "posted", "taken", "lost"}]
      /\ accept \in [Contexts -> {"posted", "complete", "taken", "erased", "lost"}]
  BY <1>1 DEF Types, SocketTypes, PortTypes
<1>5. /\ recvCtx' \in [Clients -> {"none", "posted", "taken", "lost"}]
      /\ sendCtx' \in [Clients -> {"none", "held", "posted", "taken", "lost"}]
      /\ accept' \in [Contexts -> {"posted", "complete", "taken", "erased", "lost"}]
      /\ \A d \in Clients :
           /\ recvCtx'[d] = recvCtx[d] \/ (recvCtx[d] = "posted" /\ recvCtx'[d] = "lost")
           /\ sendCtx'[d] = sendCtx[d] \/ (sendCtx[d] = "posted" /\ sendCtx'[d] = "lost")
      /\ \A y \in Contexts : /\ accept'[y] = "complete" <=> accept[y] = "complete"
                             /\ accept'[y] = "taken" <=> accept[y] = "taken"
  <2>1. ASSUME NEW c \in Clients, recvCtx[c] = "posted",
               recvCtx' = [recvCtx EXCEPT ![c] = "lost"], UNCHANGED <<sendCtx, accept>>
        PROVE  <1>5
    BY <1>4, <2>1
  <2>2. ASSUME NEW c \in Clients, sendCtx[c] = "posted",
               sendCtx' = [sendCtx EXCEPT ![c] = "lost"], UNCHANGED <<recvCtx, accept>>
        PROVE  <1>5
    BY <1>4, <2>2
  <2>3. ASSUME NEW x \in Contexts, accept[x] = "posted",
               accept' = [accept EXCEPT ![x] = "lost"], UNCHANGED <<recvCtx, sendCtx>>
        PROVE  <1>5
    BY <1>4, <2>3
  <2> QED BY <2>1, <2>2, <2>3 DEF IocpError
<1> QED BY <1>1, <1>2, <1>3, <1>5, WaiterStep

LEMMA TakeExitInv ==
  ASSUME WinInv, NEW w \in Workers, TakeExit(w)
  PROVE  WinInv'
<1>1. Types /\ Only(w) /\ worker'[w].pc = "exit" /\ worker[w].pc = "wait"
  BY Exits DEF TakeExit, WinInv
<1>2. UNCHANGED <<life, port, out, recvCtx, closing, main, seen>>
  BY DEF TakeExit
<1> QED BY <1>1, <1>2, WaiterStep DEF port, out, seen, Types, SocketTypes, PortTypes

(* stopServer marks the sockets and ends the threads.                      *)
LEMMA StopStep ==
  ASSUME WinInv, main \in {"run", "mark"}, main' \in {"mark", "wait"},
         closing' \in [Clients -> BOOLEAN],
         UNCHANGED <<life, port, out, recvCtx, worker, seen>>
  PROVE  WinInv'
<1>1. Types /\ Accepted /\ ~Frozen /\ main # "done" /\ main' # "done"
  BY DEF WinInv, Frozen
<1>2. Types'
  BY <1>1 DEF Types, SocketTypes, PortTypes, DataTypes, life, port, out, seen
<1>3. Accepted'
  BY <1>1 DEF Accepted, Coming, New, life, port
<1>4. ASSUME NEW d \in Clients PROVE Local(d)'
  <2>1. Local(d)
    BY DEF WinInv
  <2>2. Alone(d)'
    BY <2>1 DEF Local, Alone, Receives, Sends, out
  <2>3. Counted(d)'
    <3>1. Refs(d)' = Refs(d)
      BY DEF Refs, Accepting, Accepts, Receives, out
    <3> QED BY <1>1, <2>1, <3>1 DEF Local, Counted, life
  <2>4. Own(d)'
    BY <2>1 DEF Local, Own, New, Coming, Receives, life, port, seen
  <2>5. InOrder(d)'
    <3>1. Sent(d)' = Sent(d) /\ Clean(d)' = Clean(d)
      BY DEF Sent, InFlight, Sends, Clean, out, seen
    <3>2. \A v \in Workers : (Posts(v, d)' <=> Posts(v, d)) /\ (Sends(v, d)' <=> Sends(v, d))
      BY DEF Posts, Sends
    <3> QED BY <1>1, <2>1, <3>1, <3>2 DEF Local, InOrder, out, seen
  <2> QED BY <2>2, <2>3, <2>4, <2>5 DEF Local
<1> QED BY <1>2, <1>3, <1>4 DEF WinInv

LEMMA TerminateInv ==
  ASSUME WinInv, Terminate
  PROVE  WinInv'
<1>1. Types /\ Accepted /\ main = "wait" /\ main' = "wait" /\ ~Frozen
  BY DEF Terminate, WinInv, Frozen, Ended, At, stop
<1>2. UNCHANGED <<life, port, out, recvCtx, closing, stop, seen>>
  BY DEF Terminate
<1>3. \A v \in Workers : worker'[v] = Exit /\ worker'[v].pc = "exit"
  BY DEF Terminate, Exit
<1>4. /\ worker' \in [Workers -> Job] /\ Frozen'
      /\ \A v \in Workers, d \in Clients : ~Receives(v, d)' /\ ~Sends(v, d)' /\ ~Posts(v, d)'
  <2>1. Exit \in Job /\ worker' = [v \in Workers |-> Exit]
    BY DEF Terminate, Exit, Job
  <2>2. worker' \in [Workers -> Job] /\ Frozen'
    BY <1>1, <1>3, <2>1 DEF Frozen, Ended
  <2> QED BY <1>3, <2>2 DEF Receives, Sends, Posts, Early, Later
<1>5. Types'
  BY <1>1, <1>2, <1>4 DEF Types, SocketTypes, PortTypes, DataTypes, life, port, out, stop, seen
<1>6. Accepted'
  BY <1>1, <1>2, <1>3 DEF Accepted, Coming, New, life, port
<1>7. ASSUME NEW d \in Clients PROVE Local(d)'
  <2>1. Local(d) /\ nRefCount[d] \in Nat
    BY <1>1 DEF WinInv, Types, SocketTypes
  <2>2. Alone(d)'
    BY <1>4 DEF Alone
  <2>3. Counted(d)'
    <3>1. ~Accepting(d)'
      BY <1>4 DEF Accepting, Accepts
    <3>2. Refs(d)' <= Refs(d) /\ Refs(d) \in Nat /\ Refs(d)' \in Nat
      BY <1>2, <3>1 DEF Refs, One, out
    <3>3. nRefCount'[d] >= Refs(d)'
      BY <1>2, <2>1, <3>2 DEF Local, Counted, life
    <3> QED BY <1>1, <1>2, <1>4, <2>1, <3>3 DEF Local, Counted, life
  <2>4. Own(d)'
    BY <1>2, <1>4, <2>1 DEF Local, Own, New, Coming, life, port, seen
  <2>5. InOrder(d)'
    BY <1>2, <1>4, <2>1 DEF Local, InOrder, Clean, out, seen
  <2> QED BY <2>2, <2>3, <2>4, <2>5 DEF Local
<1> QED BY <1>5, <1>6, <1>7 DEF WinInv

LEMMA DeleteSocketsInv ==
  ASSUME WinInv, DeleteSockets
  PROVE  WinInv'
<1>1. Types /\ Accepted /\ main = "wait" /\ main' = "done" /\ Ended /\ Ended' /\ Frozen /\ Frozen'
  BY DEF DeleteSockets, WinInv, Frozen, Ended, At
<1>2. /\ UNCHANGED <<nRefCount, vpClientSocks, port, out, recvCtx, closing, worker, exits, seen>>
      /\ deleted' = [c \in Clients |-> deleted[c] + IF c \in vpClientSocks THEN 1 ELSE 0]
  BY DEF DeleteSockets
<1>3. ASSUME NEW d \in Clients
      PROVE  /\ deleted'[d] = IF d \in vpClientSocks THEN 1 ELSE deleted[d]
             /\ deleted'[d] \in Nat /\ nRefCount[d] \in Nat /\ deleted[d] \in Nat
  <2>1. Counted(d) /\ nRefCount[d] \in Nat /\ deleted[d] \in Nat
    BY <1>1 DEF WinInv, Local, Types, SocketTypes
  <2>2. d \in vpClientSocks => deleted[d] = 0
    BY <1>1, <2>1 DEF Counted
  <2> QED BY <1>2, <2>1, <2>2
<1>4. deleted' \in [Clients -> Nat]
  <2>1. \A d \in Clients : deleted[d] + (IF d \in vpClientSocks THEN 1 ELSE 0) \in Nat
    BY <1>1 DEF Types, SocketTypes
  <2> QED BY <1>2, <2>1
<1>5. Types'
  BY <1>1, <1>2, <1>4 DEF Types, SocketTypes, PortTypes, DataTypes, port, out, seen
<1>6. Accepted'
  BY <1>1, <1>2 DEF Accepted, Coming, port
<1>7. ASSUME NEW d \in Clients PROVE Local(d)'
  <2>1. Local(d)
    BY DEF WinInv
  <2>2. Alone(d)'
    BY <1>2, <2>1 DEF Local, Alone, Receives, Sends, out
  <2>3. Counted(d)'
    <3>1. Refs(d)' = Refs(d)
      BY <1>2 DEF Refs, Accepting, Accepts, Receives, out
    <3> QED BY <1>1, <1>2, <1>3, <2>1, <3>1 DEF Local, Counted
  <2>4. Own(d)'
    <3>1. New(d)' => New(d)
      BY <1>2, <1>3 DEF New
    <3> QED BY <1>2, <2>1, <3>1 DEF Local, Own, Coming, Receives, port, seen
  <2>5. InOrder(d)'
    BY <1>1, <1>2, <2>1 DEF Local, InOrder, Clean, out, seen
  <2> QED BY <2>2, <2>3, <2>4, <2>5 DEF Local
<1> QED BY <1>5, <1>6, <1>7 DEF WinInv

LEMMA stopServerInv ==
  ASSUME WinInv, stopServer
  PROVE  WinInv'
<1>1. closing \in [Clients -> BOOLEAN]
  BY DEF WinInv, Types, SocketTypes
<1>2. CASE Mark
  BY <1>1, <1>2, StopStep DEF Mark
<1>3. CASE PostExit
  BY <1>1, <1>3, StopStep DEF PostExit
<1>4. ASSUME NEW c \in Clients, MarkSocket(c) PROVE WinInv'
  <2>1. closing' \in [Clients -> BOOLEAN]
    BY <1>1, <1>4 DEF MarkSocket
  <2> QED BY <1>4, <2>1, StopStep DEF MarkSocket, stop
<1>5. CASE DeleteSockets
  BY <1>5, DeleteSocketsInv
<1> QED BY <1>2, <1>3, <1>4, <1>5 DEF stopServer

-----------------------------------------------------------------------------
(* The whole *)

LEMMA RequestsNumbered ==
  ASSUME NEW c \in Clients, NEW talk \in Talks[c]
  PROVE  Requests(c, talk) \in Seq(Request) /\ Numbered(c, 0, Requests(c, talk))
<1>a. PICK s : s = Requests(c, talk)
  OBVIOUS
<1>1. talk \in Seq([keep : BOOLEAN, blocks : Nat])
  BY WinAssumption
<1>2. /\ Len(talk) \in Nat /\ DOMAIN talk = 1 .. Len(talk)
      /\ \A k \in 1 .. Len(talk) : talk[k] \in [keep : BOOLEAN, blocks : Nat]
  BY <1>1, LenProperties, ElementOfSeq
<1>3. s = [k \in 1 .. Len(talk) |-> [of |-> c, k |-> k, keep |-> talk[k].keep,
                                     blocks |-> talk[k].blocks]]
  BY <1>2, <1>a DEF Requests
<1>4. \A k \in 1 .. Len(talk) : [of |-> c, k |-> k, keep |-> talk[k].keep,
                                 blocks |-> talk[k].blocks] \in Request
  BY <1>2 DEF Request
<1>5. s \in [1 .. Len(talk) -> Request]
  BY <1>3, <1>4
<1>6. s \in Seq(Request)
  BY <1>2, <1>5, SeqDef
<1>7. Numbered(c, 0, s)
  BY <1>2, <1>3 DEF Numbered
<1> QED BY <1>6, <1>7, <1>a

LEMMA InitInv ==
  ASSUME Init
  PROVE  WinInv
<1>1. \A v \in Workers : worker[v] = Idle /\ worker[v].pc = "wait"
  BY DEF Init, initIOCP, Idle
<1>2. /\ \A v \in Workers, d \in Clients : ~Receives(v, d) /\ ~Sends(v, d) /\ ~Posts(v, d)
      /\ main = "run" /\ ~Frozen
  BY <1>1 DEF Init, Frozen, Receives, Sends, Posts, Early, Later
<1>3. accept \in [Contexts -> {"posted", "erased"}] /\ \A x \in Contexts : accept[x] # "complete"
  BY DEF Init, initListenSocket
<1>4. sockClient \in [Contexts -> Clients]
  BY WinAssumption DEF Init, initListenSocket
<1>5. /\ <<>> \in Seq(Request) /\ <<>> \in Seq(Blocks) /\ <<>> \in Blocks
  BY EmptySeq DEF Blocks
<1>6. buffer \in [Contexts -> Seq(Request)]
  BY <1>5 DEF Init, initListenSocket
<1>7. \A c \in Clients : input[c] \in Seq(Request) /\ Numbered(c, 0, input[c])
  BY RequestsNumbered DEF Init
<1>8. input \in [Clients -> Seq(Request)]
  <2>1. \E T : input \in [Clients -> T]
    BY DEF Init
  <2> QED BY <1>7, <2>1
<1>9. /\ nRefCount = [c \in Clients |-> 0] /\ deleted = [c \in Clients |-> 0]
      /\ vpClientSocks = {} /\ recvCtx = [c \in Clients |-> "none"]
      /\ sendCtx = [c \in Clients |-> "none"] /\ closing = [c \in Clients |-> FALSE]
      /\ block = [c \in Clients |-> <<>>] /\ qSend = [c \in Clients |-> <<>>]
      /\ executed = [c \in Clients |-> <<>>] /\ answered = [c \in Clients |-> <<>>]
      /\ wire = [c \in Clients |-> <<>>] /\ blemish = [c \in Clients |-> {}] /\ errors = 0
  BY DEF Init
<1>10. SocketTypes
  BY <1>9 DEF SocketTypes
<1>11. PortTypes
  <2>1. worker \in [Workers -> Job]
    BY DEF Init, initIOCP, Job
  <2>2. errors \in 0 .. MaxErrors
    BY <1>9, WinAssumption
  <2> QED BY <1>2, <1>3, <1>4, <1>6, <2>1, <2>2 DEF PortTypes
<1>12. DataTypes
  BY <1>5, <1>8, <1>9 DEF DataTypes
<1>13. Accepted
  BY <1>1, <1>2, <1>3 DEF Accepted, Coming
<1>14. ASSUME NEW c \in Clients PROVE Local(c)
  <2>1. Alone(c)
    BY <1>2 DEF Alone
  <2>2. Counted(c)
    <3>1. ~Accepting(c)
      BY <1>2 DEF Accepting, Accepts
    <3>2. Refs(c) = 0
      BY <1>9, <3>1 DEF Refs, One
    <3> QED BY <1>2, <1>9, <3>2 DEF Counted
  <2>3. Own(c)
    <3>1. Numbered(c, 0, <<>>)
      BY DEF Numbered
    <3>2. Len(<<>>) = 0
      OBVIOUS
    <3>3. Begins(c, executed[c], <<>>, input[c])
      BY <1>7, <1>9, <3>1, <3>2 DEF Begins
    <3> QED BY <1>2, <1>3, <1>9, <3>1, <3>3 DEF Own, Coming
  <2>4. InOrder(c)
    <3>1. Sent(c) = <<>>
      <4>1. InFlight(c) = <<>>
        BY <1>2, <1>9 DEF InFlight
      <4>2. <<>> \o <<>> = <<>>
        BY <1>5, ConcatEmptySeq
      <4> QED BY <1>9, <4>1, <4>2 DEF Sent
    <3>2. IsPrefix(<<>>, <<>>)
      BY DEF IsPrefix
    <3> QED BY <1>2, <1>9, <3>1, <3>2 DEF InOrder
  <2> QED BY <2>1, <2>2, <2>3, <2>4 DEF Local
<1> QED BY <1>10, <1>11, <1>12, <1>13, <1>14 DEF WinInv, Types

LEMMA SameInv ==
  ASSUME WinInv, UNCHANGED vars
  PROVE  WinInv'
<1> USE DEF vars, life, port, out, stop, seen
<1>1. Types'
  BY DEF WinInv, Types, SocketTypes, PortTypes, DataTypes
<1>2. Accepted'
  BY DEF WinInv, Accepted, Ended, Coming, New
<1>3. ASSUME NEW d \in Clients PROVE Local(d)'
  <2>1. Local(d)
    BY DEF WinInv
  <2>2. Alone(d)'
    BY <2>1 DEF Local, Alone, Receives, Sends
  <2>3. Counted(d)'
    BY <2>1 DEF Local, Counted, Refs, Accepting, Accepts, Receives, Frozen, Ended
  <2>4. Own(d)'
    BY <2>1 DEF Local, Own, New, Coming, Receives
  <2>5. InOrder(d)'
    BY <2>1 DEF Local, InOrder, Clean, Sent, InFlight, Sends, Posts, Frozen, Ended
  <2> QED BY <2>2, <2>3, <2>4, <2>5 DEF Local
<1> QED BY <1>1, <1>2, <1>3 DEF WinInv

-----------------------------------------------------------------------------
(* The invariant *)

LEMMA TakeInv ==
  ASSUME WinInv, NEW w \in Workers, Take(w)
  PROVE  WinInv'
<1>1. ASSUME NEW x \in Contexts, doAccept(w, x) PROVE WinInv'
  BY <1>1, doAcceptInv
<1>2. ASSUME NEW c \in Clients, doRecv(w, c) PROVE WinInv'
  BY <1>2, doRecvInv
<1>3. ASSUME NEW c \in Clients, Disconnect(w, c) PROVE WinInv'
  BY <1>3, DisconnectInv
<1>4. ASSUME NEW c \in Clients, doSend(w, c) PROVE WinInv'
  BY <1>4, doSendInv
<1>5. CASE NetnameDeleted(w)
  BY <1>5, NetnameDeletedInv
<1>6. CASE IocpError(w)
  BY <1>6, IocpErrorInv
<1> QED BY <1>1, <1>2, <1>3, <1>4, <1>5, <1>6 DEF Take

LEMMA HandleInv ==
  ASSUME WinInv, NEW w \in Workers, Handle(w)
  PROVE  WinInv'
<1>1. CASE postAcceptRq(w)
  BY <1>1, postAcceptRqInv
<1>2. CASE Bind(w)
  BY <1>2, BindInv
<1>3. CASE FirstData(w)
  BY <1>3, FirstDataInv
<1>4. CASE EndAccept(w)
  BY <1>4, EndAcceptInv
<1>5. CASE receivedData(w)
  BY <1>5, receivedDataInv
<1>6. CASE NoMoreData(w)
  BY <1>6, NoMoreDataInv
<1>7. CASE EndRecv(w)
  BY <1>7, EndRecvInv
<1>8. CASE postToSendQueue(w)
  BY <1>8, postToSendQueueInv
<1>9. CASE StartSend(w)
  BY <1>9, StartSendInv
<1>10. CASE setSocketClose(w)
  BY <1>10, setSocketCloseInv
<1>11. CASE postSendRq(w)
  BY <1>11, postSendRqInv
<1>12. CASE EndSend(w)
  BY <1>12, EndSendInv
<1> QED BY <1>1, <1>2, <1>3, <1>4, <1>5, <1>6, <1>7, <1>8, <1>9, <1>10, <1>11, <1>12 DEF Handle

LEMMA NextInv == WinInv /\ [Next]_vars => WinInv'
<1> SUFFICES ASSUME WinInv, [Next]_vars PROVE WinInv'
  OBVIOUS
<1>1. ASSUME NEW x \in Contexts, NEW c \in Clients, Connect(x, c) PROVE WinInv'
  BY <1>1, ConnectInv
<1>2. ASSUME NEW w \in Workers, Take(w) PROVE WinInv'
  BY <1>2, TakeInv
<1>3. ASSUME NEW w \in Workers, Handle(w) PROVE WinInv'
  BY <1>3, HandleInv
<1>4. ASSUME NEW w \in Workers, TakeExit(w) PROVE WinInv'
  BY <1>4, TakeExitInv
<1>5. CASE stopServer
  BY <1>5, stopServerInv
<1>6. CASE Terminate
  BY <1>6, TerminateInv
<1>7. CASE UNCHANGED vars
  BY <1>7, SameInv
<1> QED BY <1>1, <1>2, <1>3, <1>4, <1>5, <1>6, <1>7 DEF Next

LEMMA Invariant == Spec => []WinInv
<1>1. Init => WinInv
  BY InitInv
<1> QED BY <1>1, NextInv, PTL DEF Spec

-----------------------------------------------------------------------------
(* What follows from it *)

(* Whoever has something of c, a thread or the system, has a reference, so *)
(* that the socket has not been deleted.                                   *)
LEMMA ReferredToLives ==
  ASSUME WinInv, NEW c \in Clients
  PROVE  /\ \A w \in Workers : Receives(w, c) \/ Sends(w, c) => deleted[c] = 0
         /\ main # "done" /\ (recvCtx[c] # "none" \/ sendCtx[c] \in {"posted", "taken", "lost"})
              => deleted[c] = 0
<1>1. Types /\ Alone(c) /\ Counted(c) /\ nRefCount[c] \in Nat
  BY DEF WinInv, Local, Types, SocketTypes
<1>2. ASSUME NEW w \in Workers, Receives(w, c) \/ Sends(w, c)
      PROVE  /\ main # "done"
             /\ Accepting(c) \/ recvCtx[c] # "none" \/ sendCtx[c] = "taken"
  <2>1. worker[w].pc # "exit"
    BY <1>2 DEF Receives, Sends, Early, Later
  <2>2. main # "done"
    BY <2>1 DEF WinInv, Accepted, Ended
  <2>3. ASSUME Receives(w, c) PROVE Accepting(c) \/ recvCtx[c] # "none"
    <3>1. CASE worker[w].first
      BY <2>3, <3>1 DEF Accepting, Accepts
    <3>2. CASE ~worker[w].first
      BY <1>1, <2>3, <3>2 DEF Alone
    <3> QED BY <3>1, <3>2
  <2>4. ASSUME Sends(w, c) PROVE sendCtx[c] = "taken"
    BY <1>1, <2>4 DEF Alone
  <2> QED BY <1>2, <2>2, <2>3, <2>4
<1>3. ASSUME main # "done",
             Accepting(c) \/ recvCtx[c] # "none" \/ sendCtx[c] \in {"posted", "taken", "lost"}
      PROVE  deleted[c] = 0
  <2>1. Refs(c) >= 1
    BY <1>3 DEF Refs, One
  <2>2. Refs(c) \in Nat
    BY RefsNat
  <2> QED BY <1>1, <1>3, <2>1, <2>2 DEF Counted
<1> QED BY <1>2, <1>3

(* A socket in the list is referred to while the threads run.              *)
LEMMA ListedIsReferredTo ==
  ASSUME WinInv, NEW c \in Clients, main \in {"run", "mark"}, c \in vpClientSocks
  PROVE  \/ recvCtx[c] # "none" \/ sendCtx[c] # "none"
         \/ \E w \in Workers : Receives(w, c)
<1>1. Counted(c) /\ nRefCount[c] \in Nat /\ ~Frozen
  BY DEF WinInv, Local, Types, SocketTypes, Frozen
<1>2. Refs(c) > 0
  BY <1>1 DEF Counted
<1>3. Accepting(c) \/ recvCtx[c] # "none" \/ sendCtx[c] \in {"posted", "taken", "lost"}
  BY <1>2 DEF Refs, One
<1> QED BY <1>3 DEF Accepting, Accepts

(* A thread that works on a socket receives for it or sends to it.         *)
LEMMA HandledIs ==
  ASSUME Types, NEW w \in Workers, NEW c \in Clients
  PROVE  HandledBy(w, c) <=> Receives(w, c) \/ Sends(w, c)
<1>1. worker[w] \in Job
  BY DEF Types, PortTypes
<1>2. /\ worker[w].pc \in {"wait", "exit", "resend", "erase"} \union Early \union Later
      /\ worker[w].pc = "wait" => worker[w] = Idle
  BY <1>1, JobIs
<1>3. Idle.pc = "wait"
  BY DEF Idle
<1> QED BY <1>2, <1>3 DEF HandledBy, Waits, At, Receives, Sends, Early, Later

(* stopServer posts one packet for each thread.                            *)
Packets == exits \in 0 .. Cardinality(Workers)

LEMMA PacketsNext ==
  ASSUME IsFiniteSet(Workers), Packets, [Next]_vars
  PROVE  Packets'
<1> USE DEF stop
<1>0. Cardinality(Workers) \in Nat
  BY FS_CardinalityType
<1>1. ASSUME UNCHANGED exits PROVE Packets'
  BY <1>1 DEF Packets
<1>2. ASSUME NEW w \in Workers, TakeExit(w) PROVE Packets'
  BY <1>0, <1>2 DEF TakeExit, Packets
<1>3. ASSUME stopServer PROVE Packets'
  <2>1. exits' = exits \/ exits' = Cardinality(Workers)
    BY <1>3 DEF stopServer, Mark, MarkSocket, PostExit, DeleteSockets
  <2> QED BY <1>0, <2>1 DEF Packets
<1>4. ASSUME NEW w \in Workers, Handle(w) PROVE UNCHANGED exits
  BY Zenon, <1>4 DEF Handle, postAcceptRq, Bind, FirstData, EndAccept, receivedData, NoMoreData,
     EndRecv, postToSendQueue, StartSend, setSocketClose, postSendRq, EndSend
<1>5. ASSUME NEW w \in Workers, Take(w) PROVE UNCHANGED exits
  BY Zenon, <1>5 DEF Take, doAccept, doRecv, Disconnect, doSend, NetnameDeleted, IocpError
<1>6. ASSUME NEW x \in Contexts, NEW c \in Clients, Connect(x, c) PROVE UNCHANGED exits
  BY Zenon, <1>6 DEF Connect
<1>7. ASSUME Terminate \/ UNCHANGED vars PROVE UNCHANGED exits
  BY Zenon, <1>7 DEF Terminate, vars
<1> QED BY <1>1, <1>2, <1>3, <1>4, <1>5, <1>6, <1>7 DEF Next

(* The variables of netserver_win.cpp keep their types, and there are      *)
(* never more exit packets than threads to take them, if these are         *)
(* finitely many.                                                          *)
THEOREM WinTypeCorrect == ASSUME IsFiniteSet(Workers) PROVE Spec => []TypeOK
<1>1. WinInv /\ Packets => TypeOK
  BY DEF WinInv, Types, SocketTypes, PortTypes, Packets, TypeOK
<1>2. Init => Packets
  BY FS_CardinalityType DEF Init, Packets
<1>3. Packets /\ [Next]_vars => Packets'
  BY PacketsNext
<1> QED BY <1>1, <1>2, <1>3, Invariant, PTL DEF Spec

(* A client socket of netserver_win.cpp is deleted when the last reference *)
(* goes, never twice, never while a thread or an operation has it; none is *)
(* left in the list without a use, and stopServer deletes those that are.  *)
THEOREM SocketsAreDeletedOnce == Spec => []DeletedOnce
<1>1. WinInv => DeletedOnce
  <2> SUFFICES ASSUME WinInv PROVE DeletedOnce
    OBVIOUS
  <2>1. Types
    BY DEF WinInv
  <2>2. NoUseAfterDelete
    BY <2>1, ReferredToLives, HandledIs DEF NoUseAfterDelete
  <2>3. ASSUME NEW c \in Clients
        PROVE  /\ deleted[c] <= 1
               /\ main \in {"run", "mark"} /\ c \in vpClientSocks =>
                    \/ recvCtx[c] # "none" \/ sendCtx[c] # "none"
                    \/ \E w \in Workers : HandledBy(w, c)
               /\ main = "done" /\ c \in vpClientSocks => deleted[c] = 1
    <3>1. Counted(c)
      BY DEF WinInv, Local
    <3>2. main \in {"run", "mark"} /\ c \in vpClientSocks =>
            \/ recvCtx[c] # "none" \/ sendCtx[c] # "none"
            \/ \E w \in Workers : HandledBy(w, c)
      BY <2>1, ListedIsReferredTo, HandledIs
    <3> QED BY <3>1, <3>2 DEF Counted
  <2> QED BY <2>2, <2>3 DEF DeletedOnce
<1> QED BY <1>1, Invariant, PTL

(* Whatever thread completes a send and whatever thread queues a block,    *)
(* what a client receives is the beginning of its answers, each block once *)
(* and in its place, as long as no send has failed and no block was queued *)
(* between getSendQueue and eraseIoContext.                                *)
THEOREM AnswersStayInOrder == Spec => []AnswersInOrder
<1>1. WinInv => AnswersInOrder
  BY DEF WinInv, Local, InOrder, Clean, AnswersInOrder
<1> QED BY <1>1, Invariant, PTL

(* No block stays in qSend when nothing is being sent, with the same two   *)
(* exceptions: doSend takes the next block as often as there is one.       *)
THEOREM QueuesAreSent == Spec => []NothingIsStuck
<1>1. WinInv => NothingIsStuck
  BY DEF WinInv, Local, InOrder, Clean, NothingIsStuck
<1> QED BY <1>1, Invariant, PTL

(* The requests executed on a socket are the first that its client sent,   *)
(* none twice and none left out, whichever threads received them, unless   *)
(* its first data was read after the buffer had been posted again and used.*)
THEOREM RequestsStayInOrder == Spec => []OwnRequestsInOrder
<1>1. WinInv => OwnRequestsInOrder
  <2> SUFFICES ASSUME WinInv, NEW c \in Clients, NEW k \in DOMAIN executed[c],
                      "first" \notin blemish[c]
               PROVE  executed[c][k].of = c /\ executed[c][k].k = k
    BY DEF OwnRequestsInOrder
  <2>1. executed[c][k].of = c /\ executed[c][k].k = 0 + k
    BY DEF WinInv, Local, Own, Numbered
  <2>2. k \in Nat
    BY DEF WinInv, Types, DataTypes
  <2> QED BY <2>1, <2>2
<1> QED BY <1>1, Invariant, PTL
=============================================================================

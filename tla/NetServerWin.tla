---------------------------- MODULE NetServerWin ----------------------------
(***************************************************************************)
(* The network server on I/O completion ports (netserver_win.cpp).         *)
(*                                                                         *)
(* A pool of worker threads takes completions from one port.  A client     *)
(* socket has at most one receive and, through pIOContextSend and qSend,   *)
(* at most one send under way; both are handled by any thread, so that     *)
(* they meet on qSend (under csIOContext) and on the reference count.      *)
(* The context of an AcceptEx is posted again before its buffer, which     *)
(* holds the client's first data, has been read.  An error other than      *)
(* ERROR_NETNAME_DELETED ends the thread that sees it.                     *)
(*                                                                         *)
(* Requests are records; how they are cut out of the bytes is the subject  *)
(* of NetServerAsio, whose receivedData is the same.  A block is one       *)
(* buffer of an answer.  TLS, which only wraps both streams, is left out,  *)
(* and sockClient is written together with the call of AcceptEx.           *)
(***************************************************************************)
EXTENDS Integers, Sequences, FiniteSets, SequencesExt

CONSTANTS
  Workers,    \* the worker threads
  Clients,    \* the clients, each with the TSocketEx made for it
  Contexts,   \* the contexts posted with AcceptEx
  Talks,      \* Talks[c]: what c may send: sequences of requests [keep, blocks],
              \* whether it says KEEP-ALIVE and how many blocks its answer has
  MaxErrors   \* bound on the errors that end a thread

ASSUME WinAssumption ==
  /\ MaxErrors \in Nat /\ Clients # {}
  /\ \A c \in Clients : Talks[c] \subseteq Seq([keep : BOOLEAN, blocks : Nat])

VARIABLES
  nRefCount, deleted, vpClientSocks,  \* as in NetServerAsio
  accept,     \* accept[x]: the AcceptEx of x is posted, complete, taken or erased
  sockClient, \* sockClient[x]: the client it was completed for
  buffer,     \* buffer[x]: the data in its buffer
  recvCtx,    \* recvCtx[c]: pIOContextRecv: none, posted, taken by a thread, lost
  sendCtx,    \* sendCtx[c]: pIOContextSend: none, held, posted, taken, lost
  block,      \* block[c]: the block in its wsaBuffer
  qSend,      \* qSend[c]
  closing,    \* closing[c]: bReadyToClose
  worker,     \* worker[w]: what the thread is doing
  main,       \* stopServer: "run", "mark", "wait", "done"
  exits,      \* packets with Exit_Key in the port
  input,      \* input[c]: the requests that have not arrived
  errors,     \* history: how many errors have ended a thread
  executed,   \* history: executed[c], the requests executed on c's socket
  answered,   \* history: answered[c], the blocks of the answers
  wire,       \* history: wire[c], the blocks sent
  blemish     \* history: blemish[c]: what has gone wrong with c

life == <<nRefCount, deleted, vpClientSocks>>
port == <<accept, sockClient, buffer>>
out  == <<sendCtx, block, qSend>>
stop == <<main, exits>>
seen == <<input, executed, answered, wire, blemish, errors>>
vars == <<life, port, out, recvCtx, closing, worker, stop, seen>>

Idle == [pc |-> "wait"]

(* The requests of a talk of c, numbered.                                  *)
Requests(c, talk) ==
  [k \in DOMAIN talk |-> [of |-> c, k |-> k, keep |-> talk[k].keep, blocks |-> talk[k].blocks]]

(* initIOCP makes the threads.                                             *)
initIOCP == worker = [w \in Workers |-> Idle]

(* initListenSocket posts the contexts until one fails, which must not be  *)
(* the first.                                                              *)
initListenSocket ==
  /\ \E posted \in SUBSET Contexts \ {{}} :
       accept = [x \in Contexts |-> IF x \in posted THEN "posted" ELSE "erased"]
  /\ sockClient \in [Contexts -> {CHOOSE c \in Clients : TRUE}]
  /\ buffer = [x \in Contexts |-> <<>>]

Init ==
  /\ initIOCP /\ initListenSocket
  /\ nRefCount = [c \in Clients |-> 0] /\ deleted = nRefCount /\ vpClientSocks = {}
  /\ recvCtx = [c \in Clients |-> "none"] /\ sendCtx = recvCtx
  /\ block = [c \in Clients |-> <<>>] /\ qSend = block
  /\ executed = block /\ answered = block /\ wire = block
  /\ input \in {i \in [Clients -> UNION {{Requests(c, t) : t \in Talks[c]} : c \in Clients}] :
                   \A c \in Clients : \E t \in Talks[c] : i[c] = Requests(c, t)}
  /\ closing = [c \in Clients |-> FALSE]
  /\ blemish = [c \in Clients |-> {}]
  /\ main = "run" /\ exits = 0 /\ errors = 0

-----------------------------------------------------------------------------
(* TSocketEx::Release: the last one deletes the object under               *)
(* m_pcsClientSocks, which stopServer holds while it marks the sockets.    *)
Release(c) ==
  /\ nRefCount' = [nRefCount EXCEPT ![c] = @ - 1]
  /\ IF nRefCount[c] = 1
     THEN /\ main # "mark"
          /\ deleted' = [deleted EXCEPT ![c] = @ + 1]
          /\ vpClientSocks' = vpClientSocks \ {c}
     ELSE UNCHANGED <<deleted, vpClientSocks>>

AddRef(c) == nRefCount' = [nRefCount EXCEPT ![c] = @ + 1]
             /\ UNCHANGED <<deleted, vpClientSocks>>

Waits(w) == worker[w] = Idle
At(w, p) == worker[w].pc = p
Goto(w, p) == worker' = [worker EXCEPT ![w].pc = p]
Done(w) == worker' = [worker EXCEPT ![w] = Idle]

-----------------------------------------------------------------------------
(* Accepting *)

(* A client connects and sends its first data, as many requests of it as   *)
(* have arrived; the system writes them into the buffer.                   *)
Connect(x, c) ==
  /\ accept[x] = "posted"
  /\ c \notin {sockClient[y] : y \in {z \in Contexts : accept[z] = "complete"}}
  /\ nRefCount[c] = 0 /\ deleted[c] = 0
  /\ main # "done"
  /\ \E n \in 0 .. Len(input[c]) :
       /\ buffer' = [buffer EXCEPT ![x] = SubSeq(input[c], 1, n)]
       /\ input'  = [input EXCEPT ![c] = SubSeq(@, n + 1, Len(@))]
  /\ accept' = [accept EXCEPT ![x] = "complete"]
  /\ sockClient' = [sockClient EXCEPT ![x] = c]
  /\ UNCHANGED <<life, out, recvCtx, closing, worker, stop, executed, answered, wire,
                 blemish, errors>>

(* doAccept makes the TSocketEx, which needs m_pcsClientSocks, ...         *)
doAccept(w, x) ==
  LET c == sockClient[x] IN
  /\ Waits(w) /\ accept[x] = "complete"
  /\ main # "mark"
  /\ nRefCount' = [nRefCount EXCEPT ![c] = 1]
  /\ vpClientSocks' = vpClientSocks \union {c}
  /\ accept' = [accept EXCEPT ![x] = "taken"]
  /\ worker' = [worker EXCEPT ![w] =
       [pc |-> "repost", at |-> c, x |-> x, data |-> <<>>, rest |-> <<>>,
        keep |-> TRUE, first |-> TRUE]]
  /\ UNCHANGED <<deleted, sockClient, buffer, out, recvCtx, closing, stop, seen>>

(* ... posts the context again, or erases it if that fails, ...            *)
postAcceptRq(w) ==
  /\ At(w, "repost")
  /\ \E now \in {"posted", "erased"} : accept' = [accept EXCEPT ![worker[w].x] = now]
  /\ Goto(w, "bind")
  /\ UNCHANGED <<life, sockClient, buffer, out, recvCtx, closing, stop, seen>>

(* ... joins the socket to the port, without which it is given up, ...     *)
Bind(w) ==
  /\ At(w, "bind")
  /\ \/ Goto(w, "read") /\ UNCHANGED life
     \/ Release(worker[w].at) /\ Done(w)
  /\ UNCHANGED <<port, out, recvCtx, closing, stop, seen>>

(* ... and takes the first data from the buffer, which meanwhile may hold  *)
(* another client's or, if the context was erased, anything.               *)
FirstData(w) ==
  LET c == worker[w].at
      x == worker[w].x IN
  /\ At(w, "read")
  /\ \E data \in {buffer[x]} \union (IF accept[x] = "erased" THEN {<<>>} ELSE {}) :
       worker' = [worker EXCEPT ![w].pc = "scan", ![w].data = data]
  /\ blemish' = [blemish EXCEPT ![c] =
       @ \union IF accept[x] = "erased" \/ sockClient[x] # c THEN {"first"} ELSE {}]
  /\ UNCHANGED <<life, port, out, recvCtx, closing, stop, input, executed, answered,
                 wire, errors>>

(* The end of doAccept: the first receive is posted, with a reference of   *)
(* its own; then doAccept's is released, which is all if posting fails.    *)
EndAccept(w) ==
  LET c == worker[w].at IN
  /\ At(w, "end") /\ worker[w].first
  /\ \/ /\ ~closing[c]
        /\ recvCtx' = [recvCtx EXCEPT ![c] = "posted"]
        /\ UNCHANGED life
     \/ /\ UNCHANGED recvCtx
        /\ Release(c)
  /\ Done(w)
  /\ UNCHANGED <<port, out, closing, stop, seen>>

-----------------------------------------------------------------------------
(* Receiving *)

(* doRecv with as many requests as have arrived; no data is a disconnect.  *)
(* (Data that complete no request change nothing here.)                    *)
doRecv(w, c) ==
  /\ Waits(w) /\ recvCtx[c] = "posted"
  /\ recvCtx' = [recvCtx EXCEPT ![c] = "taken"]
  /\ \E n \in 1 .. Len(input[c]) :
       /\ worker' = [worker EXCEPT ![w] =
            [pc |-> "scan", at |-> c, data |-> SubSeq(input[c], 1, n), rest |-> <<>>,
             keep |-> TRUE, first |-> FALSE]]
       /\ input' = [input EXCEPT ![c] = SubSeq(@, n + 1, Len(@))]
  /\ UNCHANGED <<life, port, out, closing, stop, executed, answered, wire, blemish, errors>>

Disconnect(w, c) ==
  /\ Waits(w) /\ recvCtx[c] = "posted"
  /\ closing' = [closing EXCEPT ![c] = TRUE]
  /\ recvCtx' = [recvCtx EXCEPT ![c] = "none"]
  /\ Release(c)
  /\ UNCHANGED <<port, out, worker, stop, seen>>

(* Wrong on purpose: the request stays in recvBuffer.                      *)
receivedDataAgain(w) ==
  LET c == worker[w].at
      r == Head(worker[w].data)
      blocks == [j \in 1 .. r.blocks |-> <<Len(executed[c]) + 1, j>>] IN
  /\ At(w, "scan") /\ worker[w].data # <<>>
  /\ executed' = [executed EXCEPT ![c] = Append(@, r)]
  /\ answered' = [answered EXCEPT ![c] = @ \o blocks]
  /\ worker' = [worker EXCEPT ![w].pc = "post", ![w].rest = blocks,
                               ![w].keep = r.keep]
  /\ UNCHANGED <<life, port, out, recvCtx, closing, stop, input, wire, blemish, errors>>

(* receivedData executes the next request; sendResponse has its answer.    *)
receivedData(w) ==
  LET c == worker[w].at
      r == Head(worker[w].data)
      blocks == [j \in 1 .. r.blocks |-> <<Len(executed[c]) + 1, j>>] IN
  /\ At(w, "scan") /\ worker[w].data # <<>>
  /\ executed' = [executed EXCEPT ![c] = Append(@, r)]
  /\ answered' = [answered EXCEPT ![c] = @ \o blocks]
  /\ worker' = [worker EXCEPT ![w].pc = "post", ![w].data = Tail(@), ![w].rest = blocks,
                               ![w].keep = r.keep]
  /\ UNCHANGED <<life, port, out, recvCtx, closing, stop, input, wire, blemish, errors>>

NoMoreData(w) ==
  /\ At(w, "scan") /\ worker[w].data = <<>>
  /\ Goto(w, "end")
  /\ UNCHANGED <<life, port, out, recvCtx, closing, stop, seen>>

(* The end of doRecv: nothing more is received from a socket to be closed, *)
(* from another the receive is posted again, which may fail.               *)
EndRecv(w) ==
  LET c == worker[w].at IN
  /\ At(w, "end") /\ ~worker[w].first
  /\ \/ /\ ~closing[c]
        /\ recvCtx' = [recvCtx EXCEPT ![c] = "posted"]
        /\ UNCHANGED life
     \/ /\ recvCtx' = [recvCtx EXCEPT ![c] = "none"]
        /\ Release(c)
  /\ Done(w)
  /\ UNCHANGED <<port, out, closing, stop, seen>>

-----------------------------------------------------------------------------
(* Sending *)

(* postToSendQueue for the next block: it waits behind the one being sent, *)
(* or becomes it.  (It comes too late if doSend has just found the queue   *)
(* empty and is about to erase pIOContextSend.)                            *)
postToSendQueue(w) ==
  LET c == worker[w].at
      b == Head(worker[w].rest)
      late == \E v \in Workers : At(v, "erase") /\ worker[v].at = c IN
  /\ At(w, "post") /\ worker[w].rest # <<>>
  /\ IF sendCtx[c] # "none"
     THEN /\ qSend' = [qSend EXCEPT ![c] = Append(@, b)]
          /\ worker' = [worker EXCEPT ![w].rest = Tail(@)]
          /\ blemish' = [blemish EXCEPT ![c] = @ \union IF late THEN {"late"} ELSE {}]
          /\ UNCHANGED <<sendCtx, block>>
     ELSE /\ sendCtx' = [sendCtx EXCEPT ![c] = "held"]
          /\ block' = [block EXCEPT ![c] = b]
          /\ worker' = [worker EXCEPT ![w].rest = Tail(@), ![w].pc = "start"]
          /\ UNCHANGED <<qSend, blemish>>
  /\ UNCHANGED <<life, port, recvCtx, closing, stop, input, executed, answered, wire, errors>>

(* sendData takes a reference and posts the send; if that fails the        *)
(* context is erased, the reference released and the rest not sent.        *)
StartSend(w) ==
  LET c == worker[w].at IN
  /\ At(w, "start")
  /\ \/ /\ sendCtx' = [sendCtx EXCEPT ![c] = "posted"]
        /\ AddRef(c)
        /\ Goto(w, "post")
        /\ UNCHANGED blemish
     \/ /\ sendCtx' = [sendCtx EXCEPT ![c] = "none"]
        /\ blemish' = [blemish EXCEPT ![c] = @ \union {"send"}]
        /\ worker' = [worker EXCEPT ![w].pc = "post", ![w].rest = <<>>]
        /\ UNCHANGED life
  /\ UNCHANGED <<port, recvCtx, block, qSend, closing, stop, input, executed, answered,
                 wire, errors>>

(* The answer has been queued; without KEEP-ALIVE setSocketClose.          *)
setSocketClose(w) ==
  LET c == worker[w].at IN
  /\ At(w, "post") /\ worker[w].rest = <<>>
  /\ closing' = [closing EXCEPT ![c] = @ \/ ~worker[w].keep]
  /\ Goto(w, "scan")
  /\ UNCHANGED <<life, port, out, recvCtx, stop, seen>>

(* Wrong on purpose: what has been queued meanwhile is left to the others. *)
doSendOnce(w, c) ==
  /\ Waits(w) /\ sendCtx[c] = "posted"
  /\ wire' = [wire EXCEPT ![c] = Append(@, block[c])]
  /\ sendCtx' = [sendCtx EXCEPT ![c] = "taken"]
  /\ worker' = [worker EXCEPT ![w] = [pc |-> "erase", at |-> c]]
  /\ UNCHANGED <<life, port, recvCtx, block, qSend, closing, stop, input, executed,
                 answered, blemish, errors>>

(* Wrong on purpose: the last block that was queued is sent first.         *)
doSendNewest(w, c) ==
  /\ Waits(w) /\ sendCtx[c] = "posted"
  /\ wire' = [wire EXCEPT ![c] = Append(@, block[c])]
  /\ sendCtx' = [sendCtx EXCEPT ![c] = "taken"]
  /\ IF qSend[c] = <<>>
     THEN /\ worker' = [worker EXCEPT ![w] = [pc |-> "erase", at |-> c]]
          /\ UNCHANGED <<block, qSend>>
     ELSE /\ worker' = [worker EXCEPT ![w] = [pc |-> "resend", at |-> c]]
          /\ block' = [block EXCEPT ![c] = Last(qSend[c])]
          /\ qSend' = [qSend EXCEPT ![c] = Front(@)]
  /\ UNCHANGED <<life, port, recvCtx, closing, stop, input, executed, answered, blemish, errors>>

(* doSend: the block is sent; getSendQueue has the next one, or nothing.   *)
doSend(w, c) ==
  /\ Waits(w) /\ sendCtx[c] = "posted"
  /\ wire' = [wire EXCEPT ![c] = Append(@, block[c])]
  /\ sendCtx' = [sendCtx EXCEPT ![c] = "taken"]
  /\ IF qSend[c] = <<>>
     THEN /\ worker' = [worker EXCEPT ![w] = [pc |-> "erase", at |-> c]]
          /\ UNCHANGED <<block, qSend>>
     ELSE /\ worker' = [worker EXCEPT ![w] = [pc |-> "resend", at |-> c]]
          /\ block' = [block EXCEPT ![c] = Head(qSend[c])]
          /\ qSend' = [qSend EXCEPT ![c] = Tail(@)]
  /\ UNCHANGED <<life, port, recvCtx, closing, stop, input, executed, answered, blemish, errors>>

(* postSendRq for the block from the queue; it may fail.                   *)
postSendRq(w) ==
  LET c == worker[w].at IN
  /\ At(w, "resend")
  /\ \/ /\ sendCtx' = [sendCtx EXCEPT ![c] = "posted"]
        /\ UNCHANGED <<life, blemish>>
     \/ /\ sendCtx' = [sendCtx EXCEPT ![c] = "none"]
        /\ blemish' = [blemish EXCEPT ![c] = @ \union {"send"}]
        /\ Release(c)
  /\ Done(w)
  /\ UNCHANGED <<port, recvCtx, block, qSend, closing, stop, input, executed, answered,
                 wire, errors>>

(* Nothing was queued: eraseIoContext and Release.                         *)
EndSend(w) ==
  LET c == worker[w].at IN
  /\ At(w, "erase")
  /\ sendCtx' = [sendCtx EXCEPT ![c] = "none"]
  /\ Release(c)
  /\ Done(w)
  /\ UNCHANGED <<port, recvCtx, block, qSend, closing, stop, seen>>

-----------------------------------------------------------------------------
(* Errors *)

(* Wrong on purpose: a connection that is gone ends the thread.            *)
NetnameDeletedBreak(w) ==
  /\ Waits(w)
  /\ \E c \in Clients :
       /\ recvCtx[c] = "posted"
       /\ recvCtx' = [recvCtx EXCEPT ![c] = "none"]
       /\ Release(c)
  /\ Goto(w, "exit")
  /\ UNCHANGED <<port, sendCtx, blemish, block, qSend, closing, stop, input, executed,
                 answered, wire, errors>>

(* Wrong on purpose: a send that failed keeps its reference.               *)
NetnameDeletedKept(w) ==
  /\ Waits(w)
  /\ \E c \in Clients :
       /\ sendCtx[c] = "posted"
       /\ sendCtx' = [sendCtx EXCEPT ![c] = "none"]
       /\ blemish' = [blemish EXCEPT ![c] = @ \union {"send"}]
  /\ UNCHANGED <<life, recvCtx, port, worker, block, qSend, closing, stop, input, executed,
                 answered, wire, errors>>

(* ERROR_NETNAME_DELETED: the context is erased and its reference given    *)
(* back; what is queued stays queued.                                      *)
NetnameDeleted(w) ==
  /\ Waits(w)
  /\ \/ \E c \in Clients :
          /\ recvCtx[c] = "posted"
          /\ recvCtx' = [recvCtx EXCEPT ![c] = "none"]
          /\ Release(c)
          /\ UNCHANGED <<sendCtx, blemish, accept>>
     \/ \E c \in Clients :
          /\ sendCtx[c] = "posted"
          /\ sendCtx' = [sendCtx EXCEPT ![c] = "none"]
          /\ blemish' = [blemish EXCEPT ![c] = @ \union {"send"}]
          /\ Release(c)
          /\ UNCHANGED <<recvCtx, accept>>
     \/ \E x \in Contexts :
          /\ accept[x] = "posted"
          /\ accept' = [accept EXCEPT ![x] = "erased"]
          /\ UNCHANGED <<life, recvCtx, sendCtx, blemish>>
  /\ UNCHANGED <<worker, sockClient, buffer, block, qSend, closing, stop, input, executed,
                 answered, wire, errors>>

(* Any other error: nothing is erased or released, and the thread ends.    *)
IocpError(w) ==
  /\ Waits(w) /\ errors < MaxErrors
  /\ \/ \E c \in Clients :
          /\ recvCtx[c] = "posted"
          /\ recvCtx' = [recvCtx EXCEPT ![c] = "lost"]
          /\ UNCHANGED <<sendCtx, accept>>
     \/ \E c \in Clients :
          /\ sendCtx[c] = "posted"
          /\ sendCtx' = [sendCtx EXCEPT ![c] = "lost"]
          /\ UNCHANGED <<recvCtx, accept>>
     \/ \E x \in Contexts :
          /\ accept[x] = "posted"
          /\ accept' = [accept EXCEPT ![x] = "lost"]
          /\ UNCHANGED <<recvCtx, sendCtx>>
  /\ Goto(w, "exit")
  /\ errors' = errors + 1
  /\ UNCHANGED <<life, sockClient, buffer, block, qSend, closing, stop, input, executed,
                 answered, wire, blemish>>

-----------------------------------------------------------------------------
(* stopServer: all sockets are marked with m_pcsClientSocks held, ...      *)
Mark == /\ main = "run" /\ main' = "mark"
        /\ UNCHANGED <<life, port, out, recvCtx, closing, worker, exits, seen>>

MarkSocket(c) ==
  /\ main = "mark" /\ c \in vpClientSocks /\ ~closing[c]
  /\ closing' = [closing EXCEPT ![c] = TRUE]
  /\ UNCHANGED <<life, port, out, recvCtx, worker, stop, seen>>

(* ... every thread is sent a packet that ends it, ...                     *)
PostExit ==
  /\ main = "mark" /\ \A c \in vpClientSocks : closing[c]
  /\ main' = "wait" /\ exits' = Cardinality(Workers)
  /\ UNCHANGED <<life, port, out, recvCtx, closing, worker, seen>>

TakeExit(w) ==
  /\ Waits(w) /\ exits > 0
  /\ exits' = exits - 1
  /\ Goto(w, "exit")
  /\ UNCHANGED <<life, port, out, recvCtx, closing, main, seen>>

(* ... those that still run after WaitTime_WorkerThread are terminated ... *)
Terminate ==
  /\ main = "wait" /\ \E w \in Workers : ~At(w, "exit")
  /\ worker' = [w \in Workers |-> [pc |-> "exit"]]
  /\ UNCHANGED <<life, port, out, recvCtx, closing, stop, seen>>

(* ... and the sockets that are left are deleted.                          *)
DeleteSockets ==
  /\ main = "wait" /\ \A w \in Workers : At(w, "exit")
  /\ main' = "done"
  /\ deleted' = [c \in Clients |-> deleted[c] + IF c \in vpClientSocks THEN 1 ELSE 0]
  /\ UNCHANGED <<nRefCount, vpClientSocks, port, out, recvCtx, closing, worker, exits, seen>>

stopServer == Mark \/ PostExit \/ DeleteSockets \/ \E c \in Clients : MarkSocket(c)

-----------------------------------------------------------------------------
(* A thread goes on with what it has taken.                                *)
Handle(w) ==
  \/ postAcceptRq(w) \/ Bind(w) \/ FirstData(w) \/ EndAccept(w)
  \/ receivedData(w) \/ NoMoreData(w) \/ EndRecv(w)
  \/ postToSendQueue(w) \/ StartSend(w) \/ setSocketClose(w)
  \/ postSendRq(w) \/ EndSend(w)

Take(w) ==
  \/ \E x \in Contexts : doAccept(w, x)
  \/ \E c \in Clients : doRecv(w, c) \/ Disconnect(w, c) \/ doSend(w, c)
  \/ NetnameDeleted(w) \/ IocpError(w)

Next == \/ \E x \in Contexts, c \in Clients : Connect(x, c)
        \/ \E w \in Workers : Take(w) \/ Handle(w) \/ TakeExit(w)
        \/ stopServer \/ Terminate

Spec == Init /\ [][Next]_vars

(* Threads go on with what they have taken, and take connections.          *)
Fairness ==
  /\ \A w \in Workers : WF_vars(Handle(w))
  /\ WF_vars(\E w \in Workers, x \in Contexts : doAccept(w, x))
FairSpec == Spec /\ Fairness

-----------------------------------------------------------------------------
TypeOK ==
  /\ nRefCount \in [Clients -> Nat] /\ deleted \in [Clients -> Nat]
  /\ vpClientSocks \subseteq Clients
  /\ accept \in [Contexts -> {"posted", "complete", "taken", "erased", "lost"}]
  /\ sockClient \in [Contexts -> Clients]
  /\ recvCtx \in [Clients -> {"none", "posted", "taken", "lost"}]
  /\ sendCtx \in [Clients -> {"none", "held", "posted", "taken", "lost"}]
  /\ closing \in [Clients -> BOOLEAN]
  /\ main \in {"run", "mark", "wait", "done"}
  /\ exits \in 0 .. Cardinality(Workers) /\ errors \in 0 .. MaxErrors

HandledBy(w, c) == ~Waits(w) /\ ~At(w, "exit") /\ worker[w].at = c

(* No thread works on a socket that has been deleted, and none is deleted  *)
(* while the system still has an operation of it, except by stopServer,    *)
(* which closes the sockets with their operations.                         *)
NoUseAfterDelete ==
  \A c \in Clients :
    /\ (\E w \in Workers : HandledBy(w, c)) => deleted[c] = 0
    /\ main # "done" /\ (recvCtx[c] = "posted" \/ sendCtx[c] = "posted") => deleted[c] = 0

(* A socket is deleted at most once, never before its last use, as soon as *)
(* neither a thread nor an operation has it, or when the server stops.     *)
DeletedOnce ==
  /\ NoUseAfterDelete
  /\ \A c \in Clients :
       /\ deleted[c] <= 1
       /\ main \in {"run", "mark"} /\ c \in vpClientSocks =>
            \/ recvCtx[c] # "none" \/ sendCtx[c] # "none"
            \/ \E w \in Workers : HandledBy(w, c)
       /\ main = "done" /\ c \in vpClientSocks => deleted[c] = 1

(* Blocks reach the client in the order of its answers and none is         *)
(* skipped, unless a send has failed or a block was queued too late.       *)
AnswersInOrder ==
  \A c \in Clients :
    blemish[c] \intersect {"send", "late"} = {} => IsPrefix(wire[c], answered[c])

(* If nothing is being sent to a client nothing is queued for it, unless   *)
(* a send has failed or a block was queued too late.                       *)
NothingIsStuck ==
  \A c \in Clients :
    blemish[c] \intersect {"send", "late"} = {} /\ sendCtx[c] = "none" => qSend[c] = <<>>

(* Unless its first data was overwritten, the requests executed on a       *)
(* socket are those its client has sent, in their order.                   *)
OwnRequestsInOrder ==
  \A c \in Clients : \A k \in DOMAIN executed[c] :
    "first" \notin blemish[c] => executed[c][k].of = c /\ executed[c][k].k = k

(* The first data processed for a client is what this client has sent.     *)
FirstDataIsOwn ==
  \A c \in Clients : \A k \in DOMAIN executed[c] : executed[c][k].of = c

(* As long as fewer errors than threads have occurred a connection that    *)
(* has been accepted is taken by a thread, or the server stops.            *)
ConnectionsAreTaken ==
  \A x \in Contexts :
    accept[x] = "complete" ~> \/ accept[x] # "complete" \/ main # "run"
                              \/ errors >= Cardinality(Workers)
=============================================================================

--------------------------- MODULE NetServerAsio ---------------------------
(***************************************************************************)
(* The network server on boost::asio (netserver_asio.cpp).                 *)
(*                                                                         *)
(* Several threads run the completion handlers of one io_service.  For     *)
(* each socket at most one receive and, through the queue qSend, at most   *)
(* one send is under way, so a receive handler and a send handler of the   *)
(* same socket may run side by side; they share qSend (under mutexSend),   *)
(* bReadyToClose and the reference count that deletes the socket.  The     *)
(* main thread stops the server while handlers run.                        *)
(*                                                                         *)
(* The bytes of a request are abstracted to three tokens: "k" is the text  *)
(* KEEP-ALIVE, "c" any other text, "n" a newline.  The bytes of an answer  *)
(* are pairs of the request's number and a position.  TLS, which only      *)
(* wraps both streams, is left out.                                        *)
(***************************************************************************)
EXTENDS Integers, Sequences, FiniteSets

CONSTANTS
  Sockets,     \* the TSocketEx objects that can be made
  NoSocket,    \* nobody listens
  Streams,     \* Streams[s]: the sequences of "k", "c", "n" its client may send
  BufferSize,  \* BufferSize
  Lengths      \* the lengths an answer may have

ASSUME NetAssumption ==
  /\ NoSocket \notin Sockets
  /\ BufferSize \in Nat \ {0} /\ Lengths \subseteq Nat \ {0}
  /\ Sockets # {} /\ \A s \in Sockets : Streams[s] \subseteq Seq({"k", "c", "n"})

VARIABLES
  nRefCount,   \* nRefCount[s]
  deleted,     \* deleted[s]: how often the object has been deleted
  vpClientSocks, \* m_vpClientSocks
  recv,        \* recv[s]: where the socket's chain of receive handlers is
  send,        \* send[s]: an async_send is under way
  releasing,   \* releasing[s]: send handlers that still have to Release
  input,       \* input[s]: what its client has still to send
  rawBuffer,   \* rawBuffer[s]: the bytes the receive handler has to look at
  recvBuffer,  \* recvBuffer[s]: the request received so far
  rest,        \* rest[s]: what sendData has still to queue
  keep,        \* keep[s]: bKeepAlive of the request being answered
  qSend,       \* qSend[s]: the buffers to be sent
  flying,      \* flying[s]: the bytes given to async_send
  closing,     \* closing[s]: bReadyToClose
  main,        \* stopServer: "run", "mark", "join", "done"
  received,    \* history: received[s], all bytes looked at so far
  requests,    \* history: requests[s], the requests executed
  answers,     \* history: answers[s], the answers taken by sendData
  wire,        \* history: wire[s], the bytes sent to the client
  cut          \* history: cut[s], a send failed or was cut short

life    == <<nRefCount, deleted, vpClientSocks>>
inward  == <<input, rawBuffer, recvBuffer, received, requests>>
answer  == <<rest, keep, answers>>
outward == <<qSend, flying, wire, cut>>
vars    == <<life, recv, send, releasing, inward, answer, outward, closing, main>>

Init ==
  /\ LET s == CHOOSE s \in Sockets : TRUE IN
       /\ nRefCount = [t \in Sockets |-> IF t = s THEN 1 ELSE 0]
       /\ recv = [t \in Sockets |-> IF t = s THEN "listening" ELSE "new"]
       /\ vpClientSocks = {s}
  /\ deleted = [s \in Sockets |-> 0]
  /\ send = [s \in Sockets |-> FALSE] /\ releasing = deleted
  /\ input \in {f \in [Sockets -> UNION {Streams[s] : s \in Sockets}] :
                   \A s \in Sockets : f[s] \in Streams[s]}
  /\ main = "run"
  /\ closing = [s \in Sockets |-> FALSE] /\ keep = closing /\ cut = closing
  /\ rawBuffer = [s \in Sockets |-> <<>>]
  /\ recvBuffer = rawBuffer /\ rest = rawBuffer /\ qSend = rawBuffer
  /\ flying = rawBuffer /\ received = rawBuffer /\ requests = rawBuffer
  /\ answers = rawBuffer /\ wire = rawBuffer

-----------------------------------------------------------------------------
(* Wrong on purpose: the socket stays in m_vpClientSocks.                  *)
ReleaseKeeps(s) ==
  /\ nRefCount' = [nRefCount EXCEPT ![s] = @ - 1]
  /\ IF nRefCount[s] <= 1
     THEN /\ main # "mark"
          /\ deleted' = [deleted EXCEPT ![s] = @ + 1]
          /\ UNCHANGED vpClientSocks
     ELSE UNCHANGED <<vpClientSocks, deleted>>

(* TSocketEx::Release.  The last one takes m_mutexClientSocks, which       *)
(* stopServer holds while it marks the sockets.                            *)
Release(s) ==
  /\ nRefCount' = [nRefCount EXCEPT ![s] = @ - 1]
  /\ IF nRefCount[s] <= 1
     THEN /\ main # "mark"
          /\ vpClientSocks' = vpClientSocks \ {s}
          /\ deleted' = [deleted EXCEPT ![s] = @ + 1]
     ELSE UNCHANGED <<vpClientSocks, deleted>>

(* m_ioService.stop(): no handler is started any more.                     *)
Running == main \in {"run", "mark"}

(* doAccept without an error: createNewSocket makes the next socket to     *)
(* listen (if the bound on objects allows), then the client is read.       *)
doAccept(s) ==
  /\ Running /\ main # "mark"
  /\ recv[s] = "listening"
  /\ LET new == {t \in Sockets : recv[t] = "new"}
         t   == CHOOSE t \in new : TRUE IN
     IF new = {}
     THEN /\ recv' = [recv EXCEPT ![s] = "armed"]
          /\ UNCHANGED life
     ELSE /\ recv' = [recv EXCEPT ![s] = "armed", ![t] = "listening"]
          /\ nRefCount' = [nRefCount EXCEPT ![t] = 1]
          /\ vpClientSocks' = vpClientSocks \union {t}
          /\ UNCHANGED deleted
  /\ UNCHANGED <<send, releasing, inward, answer, outward, closing, main>>

(* doAccept with an error: the socket goes, and nobody listens any more.   *)
doAcceptError(s) ==
  /\ Running
  /\ recv[s] = "listening"
  /\ recv' = [recv EXCEPT ![s] = "off"]
  /\ Release(s)
  /\ UNCHANGED <<send, releasing, inward, answer, outward, closing, main>>

-----------------------------------------------------------------------------
(* doRecv and receivedData *)

(* async_receive completes with some of what the client has sent.          *)
doRecv(s) ==
  /\ Running
  /\ recv[s] = "armed"
  /\ \E n \in 1 .. Len(input[s]) :
       /\ n <= BufferSize
       /\ rawBuffer' = [rawBuffer EXCEPT ![s] = SubSeq(input[s], 1, n)]
       /\ input' = [input EXCEPT ![s] = SubSeq(@, n + 1, Len(@))]
  /\ recv' = [recv EXCEPT ![s] = "scan"]
  /\ UNCHANGED <<life, send, releasing, recvBuffer, received, requests, answer,
                 outward, closing, main>>

(* async_receive fails: the client has closed the connection.              *)
doRecvError(s) ==
  /\ Running
  /\ recv[s] = "armed"
  /\ recv' = [recv EXCEPT ![s] = "off"]
  /\ Release(s)
  /\ UNCHANGED <<send, releasing, inward, answer, outward, closing, main>>

(* Wrong on purpose: a newline at the end of recvBuffer is forgotten.      *)
EndsForgotten(buf, bytes) ==
  {i \in 2 .. Len(bytes) : bytes[i] = "n" /\ bytes[i - 1] = "n"}

(* The places in the new bytes at which nLine reaches 2: at the start it   *)
(* is 1 if recvBuffer ends with a newline.                                 *)
Ends(buf, bytes) ==
  {i \in 1 .. Len(bytes) :
     /\ bytes[i] = "n"
     /\ IF i > 1 THEN bytes[i - 1] = "n" ELSE buf # <<>> /\ buf[Len(buf)] = "n"}

Least(S) == CHOOSE x \in S : \A y \in S : x <= y

(* A request without the newlines before it.                               *)
Strip(buf) ==
  LET fi == Least({i \in 1 .. Len(buf) + 1 : i > Len(buf) \/ buf[i] # "n"}) IN
  SubSeq(buf, fi, Len(buf))

(* CSessionManager::recvRequest answers bKeepAlive by the first line.      *)
KeepAlive(request) ==
  /\ request # <<>> /\ request[1] = "k"
  /\ Len(request) > 1 => request[2] = "n"

(* receivedData finds the end of the next request, has it executed and     *)
(* calls sendData with its answer, which is dropped if the connection is   *)
(* being closed.                                                           *)
ReceiveRequest(s) ==
  LET ends == Ends(recvBuffer[s], rawBuffer[s])
      i    == Least(ends)
      all  == recvBuffer[s] \o SubSeq(rawBuffer[s], 1, i)
      r    == Strip(SubSeq(all, 1, Len(all) - 2))
      k    == Len(requests[s]) + 1 IN
  /\ recv[s] = "scan"
  /\ ends # {}
  /\ requests'  = [requests EXCEPT ![s] = Append(@, r)]
  /\ received'  = [received EXCEPT ![s] = @ \o SubSeq(rawBuffer[s], 1, i)]
  /\ rawBuffer' = [rawBuffer EXCEPT ![s] = SubSeq(@, i + 1, Len(@))]
  /\ recvBuffer' = [recvBuffer EXCEPT ![s] = <<>>]
  /\ keep' = [keep EXCEPT ![s] = KeepAlive(r)]
  /\ \E len \in Lengths :
       LET bytes == [j \in 1 .. len |-> <<k, j>>] IN
       IF closing[s]
       THEN /\ recv' = [recv EXCEPT ![s] = "sent"]
            /\ UNCHANGED <<rest, answers>>
       ELSE /\ recv' = [recv EXCEPT ![s] = "post"]
            /\ rest' = [rest EXCEPT ![s] = bytes]
            /\ answers' = [answers EXCEPT ![s] = Append(@, bytes)]
  /\ UNCHANGED <<life, send, releasing, input, outward, closing, main>>

(* No further request is complete: the bytes are kept for the next time.   *)
ReceiveRest(s) ==
  /\ recv[s] = "scan"
  /\ Ends(recvBuffer[s], rawBuffer[s]) = {}
  /\ recvBuffer' = [recvBuffer EXCEPT ![s] = @ \o rawBuffer[s]]
  /\ received'   = [received EXCEPT ![s] = @ \o rawBuffer[s]]
  /\ rawBuffer'  = [rawBuffer EXCEPT ![s] = <<>>]
  /\ recv' = [recv EXCEPT ![s] = "end"]
  /\ UNCHANGED <<life, send, releasing, input, requests, answer, outward, closing, main>>

(* doRecv goes on reading, or gives up its reference.                      *)
EndRecv(s) ==
  /\ recv[s] = "end"
  /\ \/ ~closing[s] /\ recv' = [recv EXCEPT ![s] = "armed"] /\ UNCHANGED life
     \/  closing[s] /\ recv' = [recv EXCEPT ![s] = "off"] /\ Release(s)
  /\ UNCHANGED <<send, releasing, inward, answer, outward, closing, main>>

-----------------------------------------------------------------------------
(* sendData *)

(* postToSendQueue, under mutexSend: all that is left is queued; if the    *)
(* queue was empty the send has to be started.                             *)
postToSendQueue(s) ==
  /\ recv[s] = "post"
  /\ qSend' = [qSend EXCEPT ![s] = Append(@, rest[s])]
  /\ recv'  = [recv EXCEPT ![s] = IF qSend[s] = <<>> THEN "start" ELSE "next"]
  /\ UNCHANGED <<life, send, releasing, inward, answer, flying, wire, cut, closing, main>>

AtMost(n, bytes) == SubSeq(bytes, 1, IF Len(bytes) < n THEN Len(bytes) ELSE n)

(* Wrong on purpose: no reference is taken for the send.                   *)
StartSendUncounted(s) ==
  /\ recv[s] = "start"
  /\ recv' = [recv EXCEPT ![s] = "next"]
  /\ send'   = [send EXCEPT ![s] = TRUE]
  /\ flying' = [flying EXCEPT ![s] = AtMost(BufferSize, qSend[s][1])]
  /\ UNCHANGED <<life, releasing, inward, answer, qSend, wire, cut, closing, main>>

(* The first buffer is sent, nNow bytes of it, with a reference of its own.*)
StartSend(s) ==
  /\ recv[s] = "start"
  /\ recv' = [recv EXCEPT ![s] = "next"]
  /\ IF qSend[s] = <<>>
     THEN UNCHANGED <<nRefCount, send, flying>>
     ELSE /\ nRefCount' = [nRefCount EXCEPT ![s] = @ + 1]
          /\ send'   = [send EXCEPT ![s] = TRUE]
          /\ flying' = [flying EXCEPT ![s] = AtMost(BufferSize, qSend[s][1])]
  /\ UNCHANGED <<deleted, vpClientSocks, releasing, inward, answer, qSend, wire,
                 cut, closing, main>>

(* pData += nNow, nLen -= nNow, until nothing is left.                     *)
NextBlock(s) ==
  LET left == SubSeq(rest[s], BufferSize + 1, Len(rest[s])) IN
  /\ recv[s] = "next"
  /\ rest' = [rest EXCEPT ![s] = left]
  /\ recv' = [recv EXCEPT ![s] = IF left = <<>> THEN "sent" ELSE "post"]
  /\ UNCHANGED <<life, send, releasing, inward, keep, answers, outward, closing, main>>

(* setSocketClose after a request without KEEP-ALIVE, and on with the      *)
(* received bytes.                                                         *)
AfterAnswer(s) ==
  /\ recv[s] = "sent"
  /\ closing' = [closing EXCEPT ![s] = @ \/ ~keep[s]]
  /\ recv' = [recv EXCEPT ![s] = "scan"]
  /\ UNCHANGED <<life, send, releasing, inward, answer, outward, main>>

-----------------------------------------------------------------------------
(* doSend *)

(* Wrong on purpose: what has been queued meanwhile is left to the others. *)
doSendOnce(s) ==
  /\ Running /\ send[s]
  /\ wire'  = [wire EXCEPT ![s] = @ \o flying[s]]
  /\ qSend' = [qSend EXCEPT ![s] = SubSeq(@, 2, Len(@))]
  /\ send'   = [send EXCEPT ![s] = FALSE]
  /\ flying' = [flying EXCEPT ![s] = <<>>]
  /\ releasing' = [releasing EXCEPT ![s] = @ + 1]
  /\ UNCHANGED <<life, recv, inward, answer, cut, closing, main>>

(* Under mutexSend the buffer that was sent is removed and the next, the   *)
(* whole of it, sent.  async_send may have sent only a part; nLen is not   *)
(* looked at.                                                              *)
doSend(s) ==
  /\ Running /\ send[s]
  /\ \/ /\ wire' = [wire EXCEPT ![s] = @ \o flying[s]]
        /\ UNCHANGED cut
     \/ /\ Len(flying[s]) > 1
        /\ wire' = [wire EXCEPT ![s] = Append(@, flying[s][1])]
        /\ cut'  = [cut EXCEPT ![s] = TRUE]
  /\ LET q == SubSeq(qSend[s], 2, Len(qSend[s])) IN
     /\ qSend' = [qSend EXCEPT ![s] = q]
     /\ IF q # <<>>
        THEN /\ flying' = [flying EXCEPT ![s] = q[1]]
             /\ UNCHANGED <<send, releasing>>
        ELSE /\ flying' = [flying EXCEPT ![s] = <<>>]
             /\ send'   = [send EXCEPT ![s] = FALSE]
             /\ releasing' = [releasing EXCEPT ![s] = @ + 1]
  /\ UNCHANGED <<life, recv, inward, answer, closing, main>>

EndSend(s) ==
  /\ releasing[s] > 0
  /\ releasing' = [releasing EXCEPT ![s] = @ - 1]
  /\ Release(s)
  /\ UNCHANGED <<recv, send, inward, answer, outward, closing, main>>

(* The send failed: its buffer stays at the head of the queue, so nothing  *)
(* is ever sent to this client again.                                      *)
doSendError(s) ==
  /\ Running /\ send[s]
  /\ send'   = [send EXCEPT ![s] = FALSE]
  /\ flying' = [flying EXCEPT ![s] = <<>>]
  /\ cut'    = [cut EXCEPT ![s] = TRUE]
  /\ Release(s)
  /\ UNCHANGED <<recv, releasing, inward, answer, qSend, wire, closing, main>>

-----------------------------------------------------------------------------
(* stopServer: with m_mutexClientSocks held all sockets are marked, ...    *)
LockSocks == main = "run" /\ main' = "mark"
             /\ UNCHANGED <<life, recv, send, releasing, inward, answer, outward, closing>>

MarkSocket(s) ==
  /\ main = "mark"
  /\ s \in vpClientSocks /\ ~closing[s]
  /\ closing' = [closing EXCEPT ![s] = TRUE]
  /\ UNCHANGED <<life, recv, send, releasing, inward, answer, outward, main>>

(* Wrong on purpose: first the clients shall be gone.                      *)
StopServiceLate ==
  /\ main = "mark"
  /\ vpClientSocks = {}
  /\ main' = "join"
  /\ UNCHANGED <<life, recv, send, releasing, inward, answer, outward, closing>>

(* ... the io_service is stopped, ...                                      *)
StopService ==
  /\ main = "mark"
  /\ \A s \in vpClientSocks : closing[s]
  /\ main' = "join"
  /\ UNCHANGED <<life, recv, send, releasing, inward, answer, outward, closing>>

Handling(s) == recv[s] \in {"scan", "post", "start", "next", "sent", "end"}
               \/ releasing[s] > 0

(* ... the threads are joined and what is left of the sockets is deleted.  *)
DeleteSockets ==
  /\ main = "join"
  /\ \A s \in Sockets : ~Handling(s)
  /\ main' = "done"
  /\ deleted' = [s \in Sockets |-> deleted[s] + IF s \in vpClientSocks THEN 1 ELSE 0]
  /\ UNCHANGED <<nRefCount, vpClientSocks, recv, send, releasing, inward, answer,
                 outward, closing>>

stopServer == \/ LockSocks \/ StopService \/ DeleteSockets
              \/ \E s \in Sockets : MarkSocket(s)

Handlers(s) == \/ ReceiveRequest(s) \/ ReceiveRest(s) \/ EndRecv(s)
               \/ postToSendQueue(s) \/ StartSend(s) \/ NextBlock(s) \/ AfterAnswer(s)
               \/ EndSend(s)

Next == \/ stopServer
        \/ \E s \in Sockets : \/ doAccept(s) \/ doAcceptError(s)
                              \/ doRecv(s) \/ doRecvError(s)
                              \/ doSend(s) \/ doSendError(s)
                              \/ Handlers(s)

Spec == Init /\ [][Next]_vars

(* Handlers that have been started run, sends that succeed complete, and   *)
(* stopServer goes on once it has been called.                             *)
Fairness == /\ WF_vars(stopServer /\ main # "run")
            /\ \A s \in Sockets : /\ WF_vars(Handlers(s))
                                  /\ WF_vars(doSend(s))
FairSpec == Spec /\ Fairness

-----------------------------------------------------------------------------
Bytes == {"k", "c", "n"}

TypeOK ==
  /\ nRefCount \in [Sockets -> Int] /\ deleted \in [Sockets -> Nat]
  /\ vpClientSocks \subseteq Sockets
  /\ recv \in [Sockets -> {"new", "listening", "armed", "scan", "post", "start",
                           "next", "sent", "end", "off"}]
  /\ send \in [Sockets -> BOOLEAN] /\ releasing \in [Sockets -> Nat]
  /\ \A s \in Sockets : /\ \A x \in {input[s], rawBuffer[s], recvBuffer[s], received[s]} :
                             \A i \in DOMAIN x : x[i] \in Bytes
                        /\ Len(rawBuffer[s]) <= BufferSize
  /\ closing \in [Sockets -> BOOLEAN] /\ keep \in [Sockets -> BOOLEAN]
  /\ cut \in [Sockets -> BOOLEAN] /\ main \in {"run", "mark", "join", "done"}

(* While a handler or a pending operation of a socket exists the object    *)
(* has not been deleted: no handler ever runs on a freed TSocketEx, also   *)
(* while the server is being stopped.                                      *)
NoUseAfterDelete ==
  \A s \in Sockets : Handling(s) \/ (Running /\ send[s]) => deleted[s] = 0

(* Each socket is deleted at most once, by Release or by stopServer, never *)
(* before its last use, and once neither chain exists any more it has      *)
(* been.                                                                   *)
DeletedOnce ==
  /\ NoUseAfterDelete
  /\ \A s \in Sockets :
       /\ deleted[s] <= 1
       /\ recv[s] = "off" /\ ~send[s] /\ releasing[s] = 0 => deleted[s] = 1
       /\ main = "done" /\ recv[s] # "new" => deleted[s] = 1

(* The number of consecutive newlines that end at position j.              *)
NewlinesTo(bytes, j) ==
  j - Least({i \in 0 .. j : \A l \in i + 1 .. j : bytes[l] = "n"})

(* A request ends at every second newline of a run of newlines.            *)
Boundaries(bytes) ==
  {j \in 1 .. Len(bytes) : /\ NewlinesTo(bytes, j) > 0
                           /\ NewlinesTo(bytes, j) % 2 = 0}

(* The bytes are cut into requests at every empty line and nowhere else,   *)
(* however the network cut them into pieces.                               *)
FramingIsRight ==
  \A s \in Sockets :
    LET ends == Boundaries(received[s])
        upTo(j) == Cardinality({i \in ends : i <= j})
        before(j) == Least({i \in 0 .. j : \A l \in ends : l < j => l <= i}) IN
    /\ Len(requests[s]) = Cardinality(ends)
    /\ \A j \in ends :
         requests[s][upTo(j)] = Strip(SubSeq(received[s], before(j) + 1, j - 2))

(* What has been answered, as one stream of bytes: <<k, i>> comes before   *)
(* <<l, j>> when k < l, or k = l and i < j.                                *)
Precedes(a, b) == a[1] < b[1] \/ (a[1] = b[1] /\ a[2] < b[2])
Answered(s) == UNION {{answers[s][k][i] : i \in DOMAIN answers[s][k]}
                        : k \in DOMAIN answers[s]}
Sent(s) == {wire[s][i] : i \in DOMAIN wire[s]}

(* As long as no send fails or is cut short, no byte of an answer is sent  *)
(* before all bytes that precede it, and when nothing is queued any more,  *)
(* in particular when the socket is deleted after the last answer, all of  *)
(* them have been sent.  If moreover every answer fits into one buffer,    *)
(* nothing is sent twice; of a longer one the end is, since it is queued   *)
(* again with every block.                                                 *)
NothingIsLost ==
  \A s \in Sockets : ~cut[s] =>
    /\ \A i \in DOMAIN wire[s] : \A b \in Answered(s) :
         Precedes(b, wire[s][i]) => \E j \in 1 .. i : wire[s][j] = b
    /\ (qSend[s] = <<>> /\ rest[s] = <<>>) \/ (deleted[s] = 1 /\ main = "run")
         => Answered(s) = Sent(s)
    /\ (\A k \in DOMAIN answers[s] : Len(answers[s][k]) <= BufferSize)
         => \A i, j \in DOMAIN wire[s] : i # j => wire[s][i] # wire[s][j]

(* A queued answer does not wait for ever: unless a send has failed the    *)
(* queue of every socket is emptied, or the server is stopped.             *)
QueueIsEmptied ==
  \A s \in Sockets : qSend[s] # <<>> ~> (qSend[s] = <<>> \/ cut[s] \/ ~Running)

(* stopServer comes to its end, although the last Release of a socket and  *)
(* the marking of the sockets need the same mutex.                         *)
StopEnds == main = "mark" ~> main = "done"
=============================================================================

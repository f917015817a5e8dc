----------------------------- MODULE NetClient -----------------------------
(***************************************************************************)
(* The network client (netclient.cpp): sendRequest, which every object of  *)
(* the client backend calls, on top of one socket that two threads use.    *)
(*                                                                         *)
(* The calling thread connects, sends a request and waits in recvData; the *)
(* worker thread runs doRecv, which appends what arrives to strRecv, or    *)
(* counts an error in recvError and closes the socket.  Both use the one   *)
(* pSocket, so a handler that belongs to an old connection acts on the new *)
(* one.  The server and the network are the environment: the connection    *)
(* may break, an answer may be late and comes in pieces, and the server    *)
(* may forget its sessions.                                                *)
(*                                                                         *)
(* An answer is three tokens: its body <<kind, k>>, where k is the call it *)
(* answers or the session id it brings, and the two newlines that end it.  *)
(***************************************************************************)
EXTENDS Integers, Sequences

CONSTANTS
  Modes,      \* the settings bKeepAlive and bTLS to consider
  MaxCalls,   \* bound: calls of sendRequest
  MaxExpiry,  \* bound: how often the server forgets the sessions
  MaxFailed,  \* bound: handlers of old connections when a new one is opened
  Faults      \* a subset of {"timeout", "lost", "send"}

ASSUME NetClientAssumption ==
  /\ Modes \subseteq [keepAlive : BOOLEAN, tls : BOOLEAN]
  /\ {MaxCalls, MaxExpiry, MaxFailed} \subseteq Nat
  /\ Faults \subseteq {"timeout", "lost", "send"}

VARIABLES
  mode,      \* g_configClient
  pc,        \* where the calling thread is
  call,      \* [k, hello, again, resend]: the call and the stage it is in
  sessionID, \* sessionID; 0: none
  strBuffer, \* the bytes recvData has read so far
  result,    \* history: [k, ok, answer], what the last call returned, its bodies
  open,      \* pSocket->is_open(), also after connect has failed
  connected, \* pSocket is open, and connect has succeeded
  tlsClient, \* pTLSClient # nullptr
  strRecv,   \* the bytes received and not yet read
  recvError, \* recvError
  armed,     \* async_receive operations pending on the open socket
  failed,    \* receive operations that have failed, with doRecv still to run
  worker,    \* the worker thread: "idle", or "rearm" at the end of doRecv
  requests,  \* the requests on their way to the server
  down,      \* the bytes on their way to the client
  serverOpen, \* the server's end of the current connection is open
  valid,     \* the ids of the sessions the server knows
  lastID,    \* the last id it has given out
  expired,   \* how often it has forgotten them
  executed,  \* history: executed[k], how often call k was carried out
  disturbed  \* history: the network or the server's answer time interfered

caller == <<pc, call, sessionID, strBuffer, result>>
buffers == <<strRecv, recvError>>
socket == <<open, connected, tlsClient, armed, failed>>
stream == <<requests, down, serverOpen>>
serverState == <<valid, lastID, expired, executed>>
netVars == <<mode, caller, buffers, socket, worker, stream, serverState, disturbed>>

NoCall == [k |-> 0, hello |-> FALSE, again |-> FALSE, resend |-> FALSE]

NetInit ==
  /\ mode \in Modes
  /\ pc = "off" /\ call = NoCall /\ sessionID = 0 /\ strBuffer = <<>>
  /\ result = [k |-> 0, ok |-> FALSE, answer |-> {}]
  /\ open = FALSE /\ connected = FALSE /\ tlsClient = FALSE
  /\ strRecv = <<>> /\ recvError = 0
  /\ armed = 0 /\ failed = 0 /\ worker = "idle"
  /\ requests = <<>> /\ down = <<>> /\ serverOpen = FALSE
  /\ valid = {} /\ lastID = 0 /\ expired = 0
  /\ executed = [k \in 1 .. MaxCalls |-> 0]
  /\ disturbed = FALSE

(* The worker is started; without an address, or a CA, that is all.        *)
initNetClient ==
  /\ pc = "off"
  /\ pc' \in {"idle", "failed"}
  /\ UNCHANGED <<mode, call, sessionID, strBuffer, result, buffers, socket, worker,
                 stream, serverState, disturbed>>

-----------------------------------------------------------------------------
(* close() of the socket: the pending receives fail, their handlers run    *)
(* later; the server may still execute what has been sent, but no answer   *)
(* comes back.                                                             *)
Abandoned == [i \in DOMAIN requests |-> [requests[i] EXCEPT !.live = FALSE]]

Close ==
  /\ open' = FALSE /\ connected' = FALSE
  /\ failed' = failed + armed /\ armed' = 0
  /\ requests' = Abandoned /\ down' = <<>> /\ serverOpen' = FALSE

(* Not while a request is under way.  The shutdown of a socket that is not *)
(* connected throws.                                                       *)
cleanupNetClient ==
  /\ pc = "idle"
  /\ pc' = "gone"
  /\ IF open /\ ~connected
     THEN UNCHANGED <<socket, stream>>
     ELSE Close /\ tlsClient' = (tlsClient /\ ~open)
  /\ UNCHANGED <<mode, call, sessionID, strBuffer, result, buffers, worker, serverState, disturbed>>

(* A new call: without a session the first thing is HELLO.                 *)
sendRequest ==
  /\ pc = "idle" /\ result.k < MaxCalls
  /\ pc' = "post"
  /\ call' = [k |-> result.k + 1, hello |-> sessionID = 0, again |-> FALSE,
              resend |-> FALSE]
  /\ UNCHANGED <<mode, sessionID, strBuffer, result, buffers, socket, worker, stream,
                 serverState, disturbed>>

Return(ok, answer) ==
  /\ pc' = "idle"
  /\ call' = NoCall /\ strBuffer' = <<>>
  /\ result' = [k |-> call.k, ok |-> ok, answer |-> answer]

(* The next postData of the same call.                                     *)
Post(hello, again) ==
  /\ pc' = "post"
  /\ call' = [call EXCEPT !.hello = hello, !.again = again, !.resend = FALSE]
  /\ strBuffer' = <<>>
  /\ UNCHANGED result

(* postData has failed, and the call with it; but when the session is      *)
(* renewed the result of getSession is not looked at.                      *)
GiveUp == IF call.hello /\ call.again THEN Post(FALSE, TRUE) ELSE Return(FALSE, {})

-----------------------------------------------------------------------------
(* postData and connectToServer *)

PostOpen ==
  /\ pc = "post" /\ open
  /\ pc' = "send"
  /\ UNCHANGED <<mode, call, sessionID, strBuffer, result, buffers, socket, worker,
                 stream, serverState, disturbed>>

(* recvError is reset.  connect opens the socket first, and it stays open  *)
(* when it cannot be connected: the next postData takes it for a           *)
(* connection.                                                             *)
connectToServer ==
  /\ pc = "post" /\ ~open /\ failed <= MaxFailed
  /\ recvError' = 0
  /\ \/ /\ pc' = IF mode.tls THEN "handshake" ELSE "send"
        /\ connected' = TRUE /\ armed' = 1 /\ serverOpen' = TRUE
        /\ UNCHANGED <<call, strBuffer, result, disturbed>>
     \/ /\ "lost" \in Faults /\ disturbed' = TRUE
        /\ GiveUp
        /\ UNCHANGED <<connected, armed, serverOpen>>
  /\ open' = TRUE
  /\ UNCHANGED <<mode, sessionID, strRecv, tlsClient, failed, worker, requests, down,
                 serverState>>

(* The handshake needs the server and doRecv.  When the connection breaks  *)
(* nobody wakes the caller up, and it waits without a limit.               *)
initTLSSession ==
  /\ pc = "handshake"
  /\ \/ /\ open /\ serverOpen /\ armed > 0
        /\ pc' = "send"
        /\ UNCHANGED <<call, strBuffer, result, open, connected, armed, failed, stream,
                       disturbed>>
     \/ /\ open /\ "lost" \in Faults /\ disturbed' = TRUE
        /\ Close
        /\ GiveUp
  /\ tlsClient' = TRUE
  /\ UNCHANGED <<mode, sessionID, buffers, worker, serverState>>

(* The request is written to the socket, whoever has opened or closed it   *)
(* meanwhile.                                                              *)
sendData ==
  /\ pc = "send" /\ connected
  /\ pc' = "recv"
  /\ requests' = Append(requests, [k |-> call.k, hello |-> call.hello,
                                   id |-> sessionID, live |-> serverOpen])
  /\ UNCHANGED <<mode, call, sessionID, strBuffer, result, buffers, socket, worker,
                 down, serverOpen, serverState, disturbed>>

(* Writing fails.  Without TLS the exception leaves sendRequest, and the   *)
(* socket stays as it is; with it the socket is closed and postData tries  *)
(* once more, but without a TLS session the assertion in sendData fails.   *)
sendDataFails ==
  /\ pc = "send"
  /\ \/ ~connected /\ UNCHANGED disturbed
     \/ "send" \in Faults /\ disturbed' = TRUE
  /\ \/ /\ ~mode.tls
        /\ Return(FALSE, {})
        /\ UNCHANGED <<socket, stream>>
     \/ /\ mode.tls /\ ~tlsClient
        /\ pc' = "crashed"
        /\ UNCHANGED <<call, strBuffer, result, socket, stream>>
     \/ /\ mode.tls /\ tlsClient
        /\ Close /\ UNCHANGED tlsClient
        /\ IF call.resend
           THEN GiveUp
           ELSE /\ pc' = "post"
                /\ call' = [call EXCEPT !.resend = TRUE]
                /\ UNCHANGED <<strBuffer, result>>
  /\ UNCHANGED <<mode, sessionID, buffers, worker, serverState>>

-----------------------------------------------------------------------------
(* recvData *)

(* Where there is something else than a newline.                            *)
Bodies(bytes) == {i \in DOMAIN bytes : bytes[i] # <<"n">>}

(* The places where cntLine reaches 2; it starts anew with every piece.    *)
Ends(bytes) == {i \in 2 .. Len(bytes) : bytes[i] = <<"n">> /\ bytes[i - 1] = <<"n">>}

(* Wrong on purpose: whatever has come is taken for the whole answer.      *)
recvDataSome ==
  /\ pc = "recv"
  /\ recvError = 0 /\ strRecv # <<>>
  /\ pc' = "answered"
  /\ strBuffer' = strBuffer \o strRecv
  /\ strRecv' = <<>>
  /\ UNCHANGED <<mode, call, sessionID, result, recvError, socket, worker, stream,
                 serverState, disturbed>>

(* Something is there: an error has precedence over a complete answer.     *)
recvData ==
  /\ pc = "recv"
  /\ IF recvError > 0
     THEN /\ recvError' = recvError - 1
          /\ pc' = "fail"
          /\ UNCHANGED <<strRecv, strBuffer>>
     ELSE /\ strRecv # <<>>
          /\ UNCHANGED recvError
          /\ \/ /\ Ends(strRecv) = {}
                /\ strBuffer' = strBuffer \o strRecv
                /\ strRecv' = <<>>
                /\ UNCHANGED pc
             \/ \E i \in Ends(strRecv) :
                  /\ \A j \in Ends(strRecv) : i <= j
                  /\ strBuffer' = strBuffer \o SubSeq(strRecv, 1, i)
                  /\ strRecv' = SubSeq(strRecv, i + 1, Len(strRecv))
                  /\ pc' = "answered"
  /\ UNCHANGED <<mode, call, sessionID, result, socket, worker, stream, serverState, disturbed>>

OnItsWay == down # <<>> \/ ~serverOpen \/ \E i \in DOMAIN requests : requests[i].live

(* Wrong on purpose: no limit.                                             *)
TimeoutNever == FALSE /\ UNCHANGED netVars

(* Nothing has come for 20 seconds.                                        *)
Timeout ==
  /\ pc = "recv" /\ recvError = 0 /\ strRecv = <<>>
  /\ OnItsWay => "timeout" \in Faults
  /\ pc' = "fail"
  /\ disturbed' = TRUE
  /\ UNCHANGED <<mode, call, sessionID, strBuffer, result, buffers, socket, worker,
                 stream, serverState>>

(* Wrong on purpose: the request is sent once more.                        *)
RecvFailedRetry ==
  /\ pc = "fail"
  /\ Close /\ UNCHANGED tlsClient
  /\ IF call.resend
     THEN GiveUp
     ELSE /\ pc' = "post" /\ call' = [call EXCEPT !.resend = TRUE]
          /\ strBuffer' = <<>> /\ UNCHANGED result
  /\ UNCHANGED <<mode, sessionID, buffers, worker, serverState, disturbed>>

(* Back in postData: the socket is closed, the request not repeated.       *)
RecvFailed ==
  /\ pc = "fail"
  /\ Close /\ UNCHANGED tlsClient
  /\ GiveUp
  /\ UNCHANGED <<mode, sessionID, buffers, worker, serverState, disturbed>>

(* Without KEEP-ALIVE the socket is shut down, which throws if doRecv has  *)
(* closed it already.                                                      *)
Answered ==
  /\ pc = "answered"
  /\ IF mode.keepAlive
     THEN /\ pc' = "evaluate" /\ UNCHANGED <<call, strBuffer, result, socket, stream>>
     ELSE IF open
     THEN /\ pc' = "evaluate" /\ Close /\ tlsClient' = FALSE
          /\ UNCHANGED <<call, strBuffer, result>>
     ELSE /\ Return(FALSE, {}) /\ tlsClient' = FALSE
          /\ UNCHANGED <<open, connected, armed, failed, stream>>
  /\ UNCHANGED <<mode, sessionID, buffers, worker, serverState, disturbed>>

(* verifySession: the answer is one id.                                    *)
Session == {i \in Bodies(strBuffer) : Bodies(strBuffer) = {i} /\ strBuffer[i][1] = "id"}

getSession ==
  /\ pc = "evaluate" /\ call.hello
  /\ \/ \E i \in Session : sessionID' = strBuffer[i][2] /\ Post(FALSE, call.again)
     \/ /\ Session = {} /\ sessionID' = 0
        /\ IF call.again THEN Post(FALSE, TRUE) ELSE Return(FALSE, {})
  /\ UNCHANGED <<mode, buffers, socket, worker, stream, serverState, disturbed>>

(* The return code, the first line of the answer, is kind.                 *)
Retcode(kind) == \E i \in Bodies(strBuffer) : /\ strBuffer[i][1] = kind
                                             /\ \A j \in Bodies(strBuffer) : i <= j

(* The end of sendRequest: OK, or once a new session, or failure.          *)
EndRequest ==
  /\ pc = "evaluate" /\ ~call.hello
  /\ \/ /\ Retcode("ok") /\ UNCHANGED sessionID
        /\ Return(TRUE, {strBuffer[i] : i \in Bodies(strBuffer)})
     \/ /\ Retcode("inv") /\ sessionID' = 0
        /\ IF call.again THEN Return(FALSE, {}) ELSE Post(TRUE, TRUE)
     \/ ~Retcode("ok") /\ ~Retcode("inv") /\ Return(FALSE, {}) /\ UNCHANGED sessionID
  /\ UNCHANGED <<mode, buffers, socket, worker, stream, serverState, disturbed>>

-----------------------------------------------------------------------------
(* The worker thread: doRecv *)

WorkerRuns == worker = "idle" /\ pc \notin {"off", "gone", "crashed"}

(* Some bytes have come.                                                   *)
doRecv ==
  /\ WorkerRuns /\ armed > 0
  /\ armed' = armed - 1 /\ worker' = "rearm"
  /\ \E n \in 1 .. Len(down) :
       /\ strRecv' = strRecv \o SubSeq(down, 1, n)
       /\ down' = SubSeq(down, n + 1, Len(down))
       /\ disturbed' = (disturbed \/ (n < Len(down) /\ down[n] = down[n + 1]))
  /\ UNCHANGED <<mode, caller, recvError, open, connected, tlsClient, failed, requests,
                 serverOpen, serverState>>

(* At its end doRecv receives again, from whatever pSocket is now.         *)
Rearm ==
  /\ worker = "rearm" /\ pc \notin {"gone", "crashed"}
  /\ worker' = "idle"
  /\ IF connected THEN armed' = armed + 1 /\ UNCHANGED failed
                  ELSE failed' = failed + 1 /\ UNCHANGED armed
  /\ UNCHANGED <<mode, caller, buffers, open, connected, tlsClient, stream, serverState,
                 disturbed>>

(* An error: a receive of a closed socket, or the server has closed the    *)
(* connection.  pSocket is closed, whichever connection it is by now.      *)
doRecvError ==
  /\ WorkerRuns
  /\ recvError' = recvError + 1
  /\ open' = FALSE /\ connected' = FALSE /\ armed' = 0
  /\ requests' = Abandoned /\ down' = <<>> /\ serverOpen' = FALSE
  /\ \/ failed > 0 /\ failed' = failed - 1 + armed
     \/ armed > 0 /\ down = <<>> /\ ~serverOpen /\ failed' = failed + armed - 1
  /\ UNCHANGED <<mode, caller, strRecv, tlsClient, worker, serverState, disturbed>>

-----------------------------------------------------------------------------
(* The server and the network *)

(* The answer to a request; without KEEP-ALIVE the server then closes.     *)
Serve ==
  /\ requests # <<>>
  /\ LET r == Head(requests)
         body == IF r.hello THEN <<"id", lastID + 1>>
                 ELSE IF r.id \in valid THEN <<"ok", r.k>> ELSE <<"inv", 0>> IN
     /\ IF r.hello
        THEN /\ lastID' = lastID + 1 /\ valid' = valid \union {lastID + 1}
             /\ UNCHANGED executed
        ELSE /\ executed' = [executed EXCEPT ![r.k] = @ + IF r.id \in valid THEN 1 ELSE 0]
             /\ UNCHANGED <<valid, lastID>>
     /\ IF r.live
        THEN /\ down' = down \o <<body, <<"n">>, <<"n">>>>
             /\ serverOpen' = (serverOpen /\ mode.keepAlive)
        ELSE UNCHANGED <<down, serverOpen>>
  /\ requests' = Tail(requests)
  /\ UNCHANGED <<mode, caller, buffers, socket, worker, expired, disturbed>>

SessionsExpire ==
  /\ valid # {} /\ expired < MaxExpiry
  /\ valid' = {} /\ expired' = expired + 1
  /\ UNCHANGED <<mode, caller, buffers, socket, worker, stream, lastID, executed, disturbed>>

Lost ==
  /\ "lost" \in Faults /\ serverOpen
  /\ serverOpen' = FALSE /\ down' = <<>> /\ disturbed' = TRUE
  /\ \/ requests' = Abandoned
     \/ requests' = <<>>
  /\ UNCHANGED <<mode, caller, buffers, socket, worker, serverState>>

-----------------------------------------------------------------------------
Caller == \/ PostOpen \/ connectToServer \/ initTLSSession \/ sendData \/ sendDataFails
          \/ recvData \/ RecvFailed \/ Answered \/ getSession \/ EndRequest
Worker == doRecv \/ Rearm \/ doRecvError

NetNext == \/ initNetClient \/ cleanupNetClient \/ sendRequest
           \/ Caller \/ Timeout \/ Worker
           \/ Serve \/ SessionsExpire \/ Lost

NetSpec == NetInit /\ [][NetNext]_netVars

(* Both threads run, the server answers what it gets and the wait in       *)
(* recvData ends.                                                          *)
NetFairness == /\ WF_netVars(Caller) /\ WF_netVars(Worker)
               /\ WF_netVars(Serve) /\ WF_netVars(Timeout)
NetFairSpec == NetSpec /\ NetFairness

-----------------------------------------------------------------------------
Tokens == {<<"n">>} \union ({"id", "ok", "inv"} \X Nat)

NetTypeOK ==
  /\ mode \in Modes
  /\ pc \in {"off", "failed", "gone", "crashed", "idle", "post", "handshake", "send", "recv",
             "fail", "answered", "evaluate"}
  /\ call \in [k : 0 .. MaxCalls, hello : BOOLEAN, again : BOOLEAN, resend : BOOLEAN]
  /\ sessionID \in 0 .. lastID /\ valid \subseteq 1 .. lastID
  /\ \A x \in {strRecv, strBuffer, down} : \A i \in DOMAIN x : x[i] \in Tokens
  /\ open \in BOOLEAN /\ serverOpen \in BOOLEAN /\ disturbed \in BOOLEAN
  /\ connected \in BOOLEAN /\ tlsClient \in BOOLEAN
  /\ (serverOpen \/ armed > 0 => connected) /\ (connected => open)
  /\ recvError \in Nat /\ armed \in Nat /\ failed \in Nat /\ worker \in {"idle", "rearm"}
  /\ executed \in [1 .. MaxCalls -> Nat] /\ expired \in 0 .. MaxExpiry

Own(k) == {<<"ok", k>>}

(* A call that succeeds returns the answer to its own request.             *)
AnswersMatch == result.ok => result.answer = Own(result.k)

(* With KEEP-ALIVE, and as long as the network behaves (no connection      *)
(* breaks, no answer is late or cut between its two last newlines), every  *)
(* call succeeds with its own answer and has been executed once; also when *)
(* the server has forgotten the session in the middle of it.               *)
KeptAliveIsExact ==
  mode.keepAlive /\ ~disturbed /\ result.k > 0 /\ expired <= 1
    => /\ result.ok /\ result.answer = Own(result.k)
       /\ executed[result.k] = 1

(* No request is executed twice, although a failed one is sent once more   *)
(* (with TLS) and so is one whose session was not known, as long as the    *)
(* server forgets no session or the network behaves.  (A left-over answer  *)
(* INVALID_SESSION makes the client repeat what has been executed.)        *)
ExecutedAtMostOnce ==
  expired = 0 \/ (mode.keepAlive /\ ~disturbed) => \A k \in 1 .. MaxCalls : executed[k] <= 1

(* Every call returns.  With TLS that needs a connection that lasts: the   *)
(* handshake is waited for without a limit.                                *)
CallReturns ==
  pc = "post" ~> (pc = "idle" \/ (mode.tls /\ (disturbed \/ ~mode.keepAlive)))
=============================================================================

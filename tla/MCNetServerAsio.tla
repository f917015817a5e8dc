-------------------------- MODULE MCNetServerAsio --------------------------
(***************************************************************************)
(* What the clients of NetServerAsio send in the checks: a request with    *)
(* KEEP-ALIVE and one without, with superfluous newlines, and both in the  *)
(* wrong order, so that the second comes after the connection is closed.   *)
(***************************************************************************)
EXTENDS NetServerAsio

KeptThenClosed == <<"k", "n", "c", "n", "n", "n", "c", "n", "n">>
ClosedThenKept == <<"c", "n", "n", "k", "n", "n">>

(* The first client sends one of them; the second one only connects.       *)
MCStreams == [s \in Sockets |->
                IF s = CHOOSE t \in Sockets : TRUE
                THEN {KeptThenClosed, ClosedThenKept} ELSE {<<>>}]
=============================================================================

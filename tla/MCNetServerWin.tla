--------------------------- MODULE MCNetServerWin ---------------------------
(***************************************************************************)
(* What the clients of NetServerWin send in the checks.                    *)
(***************************************************************************)
EXTENDS NetServerWin, TLC

Kept(n)   == [keep |-> TRUE, blocks |-> n]
Closed(n) == [keep |-> FALSE, blocks |-> n]
First     == CHOOSE c \in Clients : TRUE

(* One client talks, keeping the connection or not; another only connects. *)
OneTalks == [c \in Clients |->
               IF c = First THEN {<<Kept(1), Closed(1)>>, <<Closed(3)>>} ELSE {<<>>}]

(* Each client sends one request.                                          *)
BothTalk == [c \in Clients |-> {<<Closed(1)>>}]

WorkerSymmetry == Permutations(Workers)
=============================================================================

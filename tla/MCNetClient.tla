---------------------------- MODULE MCNetClient ----------------------------
(***************************************************************************)
(* The settings of the client for the checks of NetClient.                 *)
(***************************************************************************)
EXTENDS NetClient

AllModes == [keepAlive : BOOLEAN, tls : BOOLEAN]
OneShot  == {[keepAlive |-> FALSE, tls |-> FALSE]}
=============================================================================

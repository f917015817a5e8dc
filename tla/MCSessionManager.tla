-------------------------- MODULE MCSessionManager --------------------------
(***************************************************************************)
(* Values for the constants of SessionManager.                             *)
(***************************************************************************)
EXTENDS SessionManager, TLC

(* Worker threads, allocated objects, session ids and client addresses are *)
(* interchangeable.                                                        *)
Symmetry == Permutations(Workers) \union Permutations(Objs)
              \union Permutations(Ids) \union Permutations(IPs)
=============================================================================

-------------------------- MODULE MCConnectionPool --------------------------
(***************************************************************************)
(* TLC model of the connection pool: threads and connections are           *)
(* interchangeable, nothing in the pool compares them.                     *)
(***************************************************************************)
EXTENDS ConnectionPool, TLC

Interchangeable == Permutations(Workers) \union Permutations(Conns)

(* What the pool would promise if it had a mutex: no connection is ever    *)
(* used by two requests (getConnection, releaseConnection).                *)
NeverShared == \A v, w \in Workers : v # w => held[v] \cap held[w] = {}

=============================================================================

--------------------------- MODULE MCCirculation ---------------------------
(***************************************************************************)
(* Values for the constants of Circulation.  A reader logs in at level 0,  *)
(* a librarian at level 1, an administrator at level 2 (loadDefaultConfig).*)
(***************************************************************************)
EXTENDS Circulation, TLC

(* -1 stands for the documented "all", 0 and 2 for the boundaries of the   *)
(* checks on the number of copies.                                         *)
AnyNumber == {-1, 0, 1, 2}

MCSessions == {"reader1", "reader2", "desk"}

(* Every session belongs to a user of its own.                             *)
OwnUsers == [s \in Sessions |->
  CASE s = "reader1" -> "ann" [] s = "reader2" -> "bob" [] s = "desk" -> "eve"]

(* Ann has logged in twice.                                                *)
SharedUser == [s \in Sessions |-> IF s = "desk" THEN "eve" ELSE "ann"]

Librarian     == [s \in Sessions |-> IF s = "desk" THEN 1 ELSE 0]
Administrator == [s \in Sessions |-> IF s = "desk" THEN 2 ELSE 0]

Twice == [s \in Sessions |-> 2]
DeskOnce == [s \in Sessions |-> IF s = "desk" THEN 1 ELSE 2]

(* The worker threads are interchangeable.                                 *)
WorkerSymmetry == Permutations(Workers)

(* Statements that may throw: any.                                         *)
Everything == PCs
=============================================================================

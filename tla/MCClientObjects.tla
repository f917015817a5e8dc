-------------------------- MODULE MCClientObjects --------------------------
(***************************************************************************)
(* An instance of ClientObjects: what the server takes of the info of the  *)
(* first user may change, and what it keeps of the second user's, and the  *)
(* second user's level.                                                    *)
(***************************************************************************)
EXTENDS ClientObjects, TLC

MCTaken  == [i \in Ids |-> IF i = 1 THEN {"a", "b"} ELSE {"a"}]
MCKept   == [i \in Ids |-> IF i = 2 THEN {"k", "l"} ELSE {"k"}]
MCLevels == [u \in Users |-> IF u = 2 THEN {0, 1} ELSE {0}]

(* The objects are interchangeable.                                        *)
ObjectSymmetry == Permutations(Objects)
=============================================================================

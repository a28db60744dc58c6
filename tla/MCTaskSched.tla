---------------------------- MODULE MCTaskSched ----------------------------
(* Instances of TaskSched for TLC. *)
EXTENDS TaskSched, TLC

(* Tasks other than the bootstrap task are interchangeable.    *)
Symmetry == Permutations(Tasks \ {Boot})
=============================================================================

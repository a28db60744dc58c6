---------------------------- MODULE MCRemoteOps ----------------------------
(* Instances of RemoteOps for TLC. *)
EXTENDS RemoteOps

CONSTANTS A, B, a1, a2, b1, b2, ob

MCHome == [x \in Tasks \cup Objects |-> IF x \in {a1, a2} THEN A ELSE B]
MCAsks == [c \in Cpus |-> IF c = A THEN Kinds \ {"load", "query"} ELSE {"query", "kill"}]
MCBoot == [c \in Cpus |-> IF c = A THEN a1 ELSE b1]
=============================================================================

----------------------------- MODULE MCCrossbar -----------------------------
(* Instances of Crossbar for TLC. *)
EXTENDS Crossbar

CONSTANTS c1, c2, c3, p1, p2

(* The third client asks for the number of the first. *)
MCPid == [c \in Clients |-> IF c = c2 THEN p2 ELSE p1]
=============================================================================

---------------------------- MODULE MCSupervisor ----------------------------
(* Instances of Supervisor for TLC. *)
EXTENDS Supervisor, TLC

(* A window manager leaves the placement open or names a processor, a      *)
(* login shell keeps to its own, and tasks leave it open.                  *)
MCAsks == [b \in Clients |-> IF b \in Terminals THEN {AnyPid, 0}
                             ELSE IF b \in Cpus THEN {LocalPid} ELSE {AnyPid}]
MCAnyAsks == [b \in Clients |-> {AnyPid}]
Symmetric == Permutations(Requests)
=============================================================================

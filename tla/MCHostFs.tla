------------------------------ MODULE MCHostFs ------------------------------
(* Instances of HostFs for TLC.                                             *)
EXTENDS HostFs, TLC

CONSTANTS pa, pb, ca, f, root, hole

Plain == [mode |-> ReadOnly, creat |-> FALSE, trunc |-> FALSE]
Make == [mode |-> ReadWrite, creat |-> TRUE, trunc |-> TRUE]
On(op, name) == [op |-> op, name |-> name, flags |-> Plain, fd |-> 0, arg |-> "good"]
By(op) == On(op, f)
MCHost ==
  [entry |-> [n \in Names |-> IF n = root THEN Dir ELSE 1], data |-> << <<hole>> >>]
MCHome == [p \in Programs |-> ca]
MCAsks ==
  [p \in Programs |->
     IF p = pa THEN {[By("open") EXCEPT !.flags = Make], By("write"), By("unlink")}
     ELSE {By("open"), By("read"), By("close"), On("opendir", root), By("mkdir")}]
MCRequests == UNION {MCAsks[p] : p \in Programs}
=============================================================================

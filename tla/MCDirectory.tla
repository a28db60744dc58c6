---------------------------- MODULE MCDirectory ----------------------------
(* An instance of Directory for TLC: the host file service registers       *)
(* itself at sys/host, where two mounts of the configuration wait for it,  *)
(* one of them below the other; programs register and unregister beside.   *)
EXTENDS Directory
CONSTANTS c1, c2, d1, sys, host, mnt, r1, r2, pre

Req(op, path) == [op |-> op, path |-> path, ref |-> None, prefix |-> None, cap |-> 2]

Symm == Permutations(Clients)

MCOffer == [d \in Devices |-> [path |-> <<sys, host>>, ref |-> r1]]
MCMounts == <<[target |-> <<mnt>>, source |-> <<sys, host>>, prefix |-> pre],
              [target |-> <<mnt, host>>, source |-> <<sys, host>>, prefix |-> pre],
              [target |-> <<host>>, source |-> <<sys, mnt, host>>, prefix |-> pre]>>
MCCalls ==
  {[Req("register", p) EXCEPT !.ref = r2] :
      p \in {<<sys, host>>, <<sys, mnt, host>>, <<mnt, sys>>}}
    \cup {Req("unregister", p) : p \in {<<sys, host>>, <<sys, mnt, host>>}}
    \cup {[Req("mount", <<mnt, host>>) EXCEPT !.ref = r2, !.prefix = pre],
          Req("walk", <<mnt, host>>), Req("walk", <<sys, host>>),
          [Req("list", <<sys>>) EXCEPT !.cap = 1], Req("list", <<>>),
          Req("subscribe", <<sys>>), Req("subscribe", <<>>)}
=============================================================================

------------------------------- MODULE Switch -------------------------------
(***************************************************************************)
(* What the crossbar promises to the processors and devices attached to    *)
(* it: packets from one client to one processor number arrive in the order *)
(* they were submitted, each at most once and whole; while sender and      *)
(* receiver stay attached none is lost; one client at a time holds a       *)
(* number.  A client that leaves takes along what it had not received, and *)
(* may take along what it had not finished submitting.                     *)
(***************************************************************************)
EXTENDS Naturals, Sequences, SequencesExt, Functions

CONSTANTS
  Clients,      \* connections, each used once
  Pids,         \* processor numbers
  MaxPackets    \* bound: packets submitted by all clients together

VARIABLES
  present,      \* clients that have not left
  table,        \* who holds which processor number
  submitted,    \* packets submitted and not yet switched, per client
  sent,         \* number of packets submitted so far by all clients
  queue,        \* packets on their way to a client
  got           \* packets a client has received

vars == <<present, table, submitted, sent, queue, got>>

Packet == [src : Clients, dst : Pids, n : 1..MaxPackets]

Init ==
  /\ present = Clients
  /\ table = [p \in {} |-> p]
  /\ submitted = [c \in Clients |-> <<>>]
  /\ sent = 0
  /\ queue = [c \in Clients |-> <<>>]
  /\ got = [c \in Clients |-> <<>>]

Attach(c, p) ==
  /\ p \notin DOMAIN table /\ c \notin Range(table)
  /\ table' = [x \in DOMAIN table \cup {p} |-> IF x = p THEN c ELSE table[x]]
  /\ UNCHANGED <<present, submitted, sent, queue, got>>

Submit(c, p) ==
  /\ c \in present /\ sent < MaxPackets
  /\ sent' = sent + 1
  /\ submitted' = [submitted EXCEPT ![c] =
                     Append(@, [src |-> c, dst |-> p, n |-> sent + 1])]
  /\ UNCHANGED <<present, table, queue, got>>

(* The clients in D give up their numbers, and may lose what they had not  *)
(* finished submitting; the rest of what was submitted is s.               *)
Detached(D, s) ==
  /\ table' = Restrict(table, {p \in DOMAIN table : table[p] \notin D})
  /\ \A c \in Clients : IF c \in D THEN IsPrefix(submitted'[c], s[c])
                                   ELSE submitted'[c] = s[c]
  /\ DOMAIN submitted' = Clients

(* The oldest packet of a client goes to the holder of its number; without *)
(* one that is present it is lost, and an absent holder may be found out.  *)
Route(c) ==
  /\ submitted[c] # <<>>
  /\ LET packet == Head(submitted[c])
         holders == {table[p] : p \in DOMAIN table \cap {packet.dst}}
     IN /\ queue' = [d \in Clients |-> IF d \in holders \cap present
                                        THEN Append(queue[d], packet) ELSE queue[d]]
        /\ \E D \in SUBSET (holders \ present) :
             Detached(D, [submitted EXCEPT ![c] = Tail(@)])
  /\ UNCHANGED <<present, sent, got>>

(* One read may bring in several packets.                                  *)
Receive(c) ==
  /\ \E n \in 1..Len(queue[c]) :
       /\ got' = [got EXCEPT ![c] = @ \o SubSeq(queue[c], 1, n)]
       /\ queue' = [queue EXCEPT ![c] = SubSeq(@, n + 1, Len(@))]
  /\ UNCHANGED <<present, table, submitted, sent>>

Leave(c) ==
  /\ c \in present
  /\ present' = present \ {c}
  /\ queue' = [queue EXCEPT ![c] = <<>>]
  /\ \E n \in 0..Len(submitted[c]) :
       submitted' = [submitted EXCEPT ![c] = SubSeq(@, 1, n)]
  /\ UNCHANGED <<table, sent, got>>

(* The number of a client that has left becomes free some time later.      *)
Detach(c) ==
  /\ c \notin present
  /\ Detached({c}, submitted)
  /\ UNCHANGED <<present, sent, queue, got>>

Next ==
  \E c \in Clients :
    \/ \E p \in Pids : Attach(c, p) \/ Submit(c, p)
    \/ Route(c) \/ Receive(c) \/ Leave(c) \/ Detach(c)

Spec == Init /\ [][Next]_vars
=============================================================================

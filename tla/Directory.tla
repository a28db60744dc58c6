----------------------------- MODULE Directory -----------------------------
(***************************************************************************)
(* The directory service: tools/devices/oriscdir and its client side,      *)
(* tools/cc/lib/dir.c.                                                     *)
(*                                                                         *)
(* The server keeps a tree of nodes, each a directory, a leaf with a       *)
(* reference, or a mount with the reference of a service and a prefix.  A  *)
(* client sends a request and waits; the server fetches the path from the  *)
(* client's memory and goes on with other requests meanwhile, carries the  *)
(* request out when the path has come, and, where there is text to return, *)
(* writes that to the client's memory before it replies.  A path is a      *)
(* sequence of names; a transaction is named by its client, which has one  *)
(* at a time.                                                              *)
(***************************************************************************)
EXTENDS Naturals, Sequences, SequencesExt, FiniteSets, TLC

CONSTANTS
  Clients, Calls,  \* the programs, and what they may ask
  MaxCalls,        \* bound: calls of a client
  Devices, Offer,  \* the binding each device sends in line when it starts
  Mounts,          \* the mounts of the configuration file
  None

VARIABLES
  tree,     \* the nodes: a function from the paths that exist
  waiting,  \* pending_mounts
  subs,     \* subscriptions
  call,     \* the request of each client, None between two
  phase,    \* where it is
  out,      \* the reply, when it has been settled
  inline,   \* devices whose packet is on its way
  notes,    \* notifications sent to each client
  made,     \* history: the calls of each client
  started   \* history: the devices that have started

vars == <<tree, waiting, subs, call, phase, out, inline, notes, made, started>>

Answer(status, kind, ref, rest) ==
  [status |-> status, kind |-> kind, ref |-> ref, rest |-> rest]
Plain(status) == Answer(status, "none", None, <<>>)

-----------------------------------------------------------------------------
(* The tree.                                                               *)

DirNode == [leaf |-> None, mount |-> None, prefix |-> None]
LeafNode(ref) == [DirNode EXCEPT !.leaf = ref]
MountNode(ref, prefix) == [DirNode EXCEPT !.mount = ref, !.prefix = prefix]

Kind(n) == IF n.leaf # None THEN "leaf" ELSE IF n.mount # None THEN "mount" ELSE "dir"

First(p, k) == SubSeq(p, 1, k)
Rest(p, k) == SubSeq(p, k + 1, Len(p))
Children(t, p) == {q \in DOMAIN t : q # <<>> /\ Front(q) = p}

(* How far a walk along p comes: to its end, to a node that is not a       *)
(* directory, or to a directory without the next name.                     *)
Stop(t, p) ==
  CHOOSE k \in 0 .. Len(p) :
    /\ k = Len(p) \/ Kind(t[First(p, k)]) # "dir" \/ First(p, k + 1) \notin DOMAIN t
    /\ \A j \in 0 .. (k - 1) :
         Kind(t[First(p, j)]) = "dir" /\ First(p, j + 1) \in DOMAIN t
At(t, p) == t[First(p, Stop(t, p))]
Found(t, p) == Stop(t, p) = Len(p)

(* Binding node n at p: the directories on the way are made; a node that   *)
(* is there is taken over only when it is an empty directory.              *)
PutStatus(t, p) ==
  IF p = <<>> THEN "inval"
  ELSE IF ~Found(t, p) THEN IF Kind(At(t, p)) # "dir" THEN "notdir" ELSE "ok"
  ELSE IF Kind(t[p]) # "dir" \/ Children(t, p) # {} THEN "exists" ELSE "ok"

Put(t, p, n) ==
  IF PutStatus(t, p) # "ok" THEN t
  ELSE (p :> n) @@ t @@ [q \in {First(p, k) : k \in 1 .. Len(p)} |-> DirNode]

(* _do_unregister: a leaf goes, and with it the directories above that it  *)
(* leaves empty.                                                           *)
DropOnly(t, p) ==  \* Mutant: the empty directories stay
  IF Children(t, p) # {} THEN [t EXCEPT ![p] = DirNode]
  ELSE [n \in DOMAIN t \ {p} |-> t[n]]

Drop(t, p) ==
  LET gone == {q \in DOMAIN t \ {<<>>} :
                 IsPrefix(q, p) /\ \A n \in DOMAIN t : IsPrefix(q, n) => IsPrefix(n, p)}
  IN IF Children(t, p) # {} THEN [t EXCEPT ![p] = DirNode]
     ELSE [n \in DOMAIN t \ gone |-> t[n]]

(* _retry_pending_mounts: each mount of the configuration whose source is  *)
(* a leaf now is installed, with the leaf's reference, or given up when    *)
(* its place is taken.                                                     *)
Resolved(t, m) == Found(t, m.source) /\ Kind(t[m.source]) = "leaf"

RetryMounts(t) ==
  LET upTo[i \in 0 .. Len(waiting)] ==
        IF i = 0 THEN [tree |-> t, still |-> <<>>, changed |-> <<>>]
        ELSE LET acc == upTo[i - 1]
                 m == waiting[i]
             IN IF ~Resolved(acc.tree, m) THEN [acc EXCEPT !.still = Append(@, m)]
                ELSE IF PutStatus(acc.tree, m.target) # "ok" THEN acc
                ELSE [acc EXCEPT !.tree = Put(@, m.target,
                                              MountNode(@[m.source].leaf, m.prefix)),
                                 !.changed = Append(@, m.target)]
  IN upTo[Len(waiting)]

(* _notify_subscribers, for each of the changed paths.                     *)
NotifyExact(changed) ==  \* Mutant: only the path itself is looked for
  notes' = [c \in Clients |->
              notes[c] + Cardinality({<<i, j>> \in (DOMAIN changed) \X (DOMAIN subs) :
                                        subs[j].who = c /\ subs[j].path = changed[i]})]
Notify(changed) ==
  notes' = [c \in Clients |->
              notes[c] + Cardinality({<<i, j>> \in (DOMAIN changed) \X (DOMAIN subs) :
                                        /\ subs[j].who = c
                                        /\ IsPrefix(subs[j].path, changed[i])})]

(* _after_tree_mutation: t is the tree after the change at p.              *)
MutatedWithoutRetry(t, p) ==  \* Mutant: no retry of the mounts
  tree' = t /\ waiting' = waiting /\ Notify(<<p>>)
Mutated(t, p) ==
  LET r == RetryMounts(t)
  IN tree' = r.tree /\ waiting' = r.still /\ Notify(<<p>> \o r.changed)

SameTree == UNCHANGED <<tree, waiting, notes>>

-----------------------------------------------------------------------------
Init ==
  /\ tree = [p \in {<<>>} |-> DirNode]
  /\ waiting = Mounts
  /\ subs = <<>>
  /\ call = [c \in Clients |-> None]
  /\ phase = [c \in Clients |-> "idle"]
  /\ out = [c \in Clients |-> None]
  /\ inline = {} /\ started = {}
  /\ notes = [c \in Clients |-> 0]
  /\ made = [c \in Clients |-> 0]

(* A client sends a request of dir.c.                                      *)
Call(c, r) ==
  /\ phase[c] = "idle" /\ made[c] < MaxCalls
  /\ call' = [call EXCEPT ![c] = r]
  /\ phase' = [phase EXCEPT ![c] = "sent"]
  /\ made' = [made EXCEPT ![c] = @ + 1]
  /\ UNCHANGED <<tree, waiting, subs, out, inline, notes, started>>

(* _handle_send: the path is fetched.                                      *)
Take(c) ==
  /\ phase[c] = "sent"
  /\ phase' = [phase EXCEPT ![c] = "fetching"]
  /\ UNCHANGED <<tree, waiting, subs, call, out, inline, notes, made, started>>

(* _handle_read_resp: the path has come, and the request is carried out.   *)
Carry(c, op) == phase[c] = "fetching" /\ call[c].op = op

Reply(c, answer) ==
  /\ out' = [out EXCEPT ![c] = answer]
  /\ phase' = [phase EXCEPT ![c] = "replied"]
  /\ UNCHANGED <<call, inline, made, started>>

(* The reply waits until the text has been written to the client.          *)
ReplyAfterWrite(c, answer) ==
  /\ out' = [out EXCEPT ![c] = answer]
  /\ phase' = [phase EXCEPT ![c] = "writing"]
  /\ UNCHANGED <<call, inline, made, started>>

DoPut(c, n) ==
  LET p == call[c].path
  IN /\ Reply(c, Plain(PutStatus(tree, p)))
     /\ subs' = subs
     /\ IF PutStatus(tree, p) = "ok" THEN Mutated(Put(tree, p, n), p) ELSE SameTree

DoRegister(c) == Carry(c, "register") /\ DoPut(c, LeafNode(call[c].ref))
DoMount(c) == Carry(c, "mount") /\ DoPut(c, MountNode(call[c].ref, call[c].prefix))

DoUnregister(c) ==
  LET p == call[c].path
      leaf == Found(tree, p) /\ Kind(tree[p]) = "leaf"
  IN /\ Carry(c, "unregister")
     /\ subs' = subs
     /\ IF leaf THEN Mutated(Drop(tree, p), p) ELSE SameTree
     /\ Reply(c, Plain(IF p = <<>> THEN "inval"
                       ELSE IF leaf \/ ~Found(tree, p) THEN "ok" ELSE "notdir"))

DoWalk(c) ==
  LET p == call[c].path
      n == At(tree, p)
      rest == Rest(p, Stop(tree, p))
  IN /\ Carry(c, "walk")
     /\ subs' = subs /\ SameTree
     /\ IF Kind(n) = "mount"
        THEN ReplyAfterWrite(c, Answer("ok", "mount", n.mount, <<n.prefix, rest>>))
        ELSE Reply(c, IF Found(tree, p) THEN Answer("ok", Kind(n), n.leaf, <<>>)
                      ELSE IF Kind(n) = "leaf" THEN Plain("notdir") ELSE Plain("noent"))

(* The names below a directory, and which of them are leaves.              *)
Listing(t, p) == {<<Last(q), Kind(t[q]) = "leaf">> : q \in Children(t, p)}

DoList(c) ==
  LET p == call[c].path
      n == At(tree, p)
      names == Listing(tree, p)
  IN /\ Carry(c, "list")
     /\ subs' = subs /\ SameTree
     /\ IF Found(tree, p) /\ Kind(n) = "dir" /\ names # {} /\ Cardinality(names) <= call[c].cap
        THEN ReplyAfterWrite(c, Answer("ok", "list", None, names))
        ELSE Reply(c, IF Kind(n) # "dir" THEN Plain("notdir")
                      ELSE IF ~Found(tree, p) THEN Plain("noent")
                      ELSE IF names = {} THEN Answer("ok", "list", None, {})
                      ELSE Plain("toobig"))

DoSubscribe(c) ==
  /\ Carry(c, "subscribe")
  /\ subs' = Append(subs, [path |-> call[c].path, who |-> c])
  /\ SameTree
  /\ Reply(c, Plain("ok"))

(* _handle_write_resp.                                                     *)
Written(c) ==
  /\ phase[c] = "writing"
  /\ phase' = [phase EXCEPT ![c] = "replied"]
  /\ UNCHANGED <<tree, waiting, subs, call, out, inline, notes, made, started>>

(* The client has the reply and returns.                                   *)
Return(c) ==
  /\ phase[c] = "replied"
  /\ phase' = [phase EXCEPT ![c] = "idle"]
  /\ call' = [call EXCEPT ![c] = None]
  /\ out' = [out EXCEPT ![c] = None]
  /\ UNCHANGED <<tree, waiting, subs, inline, notes, made, started>>

-----------------------------------------------------------------------------
(* A device starts and sends its binding; nothing is returned.             *)
Start(d) ==
  /\ d \notin started
  /\ started' = started \cup {d}
  /\ inline' = inline \cup {d}
  /\ UNCHANGED <<tree, waiting, subs, call, phase, out, notes, made>>

RegisterInline(d) ==
  LET p == Offer[d].path
  IN /\ d \in inline
     /\ inline' = inline \ {d}
     /\ IF PutStatus(tree, p) = "ok"
        THEN Mutated(Put(tree, p, LeafNode(Offer[d].ref)), p) ELSE SameTree
     /\ UNCHANGED <<subs, call, phase, out, made, started>>

-----------------------------------------------------------------------------
Server(c) ==
  \/ Take(c) \/ DoRegister(c) \/ DoMount(c) \/ DoUnregister(c) \/ DoWalk(c)
  \/ DoList(c) \/ DoSubscribe(c) \/ Written(c)

Next ==
  \/ \E c \in Clients : (\E r \in Calls : Call(c, r)) \/ Server(c) \/ Return(c)
  \/ \E d \in Devices : Start(d) \/ RegisterInline(d)

Spec == Init /\ [][Next]_vars

-----------------------------------------------------------------------------
Answers == [status : {"ok", "inval", "noent", "exists", "notdir", "toobig"},
            kind : {"none", "dir", "leaf", "mount", "list"}]

(* A tree in which only directories have children and every directory but  *)
(* the root leads to a leaf or a mount: whatever is taken out, no empty    *)
(* directory is left to be listed and none is lost with something in it.   *)
WellFormed(t) ==
  /\ <<>> \in DOMAIN t
  /\ \A p \in DOMAIN t :
       /\ t[p].leaf = None \/ t[p].mount = None
       /\ p # <<>> => Front(p) \in DOMAIN t /\ Kind(t[Front(p)]) = "dir"
       /\ p # <<>> /\ Kind(t[p]) = "dir" => Children(t, p) # {}

(* Type correctness of every variable.                                     *)
TypeOK ==
  /\ WellFormed(tree)
  /\ \A i \in DOMAIN waiting : \E j \in DOMAIN Mounts : waiting[i] = Mounts[j]
  /\ \A i \in DOMAIN subs : subs[i].who \in Clients
  /\ call \in [Clients -> Calls \cup {None}]
  /\ phase \in [Clients -> {"idle", "sent", "fetching", "writing", "replied"}]
  /\ \A c \in Clients :
       /\ (call[c] = None) = (phase[c] = "idle")
       /\ (out[c] # None) = (phase[c] \in {"writing", "replied"})
       /\ out[c] # None =>
            [status |-> out[c].status, kind |-> out[c].kind] \in Answers
  /\ inline \subseteq started /\ started \subseteq Devices
  /\ notes \in [Clients -> Nat] /\ made \in [Clients -> 0 .. MaxCalls]

(* A subscriber is sent a notification in the step that changes something  *)
(* at or below the path it watches, and in no other.                       *)
Below(t, p) == {<<q, t[q]>> : q \in {q \in DOMAIN t : IsPrefix(p, q)}}
ChangeNotified ==
  [][\A c \in Clients :
       notes'[c] > notes[c] <=>
         \E i \in DOMAIN subs : /\ subs[i].who = c
                                /\ Below(tree, subs[i].path) # Below(tree', subs[i].path)]_vars

(* The calls are atomic: they implement the namespace, whose directories   *)
(* exist only by what is bound below them.                                 *)
Bindings ==
  [p \in {p \in DOMAIN tree : Kind(tree[p]) # "dir"} |->
     [kind |-> Kind(tree[p]), prefix |-> tree[p].prefix,
      ref |-> IF tree[p].leaf # None THEN tree[p].leaf ELSE tree[p].mount]]

NS == INSTANCE Namespace WITH bound <- Bindings, awaited <- waiting, answer <- out,
                              offers <- inline
Atomic == NS!Spec
=============================================================================

----------------------------- MODULE Namespace -----------------------------
(***************************************************************************)
(* What the directory service promises: a set of bindings of paths to      *)
(* references, none of them above another; a directory is no object of its *)
(* own but the beginning of a bound path.  Each call takes effect, and has *)
(* its answer settled, in one step between its start and its return.       *)
(***************************************************************************)
EXTENDS Naturals, Sequences, SequencesExt, FiniteSets, TLC

CONSTANTS
  Clients, Calls,   \* the programs and what they may ask
  Devices, Offer,   \* the devices and the binding each sends at its start
  Mounts,           \* the mounts of the configuration
  None

VARIABLES
  bound,    \* the bindings: a function from paths
  awaited,  \* the configured mounts that still wait for their source
  call,     \* the call each client is making, or None
  answer,   \* its answer once it has taken effect, or None
  offers    \* devices whose binding is on its way

avars == <<bound, awaited, call, answer, offers>>

Answer(status, kind, ref, rest) ==
  [status |-> status, kind |-> kind, ref |-> ref, rest |-> rest]
Plain(status) == Answer(status, "none", None, <<>>)

Leaf(ref) == [kind |-> "leaf", ref |-> ref, prefix |-> None]
Mount(ref, prefix) == [kind |-> "mount", ref |-> ref, prefix |-> prefix]

(* The binding that stands above p, where there is one, hides p.           *)
Hidden(b, p) == \E q \in DOMAIN b : IsStrictPrefix(q, p)
Above(b, p) == CHOOSE q \in DOMAIN b : IsStrictPrefix(q, p)
IsDir(b, p) == p = <<>> \/ \E q \in DOMAIN b : IsStrictPrefix(p, q)

(* Whether p may be bound, as the answer to the attempt.                   *)
BindStatus(b, p) ==
  IF p = <<>> THEN "inval"
  ELSE IF Hidden(b, p) THEN "notdir"
  ELSE IF p \in DOMAIN b \/ IsDir(b, p) THEN "exists" ELSE "ok"

Bind(b, p, v) ==
  IF BindStatus(b, p) = "ok"
  THEN (p :> v) @@ b ELSE b

Ready(b, m) == m.source \in DOMAIN b /\ b[m.source].kind = "leaf"

(* The mounts whose source is bound take their places, in their order.     *)
Settled(b, ms) ==
  LET upTo[i \in 0 .. Len(ms)] ==
        IF i = 0 THEN b
        ELSE IF Ready(b, ms[i])
        THEN Bind(upTo[i - 1], ms[i].target, Mount(b[ms[i].source].ref, ms[i].prefix))
        ELSE upTo[i - 1]
  IN upTo[Len(ms)]

Becomes(b) == /\ bound' = Settled(b, awaited)
              /\ awaited' = SelectSeq(awaited, LAMBDA m : ~Ready(b, m))

Init ==
  /\ bound = <<>>
  /\ awaited = Mounts
  /\ call = [c \in Clients |-> None]
  /\ answer = [c \in Clients |-> None]
  /\ offers = {}

Begin(c, r) ==
  /\ call[c] = None
  /\ call' = [call EXCEPT ![c] = r]
  /\ UNCHANGED <<bound, awaited, answer, offers>>

-----------------------------------------------------------------------------
WalkAnswer(b, p) ==
  IF Hidden(b, p)
  THEN LET q == Above(b, p)
       IN IF b[q].kind = "leaf" THEN Plain("notdir")
          ELSE Answer("ok", "mount", b[q].ref,
                      <<b[q].prefix, SubSeq(p, Len(q) + 1, Len(p))>>)
  ELSE IF p \in DOMAIN b
  THEN Answer("ok", b[p].kind, b[p].ref,
              IF b[p].kind = "mount" THEN <<b[p].prefix, <<>>>> ELSE <<>>)
  ELSE IF IsDir(b, p) THEN Answer("ok", "dir", None, <<>>) ELSE Plain("noent")

Entries(b, p) == {q[Len(p) + 1] : q \in {q \in DOMAIN b : IsStrictPrefix(p, q)}}

ListAnswer(b, p, cap) ==
  IF Hidden(b, p) \/ p \in DOMAIN b THEN Plain("notdir")
  ELSE IF ~IsDir(b, p) THEN Plain("noent")
  ELSE IF Cardinality(Entries(b, p)) > cap THEN Plain("toobig")
  ELSE Answer("ok", "list", None,
              {<<n, Append(p, n) \in DOMAIN b /\ b[Append(p, n)].kind = "leaf">> :
                 n \in Entries(b, p)})

(* A call takes effect.                                                    *)
Effect(c) ==
  LET r == call[c]
  IN /\ r # None /\ answer[c] = None
     /\ \/ /\ r.op \in {"register", "mount"}
           /\ answer' = [answer EXCEPT ![c] = Plain(BindStatus(bound, r.path))]
           /\ IF BindStatus(bound, r.path) = "ok"
              THEN Becomes(Bind(bound, r.path, IF r.op = "register" THEN Leaf(r.ref)
                                               ELSE Mount(r.ref, r.prefix)))
              ELSE UNCHANGED <<bound, awaited>>
        \/ /\ r.op = "unregister" /\ r.path \in DOMAIN bound
           /\ bound[r.path].kind = "leaf"
           /\ Becomes([q \in DOMAIN bound \ {r.path} |-> bound[q]])
           /\ answer' = [answer EXCEPT ![c] = Plain("ok")]
        \/ /\ r.op = "unregister"
           /\ r.path \in DOMAIN bound => bound[r.path].kind # "leaf"
           /\ answer' = [answer EXCEPT ![c] =
                           Plain(IF r.path = <<>> THEN "inval"
                                 ELSE IF r.path \in DOMAIN bound \/ IsDir(bound, r.path)
                                 THEN "notdir" ELSE "ok")]
           /\ UNCHANGED <<bound, awaited>>
        \/ /\ r.op = "walk"
           /\ answer' = [answer EXCEPT ![c] = WalkAnswer(bound, r.path)]
           /\ UNCHANGED <<bound, awaited>>
        \/ /\ r.op = "list"
           /\ answer' = [answer EXCEPT ![c] = ListAnswer(bound, r.path, r.cap)]
           /\ UNCHANGED <<bound, awaited>>
        \/ /\ r.op = "subscribe"
           /\ answer' = [answer EXCEPT ![c] = Plain("ok")]
           /\ UNCHANGED <<bound, awaited>>
     /\ UNCHANGED <<call, offers>>

Return(c) ==
  /\ answer[c] # None
  /\ call' = [call EXCEPT ![c] = None]
  /\ answer' = [answer EXCEPT ![c] = None]
  /\ UNCHANGED <<bound, awaited, offers>>

-----------------------------------------------------------------------------
(* A device offers one binding and hears nothing of it.                    *)
Propose(d) ==
  /\ d \notin offers
  /\ offers' = offers \cup {d}
  /\ UNCHANGED <<bound, awaited, call, answer>>

Accept(d) ==
  LET o == Offer[d]
  IN /\ d \in offers
     /\ offers' = offers \ {d}
     /\ IF BindStatus(bound, o.path) = "ok"
        THEN Becomes(Bind(bound, o.path, Leaf(o.ref)))
        ELSE UNCHANGED <<bound, awaited>>
     /\ UNCHANGED <<call, answer>>

Next ==
  \/ \E c \in Clients : (\E r \in Calls : Begin(c, r)) \/ Effect(c) \/ Return(c)
  \/ \E d \in Devices : Propose(d) \/ Accept(d)

Spec == Init /\ [][Next]_avars
=============================================================================

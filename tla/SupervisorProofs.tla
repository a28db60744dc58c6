-------------------------- MODULE SupervisorProofs --------------------------
(***************************************************************************)
(* Proofs about Supervisor for any number of processors and terminals, any *)
(* sizes of tables and mailboxes, and any requests.                        *)
(***************************************************************************)
EXTENDS Supervisor, SequenceTheorems, TLAPS

(* The messages of a queue that carry request r, and that there is one of  *)
(* them at most.                                                           *)
Carried(q, r) == {q[i] : i \in {k \in 1 .. Len(q) : q[k].req = r}}
Once(q, r) == \A i, k \in 1 .. Len(q) : q[i].req = r /\ q[k].req = r => i = k
Shaped(q) == \A i \in 1 .. Len(q) : q[i].op = "spawn" <=> q[i].req # None

(* A message for request r that is at processor p or on its way there: as  *)
(* the client sent it, or as the first supervisor relayed it.              *)
StaysLocal(r) == req[r].to = AnyPid /\ req[r].localOk /\ req[r].from \in Terminals
Carries(m, r, p) ==
  /\ m.hint = req[r].hint
  /\ \/ hops[r] = 0 /\ p = req[r].from /\ m.to = req[r].to
     \/ /\ hops[r] = 1 /\ m.to = LocalPid /\ req[r].to # LocalPid /\ ~StaysLocal(r)
        /\ req[r].to \in Cpus => p = req[r].to
Fit(q, r, p) == Once(q, r) /\ \A m \in Carried(q, r) : Carries(m, r, p)

(* A supervisor serves a request until it has replied or relayed it.       *)
Relaying == {"pick", "picked", "relay", "send"}
Serving == Relaying \cup {"load", "create"}
Served(c, r) == at[c] \in Serving /\ cur[c].req = r
ServesWell(c, r) ==
  /\ Carries(cur[c], r, c)
  /\ at[c] \in Relaying => hops[r] = 0 /\ cur[c].to # LocalPid /\ ~StaysLocal(r)
  /\ at[c] \in {"pick", "picked"} => cur[c].to = AnyPid
  /\ at[c] \in {"relay", "send"} /\ cur[c].to \in Cpus => peer[c] = cur[c].to
  /\ at[c] \in {"load", "create"} /\ cur[c].to \in Cpus => c = cur[c].to
  /\ at[c] = "create" => mem[r] = "held"

(* A request is in one place at a time: a mailbox, a wire, a supervisor.   *)
InMbox(c, r) == Carried(mbox[c], r) # {}
InWire(c, d, r) == Carried(wire[c][d], r) # {}
Somewhere(r) == \/ \E c \in Cpus : InMbox(c, r) \/ Served(c, r)
                \/ \E c, d \in Cpus : InWire(c, d, r)
OnePlace(r) ==
  /\ \A c, d \in Cpus : InMbox(c, r) /\ InMbox(d, r) => c = d
  /\ \A c, d \in Cpus : Served(c, r) /\ Served(d, r) => c = d
  /\ \A c, d, e, f \in Cpus : InWire(c, d, r) /\ InWire(e, f, r) => c = e /\ d = f
  /\ \A c, d \in Cpus : ~(InMbox(c, r) /\ Served(d, r))
  /\ \A c, d, e \in Cpus : ~(InWire(c, d, r) /\ (InMbox(e, r) \/ Served(e, r)))
Placing(r) ==
  /\ \A c \in Cpus : Fit(mbox[c], r, c) /\ (Served(c, r) => ServesWell(c, r))
  /\ \A c, d \in Cpus : Fit(wire[c][d], r, d)
  /\ OnePlace(r)

(* Where it is, nothing has been done for it; elsewhere it is settled.     *)
Untouched(r) == /\ reply[r] = <<>> /\ made[r] = 0 /\ task[r] = "none"
                /\ r \notin lost /\ SlotsOf(r) = {}
Settled(r) ==
  /\ Somewhere(r) => req[r] # None /\ Untouched(r)
  /\ req[r] = None => Untouched(r) /\ hops[r] = 0 /\ mem[r] = "none"
  /\ OneTask(r) /\ Placed(r)

Creating(r) == \E c \in Cpus : at[c] = "create" /\ cur[c].req = r
InTable(r) ==
  /\ task[r] = "live" => at[node[r]] # "halted"
  /\ task[r] \in {"live", "exited"} =>
       /\ mem[r] = "held" /\ node[r] \in Cpus
       /\ \E s \in Slot : SlotsOf(r) = {<<node[r], s>>} /\ origin[node[r]][s] = req[r].hint
  /\ mem[r] = "held" => SlotsOf(r) # {} \/ Creating(r)
  /\ hold[r] = "collected" => task[r] \in {"exited", "freed"}

Messages ==
  /\ \A c \in Cpus : /\ Shaped(mbox[c])
                     /\ at[c] \in Serving => cur[c].req \in Requests
                     /\ at[c] = "picked" => scan[c] < NCpus
  /\ \A c, d \in Cpus : Shaped(wire[c][d])

OneRequest(r) == Placing(r) /\ Settled(r) /\ InTable(r)
SupInv == TypeOK /\ Messages /\ \A r \in Requests : OneRequest(r)

-----------------------------------------------------------------------------
(* Queues.                                                                 *)

(* A message is put at the end of a queue.                                 *)
LEMMA Appended ==
  ASSUME NEW q \in Seq(Msg), NEW m \in Msg, NEW r
  PROVE  /\ Append(q, m) \in Seq(Msg)
         /\ m.req # r => Carried(Append(q, m), r) = Carried(q, r)
         /\ m.req = r => Carried(Append(q, m), r) = Carried(q, r) \cup {m}
         /\ Once(q, r) /\ (m.req = r => Carried(q, r) = {}) => Once(Append(q, m), r)
         /\ Shaped(q) /\ (m.op = "spawn" <=> m.req # None) => Shaped(Append(q, m))
<1> DEFINE n == Append(q, m)
<1>1. /\ n \in Seq(Msg) /\ Len(n) = Len(q) + 1 /\ Len(q) \in Nat
      /\ \A i \in 1 .. Len(q) : n[i] = q[i]
      /\ n[Len(q) + 1] = m
  BY AppendProperties
<1> HIDE DEF n
<1>2. \A i \in 1 .. Len(n) : i \in 1 .. Len(q) \/ i = Len(q) + 1
  BY <1>1
<1>3. 1 .. Len(q) \subseteq 1 .. Len(n) /\ Len(q) + 1 \in 1 .. Len(n)
  BY <1>1
<1>4. m.req # r => Carried(n, r) = Carried(q, r)
  BY <1>1, <1>2, <1>3 DEF Carried
<1>5. m.req = r => Carried(n, r) = Carried(q, r) \cup {m}
  BY <1>1, <1>2, <1>3 DEF Carried
<1>6. Once(q, r) /\ (m.req = r => Carried(q, r) = {}) => Once(n, r)
  <2>1. Carried(q, r) = {} => \A i \in 1 .. Len(q) : q[i].req # r
    BY DEF Carried
  <2> QED BY <1>1, <1>2, <2>1 DEF Once
<1>7. Shaped(q) /\ (m.op = "spawn" <=> m.req # None) => Shaped(n)
  BY <1>1, <1>2 DEF Shaped
<1> QED BY <1>1, <1>4, <1>5, <1>6, <1>7 DEF n

LEMMA AppendShaped ==
  ASSUME NEW q \in Seq(Msg), NEW m \in Msg, Shaped(q), m.op = "spawn" <=> m.req # None
  PROVE  Shaped(Append(q, m))
BY Appended

(* The first message of a queue is taken.                                  *)
LEMMA Removed ==
  ASSUME NEW q \in Seq(Msg), q # <<>>, NEW r
  PROVE  /\ Tail(q) \in Seq(Msg) /\ Head(q) \in Msg
         /\ Head(q).req # r => Carried(Tail(q), r) = Carried(q, r)
         /\ Head(q).req = r => Head(q) \in Carried(q, r)
         /\ Head(q).req = r /\ Once(q, r) => Carried(Tail(q), r) = {}
         /\ Once(q, r) => Once(Tail(q), r)
         /\ Shaped(q) => Shaped(Tail(q)) /\ (Head(q).op = "spawn" <=> Head(q).req # None)
<1> DEFINE n == Tail(q)
           h == Head(q)
<1>1. /\ n \in Seq(Msg) /\ Len(n) = Len(q) - 1 /\ Len(q) \in Nat /\ Len(q) > 0
      /\ \A i \in 1 .. Len(n) : n[i] = q[i + 1]
      /\ h = q[1] /\ h \in Msg
  BY HeadTailProperties
<1> HIDE DEF n, h
<1>2. \A i \in 1 .. Len(q) : i = 1 \/ (i - 1 \in 1 .. Len(n) /\ (i - 1) + 1 = i)
  BY <1>1
<1>3. 1 \in 1 .. Len(q) /\ \A i \in 1 .. Len(n) : i + 1 \in 1 .. Len(q) /\ i + 1 # 1
  BY <1>1
<1>4. h.req # r => Carried(n, r) = Carried(q, r)
  <2> SUFFICES ASSUME h.req # r PROVE Carried(n, r) = Carried(q, r)
    OBVIOUS
  <2>1. ASSUME NEW x \in Carried(n, r) PROVE x \in Carried(q, r)
    BY <1>1, <1>3, <2>1 DEF Carried
  <2>2. ASSUME NEW x \in Carried(q, r) PROVE x \in Carried(n, r)
    <3>1. PICK i \in 1 .. Len(q) : q[i].req = r /\ x = q[i]
      BY <2>2 DEF Carried
    <3>2. i - 1 \in 1 .. Len(n) /\ n[i - 1] = q[i]
      BY <1>1, <1>2, <3>1
    <3> QED BY <3>1, <3>2 DEF Carried
  <2> QED BY <2>1, <2>2
<1>5. h.req = r => h \in Carried(q, r)
  BY <1>1, <1>3 DEF Carried
<1>6. h.req = r /\ Once(q, r) => Carried(n, r) = {}
  <2> SUFFICES ASSUME h.req = r, Once(q, r), NEW i \in 1 .. Len(n), n[i].req = r
               PROVE  FALSE
    BY DEF Carried
  <2>1. i + 1 \in 1 .. Len(q) /\ q[i + 1].req = r /\ q[1].req = r /\ i + 1 # 1
    BY <1>1, <1>3
  <2> QED BY <1>3, <2>1 DEF Once
<1>7. Once(q, r) => Once(n, r)
  <2> SUFFICES ASSUME Once(q, r), NEW i \in 1 .. Len(n), NEW k \in 1 .. Len(n),
                      n[i].req = r, n[k].req = r
               PROVE  i = k
    BY DEF Once
  <2>1. i + 1 \in 1 .. Len(q) /\ k + 1 \in 1 .. Len(q) /\ q[i + 1].req = r /\ q[k + 1].req = r
    BY <1>1, <1>3
  <2> QED BY <2>1 DEF Once
<1>8. Shaped(q) => Shaped(n) /\ (h.op = "spawn" <=> h.req # None)
  BY <1>1, <1>3 DEF Shaped
<1> QED BY <1>1, <1>4, <1>5, <1>6, <1>7, <1>8 DEF n, h

LEMMA EmptyQueue ==
  ASSUME NEW r
  PROVE  /\ <<>> \in Seq(Msg) /\ Carried(<<>>, r) = {} /\ Once(<<>>, r) /\ Shaped(<<>>)
BY DEF Carried, Once, Shaped

-----------------------------------------------------------------------------
(* The initial states.                                                     *)
LEMMA SupInit == Init => SupInv
<1> SUFFICES ASSUME Init PROVE SupInv
  OBVIOUS
<1>1. NoMsg \in Msg /\ NoMsg.req = None
  BY DEF NoMsg, Msg, Targets
<1>2. 0 \in Cpus /\ \A c \in Cpus : (c + 1) % NCpus \in Cpus
  BY CpusAssumption DEF Cpus
<1>3. TypeOK
  BY <1>1, <1>2, CpusAssumption DEF Init, TypeOK
<1>4. Messages
  BY EmptyQueue DEF Init, Messages, Serving, Relaying
<1>5. ASSUME NEW r \in Requests PROVE OneRequest(r)
  <2>1. \A c \in Cpus : ~Served(c, r) /\ ~InMbox(c, r) /\ \A d \in Cpus : ~InWire(c, d, r)
    BY EmptyQueue DEF Init, Served, Serving, Relaying, InMbox, InWire
  <2>2. Placing(r)
    BY <2>1, EmptyQueue DEF Init, Placing, Fit, OnePlace
  <2>3. SlotsOf(r) = {}
    BY TargetsAssumption DEF Init, SlotsOf
  <2>4. Settled(r)
    BY <2>1, <2>3 DEF Init, Settled, Somewhere, Untouched, OneTask, Placed
  <2>5. InTable(r)
    BY DEF Init, InTable
  <2> QED BY <2>2, <2>4, <2>5 DEF OneRequest
<1> QED BY <1>3, <1>4, <1>5 DEF SupInv

-----------------------------------------------------------------------------
(* Requests a step leaves alone.                                           *)

SameQueue(q, n, r) == Carried(n, r) = Carried(q, r) /\ (Once(q, r) => Once(n, r))
SameQueues(r) ==
  /\ \A c \in Cpus : SameQueue(mbox[c], mbox'[c], r)
  /\ \A c, d \in Cpus : SameQueue(wire[c][d], wire'[c][d], r)
SameService(r) ==
  \A c \in Cpus : /\ Served(c, r)' <=> Served(c, r)
                  /\ Served(c, r) /\ ServesWell(c, r) => ServesWell(c, r)'
SameTokens(r) ==
  SameQueues(r) /\ SameService(r) /\ req'[r] = req[r] /\ hops'[r] = hops[r]
SameFate(r) ==
  /\ reply'[r] = reply[r] /\ made'[r] = made[r] /\ node'[r] = node[r]
  /\ r \in lost' <=> r \in lost
  /\ task'[r] = "none" <=> task[r] = "none"
  /\ SlotsOf(r) = {} => SlotsOf(r)' = {}
  /\ task[r] = "none" /\ mem[r] = "none" /\ req[r] = None => mem'[r] = "none"
SameTable(r) ==
  /\ task'[r] = task[r] /\ node'[r] = node[r] /\ mem'[r] = mem[r] /\ req'[r] = req[r]
  /\ SlotsOf(r)' = SlotsOf(r)
  /\ \A c \in Cpus, s \in Slot : table[c][s] = r => origin'[c][s] = origin[c][s]
  /\ task[r] = "live" /\ at[node[r]] # "halted" => at'[node[r]] # "halted"
  /\ Creating(r) => Creating(r)'
  /\ hold'[r] = "collected" => hold[r] = "collected" \/ task[r] = "exited"

LEMMA QueueUnchanged == ASSUME NEW q, NEW r PROVE SameQueue(q, q, r)
BY DEF SameQueue

LEMMA TokensKept ==
  ASSUME NEW r \in Requests, Placing(r), SameTokens(r)
  PROVE  Placing(r)' /\ (Somewhere(r)' <=> Somewhere(r))
<1>1. /\ \A c \in Cpus : InMbox(c, r)' <=> InMbox(c, r)
      /\ \A c, d \in Cpus : InWire(c, d, r)' <=> InWire(c, d, r)
  BY DEF SameTokens, SameQueues, SameQueue, InMbox, InWire
<1>2. \A c \in Cpus : Served(c, r)' <=> Served(c, r)
  BY DEF SameTokens, SameService
<1>3. OnePlace(r)' /\ (Somewhere(r)' <=> Somewhere(r))
  BY ONLY <1>1, <1>2, Placing(r) DEF Placing, OnePlace, Somewhere
<1>4. \A m, p : Carries(m, r, p)' <=> Carries(m, r, p)
  BY DEF SameTokens, Carries, StaysLocal
<1>5. \A c \in Cpus : Served(c, r)' => ServesWell(c, r)'
  BY <1>2 DEF SameTokens, SameService, Placing
<1>6. \A c \in Cpus : Fit(mbox[c], r, c)'
  BY <1>4 DEF SameTokens, SameQueues, SameQueue, Placing, Fit
<1>7. \A c, d \in Cpus : Fit(wire[c][d], r, d)'
  BY <1>4 DEF SameTokens, SameQueues, SameQueue, Placing, Fit
<1> QED BY <1>3, <1>5, <1>6, <1>7 DEF Placing

LEMMA FateKept ==
  ASSUME NEW r \in Requests, Settled(r), Somewhere(r)' => Somewhere(r),
         req'[r] = req[r], hops'[r] = hops[r], SameFate(r)
  PROVE  Settled(r)'
<1>2. Untouched(r) => Untouched(r)'
  BY DEF Untouched, SameFate
<1>3. OneTask(r)' /\ Placed(r)'
  BY DEF Settled, OneTask, Placed, SameFate
<1>4. req[r] = None => mem'[r] = "none"
  BY DEF Settled, Untouched, SameFate
<1> QED BY <1>2, <1>3, <1>4 DEF Settled

LEMMA TableKept ==
  ASSUME NEW r \in Requests, InTable(r), SameTable(r)
  PROVE  InTable(r)'
<1>1. ASSUME task'[r] \in {"live", "exited"}
      PROVE  /\ mem'[r] = "held" /\ node'[r] \in Cpus
             /\ \E s \in Slot : /\ SlotsOf(r)' = {<<node'[r], s>>}
                                /\ origin'[node'[r]][s] = req'[r].hint
  <2>1. PICK s \in Slot : SlotsOf(r) = {<<node[r], s>>} /\ origin[node[r]][s] = req[r].hint
    BY <1>1 DEF InTable, SameTable
  <2>2. node[r] \in Cpus /\ mem[r] = "held"
    BY <1>1 DEF InTable, SameTable
  <2>3. table[node[r]][s] = r
    <3>1. \A p \in SlotsOf(r) : table[p[1]][p[2]] = r
      BY DEF SlotsOf
    <3>2. <<node[r], s>> \in SlotsOf(r)
      BY <2>1
    <3> QED BY <3>1, <3>2
  <2> QED BY <2>1, <2>2, <2>3 DEF SameTable
<1>2. task'[r] = "live" => at'[node'[r]] # "halted"
  BY DEF InTable, SameTable
<1>3. mem'[r] = "held" => SlotsOf(r)' # {} \/ Creating(r)'
  BY DEF InTable, SameTable
<1>4. hold'[r] = "collected" => task'[r] \in {"exited", "freed"}
  BY DEF InTable, SameTable
<1> QED BY <1>1, <1>2, <1>3, <1>4 DEF InTable

(* The slots of a task are kept when the tables are.                       *)
LEMMA SlotsKept ==
  ASSUME NEW r \in Requests,
         \A c \in Cpus, s \in Slot : table'[c][s] = r <=> table[c][s] = r
  PROVE  SlotsOf(r)' = SlotsOf(r)
BY DEF SlotsOf

(* A step that does nothing to a request but let its client go on.         *)
LEMMA Unaffected ==
  ASSUME NEW r \in Requests, OneRequest(r), SameQueues(r), SameService(r),
         req'[r] = req[r], hops'[r] = hops[r],
         reply'[r] = reply[r], made'[r] = made[r], r \in lost' <=> r \in lost,
         SameTable(r)
  PROVE  OneRequest(r)'
<1>1. SameTokens(r)
  BY DEF SameTokens
<1>2. SameFate(r)
  BY DEF SameFate, SameTable
<1>3. Placing(r)' /\ (Somewhere(r)' <=> Somewhere(r))
  BY <1>1, TokensKept DEF OneRequest
<1> QED BY <1>1, <1>2, <1>3, FateKept, TableKept DEF OneRequest

(* The steps of one supervisor or of a client: the table and the other     *)
(* supervisors are as before.                                              *)
LEMMA TableUnchanged ==
  ASSUME NEW r \in Requests, UNCHANGED <<table, origin, task, node, mem, req>>,
         task[r] = "live" /\ at[node[r]] # "halted" => at'[node[r]] # "halted",
         Creating(r) => Creating(r)',
         hold'[r] = "collected" => hold[r] = "collected" \/ task[r] = "exited"
  PROVE  SameTable(r)
BY SlotsKept DEF SameTable

(* Where a request is, it is nowhere else.                                 *)
LEMMA OnlyServed ==
  ASSUME NEW r \in Requests, NEW c \in Cpus, OnePlace(r), Served(c, r)
  PROVE  /\ \A d \in Cpus : ~InMbox(d, r) /\ (Served(d, r) => d = c)
         /\ \A d, e \in Cpus : ~InWire(d, e, r)
BY DEF OnePlace
LEMMA OnlyMbox ==
  ASSUME NEW r \in Requests, NEW c \in Cpus, OnePlace(r), InMbox(c, r)
  PROVE  /\ \A d \in Cpus : ~Served(d, r) /\ (InMbox(d, r) => d = c)
         /\ \A d, e \in Cpus : ~InWire(d, e, r)
BY DEF OnePlace
LEMMA OnlyWire ==
  ASSUME NEW r \in Requests, NEW c \in Cpus, NEW d \in Cpus, OnePlace(r), InWire(c, d, r)
  PROVE  /\ \A e \in Cpus : ~Served(e, r) /\ ~InMbox(e, r)
         /\ \A e, f \in Cpus : InWire(e, f, r) => e = c /\ f = d
BY DEF OnePlace

(* A request that has left every place is placed well.                     *)
LEMMA NowherePlacing ==
  ASSUME NEW r \in Requests, ~Somewhere(r)'
  PROVE  Placing(r)'
<1>1. /\ \A c \in Cpus : Carried(mbox'[c], r) = {} /\ ~Served(c, r)' /\ ~InMbox(c, r)'
      /\ \A c, d \in Cpus : Carried(wire'[c][d], r) = {} /\ ~InWire(c, d, r)'
  BY DEF Somewhere, InMbox, InWire
<1>2. \A q : Carried(q, r) = {} => Once(q, r)
  BY DEF Carried, Once
<1>3. OnePlace(r)'
  BY <1>1 DEF OnePlace
<1> QED BY <1>1, <1>2, <1>3 DEF Placing, Fit

(* A step that changes one supervisor at most.                             *)
LEMMA OneSupervisor ==
  ASSUME NEW c \in Cpus, NEW r \in Requests,
         \A d \in Cpus \ {c} : at'[d] = at[d] /\ cur'[d] = cur[d] /\ peer'[d] = peer[d],
         mem'[r] = mem[r], req'[r] = req[r], hops'[r] = hops[r],
         Served(c, r)' <=> Served(c, r),
         Served(c, r) /\ ServesWell(c, r) => ServesWell(c, r)'
  PROVE  SameService(r)
<1>1. ASSUME NEW d \in Cpus \ {c}
      PROVE  (Served(d, r)' <=> Served(d, r)) /\ (ServesWell(d, r) => ServesWell(d, r)')
  BY DEF Served, ServesWell, Carries, StaysLocal
<1> QED BY <1>1 DEF SameService

(* Steps that touch no message, no supervisor's work and no task.          *)
LEMMA QuietStep ==
  ASSUME SupInv,
         UNCHANGED <<cur, scan, peer, mbox, wire, lost, table, origin, task, node, mem,
                     req, reply, made, hops>>,
         \A c \in Cpus : at'[c] = at[c] \/ {at[c], at'[c]} \cap (Serving \cup {"halted"}) = {},
         \A r \in Requests : hold'[r] = "collected" => hold[r] = "collected" \/ task[r] = "exited"
  PROVE  Messages' /\ \A r \in Requests : OneRequest(r)'
<1>1. Messages'
  BY DEF SupInv, Messages, Serving, Relaying
<1>2. ASSUME NEW r \in Requests PROVE OneRequest(r)'
  <2>1. OneRequest(r)
    BY DEF SupInv
  <2>2. SameQueues(r)
    BY QueueUnchanged DEF SameQueues
  <2>3. \A c \in Cpus : at[c] \in Serving \/ at'[c] \in Serving => at'[c] = at[c]
    BY ONLY \A c \in Cpus :
              at'[c] = at[c] \/ {at[c], at'[c]} \cap (Serving \cup {"halted"}) = {}
  <2>4. SameService(r)
    BY <2>3 DEF SameService, Served, ServesWell, Carries, StaysLocal
  <2>5. Creating(r) => Creating(r)'
    BY <2>3 DEF Creating, Serving
  <2>6. task[r] = "live" /\ at[node[r]] # "halted" => at'[node[r]] # "halted"
    <3>1. task[r] = "live" => node[r] \in Cpus
      BY <2>1 DEF OneRequest, InTable
    <3> QED BY <3>1
  <2>7. SameTable(r)
    BY <2>5, <2>6, TableUnchanged
  <2> QED BY <2>1, <2>2, <2>4, <2>7, Unaffected
<1> QED BY <1>1, <1>2

(* What a state says of a live task, of a client that runs and of a        *)
(* supervisor that serves.                                                 *)
LEMMA LiveKnown ==
  ASSUME SupInv, NEW r \in Requests, task[r] \in {"live", "exited"}
  PROVE  node[r] \in Cpus /\ req[r] # None /\ req[r].hint \in Cpus
<1>1. node[r] \in Cpus /\ req[r] # None
  BY DEF SupInv, OneRequest, InTable, Settled, Untouched
<1> QED BY <1>1 DEF SupInv, TypeOK, SpawnReq

LEMMA ClientKnown ==
  ASSUME SupInv, NEW b \in Clients, Runs(b)
  PROVE  CpuOf(b) \in Cpus /\ TerminalOf(b) \in Cpus
BY LiveKnown DEF Runs, Alive, CpuOf, TerminalOf, Clients

LEMMA ServedKnown ==
  ASSUME SupInv, NEW c \in Cpus, at[c] \in Serving
  PROVE  LET r == cur[c].req
         IN  /\ r \in Requests /\ req[r] # None /\ req[r].hint \in Cpus
             /\ Served(c, r) /\ ServesWell(c, r) /\ Untouched(r)
             /\ Placing(r) /\ Settled(r) /\ InTable(r) /\ OnePlace(r)
             /\ cur[c] \in Msg /\ cur[c].hint = req[r].hint
<1> DEFINE r == cur[c].req
<1>1. r \in Requests /\ OneRequest(r)
  BY DEF SupInv, Messages
<1>2. Served(c, r) /\ Somewhere(r)
  BY DEF Served, Somewhere
<1>3. ServesWell(c, r) /\ Untouched(r) /\ req[r] # None /\ OnePlace(r)
  BY <1>1, <1>2 DEF OneRequest, Placing, Settled
<1>4. req[r].hint \in Cpus /\ cur[c] \in Msg
  BY <1>1, <1>3 DEF SupInv, TypeOK, SpawnReq
<1> QED BY <1>1, <1>2, <1>3, <1>4 DEF OneRequest, ServesWell, Carries

-----------------------------------------------------------------------------
(* Steps of the clients.                                                   *)

LEMMA StepReceive ==
  ASSUME SupInv, NEW r \in Requests, Receive(r)
  PROVE  Messages' /\ \A x \in Requests : OneRequest(x)'
<1>1. \A x \in Requests : hold'[x] = "collected" => hold[x] = "collected"
  BY DEF Receive, SupInv, TypeOK
<1> QED BY <1>1, QuietStep DEF Receive, supVars, netVars, taskVars, history

LEMMA StepWait ==
  ASSUME SupInv, NEW r \in Requests, Wait(r)
  PROVE  Messages' /\ \A x \in Requests : OneRequest(x)'
<1>1. hold' = [hold EXCEPT ![r] = CASE task[r] = "live"   -> "waiting"
                                    [] task[r] = "exited" -> "collected"
                                    [] OTHER              -> "stuck"]
  BY DEF Wait
<1>2. \A x \in Requests : hold'[x] = "collected" => hold[x] = "collected" \/ task[x] = "exited"
  BY <1>1 DEF SupInv, TypeOK
<1> QED BY <1>2, QuietStep DEF Wait, supVars, netVars, taskVars, history

LEMMA StepReadArgs ==
  ASSUME SupInv, NEW r \in Requests, ReadArgs(r)
  PROVE  Messages' /\ \A x \in Requests : OneRequest(x)'
BY QuietStep DEF ReadArgs, supVars, netVars, clientVars, history

LEMMA StepStartWM ==
  ASSUME SupInv, NEW c \in Cpus, StartWM(c)
  PROVE  Messages' /\ \A x \in Requests : OneRequest(x)'
BY QuietStep DEF StartWM, supVars, netVars, taskVars, clientVars, history

LEMMA StepBoot ==
  ASSUME SupInv, NEW c \in Cpus, Boot(c)
  PROVE  Messages' /\ \A x \in Requests : OneRequest(x)'
<1>1. \A d \in Cpus : at'[d] = at[d] \/ {at[d], at'[d]} \cap (Serving \cup {"halted"}) = {}
  BY DEF Boot, SupInv, TypeOK, Serving, Relaying
<1> QED BY <1>1, QuietStep DEF Boot, netVars, taskVars, clientVars, history

-----------------------------------------------------------------------------
(* Steps of a supervisor that moves no message.                            *)

(* Requests other than the one it serves.                                  *)
LEMMA OthersKept ==
  ASSUME SupInv, NEW c \in Cpus, NEW x \in Requests,
         UNCHANGED <<cur, mbox, wire, lost, table, origin, hold>>,
         \A d \in Cpus \ {c} : at'[d] = at[d] /\ peer'[d] = peer[d],
         at[c] # "halted" => at'[c] # "halted",
         ~Served(c, x), ~Served(c, x)',
         task'[x] = task[x], node'[x] = node[x], req'[x] = req[x],
         reply'[x] = reply[x], made'[x] = made[x], hops'[x] = hops[x], mem'[x] = mem[x]
  PROVE  OneRequest(x)'
<1>1. OneRequest(x)
  BY DEF SupInv
<1>2. SameQueues(x)
  BY QueueUnchanged DEF SameQueues
<1>3. SameService(x)
  BY OneSupervisor
<1>4. Creating(x) => Creating(x)'
  <2>1. \A d \in Cpus : at[d] = "create" /\ cur[d].req = x => d # c
    BY DEF Served, Serving
  <2> QED BY <2>1 DEF Creating
<1>5. task[x] = "live" /\ at[node[x]] # "halted" => at'[node[x]] # "halted"
  <2>1. task[x] = "live" => node[x] \in Cpus
    BY <1>1 DEF OneRequest, InTable
  <2> QED BY <2>1
<1>6. SameTable(x)
  BY <1>4, <1>5, SlotsKept DEF SameTable
<1> QED BY <1>1, <1>2, <1>3, <1>6, Unaffected

(* The request it serves, when the supervisor goes on with it.             *)
LEMMA GoesOn ==
  ASSUME SupInv, NEW c \in Cpus, at[c] \in Relaying, at'[c] \in Relaying \cup {"load"},
         UNCHANGED <<cur, mbox, wire, lost, table, origin, hold, task, node, mem, req,
                     reply, made, hops>>,
         \A d \in Cpus \ {c} : at'[d] = at[d] /\ peer'[d] = peer[d],
         ServesWell(c, cur[c].req)',
         at'[c] = "picked" => scan'[c] < NCpus,
         \A d \in Cpus \ {c} : scan'[d] = scan[d]
  PROVE  Messages' /\ \A x \in Requests : OneRequest(x)'
<1> DEFINE q == cur[c].req
<1>0. at[c] \in Serving /\ at[c] \notin {"create", "halted"} /\ at'[c] \in Serving
      /\ at'[c] # "halted"
  BY DEF Serving, Relaying
<1>1. q \in Requests /\ OneRequest(q) /\ Served(c, q)
  BY <1>0, ServedKnown DEF OneRequest
<1>2. ASSUME NEW x \in Requests, x # q PROVE OneRequest(x)'
  <2>1. ~Served(c, x) /\ ~Served(c, x)'
    BY <1>2 DEF Served
  <2> QED BY <2>1, <1>0, OthersKept
<1>3. OneRequest(q)'
  <2>1. SameQueues(q)
    BY QueueUnchanged DEF SameQueues
  <2>2. Served(c, q)'
    BY <1>0 DEF Served
  <2>3. SameService(q)
    BY <1>1, <2>2, OneSupervisor
  <2>4. Creating(q) => Creating(q)'
    BY <1>0 DEF Creating
  <2>5. task[q] = "live" /\ at[node[q]] # "halted" => at'[node[q]] # "halted"
    BY <1>1, <1>0 DEF OneRequest, InTable
  <2>6. SameTable(q)
    BY <1>1, <2>4, <2>5, TableUnchanged
  <2> QED BY <1>1, <2>1, <2>3, <2>6, Unaffected
<1>4. Messages'
  BY <1>0, <1>1 DEF SupInv, Messages
<1> QED BY <1>2, <1>3, <1>4

LEMMA StepPickWalk ==
  ASSUME SupInv, NEW c \in Cpus, PickWalk(c)
  PROVE  Messages' /\ \A x \in Requests : OneRequest(x)'
<1>1. /\ at[c] = "pick" /\ scan[c] < NCpus /\ at'[c] \in {"pick", "picked"}
      /\ \A d \in Cpus \ {c} : at'[d] = at[d] /\ scan'[d] = scan[d]
      /\ at'[c] = "picked" => scan'[c] < NCpus
  BY DEF PickWalk, Goto, SupInv, TypeOK
<1>2. UNCHANGED <<cur, peer, mbox, wire, lost, table, origin, hold, task, node, mem, req,
                  reply, made, hops>>
  BY DEF PickWalk, netVars, taskVars, clientVars, history
<1>3. at[c] \in Relaying /\ at'[c] \in Relaying \cup {"load"} /\ at[c] \in Serving
  BY <1>1 DEF Relaying, Serving
<1>4. ServesWell(c, cur[c].req)'
  BY <1>1, <1>2, <1>3, ServedKnown DEF ServesWell, Carries, StaysLocal, Relaying
<1> QED BY <1>1, <1>2, <1>3, <1>4, GoesOn

LEMMA CandidateCpu ==
  ASSUME TypeOK, NEW c \in Cpus PROVE Candidate(c) \in Cpus
<1>1. counter[c] \in Int /\ scan[c] \in Int
  <2>1. counter[c] \in Cpus /\ scan[c] \in 0 .. NCpus
    BY DEF TypeOK
  <2> QED BY <2>1 DEF Cpus
<1>2. NCpus \in Nat \ {0}
  BY CpusAssumption
<1>3. Candidate(c) \in 0 .. (NCpus - 1)
  BY ONLY <1>1, <1>2 DEF Candidate
<1> QED BY <1>3 DEF Cpus

LEMMA StepPickTerminal ==
  ASSUME SupInv, NEW c \in Cpus, PickTerminal(c)
  PROVE  Messages' /\ \A x \in Requests : OneRequest(x)'
<1> DEFINE p == Candidate(c)
<1>0. p \in Cpus
  BY CandidateCpu DEF SupInv
<1> HIDE DEF p
<1>1. /\ at[c] = "picked" /\ at'[c] \in {"pick", "load", "relay"}
      /\ \A d \in Cpus \ {c} : at'[d] = at[d] /\ scan'[d] = scan[d] /\ peer'[d] = peer[d]
  BY DEF PickTerminal, Goto, SupInv, TypeOK, p
<1>2. UNCHANGED <<cur, mbox, wire, lost, table, origin, hold, task, node, mem, req,
                  reply, made, hops>>
  BY DEF PickTerminal, netVars, taskVars, clientVars, history
<1>3. at[c] \in Relaying /\ at'[c] \in Relaying \cup {"load"} /\ at[c] \in Serving
  BY <1>1 DEF Relaying, Serving
<1>4. ServesWell(c, cur[c].req)'
  <2>1. ServesWell(c, cur[c].req)
    BY <1>3, ServedKnown
  <2>2. cur[c].to = AnyPid /\ AnyPid \notin Cpus
    BY <1>1, <2>1, TargetsAssumption DEF ServesWell
  <2> QED BY <1>1, <1>2, <2>1, <2>2 DEF ServesWell, Carries, StaysLocal, Relaying
<1> QED BY <1>1, <1>2, <1>3, <1>4, GoesOn

LEMMA StepPickSelf ==
  ASSUME SupInv, NEW c \in Cpus, PickSelf(c)
  PROVE  Messages' /\ \A x \in Requests : OneRequest(x)'
<1>1. /\ at[c] = "pick" /\ at'[c] = "load"
      /\ \A d \in Cpus \ {c} : at'[d] = at[d]
  BY DEF PickSelf, Goto, SupInv, TypeOK
<1>2. UNCHANGED <<cur, scan, peer, mbox, wire, lost, table, origin, hold, task, node, mem,
                  req, reply, made, hops>>
  BY DEF PickSelf, netVars, taskVars, clientVars, history
<1>3. at[c] \in Relaying /\ at'[c] \in Relaying \cup {"load"} /\ at[c] \in Serving
  BY <1>1 DEF Relaying, Serving
<1>4. ServesWell(c, cur[c].req)'
  <2>1. ServesWell(c, cur[c].req)
    BY <1>3, ServedKnown
  <2>2. cur[c].to = AnyPid /\ AnyPid \notin Cpus
    BY <1>1, <2>1, TargetsAssumption DEF ServesWell
  <2> QED BY <1>1, <1>2, <2>1, <2>2 DEF ServesWell, Carries, StaysLocal, Relaying
<1> QED BY <1>1, <1>2, <1>3, <1>4, GoesOn

(* A supervisor that refuses what it serves.                               *)
LEMMA Refused ==
  ASSUME SupInv, NEW c \in Cpus, at[c] \in Serving \ {"create"}, at'[c] = "poll",
         \A d \in Cpus \ {c} : at'[d] = at[d],
         UNCHANGED <<cur, scan, peer, mbox, wire, lost, table, origin, hold, task, node,
                     mem, req, made, hops>>,
         Tell(cur[c].req, "no")
  PROVE  Messages' /\ \A x \in Requests : OneRequest(x)'
<1> DEFINE q == cur[c].req
<1>0. "poll" \notin Serving /\ "create" # "poll"
  BY DEF Serving, Relaying
<1>1. /\ q \in Requests /\ OneRequest(q) /\ Served(c, q) /\ Untouched(q) /\ OnePlace(q)
      /\ req[q] # None
  BY ServedKnown DEF OneRequest
<1>2. /\ reply'[q] = <<"no">> /\ Len(<<"no">>) = 1 /\ <<"no">> # <<"ok">> /\ <<"no">> # <<>>
      /\ \A x \in Requests \ {q} : reply'[x] = reply[x]
  BY <1>1 DEF Tell, SupInv, TypeOK, Untouched
<1>3. ASSUME NEW x \in Requests, x # q PROVE OneRequest(x)'
  <2>1. ~Served(c, x) /\ ~Served(c, x)'
    BY <1>3 DEF Served
  <2> QED BY <2>1, <1>2, <1>3, OthersKept
<1>4. ~Somewhere(q)'
  <2>1. \A d \in Cpus : ~Served(d, q)'
    BY <1>0, <1>1, OnlyServed DEF Served
  <2>2. \A d, e \in Cpus : ~InMbox(d, q)' /\ ~InWire(d, e, q)'
    BY <1>1, OnlyServed DEF InMbox, InWire
  <2> QED BY <2>1, <2>2 DEF Somewhere
<1>5. Placing(q)'
  BY <1>1, <1>4, NowherePlacing
<1>6. Settled(q)'
  BY <1>1, <1>2, <1>4 DEF OneRequest, Settled, Untouched, OneTask, Placed
<1>7. ~Creating(q) /\ SlotsOf(q) = {} /\ SlotsOf(q)' = {}
  <2>1. \A d \in Cpus : at[d] = "create" /\ cur[d].req = q => d = c
    BY <1>1, OnlyServed DEF Served, Serving
  <2> QED BY <1>1, <2>1, SlotsKept DEF Creating, Untouched
<1>8. InTable(q)'
  BY <1>1, <1>7 DEF OneRequest, InTable, Untouched
<1>9. Messages'
  BY <1>0 DEF SupInv, Messages
<1> QED BY <1>3, <1>5, <1>6, <1>8, <1>9 DEF OneRequest

LEMMA StepRelayWalk ==
  ASSUME SupInv, NEW c \in Cpus, RelayWalk(c)
  PROVE  Messages' /\ \A x \in Requests : OneRequest(x)'
<1>1. /\ at[c] = "relay"
      /\ \A d \in Cpus \ {c} : at'[d] = at[d]
      /\ \/ at'[c] = "send" /\ reply' = reply
         \/ at'[c] = "poll" /\ Tell(cur[c].req, "no")
  BY DEF RelayWalk, Goto, SupInv, TypeOK
<1>2. UNCHANGED <<cur, scan, peer, mbox, wire, lost, table, origin, hold, task, node, mem,
                  req, made, hops>>
  BY DEF RelayWalk, netVars, taskVars, clientVars
<1>3. at[c] \in Relaying /\ at[c] \in Serving \ {"create"} /\ "send" \in Relaying
  BY <1>1 DEF Relaying, Serving
<1>4. CASE at'[c] = "send" /\ reply' = reply
  <2>1. ServesWell(c, cur[c].req)'
    BY <1>1, <1>2, <1>3, <1>4, ServedKnown DEF ServesWell, Carries, StaysLocal, Relaying
  <2> QED BY <1>1, <1>2, <1>3, <1>4, <2>1, GoesOn
<1>5. CASE at'[c] = "poll" /\ Tell(cur[c].req, "no")
  BY <1>1, <1>2, <1>3, <1>5, Refused
<1> QED BY <1>1, <1>4, <1>5

LEMMA StepLoadFails ==
  ASSUME SupInv, NEW c \in Cpus, LoadFails(c)
  PROVE  Messages' /\ \A x \in Requests : OneRequest(x)'
<1>1. /\ at[c] \in Serving \ {"create"} /\ at'[c] = "poll"
      /\ \A d \in Cpus \ {c} : at'[d] = at[d]
  BY DEF LoadFails, Goto, SupInv, TypeOK, Serving
<1> QED BY <1>1, Refused DEF LoadFails, netVars, taskVars, clientVars

LEMMA StepLoad ==
  ASSUME SupInv, NEW c \in Cpus, Load(c)
  PROVE  Messages' /\ \A x \in Requests : OneRequest(x)'
<1>1. /\ at[c] = "load" /\ at'[c] = "create" /\ at[c] \in Serving /\ at'[c] \in Serving
      /\ "create" \notin Relaying
      /\ \A d \in Cpus \ {c} : at'[d] = at[d]
  BY DEF Load, Goto, SupInv, TypeOK, Serving, Relaying
<1>2. UNCHANGED <<cur, scan, peer, mbox, wire, lost, table, origin, hold, task, node, req,
                  reply, made, hops>>
  BY DEF Load, netVars, clientVars, history
<1> PICK q \in Requests : q = cur[c].req
  BY <1>1, ServedKnown
<1>3. /\ OneRequest(q) /\ Served(c, q) /\ ServesWell(c, q)
      /\ Untouched(q) /\ req[q] # None
  BY <1>1, ServedKnown DEF OneRequest
<1>4. mem'[q] = "held" /\ \A x \in Requests \ {q} : mem'[x] = mem[x]
  BY <1>3 DEF Load, SupInv, TypeOK
<1>5. ASSUME NEW x \in Requests, x # q PROVE OneRequest(x)'
  <2>1. ~Served(c, x) /\ ~Served(c, x)'
    BY <1>2, <1>5 DEF Served
  <2> QED BY <2>1, <1>1, <1>2, <1>4, <1>5, OthersKept
<1>6. SameTokens(q)
  <2>1. Served(c, q)' /\ ServesWell(c, q)'
    BY <1>1, <1>2, <1>3, <1>4 DEF Served, ServesWell, Carries, StaysLocal
  <2>2. \A d \in Cpus \ {c} : ~Served(d, q) /\ ~Served(d, q)'
    BY <1>1, <1>2, <1>3, OnlyServed DEF OneRequest, Placing, Served
  <2>3. SameQueues(q)
    BY <1>2, QueueUnchanged DEF SameQueues
  <2> QED BY <1>2, <1>3, <2>1, <2>2, <2>3 DEF SameTokens, SameService
<1>7. SameFate(q)
  BY <1>2, <1>3, SlotsKept DEF SameFate
<1>8. InTable(q)'
  BY <1>1, <1>2, <1>3 DEF OneRequest, InTable, Untouched, Creating
<1>9. Messages'
  BY <1>1, <1>2 DEF SupInv, Messages
<1>10. OneRequest(q)'
  <2>1. Placing(q) /\ Settled(q)
    BY <1>3 DEF OneRequest
  <2>2. Placing(q)' /\ Settled(q)'
    BY <1>2, <1>6, <1>7, <2>1, TokensKept, FateKept
  <2> QED BY <1>8, <2>2 DEF OneRequest
<1> QED BY <1>5, <1>9, <1>10

(* The steps of a shutdown before the kill, and taking its message.        *)
LEMMA IdleStep ==
  ASSUME SupInv, NEW c \in Cpus, at[c] \notin Serving \cup {"halted"},
         at'[c] \notin Serving \cup {"halted"},
         \A d \in Cpus \ {c} : at'[d] = at[d] /\ cur'[d] = cur[d] /\ scan'[d] = scan[d],
         UNCHANGED <<peer, lost, table, origin, hold, task, node, mem, req, reply, made,
                     hops>>,
         \A x \in Requests : SameQueues(x),
         \A d \in Cpus : Shaped(mbox'[d]),
         \A d, e \in Cpus : Shaped(wire'[d][e])
  PROVE  Messages' /\ \A x \in Requests : OneRequest(x)'
<1>1. ASSUME NEW x \in Requests PROVE OneRequest(x)'
  <2>1. OneRequest(x)
    BY DEF SupInv
  <2>2. ~Served(c, x) /\ ~Served(c, x)'
    BY DEF Served
  <2>3. SameService(x)
    BY <2>2, OneSupervisor
  <2>4. Creating(x) => Creating(x)'
    <3>1. at[c] # "create"
      BY DEF Serving
    <3> QED BY <3>1 DEF Creating
  <2>5. task[x] = "live" /\ at[node[x]] # "halted" => at'[node[x]] # "halted"
    <3>1. task[x] = "live" => node[x] \in Cpus
      BY <2>1 DEF OneRequest, InTable
    <3> QED BY <3>1
  <2>6. SameTable(x)
    BY <2>4, <2>5, TableUnchanged
  <2> QED BY <2>1, <2>3, <2>6, Unaffected
<1>2. Messages'
  BY DEF SupInv, Messages, Serving, Relaying
<1> QED BY <1>1, <1>2

LEMMA NoneIsNoRequest == None \notin Requests /\ None \notin Cpus
BY TargetsAssumption

LEMMA ShapedQueues ==
  ASSUME SupInv
  PROVE  /\ \A d \in Cpus : mbox[d] \in Seq(Msg) /\ Shaped(mbox[d])
         /\ \A d, e \in Cpus : wire[d][e] \in Seq(Msg) /\ Shaped(wire[d][e])
BY DEF SupInv, TypeOK, Messages

LEMMA StepTakeEnd ==
  ASSUME SupInv, NEW c \in Cpus, TakeEnd(c)
  PROVE  Messages' /\ \A x \in Requests : OneRequest(x)'
<1>1. /\ at[c] = "poll" /\ at'[c] \in {"broadcast", "unregister"}
      /\ \A d \in Cpus \ {c} : at'[d] = at[d] /\ cur'[d] = cur[d] /\ scan'[d] = scan[d]
      /\ mbox[c] # <<>> /\ Head(mbox[c]).op = "end"
      /\ mbox' = [mbox EXCEPT ![c] = Tail(@)]
  BY DEF TakeEnd, Takes, Goto, SupInv, TypeOK
<1>2. UNCHANGED <<peer, wire, lost, table, origin, hold, task, node, mem, req, reply, made,
                  hops>>
  BY DEF TakeEnd, taskVars, clientVars, history
<1>3. at[c] \notin Serving \cup {"halted"} /\ at'[c] \notin Serving \cup {"halted"}
  BY <1>1 DEF Serving, Relaying
<1>4. Head(mbox[c]).req = None /\ Shaped(Tail(mbox[c]))
  BY <1>1, ShapedQueues, Removed
<1>5. /\ mbox'[c] = Tail(mbox[c])
      /\ \A d \in Cpus \ {c} : mbox'[d] = mbox[d]
  BY <1>1 DEF SupInv, TypeOK
<1>6. ASSUME NEW x \in Requests PROVE SameQueues(x)
  <2>1. SameQueue(mbox[c], mbox'[c], x)
    BY <1>1, <1>4, <1>5, ShapedQueues, Removed, NoneIsNoRequest DEF SameQueue
  <2> QED BY <1>2, <1>5, <2>1, QueueUnchanged DEF SameQueues
<1>7. /\ \A d \in Cpus : Shaped(mbox'[d])
      /\ \A d, e \in Cpus : Shaped(wire'[d][e])
  BY <1>2, <1>4, <1>5, ShapedQueues
<1> QED BY <1>1, <1>2, <1>3, <1>6, <1>7, IdleStep

(* A message is put on a wire.                                             *)
LEMMA Sent ==
  ASSUME SupInv, NEW c \in Cpus, NEW d \in Cpus, NEW m \in Msg,
         m.op = "spawn" <=> m.req # None, Sends(c, d, m), mbox' = mbox
  PROVE  /\ wire'[c][d] = Append(wire[c][d], m)
         /\ \A e, f \in Cpus : <<e, f>> # <<c, d>> => wire'[e][f] = wire[e][f]
         /\ \A x \in Requests : m.req # x => SameQueues(x)
         /\ \A e, f \in Cpus : Shaped(wire'[e][f])
<1>1. /\ wire'[c][d] = Append(wire[c][d], m)
      /\ \A e, f \in Cpus : <<e, f>> # <<c, d>> => wire'[e][f] = wire[e][f]
  BY DEF Sends, SupInv, TypeOK
<1>2. ASSUME NEW x \in Requests, m.req # x PROVE SameQueues(x)
  <2>1. SameQueue(wire[c][d], wire'[c][d], x)
    BY <1>1, <1>2, ShapedQueues, Appended DEF SameQueue
  <2>2. ASSUME NEW e \in Cpus, NEW f \in Cpus PROVE SameQueue(wire[e][f], wire'[e][f], x)
    BY <1>1, <2>1, QueueUnchanged
  <2> QED BY <2>2, QueueUnchanged DEF SameQueues
<1>3. Shaped(wire'[c][d])
  BY <1>1, ShapedQueues, Appended
<1>4. ASSUME NEW e \in Cpus, NEW f \in Cpus PROVE Shaped(wire'[e][f])
  BY <1>1, <1>3, ShapedQueues
<1> QED BY <1>1, <1>2, <1>4

LEMMA CullMessage ==
  ASSUME NEW c \in Cpus PROVE CullMsg(c) \in Msg /\ CullMsg(c).req = None /\ CullMsg(c).op = "cull"
BY DEF CullMsg, NoMsg, Msg, Targets

LEMMA StepBroadcast ==
  ASSUME SupInv, NEW c \in Cpus, Broadcast(c)
  PROVE  Messages' /\ \A x \in Requests : OneRequest(x)'
<1>1. /\ at[c] = "broadcast" /\ at' = at
      /\ \A d \in Cpus \ {c} : cur'[d] = cur[d] /\ scan'[d] = scan[d]
      /\ scan[c] < NCpus
  BY DEF Broadcast, SupInv, TypeOK
<1>2. UNCHANGED <<peer, mbox, lost, table, origin, hold, task, node, mem, req, reply, made,
                  hops>>
  BY DEF Broadcast, taskVars, clientVars, history
<1>3. at[c] \notin Serving \cup {"halted"}
  BY <1>1 DEF Serving, Relaying
<1>4. (\A x \in Requests : SameQueues(x)) /\ \A d, e \in Cpus : Shaped(wire'[d][e])
  <2>1. CASE wire' = wire
    BY <2>1, <1>2, QueueUnchanged, ShapedQueues DEF SameQueues
  <2>2. CASE Sends(c, scan[c], CullMsg(c))
    <3>1. scan[c] \in Cpus
      BY <1>1, CpusAssumption DEF SupInv, TypeOK, Cpus
    <3> QED BY <1>2, <2>2, <3>1, Sent, CullMessage, NoneIsNoRequest
  <2> QED BY <2>1, <2>2 DEF Broadcast
<1>5. \A d \in Cpus : Shaped(mbox'[d])
  BY <1>2, ShapedQueues
<1> QED BY <1>1, <1>2, <1>3, <1>4, <1>5, IdleStep

LEMMA StepUnregister ==
  ASSUME SupInv, NEW c \in Cpus, Unregister(c)
  PROVE  Messages' /\ \A x \in Requests : OneRequest(x)'
<1>1. \A d \in Cpus : at'[d] = at[d] \/ {at[d], at'[d]} \cap (Serving \cup {"halted"}) = {}
  BY DEF Unregister, Goto, SupInv, TypeOK, Serving, Relaying
<1> QED BY <1>1, QuietStep DEF Unregister, netVars, taskVars, clientVars, history

-----------------------------------------------------------------------------
(* Steps that send or deliver.                                             *)

(* A message for nobody, or for another request, reaches a mailbox.        *)
LEMMA ArrivesKept ==
  ASSUME SupInv, NEW c \in Cpus, NEW m \in Msg, m.op = "spawn" <=> m.req # None,
         Arrives(c, m)
  PROVE  /\ \A d \in Cpus : Shaped(mbox'[d])
         /\ \A x \in Requests, d \in Cpus : m.req # x => SameQueue(mbox[d], mbox'[d], x)
         /\ \A x \in Requests : m.req # x => (x \in lost' <=> x \in lost)
<1>1. CASE mbox' = [mbox EXCEPT ![c] = Append(@, m)] /\ lost' = lost
  <2>1. mbox'[c] = Append(mbox[c], m) /\ \A d \in Cpus \ {c} : mbox'[d] = mbox[d]
    BY <1>1 DEF SupInv, TypeOK
  <2>2. Shaped(mbox'[c]) /\ \A x \in Requests : m.req # x => SameQueue(mbox[c], mbox'[c], x)
    <3>1. mbox[c] \in Seq(Msg) /\ Shaped(mbox[c])
      BY ShapedQueues
    <3>2. Shaped(mbox'[c])
      BY <2>1, <3>1, AppendShaped
    <3>3. ASSUME NEW x \in Requests, m.req # x PROVE SameQueue(mbox[c], mbox'[c], x)
      BY <2>1, <3>1, <3>3, Appended DEF SameQueue
    <3> QED BY <3>2, <3>3
  <2>3. \A d \in Cpus : Shaped(mbox'[d])
    BY <2>1, <2>2, ShapedQueues
  <2> QED BY <1>1, <2>1, <2>2, <2>3, QueueUnchanged
<1>2. CASE mbox' = mbox /\ lost' = lost \cup ({m.req} \ {None})
  BY <1>2, ShapedQueues, QueueUnchanged
<1> QED BY <1>1, <1>2 DEF Arrives

(* The message of a request that was in no mailbox reaches one, or is lost *)
(* and with it the request.                                                *)
LEMMA ArrivesFits ==
  ASSUME SupInv, NEW c \in Cpus, NEW m \in Msg, Arrives(c, m), NEW r \in Requests, m.req = r,
         \A d \in Cpus : ~InMbox(d, r), Carries(m, r, c)',
         \A d \in Cpus : ~Served(d, r)', \A d, e \in Cpus : ~InWire(d, e, r)'
  PROVE  /\ Placing(r)'
         /\ \/ Somewhere(r)' /\ lost' = lost
            \/ ~Somewhere(r)' /\ lost' = lost \cup {r}
<1>1. CASE mbox' = [mbox EXCEPT ![c] = Append(@, m)] /\ lost' = lost
  <2>1. mbox'[c] = Append(mbox[c], m) /\ \A d \in Cpus \ {c} : mbox'[d] = mbox[d]
    BY <1>1 DEF SupInv, TypeOK
  <2>2. Carried(mbox[c], r) = {} /\ \A i \in 1 .. Len(mbox[c]) : mbox[c][i].req # r
    BY DEF InMbox, Carried
  <2>3. Carried(mbox'[c], r) = {m} /\ Once(mbox'[c], r)
    <3>1. Once(mbox[c], r)
      BY <2>2 DEF Once
    <3>2. mbox[c] \in Seq(Msg)
      BY ShapedQueues
    <3>3. Carried(Append(mbox[c], m), r) = Carried(mbox[c], r) \cup {m}
      BY ONLY <3>2, m \in Msg, m.req = r, Appended
    <3>4. Once(Append(mbox[c], m), r)
      BY ONLY <2>2, <3>1, <3>2, m \in Msg, Appended
    <3> QED BY <2>1, <2>2, <3>3, <3>4
  <2>4. \A d \in Cpus \ {c} : Carried(mbox'[d], r) = {}
    BY <2>1 DEF InMbox
  <2>5. \A d, e \in Cpus : Carried(wire'[d][e], r) = {}
    BY DEF InWire
  <2>6. \A q : Carried(q, r) = {} => Once(q, r)
    BY DEF Carried, Once
  <2>7. InMbox(c, r)' /\ \A d \in Cpus : InMbox(d, r)' => d = c
    BY <2>3, <2>4 DEF InMbox
  <2>8. OnePlace(r)'
    BY <2>7 DEF OnePlace
  <2>9. \A d \in Cpus : Fit(mbox[d], r, d)'
    BY <2>3, <2>4, <2>6 DEF Fit
  <2> QED BY <1>1, <2>5, <2>6, <2>7, <2>8, <2>9 DEF Placing, Somewhere, Fit
<1>2. CASE mbox' = mbox /\ lost' = lost \cup {r}
  <2>1. ~Somewhere(r)'
    BY <1>2 DEF Somewhere, InMbox
  <2> QED BY <1>2, <2>1, NowherePlacing
<1> QED BY <1>1, <1>2, NoneIsNoRequest DEF Arrives

(* What an arrival leaves of a request's fate.                             *)
LEMMA ArrivalSettles ==
  ASSUME NEW r \in Requests, Untouched(r), req'[r] # None, hops'[r] <= 1,
         UNCHANGED <<reply, made, task, node, mem, table>>,
         \/ Somewhere(r)' /\ lost' = lost
         \/ ~Somewhere(r)' /\ lost' = lost \cup {r}
  PROVE  Settled(r)'
<1>1. SlotsOf(r)' = SlotsOf(r)
  BY SlotsKept
<1>2. Len(<<>>) = 0 /\ <<>> # <<"ok">>
  OBVIOUS
<1>3. OneTask(r)' /\ Placed(r)'
  BY <1>2 DEF Untouched, OneTask, Placed
<1>4. Somewhere(r)' => Untouched(r)'
  BY <1>1 DEF Untouched
<1> QED BY <1>3, <1>4 DEF Settled

LEMMA UntouchedTable ==
  ASSUME NEW r \in Requests, Untouched(r), InTable(r), ~Creating(r),
         UNCHANGED <<task, mem, table>>, hold'[r] # "collected" \/ hold'[r] = hold[r]
  PROVE  InTable(r)'
<1>1. task'[r] = "none" /\ mem'[r] # "held"
  BY DEF Untouched, InTable
<1>2. hold'[r] # "collected"
  BY DEF Untouched, InTable
<1> QED BY <1>1, <1>2 DEF InTable

LEMMA StepAsk ==
  ASSUME SupInv, NEW b \in Clients, NEW r \in Requests, NEW to \in Targets,
         NEW localOk \in BOOLEAN, Ask(b, r, to, localOk)
  PROVE  Messages' /\ \A x \in Requests : OneRequest(x)'
<1> DEFINE m == SpawnMsg(r, to, TerminalOf(b))
<1>1. CpuOf(b) \in Cpus /\ TerminalOf(b) \in Cpus
  BY ClientKnown DEF Ask
<1> PICK c \in Cpus : c = CpuOf(b)
  BY <1>1
<1> PICK h \in Cpus : h = TerminalOf(b)
  BY <1>1
<1>2. /\ m \in Msg /\ m.op = "spawn" /\ m.req = r /\ m.to = to /\ m.hint = h
      /\ r # None
  BY NoneIsNoRequest DEF SpawnMsg, Msg
<1> PICK n \in Msg : n = m
  BY <1>2
<1>3. Arrives(c, n) /\ n.op = "spawn" /\ n.req = r /\ n.to = to /\ n.hint = h
  BY <1>2 DEF Ask
<1> HIDE DEF m
<1>4. UNCHANGED <<at, cur, scan, peer, wire, table, origin, task, node, mem, reply, made,
                  hops>>
  BY DEF Ask, supVars, taskVars, history
<1>5. /\ req[r] = None /\ hold'[r] = "asked"
      /\ req'[r] = [by |-> b, from |-> c, to |-> to, hint |-> h, localOk |-> localOk]
      /\ \A x \in Requests \ {r} : req'[x] = req[x] /\ hold'[x] = hold[x]
  BY DEF Ask, SupInv, TypeOK
<1>6. Messages'
  <2>1. \A d \in Cpus : Shaped(mbox'[d])
    BY <1>2, <1>3, ArrivesKept
  <2> QED BY <1>4, <2>1 DEF SupInv, Messages
<1>7. ASSUME NEW x \in Requests \ {r} PROVE OneRequest(x)'
  <2>1. OneRequest(x) /\ req'[x] = req[x] /\ hold'[x] = hold[x]
    BY <1>5 DEF SupInv
  <2>2. SameQueues(x) /\ (x \in lost' <=> x \in lost)
    <3>1. \A d \in Cpus : SameQueue(mbox[d], mbox'[d], x)
      BY <1>2, <1>3, ArrivesKept
    <3>2. x \in lost' <=> x \in lost
      BY <1>2, <1>3, ArrivesKept
    <3> QED BY <1>4, <3>1, <3>2, QueueUnchanged DEF SameQueues
  <2>3. SameService(x)
    BY <1>4, <2>1 DEF SameService, Served, ServesWell, Carries, StaysLocal
  <2>4. SameTable(x)
    BY <1>4, <2>1, SlotsKept DEF SameTable, Creating
  <2> QED BY <1>4, <2>1, <2>2, <2>3, <2>4, Unaffected
<1>8. OneRequest(r)'
  <2>1. Settled(r) /\ InTable(r)
    BY DEF SupInv, OneRequest
  <2>2. Untouched(r) /\ hops[r] = 0 /\ ~Somewhere(r)
    BY <1>5, <2>1 DEF Settled
  <2>3. /\ \A d \in Cpus : ~InMbox(d, r) /\ ~Served(d, r)'
        /\ \A d, e \in Cpus : ~InWire(d, e, r)'
    BY <1>4, <2>2 DEF Somewhere, Served, InWire
  <2>4. Carries(n, r, c)'
    BY <1>3, <1>4, <1>5, <2>2 DEF Carries
  <2>5. /\ Placing(r)'
        /\ \/ Somewhere(r)' /\ lost' = lost
           \/ ~Somewhere(r)' /\ lost' = lost \cup {r}
    BY <1>3, <2>3, <2>4, ArrivesFits
  <2>6. Settled(r)'
    <3>1. req'[r] \in SpawnReq
      <4>1. b \in Clients /\ c \in Cpus /\ to \in Targets /\ h \in Cpus /\ localOk \in BOOLEAN
        OBVIOUS
      <4> QED BY <1>5, <4>1 DEF SpawnReq
    <3>2. req'[r] # None
      BY <3>1, TargetsAssumption
    <3> QED BY <1>4, <2>2, <2>5, <3>2, ArrivalSettles
  <2>7. ~Creating(r)
    BY <2>2 DEF Creating, Somewhere, Served, Serving
  <2> QED BY <1>4, <1>5, <2>1, <2>2, <2>5, <2>6, <2>7, UntouchedTable DEF OneRequest
<1> QED BY <1>6, <1>7, <1>8

LEMMA NoMessage == NoMsg \in Msg /\ NoMsg.req = None /\ NoMsg.op = "end"
BY DEF NoMsg, Msg, Targets

LEMMA StepEndSession ==
  ASSUME SupInv, NEW b \in Clients, EndSession(b)
  PROVE  Messages' /\ \A x \in Requests : OneRequest(x)'
<1>1. PICK c \in Cpus : Arrives(c, NoMsg)
  BY ClientKnown DEF EndSession
<1>2. UNCHANGED <<at, cur, scan, peer, wire, table, origin, task, node, mem, reply, made,
                  hops, req, hold>>
  BY DEF EndSession, supVars, taskVars, history
<1>3. \A d \in Cpus : Shaped(mbox'[d])
  BY <1>1, ArrivesKept, NoMessage
<1>4. Messages'
  BY <1>2, <1>3 DEF SupInv, Messages
<1>5. ASSUME NEW x \in Requests PROVE OneRequest(x)'
  <2>1. SameQueues(x) /\ (x \in lost' <=> x \in lost)
    <3>1. \A d \in Cpus : SameQueue(mbox[d], mbox'[d], x)
      BY <1>1, ArrivesKept, NoMessage, NoneIsNoRequest
    <3>2. x \in lost' <=> x \in lost
      BY <1>1, ArrivesKept, NoMessage, NoneIsNoRequest
    <3> QED BY <1>2, <3>1, <3>2, QueueUnchanged DEF SameQueues
  <2>2. SameService(x)
    BY <1>2 DEF SameService, Served, ServesWell, Carries, StaysLocal
  <2>3. SameTable(x)
    BY <1>2, SlotsKept DEF SameTable, Creating
  <2> QED BY <1>2, <2>1, <2>2, <2>3, Unaffected DEF SupInv
<1> QED BY <1>4, <1>5

LEMMA StepDeliver ==
  ASSUME SupInv, NEW c \in Cpus, NEW d \in Cpus, Deliver(c, d)
  PROVE  Messages' /\ \A x \in Requests : OneRequest(x)'
<1>1. /\ wire[c][d] # <<>> /\ wire[c][d] \in Seq(Msg) /\ Shaped(wire[c][d])
      /\ wire'[c][d] = Tail(wire[c][d])
      /\ \A e, f \in Cpus : <<e, f>> # <<c, d>> => wire'[e][f] = wire[e][f]
  BY ShapedQueues DEF Deliver, SupInv, TypeOK
<1>2. PICK m \in Msg : m = Head(wire[c][d])
  BY <1>1, Removed
<1>3. /\ Arrives(d, m) /\ (m.op = "spawn" <=> m.req # None) /\ Shaped(wire'[c][d])
  <2>1. Shaped(Tail(wire[c][d])) /\ (m.op = "spawn" <=> m.req # None)
    BY <1>1, <1>2, Removed
  <2> QED BY <1>1, <1>2, <2>1 DEF Deliver
<1>4. UNCHANGED <<at, cur, scan, peer, table, origin, task, node, mem, reply, made, hops,
                  req, hold>>
  BY DEF Deliver, supVars, taskVars, clientVars, history
<1>5. Messages'
  <2>1. \A e \in Cpus : Shaped(mbox'[e])
    BY <1>3, ArrivesKept
  <2>2. ASSUME NEW e \in Cpus, NEW f \in Cpus PROVE Shaped(wire'[e][f])
    BY <1>1, <1>3, ShapedQueues
  <2> QED BY <1>4, <2>1, <2>2 DEF SupInv, Messages
<1>6. ASSUME NEW x \in Requests, m.req # x PROVE OneRequest(x)'
  <2>1. \A e \in Cpus : SameQueue(mbox[e], mbox'[e], x)
    BY <1>3, <1>6, ArrivesKept
  <2>2. x \in lost' <=> x \in lost
    BY <1>3, <1>6, ArrivesKept
  <2>3. SameQueue(wire[c][d], wire'[c][d], x)
    BY <1>1, <1>2, <1>6, Removed DEF SameQueue
  <2>4. ASSUME NEW e \in Cpus, NEW f \in Cpus PROVE SameQueue(wire[e][f], wire'[e][f], x)
    BY <1>1, <2>3, QueueUnchanged
  <2>5. SameQueues(x)
    BY <2>1, <2>4 DEF SameQueues
  <2>6. SameService(x)
    BY <1>4 DEF SameService, Served, ServesWell, Carries, StaysLocal
  <2>7. SameTable(x)
    BY <1>4, SlotsKept DEF SameTable, Creating
  <2> QED BY <1>4, <2>2, <2>5, <2>6, <2>7, Unaffected DEF SupInv
<1>7. ASSUME NEW r \in Requests, m.req = r PROVE OneRequest(r)'
  <2>1. OneRequest(r)
    BY DEF SupInv
  <2>2. Fit(wire[c][d], r, d) /\ OnePlace(r) /\ m \in Carried(wire[c][d], r)
    BY <1>1, <1>2, <1>7, <2>1, Removed DEF OneRequest, Placing
  <2>3. InWire(c, d, r) /\ Carries(m, r, d) /\ Carried(wire'[c][d], r) = {}
    BY <1>1, <1>2, <1>7, <2>2, Removed DEF InWire, Fit
  <2>4. Somewhere(r) /\ Untouched(r) /\ req[r] # None /\ hops[r] <= 1
    BY <2>1, <2>3 DEF OneRequest, Settled, Somewhere, Placed
  <2>5. /\ \A e \in Cpus : ~InMbox(e, r) /\ ~Served(e, r) /\ ~Served(e, r)'
        /\ \A e, f \in Cpus : ~InWire(e, f, r)'
    <3>1. /\ \A e \in Cpus : ~Served(e, r) /\ ~InMbox(e, r)
          /\ \A e, f \in Cpus : InWire(e, f, r) => e = c /\ f = d
      BY <2>2, <2>3, OnlyWire
    <3>2. \A e \in Cpus : ~Served(e, r)'
      BY <1>4, <3>1 DEF Served
    <3>3. ASSUME NEW e \in Cpus, NEW f \in Cpus PROVE ~InWire(e, f, r)'
      BY <1>1, <2>3, <3>1 DEF InWire
    <3> QED BY <3>1, <3>2, <3>3
  <2>6. Carries(m, r, d)'
    BY <1>4, <2>3 DEF Carries, StaysLocal
  <2>7. /\ Placing(r)'
        /\ \/ Somewhere(r)' /\ lost' = lost
           \/ ~Somewhere(r)' /\ lost' = lost \cup {r}
    BY <1>3, <1>7, <2>5, <2>6, ArrivesFits
  <2>8. Settled(r)'
    BY <1>4, <2>4, <2>7, ArrivalSettles
  <2>9. ~Creating(r)
    BY <2>5 DEF Creating, Served, Serving
  <2> QED BY <1>4, <2>1, <2>4, <2>7, <2>8, <2>9, UntouchedTable DEF OneRequest
<1> QED BY <1>5, <1>6, <1>7

LEMMA StepRelaySend ==
  ASSUME SupInv, NEW c \in Cpus, RelaySend(c)
  PROVE  Messages' /\ \A x \in Requests : OneRequest(x)'
<1>1. /\ at[c] = "send" /\ at'[c] = "poll" /\ at[c] \in Relaying /\ at[c] \in Serving
      /\ "poll" \notin Serving
      /\ \A e \in Cpus \ {c} : at'[e] = at[e]
  BY DEF RelaySend, Goto, SupInv, TypeOK, Relaying, Serving
<1>2. UNCHANGED <<cur, scan, peer, mbox, lost, table, origin, hold, task, node, mem, req,
                  reply, made>>
  BY DEF RelaySend, taskVars, clientVars
<1>3. PICK q \in Requests : q = cur[c].req
  BY <1>1, ServedKnown
<1>4. /\ OneRequest(q) /\ Served(c, q) /\ ServesWell(c, q) /\ Untouched(q) /\ OnePlace(q)
      /\ req[q] # None /\ cur[c] \in Msg /\ cur[c].hint = req[q].hint
      /\ req[q].hint \in Cpus
  BY <1>1, <1>3, ServedKnown DEF OneRequest
<1>5. PICK d \in Cpus : d = peer[c]
  BY DEF SupInv, TypeOK
<1>6. PICK m \in Msg : m = SpawnMsg(q, LocalPid, cur[c].hint)
  BY <1>4 DEF SpawnMsg, Msg, Targets
<1>7. /\ m.op = "spawn" /\ m.req = q /\ m.to = LocalPid /\ m.hint = req[q].hint
      /\ (m.op = "spawn" <=> m.req # None) /\ Sends(c, d, m)
  BY <1>3, <1>4, <1>5, <1>6, NoneIsNoRequest DEF SpawnMsg, RelaySend
<1>8. /\ hops[q] = 0 /\ hops'[q] = 1
      /\ \A x \in Requests \ {q} : hops'[x] = hops[x]
  BY <1>1, <1>3, <1>4 DEF RelaySend, ServesWell, SupInv, TypeOK
<1>9. /\ wire'[c][d] = Append(wire[c][d], m)
      /\ \A e, f \in Cpus : <<e, f>> # <<c, d>> => wire'[e][f] = wire[e][f]
      /\ \A x \in Requests : q # x => SameQueues(x)
      /\ \A e, f \in Cpus : Shaped(wire'[e][f])
  BY <1>2, <1>7, Sent
<1>10. Messages'
  BY <1>1, <1>2, <1>9 DEF SupInv, Messages
<1>11. ASSUME NEW x \in Requests, x # q PROVE OneRequest(x)'
  <2>1. OneRequest(x) /\ ~Served(c, x) /\ ~Served(c, x)'
    BY <1>2, <1>3, <1>11 DEF SupInv, Served
  <2>2. SameService(x)
    BY <1>1, <1>2, <1>8, <1>11, <2>1, OneSupervisor
  <2>3. SameTable(x)
    <3>1. Creating(x) => Creating(x)'
      BY <1>1, <1>2 DEF Creating
    <3>2. task[x] = "live" /\ at[node[x]] # "halted" => at'[node[x]] # "halted"
      BY <1>1, <2>1 DEF OneRequest, InTable
    <3> QED BY <1>2, <3>1, <3>2, TableUnchanged
  <2> QED BY <1>2, <1>8, <1>9, <1>11, <2>1, <2>2, <2>3, Unaffected
<1>12. OneRequest(q)'
  <2>1. /\ \A e \in Cpus : ~InMbox(e, q) /\ (Served(e, q) => e = c)
        /\ \A e, f \in Cpus : ~InWire(e, f, q)
    BY <1>4, OnlyServed
  <2>2. Carries(m, q, d)'
    <3>1. cur[c].to # LocalPid /\ ~StaysLocal(q) /\ cur[c].to = req[q].to
      BY <1>1, <1>4, <1>8 DEF ServesWell, Carries
    <3>2. req[q].to \in Cpus => d = req[q].to
      BY <1>1, <1>4, <1>5, <3>1 DEF ServesWell
    <3> QED BY <1>2, <1>7, <1>8, <3>1, <3>2 DEF Carries, StaysLocal
  <2>3. Carried(wire'[c][d], q) = {m} /\ Once(wire'[c][d], q)
    <3>1. Carried(wire[c][d], q) = {}
      BY <2>1 DEF InWire
    <3>2. Once(wire[c][d], q) /\ wire[c][d] \in Seq(Msg)
      BY <1>4, ShapedQueues DEF OneRequest, Placing, Fit
    <3>3. Carried(Append(wire[c][d], m), q) = Carried(wire[c][d], q) \cup {m}
      BY ONLY <3>2, m \in Msg, <1>7, Appended
    <3>4. Once(Append(wire[c][d], m), q)
      BY ONLY <3>1, <3>2, m \in Msg, Appended
    <3> QED BY <1>9, <3>1, <3>3, <3>4
  <2>4. \A e, f \in Cpus : <<e, f>> # <<c, d>> => Carried(wire'[e][f], q) = {}
    BY <1>9, <2>1 DEF InWire
  <2>5. \A e \in Cpus : Carried(mbox'[e], q) = {} /\ ~Served(e, q)' /\ ~InMbox(e, q)'
    BY <1>1, <1>2, <2>1 DEF InMbox, Served
  <2>6. \A s : Carried(s, q) = {} => Once(s, q)
    BY DEF Carried, Once
  <2>7. InWire(c, d, q)' /\ \A e, f \in Cpus : InWire(e, f, q)' => e = c /\ f = d
    BY <2>3, <2>4 DEF InWire
  <2>8. OnePlace(q)'
    BY <2>5, <2>7 DEF OnePlace
  <2>9. ASSUME NEW e \in Cpus, NEW f \in Cpus PROVE Fit(wire[e][f], q, f)'
    BY <2>2, <2>3, <2>4, <2>6 DEF Fit
  <2>10. Placing(q)'
    BY <2>5, <2>6, <2>8, <2>9 DEF Placing, Fit
  <2>11. Settled(q)'
    <3>1. Somewhere(q)' /\ Untouched(q)'
      BY <1>2, <1>4, <2>7, SlotsKept DEF Somewhere, Untouched
    <3>2. OneTask(q)' /\ Placed(q)'
      BY <1>2, <1>4, <1>8 DEF OneRequest, Settled, OneTask, Placed, Untouched
    <3> QED BY <1>2, <1>4, <3>1, <3>2 DEF Settled
  <2>12. ~Creating(q)
    BY <1>1, <2>1 DEF Creating, Served, Serving
  <2> QED BY <1>2, <1>4, <2>10, <2>11, <2>12, UntouchedTable DEF OneRequest
<1> QED BY <1>10, <1>11, <1>12

-----------------------------------------------------------------------------
(* Steps that end tasks or free them.                                      *)

(* A supervisor reaps: what has ended among its own tasks is freed, with   *)
(* all that was theirs, and no other task is touched.                      *)
LEMMA ReapKeeps ==
  ASSUME SupInv, NEW c \in Cpus, NEW t, Reap(c, t),
         \A x \in Requests :
           \/ t[x] = task[x]
           \/ task[x] = "live" /\ t[x] = "exited" /\ \E s \in Slot : table[c][s] = x,
         NEW r \in Requests, node'[r] = node[r], req'[r] = req[r]
  PROVE  /\ task'[r] = "none" <=> task[r] = "none"
         /\ SlotsOf(r) = {} => SlotsOf(r)' = {}
         /\ task[r] = "none" => mem'[r] = mem[r]
         /\ mem'[r] = mem[r] \/ mem'[r] = "freed"
         /\ (/\ task[r] = "live" /\ at[node[r]] # "halted" => at'[node[r]] # "halted"
             /\ Creating(r) => Creating(r)'
             /\ hold'[r] = "collected" => hold[r] = "collected" \/ t[r] = "exited")
              => InTable(r)'
<1> DEFINE done == ExitedSlots(c, t)
           gone == {table[c][s] : s \in done}
<1>1. InTable(r) /\ r # None
  BY NoneIsNoRequest DEF SupInv, OneRequest
<1>2. /\ task'[r] = IF r \in gone THEN "freed" ELSE t[r]
      /\ mem'[r] = IF r \in gone THEN "freed" ELSE mem[r]
  BY DEF Reap
<1>3. /\ \A s \in Slot : table'[c][s] = IF s \in done THEN None ELSE table[c][s]
      /\ \A s \in Slot : origin'[c][s] = IF s \in done THEN None ELSE origin[c][s]
      /\ \A d \in Cpus \ {c}, s \in Slot : table'[d][s] = table[d][s] /\ origin'[d][s] = origin[d][s]
  BY DEF Reap, SupInv, TypeOK
<1>4. \A s \in Slot : s \in done <=> table[c][s] # None /\ t[table[c][s]] = "exited"
  BY DEF ExitedSlots
<1>5. r \in gone <=> \E s \in Slot : s \in done /\ table[c][s] = r
  BY DEF ExitedSlots
<1> HIDE DEF done, gone
<1>6. CASE r \in gone
  <2>1. PICK s \in Slot : table[c][s] = r /\ t[r] = "exited"
    BY <1>4, <1>5, <1>6
  <2>2. task[r] \in {"live", "exited"} /\ task'[r] = "freed" /\ mem'[r] = "freed"
    BY <1>2, <1>6, <2>1
  <2>3. <<c, s>> \in SlotsOf(r)
    BY <2>1 DEF SlotsOf
  <2> QED BY <2>2, <2>3 DEF InTable
<1>7. CASE r \notin gone
  <2>1. t[r] = task[r]
    BY <1>1, <1>4, <1>5, <1>7
  <2>2. \A d \in Cpus, s \in Slot : table'[d][s] = r <=> table[d][s] = r
    BY <1>1, <1>3, <1>5, <1>7
  <2>3. \A d \in Cpus, s \in Slot : table[d][s] = r => origin'[d][s] = origin[d][s]
    BY <1>3, <1>5, <1>7
  <2>4. SlotsOf(r)' = SlotsOf(r)
    BY <2>2, SlotsKept
  <2>5. task'[r] = task[r] /\ mem'[r] = mem[r]
    BY <1>2, <1>7, <2>1
  <2>6. (/\ task[r] = "live" /\ at[node[r]] # "halted" => at'[node[r]] # "halted"
         /\ Creating(r) => Creating(r)'
         /\ hold'[r] = "collected" => hold[r] = "collected" \/ t[r] = "exited") => SameTable(r)
    BY <2>1, <2>3, <2>4, <2>5 DEF SameTable
  <2>7. SameTable(r) => InTable(r)'
    BY <1>1, TableKept
  <2> QED BY <2>4, <2>5, <2>6, <2>7
<1> QED BY <1>6, <1>7

(* What taking a message leaves of the other mailboxes and of the other    *)
(* requests in its own.                                                    *)
LEMMA Taken ==
  ASSUME SupInv, NEW c \in Cpus, mbox[c] # <<>>, mbox' = [mbox EXCEPT ![c] = Tail(@)],
         wire' = wire
  PROVE  /\ mbox'[c] = Tail(mbox[c]) /\ \A d \in Cpus \ {c} : mbox'[d] = mbox[d]
         /\ Head(mbox[c]) \in Msg
         /\ Head(mbox[c]).op = "spawn" <=> Head(mbox[c]).req # None
         /\ \A d \in Cpus : Shaped(mbox'[d])
         /\ \A x \in Requests : Head(mbox[c]).req # x => SameQueues(x)
<1>1. mbox'[c] = Tail(mbox[c]) /\ \A d \in Cpus \ {c} : mbox'[d] = mbox[d]
  BY DEF SupInv, TypeOK
<1>2. mbox[c] \in Seq(Msg) /\ Shaped(mbox[c])
  BY ShapedQueues
<1>4. /\ Head(mbox[c]) \in Msg /\ Shaped(Tail(mbox[c]))
      /\ Head(mbox[c]).op = "spawn" <=> Head(mbox[c]).req # None
  BY <1>2, Removed, NoneIsNoRequest
<1>5. ASSUME NEW x \in Requests, Head(mbox[c]).req # x PROVE SameQueues(x)
  <2>1. SameQueue(mbox[c], mbox'[c], x)
    BY <1>1, <1>2, <1>5, Removed DEF SameQueue
  <2> QED BY <1>1, <2>1, QueueUnchanged DEF SameQueues
<1>6. \A d \in Cpus : Shaped(mbox'[d])
  BY <1>1, <1>4, ShapedQueues
<1> QED BY <1>1, <1>4, <1>5, <1>6

(* How a message that is taken is served.                                  *)
LEMMA PlacementServes ==
  ASSUME SupInv, NEW c \in Cpus, NEW q \in Requests, NEW m \in Msg, Carries(m, q, c),
         m.req = q, cur'[c] = m, at'[c] = Placement(c, m), req[q] # None,
         peer'[c] = IF m.to \in Cpus THEN m.to ELSE c, req' = req, hops' = hops
  PROVE  Served(c, q)' /\ ServesWell(c, q)'
<1>1. at'[c] \in {"pick", "relay", "load"}
  BY DEF Placement
<1>2. at'[c] = "pick" => m.to = AnyPid /\ ~(c \in Terminals /\ req[q].localOk)
  BY DEF Placement
<1>3. at'[c] = "relay" => m.to \in Cpus /\ m.to # c /\ m.to # AnyPid
  BY TargetsAssumption DEF Placement
<1>4. at'[c] = "load" /\ m.to \in Cpus => m.to = c
  BY TargetsAssumption DEF Placement
<1>5. m.to = LocalPid => at'[c] = "load"
  BY TargetsAssumption DEF Placement
<1>6. at'[c] \in {"pick", "relay"} => hops[q] = 0 /\ m.to # LocalPid /\ ~StaysLocal(q)
  BY <1>2, <1>3, <1>5 DEF Carries, StaysLocal
<1>7. Served(c, q)'
  BY <1>1 DEF Served, Serving, Relaying
<1>8. Carries(cur[c], q, c)'
  BY DEF Carries, StaysLocal
<1>9. at'[c] \in Relaying => at'[c] \in {"pick", "relay"}
  BY <1>1 DEF Relaying
<1>10. StaysLocal(q)' <=> StaysLocal(q)
  BY DEF StaysLocal
<1> QED BY <1>1, <1>2, <1>3, <1>4, <1>6, <1>7, <1>8, <1>9, <1>10 DEF ServesWell

LEMMA StepTakeSpawn ==
  ASSUME SupInv, NEW c \in Cpus, TakeSpawn(c)
  PROVE  Messages' /\ \A x \in Requests : OneRequest(x)'
<1>1. /\ at[c] = "poll" /\ mbox[c] # <<>> /\ Head(mbox[c]).op = "spawn"
      /\ mbox' = [mbox EXCEPT ![c] = Tail(@)] /\ cur'[c] = Head(mbox[c])
      /\ at'[c] = Placement(c, Head(mbox[c]))
      /\ peer'[c] = IF Head(mbox[c]).to \in Cpus THEN Head(mbox[c]).to ELSE c
      /\ \A d \in Cpus \ {c} : /\ at'[d] = at[d] /\ cur'[d] = cur[d]
                               /\ peer'[d] = peer[d] /\ scan'[d] = scan[d]
      /\ Reap(c, task)
  BY DEF TakeSpawn, Takes, Goto, SupInv, TypeOK
<1>2. UNCHANGED <<wire, lost, node, req, hold, reply, made, hops>>
  BY DEF TakeSpawn, history
<1>3. /\ mbox'[c] = Tail(mbox[c]) /\ \A d \in Cpus \ {c} : mbox'[d] = mbox[d]
      /\ Head(mbox[c]) \in Msg
      /\ Head(mbox[c]).op = "spawn" <=> Head(mbox[c]).req # None
      /\ \A d \in Cpus : Shaped(mbox'[d])
      /\ \A x \in Requests : Head(mbox[c]).req # x => SameQueues(x)
  BY <1>1, <1>2, Taken
<1>4. PICK m \in Msg : m = Head(mbox[c])
  BY <1>3
<1>5. PICK q \in Requests : q = m.req
  BY <1>1, <1>3, <1>4 DEF Msg
<1>6. at[c] \notin Serving /\ at'[c] \notin {"create", "halted", "picked"}
  <2>1. at'[c] \in {"pick", "relay", "load"}
    BY <1>1 DEF Placement
  <2> QED BY <1>1, <2>1 DEF Serving, Relaying
<1>7. ASSUME NEW x \in Requests
      PROVE  /\ task'[x] = "none" <=> task[x] = "none"
             /\ SlotsOf(x) = {} => SlotsOf(x)' = {}
             /\ task[x] = "none" => mem'[x] = mem[x]
             /\ InTable(x)'
  <2>1. OneRequest(x) /\ node'[x] = node[x] /\ req'[x] = req[x]
    BY <1>2 DEF SupInv
  <2>2. task[x] = "live" /\ at[node[x]] # "halted" => at'[node[x]] # "halted"
    BY <1>1, <1>6, <2>1 DEF OneRequest, InTable
  <2>3. Creating(x) => Creating(x)'
    BY <1>1, <1>6 DEF Creating, Serving
  <2>4. hold'[x] = "collected" => hold[x] = "collected"
    BY <1>2
  <2> QED BY <1>1, <2>1, <2>2, <2>3, <2>4, ReapKeeps
<1>8. /\ OneRequest(q) /\ Fit(mbox[c], q, c) /\ OnePlace(q) /\ m \in Carried(mbox[c], q)
      /\ Carried(mbox'[c], q) = {}
  <2>1. mbox[c] \in Seq(Msg) /\ OneRequest(q) /\ Fit(mbox[c], q, c) /\ OnePlace(q)
    BY ShapedQueues DEF SupInv, OneRequest, Placing
  <2> QED BY <1>1, <1>3, <1>4, <1>5, <2>1, Removed DEF Fit
<1>9. InMbox(c, q) /\ Carries(m, q, c) /\ Somewhere(q)
  BY <1>8 DEF InMbox, Fit, Somewhere
<1>10. Untouched(q) /\ req[q] # None
  BY <1>8, <1>9 DEF OneRequest, Settled
<1>11. mem'[q] = mem[q]
  BY <1>7, <1>10 DEF Untouched
<1>12. Served(c, q)' /\ ServesWell(c, q)'
  <2>1. /\ cur'[c] = m /\ at'[c] = Placement(c, m)
        /\ peer'[c] = IF m.to \in Cpus THEN m.to ELSE c
    BY <1>1, <1>4
  <2> QED BY <1>2, <1>4, <1>5, <1>9, <1>10, <2>1, PlacementServes
<1>13. ASSUME NEW x \in Requests, x # q PROVE OneRequest(x)'
  <2>1. OneRequest(x) /\ SameQueues(x) /\ ~Served(c, x) /\ ~Served(c, x)'
    BY <1>1, <1>3, <1>4, <1>5, <1>6, <1>13 DEF SupInv, Served
  <2>2. SameService(x)
    <3>1. ASSUME NEW d \in Cpus \ {c}
          PROVE  /\ Served(d, x)' <=> Served(d, x)
                 /\ Served(d, x) /\ ServesWell(d, x) => ServesWell(d, x)'
      <4>1. Served(d, x) => task[x] = "none"
        BY <2>1 DEF OneRequest, Settled, Somewhere, Untouched
      <4>2. Served(d, x) => mem'[x] = mem[x]
        BY <1>7, <4>1
      <4> QED BY <1>1, <1>2, <4>2 DEF Served, ServesWell, Carries, StaysLocal
    <3> QED BY <2>1, <3>1 DEF SameService
  <2>3. SameTokens(x)
    BY <1>2, <2>1, <2>2 DEF SameTokens
  <2>4. SameFate(x)
    BY <1>2, <1>7 DEF SameFate
  <2>5. Placing(x)' /\ Settled(x)'
    BY <1>2, <2>1, <2>3, <2>4, TokensKept, FateKept DEF OneRequest
  <2> QED BY <1>7, <2>5 DEF OneRequest
<1>14. OneRequest(q)'
  <2>1. /\ \A d \in Cpus : ~Served(d, q) /\ (InMbox(d, q) => d = c)
        /\ \A d, e \in Cpus : ~InWire(d, e, q)
    BY <1>8, <1>9, OnlyMbox
  <2>2. /\ \A d \in Cpus : Carried(mbox'[d], q) = {} /\ (Served(d, q)' => d = c)
        /\ \A d, e \in Cpus : Carried(wire'[d][e], q) = {}
    BY <1>1, <1>2, <1>3, <1>8, <2>1 DEF InMbox, InWire, Served
  <2>3. \A s : Carried(s, q) = {} => Once(s, q)
    BY DEF Carried, Once
  <2>4. OnePlace(q)'
    BY <2>2 DEF OnePlace, InMbox, InWire
  <2>5. Placing(q)'
    BY <1>12, <2>2, <2>3, <2>4 DEF Placing, Fit
  <2>6. SameFate(q)
    BY <1>2, <1>7 DEF SameFate
  <2>7. Settled(q)'
    BY <1>2, <1>8, <1>9, <2>6, FateKept DEF OneRequest
  <2> QED BY <1>7, <2>5, <2>7 DEF OneRequest
<1>15. Messages'
  <2>1. \A d \in Cpus : at'[d] \in Serving => cur'[d].req \in Requests
    BY <1>1, <1>4, <1>5 DEF SupInv, Messages
  <2>2. \A d \in Cpus : at'[d] = "picked" => scan'[d] < NCpus
    BY <1>1, <1>6 DEF SupInv, Messages
  <2>3. \A d, e \in Cpus : Shaped(wire'[d][e])
    BY <1>2, ShapedQueues
  <2> QED BY <1>3, <2>1, <2>2, <2>3 DEF Messages
<1> QED BY <1>13, <1>14, <1>15

LEMMA StepTakeCull ==
  ASSUME SupInv, NEW c \in Cpus, TakeCull(c)
  PROVE  Messages' /\ \A x \in Requests : OneRequest(x)'
<1> DEFINE S == {s \in Slot : table[c][s] # None /\ origin[c][s] = Head(mbox[c]).hint}
           dying == {table[c][s] : s \in S} \cap {r \in Requests : task[r] = "live"}
           killed == [r \in Requests |-> IF r \in dying THEN "exited" ELSE task[r]]
<1>1. /\ at[c] = "poll" /\ mbox[c] # <<>> /\ Head(mbox[c]).op = "cull"
      /\ mbox' = [mbox EXCEPT ![c] = Tail(@)]
      /\ \A d \in Cpus \ {c} : cur'[d] = cur[d]
      /\ hold' = [r \in Requests |->
                    IF r \in dying /\ hold[r] = "waiting" THEN "collected" ELSE hold[r]]
      /\ IF S = {} THEN UNCHANGED <<table, origin, task, mem>> ELSE Reap(c, killed)
  BY DEF TakeCull, Takes, SupInv, TypeOK
<1>2. UNCHANGED <<at, scan, peer, wire, lost, node, req, reply, made, hops>>
  BY DEF TakeCull, history
<1>3. /\ Head(mbox[c]) \in Msg
      /\ Head(mbox[c]).op = "spawn" <=> Head(mbox[c]).req # None
      /\ \A d \in Cpus : Shaped(mbox'[d])
      /\ \A x \in Requests : Head(mbox[c]).req # x => SameQueues(x)
  BY <1>1, <1>2, Taken
<1>4. \A x \in Requests : SameQueues(x)
  BY <1>1, <1>3, NoneIsNoRequest
<1>5. at[c] \notin Serving
  BY <1>1 DEF Serving, Relaying
<1>6. \A x \in Requests :
        \/ killed[x] = task[x]
        \/ task[x] = "live" /\ killed[x] = "exited" /\ \E s \in Slot : table[c][s] = x
  OBVIOUS
<1>7. \A x \in Requests : hold'[x] = "collected" => hold[x] = "collected" \/ killed[x] = "exited"
  BY <1>1
<1>8. S = {} => hold' = hold
  <2>1. S = {} => dying = {}
    OBVIOUS
  <2> QED BY <1>1, <2>1 DEF SupInv, TypeOK
<1> HIDE DEF killed, dying, S
<1>9. ASSUME NEW x \in Requests
      PROVE  /\ task'[x] = "none" <=> task[x] = "none"
             /\ SlotsOf(x) = {} => SlotsOf(x)' = {}
             /\ task[x] = "none" => mem'[x] = mem[x]
             /\ InTable(x)'
  <2>1. OneRequest(x) /\ node'[x] = node[x] /\ req'[x] = req[x] /\ InTable(x)
    BY <1>2 DEF SupInv, OneRequest
  <2>2. Creating(x) => Creating(x)'
    <3>1. at[c] # "create"
      BY <1>1
    <3> QED BY <1>1, <1>2, <3>1 DEF Creating
  <2>3. CASE S = {}
    <3>1. UNCHANGED <<table, origin, task, mem, hold>>
      BY <1>1, <1>8, <2>3
    <3>2. SameTable(x)
      BY <1>2, <2>1, <2>2, <3>1, TableUnchanged
    <3> QED BY <2>1, <3>1, <3>2, TableKept DEF SameTable
  <2>4. CASE S # {}
    <3>1. Reap(c, killed)
      BY <1>1, <2>4
    <3>2. task[x] = "live" /\ at[node[x]] # "halted" => at'[node[x]] # "halted"
      BY <1>2, <2>1
    <3> QED BY <1>6, <1>7, <2>1, <2>2, <3>1, <3>2, ReapKeeps
  <2> QED BY <2>3, <2>4
<1>10. ASSUME NEW x \in Requests PROVE OneRequest(x)'
  <2>1. OneRequest(x) /\ SameQueues(x) /\ ~Served(c, x) /\ ~Served(c, x)'
    BY <1>2, <1>4, <1>5 DEF SupInv, Served
  <2>2. SameService(x)
    <3>1. ASSUME NEW d \in Cpus \ {c}
          PROVE  /\ Served(d, x)' <=> Served(d, x)
                 /\ Served(d, x) /\ ServesWell(d, x) => ServesWell(d, x)'
      <4>1. Served(d, x) => task[x] = "none"
        BY <2>1 DEF OneRequest, Settled, Somewhere, Untouched
      <4>2. Served(d, x) => mem'[x] = mem[x]
        BY <1>9, <4>1
      <4> QED BY <1>1, <1>2, <4>2 DEF Served, ServesWell, Carries, StaysLocal
    <3> QED BY <2>1, <3>1 DEF SameService
  <2>3. SameTokens(x)
    BY <1>2, <2>1, <2>2 DEF SameTokens
  <2>4. SameFate(x)
    BY <1>2, <1>9 DEF SameFate
  <2>5. Placing(x)' /\ Settled(x)'
    BY <1>2, <2>1, <2>3, <2>4, TokensKept, FateKept DEF OneRequest
  <2> QED BY <1>9, <2>5 DEF OneRequest
<1>11. Messages'
  <2>1. \A d \in Cpus : at'[d] \in Serving => cur'[d].req \in Requests
    BY <1>1, <1>2, <1>5 DEF SupInv, Messages
  <2>2. \A d \in Cpus : at'[d] = "picked" => scan'[d] < NCpus
    BY <1>2 DEF SupInv, Messages
  <2>3. \A d, e \in Cpus : Shaped(wire'[d][e])
    BY <1>2, ShapedQueues
  <2> QED BY <1>3, <2>1, <2>2, <2>3 DEF Messages
<1> QED BY <1>10, <1>11

(* Tasks that end stay where they are, and those that wait for them wake.  *)
LEMMA EndsKeeps ==
  ASSUME SupInv, NEW S, TasksEnd(S), NEW r \in Requests,
         UNCHANGED <<table, origin, node, mem, req>>,
         task'[r] = "live" => at'[node[r]] # "halted",
         Creating(r) => Creating(r)'
  PROVE  InTable(r)' /\ (task'[r] = "none" <=> task[r] = "none")
<1>1. InTable(r)
  BY DEF SupInv, OneRequest
<1>2. /\ task'[r] = IF r \in S /\ task[r] = "live" THEN "exited" ELSE task[r]
      /\ hold'[r] = IF r \in S /\ task[r] = "live" /\ hold[r] = "waiting"
                    THEN "collected" ELSE hold[r]
  BY DEF TasksEnd
<1>3. SlotsOf(r)' = SlotsOf(r)
  BY SlotsKept
<1>4. /\ task'[r] \in {"live", "exited"} => task[r] \in {"live", "exited"}
      /\ hold'[r] = "collected" => task'[r] \in {"exited", "freed"}
  BY <1>1, <1>2 DEF InTable
<1>5. task'[r] \in {"live", "exited"} =>
        /\ mem'[r] = "held" /\ node'[r] \in Cpus
        /\ \E s \in Slot : /\ SlotsOf(r)' = {<<node'[r], s>>}
                           /\ origin'[node'[r]][s] = req'[r].hint
  BY <1>1, <1>3, <1>4 DEF InTable
<1>6. mem'[r] = "held" => SlotsOf(r)' # {} \/ Creating(r)'
  BY <1>1, <1>3 DEF InTable
<1> QED BY <1>2, <1>4, <1>5, <1>6 DEF InTable

LEMMA StepExit ==
  ASSUME SupInv, NEW r \in Requests, Exit(r)
  PROVE  Messages' /\ \A x \in Requests : OneRequest(x)'
<1>1. UNCHANGED <<at, cur, scan, peer, mbox, wire, lost, table, origin, node, mem, req,
                  reply, made, hops>> /\ TasksEnd({r})
  BY DEF Exit, supVars, netVars, history
<1>2. Messages'
  BY <1>1 DEF SupInv, Messages
<1>3. ASSUME NEW x \in Requests PROVE OneRequest(x)'
  <2>1. OneRequest(x)
    BY DEF SupInv
  <2>2. task'[x] = "live" => at'[node[x]] # "halted"
    BY <1>1, <2>1 DEF OneRequest, InTable, TasksEnd
  <2>3. Creating(x) => Creating(x)'
    BY <1>1 DEF Creating
  <2>4. InTable(x)' /\ (task'[x] = "none" <=> task[x] = "none")
    BY <1>1, <2>2, <2>3, EndsKeeps
  <2>5. SameTokens(x)
    BY <1>1, QueueUnchanged
       DEF SameTokens, SameQueues, SameService, Served, ServesWell, Carries, StaysLocal
  <2>6. SameFate(x)
    BY <1>1, <2>4, SlotsKept DEF SameFate
  <2>7. Placing(x)' /\ Settled(x)'
    BY <1>1, <2>1, <2>5, <2>6, TokensKept, FateKept DEF OneRequest
  <2> QED BY <2>4, <2>7 DEF OneRequest
<1> QED BY <1>2, <1>3

LEMMA StepRelease ==
  ASSUME SupInv, NEW r \in Requests, Release(r)
  PROVE  Messages' /\ \A x \in Requests : OneRequest(x)'
<1>1. /\ UNCHANGED <<at, cur, scan, peer, mbox, wire, lost, table, origin, node, mem, req,
                     reply, made, hops>>
      /\ hold[r] = "collected"
  BY DEF Release, supVars, netVars, history
<1>2. /\ hold'[r] # "collected" /\ task'[r] \in {task[r], "freed"}
      /\ \A x \in Requests \ {r} : hold'[x] = hold[x] /\ task'[x] = task[x]
  BY DEF Release, SupInv, TypeOK
<1>3. Messages'
  BY <1>1 DEF SupInv, Messages
<1>4. ASSUME NEW x \in Requests PROVE OneRequest(x)'
  <2>1. OneRequest(x)
    BY DEF SupInv
  <2>2. SlotsOf(x)' = SlotsOf(x) /\ (Creating(x) => Creating(x)')
    BY <1>1, SlotsKept DEF Creating
  <2>3. InTable(x)' /\ (task'[x] = "none" <=> task[x] = "none")
    <3>1. CASE x = r
      <4>1. task[r] \in {"exited", "freed"}
        BY <1>1, <2>1, <3>1 DEF OneRequest, InTable
      <4>2. task'[r] \in {"exited", "freed"} /\ (task'[r] = "exited" => task[r] = "exited")
        BY <1>2, <4>1
      <4> QED BY <1>1, <1>2, <2>1, <2>2, <3>1, <4>1, <4>2 DEF OneRequest, InTable
    <3>2. CASE x # r
      <4>1. SameTable(x)
        BY <1>1, <1>2, <2>2, <3>2 DEF SameTable
      <4> QED BY <1>2, <2>1, <3>2, <4>1, TableKept DEF OneRequest
    <3> QED BY <3>1, <3>2
  <2>4. SameTokens(x)
    BY <1>1, QueueUnchanged
       DEF SameTokens, SameQueues, SameService, Served, ServesWell, Carries, StaysLocal
  <2>5. SameFate(x)
    BY <1>1, <2>2, <2>3 DEF SameFate
  <2>6. Placing(x)' /\ Settled(x)'
    BY <1>1, <2>1, <2>4, <2>5, TokensKept, FateKept DEF OneRequest
  <2> QED BY <2>3, <2>6 DEF OneRequest
<1> QED BY <1>3, <1>4

LEMMA StepKillAll ==
  ASSUME SupInv, NEW c \in Cpus, KillAll(c)
  PROVE  Messages' /\ \A x \in Requests : OneRequest(x)'
<1> DEFINE S == {table[c][s] : s \in Slot} \ {None}
<1>1. /\ at[c] = "kill" /\ at'[c] = "halted" /\ \A d \in Cpus \ {c} : at'[d] = at[d]
      /\ TasksEnd(S)
      /\ lost' = lost \cup ({mbox[c][i].req : i \in 1 .. Len(mbox[c])} \ {None})
      /\ mbox'[c] = <<>> /\ \A d \in Cpus \ {c} : mbox'[d] = mbox[d]
  BY DEF KillAll, Goto, SupInv, TypeOK
<1>2. UNCHANGED <<cur, scan, peer, wire, table, origin, node, mem, req, reply, made, hops>>
  BY DEF KillAll, history
<1>3. "kill" \notin Serving /\ "halted" \notin Serving /\ "create" # "kill"
  BY DEF Serving, Relaying
<1>4. Messages'
  <2>1. Shaped(<<>>)
    BY DEF Shaped
  <2>2. \A d \in Cpus : Shaped(mbox'[d])
    BY <1>1, <2>1, ShapedQueues
  <2> QED BY <1>1, <1>2, <1>3, <2>2 DEF SupInv, Messages
<1>5. \A x \in Requests : x \in lost' <=> x \in lost \/ InMbox(c, x)
  BY <1>1, NoneIsNoRequest DEF InMbox, Carried
<1> HIDE DEF S
<1>6. ASSUME NEW x \in Requests PROVE OneRequest(x)'
  <2>1. OneRequest(x) /\ ~Served(c, x) /\ ~Served(c, x)'
    BY <1>1, <1>3 DEF SupInv, Served
  <2>2. Creating(x) => Creating(x)'
    BY <1>1, <1>2, <1>3 DEF Creating
  <2>3. task'[x] = "live" => at'[node[x]] # "halted"
    <3> SUFFICES ASSUME task'[x] = "live" PROVE at'[node[x]] # "halted"
      OBVIOUS
    <3>1. task[x] = "live" /\ x \notin S
      BY <1>1 DEF TasksEnd
    <3>2. PICK s \in Slot : SlotsOf(x) = {<<node[x], s>>}
      BY <2>1, <3>1 DEF OneRequest, InTable
    <3>3. node[x] \in Cpus /\ at[node[x]] # "halted" /\ x # None
      BY <2>1, <3>1, NoneIsNoRequest DEF OneRequest, InTable
    <3>4. table[node[x]][s] = x
      <4>1. \A p \in SlotsOf(x) : table[p[1]][p[2]] = x
        BY DEF SlotsOf
      <4>2. <<node[x], s>> \in SlotsOf(x)
        BY <3>2
      <4> QED BY <4>1, <4>2
    <3>5. node[x] # c
      BY <3>1, <3>3, <3>4 DEF S
    <3> QED BY <1>1, <3>3, <3>5
  <2>4. InTable(x)' /\ (task'[x] = "none" <=> task[x] = "none")
    BY <1>1, <1>2, <2>2, <2>3, EndsKeeps
  <2>5. CASE ~InMbox(c, x)
    <3>1. SameQueue(mbox[c], mbox'[c], x)
      BY <1>1, <2>5, EmptyQueue DEF SameQueue, InMbox
    <3>2. SameQueues(x)
      BY <1>1, <1>2, <3>1, QueueUnchanged DEF SameQueues
    <3>3. SameTokens(x)
      BY <1>1, <1>2, <2>1, <3>2, OneSupervisor DEF SameTokens
    <3>4. SameFate(x)
      BY <1>2, <1>5, <2>4, <2>5, SlotsKept DEF SameFate
    <3>5. Placing(x)' /\ Settled(x)'
      BY <1>2, <2>1, <3>3, <3>4, TokensKept, FateKept DEF OneRequest
    <3> QED BY <2>4, <3>5 DEF OneRequest
  <2>6. CASE InMbox(c, x)
    <3>1. /\ \A d \in Cpus : ~Served(d, x) /\ (InMbox(d, x) => d = c)
          /\ \A d, e \in Cpus : ~InWire(d, e, x)
      BY <2>1, <2>6, OnlyMbox DEF OneRequest, Placing
    <3>2. ~Somewhere(x)'
      <4>1. \A d \in Cpus : ~InMbox(d, x)' /\ ~Served(d, x)'
        BY <1>1, <1>2, <1>3, <3>1, EmptyQueue DEF InMbox, Served
      <4>2. \A d, e \in Cpus : ~InWire(d, e, x)'
        BY <1>2, <3>1 DEF InWire
      <4> QED BY <4>1, <4>2 DEF Somewhere
    <3>3. Untouched(x) /\ req[x] # None
      BY <2>1, <2>6 DEF OneRequest, Settled, Somewhere
    <3>4. OneTask(x)' /\ Placed(x)'
      BY <1>2, <2>1, <2>4, <3>3 DEF OneRequest, Settled, Untouched, OneTask, Placed
    <3>5. Placing(x)' /\ Settled(x)'
      BY <1>2, <3>2, <3>3, <3>4, NowherePlacing DEF Settled
    <3> QED BY <2>4, <3>5 DEF OneRequest
  <2> QED BY <2>5, <2>6
<1> QED BY <1>4, <1>6

-----------------------------------------------------------------------------
(* The end of a spawn.                                                     *)

(* The supervisor that creates a task is where the client asked for it.    *)
LEMMA WherePlaced ==
  ASSUME SupInv, NEW c \in Cpus, NEW q \in Requests, ServesWell(c, q), req[q] # None,
         cur[c].req = q, at[c] = "create", node'[q] = c, UNCHANGED <<req, hops>>,
         hops[q] <= 1
  PROVE  Placed(q)'
<1>1. Carries(cur[c], q, c) /\ (cur[c].to \in Cpus => c = cur[c].to)
  BY DEF ServesWell
<1>2. req[q].to \in Targets /\ LocalPid # AnyPid
  BY TargetsAssumption DEF SupInv, TypeOK, SpawnReq
<1>3. CASE req[q].to = LocalPid
  BY <1>1, <1>3 DEF Carries, Placed
<1>4. CASE req[q].to = AnyPid
  BY <1>1, <1>2, <1>4 DEF Carries, Placed, StaysLocal
<1>5. CASE req[q].to \in Cpus
  BY <1>1, <1>5, TargetsAssumption DEF Carries, Placed
<1> QED BY <1>2, <1>3, <1>4, <1>5 DEF Targets

(* A supervisor at the end of a spawn has done with the request.           *)
LEMMA SpawnEnds ==
  ASSUME SupInv, NEW c \in Cpus, at[c] = "create", at'[c] = "poll", NEW q \in Requests,
         q = cur[c].req, \A d \in Cpus \ {c} : at'[d] = at[d],
         UNCHANGED <<cur, scan, peer, mbox, wire, lost, req, hold, hops>>
  PROVE  /\ Messages' /\ ~Somewhere(q)' /\ Placing(q)' /\ Untouched(q) /\ req[q] # None
         /\ ServesWell(c, q) /\ hops[q] <= 1 /\ InTable(q) /\ hold[q] # "collected"
         /\ \A x \in Requests \ {q} :
              (/\ task'[x] = task[x] /\ node'[x] = node[x] /\ reply'[x] = reply[x]
               /\ made'[x] = made[x] /\ mem'[x] = mem[x] /\ SlotsOf(x)' = SlotsOf(x)
               /\ \A d \in Cpus, s \in Slot : table[d][s] = x => origin'[d][s] = origin[d][s])
              => OneRequest(x)'
<1>0. at[c] \in Serving /\ "poll" \notin Serving /\ "halted" # "poll"
  BY DEF Serving, Relaying
<1>1. /\ Served(c, q) /\ ServesWell(c, q) /\ Untouched(q) /\ OnePlace(q) /\ InTable(q)
      /\ req[q] # None /\ Settled(q)
  BY <1>0, ServedKnown
<1>2. hops[q] <= 1 /\ hold[q] # "collected"
  BY <1>1 DEF Settled, Placed, InTable, Untouched
<1>3. Messages'
  BY <1>0 DEF SupInv, Messages
<1>4. ~Somewhere(q)'
  <2>1. /\ \A d \in Cpus : ~InMbox(d, q) /\ (Served(d, q) => d = c)
        /\ \A d, e \in Cpus : ~InWire(d, e, q)
    BY <1>1, OnlyServed
  <2>2. \A d \in Cpus : ~Served(d, q)'
    BY <1>0, <2>1 DEF Served
  <2>3. \A d, e \in Cpus : ~InMbox(d, q)' /\ ~InWire(d, e, q)'
    BY <2>1 DEF InMbox, InWire
  <2> QED BY <2>2, <2>3 DEF Somewhere
<1>5. ASSUME NEW x \in Requests \ {q}, task'[x] = task[x], node'[x] = node[x],
             reply'[x] = reply[x], made'[x] = made[x], mem'[x] = mem[x],
             SlotsOf(x)' = SlotsOf(x),
             \A d \in Cpus, s \in Slot : table[d][s] = x => origin'[d][s] = origin[d][s]
      PROVE  OneRequest(x)'
  <2>1. OneRequest(x) /\ ~Served(c, x) /\ ~Served(c, x)'
    BY <1>5 DEF SupInv, Served
  <2>2. SameQueues(x)
    BY QueueUnchanged DEF SameQueues
  <2>3. SameService(x)
    BY <1>5, <2>1, OneSupervisor
  <2>4. Creating(x) => Creating(x)'
    BY <1>5 DEF Creating
  <2>5. task[x] = "live" /\ at[node[x]] # "halted" => at'[node[x]] # "halted"
    BY <1>0, <2>1 DEF OneRequest, InTable
  <2>6. SameTable(x)
    BY <1>5, <2>4, <2>5 DEF SameTable
  <2> QED BY <1>5, <2>1, <2>2, <2>3, <2>6, Unaffected
<1> QED BY <1>1, <1>2, <1>3, <1>4, <1>5, NowherePlacing

LEMMA StepCreate ==
  ASSUME SupInv, NEW c \in Cpus, Create(c)
  PROVE  Messages' /\ \A x \in Requests : OneRequest(x)'
<1>1. /\ at[c] = "create" /\ at'[c] = "poll" /\ at[c] \in Serving
      /\ \A d \in Cpus \ {c} : at'[d] = at[d]
  BY DEF Create, Goto, SupInv, TypeOK, Serving
<1>2. UNCHANGED <<cur, scan, peer, mbox, wire, lost, req, hold, hops, mem>>
  BY DEF Create, netVars, clientVars
<1>3. PICK q \in Requests : q = cur[c].req
  BY <1>1, ServedKnown
<1>4. /\ Messages' /\ ~Somewhere(q)' /\ Placing(q)' /\ Untouched(q) /\ req[q] # None
      /\ ServesWell(c, q) /\ hops[q] <= 1 /\ InTable(q) /\ hold[q] # "collected"
      /\ \A x \in Requests \ {q} :
           (/\ task'[x] = task[x] /\ node'[x] = node[x] /\ reply'[x] = reply[x]
            /\ made'[x] = made[x] /\ mem'[x] = mem[x] /\ SlotsOf(x)' = SlotsOf(x)
            /\ \A d \in Cpus, s \in Slot : table[d][s] = x => origin'[d][s] = origin[d][s])
           => OneRequest(x)'
  BY <1>1, <1>2, <1>3, SpawnEnds
<1>5. PICK s \in FreeSlots(c) : /\ table' = [table EXCEPT ![c][s] = q]
                                /\ origin' = [origin EXCEPT ![c][s] = cur[c].hint]
  BY <1>3 DEF Create
<1>6. /\ s \in Slot /\ table[c][s] = None /\ table'[c][s] = q /\ origin'[c][s] = cur[c].hint
      /\ \A d \in Cpus, z \in Slot :
           <<d, z>> # <<c, s>> => table'[d][z] = table[d][z] /\ origin'[d][z] = origin[d][z]
  BY <1>5 DEF FreeSlots, SupInv, TypeOK
<1>7. /\ task'[q] = "live" /\ node'[q] = c /\ made'[q] = 1 /\ reply'[q] = Append(reply[q], "ok")
      /\ \A x \in Requests \ {q} : /\ task'[x] = task[x] /\ node'[x] = node[x]
                                   /\ reply'[x] = reply[x] /\ made'[x] = made[x]
  BY <1>3, <1>4 DEF Create, Tell, SupInv, TypeOK, Untouched
<1>8. reply'[q] = <<"ok">> /\ Len(<<"ok">>) = 1 /\ <<"ok">> # <<>>
  BY <1>4, <1>7 DEF Untouched
<1>9. ASSUME NEW x \in Requests \ {q} PROVE OneRequest(x)'
  <2>1. \A d \in Cpus, z \in Slot : table'[d][z] = x <=> table[d][z] = x
    BY <1>6, <1>9, NoneIsNoRequest
  <2>2. \A d \in Cpus, z \in Slot : table[d][z] = x => origin'[d][z] = origin[d][z]
    BY <1>6, <1>9, NoneIsNoRequest
  <2>3. SlotsOf(x)' = SlotsOf(x)
    BY <2>1, SlotsKept
  <2> QED BY <1>2, <1>4, <1>7, <2>2, <2>3
<1>10. SlotsOf(q)' = {<<c, s>>}
  <2>1. \A d \in Cpus, z \in Slot : table[d][z] # q
    <3>1. ASSUME NEW d \in Cpus, NEW z \in Slot, table[d][z] = q PROVE <<d, z>> \in SlotsOf(q)
      BY <3>1 DEF SlotsOf
    <3> QED BY <1>4, <3>1 DEF Untouched
  <2>2. \A d \in Cpus, z \in Slot : table'[d][z] = q <=> d = c /\ z = s
    BY <1>6, <2>1
  <2> QED BY <1>6, <2>2 DEF SlotsOf
<1>11. InTable(q)'
  <2>1. mem'[q] = "held" /\ cur[c].hint = req[q].hint
    BY <1>1, <1>2, <1>4 DEF ServesWell, Carries
  <2>2. at'[node'[q]] # "halted" /\ node'[q] \in Cpus
    BY <1>1, <1>7
  <2>3. hold'[q] # "collected"
    BY <1>2, <1>4
  <2>4. origin'[node'[q]][s] = req'[q].hint /\ SlotsOf(q)' = {<<node'[q], s>>}
    BY <1>2, <1>6, <1>7, <1>10, <2>1
  <2>5. SlotsOf(q)' # {}
    BY <1>10
  <2> QED BY <1>6, <1>7, <2>1, <2>2, <2>3, <2>4, <2>5 DEF InTable
<1>12. Settled(q)'
  <2>1. Placed(q)'
    BY <1>1, <1>2, <1>3, <1>4, <1>7, WherePlaced
  <2>2. OneTask(q)'
    BY <1>2, <1>4, <1>7, <1>8 DEF OneTask, Untouched
  <2> QED BY <1>2, <1>4, <2>1, <2>2 DEF Settled
<1> QED BY <1>4, <1>9, <1>11, <1>12 DEF OneRequest

LEMMA StepCreateFails ==
  ASSUME SupInv, NEW c \in Cpus, CreateFails(c)
  PROVE  Messages' /\ \A x \in Requests : OneRequest(x)'
<1>1. /\ at[c] = "create" /\ at'[c] = "poll" /\ at[c] \in Serving
      /\ \A d \in Cpus \ {c} : at'[d] = at[d]
  BY DEF CreateFails, Goto, SupInv, TypeOK, Serving
<1>2. UNCHANGED <<cur, scan, peer, mbox, wire, lost, req, hold, hops, table, origin, made>>
  BY DEF CreateFails, netVars, clientVars
<1>3. PICK q \in Requests : q = cur[c].req
  BY <1>1, ServedKnown
<1>4. /\ Messages' /\ ~Somewhere(q)' /\ Placing(q)' /\ Untouched(q) /\ req[q] # None
      /\ ServesWell(c, q) /\ hops[q] <= 1 /\ InTable(q) /\ hold[q] # "collected"
      /\ \A x \in Requests \ {q} :
           (/\ task'[x] = task[x] /\ node'[x] = node[x] /\ reply'[x] = reply[x]
            /\ made'[x] = made[x] /\ mem'[x] = mem[x] /\ SlotsOf(x)' = SlotsOf(x)
            /\ \A d \in Cpus, s \in Slot : table[d][s] = x => origin'[d][s] = origin[d][s])
           => OneRequest(x)'
  BY <1>1, <1>2, <1>3, SpawnEnds
<1>5. /\ task'[q] = "orphan" /\ node'[q] = c /\ mem'[q] = "freed"
      /\ reply'[q] = Append(reply[q], "no")
      /\ \A x \in Requests \ {q} : /\ task'[x] = task[x] /\ node'[x] = node[x]
                                   /\ reply'[x] = reply[x] /\ mem'[x] = mem[x]
  BY <1>3 DEF CreateFails, Tell, SupInv, TypeOK
<1>6. reply'[q] = <<"no">> /\ Len(<<"no">>) = 1 /\ <<"no">> # <<>> /\ <<"no">> # <<"ok">>
  BY <1>4, <1>5 DEF Untouched
<1>7. ASSUME NEW x \in Requests \ {q} PROVE OneRequest(x)'
  <2>1. SlotsOf(x)' = SlotsOf(x)
    BY <1>2, SlotsKept
  <2> QED BY <1>2, <1>4, <1>5, <2>1
<1>8. InTable(q)'
  BY <1>2, <1>4, <1>5 DEF InTable
<1>9. Settled(q)'
  <2>1. Placed(q)'
    BY <1>1, <1>2, <1>3, <1>4, <1>5, WherePlaced
  <2>2. OneTask(q)'
    BY <1>2, <1>4, <1>6 DEF OneTask, Untouched
  <2> QED BY <1>2, <1>4, <2>1, <2>2 DEF Settled
<1> QED BY <1>4, <1>7, <1>8, <1>9 DEF OneRequest

-----------------------------------------------------------------------------
(* Types.                                                                  *)

LEMMA ArrivesTyped ==
  ASSUME TypeOK, NEW c \in Cpus, NEW m \in Msg, Arrives(c, m)
  PROVE  mbox' \in [Cpus -> Seq(Msg)] /\ lost' \subseteq Requests
<1>1. Append(mbox[c], m) \in Seq(Msg)
  BY AppendProperties DEF TypeOK
<1>2. m.req \in Requests \cup {None}
  BY DEF Msg
<1> QED BY <1>1, <1>2 DEF Arrives, TypeOK

LEMMA TakesTyped ==
  ASSUME TypeOK, NEW c \in Cpus, NEW op, Takes(c, op)
  PROVE  /\ mbox' \in [Cpus -> Seq(Msg)] /\ cur' \in [Cpus -> Msg]
         /\ Head(mbox[c]) \in Msg
<1>1. Tail(mbox[c]) \in Seq(Msg) /\ Head(mbox[c]) \in Msg
  BY HeadTailProperties DEF TypeOK, Takes
<1> QED BY <1>1 DEF Takes, TypeOK

LEMMA TellTyped ==
  ASSUME TypeOK, NEW r \in Requests, NEW what \in {"ok", "no"}, Tell(r, what)
  PROVE  reply' \in [Requests -> Seq({"ok", "no"})]
<1>1. Append(reply[r], what) \in Seq({"ok", "no"})
  BY AppendProperties DEF TypeOK
<1> QED BY <1>1 DEF Tell, TypeOK

LEMMA SendsTyped ==
  ASSUME TypeOK, NEW c \in Cpus, NEW d \in Cpus, NEW m \in Msg, Sends(c, d, m)
  PROVE  wire' \in [Cpus -> [Cpus -> Seq(Msg)]]
<1>1. Append(wire[c][d], m) \in Seq(Msg)
  BY AppendProperties DEF TypeOK
<1> QED BY <1>1 DEF Sends, TypeOK

LEMMA ReapTyped ==
  ASSUME TypeOK, NEW c \in Cpus, NEW t, Reap(c, t),
         \A r \in Requests : t[r] \in {"none", "live", "exited", "freed", "orphan"}
  PROVE  /\ task' \in [Requests -> {"none", "live", "exited", "freed", "orphan"}]
         /\ mem' \in [Requests -> {"none", "held", "freed"}]
         /\ table' \in [Cpus -> [Slot -> Requests \cup {None}]]
         /\ origin' \in [Cpus -> [Slot -> Cpus \cup {None}]]
<1> DEFINE done == ExitedSlots(c, t)
<1>1. [s \in Slot |-> IF s \in done THEN None ELSE table[c][s]] \in [Slot -> Requests \cup {None}]
  BY DEF TypeOK
<1>2. [s \in Slot |-> IF s \in done THEN None ELSE origin[c][s]] \in [Slot -> Cpus \cup {None}]
  BY DEF TypeOK
<1>3. /\ table' \in [Cpus -> [Slot -> Requests \cup {None}]]
      /\ origin' \in [Cpus -> [Slot -> Cpus \cup {None}]]
  BY <1>1, <1>2 DEF Reap, TypeOK
<1>4. task' \in [Requests -> {"none", "live", "exited", "freed", "orphan"}]
  BY DEF Reap, TypeOK
<1>5. mem' \in [Requests -> {"none", "held", "freed"}]
  BY DEF Reap, TypeOK
<1> QED BY <1>3, <1>4, <1>5

LEMMA EndTyped ==
  ASSUME TypeOK, NEW S, TasksEnd(S)
  PROVE  /\ task' \in [Requests -> {"none", "live", "exited", "freed", "orphan"}]
         /\ hold' \in [Requests -> {"idle", "asked", "held", "failed", "waiting",
                                    "collected", "released", "stuck"}]
BY DEF TasksEnd, TypeOK

LEMMA TypesOfClients ==
  ASSUME SupInv, Client
  PROVE  TypeOK'
<1> USE DEF SupInv
<1>1. ASSUME NEW b \in Clients, NEW r \in Requests, NEW to \in Targets, NEW ok \in BOOLEAN,
             Ask(b, r, to, ok)
      PROVE  TypeOK'
  <2>1. CpuOf(b) \in Cpus /\ TerminalOf(b) \in Cpus
    BY <1>1, ClientKnown DEF Ask
  <2>2. /\ SpawnMsg(r, to, TerminalOf(b)) \in Msg
        /\ [by |-> b, from |-> CpuOf(b), to |-> to, hint |-> TerminalOf(b), localOk |-> ok]
             \in SpawnReq
    BY <2>1 DEF SpawnMsg, Msg, SpawnReq
  <2>3. mbox' \in [Cpus -> Seq(Msg)] /\ lost' \subseteq Requests
    BY <1>1, <2>1, <2>2, ArrivesTyped DEF Ask
  <2>4. req' \in [Requests -> SpawnReq \cup {None}]
    BY <1>1, <2>2 DEF Ask, TypeOK
  <2> QED BY <1>1, <2>3, <2>4 DEF Ask, TypeOK, supVars, taskVars, history
<1>2. ASSUME NEW r \in Requests, Receive(r) PROVE TypeOK'
  BY <1>2 DEF Receive, TypeOK, supVars, netVars, taskVars, history
<1>3. ASSUME NEW r \in Requests, Wait(r) PROVE TypeOK'
  <2>1. (CASE task[r] = "live" -> "waiting" [] task[r] = "exited" -> "collected"
           [] OTHER -> "stuck") \in {"waiting", "collected", "stuck"}
    OBVIOUS
  <2> QED BY <1>3, <2>1 DEF Wait, TypeOK, supVars, netVars, taskVars, history
<1>4. ASSUME NEW r \in Requests, Release(r) PROVE TypeOK'
  <2>1. hold' \in [Requests -> {"idle", "asked", "held", "failed", "waiting", "collected",
                                "released", "stuck"}]
    BY <1>4 DEF Release, TypeOK
  <2>2. task' \in [Requests -> {"none", "live", "exited", "freed", "orphan"}]
    BY <1>4 DEF Release, TypeOK
  <2> QED BY <1>4, <2>1, <2>2 DEF Release, TypeOK, supVars, netVars, history
<1>5. ASSUME NEW r \in Requests, Exit(r) PROVE TypeOK'
  BY <1>5, EndTyped DEF Exit, TypeOK, supVars, netVars, history
<1>6. ASSUME NEW r \in Requests, ReadArgs(r) PROVE TypeOK'
  <2>1. node[r] \in Cpus
    BY <1>6, LiveKnown, RequestsAssumption DEF ReadArgs, Runs, Alive, Clients
  <2>2. args[node[r]] \in Requests \cup {None}
    BY <2>1 DEF TypeOK
  <2> QED BY <1>6, <2>2 DEF ReadArgs, TypeOK, supVars, netVars, clientVars, history
<1>7. ASSUME NEW b \in Clients, EndSession(b) PROVE TypeOK'
  <2>1. mbox' \in [Cpus -> Seq(Msg)] /\ lost' \subseteq Requests
    BY <1>7, ClientKnown, NoMessage, ArrivesTyped DEF EndSession
  <2> QED BY <1>7, <2>1 DEF EndSession, TypeOK, supVars, taskVars, history
<1> QED BY <1>1, <1>2, <1>3, <1>4, <1>5, <1>6, <1>7 DEF Client

LEMMA TypesOfServing ==
  ASSUME SupInv, NEW c \in Cpus, Serve(c)
  PROVE  TypeOK'
<1> USE DEF SupInv
<1>0. 0 \in 0 .. NCpus /\ \A n \in 0 .. NCpus : n < NCpus => n + 1 \in 0 .. NCpus /\ n \in Cpus
  BY CpusAssumption DEF Cpus
<1> DEFINE after(n) == (n + 1) % NCpus
<1>16. \A n \in Cpus : after(n) \in Cpus
  BY CpusAssumption DEF Cpus
<1> HIDE DEF after
<1>1. CASE TakeSpawn(c)
  <2>1. mbox' \in [Cpus -> Seq(Msg)] /\ cur' \in [Cpus -> Msg] /\ Head(mbox[c]) \in Msg
    BY <1>1, TakesTyped DEF TakeSpawn
  <2>2. \A r \in Requests : task[r] \in {"none", "live", "exited", "freed", "orphan"}
    BY DEF TypeOK
  <2>3. /\ task' \in [Requests -> {"none", "live", "exited", "freed", "orphan"}]
        /\ mem' \in [Requests -> {"none", "held", "freed"}]
        /\ table' \in [Cpus -> [Slot -> Requests \cup {None}]]
        /\ origin' \in [Cpus -> [Slot -> Cpus \cup {None}]]
    BY <1>1, <2>2, ReapTyped DEF TakeSpawn
  <2>4. Placement(c, Head(mbox[c])) \in {"load", "pick", "relay"}
    BY DEF Placement
  <2>5. scan' \in [Cpus -> 0 .. NCpus] /\ peer' \in [Cpus -> Cpus]
    BY <1>0, <1>1 DEF TakeSpawn, TypeOK
  <2> QED BY <1>1, <2>1, <2>3, <2>4, <2>5 DEF TakeSpawn, Goto, TypeOK, history
<1>2. CASE TakeEnd(c)
  <2>1. mbox' \in [Cpus -> Seq(Msg)] /\ cur' \in [Cpus -> Msg]
    BY <1>2, TakesTyped DEF TakeEnd
  <2>2. scan' \in [Cpus -> 0 .. NCpus]
    BY <1>0, <1>2 DEF TakeEnd, TypeOK
  <2> QED BY <1>2, <2>1, <2>2 DEF TakeEnd, Goto, TypeOK, taskVars, clientVars, history
<1>3. CASE TakeCull(c)
  <2> DEFINE S == {s \in Slot : table[c][s] # None /\ origin[c][s] = Head(mbox[c]).hint}
             dying == {table[c][s] : s \in S} \cap {r \in Requests : task[r] = "live"}
             killed == [r \in Requests |-> IF r \in dying THEN "exited" ELSE task[r]]
  <2>1. mbox' \in [Cpus -> Seq(Msg)] /\ cur' \in [Cpus -> Msg]
    BY <1>3, TakesTyped DEF TakeCull
  <2>2. \A r \in Requests : killed[r] \in {"none", "live", "exited", "freed", "orphan"}
    BY DEF TypeOK
  <2>3. S = {} \/ Reap(c, killed)
    BY <1>3 DEF TakeCull
  <2>4. hold' \in [Requests -> {"idle", "asked", "held", "failed", "waiting", "collected",
                                "released", "stuck"}]
    BY <1>3 DEF TakeCull, TypeOK
  <2>5. S = {} => UNCHANGED <<table, origin, task, mem>>
    BY <1>3 DEF TakeCull
  <2> HIDE DEF S, dying, killed
  <2>6. /\ task' \in [Requests -> {"none", "live", "exited", "freed", "orphan"}]
        /\ mem' \in [Requests -> {"none", "held", "freed"}]
        /\ table' \in [Cpus -> [Slot -> Requests \cup {None}]]
        /\ origin' \in [Cpus -> [Slot -> Cpus \cup {None}]]
    <3>1. CASE S = {}
      BY <2>5, <3>1 DEF TypeOK
    <3>2. CASE Reap(c, killed)
      BY <2>2, <3>2, ReapTyped
    <3> QED BY <2>3, <3>1, <3>2
  <2> QED BY <1>3, <2>1, <2>4, <2>6 DEF TakeCull, TypeOK, history
<1>4. CASE PickWalk(c)
  <2>1. scan' \in [Cpus -> 0 .. NCpus]
    <3>1. scan \in [Cpus -> 0 .. NCpus] /\ scan[c] < NCpus
      BY <1>4 DEF PickWalk, TypeOK
    <3>2. scan[c] + 1 \in 0 .. NCpus
      BY <1>0, <3>1
    <3> QED BY <1>4, <3>1, <3>2 DEF PickWalk
  <2> QED BY <1>4, <2>1 DEF PickWalk, Goto, TypeOK, netVars, taskVars, clientVars, history
<1>5. CASE PickTerminal(c)
  <2>1. PICK p \in Cpus : p = Candidate(c)
    BY CandidateCpu
  <2>2. scan[c] \in 0 .. NCpus /\ scan[c] < NCpus
    BY <1>5 DEF PickTerminal, Messages, TypeOK
  <2>3. scan' \in [Cpus -> 0 .. NCpus]
    <3>1. scan \in [Cpus -> 0 .. NCpus] /\ scan[c] + 1 \in 0 .. NCpus
      BY <1>0, <2>2 DEF TypeOK
    <3> QED BY <1>5, <3>1 DEF PickTerminal
  <2>4. counter' \in [Cpus -> Cpus] /\ peer' \in [Cpus -> Cpus]
    <3>1. /\ counter' \in {counter, [counter EXCEPT ![c] = after(p)]}
          /\ peer' \in {peer, [peer EXCEPT ![c] = p]}
      BY <1>5, <2>1 DEF PickTerminal, after
    <3>2. after(p) \in Cpus /\ counter \in [Cpus -> Cpus] /\ peer \in [Cpus -> Cpus]
      BY <1>16, <2>1 DEF TypeOK
    <3> QED BY ONLY <2>1, <3>1, <3>2, c \in Cpus
  <2> QED BY <1>5, <2>3, <2>4 DEF PickTerminal, Goto, TypeOK, netVars, taskVars, clientVars,
                                  history
<1>6. CASE PickSelf(c)
  <2>1. counter' = [counter EXCEPT ![c] = after(c)] /\ after(c) \in Cpus
    BY <1>6, <1>16 DEF PickSelf, after
  <2>2. counter' \in [Cpus -> Cpus]
    BY <2>1 DEF TypeOK
  <2>3. at' = [at EXCEPT ![c] = "load"]
    BY <1>6 DEF PickSelf, Goto
  <2>4. UNCHANGED <<dir, wm, cur, scan, peer, netVars, taskVars, clientVars, history>>
    BY <1>6 DEF PickSelf
  <2> QED BY <2>2, <2>3, <2>4 DEF TypeOK, netVars, taskVars, clientVars, history
<1>7. CASE RelayWalk(c)
  <2>1. cur[c].req \in Requests
    BY <1>7, ServedKnown DEF RelayWalk, Serving, Relaying
  <2>2. reply' \in [Requests -> Seq({"ok", "no"})]
    BY <1>7, <2>1, TellTyped DEF RelayWalk, TypeOK
  <2> QED BY <1>7, <2>2 DEF RelayWalk, Goto, TypeOK, netVars, taskVars, clientVars
<1>8. CASE RelaySend(c)
  <2>1. cur[c].req \in Requests /\ cur[c].hint \in Cpus /\ peer[c] \in Cpus
    BY <1>8, ServedKnown DEF RelaySend, Serving, Relaying, TypeOK
  <2>2. SpawnMsg(cur[c].req, LocalPid, cur[c].hint) \in Msg
    BY <2>1 DEF SpawnMsg, Msg, Targets
  <2>3. wire' \in [Cpus -> [Cpus -> Seq(Msg)]]
    BY <1>8, <2>1, <2>2, SendsTyped DEF RelaySend
  <2>4. hops' \in [Requests -> Nat]
    <3>1. hops \in [Requests -> Nat]
      BY DEF TypeOK
    <3>2. hops[cur[c].req] + 1 \in Nat
      BY <2>1, <3>1
    <3> QED BY <1>8, <3>1, <3>2 DEF RelaySend
  <2> QED BY <1>8, <2>3, <2>4 DEF RelaySend, Goto, TypeOK, taskVars, clientVars
<1>9. CASE Load(c)
  <2>1. cur[c].req \in Requests
    BY <1>9, ServedKnown DEF Load, Serving
  <2> QED BY <1>9, <2>1 DEF Load, Goto, TypeOK, netVars, clientVars, history
<1>10. CASE LoadFails(c)
  <2>1. cur[c].req \in Requests
    BY <1>10, ServedKnown DEF LoadFails, Serving
  <2>2. reply' \in [Requests -> Seq({"ok", "no"})]
    BY <1>10, <2>1, TellTyped DEF LoadFails
  <2> QED BY <1>10, <2>2 DEF LoadFails, Goto, TypeOK, netVars, taskVars, clientVars
<1>11. CASE Create(c)
  <2>1. cur[c].req \in Requests /\ cur[c].hint \in Cpus
    BY <1>11, ServedKnown DEF Create, Serving
  <2>2. reply' \in [Requests -> Seq({"ok", "no"})]
    BY <1>11, <2>1, TellTyped DEF Create
  <2>3. PICK s \in Slot : /\ table' = [table EXCEPT ![c][s] = cur[c].req]
                          /\ origin' = [origin EXCEPT ![c][s] = cur[c].hint]
    BY <1>11 DEF Create, FreeSlots
  <2>4. /\ table' \in [Cpus -> [Slot -> Requests \cup {None}]]
        /\ origin' \in [Cpus -> [Slot -> Cpus \cup {None}]]
    BY <2>1, <2>3 DEF TypeOK
  <2>5. /\ task' \in [Requests -> {"none", "live", "exited", "freed", "orphan"}]
        /\ node' \in [Requests -> Cpus \cup {None}]
    BY <1>11, <2>1 DEF Create, TypeOK
  <2>6. made' \in [Requests -> Nat]
    <3>1. made \in [Requests -> Nat]
      BY DEF TypeOK
    <3>2. made[cur[c].req] + 1 \in Nat
      BY <2>1, <3>1
    <3> QED BY <1>11, <3>1, <3>2 DEF Create
  <2>7. at' = [at EXCEPT ![c] = "poll"]
    BY <1>11 DEF Create, Goto
  <2>8. UNCHANGED <<dir, wm, cur, scan, peer, counter, netVars, args, mem, seen, clientVars,
                    hops>>
    BY <1>11 DEF Create
  <2> QED BY <2>2, <2>4, <2>5, <2>6, <2>7, <2>8 DEF TypeOK, netVars, clientVars
<1>12. CASE CreateFails(c)
  <2>1. cur[c].req \in Requests
    BY <1>12, ServedKnown DEF CreateFails, Serving
  <2>2. reply' \in [Requests -> Seq({"ok", "no"})]
    BY <1>12, <2>1, TellTyped DEF CreateFails
  <2>3. /\ task' \in [Requests -> {"none", "live", "exited", "freed", "orphan"}]
        /\ node' \in [Requests -> Cpus \cup {None}]
        /\ mem' \in [Requests -> {"none", "held", "freed"}]
    BY <1>12, <2>1 DEF CreateFails, TypeOK
  <2> QED BY <1>12, <2>2, <2>3 DEF CreateFails, Goto, TypeOK, netVars, clientVars
<1>13. CASE Broadcast(c)
  <2>1. wire' \in [Cpus -> [Cpus -> Seq(Msg)]]
    <3>1. CASE wire' = wire
      BY <3>1 DEF TypeOK
    <3>2. CASE Sends(c, scan[c], CullMsg(c))
      <4>1. scan[c] \in Cpus
        BY <1>0, <1>13 DEF Broadcast, TypeOK
      <4> QED BY <3>2, <4>1, CullMessage, SendsTyped
    <3> QED BY <1>13, <3>1, <3>2 DEF Broadcast
  <2>2. scan' \in [Cpus -> 0 .. NCpus]
    <3>1. scan \in [Cpus -> 0 .. NCpus] /\ scan[c] + 1 \in 0 .. NCpus
      BY <1>0, <1>13 DEF Broadcast, TypeOK
    <3> QED BY <1>13, <3>1 DEF Broadcast
  <2> QED BY <1>13, <2>1, <2>2 DEF Broadcast, TypeOK, taskVars, clientVars, history
<1>14. CASE Unregister(c)
  BY <1>14 DEF Unregister, Goto, TypeOK, netVars, taskVars, clientVars, history
<1>15. CASE KillAll(c)
  <2>1. /\ task' \in [Requests -> {"none", "live", "exited", "freed", "orphan"}]
        /\ hold' \in [Requests -> {"idle", "asked", "held", "failed", "waiting",
                                   "collected", "released", "stuck"}]
    BY <1>15, EndTyped DEF KillAll
  <2>2. mbox' \in [Cpus -> Seq(Msg)]
    BY <1>15, EmptyQueue DEF KillAll, TypeOK
  <2>3. lost' \subseteq Requests
    <3>1. mbox[c] \in Seq(Msg)
      BY DEF TypeOK
    <3>2. \A i \in 1 .. Len(mbox[c]) : mbox[c][i].req \in Requests \cup {None}
      <4>1. ASSUME NEW i \in 1 .. Len(mbox[c]) PROVE mbox[c][i] \in Msg
        BY <3>1, ElementOfSeq
      <4> QED BY <4>1 DEF Msg
    <3> QED BY <1>15, <3>2 DEF KillAll, TypeOK
  <2> QED BY <1>15, <2>1, <2>2, <2>3 DEF KillAll, Goto, TypeOK, history
<1> QED BY <1>1, <1>2, <1>3, <1>4, <1>5, <1>6, <1>7, <1>8, <1>9, <1>10, <1>11, <1>12,
           <1>13, <1>14, <1>15 DEF Serve

LEMMA TypesOfStep ==
  ASSUME SupInv, [Next]_vars
  PROVE  TypeOK'
<1>1. CASE Client
  BY <1>1, TypesOfClients
<1>2. ASSUME NEW c \in Cpus, Boot(c) \/ StartWM(c) PROVE TypeOK'
  BY <1>2 DEF SupInv, Boot, StartWM, TypeOK, netVars, supVars, taskVars, clientVars, history
<1>3. ASSUME NEW c \in Cpus, Serve(c) PROVE TypeOK'
  BY <1>3, TypesOfServing
<1>4. ASSUME NEW c \in Cpus, NEW d \in Cpus, Deliver(c, d) PROVE TypeOK'
  <2>1. Tail(wire[c][d]) \in Seq(Msg) /\ Head(wire[c][d]) \in Msg
    BY <1>4, HeadTailProperties DEF Deliver, SupInv, TypeOK
  <2>2. mbox' \in [Cpus -> Seq(Msg)] /\ lost' \subseteq Requests
    BY <1>4, <2>1, ArrivesTyped DEF Deliver, SupInv
  <2>3. wire' \in [Cpus -> [Cpus -> Seq(Msg)]]
    BY <1>4, <2>1 DEF Deliver, SupInv, TypeOK
  <2> QED BY <1>4, <2>2, <2>3 DEF Deliver, SupInv, TypeOK, supVars, taskVars, clientVars, history
<1>5. CASE UNCHANGED vars
  BY <1>5 DEF SupInv, TypeOK, vars
<1> QED BY <1>1, <1>2, <1>3, <1>4, <1>5 DEF Next

-----------------------------------------------------------------------------
(* The invariant.                                                          *)

LEMMA SupStep == SupInv /\ [Next]_vars => SupInv'
<1> SUFFICES ASSUME SupInv, [Next]_vars PROVE SupInv'
  OBVIOUS
<1>1. TypeOK'
  BY TypesOfStep
<1>2. Messages' /\ \A x \in Requests : OneRequest(x)'
  <2>1. CASE Client
    <3>1. ASSUME NEW b \in Clients, NEW r \in Requests, NEW to \in Targets,
                 NEW ok \in BOOLEAN, Ask(b, r, to, ok)
          PROVE  Messages' /\ \A x \in Requests : OneRequest(x)'
      BY <3>1, StepAsk
    <3>2. ASSUME NEW r \in Requests,
                 Receive(r) \/ Wait(r) \/ Release(r) \/ Exit(r) \/ ReadArgs(r)
          PROVE  Messages' /\ \A x \in Requests : OneRequest(x)'
      BY <3>2, StepReceive, StepWait, StepRelease, StepExit, StepReadArgs
    <3>3. ASSUME NEW b \in Clients, EndSession(b)
          PROVE  Messages' /\ \A x \in Requests : OneRequest(x)'
      BY <3>3, StepEndSession
    <3> QED BY <2>1, <3>1, <3>2, <3>3 DEF Client
  <2>2. ASSUME NEW c \in Cpus, Boot(c) \/ StartWM(c)
        PROVE  Messages' /\ \A x \in Requests : OneRequest(x)'
    BY <2>2, StepBoot, StepStartWM
  <2>3. ASSUME NEW c \in Cpus, Serve(c)
        PROVE  Messages' /\ \A x \in Requests : OneRequest(x)'
    BY <2>3, StepTakeSpawn, StepTakeEnd, StepTakeCull, StepPickWalk, StepPickTerminal,
       StepPickSelf, StepRelayWalk, StepRelaySend, StepLoad, StepLoadFails, StepCreate,
       StepCreateFails, StepBroadcast, StepUnregister, StepKillAll DEF Serve
  <2>4. ASSUME NEW c \in Cpus, NEW d \in Cpus, Deliver(c, d)
        PROVE  Messages' /\ \A x \in Requests : OneRequest(x)'
    BY <2>4, StepDeliver
  <2>5. CASE UNCHANGED vars
    BY <2>5, QuietStep DEF vars
  <2> QED BY <2>1, <2>2, <2>3, <2>4, <2>5 DEF Next
<1> QED BY <1>1, <1>2 DEF SupInv

(* The invariant of the supervisors: every request is in one place, or     *)
(* settled, and every task is in the table of the processor it runs on.    *)
THEOREM SupCorrect == Spec => []SupInv
BY SupInit, SupStep, PTL DEF Spec

(* Every variable keeps its type.                                          *)
THEOREM TypeCorrect == Spec => []TypeOK
<1>1. SupInv => TypeOK
  BY DEF SupInv
<1> QED BY SupCorrect, <1>1, PTL

(* A request makes one task at most, is answered once at most and truly,   *)
(* is relayed once at most, and its task is made where it was asked for.   *)
THEOREM SpawnsOnce == Spec => []SpawnedOnce
<1>1. SupInv => SpawnedOnce
  BY DEF SupInv, OneRequest, Settled, SpawnedOnce
<1> QED BY SupCorrect, <1>1, PTL

(* Every running task is in one slot of the supervisor that made it, with  *)
(* the terminal it was started from, and memory that is held has an owner. *)
THEOREM TasksAccounted == Spec => []Accounted
<1>1. SupInv => Accounted
  BY DEF SupInv, OneRequest, InTable, Accounted, Creating
<1> QED BY SupCorrect, <1>1, PTL

(* Both: of a request there is one task, one reply and one slot.           *)
THEOREM SpawnsCorrect == Spec => []OneOfEach
<1>1. SpawnedOnce /\ Accounted => OneOfEach
  BY DEF OneOfEach
<1> QED BY SpawnsOnce, TasksAccounted, <1>1, PTL

-----------------------------------------------------------------------------
(* The end of a terminal's session.                                        *)

LEMMA TailShorter ==
  ASSUME NEW q \in Seq(Msg), q # <<>>, NEW m \in Msg
  PROVE  Tail(q) # q /\ Tail(q) # Append(q, m)
<1> DEFINE t == Tail(q)
           a == Append(q, m)
<1>1. Len(t) = Len(q) - 1 /\ Len(q) \in Nat
  BY HeadTailProperties
<1>2. Len(a) = Len(q) + 1
  BY AppendProperties
<1> HIDE DEF t, a
<1>3. t # q /\ t # a
  BY <1>1, <1>2
<1> QED BY <1>3 DEF t, a

(* Only taking a message shortens the queue of a supervisor that waits for *)
(* one.                                                                    *)
LEMMA OnlyTaken ==
  ASSUME SupInv, [Next]_vars, NEW c \in Cpus, at[c] = "poll", mbox[c] # <<>>,
         Head(mbox[c]).op = "cull", mbox'[c] = Tail(mbox[c])
  PROVE  TakeCull(c)
<1>1. mbox[c] \in Seq(Msg) /\ mbox'[c] # mbox[c]
  BY ShapedQueues, TailShorter, NoMessage
<1>2. ASSUME NEW d \in Cpus, NEW m \in Msg, Arrives(d, m) PROVE FALSE
  <2>1. mbox' = mbox \/ mbox' = [mbox EXCEPT ![d] = Append(mbox[d], m)]
    BY <1>2 DEF Arrives
  <2>2. mbox'[c] = mbox[c] \/ mbox'[c] = Append(mbox[c], m)
    <3>1. mbox \in [Cpus -> Seq(Msg)]
      BY DEF SupInv, TypeOK
    <3>2. CASE d = c
      BY <2>1, <3>1, <3>2
    <3>3. CASE d # c
      BY <2>1, <3>1, <3>3
    <3> QED BY <3>2, <3>3
  <2> QED BY <1>1, <2>2, TailShorter
<1>3. ASSUME Client PROVE FALSE
  <2>1. ASSUME NEW b \in Clients, NEW r \in Requests, NEW to \in Targets, NEW ok \in BOOLEAN,
               Ask(b, r, to, ok)
        PROVE  FALSE
    <3>1. CpuOf(b) \in Cpus /\ TerminalOf(b) \in Cpus
      BY <2>1, ClientKnown DEF Ask
    <3>2. SpawnMsg(r, to, TerminalOf(b)) \in Msg
      BY <3>1 DEF SpawnMsg, Msg
    <3> QED BY <1>2, <2>1, <3>1, <3>2 DEF Ask
  <2>2. ASSUME NEW b \in Clients, EndSession(b) PROVE FALSE
    BY <1>2, <2>2, ClientKnown, NoMessage DEF EndSession
  <2>3. ASSUME NEW r \in Requests,
               Receive(r) \/ Wait(r) \/ Release(r) \/ Exit(r) \/ ReadArgs(r)
        PROVE  FALSE
    BY <1>1, <2>3 DEF Receive, Wait, Release, Exit, ReadArgs, netVars
  <2> QED BY <1>3, <2>1, <2>2, <2>3 DEF Client
<1>4. ASSUME NEW d \in Cpus, Boot(d) \/ StartWM(d) PROVE FALSE
  BY <1>1, <1>4 DEF Boot, StartWM, netVars
<1>5. ASSUME NEW d \in Cpus, NEW e \in Cpus, Deliver(d, e) PROVE FALSE
  <2>1. Head(wire[d][e]) \in Msg
    BY <1>5, ShapedQueues, HeadTailProperties DEF Deliver
  <2> QED BY <1>2, <1>5, <2>1 DEF Deliver
<1>6. ASSUME NEW d \in Cpus, NEW op, Takes(d, op) PROVE d = c /\ op = "cull"
  <2>1. d # c => mbox'[c] = mbox[c]
    BY <1>6 DEF Takes, SupInv, TypeOK
  <2> QED BY <1>1, <1>6, <2>1 DEF Takes
<1>7. ASSUME NEW d \in Cpus, KillAll(d) PROVE FALSE
  BY <1>1, <1>7 DEF KillAll, SupInv, TypeOK
<1>8. ASSUME NEW d \in Cpus, Serve(d) PROVE TakeCull(c)
  <2>1. CASE TakeSpawn(d) \/ TakeEnd(d) \/ TakeCull(d)
    BY <1>6, <2>1 DEF TakeSpawn, TakeEnd, TakeCull
  <2>2. CASE \/ PickWalk(d) \/ PickTerminal(d) \/ PickSelf(d) \/ RelayWalk(d) \/ RelaySend(d)
             \/ Load(d) \/ LoadFails(d) \/ Create(d) \/ CreateFails(d) \/ Broadcast(d)
             \/ Unregister(d)
    <3>1. mbox' = mbox
      BY <2>2 DEF PickWalk, PickTerminal, PickSelf, RelayWalk, RelaySend, Load, LoadFails,
         Create, CreateFails, Broadcast, Unregister, netVars
    <3> QED BY <1>1, <3>1
  <2> QED BY <1>7, <1>8, <2>1, <2>2 DEF Serve
<1>9. ~UNCHANGED vars
  BY <1>1 DEF vars
<1> QED BY <1>3, <1>4, <1>5, <1>8, <1>9 DEF Next

(* A supervisor told that a terminal has ended its session ends exactly    *)
(* the tasks of its processor that were started from that terminal.        *)
THEOREM CullIsExact == Spec => CullExact
<1>1. ASSUME SupInv, [Next]_vars, NEW c \in Cpus, at[c] = "poll", mbox[c] # <<>>,
             Head(mbox[c]).op = "cull", mbox'[c] = Tail(mbox[c]), NEW r \in Requests,
             task[r] = "live", node[r] = c
      PROVE  task'[r] = "live" <=> req[r].hint # Head(mbox[c]).hint
  <2> DEFINE S == {s \in Slot : table[c][s] # None /\ origin[c][s] = Head(mbox[c]).hint}
             dying == {table[c][s] : s \in S} \cap {x \in Requests : task[x] = "live"}
             killed == [x \in Requests |-> IF x \in dying THEN "exited" ELSE task[x]]
  <2>1. IF S = {} THEN UNCHANGED <<table, origin, task, mem>> ELSE Reap(c, killed)
    BY <1>1, OnlyTaken DEF TakeCull
  <2>2. InTable(r) /\ r # None
    BY <1>1, NoneIsNoRequest DEF SupInv, OneRequest
  <2>3. PICK s \in Slot : SlotsOf(r) = {<<c, s>>} /\ origin[c][s] = req[r].hint
    BY <1>1, <2>2 DEF InTable
  <2>4. \A z \in Slot : table[c][z] = r <=> z = s
    <3>1. ASSUME NEW z \in Slot PROVE table[c][z] = r <=> <<c, z>> \in SlotsOf(r)
      BY DEF SlotsOf
    <3> QED BY <2>3, <3>1
  <2>5. r \in dying <=> req[r].hint = Head(mbox[c]).hint
    BY <1>1, <2>2, <2>3, <2>4
  <2>6. r \in dying => S # {} /\ killed[r] = "exited"
    OBVIOUS
  <2>7. r \notin dying => killed[r] = "live"
    BY <1>1
  <2> HIDE DEF S, dying, killed
  <2>8. CASE r \in dying
    <3>1. Reap(c, killed) /\ killed[r] = "exited" /\ table[c][s] = r
      BY <2>1, <2>4, <2>6, <2>8
    <3>2. s \in ExitedSlots(c, killed)
      BY <2>2, <3>1 DEF ExitedSlots
    <3>3. task'[r] = "freed"
      BY <3>1, <3>2 DEF Reap
    <3> QED BY <2>5, <2>8, <3>3
  <2>9. CASE r \notin dying
    <3>1. CASE UNCHANGED <<table, origin, task, mem>>
      BY <1>1, <2>5, <2>9, <3>1
    <3>2. CASE Reap(c, killed)
      <4>1. killed[r] = "live"
        BY <2>7, <2>9
      <4>2. \A z \in ExitedSlots(c, killed) : table[c][z] # r
        BY <4>1 DEF ExitedSlots
      <4>3. task'[r] = "live"
        BY <3>2, <4>1, <4>2 DEF Reap
      <4> QED BY <2>5, <2>9, <4>3
    <3> QED BY <2>1, <3>1, <3>2
  <2> QED BY <2>8, <2>9
<1>2. SupInv /\ [Next]_vars =>
        [\A c \in Cpus :
           (at[c] = "poll" /\ mbox[c] # <<>> /\ Head(mbox[c]).op = "cull"
             /\ mbox'[c] = Tail(mbox[c])) =>
           \A r \in Requests : task[r] = "live" /\ node[r] = c =>
                                 (task'[r] = "live" <=> req[r].hint # Head(mbox[c]).hint)]_vars
  BY <1>1
<1> QED BY SupCorrect, <1>2, PTL DEF Spec, CullExact
=============================================================================

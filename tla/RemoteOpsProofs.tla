--------------------------- MODULE RemoteOpsProofs ---------------------------
(***************************************************************************)
(* Proofs about RemoteOps for any processors, tasks, objects and bounds.   *)
(***************************************************************************)
EXTENDS RemoteOps, Sequences, SequencesExt, SequenceTheorems,
        FiniteSetTheorems, WellFoundedInduction, TLAPS

-----------------------------------------------------------------------------
(* Run queues kept in step with sets of tasks: the Python list operations  *)
(* have their counterparts on the set.                                     *)

(* q lists every member of S exactly once and nothing else.                *)
Lists(q, S) ==
  /\ q \in Seq(S)
  /\ \A i, j \in 1..Len(q) : q[i] = q[j] => i = j
  /\ \A x \in S : \E i \in 1..Len(q) : q[i] = x

(* A function on 1..n is a sequence of length n.                           *)
LEMMA SeqOfFunction ==
  ASSUME NEW S, NEW n \in Nat, NEW f \in [1..n -> S]
  PROVE  f \in Seq(S) /\ Len(f) = n
BY SeqDef

(* A sequence whose elements are all in S is a sequence over S.            *)
LEMMA SeqOver ==
  ASSUME NEW S, NEW T, NEW s \in Seq(T), \A i \in 1..Len(s) : s[i] \in S
  PROVE  s \in Seq(S)
<1>1. Len(s) \in Nat /\ s \in [1..Len(s) -> T]
  BY LenProperties
<1>2. s \in [1..Len(s) -> S]
  BY <1>1
<1> QED BY <1>1, <1>2, SeqDef

(* A non-empty set of natural numbers has a least element.                 *)
LEMMA LeastNatural ==
  ASSUME NEW I \in SUBSET Nat, I # {}
  PROVE  \E m \in I : \A y \in I : m <= y
<1> DEFINE R == OpToRel(<, Nat)
<1>1. IsWellFoundedOn(R, Nat)
  BY NatLessThanWellFounded
<1>2. PICK m \in I : \A y \in I : ~(<<y, m>> \in R)
  BY <1>1, WFMin
<1>3. \A y \in I : ~(y < m)
  BY <1>2 DEF OpToRel
<1> QED BY <1>3

(* Deleting position k of a list.                                          *)
LEMMA RemoveAtProperties ==
  ASSUME NEW S, NEW s \in Seq(S), NEW k \in 1..Len(s)
  PROVE  /\ RemoveAt(s, k) \in Seq(S)
         /\ Len(RemoveAt(s, k)) = Len(s) - 1
         /\ \A j \in 1..(Len(s) - 1) :
              RemoveAt(s, k)[j] = IF j < k THEN s[j] ELSE s[j + 1]
<1> DEFINE a == SubSeq(s, 1, k - 1)
           b == SubSeq(s, k + 1, Len(s))
<1>1. Len(s) \in Nat /\ \A i \in 1..Len(s) : s[i] \in S
  BY ElementOfSeq
<1>2. /\ a \in Seq(S) /\ Len(a) = k - 1
      /\ \A j \in 1..(k - 1) : a[j] = s[j]
  BY <1>1, SubSeqProperties
<1>3. /\ b \in Seq(S) /\ Len(b) = Len(s) - k
      /\ \A j \in 1..(Len(s) - k) : b[j] = s[k + j]
  BY <1>1, SubSeqProperties
<1> HIDE DEF a, b
<1>4. /\ a \o b \in Seq(S) /\ Len(a \o b) = Len(s) - 1
      /\ \A j \in 1..(Len(s) - 1) :
           (a \o b)[j] = IF j <= k - 1 THEN a[j] ELSE b[j - (k - 1)]
  BY <1>1, <1>2, <1>3, ConcatProperties
<1>5. ASSUME NEW j \in 1..(Len(s) - 1)
      PROVE  (a \o b)[j] = IF j < k THEN s[j] ELSE s[j + 1]
  <2>1. CASE j < k
    BY <1>1, <1>2, <1>4, <2>1
  <2>2. CASE ~(j < k)
    <3>1. j - (k - 1) \in 1..(Len(s) - k) /\ k + (j - (k - 1)) = j + 1
      BY <1>1, <2>2
    <3> QED BY <1>1, <1>3, <1>4, <2>2, <3>1
  <2> QED BY <2>1, <2>2
<1> QED BY <1>4, <1>5 DEF RemoveAt, a, b

(* list.remove deletes one position, or nothing.                           *)
LEMMA RemoveFirstAt ==
  ASSUME NEW S, NEW q \in Seq(S), NEW x
  PROVE  \/ RemoveFirst(q, x) = q
         \/ \E k \in 1..Len(q) : RemoveFirst(q, x) = RemoveAt(q, k)
<1>1. CASE \E i \in 1..Len(q) : q[i] = x
  <2> DEFINE I == {i \in 1..Len(q) : q[i] = x}
             k == Min(I)
  <2>1. I # {} /\ I \in SUBSET Nat /\ \A i \in I : i \in 1..Len(q)
    BY <1>1
  <2>2. k \in 1..Len(q)
    BY <2>1, LeastNatural DEF Min
  <2>3. SelectInSeq(q, LAMBDA v : v = x) = k
    BY <2>1 DEF SelectInSeq
  <2>4. RemoveFirst(q, x) = RemoveAt(q, k)
    BY <1>1, <2>3 DEF RemoveFirst
  <2> QED BY <2>2, <2>4
<1> QED BY <1>1 DEF RemoveFirst

(* list.remove adds no element.                                            *)
LEMMA RemoveFirstType ==
  ASSUME NEW S, NEW q \in Seq(S), NEW x
  PROVE  RemoveFirst(q, x) \in Seq(S)
BY RemoveFirstAt, RemoveAtProperties

(* list.pop(0).                                                            *)
LEMMA ListsTail ==
  ASSUME NEW q, NEW S, Lists(q, S), q # <<>>
  PROVE  /\ Head(q) \in S
         /\ Lists(Tail(q), S \ {Head(q)})
<1>1. /\ q \in Seq(S) /\ Len(q) \in Nat /\ 1 \in 1..Len(q) /\ Head(q) = q[1]
      /\ Head(q) \in S
  BY DEF Lists
<1>2. /\ Tail(q) \in Seq(S) /\ Len(Tail(q)) = Len(q) - 1
      /\ \A i \in 1..Len(Tail(q)) : Tail(q)[i] = q[i + 1]
  BY <1>1, HeadTailProperties
<1>3. \A i \in 1..Len(Tail(q)) : Tail(q)[i] \in S \ {Head(q)}
  BY <1>1, <1>2 DEF Lists
<1>4. Tail(q) \in Seq(S \ {Head(q)})
  BY <1>2, <1>3, SeqOver
<1>5. \A i, j \in 1..Len(Tail(q)) : Tail(q)[i] = Tail(q)[j] => i = j
  BY <1>1, <1>2 DEF Lists
<1>6. \A x \in S \ {Head(q)} : \E i \in 1..Len(Tail(q)) : Tail(q)[i] = x
  <2> SUFFICES ASSUME NEW x \in S, x # Head(q)
               PROVE  \E i \in 1..Len(Tail(q)) : Tail(q)[i] = x
    OBVIOUS
  <2>1. PICK k \in 1..Len(q) : q[k] = x
    BY DEF Lists
  <2>2. k - 1 \in 1..Len(Tail(q)) /\ Tail(q)[k - 1] = x
    BY <1>1, <1>2, <2>1
  <2> QED BY <2>2
<1> QED BY <1>1, <1>4, <1>5, <1>6 DEF Lists

(* list.append of a new member.                                            *)
LEMMA ListsAppend ==
  ASSUME NEW q, NEW S, Lists(q, S), NEW x, x \notin S
  PROVE  Lists(Append(q, x), S \cup {x})
<1> DEFINE r == Append(q, x)
<1>1. /\ q \in Seq(S \cup {x}) /\ r \in Seq(S \cup {x}) /\ Len(r) = Len(q) + 1
      /\ Len(q) \in Nat
      /\ \A i \in 1..Len(r) : r[i] = IF i <= Len(q) THEN q[i] ELSE x
      /\ \A i \in 1..Len(q) : q[i] \in S
  BY DEF Lists
<1>2. \A i, j \in 1..Len(r) : r[i] = r[j] => i = j
  <2> SUFFICES ASSUME NEW i \in 1..Len(r), NEW j \in 1..Len(r), r[i] = r[j]
               PROVE  i = j
    OBVIOUS
  <2>1. CASE i <= Len(q) /\ j <= Len(q)
    <3>1. i \in 1..Len(q) /\ j \in 1..Len(q) /\ q[i] = q[j]
      BY <1>1, <2>1
    <3> QED BY <3>1 DEF Lists
  <2>2. CASE i > Len(q) /\ j > Len(q)
    BY <1>1, <2>2
  <2>3. CASE i <= Len(q) /\ j > Len(q)
    BY <1>1, <2>3
  <2>4. CASE i > Len(q) /\ j <= Len(q)
    BY <1>1, <2>4
  <2> QED BY <1>1, <2>1, <2>2, <2>3, <2>4
<1>3. \A y \in S \cup {x} : \E i \in 1..Len(r) : r[i] = y
  <2>1. r[Len(q) + 1] = x /\ Len(q) + 1 \in 1..Len(r)
    BY <1>1
  <2>2. ASSUME NEW y \in S PROVE \E i \in 1..Len(r) : r[i] = y
    <3>1. PICK k \in 1..Len(q) : q[k] = y
      BY DEF Lists
    <3>2. k \in 1..Len(r) /\ r[k] = y
      BY <1>1, <3>1
    <3> QED BY <3>2
  <2> QED BY <2>1, <2>2
<1> QED BY <1>1, <1>2, <1>3 DEF Lists

(* Concatenation of lists of disjoint sets.                                *)
LEMMA ListsConcat ==
  ASSUME NEW p, NEW q, NEW S, NEW T, Lists(p, S), Lists(q, T), S \cap T = {}
  PROVE  Lists(p \o q, S \cup T)
<1> DEFINE r == p \o q
<1>1. /\ p \in Seq(S) /\ q \in Seq(T)
      /\ p \in Seq(S \cup T) /\ q \in Seq(S \cup T)
      /\ Len(p) \in Nat /\ Len(q) \in Nat
      /\ \A i \in 1..Len(p) : p[i] \in S
      /\ \A i \in 1..Len(q) : q[i] \in T
  BY DEF Lists
<1>2. /\ r \in Seq(S \cup T) /\ Len(r) = Len(p) + Len(q)
      /\ \A i \in 1..Len(r) : r[i] = IF i <= Len(p) THEN p[i] ELSE q[i - Len(p)]
  BY <1>1, ConcatProperties
<1>3. \A i, j \in 1..Len(r) : r[i] = r[j] => i = j
  <2> SUFFICES ASSUME NEW i \in 1..Len(r), NEW j \in 1..Len(r), r[i] = r[j]
               PROVE  i = j
    OBVIOUS
  <2>1. CASE i <= Len(p) /\ j <= Len(p)
    <3>1. i \in 1..Len(p) /\ j \in 1..Len(p) /\ p[i] = p[j]
      BY <1>1, <1>2, <2>1
    <3> QED BY <3>1 DEF Lists
  <2>2. CASE i > Len(p) /\ j > Len(p)
    <3>1. i - Len(p) \in 1..Len(q) /\ j - Len(p) \in 1..Len(q)
      BY <1>1, <1>2, <2>2
    <3>2. q[i - Len(p)] = q[j - Len(p)]
      BY <1>1, <1>2, <2>2
    <3>3. i - Len(p) = j - Len(p)
      BY <3>1, <3>2 DEF Lists
    <3> QED BY <1>1, <1>2, <3>3
  <2>3. CASE i <= Len(p) /\ j > Len(p)
    <3>1. i \in 1..Len(p) /\ j - Len(p) \in 1..Len(q)
      BY <1>1, <1>2, <2>3
    <3>2. r[i] \in S /\ r[j] \in T
      BY <1>1, <1>2, <2>3, <3>1
    <3> QED BY <3>2
  <2>4. CASE i > Len(p) /\ j <= Len(p)
    <3>1. j \in 1..Len(p) /\ i - Len(p) \in 1..Len(q)
      BY <1>1, <1>2, <2>4
    <3>2. r[j] \in S /\ r[i] \in T
      BY <1>1, <1>2, <2>4, <3>1
    <3> QED BY <3>2
  <2> QED BY <1>1, <1>2, <2>1, <2>2, <2>3, <2>4
<1>4. ASSUME NEW x \in S \cup T PROVE \E i \in 1..Len(r) : r[i] = x
  <2>1. CASE x \in S
    <3>1. PICK k \in 1..Len(p) : p[k] = x
      BY <2>1 DEF Lists
    <3>2. k \in 1..Len(r) /\ r[k] = x
      BY <1>1, <1>2, <3>1
    <3> QED BY <3>2
  <2>2. CASE x \in T
    <3>1. PICK k \in 1..Len(q) : q[k] = x
      BY <2>2 DEF Lists
    <3>2. k + Len(p) \in 1..Len(r) /\ r[k + Len(p)] = x
      BY <1>1, <1>2, <3>1
    <3> QED BY <3>2
  <2> QED BY <2>1, <2>2
<1> QED BY <1>2, <1>3, <1>4 DEF Lists

(* list.remove of a member.                                                *)
LEMMA ListsRemoveFirst ==
  ASSUME NEW q, NEW S, Lists(q, S), NEW x \in S
  PROVE  Lists(RemoveFirst(q, x), S \ {x})
<1> DEFINE r == RemoveFirst(q, x)
           n == Len(q) - 1
<1>1. PICK k \in 1..Len(q) : q[k] = x
  BY DEF Lists
<1>2. q \in Seq(S) /\ Len(q) \in Nat /\ k \in Nat /\ \A i \in 1..Len(q) : q[i] \in S
  BY <1>1 DEF Lists
<1>3. \A i \in 1..Len(q) : q[i] = x => i = k
  BY <1>1 DEF Lists
<1>4. SelectInSeq(q, LAMBDA v : v = x) = k
  <2> DEFINE I == {i \in 1..Len(q) : q[i] = x}
  <2>1. I = {k}
    BY <1>1, <1>3
  <2>2. Min(I) = k
    BY <1>2, <2>1 DEF Min
  <2> QED BY <2>1, <2>2 DEF SelectInSeq
<1>5. r = RemoveAt(q, k)
  BY <1>1, <1>4 DEF RemoveFirst
<1>6. /\ r \in Seq(S) /\ Len(r) = n
      /\ \A j \in 1..n : r[j] = IF j < k THEN q[j] ELSE q[j + 1]
  BY <1>2, <1>5, RemoveAtProperties
<1> HIDE DEF r
<1>7. \A i \in 1..n : r[i] \in S \ {x}
  BY <1>2, <1>3, <1>6
<1>8. r \in Seq(S \ {x})
  BY <1>6, <1>7, SeqOver
<1>9. \A i, j \in 1..n : r[i] = r[j] => i = j
  <2> SUFFICES ASSUME NEW i \in 1..n, NEW j \in 1..n, r[i] = r[j] PROVE i = j
    OBVIOUS
  <2> DEFINE a(z) == IF z < k THEN z ELSE z + 1
  <2>1. a(i) \in 1..Len(q) /\ a(j) \in 1..Len(q) /\ q[a(i)] = q[a(j)]
    BY <1>2, <1>6
  <2>2. a(i) = a(j)
    BY <2>1 DEF Lists
  <2> QED BY <1>2, <2>2
<1>10. \A y \in S \ {x} : \E i \in 1..n : r[i] = y
  <2> SUFFICES ASSUME NEW y \in S, y # x PROVE \E i \in 1..n : r[i] = y
    OBVIOUS
  <2>1. PICK i \in 1..Len(q) : q[i] = y
    BY DEF Lists
  <2>2. CASE i < k
    BY <1>2, <1>6, <2>1, <2>2
  <2>3. CASE ~(i < k)
    <3>1. i - 1 \in 1..n /\ r[i - 1] = y
      BY <1>1, <1>2, <1>6, <2>1, <2>3
    <3> QED BY <3>1
  <2> QED BY <2>2, <2>3
<1>11. Lists(r, S \ {x})
  BY <1>6, <1>8, <1>9, <1>10 DEF Lists
<1> QED BY <1>11 DEF r

-----------------------------------------------------------------------------
(* A request goes to the home of what it names, an object or a task        *)
(* according to its type.                                                  *)
Requests ==
  {p \in RequestType : /\ p.at \in IF p.type \in {"read", "write"} THEN Objects ELSE Tasks
                       /\ p.dst = Home[p.at]}
Results == Nat \cup {Gone}
LogEntry == [by : Tasks, kind : Kinds, at : Tasks \cup Objects,
             got : Nat \cup {Gone, NotReturned}]

(* Type correctness.  Besides the types it needs that packets and tasks    *)
(* are where they belong: the owner of an answer, the target of a parked   *)
(* request, the processor of a queued or running task.                     *)
MsgTypes ==
  /\ net \subseteq Requests \cup AnswerType
  /\ responses \in [Cpus -> SUBSET AnswerType]
  /\ remoteWaiters \in [Tasks -> SUBSET Requests]
  /\ \A c \in Cpus : \A r \in responses[c] : r.dst = c
  /\ \A x \in Tasks : \A p \in remoteWaiters[x] : p.at = x
ProcTypes ==
  /\ state \in [Tasks -> {"NONE", "NEW", "RUNNABLE", "RUNNING", "BLOCKED", "EXITED"}]
  /\ current \in [Cpus -> Tasks \cup {NoTask}]
  /\ runnable \in [Cpus -> Seq(Tasks)]
  /\ blocked \in [Cpus -> BlockType]
  /\ saved \in [Tasks -> BlockType]
  /\ active \in [Cpus -> BOOLEAN] /\ draining \in [Cpus -> BOOLEAN]
  /\ alive \in [Cpus -> BOOLEAN]
  /\ resets \in [Cpus -> 0..MaxResets]
  /\ \A c \in Cpus : /\ current[c] \in Own(c) \cup {NoTask}
                     /\ active[c] => current[c] # NoTask
                     /\ runnable[c] \in Seq(Own(c))
DataTypes ==
  /\ nextTrans \in [Cpus -> 0..TransMod - 1]
  /\ mem \in [Objects -> Results]
  /\ log \in Seq(LogEntry) /\ Len(log) <= MaxOps

WellTyped == MsgTypes /\ ProcTypes /\ DataTypes

(* The invariant has the types. *)
LEMMA WellTypedTypes == WellTyped => TypeOK
BY DEF WellTyped, MsgTypes, ProcTypes, DataTypes, TypeOK, Requests, Results, LogEntry

(* Blocking records that are not of a task waiting for an answer. *)
LEMMA Blocks ==
  /\ NotBlocked \in BlockType /\ ExitWait \in BlockType
  /\ ~Waits(NotBlocked) /\ ~Waits(ExitWait)
BY BoundsAssumption DEF BlockType, NotBlocked, ExitWait, Waits, Kinds, ObjectKinds, TaskKinds

(* The initial state is well typed. *)
LEMMA TypeInit == Init => WellTyped
<1> SUFFICES ASSUME Init PROVE WellTyped
  OBVIOUS
<1>1. MsgTypes
  BY DEF Init, MsgTypes
<1>2. \A c \in Cpus : <<>> \in Seq(Own(c)) /\ <<>> \in Seq(Tasks)
  BY EmptySeq
<1>3. ProcTypes
  BY <1>2, Blocks, HomeAssumption, BoundsAssumption DEF Init, ProcTypes, Own
<1>4. DataTypes
  BY BoundsAssumption, EmptySeq DEF Init, DataTypes, Results
<1> QED BY <1>1, <1>3, <1>4 DEF WellTyped

-----------------------------------------------------------------------------
(* The answer to a request carries the request's id and history. *)
LEMMA Answers ==
  ASSUME NEW p \in Requests, NEW result \in Results
  PROVE  /\ Answer(p, result) \in AnswerType
         /\ ~Answer(p, result).req
         /\ Answer(p, result).dst = p.src
         /\ Answer(p, result).id = p.id /\ Answer(p, result).op = p.op
BY HomeAssumption DEF Requests, RequestType, AnswerType, Answer, Results

(* So do the answers to the waits parked with a task. *)
LEMMA WaitAnswersType ==
  ASSUME MsgTypes, NEW x \in Tasks
  PROVE  WaitAnswers(x) \subseteq AnswerType
<1>1. Done \in Results
  BY DEF Done, Results
<1> QED BY <1>1, Answers DEF WaitAnswers, MsgTypes

(* What a task's status is answered with. *)
LEMMA StatusType == \A x : TaskStatus(x) \in Results
BY DEF TaskStatus, Results, Exited, Done

(* A request that is parked is of a task. *)
LEMMA AtType ==
  ASSUME NEW p \in Requests
  PROVE  /\ p.req /\ p.dst \in Cpus /\ p.src \in Cpus /\ p.dst = Home[p.at]
         /\ p.op \in 1..MaxOps
         /\ p.type \in {"read", "write"} => p.at \in Objects
         /\ p.type \in TaskKinds => p.at \in Tasks
         /\ p.type \in {"read", "write"} \cup TaskKinds
BY DEF Requests, RequestType, TaskKinds

-----------------------------------------------------------------------------
(* Reply keeps the messages well typed. *)
LEMMA ReplyType ==
  ASSUME MsgTypes, NEW p \in Requests, NEW result \in Results, Reply(p, result),
         UNCHANGED <<responses, remoteWaiters>>
  PROVE  MsgTypes'
BY Answers DEF MsgTypes, Reply

(* The task at the head of a run queue is one of the processor's own. *)
LEMMA HeadOwn ==
  ASSUME ProcTypes, NEW c \in Cpus, runnable[c] # <<>>
  PROVE  /\ Head(runnable[c]) \in Own(c) /\ Head(runnable[c]) \in Tasks
         /\ Tail(runnable[c]) \in Seq(Own(c)) /\ Tail(runnable[c]) \in Seq(Tasks)
BY HeadTailProperties DEF ProcTypes, Own

(* Dropping the current task keeps the scheduler well typed. *)
LEMMA StepOffType ==
  ASSUME ProcTypes, NEW c \in Cpus,
         NEW st \in [Tasks -> {"NONE", "NEW", "RUNNABLE", "RUNNING", "BLOCKED", "EXITED"}],
         StepOff(c, st, runnable[c]), UNCHANGED <<draining, alive, resets>>
  PROVE  ProcTypes'
<1>1. CASE runnable[c] # <<>>
  <2> DEFINE nxt == Head(runnable[c])
  <2>1. /\ active' = [active EXCEPT ![c] = FALSE]
        /\ saved' = [saved EXCEPT ![nxt] = NotBlocked]
        /\ current' = [current EXCEPT ![c] = nxt]
        /\ runnable' = [runnable EXCEPT ![c] = Tail(runnable[c])]
        /\ blocked' = [blocked EXCEPT ![c] = saved[nxt]]
        /\ state' = [st EXCEPT ![nxt] = "RUNNING"]
    BY <1>1 DEF StepOff
  <2>2. /\ nxt \in Own(c) /\ nxt \in Tasks
        /\ Tail(runnable[c]) \in Seq(Own(c)) /\ Tail(runnable[c]) \in Seq(Tasks)
    BY <1>1, HeadOwn
  <2> HIDE DEF nxt
  <2>3. saved[nxt] \in BlockType /\ NotBlocked \in BlockType
    BY <2>2, Blocks DEF ProcTypes
  <2>4. state' \in [Tasks -> {"NONE", "NEW", "RUNNABLE", "RUNNING", "BLOCKED", "EXITED"}]
    BY <2>1, <2>2
  <2>5. /\ current' \in [Cpus -> Tasks \cup {NoTask}]
        /\ runnable' \in [Cpus -> Seq(Tasks)]
        /\ blocked' \in [Cpus -> BlockType]
        /\ saved' \in [Tasks -> BlockType]
        /\ active' \in [Cpus -> BOOLEAN]
    BY <2>1, <2>2, <2>3 DEF ProcTypes
  <2>6. \A d \in Cpus : /\ current'[d] \in Own(d) \cup {NoTask}
                        /\ active'[d] => current'[d] # NoTask
                        /\ runnable'[d] \in Seq(Own(d))
    BY <2>1, <2>2 DEF ProcTypes
  <2> QED BY <2>4, <2>5, <2>6 DEF ProcTypes, Own
<1>2. CASE runnable[c] = <<>>
  BY <1>2, Blocks DEF StepOff, ProcTypes
<1> QED BY <1>1, <1>2

(* A killed task leaves a run queue of the same type. *)
LEMMA WithoutType ==
  ASSUME ProcTypes, NEW c \in Cpus, NEW t
  PROVE  /\ Without(runnable[c], t) \in Seq(Own(c))
         /\ Without(runnable[c], t) \in Seq(Tasks)
BY RemoveFirstType DEF Without, ProcTypes

(* Serving a remote kill keeps the types. *)
LEMMA KillLiveType ==
  ASSUME MsgTypes, ProcTypes, NEW p \in Requests, p.type = "kill", ServeKillLive(p),
         UNCHANGED <<responses, alive, resets>>
  PROVE  MsgTypes' /\ ProcTypes'
<1> DEFINE x == p.at
           c == Home[x]
           st == [state EXCEPT ![x] = "EXITED"]
<1>1. x \in Tasks /\ c \in Cpus
  BY AtType, HomeAssumption DEF TaskKinds
<1>2. MsgTypes'
  <2>1. Answer(p, Done) \in AnswerType
    BY Answers DEF Results, Done
  <2>2. remoteWaiters' \in [Tasks -> SUBSET Requests]
    BY <1>1 DEF ServeKillLive, MsgTypes
  <2>3. net' \subseteq Requests \cup AnswerType
    BY <1>1, <2>1, WaitAnswersType DEF ServeKillLive, MsgTypes
  <2>4. \A y \in Tasks : \A q \in remoteWaiters'[y] : q.at = y
    BY <1>1 DEF ServeKillLive, MsgTypes
  <2> QED BY <2>2, <2>3, <2>4 DEF MsgTypes
<1>3. st \in [Tasks -> {"NONE", "NEW", "RUNNABLE", "RUNNING", "BLOCKED", "EXITED"}]
  BY <1>1 DEF ProcTypes
<1>4. ProcTypes'
  <2>1. CASE x = current[c]
    BY <2>1, <1>1, <1>3, StepOffType DEF ServeKillLive
  <2>2. CASE x # current[c]
    <3>1. /\ state' = st /\ saved' = [saved EXCEPT ![x] = NotBlocked]
          /\ runnable' = [runnable EXCEPT ![c] = Without(runnable[c], x)]
          /\ UNCHANGED <<current, blocked, active, draining, alive, resets>>
      BY <2>2 DEF ServeKillLive
    <3>2. /\ Without(runnable[c], x) \in Seq(Own(c))
          /\ Without(runnable[c], x) \in Seq(Tasks)
      BY <1>1, WithoutType
    <3> HIDE DEF x, c, st
    <3>3. runnable' \in [Cpus -> Seq(Tasks)] /\ saved' \in [Tasks -> BlockType]
      BY <1>1, <3>1, <3>2, Blocks DEF ProcTypes
    <3>4. \A d \in Cpus : runnable'[d] \in Seq(Own(d))
      BY <1>1, <3>1, <3>2 DEF ProcTypes
    <3> QED BY <1>3, <3>1, <3>3, <3>4 DEF ProcTypes, Own
  <2> QED BY <2>1, <2>2
<1> QED BY <1>2, <1>4

(* Taking a packet keeps the types. *)
LEMMA TakeType ==
  ASSUME WellTyped, NEW p \in net, Take(p)
  PROVE  WellTyped'
<1>0. MsgTypes /\ ProcTypes /\ DataTypes
  BY DEF WellTyped
<1>1. CASE Arrive(p)
  <2>1. p \in AnswerType
    BY <1>0, <1>1, AtType DEF Arrive, MsgTypes
  <2>2. p.dst \in Cpus
    BY <2>1 DEF AnswerType
  <2>3. MsgTypes'
    <3>1. /\ net' = net \ {p} /\ responses' = [responses EXCEPT ![p.dst] = @ \cup {p}]
          /\ remoteWaiters' = remoteWaiters
      BY <1>1 DEF Arrive, taskVars
    <3>2. responses' \in [Cpus -> SUBSET AnswerType]
      BY <1>0, <2>1, <2>2, <3>1 DEF MsgTypes
    <3>3. \A c \in Cpus : \A r \in responses'[c] : r.dst = c
      BY <1>0, <2>2, <3>1 DEF MsgTypes
    <3> QED BY <1>0, <3>1, <3>2, <3>3 DEF MsgTypes
  <2> QED BY <1>0, <1>1, <2>3 DEF Arrive, WellTyped, ProcTypes, DataTypes, taskVars, procVars, Own
<1>2. CASE Drop(p)
  BY <1>0, <1>2 DEF Drop, WellTyped, MsgTypes, ProcTypes, DataTypes, taskVars, procVars, Own
<1>3. CASE Serve(p)
  <2>1. p \in Requests
    BY <1>0, <1>3 DEF Serve, MsgTypes, AnswerType
  <2>2. UNCHANGED <<responses, nextTrans, alive, resets, log>>
    BY <1>3 DEF Serve
  <2>3. CASE ServeRead(p)
    <3>1. mem[p.at] \in Results
      BY <1>0, <2>1, <2>3, AtType DEF ServeRead, DataTypes
    <3>2. MsgTypes'
      BY <1>0, <2>1, <2>2, <2>3, <3>1, ReplyType DEF ServeRead, taskVars
    <3> QED BY <1>0, <2>2, <2>3, <3>2
            DEF ServeRead, WellTyped, ProcTypes, DataTypes, taskVars, procVars, Own
  <2>4. CASE ServeWrite(p)
    <3>1. \E result \in Results : Reply(p, result)
      BY <2>4 DEF ServeWrite, Results, Done
    <3>2. MsgTypes'
      BY <1>0, <2>1, <2>2, <2>4, <3>1, ReplyType DEF ServeWrite, taskVars
    <3>3. p.op \in Results /\ p.at \in Objects
      BY <2>1, <2>4, AtType, BoundsAssumption DEF ServeWrite, Results
    <3>4. DataTypes'
      BY <1>0, <2>2, <2>4, <3>3 DEF ServeWrite, DataTypes
    <3> QED BY <1>0, <2>2, <2>4, <3>2, <3>4
            DEF ServeWrite, WellTyped, ProcTypes, taskVars, procVars, Own
  <2>5. CASE ServeQuery(p)
    <3>2. MsgTypes'
      BY <1>0, <2>1, <2>2, <2>5, StatusType, ReplyType DEF ServeQuery, taskVars
    <3> QED BY <1>0, <2>2, <2>5, <3>2
            DEF ServeQuery, WellTyped, ProcTypes, DataTypes, taskVars, procVars, Own
  <2>6. CASE ServeWait(p)
    <3>1. p.at \in Tasks
      BY <2>1, <2>6, AtType DEF ServeWait, TaskKinds
    <3>2. MsgTypes'
      <4>1. CASE state[p.at] \in {"NONE", "EXITED"}
        <5>1. \E result \in Results : Reply(p, result)
          BY <2>6, <4>1 DEF ServeWait, Results, Done
        <5> QED BY <1>0, <2>1, <2>2, <2>6, <4>1, <5>1, ReplyType DEF ServeWait
      <4>2. CASE state[p.at] \notin {"NONE", "EXITED"}
        BY <1>0, <2>1, <2>2, <2>6, <3>1, <4>2 DEF ServeWait, MsgTypes
      <4> QED BY <4>1, <4>2
    <3> QED BY <1>0, <2>2, <2>6, <3>2
            DEF ServeWait, WellTyped, ProcTypes, DataTypes, procVars, Own
  <2>7. CASE ServeKill(p)
    <3>1. DataTypes'
      BY <1>0, <2>2, <2>7 DEF ServeKill, DataTypes
    <3>2. CASE state[p.at] \in {"NONE", "EXITED"}
      <4>1. \E result \in Results : Reply(p, result)
        BY <2>7, <3>2 DEF ServeKill, Results, Done
      <4>2. MsgTypes'
        BY <1>0, <2>1, <2>2, <2>7, <3>2, <4>1, ReplyType DEF ServeKill, taskVars
      <4> QED BY <1>0, <2>2, <2>7, <3>1, <3>2, <4>2
              DEF ServeKill, WellTyped, ProcTypes, taskVars, procVars, Own
    <3>3. CASE state[p.at] \notin {"NONE", "EXITED"}
      BY <1>0, <2>1, <2>2, <2>7, <3>1, <3>3, KillLiveType DEF ServeKill, WellTyped
    <3> QED BY <3>2, <3>3
  <2> QED BY <1>3, <2>3, <2>4, <2>5, <2>6, <2>7 DEF Serve
<1> QED BY <1>1, <1>2, <1>3 DEF Take

-----------------------------------------------------------------------------
(* Ending a process keeps the messages well typed. *)
LEMMA DiesType ==
  ASSUME WellTyped, NEW c \in Cpus, Dies(c),
         UNCHANGED <<net, nextTrans, state, saved, current, runnable, mem, active,
                     draining, resets>>
  PROVE  WellTyped'
<1>1. MsgTypes'
  BY DEF Dies, WellTyped, MsgTypes
<1> QED BY <1>1 DEF Dies, WellTyped, ProcTypes, DataTypes, Own

(* An order of a set of tasks is a sequence of them. *)
LEMMA OrderType ==
  ASSUME NEW S \in SUBSET Tasks, NEW ws \in SetToSeqs(S)
  PROVE  ws \in Seq(S)
<1>1. Cardinality(S) \in Nat
  BY HomeAssumption, FS_Subset, FS_CardinalityType
<1> QED BY <1>1, SeqOfFunction DEF SetToSeqs

(* Waking, unblocking and switching away keep the types. *)
LEMMA LoopType ==
  ASSUME WellTyped, NEW c \in Cpus, Loop(c)
  PROVE  WellTyped'
<1>0. MsgTypes /\ ProcTypes /\ DataTypes
  BY DEF WellTyped
<1>1. CASE Wake(c)
  <2>1. PICK ws \in SetToSeqs(Woken(c)) :
          runnable' = [runnable EXCEPT ![c] = ws \o @]
    BY <1>1 DEF Wake
  <2>2. Woken(c) \in SUBSET Tasks /\ Woken(c) \subseteq Own(c)
    BY DEF Woken, Own
  <2>3. ws \in Seq(Own(c)) /\ ws \in Seq(Tasks)
    BY <2>2, OrderType, SeqMonotonic
  <2>4. runnable[c] \in Seq(Own(c)) /\ runnable[c] \in Seq(Tasks)
    BY <1>0 DEF ProcTypes
  <2>5. ws \o runnable[c] \in Seq(Own(c)) /\ ws \o runnable[c] \in Seq(Tasks)
    BY <2>3, <2>4, ConcatProperties
  <2>6. runnable' \in [Cpus -> Seq(Tasks)] /\ \A d \in Cpus : runnable'[d] \in Seq(Own(d))
    BY <1>0, <2>1, <2>5 DEF ProcTypes
  <2>7. state' \in [Tasks -> {"NONE", "NEW", "RUNNABLE", "RUNNING", "BLOCKED", "EXITED"}]
    BY <1>0, <1>1 DEF Wake, ProcTypes
  <2>8. ProcTypes'
    BY <1>0, <1>1, <2>6, <2>7 DEF Wake, ProcTypes, Own
  <2> QED BY <1>0, <1>1, <2>8 DEF Wake, WellTyped, MsgTypes, DataTypes
<1>2. CASE Unblock(c)
  <2>1. PICK r \in Claimable(c) :
          IF blocked[c].kind \in Unchecked /\ r.result = Gone /\ c \notin TrapHandled
            THEN Dies(c)
            ELSE /\ responses' = [responses EXCEPT ![c] = @ \ {r}]
                 /\ log' = [log EXCEPT ![blocked[c].op].got = r.result]
                 /\ blocked' = [blocked EXCEPT ![c] = NotBlocked]
                 /\ UNCHANGED <<alive, remoteWaiters>>
    BY <1>2 DEF Unblock
  <2>2. UNCHANGED <<net, nextTrans, state, saved, current, runnable, mem, active,
                    draining, resets>>
    BY <1>2 DEF Unblock
  <2>3. CASE Dies(c)
    BY <2>2, <2>3, DiesType
  <2>4. CASE /\ responses' = [responses EXCEPT ![c] = @ \ {r}]
             /\ log' = [log EXCEPT ![blocked[c].op].got = r.result]
             /\ blocked' = [blocked EXCEPT ![c] = NotBlocked]
             /\ UNCHANGED <<alive, remoteWaiters>>
    <3>1. r.result \in Results
      <4>1. r \in responses[c]
        BY DEF Claimable
      <4>2. r \in AnswerType
        BY <1>0, <4>1 DEF MsgTypes
      <4> QED BY <4>2 DEF AnswerType, Results
    <3>2. log' \in Seq(LogEntry) /\ Len(log') = Len(log)
      <4> DEFINE n == blocked[c].op
                 e == [log[n] EXCEPT !.got = r.result]
      <4>1. log' = [log EXCEPT ![n] = e]
        BY <2>4
      <4>2. CASE n \in 1..Len(log)
        <5>1. log[n] \in LogEntry
          BY <1>0, <4>2, ElementOfSeq DEF DataTypes
        <5>2. e \in LogEntry
          BY <3>1, <5>1 DEF LogEntry, Results
        <5> HIDE DEF e, n
        <5> QED BY <1>0, <4>1, <4>2, <5>2, ExceptSeq DEF DataTypes
      <4>3. CASE n \notin 1..Len(log)
        <5>1. DOMAIN log = 1..Len(log) /\ log = [i \in DOMAIN log |-> log[i]]
          BY <1>0 DEF DataTypes
        <5>2. log' = log
          BY <4>1, <4>3, <5>1
        <5> QED BY <1>0, <5>2 DEF DataTypes
      <4> QED BY <4>2, <4>3
    <3>3. DataTypes'
      BY <1>0, <2>2, <3>2 DEF DataTypes
    <3>4. MsgTypes'
      BY <1>0, <2>2, <2>4 DEF MsgTypes
    <3>5. ProcTypes'
      BY <1>0, <2>2, <2>4, Blocks DEF ProcTypes, Own
    <3> QED BY <3>3, <3>4, <3>5 DEF WellTyped
  <2> QED BY <2>1, <2>3, <2>4
<1>3. CASE SwitchAway(c)
  <2> DEFINE nxt == Head(runnable[c])
             parks == {t \in {current[c]} : t # NoTask /\ state[t] # "EXITED"}
  <2>1. /\ state' = [t \in Tasks |-> IF t = nxt THEN "RUNNING"
                                      ELSE IF t \in parks THEN "BLOCKED" ELSE state[t]]
        /\ saved' = [t \in Tasks |-> IF t = nxt THEN NotBlocked
                                     ELSE IF t \in parks THEN blocked[c] ELSE saved[t]]
        /\ current' = [current EXCEPT ![c] = nxt]
        /\ blocked' = [blocked EXCEPT ![c] = saved[nxt]]
        /\ runnable' = [runnable EXCEPT ![c] = Tail(@)]
        /\ runnable[c] # <<>>
    BY <1>3 DEF SwitchAway
  <2>2. /\ nxt \in Own(c) /\ nxt \in Tasks
        /\ Tail(runnable[c]) \in Seq(Own(c)) /\ Tail(runnable[c]) \in Seq(Tasks)
    BY <1>0, <2>1, HeadOwn
  <2> HIDE DEF nxt
  <2>3. saved[nxt] \in BlockType /\ blocked[c] \in BlockType /\ NotBlocked \in BlockType
    BY <1>0, <2>2, Blocks DEF ProcTypes
  <2>4. state' \in [Tasks -> {"NONE", "NEW", "RUNNABLE", "RUNNING", "BLOCKED", "EXITED"}]
    BY <1>0, <2>1 DEF ProcTypes
  <2>5. /\ current' \in [Cpus -> Tasks \cup {NoTask}]
        /\ runnable' \in [Cpus -> Seq(Tasks)]
        /\ blocked' \in [Cpus -> BlockType]
        /\ saved' \in [Tasks -> BlockType]
    BY <1>0, <2>1, <2>2, <2>3 DEF ProcTypes
  <2>6. nxt # NoTask
    BY <2>2, HomeAssumption
  <2>7. \A d \in Cpus : /\ current'[d] \in Own(d) \cup {NoTask}
                        /\ active[d] => current'[d] # NoTask
                        /\ runnable'[d] \in Seq(Own(d))
    BY <1>0, <2>1, <2>2, <2>6 DEF ProcTypes
  <2>8. UNCHANGED <<net, responses, nextTrans, remoteWaiters, mem, active, draining,
                    alive, resets, log>>
    BY <1>3 DEF SwitchAway
  <2>9. ProcTypes'
    BY <1>0, <2>4, <2>5, <2>7, <2>8 DEF ProcTypes, Own
  <2> QED BY <1>0, <2>8, <2>9 DEF WellTyped, MsgTypes, DataTypes
<1> QED BY <1>1, <1>2, <1>3 DEF Loop

-----------------------------------------------------------------------------
(* A request names what it is for. *)
LEMMA RequestIsTyped ==
  ASSUME NEW c \in Cpus, NEW kind \in Kinds, NEW id \in 0..TransMod - 1, NEW n \in 1..MaxOps,
         NEW x \in IF kind \in ObjectKinds THEN Objects ELSE Tasks
  PROVE  Request(c, kind, x, id, n) \in Requests
<1>1. Type(kind) \in {"read", "write"} \cup TaskKinds
  BY DEF Type, Kinds, ObjectKinds, TaskKinds
<1>2. Type(kind) \in {"read", "write"} <=> kind \in ObjectKinds
  BY DEF Type, Kinds, ObjectKinds, TaskKinds
<1>3. x \in Tasks \cup Objects /\ Home[x] \in Cpus
  BY HomeAssumption
<1> QED BY <1>1, <1>2, <1>3 DEF Request, Requests, RequestType

(* Issuing an operation keeps the types. *)
LEMMA IssueType ==
  ASSUME WellTyped, NEW c \in Cpus, NEW kind \in Kinds,
         NEW x \in IF kind \in ObjectKinds THEN Objects ELSE Tasks, Issue(c, kind, x)
  PROVE  WellTyped'
<1>0. MsgTypes /\ ProcTypes /\ DataTypes
  BY DEF WellTyped
<1> DEFINE id == nextTrans[c]
           n == Len(log) + 1
           entry == [by |-> current[c], kind |-> kind, at |-> x, got |-> NotReturned]
           b == [kind |-> kind, id |-> id, op |-> n]
<1>1. /\ net' = net \cup {Request(c, kind, x, id, n)}
      /\ blocked' = [blocked EXCEPT ![c] = b]
      /\ log' = Append(log, entry)
      /\ nextTrans' = [nextTrans EXCEPT ![c] = NextId(id)]
      /\ UNCHANGED <<responses, taskVars, current, runnable, mem, active, draining,
                     alive, resets>>
      /\ active[c] /\ Len(log) < MaxOps
  BY DEF Issue, Executing
<1>2. n \in 1..MaxOps /\ id \in 0..TransMod - 1
  BY <1>0, <1>1, BoundsAssumption DEF DataTypes
<1>3. current[c] \in Tasks
  BY <1>0, <1>1 DEF ProcTypes
<1>4. entry \in LogEntry
  BY <1>3 DEF LogEntry, Kinds
<1>5. b \in BlockType
  BY <1>2 DEF BlockType
<1>6. NextId(id) \in 0..TransMod - 1
  <2>1. \A m \in Nat \ {0} : \A i \in Nat : (i + 1) % m \in 0..m - 1
    OBVIOUS
  <2> QED BY <1>2, <2>1, BoundsAssumption DEF NextId
<1> HIDE DEF id, entry, b
<1>7. Request(c, kind, x, id, n) \in Requests
  BY <1>2, RequestIsTyped
<1>8. MsgTypes'
  BY <1>0, <1>1, <1>7 DEF MsgTypes, taskVars
<1>9. ProcTypes'
  BY <1>0, <1>1, <1>5 DEF ProcTypes, taskVars, Own
<1>10. DataTypes'
  <2>1. log' \in Seq(LogEntry) /\ Len(log') = n
    BY <1>0, <1>1, <1>4, AppendProperties DEF DataTypes
  <2> QED BY <1>0, <1>1, <1>2, <1>6, <2>1 DEF DataTypes
<1> QED BY <1>8, <1>9, <1>10 DEF WellTyped

(* The exit of a task answers the waits parked with it. *)
LEMMA ExitMsgType ==
  ASSUME MsgTypes, NEW x \in Tasks,
         net' = net \cup WaitAnswers(x),
         remoteWaiters' = [remoteWaiters EXCEPT ![x] = {}],
         responses' = responses
  PROVE  MsgTypes'
<1>1. net' \subseteq Requests \cup AnswerType
  BY WaitAnswersType DEF MsgTypes
<1>2. remoteWaiters' \in [Tasks -> SUBSET Requests]
  BY DEF MsgTypes
<1>3. \A y \in Tasks : \A p \in remoteWaiters'[y] : p.at = y
  BY DEF MsgTypes
<1> QED BY <1>1, <1>2, <1>3 DEF MsgTypes

(* What the current task does keeps the types. *)
LEMMA ProgramType ==
  ASSUME WellTyped, NEW c \in Cpus, Programs(c)
  PROVE  WellTyped'
<1>0. MsgTypes /\ ProcTypes /\ DataTypes
  BY DEF WellTyped
<1>1. CASE \E x \in Objects, k \in ObjectKinds : Issue(c, k, x)
  BY <1>1, IssueType DEF Kinds
<1>2. CASE \E x \in Tasks, k \in TaskKinds : Issue(c, k, x)
  <2>1. TaskKinds \cap ObjectKinds = {}
    BY DEF TaskKinds, ObjectKinds
  <2> QED BY <1>2, <2>1, IssueType DEF Kinds
<1>3. CASE \E o \in Objects : LocalStore(c, o) \/ ObjFree(c, o)
  <2>1. DataTypes'
    BY <1>0, <1>3 DEF LocalStore, ObjFree, DataTypes, Results
  <2> QED BY <1>0, <1>3, <2>1
          DEF LocalStore, ObjFree, WellTyped, MsgTypes, ProcTypes, taskVars, procVars, Own
<1>4. ASSUME NEW t \in Tasks, TaskCreate(c, t) PROVE WellTyped'
  BY <1>0, <1>4 DEF TaskCreate, WellTyped, MsgTypes, ProcTypes, DataTypes, procVars, Own
<1>5. ASSUME NEW t \in Tasks, TaskResume(c, t) PROVE WellTyped'
  <2>1. t \in Own(c)
    BY <1>5 DEF TaskResume, Own
  <2>2. Append(runnable[c], t) \in Seq(Own(c)) /\ Append(runnable[c], t) \in Seq(Tasks)
    BY <1>0, <2>1, AppendProperties DEF ProcTypes
  <2>3. /\ runnable' = [runnable EXCEPT ![c] = Append(@, t)]
        /\ state' = [state EXCEPT ![t] = "RUNNABLE"]
        /\ UNCHANGED <<saved, current, blocked, active, draining, alive, resets>>
    BY <1>5 DEF TaskResume
  <2>4. ProcTypes'
    BY <1>0, <2>2, <2>3 DEF ProcTypes, Own
  <2> QED BY <1>0, <1>5, <2>4 DEF TaskResume, WellTyped, MsgTypes, DataTypes
<1>6. ASSUME NEW t \in Tasks, TaskKill(c, t) PROVE WellTyped'
  <2>1. MsgTypes'
    BY <1>0, <1>6, ExitMsgType DEF TaskKill
  <2>2. /\ runnable' = [runnable EXCEPT ![c] = Without(@, t)]
        /\ state' = [state EXCEPT ![t] = "EXITED"]
        /\ saved' = [saved EXCEPT ![t] = NotBlocked]
        /\ UNCHANGED <<current, blocked, active, draining, alive, resets>>
    BY <1>6 DEF TaskKill
  <2>3. ProcTypes'
    BY <1>0, <2>2, WithoutType, Blocks DEF ProcTypes, Own
  <2> QED BY <1>0, <1>6, <2>1, <2>3 DEF TaskKill, WellTyped, DataTypes
<1>7. CASE TaskYield(c)
  <2> DEFINE nxt == Head(runnable[c])
             cur == current[c]
  <2>1. /\ state' = [state EXCEPT ![cur] = "RUNNABLE", ![nxt] = "RUNNING"]
        /\ saved' = [saved EXCEPT ![cur] = NotBlocked, ![nxt] = NotBlocked]
        /\ current' = [current EXCEPT ![c] = nxt]
        /\ blocked' = [blocked EXCEPT ![c] = saved[nxt]]
        /\ runnable' = [runnable EXCEPT ![c] = Append(Tail(@), cur)]
        /\ runnable[c] # <<>> /\ active[c]
        /\ UNCHANGED <<active, draining, alive, resets>>
    BY <1>7 DEF TaskYield, Executing
  <2>2. /\ nxt \in Own(c) /\ nxt \in Tasks
        /\ Tail(runnable[c]) \in Seq(Own(c)) /\ Tail(runnable[c]) \in Seq(Tasks)
    BY <1>0, <2>1, HeadOwn
  <2>3. cur \in Own(c) /\ cur \in Tasks
    BY <1>0, <2>1 DEF ProcTypes, Own
  <2>4. /\ Append(Tail(runnable[c]), cur) \in Seq(Own(c))
        /\ Append(Tail(runnable[c]), cur) \in Seq(Tasks)
    BY <2>2, <2>3, AppendProperties
  <2>5. nxt # NoTask
    BY <2>2, HomeAssumption
  <2> HIDE DEF nxt, cur
  <2>6. /\ state' \in [Tasks -> {"NONE", "NEW", "RUNNABLE", "RUNNING", "BLOCKED", "EXITED"}]
        /\ current' \in [Cpus -> Tasks \cup {NoTask}]
        /\ runnable' \in [Cpus -> Seq(Tasks)]
        /\ blocked' \in [Cpus -> BlockType]
        /\ saved' \in [Tasks -> BlockType]
    BY <1>0, <2>1, <2>2, <2>3, <2>4, Blocks DEF ProcTypes
  <2>7. \A d \in Cpus : /\ current'[d] \in Own(d) \cup {NoTask}
                        /\ active'[d] => current'[d] # NoTask
                        /\ runnable'[d] \in Seq(Own(d))
    BY <1>0, <2>1, <2>2, <2>4, <2>5 DEF ProcTypes
  <2>8. ProcTypes'
    BY <1>0, <2>1, <2>6, <2>7 DEF ProcTypes, Own
  <2> QED BY <1>0, <1>7, <2>8 DEF TaskYield, WellTyped, MsgTypes, DataTypes
<1>8. CASE TaskExit(c)
  <2> DEFINE x == current[c]
             st == [state EXCEPT ![x] = "EXITED"]
             q == runnable[c]
  <2>1. x \in Tasks /\ x \in Own(c)
    BY <1>0, <1>8 DEF TaskExit, Executing, ProcTypes, Own
  <2>2. MsgTypes'
    BY <1>0, <1>8, <2>1, ExitMsgType DEF TaskExit
  <2>3. st \in [Tasks -> {"NONE", "NEW", "RUNNABLE", "RUNNING", "BLOCKED", "EXITED"}]
    BY <1>0 DEF ProcTypes
  <2>4. UNCHANGED <<nextTrans, mem, alive, resets, log>>
    BY <1>8 DEF TaskExit
  <2>5. ASSUME /\ q # <<>>
               /\ state' = [st EXCEPT ![Head(q)] = "RUNNING"]
               /\ saved' = [saved EXCEPT ![Head(q)] = NotBlocked]
               /\ current' = [current EXCEPT ![c] = Head(q)]
               /\ blocked' = [blocked EXCEPT ![c] = saved[Head(q)]]
               /\ runnable' = [runnable EXCEPT ![c] = Tail(q)]
               /\ UNCHANGED <<active, draining>>
         PROVE ProcTypes'
    <3> DEFINE nxt == Head(q)
    <3>1. /\ nxt \in Own(c) /\ nxt \in Tasks
          /\ Tail(q) \in Seq(Own(c)) /\ Tail(q) \in Seq(Tasks)
      BY <1>0, <2>5, HeadOwn
    <3>2. nxt # NoTask
      BY <3>1, HomeAssumption
    <3> HIDE DEF nxt, st
    <3>3. /\ state' \in [Tasks -> {"NONE", "NEW", "RUNNABLE", "RUNNING", "BLOCKED", "EXITED"}]
          /\ current' \in [Cpus -> Tasks \cup {NoTask}]
          /\ runnable' \in [Cpus -> Seq(Tasks)]
          /\ blocked' \in [Cpus -> BlockType]
          /\ saved' \in [Tasks -> BlockType]
      BY <1>0, <2>3, <2>5, <3>1, Blocks DEF ProcTypes, nxt
    <3>4. \A d \in Cpus : /\ current'[d] \in Own(d) \cup {NoTask}
                          /\ active'[d] => current'[d] # NoTask
                          /\ runnable'[d] \in Seq(Own(d))
      BY <1>0, <2>5, <3>1, <3>2 DEF ProcTypes, nxt
    <3>5. UNCHANGED <<active, draining, alive, resets>>
      BY <2>4, <2>5
    <3> QED BY <1>0, <3>3, <3>4, <3>5 DEF ProcTypes, Own
  <2>6. ASSUME /\ q = <<>> /\ state' = st
               /\ blocked' = [blocked EXCEPT ![c] = ExitWait]
               /\ UNCHANGED <<saved, current, runnable, active, draining>>
         PROVE ProcTypes'
    <3> HIDE DEF st, q, x
    <3>1. blocked' \in [Cpus -> BlockType]
      BY <1>0, <2>6, Blocks DEF ProcTypes
    <3>2. UNCHANGED <<saved, current, runnable, active, draining, alive, resets>> /\ state' = st
      BY <2>4, <2>6
    <3> QED BY <1>0, <2>3, <3>1, <3>2 DEF ProcTypes, Own
  <2>7. ASSUME /\ q = <<>> /\ state' = st
               /\ active' = [active EXCEPT ![c] = FALSE]
               /\ draining' = [draining EXCEPT ![c] = c \in Resettable]
               /\ UNCHANGED <<saved, current, runnable, blocked>>
         PROVE ProcTypes'
    <3> HIDE DEF st, q, x
    <3>1. (c \in Resettable) \in BOOLEAN
      OBVIOUS
    <3>2. draining' \in [Cpus -> BOOLEAN]
      BY <1>0, <2>7, <3>1, Zenon DEF ProcTypes
    <3>3. active' = [active EXCEPT ![c] = FALSE]
      BY <2>7
    <3>4. active' \in [Cpus -> BOOLEAN] /\ \A d \in Cpus : active'[d] => active[d]
      BY <1>0, <3>3 DEF ProcTypes
    <3>5. UNCHANGED <<saved, current, runnable, blocked, alive, resets>> /\ state' = st
      BY <2>4, <2>7
    <3> QED BY <1>0, <2>3, <3>2, <3>4, <3>5 DEF ProcTypes, Own
  <2>8. ProcTypes'
    <3>1. \/ /\ q # <<>>
             /\ state' = [st EXCEPT ![Head(q)] = "RUNNING"]
             /\ saved' = [saved EXCEPT ![Head(q)] = NotBlocked]
             /\ current' = [current EXCEPT ![c] = Head(q)]
             /\ blocked' = [blocked EXCEPT ![c] = saved[Head(q)]]
             /\ runnable' = [runnable EXCEPT ![c] = Tail(q)]
             /\ UNCHANGED <<active, draining>>
          \/ /\ q = <<>> /\ state' = st
             /\ blocked' = [blocked EXCEPT ![c] = ExitWait]
             /\ UNCHANGED <<saved, current, runnable, active, draining>>
          \/ /\ q = <<>> /\ state' = st
             /\ active' = [active EXCEPT ![c] = FALSE]
             /\ draining' = [draining EXCEPT ![c] = c \in Resettable]
             /\ UNCHANGED <<saved, current, runnable, blocked>>
      BY <1>8, ZenonT(30) DEF TaskExit
    <3> HIDE DEF st, q, x
    <3> QED BY <2>5, <2>6, <2>7, <3>1, ZenonT(30)
  <2> QED BY <1>0, <2>2, <2>4, <2>8 DEF WellTyped, DataTypes
<1> QED BY <1>1, <1>2, <1>3, <1>4, <1>5, <1>6, <1>7, <1>8 DEF Programs

(* Resetting a processor gives it the types of a fresh one. *)
LEMMA ResetType ==
  ASSUME WellTyped, NEW c \in Cpus, Reset(c)
  PROVE  WellTyped'
<1>0. MsgTypes /\ ProcTypes /\ DataTypes
  BY DEF WellTyped
<1>1. MsgTypes'
  <2>1. /\ net' = net /\ responses' = [responses EXCEPT ![c] = {}]
        /\ remoteWaiters' = [t \in Tasks |-> IF t \in Own(c) THEN {} ELSE remoteWaiters[t]]
    BY DEF Reset
  <2> QED BY <1>0, <2>1 DEF MsgTypes
<1>2. DataTypes'
  <2>1. /\ nextTrans' = [nextTrans EXCEPT ![c] = 0] /\ log' = log
        /\ mem' = [o \in Objects |-> IF Home[o] = c THEN 0 ELSE mem[o]]
    BY DEF Reset
  <2> QED BY <1>0, <2>1, BoundsAssumption DEF DataTypes, Results
<1>3. ProcTypes'
  <2>1. /\ state' = [t \in Tasks |-> IF t \notin Own(c) THEN state[t]
                                    ELSE IF t = Boot[c] THEN "RUNNING" ELSE "NONE"]
        /\ saved' = [t \in Tasks |-> IF t \in Own(c) THEN NotBlocked ELSE saved[t]]
        /\ current' = [current EXCEPT ![c] = Boot[c]]
        /\ runnable' = [runnable EXCEPT ![c] = <<>>]
        /\ active' = [active EXCEPT ![c] = TRUE]
        /\ draining' = [draining EXCEPT ![c] = FALSE]
        /\ resets' = [resets EXCEPT ![c] = @ + 1]
        /\ UNCHANGED <<blocked, alive>> /\ resets[c] < MaxResets
    BY DEF Reset
  <2>2. Boot[c] \in Own(c) /\ Boot[c] \in Tasks /\ Boot[c] # NoTask
    BY HomeAssumption DEF Own
  <2>3. <<>> \in Seq(Own(c)) /\ <<>> \in Seq(Tasks)
    BY EmptySeq
  <2>4. resets' \in [Cpus -> 0..MaxResets]
    BY <1>0, <2>1, BoundsAssumption DEF ProcTypes
  <2>5. /\ state' \in [Tasks -> {"NONE", "NEW", "RUNNABLE", "RUNNING", "BLOCKED", "EXITED"}]
        /\ saved' \in [Tasks -> BlockType]
    BY <1>0, <2>1, Blocks DEF ProcTypes
  <2>6. /\ current' \in [Cpus -> Tasks \cup {NoTask}]
        /\ runnable' \in [Cpus -> Seq(Tasks)]
        /\ active' \in [Cpus -> BOOLEAN] /\ draining' \in [Cpus -> BOOLEAN]
    BY <1>0, <2>1, <2>2, <2>3 DEF ProcTypes
  <2>7. \A d \in Cpus : /\ current'[d] \in Own(d) \cup {NoTask}
                        /\ active'[d] => current'[d] # NoTask
                        /\ runnable'[d] \in Seq(Own(d))
    BY <1>0, <2>1, <2>2, <2>3 DEF ProcTypes
  <2> QED BY <1>0, <2>1, <2>4, <2>5, <2>6, <2>7 DEF ProcTypes, Own
<1> QED BY <1>1, <1>2, <1>3 DEF WellTyped

(* Every step keeps the types. *)
LEMMA TypeStep == WellTyped /\ [Next]_vars => WellTyped'
<1> SUFFICES ASSUME WellTyped, [Next]_vars PROVE WellTyped'
  OBVIOUS
<1>1. ASSUME NEW p \in net, Take(p) PROVE WellTyped'
  BY <1>1, TakeType
<1>2. ASSUME NEW c \in Cpus, Loop(c) PROVE WellTyped'
  BY <1>2, LoopType
<1>3. ASSUME NEW c \in Cpus, Programs(c) PROVE WellTyped'
  BY <1>3, ProgramType
<1>4. ASSUME NEW c \in Cpus, Finish(c) PROVE WellTyped'
  BY <1>4, DiesType DEF Finish
<1>5. ASSUME NEW c \in Cpus, Reset(c) PROVE WellTyped'
  BY <1>5, ResetType
<1>6. CASE UNCHANGED vars
  BY <1>6 DEF vars, WellTyped, MsgTypes, ProcTypes, DataTypes, Own
<1> QED BY <1>1, <1>2, <1>3, <1>4, <1>5, <1>6 DEF Next

(* Every variable holds a value of its type.                               *)
THEOREM TypeCorrect == Spec => []TypeOK
<1>1. Spec => []WellTyped
  BY TypeInit, TypeStep, PTL DEF Spec
<1> QED BY <1>1, WellTypedTypes, PTL

-----------------------------------------------------------------------------
(* One place for every operation, and one answer for every id.             *)
Packets == net \cup Filed \cup Parked

(* Whose operation a packet belongs to. *)
Owner(p) == IF p.req THEN p.src ELSE p.dst

(* No two packets are of one operation, no packet is in two places, and    *)
(* none is left of an operation that has returned.                         *)
Exclusive ==
  /\ \A p, q \in Packets : p.op = q.op => p = q
  /\ net \cap (Filed \cup Parked) = {}
  /\ \A p \in Packets : p.op \in DOMAIN log /\ log[p.op].got = NotReturned

(* An id names one operation of its owner, wherever it occurs.             *)
OneName ==
  /\ \A p, q \in Packets : Owner(p) = Owner(q) /\ p.id = q.id => p.op = q.op
  /\ \A c \in Cpus : \A p \in Packets :
       Waits(blocked[c]) /\ Owner(p) = c /\ p.id = blocked[c].id => p.op = blocked[c].op
  /\ \A t \in Tasks : \A p \in Packets :
       Waits(saved[t]) /\ Owner(p) = Home[t] /\ p.id = saved[t].id => p.op = saved[t].op

OpsInv == WellTyped /\ Exclusive /\ OneName

(* What the types say about the places of packets. *)
LEMMA PacketTypes ==
  ASSUME MsgTypes
  PROVE  /\ \A p \in Filed : p \in AnswerType /\ ~p.req
         /\ \A p \in Parked : p \in Requests /\ p.req
         /\ \A p \in net : p \in Requests \/ (p \in AnswerType /\ ~p.req)
         /\ \A c \in Cpus : responses[c] \subseteq Filed
         /\ \A x \in Tasks : remoteWaiters[x] \subseteq Parked
<1>1. \A p \in Requests : p.req
  BY AtType
<1>2. \A p \in AnswerType : ~p.req
  BY DEF AnswerType
<1> QED BY <1>1, <1>2 DEF MsgTypes, Filed, Parked

(* The invariant has both properties. *)
LEMMA OpsImplies == OpsInv => OwnAnswer /\ InOnePlace
<1> SUFFICES ASSUME OpsInv PROVE OwnAnswer /\ InOnePlace
  OBVIOUS
<1>1. MsgTypes /\ Exclusive /\ OneName
  BY DEF OpsInv, WellTyped
<1>2. \A c \in Cpus : \A r \in responses[c] : r \in Packets /\ Owner(r) = c
  BY <1>1, PacketTypes DEF Packets, Owner, MsgTypes
<1>3. OwnAnswer
  <2> SUFFICES ASSUME NEW c \in Cpus, NEW r \in responses[c]
               PROVE  /\ r \in Claimable(c) => r.op = blocked[c].op
                      /\ \A t \in Woken(c) : r.id = saved[t].id => r.op = saved[t].op
    BY DEF OwnAnswer
  <2>1. r \in Claimable(c) => r.op = blocked[c].op
    BY <1>1, <1>2 DEF Claimable, OneName
  <2>2. ASSUME NEW t \in Woken(c), r.id = saved[t].id PROVE r.op = saved[t].op
    <3>1. t \in Tasks /\ Home[t] = c /\ Waits(saved[t])
      BY DEF Woken, Own, WakeKinds, Waits
    <3> QED BY <1>1, <1>2, <2>2, <3>1 DEF OneName
  <2> QED BY <2>1, <2>2
<1>4. InOnePlace
  BY <1>1 DEF Exclusive, InOnePlace, Places, Packets
<1> QED BY <1>3, <1>4

(* Initially there are no packets. *)
LEMMA OpsInit == Init => OpsInv
<1> SUFFICES ASSUME Init PROVE OpsInv
  OBVIOUS
<1>1. Packets = {} /\ net = {}
  BY DEF Init, Packets, Filed, Parked
<1> QED BY <1>1, TypeInit DEF OpsInv, Exclusive, OneName

-----------------------------------------------------------------------------
(* Every packet of the next state is of an operation of a packet of this.  *)
Carried ==
  \A p \in Packets' : \E q \in Packets : Owner(p) = Owner(q) /\ p.id = q.id /\ p.op = q.op

(* What is waited for is waited for already, at most it changes hands      *)
(* within a processor.                                                     *)
WaitsMove ==
  /\ \A c \in Cpus : Waits(blocked'[c]) =>
       blocked'[c] = blocked[c] \/ \E t \in Own(c) : blocked'[c] = saved[t]
  /\ \A t \in Tasks : Waits(saved'[t]) =>
       saved'[t] = saved[t] \/ saved'[t] = blocked[Home[t]]

(* Such a step keeps the naming of operations. *)
LEMMA NamesKept ==
  ASSUME OneName, Carried, WaitsMove
  PROVE  OneName'
<1>1. \A p, q \in Packets' : Owner(p) = Owner(q) /\ p.id = q.id => p.op = q.op
  <2> SUFFICES ASSUME NEW p \in Packets', NEW q \in Packets', Owner(p) = Owner(q), p.id = q.id
               PROVE  p.op = q.op
    OBVIOUS
  <2>1. PICK p0 \in Packets : Owner(p) = Owner(p0) /\ p.id = p0.id /\ p.op = p0.op
    BY DEF Carried
  <2>2. PICK q0 \in Packets : Owner(q) = Owner(q0) /\ q.id = q0.id /\ q.op = q0.op
    BY DEF Carried
  <2> QED BY <2>1, <2>2 DEF OneName
<1>2. ASSUME NEW c \in Cpus, NEW p \in Packets',
             Waits(blocked'[c]), Owner(p) = c, p.id = blocked'[c].id
      PROVE  p.op = blocked'[c].op
  <2>1. PICK q \in Packets : Owner(p) = Owner(q) /\ p.id = q.id /\ p.op = q.op
    BY DEF Carried
  <2> QED BY <1>2, <2>1 DEF OneName, WaitsMove, Own
<1>3. ASSUME NEW t \in Tasks, NEW p \in Packets',
             Waits(saved'[t]), Owner(p) = Home[t], p.id = saved'[t].id
      PROVE  p.op = saved'[t].op
  <2>1. PICK q \in Packets : Owner(p) = Owner(q) /\ p.id = q.id /\ p.op = q.op
    BY DEF Carried
  <2>2. Home[t] \in Cpus
    BY HomeAssumption
  <2> QED BY <1>3, <2>1, <2>2 DEF OneName, WaitsMove
<1>4. \A p : Owner(p)' = Owner(p)
  BY DEF Owner
<1> QED BY <1>1, <1>2, <1>3 DEF OneName, Owner, Waits

(* A step that makes no packet. *)
LEMMA PacketStep ==
  ASSUME Exclusive, Packets' \subseteq Packets, net' \cap (Filed' \cup Parked') = {},
         log' = log
  PROVE  Exclusive' /\ Carried
<1>1. Carried
  BY DEF Carried
<1>2. \A p, q \in Packets' : p.op = q.op => p = q
  BY DEF Exclusive
<1>3. \A p \in Packets' : p.op \in DOMAIN log /\ log[p.op].got = NotReturned
  BY DEF Exclusive
<1> QED BY <1>1, <1>2, <1>3 DEF Exclusive

(* Requests are consumed and answered. *)
LEMMA Answering ==
  ASSUME MsgTypes, MsgTypes', Exclusive, NEW Q \in SUBSET (net \cup Parked), Q \subseteq Requests,
         NEW A, \A a \in A : \E q \in Q : \E result \in Results : a = Answer(q, result),
         \A a, b \in A : a.op = b.op => a = b,
         net' \subseteq (net \ Q) \cup A, Parked' \subseteq Parked \ Q,
         responses' = responses, log' = log
  PROVE  Exclusive' /\ Carried
<1>1. Filed' = Filed
  BY DEF Filed
<1>2. \A q \in Q : q.req
  BY AtType
<1>3. \A a \in A : /\ ~a.req
                   /\ \E q \in Q : Owner(a) = Owner(q) /\ a.id = q.id /\ a.op = q.op
  BY <1>2, Answers DEF Owner
<1>4. Q \in SUBSET Packets
  BY DEF Packets
<1>5. Filed \cap Q = {}
  BY <1>2, PacketTypes
<1>6. Packets' \subseteq (Packets \ Q) \cup A
  BY <1>1, <1>5 DEF Packets
<1>7. net' \cap (Filed' \cup Parked') = {}
  <2>1. ASSUME NEW a \in A, a \in Filed \cup Parked PROVE FALSE
    <3>1. PICK q \in Q : a.op = q.op
      BY <1>3
    <3>2. a = q
      BY <1>4, <2>1, <3>1 DEF Exclusive, Packets
    <3> QED BY <1>2, <1>3, <3>2
  <2>2. \A e \in net' : e \notin Filed \cup Parked
    BY <2>1 DEF Exclusive
  <2>3. \A e \in Filed' \cup Parked' : e \in Filed \cup Parked
    BY <1>1
  <2> QED BY <2>2, <2>3
<1>8. \A a \in A : \E q \in Q : Owner(a) = Owner(q) /\ a.id = q.id /\ a.op = q.op
  BY <1>3
<1>9. \A p \in Packets' : p \in Packets \ Q \/ p \in A
  BY <1>6
<1>10. Carried
  BY <1>4, <1>8, <1>9 DEF Carried
<1>11. \A p, q \in Packets' : p.op = q.op => p = q
  BY <1>4, <1>8, <1>9 DEF Exclusive
<1>12. \A p \in Packets' : p.op \in DOMAIN log /\ log[p.op].got = NotReturned
  BY <1>4, <1>8, <1>9 DEF Exclusive
<1> QED BY <1>7, <1>10, <1>11, <1>12 DEF Exclusive

(* A packet is replied to. *)
LEMMA Replying ==
  ASSUME MsgTypes, MsgTypes', Exclusive, NEW p \in net, p \in Requests,
         NEW result \in Results, Reply(p, result),
         UNCHANGED <<responses, remoteWaiters, log>>
  PROVE  Exclusive' /\ Carried
<1> DEFINE Q == {p}
           A == {Answer(p, result)}
<1>1. Parked' = Parked
  BY DEF Parked
<1>2. p \notin Parked
  BY DEF Exclusive
<1>3. net' \subseteq (net \ Q) \cup A
  BY DEF Reply
<1>4. Parked' \subseteq Parked \ Q
  BY <1>1, <1>2
<1>5. \A a \in A : \E q \in Q : \E res \in Results : a = Answer(q, res)
  OBVIOUS
<1>6. \A a, b \in A : a.op = b.op => a = b
  OBVIOUS
<1>7. Q \in SUBSET (net \cup Parked) /\ Q \subseteq Requests
  OBVIOUS
<1> HIDE DEF Q, A
<1> QED BY <1>3, <1>4, <1>5, <1>6, <1>7, Answering

(* The exit of a task answers the waits parked with it, and perhaps the    *)
(* request p that killed it.                                               *)
LEMMA Exiting ==
  ASSUME MsgTypes, MsgTypes', Exclusive, NEW x \in Tasks,
         NEW P \in SUBSET net, P \subseteq Requests, 
         net' = (net \ P) \cup WaitAnswers(x) \cup {Answer(p, Done) : p \in P},
         remoteWaiters' = [remoteWaiters EXCEPT ![x] = {}],
         responses' = responses, log' = log
  PROVE  Exclusive' /\ Carried
<1> DEFINE Q == P \cup remoteWaiters[x]
           A == {Answer(q, Done) : q \in Q}
<1>1. remoteWaiters[x] \subseteq Parked /\ Q \subseteq Requests
  BY PacketTypes DEF MsgTypes
<1>2. Q \in SUBSET (net \cup Parked)
  BY <1>1
<1>3. Done \in Results
  BY DEF Done, Results
<1>4. \A a \in A : \E q \in Q : \E res \in Results : a = Answer(q, res)
  BY <1>3
<1>5. \A a, b \in A : a.op = b.op => a = b
  <2> SUFFICES ASSUME NEW q \in Q, NEW r \in Q, Answer(q, Done).op = Answer(r, Done).op
               PROVE  Answer(q, Done) = Answer(r, Done)
    OBVIOUS
  <2>1. q.op = r.op
    BY <1>1, <1>3, Answers
  <2> QED BY <1>2, <2>1 DEF Exclusive, Packets
<1>6. net \ P \subseteq net \ Q
  BY <1>1 DEF Exclusive
<1>7. net' \subseteq (net \ Q) \cup A
  BY <1>6 DEF WaitAnswers
<1>8. Parked' \subseteq Parked \ Q
  <2>1. ASSUME NEW q \in Parked' PROVE q \in Parked /\ q \notin Q
    <3>1. PICK y \in Tasks : q \in remoteWaiters'[y]
      BY <2>1 DEF Parked
    <3>2. y # x /\ q \in remoteWaiters[y]
      BY <3>1 DEF MsgTypes
    <3>3. q \notin remoteWaiters[x]
      BY <3>2 DEF MsgTypes
    <3>4. q \in Parked /\ q \notin P
      BY <3>2, PacketTypes DEF Exclusive
    <3> QED BY <3>3, <3>4
  <2> QED BY <2>1
<1> HIDE DEF Q, A
<1> QED BY <1>1, <1>2, <1>4, <1>5, <1>7, <1>8, Answering

(* Taking a packet keeps operations apart. *)
LEMMA TakePackets ==
  ASSUME OpsInv, WellTyped', NEW p \in net, Take(p)
  PROVE  Exclusive' /\ Carried
<1>0. MsgTypes /\ MsgTypes' /\ Exclusive
  BY DEF OpsInv, WellTyped
<1>1. CASE Arrive(p)
  <2>1. /\ net' = net \ {p} /\ responses' = [responses EXCEPT ![p.dst] = @ \cup {p}]
        /\ remoteWaiters' = remoteWaiters /\ log' = log
    BY <1>1 DEF Arrive, taskVars
  <2>2. p \in AnswerType
    BY <1>0, <1>1, AtType DEF Arrive, MsgTypes
  <2>3. p.dst \in Cpus
    BY <2>2 DEF AnswerType
  <2>4. Filed' = Filed \cup {p}
    BY <1>0, <2>1, <2>3 DEF Filed, MsgTypes
  <2>5. Parked' = Parked
    BY <2>1 DEF Parked
  <2>6. Packets' \subseteq Packets
    BY <2>1, <2>4, <2>5 DEF Packets
  <2>7. net' \cap (Filed' \cup Parked') = {}
    BY <1>0, <2>1, <2>4, <2>5 DEF Exclusive
  <2> QED BY <1>0, <2>1, <2>6, <2>7, PacketStep
<1>2. CASE Drop(p)
  <2>1. net' = net \ {p} /\ UNCHANGED <<responses, remoteWaiters, log>>
    BY <1>2 DEF Drop, taskVars
  <2>2. Filed' = Filed /\ Parked' = Parked
    BY <2>1 DEF Filed, Parked
  <2> QED BY <1>0, <2>1, <2>2, PacketStep DEF Packets, Exclusive
<1>3. CASE Serve(p)
  <2>1. p \in Requests
    BY <1>0, <1>3 DEF Serve, MsgTypes, AnswerType
  <2>2. UNCHANGED <<responses, log>>
    BY <1>3 DEF Serve
  <2>3. CASE remoteWaiters' = remoteWaiters /\ \E result \in Results : Reply(p, result)
    BY <1>0, <2>1, <2>2, <2>3, Replying
  <2>4. CASE ServeRead(p)
    <3>1. mem[p.at] \in Results
      BY <2>1, <2>4, AtType DEF ServeRead, OpsInv, WellTyped, DataTypes
    <3> QED BY <2>3, <2>4, <3>1 DEF ServeRead, taskVars
  <2>5. CASE ServeWrite(p)
    BY <2>3, <2>5 DEF ServeWrite, Results, Done, taskVars
  <2>6. CASE ServeQuery(p)
    BY <2>3, <2>6, StatusType DEF ServeQuery, taskVars
  <2>7. CASE ServeWait(p)
    <3>1. CASE state[p.at] \in {"NONE", "EXITED"}
      BY <2>3, <2>7, <3>1 DEF ServeWait, Results, Done
    <3>2. CASE state[p.at] \notin {"NONE", "EXITED"}
      <4>1. /\ net' = net \ {p}
            /\ remoteWaiters' = [remoteWaiters EXCEPT ![p.at] = @ \cup {p}]
        BY <2>7, <3>2 DEF ServeWait
      <4>2. p.at \in Tasks
        BY <2>1, <2>7, AtType DEF ServeWait, TaskKinds
      <4>3. Parked' = Parked \cup {p} /\ Filed' = Filed
        BY <1>0, <2>2, <4>1, <4>2 DEF Parked, Filed, MsgTypes
      <4>4. p \notin Filed
        BY <1>0 DEF Exclusive
      <4>5. Packets' \subseteq Packets /\ net' \cap (Filed' \cup Parked') = {}
        BY <1>0, <4>1, <4>3, <4>4 DEF Packets, Exclusive
      <4> QED BY <1>0, <2>2, <4>5, PacketStep
    <3> QED BY <3>1, <3>2
  <2>8. CASE ServeKill(p)
    <3>1. CASE state[p.at] \in {"NONE", "EXITED"}
      BY <2>3, <2>8, <3>1 DEF ServeKill, Results, Done, taskVars
    <3>2. CASE state[p.at] \notin {"NONE", "EXITED"}
      <4>1. p.at \in Tasks
        BY <2>1, <2>8, AtType DEF ServeKill, TaskKinds
      <4>2. /\ net' = (net \ {p}) \cup WaitAnswers(p.at) \cup {Answer(q, Done) : q \in {p}}
            /\ remoteWaiters' = [remoteWaiters EXCEPT ![p.at] = {}]
        BY <2>8, <3>2 DEF ServeKill, ServeKillLive
      <4>3. {p} \in SUBSET net /\ {p} \subseteq Requests
        BY <2>1
      <4> QED BY <1>0, <2>2, <4>1, <4>2, <4>3, Exiting
    <3> QED BY <3>1, <3>2
  <2> QED BY <1>3, <2>4, <2>5, <2>6, <2>7, <2>8 DEF Serve
<1> QED BY <1>1, <1>2, <1>3 DEF Take

-----------------------------------------------------------------------------
(* Steps that touch no packet keep operations apart. *)
LEMMA QuietStep ==
  ASSUME Exclusive, UNCHANGED <<net, responses, remoteWaiters, log>>
  PROVE  Exclusive' /\ Carried
<1>1. Packets' = Packets /\ Filed' = Filed /\ Parked' = Parked
  BY DEF Packets, Filed, Parked
<1> QED BY <1>1 DEF Exclusive, Carried

(* A processor forgets its packets, as it ends or is reset. *)
LEMMA Forgetting ==
  ASSUME MsgTypes, Exclusive, NEW c \in Cpus,
         responses' = [responses EXCEPT ![c] = {}],
         remoteWaiters' = [t \in Tasks |-> IF t \in Own(c) THEN {} ELSE remoteWaiters[t]],
         UNCHANGED <<net, log>>
  PROVE  Exclusive' /\ Carried
<1>1. Filed' \subseteq Filed
  BY DEF Filed, MsgTypes
<1>2. Parked' \subseteq Parked
  BY DEF Parked, MsgTypes
<1>3. Packets' \subseteq Packets /\ net' \cap (Filed' \cup Parked') = {}
  BY <1>1, <1>2 DEF Packets, Exclusive
<1> QED BY <1>3, PacketStep

(* Unblocking takes the answer to the processor's own operation. *)
LEMMA UnblockPackets ==
  ASSUME OpsInv, WellTyped', NEW c \in Cpus, Unblock(c)
  PROVE  Exclusive' /\ Carried /\ WaitsMove
<1>0. MsgTypes /\ MsgTypes' /\ Exclusive /\ OneName /\ ProcTypes /\ DataTypes
  BY DEF OpsInv, WellTyped
<1>1. PICK r \in Claimable(c) :
        IF blocked[c].kind \in Unchecked /\ r.result = Gone /\ c \notin TrapHandled
          THEN Dies(c)
          ELSE /\ responses' = [responses EXCEPT ![c] = @ \ {r}]
               /\ log' = [log EXCEPT ![blocked[c].op].got = r.result]
               /\ blocked' = [blocked EXCEPT ![c] = NotBlocked]
               /\ UNCHANGED <<alive, remoteWaiters>>
  BY DEF Unblock
<1>2. net' = net /\ saved' = saved
  BY DEF Unblock
<1>3. CASE Dies(c)
  <2>1. WaitsMove
    BY <1>2, <1>3 DEF Dies, WaitsMove
  <2> QED BY <1>0, <1>2, <1>3, <2>1, Forgetting DEF Dies
<1>4. CASE /\ responses' = [responses EXCEPT ![c] = @ \ {r}]
           /\ log' = [log EXCEPT ![blocked[c].op].got = r.result]
           /\ blocked' = [blocked EXCEPT ![c] = NotBlocked]
           /\ UNCHANGED <<alive, remoteWaiters>>
  <2>1. r \in responses[c] /\ Waits(blocked[c]) /\ r.id = blocked[c].id
    BY DEF Claimable
  <2>2. r \in Filed /\ ~r.req /\ r.dst = c
    BY <1>0, <2>1, PacketTypes DEF MsgTypes
  <2>3. r.op = blocked[c].op
    BY <1>0, <2>1, <2>2 DEF OneName, Owner, Packets
  <2>4. Parked' = Parked
    BY <1>4 DEF Parked
  <2>5. Filed' \subseteq Filed \ {r}
    <3>1. ASSUME NEW q \in Filed' PROVE q \in Filed /\ q # r
      <4>1. PICK d \in Cpus : q \in responses'[d]
        BY <3>1 DEF Filed
      <4>2. q \in responses[d] /\ (d = c => q # r)
        BY <1>0, <1>4, <4>1 DEF MsgTypes
      <4>3. q.dst = d
        BY <1>0, <4>2 DEF MsgTypes
      <4> QED BY <1>0, <2>2, <4>2, <4>3, PacketTypes
    <3> QED BY <3>1
  <2>6. r \notin net /\ r \notin Parked
    BY <1>0, <2>2, PacketTypes DEF Exclusive
  <2>7. Packets' \subseteq Packets \ {r}
    BY <1>2, <2>4, <2>5, <2>6 DEF Packets
  <2>8. net' \cap (Filed' \cup Parked') = {}
    BY <1>0, <1>2, <2>4, <2>5 DEF Exclusive
  <2>9. r \in Packets
    BY <2>2 DEF Packets
  <2>10. \A p \in Packets' : p \in Packets /\ p.op # r.op
    BY <1>0, <2>7, <2>9 DEF Exclusive
  <2>11. DOMAIN log' = DOMAIN log /\ \A n \in DOMAIN log : n # r.op => log'[n] = log[n]
    BY <1>4, <2>3
  <2>12. Exclusive'
    <3>1. \A p, q \in Packets' : p.op = q.op => p = q
      BY <1>0, <2>10 DEF Exclusive
    <3>2. \A p \in Packets' : p.op \in DOMAIN log' /\ log'[p.op].got = NotReturned
      BY <1>0, <2>10, <2>11 DEF Exclusive
    <3> QED BY <2>8, <3>1, <3>2 DEF Exclusive
  <2>13. Carried
    BY <2>7 DEF Carried
  <2>14. WaitsMove
    BY <1>0, <1>2, <1>4, Blocks DEF WaitsMove, ProcTypes
  <2> QED BY <2>12, <2>13, <2>14
<1> QED BY <1>1, <1>3, <1>4

(* Issuing an operation uses a name that nothing else has. *)
LEMMA IssuePackets ==
  ASSUME ~Reuse, OpsInv, WellTyped', NEW c \in Cpus, NEW kind \in Kinds,
         NEW x \in IF kind \in ObjectKinds THEN Objects ELSE Tasks, Issue(c, kind, x)
  PROVE  Exclusive' /\ OneName'
<1>0. MsgTypes /\ Exclusive /\ OneName /\ ProcTypes /\ DataTypes
  BY DEF OpsInv, WellTyped
<1> DEFINE id == nextTrans[c]
           n == Len(log) + 1
           entry == [by |-> current[c], kind |-> kind, at |-> x, got |-> NotReturned]
           b == [kind |-> kind, id |-> id, op |-> n]
           new == Request(c, kind, x, id, n)
<1>1. /\ net' = net \cup {new}
      /\ blocked' = [blocked EXCEPT ![c] = b]
      /\ log' = Append(log, entry)
      /\ UNCHANGED <<responses, remoteWaiters, saved>>
      /\ Unused(c, id)
  BY DEF Issue, taskVars
<1>2. Owner(new) = c /\ new.id = id /\ new.op = n /\ new.req
  BY DEF Request, Owner
<1>3. b.id = id /\ b.op = n /\ entry.got = NotReturned
  OBVIOUS
<1> HIDE DEF new, b, entry
<1>4. /\ DOMAIN log = 1..Len(log) /\ Len(log) \in Nat
      /\ DOMAIN log' = 1..n /\ \A i \in 1..Len(log) : log'[i] = log[i]
      /\ log'[n] = entry
  BY <1>0, <1>1 DEF DataTypes
<1>5. Filed' = Filed /\ Parked' = Parked /\ Packets' = Packets \cup {new}
  BY <1>1 DEF Filed, Parked, Packets
<1>6. \A p \in Packets : p.op # n
  BY <1>0, <1>4 DEF Exclusive
<1>7. \A p \in Packets : Owner(p) = c => p.id # id
  <2>1. \A p \in net : Owner(p) = c => p.id # id
    BY <1>1 DEF Unused, Owner
  <2>2. \A p \in Filed : Owner(p) = c => p.id # id
    <3> SUFFICES ASSUME NEW d \in Cpus, NEW p \in responses[d], Owner(p) = c PROVE p.id # id
      BY DEF Filed
    <3>1. ~p.req /\ p.dst = d
      BY <1>0, PacketTypes DEF MsgTypes
    <3> QED BY <1>1, <3>1 DEF Unused, Owner
  <2>3. \A p \in Parked : Owner(p) = c => p.id # id
    <3> SUFFICES ASSUME NEW y \in Tasks, NEW p \in remoteWaiters[y], Owner(p) = c PROVE p.id # id
      BY DEF Parked
    <3>1. p.req
      BY <1>0, PacketTypes
    <3> QED BY <1>1, <3>1 DEF Unused, Owner
  <2> QED BY <2>1, <2>2, <2>3 DEF Packets
<1>8. Exclusive'
  <2>1. \A p, q \in Packets' : p.op = q.op => p = q
    BY <1>0, <1>2, <1>5, <1>6 DEF Exclusive
  <2>2. new \notin Filed \cup Parked
    BY <1>2, <1>6 DEF Packets
  <2>3. net' \cap (Filed' \cup Parked') = {}
    BY <1>0, <1>1, <1>5, <2>2 DEF Exclusive
  <2>4. \A p \in Packets' : p.op \in DOMAIN log' /\ log'[p.op].got = NotReturned
    BY <1>0, <1>2, <1>3, <1>4, <1>5 DEF Exclusive
  <2> QED BY <2>1, <2>3, <2>4 DEF Exclusive
<1>9. OneName'
  <2>1. \A p, q \in Packets' : Owner(p) = Owner(q) /\ p.id = q.id => p.op = q.op
    BY <1>0, <1>2, <1>5, <1>7 DEF OneName
  <2>2. ASSUME NEW d \in Cpus, NEW p \in Packets',
               Waits(blocked'[d]), Owner(p) = d, p.id = blocked'[d].id
        PROVE  p.op = blocked'[d].op
    <3>1. CASE d = c
      <4>1. blocked'[c] = b
        BY <1>0, <1>1 DEF ProcTypes
      <4> QED BY <1>2, <1>3, <1>5, <1>7, <2>2, <3>1, <4>1
    <3>2. CASE d # c
      <4>1. blocked'[d] = blocked[d] /\ p \in Packets
        BY <1>0, <1>1, <1>2, <1>5, <2>2, <3>2 DEF ProcTypes
      <4> QED BY <1>0, <2>2, <4>1 DEF OneName
    <3> QED BY <3>1, <3>2
  <2>3. ASSUME NEW t \in Tasks, NEW p \in Packets',
               Waits(saved[t]), Owner(p) = Home[t], p.id = saved[t].id
        PROVE  p.op = saved[t].op
    <3>1. CASE p = new
      BY <1>1, <1>2, <2>3, <3>1 DEF Unused, Own
    <3>2. CASE p # new
      BY <1>0, <1>5, <2>3, <3>2 DEF OneName
    <3> QED BY <3>1, <3>2
  <2> QED BY <1>1, <2>1, <2>2, <2>3 DEF OneName, Owner, Waits
<1> QED BY <1>8, <1>9

-----------------------------------------------------------------------------
(* Dropping the current task moves waits within the processor. *)
LEMMA StepOffWaits ==
  ASSUME ProcTypes, NEW c \in Cpus, NEW st, StepOff(c, st, runnable[c])
  PROVE  WaitsMove
<1>1. CASE runnable[c] # <<>>
  <2> DEFINE nxt == Head(runnable[c])
  <2>1. /\ saved' = [saved EXCEPT ![nxt] = NotBlocked]
        /\ blocked' = [blocked EXCEPT ![c] = saved[nxt]]
    BY <1>1 DEF StepOff
  <2>2. nxt \in Own(c)
    BY <1>1, HeadOwn
  <2> HIDE DEF nxt
  <2> QED BY <2>1, <2>2, Blocks DEF WaitsMove, ProcTypes
<1>2. CASE runnable[c] = <<>>
  BY <1>2, Blocks DEF StepOff, WaitsMove, ProcTypes
<1> QED BY <1>1, <1>2

(* Taking a packet moves waits at most within a processor. *)
LEMMA TakeWaits ==
  ASSUME WellTyped, NEW p \in net, Take(p)
  PROVE  WaitsMove
<1>0. MsgTypes /\ ProcTypes
  BY DEF WellTyped
<1>1. CASE UNCHANGED <<blocked, saved>>
  BY <1>1 DEF WaitsMove
<1>2. CASE Arrive(p) \/ Drop(p)
  BY <1>1, <1>2 DEF Arrive, Drop, taskVars, procVars
<1>3. CASE Serve(p)
  <2>1. p \in Requests
    BY <1>0, <1>3 DEF Serve, MsgTypes, AnswerType
  <2>2. CASE ServeRead(p) \/ ServeWrite(p) \/ ServeQuery(p) \/ ServeWait(p)
    BY <1>1, <2>2 DEF ServeRead, ServeWrite, ServeQuery, ServeWait, taskVars, procVars
  <2>3. CASE ServeKill(p)
    <3>1. CASE state[p.at] \in {"NONE", "EXITED"}
      BY <1>1, <2>3, <3>1 DEF ServeKill, taskVars, procVars
    <3>2. CASE state[p.at] \notin {"NONE", "EXITED"}
      <4>1. ServeKillLive(p)
        BY <2>3, <3>2 DEF ServeKill
      <4>2. p.at \in Tasks /\ Home[p.at] \in Cpus
        BY <2>1, <2>3, AtType DEF ServeKill, TaskKinds
      <4>3. CASE p.at = current[Home[p.at]]
        BY <1>0, <4>1, <4>2, <4>3, StepOffWaits DEF ServeKillLive
      <4>4. CASE p.at # current[Home[p.at]]
        BY <1>0, <4>1, <4>2, <4>4, Blocks DEF ServeKillLive, WaitsMove, ProcTypes
      <4> QED BY <4>3, <4>4
    <3> QED BY <3>1, <3>2
  <2> QED BY <1>3, <2>2, <2>3 DEF Serve
<1> QED BY <1>2, <1>3 DEF Take

(* Loading the head of the run queue moves its wait to the processor. *)
LEMMA LoadWaits ==
  ASSUME ProcTypes, NEW c \in Cpus, runnable[c] # <<>>,
         blocked' = [blocked EXCEPT ![c] = saved[Head(runnable[c])]],
         \A t \in Tasks : saved'[t] \in {saved[t], NotBlocked, blocked[Home[t]]}
  PROVE  WaitsMove
<1>1. Head(runnable[c]) \in Own(c)
  BY HeadOwn
<1> QED BY <1>1, Blocks DEF WaitsMove, ProcTypes

(* What a program does keeps operations apart and named. *)
LEMMA ProgramPackets ==
  ASSUME ~Reuse, OpsInv, WellTyped', NEW c \in Cpus, Programs(c)
  PROVE  Exclusive' /\ OneName'
<1>0. MsgTypes /\ MsgTypes' /\ Exclusive /\ OneName /\ ProcTypes
  BY DEF OpsInv, WellTyped
<1>1. CASE \E x \in Objects, k \in ObjectKinds : Issue(c, k, x)
  BY <1>1, IssuePackets DEF Kinds
<1>2. CASE \E x \in Tasks, k \in TaskKinds : Issue(c, k, x)
  <2>1. TaskKinds \cap ObjectKinds = {}
    BY DEF TaskKinds, ObjectKinds
  <2> QED BY <1>2, <2>1, IssuePackets DEF Kinds
<1>3. ASSUME UNCHANGED <<net, responses, remoteWaiters, log>>, WaitsMove
      PROVE  Exclusive' /\ OneName'
  BY <1>0, <1>3, QuietStep, NamesKept
<1>4. CASE \/ \E o \in Objects : LocalStore(c, o) \/ ObjFree(c, o)
           \/ \E t \in Tasks : TaskCreate(c, t) \/ TaskResume(c, t)
  <2>1. /\ UNCHANGED <<net, responses, remoteWaiters, log>>
        /\ UNCHANGED <<blocked, saved>>
    BY <1>4 DEF LocalStore, ObjFree, TaskCreate, TaskResume, taskVars, procVars
  <2>2. WaitsMove
    BY <2>1 DEF WaitsMove
  <2> QED BY <1>3, <2>1, <2>2
<1>5. ASSUME NEW t \in Tasks, TaskKill(c, t) PROVE Exclusive' /\ OneName'
  <2>1. net' = (net \ {}) \cup WaitAnswers(t) \cup {Answer(p, Done) : p \in {}}
    BY <1>5 DEF TaskKill
  <2>2. /\ remoteWaiters' = [remoteWaiters EXCEPT ![t] = {}]
        /\ responses' = responses /\ log' = log
    BY <1>5 DEF TaskKill
  <2>3. {} \in SUBSET net /\ {} \subseteq Requests
    OBVIOUS
  <2>4. Exclusive' /\ Carried
    BY <1>0, <2>1, <2>2, <2>3, Exiting
  <2>5. WaitsMove
    BY <1>0, <1>5, Blocks DEF TaskKill, WaitsMove, ProcTypes
  <2> QED BY <1>0, <2>4, <2>5, NamesKept
<1>6. CASE TaskYield(c)
  <2>1. /\ UNCHANGED <<net, responses, remoteWaiters, log>> /\ runnable[c] # <<>>
        /\ blocked' = [blocked EXCEPT ![c] = saved[Head(runnable[c])]]
        /\ saved' = [saved EXCEPT ![current[c]] = NotBlocked, ![Head(runnable[c])] = NotBlocked]
    BY <1>6 DEF TaskYield
  <2>2. \A t \in Tasks : saved'[t] \in {saved[t], NotBlocked, blocked[Home[t]]}
    BY <1>0, <2>1 DEF ProcTypes
  <2> QED BY <1>0, <1>3, <2>1, <2>2, LoadWaits
<1>7. CASE TaskExit(c)
  <2> DEFINE x == current[c]
  <2>1. x \in Tasks
    BY <1>0, <1>7 DEF TaskExit, Executing, ProcTypes
  <2>2. net' = (net \ {}) \cup WaitAnswers(x) \cup {Answer(p, Done) : p \in {}}
    BY <1>7 DEF TaskExit
  <2>3. /\ remoteWaiters' = [remoteWaiters EXCEPT ![x] = {}]
        /\ responses' = responses /\ log' = log
    BY <1>7 DEF TaskExit
  <2>4. {} \in SUBSET net /\ {} \subseteq Requests
    OBVIOUS
  <2>5. Exclusive' /\ Carried
    BY <1>0, <2>1, <2>2, <2>3, <2>4, Exiting
  <2>6. \/ /\ runnable[c] # <<>>
           /\ saved' = [saved EXCEPT ![Head(runnable[c])] = NotBlocked]
           /\ blocked' = [blocked EXCEPT ![c] = saved[Head(runnable[c])]]
        \/ saved' = saved /\ blocked' = [blocked EXCEPT ![c] = ExitWait]
        \/ saved' = saved /\ blocked' = blocked
    BY <1>7, ZenonT(30) DEF TaskExit
  <2>7. CASE /\ runnable[c] # <<>>
             /\ saved' = [saved EXCEPT ![Head(runnable[c])] = NotBlocked]
             /\ blocked' = [blocked EXCEPT ![c] = saved[Head(runnable[c])]]
    <3>1. \A t \in Tasks : saved'[t] \in {saved[t], NotBlocked, blocked[Home[t]]}
      BY <1>0, <2>7 DEF ProcTypes
    <3>2. WaitsMove
      BY <1>0, <2>7, <3>1, LoadWaits
    <3> QED BY <1>0, <2>5, <3>2, NamesKept
  <2>8. CASE saved' = saved /\ blocked' = [blocked EXCEPT ![c] = ExitWait]
    <3>1. WaitsMove
      BY <1>0, <2>8, Blocks DEF WaitsMove, ProcTypes
    <3> QED BY <1>0, <2>5, <3>1, NamesKept
  <2>9. CASE saved' = saved /\ blocked' = blocked
    <3>1. WaitsMove
      BY <2>9 DEF WaitsMove
    <3> QED BY <1>0, <2>5, <3>1, NamesKept
  <2> QED BY <2>6, <2>7, <2>8, <2>9
<1> QED BY <1>1, <1>2, <1>4, <1>5, <1>6, <1>7 DEF Programs

(* Every step keeps operations apart and named. *)
LEMMA OpsStep == ASSUME ~Reuse PROVE OpsInv /\ [Next]_vars => OpsInv'
<1> SUFFICES ASSUME OpsInv, [Next]_vars PROVE OpsInv'
  OBVIOUS
<1>0. MsgTypes /\ Exclusive /\ OneName /\ ProcTypes /\ WellTyped
  BY DEF OpsInv, WellTyped
<1>1. WellTyped'
  BY <1>0, TypeStep
<1>2. SUFFICES Exclusive' /\ OneName'
  BY <1>1 DEF OpsInv
<1>3. ASSUME NEW p \in net, Take(p) PROVE Exclusive' /\ OneName'
  BY <1>0, <1>1, <1>3, TakePackets, TakeWaits, NamesKept
<1>4. ASSUME NEW c \in Cpus, Wake(c) PROVE Exclusive' /\ OneName'
  <2>1. WaitsMove
    BY <1>4 DEF Wake, WaitsMove
  <2> QED BY <1>0, <1>4, <2>1, QuietStep, NamesKept DEF Wake
<1>5. ASSUME NEW c \in Cpus, Unblock(c) PROVE Exclusive' /\ OneName'
  BY <1>0, <1>1, <1>5, UnblockPackets, NamesKept
<1>6. ASSUME NEW c \in Cpus, SwitchAway(c) PROVE Exclusive' /\ OneName'
  <2> DEFINE parks == {t \in {current[c]} : t # NoTask /\ state[t] # "EXITED"}
  <2>1. /\ UNCHANGED <<net, responses, remoteWaiters, log>> /\ runnable[c] # <<>>
        /\ blocked' = [blocked EXCEPT ![c] = saved[Head(runnable[c])]]
        /\ saved' = [t \in Tasks |-> IF t = Head(runnable[c]) THEN NotBlocked
                                     ELSE IF t \in parks THEN blocked[c] ELSE saved[t]]
    BY <1>6 DEF SwitchAway
  <2>2. \A t \in parks : t \in Tasks => Home[t] = c
    BY <1>0 DEF ProcTypes, Own
  <2>3. \A t \in Tasks : saved'[t] \in {saved[t], NotBlocked, blocked[Home[t]]}
    BY <2>1, <2>2
  <2>4. WaitsMove
    BY <1>0, <2>1, <2>3, LoadWaits
  <2> QED BY <1>0, <2>1, <2>4, QuietStep, NamesKept
<1>7. ASSUME NEW c \in Cpus, Programs(c) PROVE Exclusive' /\ OneName'
  BY <1>1, <1>7, ProgramPackets
<1>8. ASSUME NEW c \in Cpus, Finish(c) PROVE Exclusive' /\ OneName'
  <2>1. WaitsMove
    BY <1>8 DEF Finish, Dies, WaitsMove
  <2>2. Exclusive' /\ Carried
    BY <1>0, <1>8, Forgetting DEF Finish, Dies
  <2> QED BY <1>0, <2>1, <2>2, NamesKept
<1>9. ASSUME NEW c \in Cpus, Reset(c) PROVE Exclusive' /\ OneName'
  <2>1. WaitsMove
    BY <1>0, <1>9, Blocks DEF Reset, WaitsMove, ProcTypes
  <2>2. Exclusive' /\ Carried
    BY <1>0, <1>9, Forgetting DEF Reset
  <2> QED BY <1>0, <2>1, <2>2, NamesKept
<1>10. CASE UNCHANGED vars
  <2>1. WaitsMove
    BY <1>10 DEF vars, WaitsMove
  <2>2. UNCHANGED <<net, responses, remoteWaiters, log>>
    BY <1>10 DEF vars
  <2> QED BY <1>0, <2>1, <2>2, QuietStep, NamesKept
<1> QED BY <1>3, <1>4, <1>5, <1>6, <1>7, <1>8, <1>9, <1>10 DEF Next, Loop

(* The invariant holds as long as ids are not reused while in use. *)
LEMMA OpsCorrect == ASSUME ~Reuse PROVE Spec => []OpsInv
BY OpsInit, OpsStep, PTL DEF Spec

(* An answer that a waiting processor would take, or for which a parked    *)
(* task would be woken, is the answer to its own request.                  *)
THEOREM AnswersMatch == ASSUME ~Reuse PROVE Spec => []OwnAnswer
BY OpsCorrect, OpsImplies, PTL

(* An operation is in one place at a time, and nowhere once it returned:   *)
(* no request is served twice and no answer is left over.                  *)
THEOREM ServedOnce == ASSUME ~Reuse PROVE Spec => []InOnePlace
BY OpsCorrect, OpsImplies, PTL

(* Both: every operation has one answer, which reaches it and no other.    *)
THEOREM AnswersReturn == ASSUME ~Reuse PROVE Spec => []OneAnswer
<1>1. OpsInv => OneAnswer
  BY OpsImplies DEF OneAnswer
<1> QED BY OpsCorrect, <1>1, PTL


-----------------------------------------------------------------------------
(* The scheduler of each processor.  What is queued is RUNNABLE; the task  *)
(* it steps is RUNNING; it waits for an exit only when its own current     *)
(* task has none to go on with.  So no task that has exited runs again.    *)
Queued(c) == {t \in Own(c) : state[t] = "RUNNABLE"}
Sched(c) ==
  /\ Lists(runnable[c], Queued(c))
  /\ current[c] # NoTask => state[current[c]] \in {"RUNNING", "EXITED"}
  /\ active[c] /\ blocked[c] # ExitWait => state[current[c]] = "RUNNING"
  /\ blocked[c] = ExitWait => current[c] = NoTask \/ state[current[c]] = "EXITED"
  /\ \A t \in Own(c) : saved[t] # ExitWait
SchedInv == \A c \in Cpus : Sched(c)

Untouched(d) ==
  /\ runnable'[d] = runnable[d] /\ current'[d] = current[d]
  /\ active'[d] = active[d] /\ blocked'[d] = blocked[d]
  /\ \A t \in Own(d) : state'[t] = state[t] /\ saved'[t] = saved[t]

(* A processor of which nothing changes. *)
LEMMA SchedOther ==
  ASSUME ProcTypes, NEW d \in Cpus, Sched(d), Untouched(d)
  PROVE  Sched(d)'
<1>1. Queued(d)' = Queued(d)
  BY DEF Queued, Untouched, Own
<1>2. current[d] \in Own(d) \cup {NoTask} /\ (active[d] => current[d] # NoTask)
  BY DEF ProcTypes
<1> QED BY <1>1, <1>2 DEF Sched, Untouched, Own

(* Waiting for nothing, or for an answer, is not waiting for an exit. *)
LEMMA BlockKinds ==
  /\ NotBlocked # ExitWait
  /\ \A b : Waits(b) => b # ExitWait
BY Blocks DEF NotBlocked, ExitWait

LEMMA SchedInit == Init => SchedInv
<1> SUFFICES ASSUME Init, NEW c \in Cpus PROVE Sched(c)
  BY DEF SchedInv
<1>1. Boot[c] \in Own(c) /\ Boot[c] \in Tasks /\ Home[Boot[c]] = c
  BY HomeAssumption DEF Own
<1>2. Queued(c) = {}
  BY DEF Init, Queued, Own
<1>3. runnable[c] = <<>>
  BY DEF Init
<1>4. Lists(runnable[c], Queued(c))
  BY <1>2, <1>3, EmptySeq DEF Lists
<1>5. state[current[c]] = "RUNNING" /\ blocked[c] = NotBlocked /\ \A t \in Own(c) : saved[t] = NotBlocked
  BY <1>1 DEF Init, Own
<1> QED BY <1>4, <1>5, BlockKinds DEF Sched

(* The head of the run queue is loaded. *)
LEMMA SchedLoad ==
  ASSUME ProcTypes, NEW c \in Cpus, Sched(c), runnable[c] # <<>>,
         runnable'[c] = Tail(runnable[c]), current'[c] = Head(runnable[c]),
         blocked'[c] = saved[Head(runnable[c])],
         state'[Head(runnable[c])] = "RUNNING",
         \A t \in Own(c) \ {Head(runnable[c])} :
           state'[t] = "RUNNABLE" <=> state[t] = "RUNNABLE",
         \A t \in Own(c) : saved'[t] # ExitWait
  PROVE  Sched(c)'
<1> DEFINE h == Head(runnable[c])
<1>1. h \in Queued(c) /\ Lists(Tail(runnable[c]), Queued(c) \ {h})
  BY ListsTail DEF Sched
<1>2. Queued(c)' = Queued(c) \ {h}
  BY <1>1 DEF Queued, Own
<1>3. saved[h] # ExitWait
  BY <1>1 DEF Sched, Queued
<1> QED BY <1>1, <1>2, <1>3 DEF Sched, Own

(* Dropping the current task, which has been killed. *)
LEMMA SchedStepOff ==
  ASSUME ProcTypes, NEW c \in Cpus, SchedInv, current[c] # NoTask,
         StepOff(c, [state EXCEPT ![current[c]] = "EXITED"], runnable[c])
  PROVE  SchedInv'
<1> DEFINE x == current[c]
           st == [state EXCEPT ![x] = "EXITED"]
<1>1. x \in Own(c) /\ x \in Tasks /\ state[x] # "RUNNABLE" /\ Sched(c)
  BY DEF ProcTypes, SchedInv, Sched, Own
<1>2. \A t \in Own(c) : st[t] = "RUNNABLE" <=> state[t] = "RUNNABLE"
  BY <1>1 DEF ProcTypes, Own
<1>3. st[x] = "EXITED" /\ \A t \in Tasks \ {x} : st[t] = state[t]
  BY <1>1 DEF ProcTypes
<1>4. st \in [Tasks -> {"NONE", "NEW", "RUNNABLE", "RUNNING", "BLOCKED", "EXITED"}]
  BY DEF ProcTypes
<1>5. StepOff(c, st, runnable[c])
  OBVIOUS
<1> HIDE DEF st, x
<1>6. CASE runnable[c] # <<>>
  <2> DEFINE h == Head(runnable[c])
  <2>1. h \in Own(c) /\ h \in Tasks
    BY <1>6, HeadOwn
  <2>2. /\ saved' = [saved EXCEPT ![h] = NotBlocked]
        /\ current' = [current EXCEPT ![c] = h]
        /\ active' = [active EXCEPT ![c] = FALSE]
        /\ runnable' = [runnable EXCEPT ![c] = Tail(runnable[c])]
        /\ blocked' = [blocked EXCEPT ![c] = saved[h]]
        /\ state' = [st EXCEPT ![h] = "RUNNING"]
    BY <1>5, <1>6 DEF StepOff
  <2> HIDE DEF h
  <2>3. /\ runnable'[c] = Tail(runnable[c]) /\ current'[c] = h /\ blocked'[c] = saved[h]
        /\ state'[h] = "RUNNING" /\ \A t \in Tasks \ {h} : state'[t] = st[t]
        /\ \A t \in Tasks : saved'[t] = IF t = h THEN NotBlocked ELSE saved[t]
    BY <1>4, <2>1, <2>2 DEF ProcTypes
  <2>4. \A t \in Own(c) : saved'[t] # ExitWait
    BY <1>1, <2>3, BlockKinds DEF Sched, Own
  <2>5. \A t \in Own(c) \ {h} : state'[t] = "RUNNABLE" <=> state[t] = "RUNNABLE"
    BY <1>2, <2>3 DEF Own
  <2>6. Sched(c)'
    BY <1>1, <1>6, <2>3, <2>4, <2>5, SchedLoad DEF h
  <2>7. \A d \in Cpus \ {c} : Untouched(d)
    BY <1>1, <1>3, <2>1, <2>2, <2>3 DEF Untouched, ProcTypes, Own
  <2> QED BY <2>6, <2>7, SchedOther DEF SchedInv
<1>7. CASE runnable[c] = <<>>
  <2>1. /\ current' = [current EXCEPT ![c] = NoTask] /\ state' = st
        /\ active' = [active EXCEPT ![c] = FALSE]
        /\ blocked' \in {blocked, [blocked EXCEPT ![c] = ExitWait]}
        /\ UNCHANGED <<runnable, saved>>
    BY <1>5, <1>7 DEF StepOff
  <2>2. Queued(c)' = Queued(c)
    BY <1>2, <2>1 DEF Queued, Own
  <2>3. current'[c] = NoTask /\ ~active'[c]
    BY <2>1 DEF ProcTypes
  <2>4. Sched(c)'
    BY <1>1, <2>1, <2>2, <2>3 DEF Sched, Own
  <2>5. \A d \in Cpus \ {c} : Untouched(d)
    BY <1>1, <1>3, <2>1 DEF Untouched, ProcTypes, Own
  <2> QED BY <2>4, <2>5, SchedOther DEF SchedInv
<1> QED BY <1>6, <1>7

(* Killing a task that is not the current one. *)
LEMMA SchedKill ==
  ASSUME ProcTypes, NEW c \in Cpus, SchedInv, NEW x \in Own(c), x # current[c],
         state' = [state EXCEPT ![x] = "EXITED"],
         saved' = [saved EXCEPT ![x] = NotBlocked],
         runnable' = [runnable EXCEPT ![c] = Without(@, x)],
         UNCHANGED <<current, blocked, active>>
  PROVE  SchedInv'
<1>1. x \in Tasks /\ Sched(c)
  BY DEF Own, SchedInv
<1>2. /\ state'[x] = "EXITED" /\ \A t \in Tasks \ {x} : state'[t] = state[t]
      /\ \A t \in Tasks : saved'[t] = IF t = x THEN NotBlocked ELSE saved[t]
      /\ runnable'[c] = Without(runnable[c], x)
  BY <1>1 DEF ProcTypes
<1>3. Queued(c)' = Queued(c) \ {x}
  BY <1>2 DEF Queued, Own
<1>4. Lists(Without(runnable[c], x), Queued(c) \ {x})
  <2>1. CASE state[x] = "RUNNABLE"
    BY <1>1, <2>1, ListsRemoveFirst DEF Sched, Without, Queued
  <2>2. CASE state[x] # "RUNNABLE"
    <3>1. Queued(c) \ {x} = Queued(c) /\ Without(runnable[c], x) = runnable[c]
      BY <2>2 DEF Queued, Without
    <3> QED BY <1>1, <3>1 DEF Sched
  <2> QED BY <2>1, <2>2
<1>5. current[c] \in Own(c) \cup {NoTask} /\ (active[c] => current[c] # NoTask)
  BY DEF ProcTypes
<1>6. Sched(c)'
  BY <1>1, <1>2, <1>3, <1>4, <1>5, BlockKinds DEF Sched, Own
<1>7. \A d \in Cpus \ {c} : Untouched(d)
  BY <1>2 DEF Untouched, ProcTypes, Own
<1> QED BY <1>6, <1>7, SchedOther DEF SchedInv


(* A step of one processor's scheduler. *)
LEMMA SchedAt ==
  ASSUME ProcTypes, SchedInv, NEW c \in Cpus, Sched(c)',
         \A d \in Cpus \ {c} : Untouched(d)
  PROVE  SchedInv'
BY SchedOther DEF SchedInv

(* Serving a request changes the scheduler only if it kills a task. *)
LEMMA SchedServe ==
  ASSUME WellTyped, SchedInv, NEW p \in net, Take(p)
  PROVE  SchedInv'
<1>0. MsgTypes /\ ProcTypes
  BY DEF WellTyped
<1>1. ASSUME UNCHANGED <<state, saved, procVars>> PROVE SchedInv'
  BY <1>0, <1>1, SchedOther DEF SchedInv, Untouched, procVars
<1>2. CASE Arrive(p) \/ Drop(p)
  BY <1>1, <1>2 DEF Arrive, Drop, taskVars
<1>3. CASE Serve(p)
  <2>1. p \in Requests
    BY <1>0, <1>3 DEF Serve, MsgTypes, AnswerType
  <2>2. CASE ServeRead(p) \/ ServeWrite(p) \/ ServeQuery(p) \/ ServeWait(p)
    BY <1>1, <2>2 DEF ServeRead, ServeWrite, ServeQuery, ServeWait, taskVars
  <2>3. CASE ServeKill(p)
    <3>1. CASE state[p.at] \in {"NONE", "EXITED"}
      BY <1>1, <2>3, <3>1 DEF ServeKill, taskVars
    <3>2. CASE state[p.at] \notin {"NONE", "EXITED"}
      <4> PICK x : x = p.at
        OBVIOUS
      <4> PICK c : c = Home[x]
        OBVIOUS
      <4>1. ServeKillLive(p)
        BY <2>3, <3>2 DEF ServeKill
      <4>2. x \in Tasks /\ c \in Cpus /\ x \in Own(c)
        BY <2>1, <2>3, AtType DEF ServeKill, TaskKinds, Own
      <4>3. CASE x = current[c]
        <5>1. StepOff(c, [state EXCEPT ![x] = "EXITED"], runnable[c])
          BY <4>1, <4>3 DEF ServeKillLive
        <5>2. current[c] # NoTask
          BY <4>2, <4>3, HomeAssumption
        <5> QED BY <1>0, <4>2, <4>3, <5>1, <5>2, SchedStepOff
      <4>4. CASE x # current[c]
        <5>1. /\ state' = [state EXCEPT ![x] = "EXITED"]
              /\ saved' = [saved EXCEPT ![x] = NotBlocked]
              /\ runnable' = [runnable EXCEPT ![c] = Without(@, x)]
              /\ UNCHANGED <<current, blocked, active>>
          BY <4>1, <4>4 DEF ServeKillLive
        <5> QED BY <1>0, <4>2, <4>4, <5>1, SchedKill
      <4> QED BY <4>3, <4>4
    <3> QED BY <3>1, <3>2
  <2> QED BY <1>3, <2>2, <2>3 DEF Serve
<1> QED BY <1>2, <1>3 DEF Take

(* An order of a set lists it. *)
LEMMA OrderLists ==
  ASSUME NEW S \in SUBSET Tasks, NEW ws \in SetToSeqs(S)
  PROVE  Lists(ws, S)
<1>1. Cardinality(S) \in Nat /\ IsFiniteSet(S)
  BY HomeAssumption, FS_Subset, FS_CardinalityType
<1> DEFINE n == Cardinality(S)
<1>2. ws \in [1 .. n -> S] /\ \A i, j \in 1 .. n : i # j => ws[i] # ws[j]
  BY DEF SetToSeqs
<1>3. n \in Nat /\ n \in Int /\ 1 \in Int
  BY <1>1
<1>4. n = Cardinality(S)
  OBVIOUS
<1> HIDE DEF n
<1>5. ws \in Seq(S) /\ Len(ws) = n
  BY <1>2, <1>3, SeqOfFunction
<1>6. Cardinality(1 .. n) = (IF 1 > n THEN 0 ELSE n - 1 + 1)
  BY ONLY <1>3, FS_Interval
<1>7. Cardinality(1 .. n) = Cardinality(S)
  BY <1>3, <1>4, <1>6
<1>8. ws \in Injection(1 .. n, S)
  BY <1>2 DEF Injection, IsInjective
<1>9. ws \in Surjection(1 .. n, S)
  BY <1>1, <1>7, <1>8, FS_Injection
<1> QED BY <1>2, <1>5, <1>9 DEF Lists, Surjection

(* The loop. *)
LEMMA SchedLoop ==
  ASSUME WellTyped, SchedInv, NEW c \in Cpus, Loop(c)
  PROVE  SchedInv'
<1>0. ProcTypes /\ Sched(c)
  BY DEF WellTyped, SchedInv
<1>1. CASE Wake(c)
  <2>1. PICK ws \in SetToSeqs(Woken(c)) : runnable' = [runnable EXCEPT ![c] = ws \o @]
    BY <1>1 DEF Wake
  <2> DEFINE W == Woken(c)
             q == runnable[c]
  <2>2. W \in SUBSET Tasks /\ W \subseteq Own(c) /\ W \cap Queued(c) = {} /\ current[c] \notin W
    BY DEF Woken, Own, Queued
  <2>3. Lists(ws, W)
    BY <2>2, OrderLists
  <2>4. Lists(q, Queued(c))
    BY <1>0 DEF Sched
  <2>5. /\ runnable'[c] = ws \o q /\ \A d \in Cpus \ {c} : runnable'[d] = runnable[d]
        /\ \A t \in Tasks : state'[t] = IF t \in W THEN "RUNNABLE" ELSE state[t]
        /\ UNCHANGED <<saved, current, active, blocked>>
    BY <1>0, <1>1, <2>1 DEF Wake, ProcTypes
  <2> HIDE DEF W, q
  <2>6. Queued(c)' = W \cup Queued(c)
    BY <2>2, <2>5 DEF Queued, Own
  <2>7. Lists(ws \o q, W \cup Queued(c))
    BY <2>2, <2>3, <2>4, ListsConcat
  <2>8. current[c] \in Tasks => state'[current[c]] = state[current[c]]
    BY <2>2, <2>5
  <2>9. current[c] \in Tasks \cup {NoTask} /\ (active[c] => current[c] # NoTask)
    BY <1>0 DEF ProcTypes
  <2>10. Sched(c)'
    BY <1>0, <2>5, <2>6, <2>7, <2>8, <2>9 DEF Sched, Own
  <2>11. \A d \in Cpus \ {c} : Untouched(d)
    BY <2>2, <2>5 DEF Untouched, Own
  <2> QED BY <1>0, <2>10, <2>11, SchedAt
<1>2. CASE Unblock(c)
  <2>1. UNCHANGED <<state, saved, current, runnable, active>>
    BY <1>2 DEF Unblock
  <2>2. Waits(blocked[c]) /\ blocked' \in {blocked, [blocked EXCEPT ![c] = NotBlocked]}
    BY <1>2 DEF Unblock, Claimable, Dies
  <2>3. Queued(c)' = Queued(c)
    BY <2>1 DEF Queued, Own
  <2>4. blocked[c] # ExitWait /\ blocked'[c] # ExitWait
    BY <1>0, <2>2, BlockKinds DEF ProcTypes
  <2>5. Sched(c)'
    BY <1>0, <2>1, <2>3, <2>4 DEF Sched, Own
  <2>6. \A d \in Cpus \ {c} : Untouched(d)
    BY <1>0, <2>1, <2>2 DEF Untouched, ProcTypes
  <2> QED BY <1>0, <2>5, <2>6, SchedAt
<1>3. CASE SwitchAway(c)
  <2> DEFINE h == Head(runnable[c])
             parks == {t \in {current[c]} : t # NoTask /\ state[t] # "EXITED"}
  <2>1. /\ runnable[c] # <<>>
        /\ state' = [t \in Tasks |-> IF t = h THEN "RUNNING"
                                     ELSE IF t \in parks THEN "BLOCKED" ELSE state[t]]
        /\ saved' = [t \in Tasks |-> IF t = h THEN NotBlocked
                                     ELSE IF t \in parks THEN blocked[c] ELSE saved[t]]
        /\ current' = [current EXCEPT ![c] = h]
        /\ blocked' = [blocked EXCEPT ![c] = saved[h]]
        /\ runnable' = [runnable EXCEPT ![c] = Tail(@)]
        /\ active' = active
    BY <1>3 DEF SwitchAway
  <2>2. h \in Own(c) /\ h \in Tasks
    BY <1>0, <2>1, HeadOwn
  <2>3. \A t \in parks : t \in Own(c) /\ state[t] = "RUNNING" /\ blocked[c] # ExitWait
    BY <1>0 DEF Sched, ProcTypes
  <2> HIDE DEF h, parks
  <2>4. /\ runnable'[c] = Tail(runnable[c]) /\ current'[c] = h /\ blocked'[c] = saved[h]
        /\ state'[h] = "RUNNING"
        /\ \A t \in Tasks \ {h} : state'[t] = IF t \in parks THEN "BLOCKED" ELSE state[t]
    BY <1>0, <2>1, <2>2 DEF ProcTypes
  <2>5. \A t \in Own(c) \ {h} : state'[t] = "RUNNABLE" <=> state[t] = "RUNNABLE"
    BY <2>3, <2>4 DEF Own
  <2>6. \A t \in Own(c) : saved'[t] # ExitWait
    BY <1>0, <2>1, <2>3, BlockKinds DEF Sched, Own
  <2>7. Sched(c)'
    BY <1>0, <2>1, <2>4, <2>5, <2>6, SchedLoad DEF h
  <2>8. \A d \in Cpus \ {c} : Untouched(d)
    BY <1>0, <2>1, <2>2, <2>3 DEF Untouched, ProcTypes, Own
  <2> QED BY <1>0, <2>7, <2>8, SchedAt
<1> QED BY <1>1, <1>2, <1>3 DEF Loop


(* The programs. *)
LEMMA SchedProgram ==
  ASSUME WellTyped, SchedInv, NEW c \in Cpus, Programs(c)
  PROVE  SchedInv'
<1>0. /\ ProcTypes /\ Sched(c) /\ Executing(c)
      /\ current[c] \in Own(c) /\ state[current[c]] = "RUNNING" /\ blocked[c] = NotBlocked
  <2>1. ProcTypes /\ Sched(c) /\ Executing(c)
    BY DEF WellTyped, SchedInv, Programs, Issue, LocalStore, ObjFree, TaskCreate, TaskResume,
           TaskKill, TaskYield, TaskExit
  <2> QED BY <2>1, BlockKinds DEF Executing, Sched, ProcTypes
<1> DEFINE x == current[c]
           h == Head(runnable[c])
<1>1. x \in Tasks /\ Home[x] = c /\ \A d \in Cpus \ {c} : x \notin Own(d)
  BY <1>0 DEF Own
<1>2. CASE \/ \E o \in Objects, k \in ObjectKinds : Issue(c, k, o)
           \/ \E t \in Tasks, k \in TaskKinds : Issue(c, k, t)
  <2>1. PICK kind, t : kind \in Kinds /\ Issue(c, kind, t)
    BY <1>2 DEF Kinds
  <2>2. /\ UNCHANGED <<state, saved, current, runnable, active>>
        /\ blocked' = [blocked EXCEPT ![c] = [kind |-> kind, id |-> nextTrans[c], op |-> Len(log) + 1]]
    BY <2>1 DEF Issue, taskVars
  <2>3. blocked'[c] # ExitWait
    <3>1. kind # "exitwait"
      BY <2>1 DEF Kinds, ObjectKinds, TaskKinds
    <3>2. blocked'[c] = [kind |-> kind, id |-> nextTrans[c], op |-> Len(log) + 1]
      BY <1>0, <2>2 DEF ProcTypes
    <3> QED BY <3>1, <3>2 DEF ExitWait, NotBlocked
  <2>4. Queued(c)' = Queued(c)
    BY <2>2 DEF Queued, Own
  <2>5. Sched(c)'
    BY <1>0, <2>2, <2>3, <2>4 DEF Sched, Own
  <2>6. \A d \in Cpus \ {c} : Untouched(d)
    BY <1>0, <2>2 DEF Untouched, ProcTypes
  <2> QED BY <1>0, <2>5, <2>6, SchedAt
<1>3. CASE \E o \in Objects : LocalStore(c, o) \/ ObjFree(c, o)
  BY <1>0, <1>3, SchedOther DEF LocalStore, ObjFree, SchedInv, Untouched, taskVars, procVars
<1>4. ASSUME NEW t \in Tasks, TaskCreate(c, t) PROVE SchedInv'
  <2>1. /\ state' = [state EXCEPT ![t] = "NEW"] /\ state[t] = "NONE" /\ t \in Own(c)
        /\ UNCHANGED <<saved, current, runnable, active, blocked>>
    BY <1>4 DEF TaskCreate, procVars, Own
  <2>2. state'[t] = "NEW" /\ \A u \in Tasks \ {t} : state'[u] = state[u]
    BY <1>0, <2>1 DEF ProcTypes
  <2>3. Queued(c)' = Queued(c) /\ t # x
    BY <1>0, <2>1, <2>2 DEF Queued, Own
  <2>4. Sched(c)'
    BY <1>0, <1>1, <2>1, <2>2, <2>3 DEF Sched, Own
  <2>5. \A d \in Cpus \ {c} : Untouched(d)
    BY <2>1, <2>2 DEF Untouched, Own
  <2> QED BY <1>0, <2>4, <2>5, SchedAt
<1>5. ASSUME NEW t \in Tasks, TaskResume(c, t) PROVE SchedInv'
  <2>1. /\ state' = [state EXCEPT ![t] = "RUNNABLE"] /\ state[t] \in {"NEW", "BLOCKED"}
        /\ runnable' = [runnable EXCEPT ![c] = Append(@, t)] /\ t \in Own(c)
        /\ UNCHANGED <<saved, current, active, blocked>>
    BY <1>5 DEF TaskResume, Own
  <2>2. /\ state'[t] = "RUNNABLE" /\ \A u \in Tasks \ {t} : state'[u] = state[u]
        /\ runnable'[c] = Append(runnable[c], t)
    BY <1>0, <2>1 DEF ProcTypes
  <2>3. Queued(c)' = Queued(c) \cup {t} /\ t \notin Queued(c) /\ t # x
    BY <1>0, <2>1, <2>2 DEF Queued, Own
  <2>4. Lists(Append(runnable[c], t), Queued(c) \cup {t})
    BY <1>0, <2>3, ListsAppend DEF Sched
  <2>5. Sched(c)'
    BY <1>0, <1>1, <2>1, <2>2, <2>3, <2>4 DEF Sched, Own
  <2>6. \A d \in Cpus \ {c} : Untouched(d)
    BY <1>0, <2>1, <2>2 DEF Untouched, Own, ProcTypes
  <2> QED BY <1>0, <2>5, <2>6, SchedAt
<1>6. ASSUME NEW t \in Tasks, TaskKill(c, t) PROVE SchedInv'
  <2>1. /\ state' = [state EXCEPT ![t] = "EXITED"]
        /\ saved' = [saved EXCEPT ![t] = NotBlocked]
        /\ runnable' = [runnable EXCEPT ![c] = Without(@, t)]
        /\ t \in Own(c) /\ t # current[c]
        /\ UNCHANGED <<current, active, blocked>>
    BY <1>6 DEF TaskKill, Own
  <2> QED BY <1>0, <2>1, SchedKill
<1>7. CASE TaskYield(c)
  <2>1. /\ runnable[c] # <<>>
        /\ state' = [state EXCEPT ![x] = "RUNNABLE", ![h] = "RUNNING"]
        /\ saved' = [saved EXCEPT ![x] = NotBlocked, ![h] = NotBlocked]
        /\ current' = [current EXCEPT ![c] = h]
        /\ blocked' = [blocked EXCEPT ![c] = saved[h]]
        /\ runnable' = [runnable EXCEPT ![c] = Append(Tail(@), x)]
        /\ active' = active
    BY <1>7 DEF TaskYield
  <2>2. h \in Queued(c) /\ Lists(Tail(runnable[c]), Queued(c) \ {h})
    BY <1>0, <2>1, ListsTail DEF Sched
  <2>3. h \in Tasks /\ h \in Own(c) /\ h # x /\ x \notin Queued(c) /\ saved[h] # ExitWait
    BY <1>0, <2>2 DEF Queued, Own, Sched
  <2> HIDE DEF h, x
  <2>4. /\ state'[h] = "RUNNING" /\ state'[x] = "RUNNABLE"
        /\ \A t \in Tasks \ {h, x} : state'[t] = state[t] /\ saved'[t] = saved[t]
        /\ saved'[h] = NotBlocked /\ saved'[x] = NotBlocked
        /\ runnable'[c] = Append(Tail(runnable[c]), x)
        /\ current'[c] = h /\ blocked'[c] = saved[h]
    BY <1>0, <1>1, <2>1, <2>3 DEF ProcTypes
  <2>5. Queued(c)' = (Queued(c) \ {h}) \cup {x}
    BY <1>0, <1>1, <2>3, <2>4 DEF Queued, Own
  <2>6. Lists(Append(Tail(runnable[c]), x), (Queued(c) \ {h}) \cup {x})
    BY <2>2, <2>3, ListsAppend
  <2>7. \A t \in Own(c) : saved'[t] # ExitWait
    BY <1>0, <2>4, BlockKinds DEF Sched, Own
  <2>8. Sched(c)'
    BY <2>3, <2>4, <2>5, <2>6, <2>7 DEF Sched, Own
  <2>9. \A d \in Cpus \ {c} : Untouched(d)
    BY <1>0, <1>1, <2>1, <2>3, <2>4 DEF Untouched, Own, ProcTypes
  <2> QED BY <1>0, <2>8, <2>9, SchedAt
<1>8. CASE TaskExit(c)
  <2> DEFINE st == [state EXCEPT ![x] = "EXITED"]
  <2>1. st[x] = "EXITED" /\ \A t \in Tasks \ {x} : st[t] = state[t]
    BY <1>0, <1>1 DEF ProcTypes
  <2>2. st \in [Tasks -> {"NONE", "NEW", "RUNNABLE", "RUNNING", "BLOCKED", "EXITED"}]
    BY <1>0 DEF ProcTypes
  <2>3. \/ /\ runnable[c] # <<>>
           /\ state' = [st EXCEPT ![h] = "RUNNING"]
           /\ saved' = [saved EXCEPT ![h] = NotBlocked]
           /\ current' = [current EXCEPT ![c] = h]
           /\ blocked' = [blocked EXCEPT ![c] = saved[h]]
           /\ runnable' = [runnable EXCEPT ![c] = Tail(runnable[c])]
           /\ UNCHANGED active
        \/ /\ state' = st
           /\ blocked' = [blocked EXCEPT ![c] = ExitWait]
           /\ UNCHANGED <<saved, current, runnable, active>>
        \/ /\ state' = st
           /\ active' = [active EXCEPT ![c] = FALSE]
           /\ UNCHANGED <<saved, current, runnable, blocked>>
    BY <1>8, ZenonT(30) DEF TaskExit
  <2> HIDE DEF st
  <2>4. CASE /\ runnable[c] # <<>>
             /\ state' = [st EXCEPT ![h] = "RUNNING"]
             /\ saved' = [saved EXCEPT ![h] = NotBlocked]
             /\ current' = [current EXCEPT ![c] = h]
             /\ blocked' = [blocked EXCEPT ![c] = saved[h]]
             /\ runnable' = [runnable EXCEPT ![c] = Tail(runnable[c])]
             /\ UNCHANGED active
    <3>1. h \in Own(c) /\ h \in Tasks
      BY <1>0, <2>4, HeadOwn
    <3> HIDE DEF h
    <3>2. /\ runnable'[c] = Tail(runnable[c]) /\ current'[c] = h /\ blocked'[c] = saved[h]
          /\ state'[h] = "RUNNING" /\ \A t \in Tasks \ {h} : state'[t] = st[t]
          /\ \A t \in Tasks : saved'[t] = IF t = h THEN NotBlocked ELSE saved[t]
      BY <1>0, <2>2, <2>4, <3>1 DEF ProcTypes
    <3>3. \A t \in Own(c) : saved'[t] # ExitWait
      BY <1>0, <3>2, BlockKinds DEF Sched, Own
    <3>4. \A t \in Own(c) \ {h} : state'[t] = "RUNNABLE" <=> state[t] = "RUNNABLE"
      BY <1>0, <2>1, <3>2 DEF Own
    <3>5. Sched(c)'
      BY <1>0, <2>4, <3>2, <3>3, <3>4, SchedLoad DEF h
    <3>6. \A d \in Cpus \ {c} : Untouched(d)
      BY <1>0, <1>1, <2>1, <2>4, <3>1, <3>2 DEF Untouched, ProcTypes, Own
    <3> QED BY <1>0, <3>5, <3>6, SchedAt
  <2>5. Queued(c) = {t \in Own(c) : st[t] = "RUNNABLE"}
    BY <1>0, <2>1 DEF Queued, Own
  <2>6. CASE /\ state' = st
             /\ blocked' = [blocked EXCEPT ![c] = ExitWait]
             /\ UNCHANGED <<saved, current, runnable, active>>
    <3>1. blocked'[c] = ExitWait /\ Queued(c)' = Queued(c)
      BY <1>0, <2>5, <2>6 DEF ProcTypes, Queued, Own
    <3>2. Sched(c)'
      BY <1>0, <2>1, <2>6, <3>1 DEF Sched, Own
    <3>3. \A d \in Cpus \ {c} : Untouched(d)
      BY <1>0, <1>1, <2>1, <2>6 DEF Untouched, ProcTypes, Own
    <3> QED BY <1>0, <3>2, <3>3, SchedAt
  <2>7. CASE /\ state' = st
             /\ active' = [active EXCEPT ![c] = FALSE]
             /\ UNCHANGED <<saved, current, runnable, blocked>>
    <3>1. ~active'[c] /\ Queued(c)' = Queued(c)
      BY <1>0, <2>5, <2>7 DEF ProcTypes, Queued, Own
    <3>2. Sched(c)'
      BY <1>0, <2>1, <2>7, <3>1 DEF Sched, Own
    <3>3. \A d \in Cpus \ {c} : Untouched(d)
      BY <1>0, <1>1, <2>1, <2>7 DEF Untouched, ProcTypes, Own
    <3> QED BY <1>0, <3>2, <3>3, SchedAt
  <2> QED BY <2>3, <2>4, <2>6, <2>7
<1> QED BY <1>2, <1>3, <1>4, <1>5, <1>6, <1>7, <1>8 DEF Programs

(* A reset starts the scheduler afresh. *)
LEMMA SchedReset ==
  ASSUME WellTyped, SchedInv, NEW c \in Cpus, Reset(c)
  PROVE  SchedInv'
<1>0. ProcTypes
  BY DEF WellTyped
<1>1. Boot[c] \in Own(c) /\ Boot[c] \in Tasks
  BY HomeAssumption DEF Own
<1>2. /\ state' = [t \in Tasks |-> IF t \notin Own(c) THEN state[t]
                                   ELSE IF t = Boot[c] THEN "RUNNING" ELSE "NONE"]
      /\ saved' = [t \in Tasks |-> IF t \in Own(c) THEN NotBlocked ELSE saved[t]]
      /\ current' = [current EXCEPT ![c] = Boot[c]]
      /\ runnable' = [runnable EXCEPT ![c] = <<>>]
      /\ active' = [active EXCEPT ![c] = TRUE]
      /\ blocked' = blocked /\ blocked[c] = NotBlocked
  BY DEF Reset, Inactive
<1>3. Queued(c)' = {} /\ runnable'[c] = <<>>
  BY <1>0, <1>2 DEF Queued, Own, ProcTypes
<1>4. Lists(runnable'[c], {})
  BY <1>3, EmptySeq DEF Lists
<1>5. current'[c] = Boot[c] /\ state'[Boot[c]] = "RUNNING" /\ \A t \in Own(c) : saved'[t] = NotBlocked
  BY <1>0, <1>1, <1>2 DEF ProcTypes, Own
<1>6. Sched(c)'
  BY <1>2, <1>3, <1>4, <1>5, BlockKinds DEF Sched, Own
<1>7. \A d \in Cpus \ {c} : Untouched(d)
  BY <1>0, <1>2 DEF Untouched, ProcTypes, Own
<1> QED BY <1>0, <1>6, <1>7, SchedAt

LEMMA SchedStep == WellTyped /\ SchedInv /\ [Next]_vars => SchedInv'
<1> SUFFICES ASSUME WellTyped, SchedInv, [Next]_vars PROVE SchedInv'
  OBVIOUS
<1>1. ASSUME UNCHANGED <<state, saved, procVars>> PROVE SchedInv'
  BY <1>1, SchedOther DEF SchedInv, Untouched, procVars, WellTyped
<1>2. ASSUME NEW c \in Cpus, Finish(c) PROVE SchedInv'
  BY <1>1, <1>2 DEF Finish, Dies, procVars
<1>3. CASE UNCHANGED vars
  BY <1>1, <1>3 DEF vars, procVars
<1> QED BY <1>2, <1>3, SchedServe, SchedLoop, SchedProgram, SchedReset DEF Next


-----------------------------------------------------------------------------
(* What a step does to the packets and the operations.                     *)
Forgot == Packets' \subseteq Packets /\ log' = log
Answered(Q, result) ==
  /\ Q \subseteq Packets \cap Requests /\ log' = log
  /\ Packets' = (Packets \ Q) \cup {Answer(q, result) : q \in Q}
Returned(r) ==
  /\ r \in Packets /\ ~r.req /\ Packets' = Packets \ {r}
  /\ log' = [log EXCEPT ![r.op].got = r.result]
Issued(c, kind, x) ==
  LET n == Len(log) + 1 IN
  /\ Packets' = Packets \cup {Request(c, kind, x, nextTrans[c], n)}
  /\ log' = Append(log, [by |-> current[c], kind |-> kind, at |-> x, got |-> NotReturned])

LEMMA PacketsSame ==
  ASSUME UNCHANGED <<net, responses, remoteWaiters>>
  PROVE  Packets' = Packets
BY DEF Packets, Filed, Parked

LEMMA PacketsReplied ==
  ASSUME OpsInv, NEW p \in net, p \in Requests, NEW result, Reply(p, result),
         UNCHANGED <<responses, remoteWaiters, log>>
  PROVE  Answered({p}, result)
<1>1. p \notin Filed \cup Parked
  BY DEF OpsInv, Exclusive
<1>2. Filed' = Filed /\ Parked' = Parked
  BY DEF Filed, Parked
<1>3. Packets' = (Packets \ {p}) \cup {Answer(p, result)}
  BY <1>1, <1>2 DEF Packets, Reply
<1>4. {Answer(q, result) : q \in {p}} = {Answer(p, result)}
  OBVIOUS
<1> QED BY <1>3, <1>4 DEF Answered, Packets

LEMMA PacketsExited ==
  ASSUME OpsInv, NEW x \in Tasks, NEW P \in SUBSET net, P \subseteq Requests,
         net' = (net \ P) \cup WaitAnswers(x) \cup {Answer(p, Done) : p \in P},
         remoteWaiters' = [remoteWaiters EXCEPT ![x] = {}],
         responses' = responses, log' = log
  PROVE  Answered(P \cup remoteWaiters[x], Done)
<1>0. MsgTypes /\ Exclusive
  BY DEF OpsInv, WellTyped
<1> DEFINE Q == P \cup remoteWaiters[x]
<1>1. remoteWaiters[x] \subseteq Parked /\ remoteWaiters[x] \subseteq Requests
  BY <1>0, PacketTypes DEF MsgTypes
<1>2. Filed' = Filed
  BY DEF Filed
<1>3. Parked' = Parked \ remoteWaiters[x]
  <2>1. ASSUME NEW q \in Parked' PROVE q \in Parked /\ q \notin remoteWaiters[x]
    <3>1. PICK y \in Tasks : q \in remoteWaiters'[y]
      BY <2>1 DEF Parked
    <3>2. y # x /\ q \in remoteWaiters[y]
      BY <1>0, <3>1 DEF MsgTypes
    <3> QED BY <1>0, <3>2 DEF MsgTypes, Parked
  <2>2. ASSUME NEW q \in Parked, q \notin remoteWaiters[x] PROVE q \in Parked'
    <3>1. PICK y \in Tasks : q \in remoteWaiters[y]
      BY DEF Parked
    <3>2. q \in remoteWaiters'[y]
      BY <1>0, <2>2, <3>1 DEF MsgTypes
    <3> QED BY <3>2 DEF Parked
  <2> QED BY <2>1, <2>2
<1>4. \A q \in Filed : ~q.req
  BY <1>0, PacketTypes
<1>5. \A q \in Q : q.req
  BY <1>1, AtType
<1>6. Q \cap Filed = {} /\ Q \subseteq Packets /\ P \cap Parked = {} /\ net \cap Parked = {}
  BY <1>0, <1>1, <1>4, <1>5 DEF Packets, Exclusive
<1>7. {Answer(q, Done) : q \in Q} = WaitAnswers(x) \cup {Answer(p, Done) : p \in P}
  BY DEF WaitAnswers
<1> HIDE DEF Q
<1>8. Packets' = (Packets \ Q) \cup {Answer(q, Done) : q \in Q}
  <2>1. (net \ P) \cup (Parked \ remoteWaiters[x]) = (net \cup Parked) \ Q
    BY <1>1, <1>6 DEF Q
  <2> QED BY <1>2, <1>3, <1>6, <1>7, <2>1 DEF Packets
<1> QED BY <1>1, <1>6, <1>8 DEF Answered, Q

LEMMA PacketsKilled ==
  ASSUME OpsInv, NEW p \in net, p \in Requests, ServeKillLive(p), p.at \in Tasks,
         UNCHANGED <<responses, log>>
  PROVE  Answered({p} \cup remoteWaiters[p.at], Done)
<1>1. /\ net' = (net \ {p}) \cup WaitAnswers(p.at) \cup {Answer(q, Done) : q \in {p}}
      /\ remoteWaiters' = [remoteWaiters EXCEPT ![p.at] = {}]
  BY DEF ServeKillLive
<1>2. {p} \in SUBSET net /\ {p} \subseteq Requests
  OBVIOUS
<1> QED BY <1>1, <1>2, PacketsExited

LEMMA PacketsLeft ==
  ASSUME OpsInv, NEW x \in Tasks, net' = net \cup WaitAnswers(x),
         remoteWaiters' = [remoteWaiters EXCEPT ![x] = {}],
         responses' = responses, log' = log
  PROVE  Answered(remoteWaiters[x], Done)
<1>1. net' = (net \ {}) \cup WaitAnswers(x) \cup {Answer(q, Done) : q \in {}}
  OBVIOUS
<1>2. Answered({} \cup remoteWaiters[x], Done)
  BY <1>1, PacketsExited
<1> QED BY <1>2

(* What a processor forgets when it ends or is reset is its own. *)
LEMMA PacketsForgotten ==
  ASSUME OpsInv, NEW c \in Cpus,
         responses' = [responses EXCEPT ![c] = {}],
         remoteWaiters' = [t \in Tasks |-> IF t \in Own(c) THEN {} ELSE remoteWaiters[t]],
         UNCHANGED <<net, log>>
  PROVE  /\ Forgot
         /\ \A p \in Packets \ Packets' : c = IF p.req THEN p.dst ELSE Owner(p)
<1>0. MsgTypes
  BY DEF OpsInv, WellTyped
<1>1. Filed' \subseteq Filed /\ Parked' \subseteq Parked
  BY <1>0 DEF Filed, Parked, MsgTypes
<1>2. ASSUME NEW p \in Filed, p \notin Filed' PROVE ~p.req /\ Owner(p) = c
  <2>1. PICK d \in Cpus : p \in responses[d]
    BY DEF Filed
  <2>2. d = c
    BY <1>0, <1>2, <2>1 DEF Filed, MsgTypes
  <2> QED BY <1>0, <2>1, <2>2, PacketTypes DEF Owner, MsgTypes
<1>3. ASSUME NEW p \in Parked, p \notin Parked' PROVE p.req /\ p.dst = c
  <2>1. PICK t \in Tasks : p \in remoteWaiters[t]
    BY DEF Parked
  <2>2. t \in Own(c)
    BY <1>3, <2>1 DEF Parked
  <2> QED BY <1>0, <2>1, <2>2, AtType DEF MsgTypes, Own
<1> QED BY <1>1, <1>2, <1>3 DEF Packets, Forgot

LEMMA PacketsReturned ==
  ASSUME OpsInv, NEW c \in Cpus, NEW r \in Claimable(c),
         responses' = [responses EXCEPT ![c] = @ \ {r}],
         log' = [log EXCEPT ![blocked[c].op].got = r.result],
         UNCHANGED <<net, remoteWaiters>>
  PROVE  Returned(r)
<1>0. MsgTypes /\ Exclusive /\ OneName
  BY DEF OpsInv, WellTyped
<1>1. r \in responses[c] /\ Waits(blocked[c]) /\ r.id = blocked[c].id
  BY DEF Claimable
<1>2. r \in Filed /\ ~r.req /\ r.dst = c /\ r \in Packets
  BY <1>0, <1>1, PacketTypes DEF MsgTypes, Packets
<1>3. r.op = blocked[c].op
  BY <1>0, <1>1, <1>2 DEF OneName, Owner
<1>4. Parked' = Parked
  BY DEF Parked
<1>5. Filed' = Filed \ {r}
  <2>1. ASSUME NEW q \in Filed' PROVE q \in Filed /\ q # r
    <3>1. PICK d \in Cpus : q \in responses'[d]
      BY <2>1 DEF Filed
    <3>2. q \in responses[d] /\ (d = c => q # r)
      BY <1>0, <3>1 DEF MsgTypes
    <3>3. q.dst = d
      BY <1>0, <3>2 DEF MsgTypes
    <3> QED BY <1>2, <3>2, <3>3 DEF Filed
  <2>2. ASSUME NEW q \in Filed, q # r PROVE q \in Filed'
    <3>1. PICK d \in Cpus : q \in responses[d]
      BY DEF Filed
    <3>2. q \in responses'[d]
      BY <1>0, <2>2, <3>1 DEF MsgTypes
    <3> QED BY <3>2 DEF Filed
  <2> QED BY <2>1, <2>2
<1>6. r \notin net /\ r \notin Parked
  BY <1>0, <1>2, PacketTypes DEF Exclusive
<1>7. Packets' = Packets \ {r}
  BY <1>4, <1>5, <1>6 DEF Packets
<1> QED BY <1>2, <1>3, <1>7 DEF Returned


LEMMA PacketsArrived ==
  ASSUME OpsInv, NEW p \in net, Arrive(p)
  PROVE  Packets' = Packets /\ log' = log
<1>0. MsgTypes
  BY DEF OpsInv, WellTyped
<1>1. /\ net' = net \ {p} /\ responses' = [responses EXCEPT ![p.dst] = @ \cup {p}]
      /\ remoteWaiters' = remoteWaiters /\ log' = log
  BY DEF Arrive, taskVars
<1>2. p \in AnswerType
  BY <1>0, AtType DEF Arrive, MsgTypes
<1>3. p.dst \in Cpus
  BY <1>2 DEF AnswerType
<1>4. Filed' = Filed \cup {p} /\ Parked' = Parked
  BY <1>0, <1>1, <1>3 DEF Filed, Parked, MsgTypes
<1> QED BY <1>1, <1>4 DEF Packets

LEMMA PacketsDropped ==
  ASSUME OpsInv, NEW p \in net, Drop(p)
  PROVE  Packets' = Packets \ {p} /\ log' = log
<1>1. net' = net \ {p} /\ UNCHANGED <<responses, remoteWaiters, log>>
  BY DEF Drop, taskVars
<1>2. Filed' = Filed /\ Parked' = Parked /\ p \notin Filed \cup Parked
  BY <1>1 DEF Filed, Parked, OpsInv, Exclusive
<1> QED BY <1>1, <1>2 DEF Packets

LEMMA PacketsParked ==
  ASSUME OpsInv, NEW p \in net, p.at \in Tasks, net' = net \ {p},
         remoteWaiters' = [remoteWaiters EXCEPT ![p.at] = @ \cup {p}],
         UNCHANGED responses
  PROVE  Packets' = Packets
<1>0. MsgTypes
  BY DEF OpsInv, WellTyped
<1>1. Parked' = Parked \cup {p} /\ Filed' = Filed
  BY <1>0 DEF Parked, Filed, MsgTypes
<1> QED BY <1>1 DEF Packets

-----------------------------------------------------------------------------
(* A packet says what its operation is: its kind, whose it is, and what it *)
(* is about.                                                               *)
Fits(p) ==
  /\ p.type = Type(log[p.op].kind)
  /\ Owner(p) = Home[log[p.op].by]
  /\ IF p.req THEN p.at = log[p.op].at ELSE p.src = Home[log[p.op].at]
Matched == \A p \in Packets : Fits(p)

(* The requests parked with a task are waits for it. *)
ParkedWaits == \A x \in Tasks : \A p \in remoteWaiters[x] : p.type = "wait"

(* Nothing of an operation changes but its result. *)
Recorded ==
  \A n \in DOMAIN log :
    /\ n \in DOMAIN log' /\ log'[n].by = log[n].by
    /\ log'[n].kind = log[n].kind /\ log'[n].at = log[n].at

LEMMA FitsKept ==
  ASSUME OpsInv, NEW p \in Packets, Fits(p), Recorded
  PROVE  Fits(p)'
<1>1. p.op \in DOMAIN log
  BY DEF OpsInv, Exclusive
<1> QED BY <1>1 DEF Fits, Recorded, Owner

LEMMA MatchedForgot ==
  ASSUME OpsInv, Matched, Forgot
  PROVE  Matched'
<1>1. Recorded
  BY DEF Recorded, Forgot
<1>2. \A p \in Packets : Fits(p)'
  BY <1>1, FitsKept DEF Matched
<1> QED BY <1>2 DEF Matched, Forgot

LEMMA MatchedAnswered ==
  ASSUME OpsInv, Matched, NEW Q, NEW result \in Results, Answered(Q, result)
  PROVE  Matched'
<1>1. Recorded
  BY DEF Recorded, Answered
<1>2. \A p \in Packets : Fits(p)'
  BY <1>1, FitsKept DEF Matched
<1>3. ASSUME NEW q \in Q PROVE Fits(Answer(q, result))'
  <2>1. q \in Packets /\ q \in Requests
    BY DEF Answered
  <2> PICK a : a = Answer(q, result)
    OBVIOUS
  <2>2. /\ ~a.req /\ a.type = q.type /\ a.op = q.op /\ a.dst = q.src /\ a.src = q.dst
        /\ q.req /\ q.dst = Home[q.at]
    BY <2>1, AtType DEF Answer
  <2>3. Fits(a)'
    BY <1>2, <2>1, <2>2 DEF Fits, Owner
  <2> QED BY <2>3
<1>4. ASSUME NEW p \in Packets' PROVE Fits(p)'
  <2>1. CASE p \in Packets
    BY <1>2, <2>1
  <2>2. CASE p \notin Packets
    <3>1. PICK q \in Q : p = Answer(q, result)
      BY <1>4, <2>2 DEF Answered
    <3> QED BY <1>3, <3>1
  <2> QED BY <2>1, <2>2
<1> QED BY <1>4 DEF Matched

LEMMA MatchedReturned ==
  ASSUME OpsInv, Matched, NEW r, Returned(r)
  PROVE  Matched'
<1>1. log \in Seq(LogEntry) /\ \A n \in DOMAIN log : log[n] \in LogEntry
  BY ElementOfSeq DEF OpsInv, WellTyped, DataTypes
<1>2. Recorded
  BY <1>1 DEF Recorded, Returned, LogEntry
<1>3. \A p \in Packets : Fits(p)'
  BY <1>2, FitsKept DEF Matched
<1> QED BY <1>3 DEF Matched, Returned

LEMMA MatchedIssued ==
  ASSUME OpsInv, Matched, NEW c \in Cpus, NEW kind, NEW x, Issued(c, kind, x),
         Home[current[c]] = c
  PROVE  Matched'
<1> PICK t : t = current[c]
  OBVIOUS
<1> PICK n : n = Len(log) + 1
  OBVIOUS
<1> PICK new : new = Request(c, kind, x, nextTrans[c], n)
  OBVIOUS
<1> DEFINE e == [by |-> t, kind |-> kind, at |-> x, got |-> NotReturned]
<1>1. log' = Append(log, e) /\ Packets' = Packets \cup {new}
  BY DEF Issued
<1>2. e.by = t /\ e.kind = kind /\ e.at = x
  OBVIOUS
<1>3. new.type = Type(kind) /\ new.req /\ new.src = c /\ new.at = x /\ new.op = n
  BY DEF Request
<1> HIDE DEF e
<1>4. log \in Seq(LogEntry) /\ DOMAIN log = 1 .. Len(log) /\ Len(log) \in Nat
  BY DEF OpsInv, WellTyped, DataTypes
<1>5. DOMAIN log' = 1 .. n /\ log'[n] = e /\ \A i \in 1 .. Len(log) : log'[i] = log[i]
  BY <1>1, <1>4
<1>6. Recorded
  BY <1>4, <1>5 DEF Recorded
<1>7. \A p \in Packets : Fits(p)'
  BY <1>6, FitsKept DEF Matched
<1>8. Fits(new)'
  BY <1>2, <1>3, <1>5 DEF Fits, Owner
<1> QED BY <1>1, <1>7, <1>8 DEF Matched

(* Every step leaves the packets with what they say. *)
LEMMA MatchedStep ==
  ASSUME ~Reuse, OpsInv, OpsInv', Matched, ParkedWaits, [Next]_vars
  PROVE  Matched'
<1>0. MsgTypes /\ ProcTypes /\ DataTypes
  BY DEF OpsInv, WellTyped
<1>1. CASE UNCHANGED <<net, responses, remoteWaiters, log>>
  BY <1>1, PacketsSame, MatchedForgot DEF Forgot
<1>2. Done \in Results /\ Gone \in Results
  BY DEF Done, Results
<1>3. ASSUME NEW p \in net, Take(p) PROVE Matched'
  <2>1. CASE Arrive(p)
    BY <2>1, PacketsArrived, MatchedForgot DEF Forgot
  <2>2. CASE Drop(p)
    BY <2>2, PacketsDropped, MatchedForgot DEF Forgot
  <2>3. CASE Serve(p)
    <3>1. p \in Requests /\ UNCHANGED <<responses, log>>
      BY <1>0, <2>3 DEF Serve, MsgTypes, AnswerType
    <3>2. CASE remoteWaiters' = remoteWaiters /\ \E result \in Results : Reply(p, result)
      BY <3>1, <3>2, PacketsReplied, MatchedAnswered
    <3>3. CASE ServeRead(p)
      <4>1. mem[p.at] \in Results
        BY <1>0, <3>1, <3>3, AtType DEF ServeRead, DataTypes
      <4> QED BY <3>2, <3>3, <4>1 DEF ServeRead, taskVars
    <3>4. CASE ServeWrite(p)
      BY <1>2, <3>2, <3>4 DEF ServeWrite, taskVars
    <3>5. CASE ServeQuery(p)
      BY <3>2, <3>5, StatusType DEF ServeQuery, taskVars
    <3>6. CASE ServeWait(p)
      <4>1. p.at \in Tasks
        BY <3>1, <3>6, AtType DEF ServeWait, TaskKinds
      <4>2. CASE state[p.at] \in {"NONE", "EXITED"}
        BY <1>2, <3>2, <3>6, <4>2 DEF ServeWait
      <4>3. CASE state[p.at] \notin {"NONE", "EXITED"}
        BY <3>1, <3>6, <4>1, <4>3, PacketsParked, MatchedForgot DEF ServeWait, Forgot
      <4> QED BY <4>2, <4>3
    <3>7. CASE ServeKill(p)
      <4>1. p.at \in Tasks
        BY <3>1, <3>7, AtType DEF ServeKill, TaskKinds
      <4>2. CASE state[p.at] \in {"NONE", "EXITED"}
        BY <1>2, <3>2, <3>7, <4>2 DEF ServeKill, taskVars
      <4>3. CASE state[p.at] \notin {"NONE", "EXITED"}
        BY <1>2, <3>1, <3>7, <4>1, <4>3, PacketsKilled, MatchedAnswered DEF ServeKill
      <4> QED BY <4>2, <4>3
    <3> QED BY <2>3, <3>3, <3>4, <3>5, <3>6, <3>7 DEF Serve
  <2> QED BY <1>3, <2>1, <2>2, <2>3 DEF Take
<1>4. ASSUME NEW c \in Cpus, Loop(c) PROVE Matched'
  <2>1. CASE Wake(c) \/ SwitchAway(c)
    BY <1>1, <2>1 DEF Wake, SwitchAway
  <2>2. CASE Unblock(c)
    <3>1. CASE Dies(c)
      BY <2>2, <3>1, PacketsForgotten, MatchedForgot DEF Unblock, Dies
    <3>2. CASE ~Dies(c)
      BY <2>2, <3>2, PacketsReturned, MatchedReturned DEF Unblock
    <3> QED BY <3>1, <3>2
  <2> QED BY <1>4, <2>1, <2>2 DEF Loop
<1>5. ASSUME NEW c \in Cpus, Programs(c) PROVE Matched'
  <2>1. ASSUME NEW kind, NEW x, Issue(c, kind, x) PROVE Matched'
    <3>1. Issued(c, kind, x)
      BY <2>1 DEF Issue, Issued, Packets, Filed, Parked, taskVars
    <3>2. Home[current[c]] = c
      BY <1>0, <2>1 DEF Issue, Executing, ProcTypes, Own
    <3> QED BY <3>1, <3>2, MatchedIssued
  <2>2. CASE \/ \E o \in Objects : LocalStore(c, o) \/ ObjFree(c, o)
             \/ \E t \in Tasks : TaskCreate(c, t) \/ TaskResume(c, t)
             \/ TaskYield(c)
    BY <1>1, <2>2 DEF LocalStore, ObjFree, TaskCreate, TaskResume, TaskYield, taskVars
  <2>3. ASSUME NEW t \in Tasks, TaskKill(c, t) PROVE Matched'
    BY <1>2, <2>3, PacketsLeft, MatchedAnswered DEF TaskKill
  <2>4. CASE TaskExit(c)
    <3>1. current[c] \in Tasks
      BY <1>0, <2>4 DEF TaskExit, Executing, ProcTypes
    <3>2. /\ net' = net \cup WaitAnswers(current[c])
          /\ remoteWaiters' = [remoteWaiters EXCEPT ![current[c]] = {}]
          /\ responses' = responses /\ log' = log
      BY <2>4 DEF TaskExit
    <3> QED BY <1>2, <3>1, <3>2, PacketsLeft, MatchedAnswered
  <2> QED BY <1>5, <2>1, <2>2, <2>3, <2>4 DEF Programs
<1>6. ASSUME NEW c \in Cpus, Finish(c) \/ Reset(c) PROVE Matched'
  BY <1>6, PacketsForgotten, MatchedForgot DEF Finish, Reset, Dies
<1>7. CASE UNCHANGED vars
  BY <1>1, <1>7 DEF vars, taskVars
<1> QED BY <1>3, <1>4, <1>5, <1>6, <1>7 DEF Next

LEMMA ParkedStep == WellTyped /\ ParkedWaits /\ [Next]_vars => ParkedWaits'
<1> SUFFICES ASSUME WellTyped, ParkedWaits, [Next]_vars PROVE ParkedWaits'
  OBVIOUS
<1>0. MsgTypes
  BY DEF WellTyped
<1>1. CASE UNCHANGED remoteWaiters
  BY <1>1 DEF ParkedWaits
<1>2. ASSUME NEW x, remoteWaiters' = [remoteWaiters EXCEPT ![x] = {}] PROVE ParkedWaits'
  BY <1>0, <1>2 DEF ParkedWaits, MsgTypes
<1>3. ASSUME NEW c, remoteWaiters' = [t \in Tasks |-> IF t \in Own(c) THEN {} ELSE remoteWaiters[t]]
      PROVE  ParkedWaits'
  BY <1>3 DEF ParkedWaits
<1>4. ASSUME NEW p \in net, Serve(p) PROVE ParkedWaits'
  <2>1. CASE ServeRead(p) \/ ServeWrite(p) \/ ServeQuery(p)
    BY <1>1, <2>1 DEF ServeRead, ServeWrite, ServeQuery, taskVars
  <2>2. CASE ServeWait(p)
    BY <1>0, <2>2 DEF ServeWait, ParkedWaits, MsgTypes
  <2>3. CASE ServeKill(p)
    BY <1>1, <1>2, <2>3 DEF ServeKill, ServeKillLive, taskVars
  <2> QED BY <1>4, <2>1, <2>2, <2>3 DEF Serve
<1>5. ASSUME NEW c \in Cpus, Programs(c) PROVE ParkedWaits'
  <2>1. CASE TaskExit(c)
    BY <1>2, <2>1 DEF TaskExit
  <2>2. ASSUME NEW t \in Tasks, TaskKill(c, t) PROVE ParkedWaits'
    BY <1>2, <2>2 DEF TaskKill
  <2>3. ASSUME NEW k, NEW x, Issue(c, k, x) PROVE ParkedWaits'
    BY <1>1, <2>3 DEF Issue, taskVars
  <2> QED BY <1>1, <1>5, <2>1, <2>2, <2>3
    DEF Programs, LocalStore, ObjFree, TaskCreate, TaskResume, TaskYield, taskVars
<1>6. ASSUME NEW c \in Cpus, Loop(c) PROVE ParkedWaits'
  BY <1>1, <1>3, <1>6 DEF Loop, Wake, SwitchAway, Unblock, Dies
<1> QED BY <1>1, <1>3, <1>4, <1>5, <1>6 DEF Next, Take, Arrive, Drop, Finish, Dies, Reset, vars, taskVars

-----------------------------------------------------------------------------
(* The refinement: what a state shows of the calls, as ImplementsCall has  *)
(* it.                                                                     *)
AbsCell == [x \in Objects \cup Tasks |-> Cell(x)]
AbsOp == [n \in DOMAIN log |-> OpNow(n)]
AbsFaulty == {c \in Cpus : resets[c] > 0 \/ ~alive[c]}
View == INSTANCE RemoteCall WITH cell <- AbsCell, op <- AbsOp, faulty <- AbsFaulty

Entry(e, ph, res) == [by |-> e.by, kind |-> e.kind, at |-> e.at, ph |-> ph, res |-> res]

(* A call is where its packet is, and without one it is over. *)
ShownOps ==
  /\ AbsOp = [n \in DOMAIN log |-> AbsOp[n]]
  /\ \A n \in DOMAIN log :
       log[n].got # NotReturned => AbsOp[n] = Entry(log[n], "returned", log[n].got)
  /\ \A n \in DOMAIN log :
       log[n].got = NotReturned /\ (\A p \in Packets : p.op # n)
         => AbsOp[n] = Entry(log[n], "lost", Done)
  /\ \A p \in Packets :
       AbsOp[p.op] = IF p.req THEN Entry(log[p.op], "called", Done)
                              ELSE Entry(log[p.op], "decided", p.result)

ShownCells ==
  /\ AbsCell = [x \in Objects \cup Tasks |-> AbsCell[x]]
  /\ \A x \in Objects \cup Tasks :
       AbsCell[x] = IF ~alive[Home[x]] THEN Gone
                    ELSE IF x \in Objects THEN mem[x] ELSE TaskStatus(x)
  /\ AbsFaulty = {c \in Cpus : resets[c] > 0 \/ ~alive[c]}

Shown == ShownOps /\ ShownCells

LEMMA OpsShown == OpsInv => ShownOps
<1> SUFFICES ASSUME OpsInv PROVE ShownOps
  OBVIOUS
<1>1. Exclusive
  BY DEF OpsInv
<1>2. \A n \in DOMAIN log : AbsOp[n] = OpNow(n)
  BY DEF AbsOp
<1>3. AbsOp = [n \in DOMAIN log |-> AbsOp[n]]
  BY DEF AbsOp
<1>4. ASSUME NEW n \in DOMAIN log PROVE Places(n) = {p \in Packets : p.op = n}
  BY DEF Places, Packets
<1>5. ASSUME NEW n \in DOMAIN log, log[n].got # NotReturned
      PROVE  AbsOp[n] = Entry(log[n], "returned", log[n].got)
  BY <1>2, <1>5 DEF OpNow, Entry
<1>6. ASSUME NEW n \in DOMAIN log, log[n].got = NotReturned, \A p \in Packets : p.op # n
      PROVE  AbsOp[n] = Entry(log[n], "lost", Done)
  <2>1. Places(n) = {}
    BY <1>4, <1>6
  <2> QED BY <1>2, <1>6, <2>1 DEF OpNow, Entry
<1>7. ASSUME NEW p \in Packets
      PROVE  AbsOp[p.op] = IF p.req THEN Entry(log[p.op], "called", Done)
                                    ELSE Entry(log[p.op], "decided", p.result)
  <2> PICK n : n = p.op
    OBVIOUS
  <2>1. n \in DOMAIN log /\ log[n].got = NotReturned
    BY <1>1 DEF Exclusive
  <2>2. Places(n) = {p}
    BY <1>1, <1>4, <2>1 DEF Exclusive
  <2>3. AbsOp[n] = OpNow(n)
    BY <1>2, <2>1
  <2>4. CASE p.req
    <3>1. {q \in Places(n) : ~q.req} = {}
      BY <2>2, <2>4
    <3>2. OpNow(n) = Entry(log[n], "called", Done)
      BY <2>1, <2>2, <3>1 DEF OpNow, Entry
    <3> QED BY <2>3, <2>4, <3>2
  <2>5. CASE ~p.req
    <3>1. {q \in Places(n) : ~q.req} = {p}
      BY <2>2, <2>5
    <3>2. (CHOOSE q \in {p} : TRUE) = p
      OBVIOUS
    <3>3. OpNow(n) = Entry(log[n], "decided", p.result)
      BY <2>1, <2>2, <3>1, <3>2 DEF OpNow, Entry
    <3> QED BY <2>3, <2>5, <3>3
  <2> QED BY <2>4, <2>5
<1> QED BY <1>3, <1>5, <1>6, <1>7 DEF ShownOps

LEMMA CellsShown == ShownCells
BY DEF ShownCells, AbsCell, AbsFaulty, Cell

LEMMA AllShown == OpsInv => Shown
BY OpsShown, CellsShown DEF Shown

LEMMA AllShownNext == OpsInv' => Shown'
BY AllShown, PTL

(* The parts of an entry, and an entry with other parts. *)
LEMMA EntryParts ==
  ASSUME NEW e, NEW ph, NEW res
  PROVE  /\ Entry(e, ph, res).by = e.by /\ Entry(e, ph, res).kind = e.kind
         /\ Entry(e, ph, res).at = e.at /\ Entry(e, ph, res).ph = ph
         /\ Entry(e, ph, res).res = res
BY DEF Entry

Moved(a, ph, res) == [a EXCEPT !.ph = ph, !.res = res]
Ended(a, ph) == [a EXCEPT !.ph = ph]

LEMMA EntryMoves ==
  ASSUME NEW e, NEW ph, NEW res, NEW ph2, NEW res2
  PROVE  /\ Moved(Entry(e, ph, res), ph2, res2) = Entry(e, ph2, res2)
         /\ Ended(Entry(e, ph, res), ph2) = Entry(e, ph2, res)
<1>1. [Entry(e, ph, res) EXCEPT !.ph = ph2] = Entry(e, ph2, res)
  BY DEF Entry
<1>2. [Entry(e, ph2, res) EXCEPT !.res = res2] = Entry(e, ph2, res2)
  BY DEF Entry
<1> QED BY <1>1, <1>2 DEF Moved, Ended

(* What the moves of packets are among the calls. *)
LEMMA OpsSame ==
  ASSUME ShownOps, ShownOps', Exclusive, UNCHANGED <<Packets, log>>
  PROVE  AbsOp' = AbsOp
<1>1. ASSUME NEW n \in DOMAIN log PROVE AbsOp'[n] = AbsOp[n]
  <2>1. CASE log[n].got # NotReturned
    BY <2>1 DEF ShownOps
  <2>2. CASE log[n].got = NotReturned /\ \A p \in Packets : p.op # n
    BY <2>2 DEF ShownOps
  <2>3. ASSUME NEW p \in Packets, p.op = n PROVE AbsOp'[n] = AbsOp[n]
    BY <2>3 DEF ShownOps
  <2> QED BY <2>1, <2>2, <2>3
<1> QED BY <1>1 DEF ShownOps

(* A request of which the answer is given is decided. *)
LEMMA OpsDecided ==
  ASSUME OpsInv, ShownOps, ShownOps', NEW Q, NEW result, Answered(Q, result),
         NEW D, D = {q.op : q \in Q}
  PROVE  /\ View!Decide(D, [n \in D |-> result])
         /\ \A n \in D : AbsOp[n] = Entry(log[n], "called", Done)
<1>1. /\ Exclusive /\ log' = log /\ Q \subseteq Packets /\ Q \subseteq Requests
      /\ Packets' = (Packets \ Q) \cup {Answer(q, result) : q \in Q}
  BY DEF Answered, OpsInv
<1>2. ASSUME NEW q \in Q
      PROVE  /\ q.op \in DOMAIN log /\ AbsOp[q.op] = Entry(log[q.op], "called", Done)
             /\ AbsOp'[q.op] = Entry(log[q.op], "decided", result)
  <2>1. q \in Packets /\ q.req
    BY <1>1, AtType
  <2>2. AbsOp[q.op] = Entry(log[q.op], "called", Done)
    BY <2>1 DEF ShownOps
  <2> PICK a : a = Answer(q, result)
    OBVIOUS
  <2>3. ~a.req /\ a.op = q.op /\ a.result = result
    BY DEF Answer
  <2>4. a \in Packets'
    BY <1>1
  <2>5. AbsOp'[a.op] = Entry(log'[a.op], "decided", a.result)
    BY <2>3, <2>4 DEF ShownOps
  <2>6. q.op \in DOMAIN log
    BY <1>1, <2>1 DEF Exclusive
  <2> QED BY <1>1, <2>2, <2>3, <2>5, <2>6
<1>3. ASSUME NEW n \in DOMAIN log, n \notin D PROVE AbsOp'[n] = AbsOp[n]
  <2>1. \A q \in Q : q.op # n
    BY <1>3
  <2>2. \A q \in Q : Answer(q, result).op = q.op
    BY DEF Answer
  <2>3. CASE log[n].got # NotReturned
    BY <1>1, <2>3 DEF ShownOps
  <2>4. CASE log[n].got = NotReturned /\ \A p \in Packets : p.op # n
    <3>1. \A p \in Packets' : p.op # n
      BY <1>1, <2>1, <2>2, <2>4
    <3> QED BY <1>1, <2>4, <3>1 DEF ShownOps
  <2>5. ASSUME NEW p \in Packets, p.op = n PROVE AbsOp'[n] = AbsOp[n]
    <3>1. p \in Packets'
      BY <1>1, <2>1, <2>5
    <3> QED BY <1>1, <2>5, <3>1 DEF ShownOps
  <2> QED BY <2>3, <2>4, <2>5
<1>4. DOMAIN AbsOp = DOMAIN log /\ DOMAIN AbsOp' = DOMAIN log
  BY <1>1 DEF ShownOps
<1> DEFINE R == [n \in D |-> result]
           To(n) == IF n \in D THEN Moved(AbsOp[n], "decided", R[n]) ELSE AbsOp[n]
<1>5. ASSUME NEW n \in DOMAIN log PROVE AbsOp'[n] = To(n)
  <2>1. CASE n \in D
    <3>1. AbsOp[n] = Entry(log[n], "called", Done) /\ AbsOp'[n] = Entry(log[n], "decided", result)
      BY <1>2, <2>1
    <3>2. R[n] = result
      BY <2>1
    <3> HIDE DEF R
    <3>3. Moved(AbsOp[n], "decided", R[n]) = Entry(log[n], "decided", R[n])
      BY <3>1, EntryMoves
    <3> QED BY <2>1, <3>1, <3>2, <3>3
  <2>2. CASE n \notin D
    BY <1>3, <2>2
  <2> QED BY <2>1, <2>2
<1>6. AbsOp' = [n \in DOMAIN log |-> AbsOp'[n]]
  BY <1>1 DEF ShownOps
<1>7. View!Decide(D, R)
  <2>1. AbsOp' = [n \in DOMAIN AbsOp |-> To(n)]
    <3> HIDE DEF To
    <3> QED BY <1>4, <1>5, <1>6
  <2> QED BY ONLY <2>1, ZenonT(30) DEF View!Decide, To, R, Moved
<1> QED BY <1>2, <1>7

(* A packet that is forgotten was of an operation that was open. *)
LEMMA OpsLost ==
  ASSUME OpsInv, ShownOps, ShownOps', Forgot
  PROVE  /\ DOMAIN AbsOp' = DOMAIN AbsOp
         /\ \A n \in DOMAIN AbsOp :
              \/ AbsOp'[n] = AbsOp[n] /\ \A p \in Packets \ Packets' : p.op # n
              \/ /\ View!Open(n) /\ AbsOp'[n] = View!Lost(n)
                 /\ \E p \in Packets \ Packets' : p.op = n
<1>1. Exclusive /\ log' = log /\ Packets' \subseteq Packets
  BY DEF Forgot, OpsInv
<1>2. DOMAIN AbsOp = DOMAIN log /\ DOMAIN AbsOp' = DOMAIN log
  BY <1>1 DEF ShownOps
<1>3. ASSUME NEW n \in DOMAIN log, \A p \in Packets \ Packets' : p.op # n
      PROVE  AbsOp'[n] = AbsOp[n]
  <2>1. CASE log[n].got # NotReturned
    BY <1>1, <2>1 DEF ShownOps
  <2>2. CASE log[n].got = NotReturned /\ \A p \in Packets : p.op # n
    BY <1>1, <2>2 DEF ShownOps
  <2>3. ASSUME NEW p \in Packets, p.op = n PROVE AbsOp'[n] = AbsOp[n]
    <3>1. p \in Packets'
      BY <1>3, <2>3
    <3> QED BY <1>1, <2>3, <3>1 DEF ShownOps
  <2> QED BY <2>1, <2>2, <2>3
<1>4. ASSUME NEW p \in Packets \ Packets'
      PROVE  p.op \in DOMAIN log /\ View!Open(p.op) /\ AbsOp'[p.op] = View!Lost(p.op)
  <2> PICK n : n = p.op
    OBVIOUS
  <2>1. n \in DOMAIN log /\ log[n].got = NotReturned
    BY <1>1 DEF Exclusive
  <2>2. \A q \in Packets' : q.op # n
    BY <1>1 DEF Exclusive
  <2>3. AbsOp'[n] = Entry(log[n], "lost", Done)
    BY <1>1, <2>1, <2>2 DEF ShownOps
  <2>4. PICK ph, res : ph \in {"called", "decided"} /\ AbsOp[n] = Entry(log[n], ph, res)
    BY DEF ShownOps
  <2>5. View!Open(n)
    BY <2>4, EntryParts DEF View!Open
  <2>6. View!Lost(n) = Entry(log[n], "lost", Done)
    <3>1. View!Lost(n) = Moved(AbsOp[n], "lost", Done)
      BY Zenon DEF View!Lost, View!Done, Done, Moved
    <3> QED BY <2>4, <3>1, EntryMoves
  <2> QED BY <2>1, <2>3, <2>5, <2>6
<1> QED BY <1>2, <1>3, <1>4

(* An answer that is claimed returns what was decided. *)
LEMMA OpsReturned ==
  ASSUME OpsInv, ShownOps, ShownOps', NEW r, Returned(r), r.result # NotReturned
  PROVE  /\ r.op \in DOMAIN AbsOp /\ AbsOp[r.op].ph = "decided"
         /\ AbsOp' = [AbsOp EXCEPT ![r.op].ph = "returned"]
<1> PICK n : n = r.op
  OBVIOUS
<1>1. /\ Exclusive /\ r \in Packets /\ ~r.req /\ Packets' = Packets \ {r}
      /\ log' = [log EXCEPT ![n].got = r.result]
  BY DEF Returned, OpsInv
<1>2. log \in Seq(LogEntry) /\ n \in DOMAIN log /\ log[n] \in LogEntry
  BY <1>1, ElementOfSeq DEF OpsInv, WellTyped, DataTypes, Exclusive
<1>3. DOMAIN log' = DOMAIN log /\ \A m \in DOMAIN log \ {n} : log'[m] = log[m]
  BY <1>1, <1>2
<1>4. log'[n].got = r.result /\ log'[n] = [log[n] EXCEPT !.got = r.result]
  BY <1>1, <1>2 DEF LogEntry
<1>5. AbsOp[n] = Entry(log[n], "decided", r.result)
  BY <1>1 DEF ShownOps
<1>6. AbsOp'[n] = Entry(log'[n], "returned", r.result)
  <2>1. n \in DOMAIN log' /\ log'[n].got = r.result
    BY <1>2, <1>3, <1>4
  <2> QED BY <2>1 DEF ShownOps
<1>7. Entry(log'[n], "returned", r.result) = Entry(log[n], "returned", r.result)
  BY <1>2, <1>4 DEF Entry, LogEntry
<1>8. Ended(AbsOp[n], "returned") = Entry(log[n], "returned", r.result)
  BY <1>5, EntryMoves
<1>9. ASSUME NEW m \in DOMAIN log, m # n PROVE AbsOp'[m] = AbsOp[m]
  <2>0. log'[m] = log[m] /\ m \in DOMAIN log'
    BY <1>3, <1>9
  <2>1. CASE log[m].got # NotReturned
    BY <2>0, <2>1 DEF ShownOps
  <2>2. CASE log[m].got = NotReturned /\ \A p \in Packets : p.op # m
    BY <1>1, <2>0, <2>2 DEF ShownOps
  <2>3. ASSUME NEW p \in Packets, p.op = m PROVE AbsOp'[m] = AbsOp[m]
    <3>1. p \in Packets'
      BY <1>1, <1>9, <2>3
    <3> QED BY <2>0, <2>3, <3>1 DEF ShownOps
  <2> QED BY <2>1, <2>2, <2>3
<1>10. /\ DOMAIN AbsOp = DOMAIN log /\ AbsOp = [m \in DOMAIN log |-> AbsOp[m]]
       /\ AbsOp' = [m \in DOMAIN log |-> AbsOp'[m]]
  BY <1>3 DEF ShownOps
<1>11. AbsOp' = [AbsOp EXCEPT ![n].ph = "returned"]
  <2>1. AbsOp' = [AbsOp EXCEPT ![n] = Ended(AbsOp[n], "returned")]
    BY <1>2, <1>6, <1>7, <1>8, <1>9, <1>10
  <2> QED BY <2>1, Zenon DEF Ended
<1>12. AbsOp[n].ph = "decided"
  BY <1>5, EntryParts
<1> QED BY <1>2, <1>10, <1>11, <1>12

(* A request that is sent is a call. *)
LEMMA OpsCalled ==
  ASSUME OpsInv, ShownOps, ShownOps', NEW c \in Cpus, NEW kind, NEW x, NEW t,
         t = current[c], Issued(c, kind, x)
  PROVE  /\ Len(AbsOp) = Len(log)
         /\ AbsOp' = Append(AbsOp, [by |-> t, kind |-> kind, at |-> x, ph |-> "called", res |-> Done])
<1> PICK n : n = Len(log) + 1
  OBVIOUS
<1> PICK new : new = Request(c, kind, x, nextTrans[c], n)
  OBVIOUS
<1> DEFINE e == [by |-> t, kind |-> kind, at |-> x, got |-> NotReturned]
           a == [by |-> t, kind |-> kind, at |-> x, ph |-> "called", res |-> Done]
<1>1. log' = Append(log, e) /\ Packets' = Packets \cup {new}
  BY DEF Issued
<1>2. Entry(e, "called", Done) = a
  BY DEF Entry
<1>3. new.req /\ new.op = n
  BY DEF Request
<1> HIDE DEF e, a
<1>4. /\ log \in Seq(LogEntry) /\ DOMAIN log = 1 .. Len(log) /\ Len(log) \in Nat
      /\ Exclusive
  BY DEF OpsInv, WellTyped, DataTypes
<1>5. DOMAIN log' = 1 .. n /\ log'[n] = e /\ \A i \in 1 .. Len(log) : log'[i] = log[i]
  BY <1>1, <1>4
<1>6. ASSUME NEW i \in 1 .. Len(log) PROVE AbsOp'[i] = AbsOp[i]
  <2>0. log'[i] = log[i] /\ i \in DOMAIN log' /\ i \in DOMAIN log /\ i # n
    BY <1>4, <1>5
  <2>1. CASE log[i].got # NotReturned
    BY <2>0, <2>1 DEF ShownOps
  <2>2. CASE log[i].got = NotReturned /\ \A p \in Packets : p.op # i
    <3>1. \A p \in Packets' : p.op # i
      BY <1>1, <1>3, <2>0, <2>2
    <3> QED BY <2>0, <2>2, <3>1 DEF ShownOps
  <2>3. ASSUME NEW p \in Packets, p.op = i PROVE AbsOp'[i] = AbsOp[i]
    <3>1. p \in Packets'
      BY <1>1
    <3> QED BY <2>0, <2>3, <3>1 DEF ShownOps
  <2> QED BY <2>1, <2>2, <2>3
<1>7. AbsOp'[n] = a
  <2>1. new \in Packets'
    BY <1>1
  <2> QED BY <1>2, <1>3, <1>5, <2>1 DEF ShownOps
<1>8. /\ AbsOp = [i \in 1 .. Len(log) |-> AbsOp[i]]
      /\ AbsOp' = [i \in 1 .. n |-> AbsOp'[i]]
  BY <1>4, <1>5 DEF ShownOps
<1> PICK S : S = {AbsOp[i] : i \in 1 .. Len(log)} \cup {a}
  OBVIOUS
<1>9. AbsOp \in Seq(S) /\ Len(AbsOp) = Len(log) /\ a \in S
  <2>1. AbsOp \in [1 .. Len(log) -> S]
    BY <1>8
  <2> QED BY <1>4, <2>1, SeqOfFunction
<1>10. /\ DOMAIN Append(AbsOp, a) = 1 .. n /\ Append(AbsOp, a)[n] = a
       /\ \A i \in 1 .. Len(log) : Append(AbsOp, a)[i] = AbsOp[i]
       /\ Append(AbsOp, a) = [i \in 1 .. n |-> Append(AbsOp, a)[i]]
  <2>1. /\ Append(AbsOp, a) \in Seq(S) /\ Len(Append(AbsOp, a)) = n
        /\ \A i \in 1 .. Len(log) : Append(AbsOp, a)[i] = AbsOp[i]
        /\ Append(AbsOp, a)[n] = a
    BY <1>4, <1>9
  <2>2. ASSUME NEW s \in Seq(S), Len(s) = n PROVE DOMAIN s = 1 .. n /\ s = [i \in 1 .. n |-> s[i]]
    BY <2>2
  <2>3. /\ DOMAIN Append(AbsOp, a) = 1 .. n
        /\ Append(AbsOp, a) = [i \in 1 .. n |-> Append(AbsOp, a)[i]]
    BY ONLY <2>1, <2>2
  <2> QED BY <2>1, <2>3
<1>11. \A i \in 1 .. n : AbsOp'[i] = Append(AbsOp, a)[i]
  BY <1>4, <1>6, <1>7, <1>10
<1>12. AbsOp' = Append(AbsOp, a)
  BY <1>8, <1>10, <1>11
<1> QED BY <1>9, <1>12 DEF a

-----------------------------------------------------------------------------
(* The cells and the processors that failed. *)
Kept(x) ==
  /\ alive'[Home[x]] = alive[Home[x]]
  /\ x \in Objects => mem'[x] = mem[x]
  /\ x \in Tasks => TaskStatus(x)' = TaskStatus(x)

LEMMA CellKept ==
  ASSUME ShownCells, ShownCells', NEW x \in Objects \cup Tasks, Kept(x)
  PROVE  AbsCell'[x] = AbsCell[x]
BY DEF ShownCells, Kept

LEMMA CellsKept ==
  ASSUME ShownCells, ShownCells', \A x \in Objects \cup Tasks : Kept(x)
  PROVE  AbsCell' = AbsCell
<1>1. \A x \in Objects \cup Tasks : AbsCell'[x] = AbsCell[x]
  BY CellKept
<1> QED BY <1>1 DEF ShownCells

LEMMA CellSet ==
  ASSUME ShownCells, ShownCells', NEW x \in Objects \cup Tasks, NEW v,
         \A y \in Objects \cup Tasks : y # x => Kept(y),
         AbsCell'[x] = v
  PROVE  AbsCell' = [AbsCell EXCEPT ![x] = v]
<1>1. \A y \in Objects \cup Tasks : y # x => AbsCell'[y] = AbsCell[y]
  BY CellKept
<1> QED BY <1>1 DEF ShownCells

LEMMA FaultyKept ==
  ASSUME ShownCells, ShownCells', UNCHANGED <<alive, resets>>
  PROVE  AbsFaulty' = AbsFaulty
BY DEF ShownCells

(* Whether a task has exited shows in its state only. *)
LEMMA StatusKept ==
  ASSUME UNCHANGED <<alive, mem>>, \A t \in Tasks : TaskStatus(t)' = TaskStatus(t)
  PROVE  \A x \in Objects \cup Tasks : Kept(x)
BY DEF Kept

(* A step that shows nothing. *)
LEMMA Stutter ==
  ASSUME OpsInv, Shown, Shown', UNCHANGED <<Packets, log, alive, resets, mem>>,
         \A t \in Tasks : TaskStatus(t)' = TaskStatus(t)
  PROVE  UNCHANGED View!vars
<1>1. AbsOp' = AbsOp
  BY OpsSame DEF Shown, OpsInv
<1>2. AbsCell' = AbsCell /\ AbsFaulty' = AbsFaulty
  BY StatusKept, CellsKept, FaultyKept DEF Shown
<1> QED BY <1>1, <1>2 DEF View!vars

-----------------------------------------------------------------------------
(* The steps, as steps of the calls. *)
RefInv == OpsInv /\ SchedInv /\ Matched /\ ParkedWaits

(* A request is of a call that is open, and says what it is about. *)
LEMMA RequestShown ==
  ASSUME OpsInv, Matched, Shown, NEW p \in Packets, p \in Requests
  PROVE  /\ p.op \in DOMAIN AbsOp /\ AbsOp[p.op].ph = "called"
         /\ AbsOp[p.op].at = p.at /\ AbsOp[p.op].kind \in Kinds
         /\ p.type = Type(AbsOp[p.op].kind)
         /\ p.at \in Objects \cup Tasks /\ p.dst = Home[p.at]
         /\ alive[p.dst] => AbsCell[p.at] = IF p.at \in Objects THEN mem[p.at] ELSE TaskStatus(p.at)
<1>1. p.op \in DOMAIN log /\ Fits(p)
  BY DEF OpsInv, Exclusive, Matched
<1>2. log[p.op] \in LogEntry
  BY <1>1, ElementOfSeq DEF OpsInv, WellTyped, DataTypes
<1>3. p.req /\ p.dst = Home[p.at] /\ p.at \in Objects \cup Tasks
  BY AtType DEF Requests, RequestType
<1>4. AbsOp[p.op] = Entry(log[p.op], "called", Done) /\ DOMAIN AbsOp = DOMAIN log
  BY <1>3 DEF Shown, ShownOps
<1>5. /\ AbsOp[p.op].ph = "called" /\ AbsOp[p.op].kind = log[p.op].kind
      /\ AbsOp[p.op].at = log[p.op].at
  BY <1>4, EntryParts
<1>6. alive[p.dst] => AbsCell[p.at] = IF p.at \in Objects THEN mem[p.at] ELSE TaskStatus(p.at)
  BY <1>3 DEF Shown, ShownCells
<1> QED BY <1>1, <1>2, <1>3, <1>4, <1>5, <1>6 DEF Fits, LogEntry

LEMMA Values ==
  /\ View!Done = 0 /\ View!Alive = 0 /\ View!Exited = 1 /\ Done = 0 /\ Exited = 1
  /\ Gone # 0 /\ Gone # 1
  /\ View!Reads = {"load", "fetch", "query"} /\ View!Writes = {"store", "put"}
BY BoundsAssumption DEF View!Done, View!Alive, View!Exited, Done, Exited, View!Reads, View!Writes

(* A request that is answered alone takes effect, if it is not the kill or *)
(* the wait for a live task.                                               *)
LEMMA ActDecides ==
  ASSUME OpsInv, Matched, Shown, Shown', NEW p \in Packets, p \in Requests,
         NEW result, Answered({p}, result), UNCHANGED <<alive, resets>>,
         NEW kind, kind = AbsOp[p.op].kind, NEW old, old = AbsCell[p.at],
         ~(kind \in {"kill", "wait"} /\ old = 0),
         result = IF old = Gone THEN Gone
                  ELSE IF kind \in {"load", "fetch", "query"} THEN old ELSE 0,
         AbsCell' = IF kind \in {"store", "put"} /\ old # Gone
                      THEN [AbsCell EXCEPT ![p.at] = p.op] ELSE AbsCell
  PROVE  \E n \in DOMAIN AbsOp : View!Act(n)
<1> PICK n : n = p.op
  OBVIOUS
<1>1. n \in DOMAIN AbsOp /\ AbsOp[n].ph = "called" /\ AbsOp[n].at = p.at
  BY RequestShown
<1>2. {q.op : q \in {p}} = {n}
  OBVIOUS
<1>3. View!Decide({n}, [m \in {n} |-> result])
  BY <1>2, OpsDecided DEF Shown
<1>4. AbsFaulty' = AbsFaulty
  BY FaultyKept DEF Shown
<1> DEFINE res == IF AbsCell[AbsOp[n].at] = Gone THEN Gone
                  ELSE IF AbsOp[n].kind \in View!Reads THEN AbsCell[AbsOp[n].at] ELSE View!Done
<1>5. res = result
  BY <1>1, Values
<1>6. ~(AbsOp[n].kind \in {"kill", "wait"} /\ AbsCell[AbsOp[n].at] = View!Alive)
  BY <1>1, Values
<1>7. AbsCell' = IF AbsOp[n].kind \in View!Writes /\ AbsCell[AbsOp[n].at] # Gone
                   THEN [AbsCell EXCEPT ![AbsOp[n].at] = n] ELSE AbsCell
  BY <1>1, Values
<1>8. View!Decide({n}, [m \in {n} |-> res])
  BY <1>3, <1>5
<1>9. View!Act(n)
  BY <1>1, <1>4, <1>6, <1>7, <1>8 DEF View!Act
<1> QED BY <1>1, <1>9

(* A task that exits decides the waits that are parked with it. *)
LEMMA ExitDecides ==
  ASSUME OpsInv, Matched, ParkedWaits, Shown, Shown', NEW x \in Tasks,
         NEW P \in SUBSET Packets, P \subseteq Requests, Answered(P \cup remoteWaiters[x], Done),
         NEW D, D = {p.op : p \in P},
         alive[Home[x]], state[x] \notin {"NONE", "EXITED"}, state'[x] = "EXITED",
         UNCHANGED <<alive, mem, resets>>,
         \A t \in Tasks \ {x} : TaskStatus(t)' = TaskStatus(t)
  PROVE  View!Exit(x, D) /\ AbsFaulty' = AbsFaulty
<1>1. AbsFaulty' = AbsFaulty
  BY FaultyKept DEF Shown
<1>2. x \notin Objects /\ x \in Objects \cup Tasks
  BY HomeAssumption
<1>3. AbsCell[x] = View!Alive /\ AbsCell'[x] = View!Exited
  BY <1>2, Values DEF Shown, ShownCells, TaskStatus
<1>4. \A y \in Objects \cup Tasks : y # x => Kept(y)
  BY DEF Kept
<1>5. AbsCell' = [AbsCell EXCEPT ![x] = View!Exited]
  BY <1>2, <1>3, <1>4, CellSet DEF Shown
<1> PICK W : W = {q.op : q \in remoteWaiters[x]}
  OBVIOUS
<1>6. {q.op : q \in P \cup remoteWaiters[x]} = D \cup W
  OBVIOUS
<1>7. View!Decide(D \cup W, [n \in D \cup W |-> Done])
  BY <1>6, OpsDecided DEF Shown
<1>8. W \subseteq View!Waiting(x)
  <2> SUFFICES ASSUME NEW q \in remoteWaiters[x] PROVE q.op \in View!Waiting(x)
    OBVIOUS
  <2>1. q \in Packets /\ q \in Requests /\ q.at = x /\ q.type = "wait"
    BY PacketTypes DEF OpsInv, WellTyped, MsgTypes, Packets, ParkedWaits
  <2>2. /\ q.op \in DOMAIN AbsOp /\ AbsOp[q.op].ph = "called" /\ AbsOp[q.op].at = x
        /\ AbsOp[q.op].kind \in Kinds /\ Type(AbsOp[q.op].kind) = "wait"
    BY <2>1, RequestShown
  <2>3. AbsOp[q.op].kind = "wait"
    BY <2>2 DEF Type, Kinds, ObjectKinds, TaskKinds
  <2> QED BY <2>2, <2>3 DEF View!Waiting
<1>9. View!Decide(D \cup W, [n \in D \cup W |-> View!Done])
  BY <1>7, Values
<1> QED BY <1>1, <1>3, <1>5, <1>8, <1>9 DEF View!Exit

(* A packet that nobody takes is lost with the processor it was for. *)
LEMMA DropRefines ==
  ASSUME OpsInv, Matched, Shown, Shown', NEW p \in net, Drop(p)
  PROVE  \E n \in DOMAIN AbsOp : View!Lose(n)
<1> PICK n : n = p.op
  OBVIOUS
<1>1. /\ Packets' = Packets \ {p} /\ log' = log /\ p \in Packets
      /\ UNCHANGED <<state, mem, alive, resets>> /\ ~alive[p.dst]
  BY PacketsDropped DEF Drop, Packets, taskVars
<1>2. Packets \ Packets' = {p} /\ Forgot
  BY <1>1 DEF Forgot
<1>3. /\ DOMAIN AbsOp' = DOMAIN AbsOp
      /\ \A m \in DOMAIN AbsOp : m # n => AbsOp'[m] = AbsOp[m]
      /\ \A m \in DOMAIN AbsOp : m = n => View!Open(m) /\ AbsOp'[m] = View!Lost(m)
  BY <1>2, OpsLost DEF Shown
<1>4. n \in DOMAIN log /\ Fits(p)
  BY <1>1 DEF OpsInv, Exclusive, Matched
<1>5. n \in DOMAIN AbsOp /\ AbsOp[n].by = log[n].by /\ AbsOp[n].at = log[n].at
  <2>1. PICK ph, res : AbsOp[n] = Entry(log[n], ph, res)
    BY <1>1 DEF Shown, ShownOps
  <2>2. DOMAIN AbsOp = DOMAIN log
    BY DEF Shown, ShownOps
  <2> QED BY <1>4, <2>1, <2>2, EntryParts
<1>6. p.dst \in Cpus /\ p.dst \in {Home[AbsOp[n].by], Home[AbsOp[n].at]}
  <2>1. CASE p \in Requests
    BY <1>4, <1>5, <2>1, AtType DEF Fits
  <2>2. CASE p \notin Requests
    <3>1. p \in AnswerType /\ ~p.req
      BY <2>2, PacketTypes DEF OpsInv, WellTyped, MsgTypes
    <3> QED BY <1>4, <1>5, <3>1 DEF Fits, Owner, AnswerType
  <2> QED BY <2>1, <2>2
<1>7. p.dst \in AbsFaulty
  BY <1>1, <1>6 DEF Shown, ShownCells
<1>8. AbsCell' = AbsCell /\ AbsFaulty' = AbsFaulty
  BY <1>1, StatusKept, CellsKept, FaultyKept DEF Shown, TaskStatus
<1>9. AbsOp' = [AbsOp EXCEPT ![n] = View!Lost(n)]
  <2>1. AbsOp = [m \in DOMAIN AbsOp |-> AbsOp[m]] /\ AbsOp' = [m \in DOMAIN AbsOp |-> AbsOp'[m]]
    BY <1>3 DEF Shown, ShownOps
  <2> HIDE DEF View!Lost
  <2> QED BY <1>3, <1>5, <2>1
<1>10. View!Open(n) /\ View!Touches(n, p.dst)
  BY <1>3, <1>5, <1>6 DEF View!Touches
<1>11. View!Lose(n)
  BY <1>7, <1>8, <1>9, <1>10 DEF View!Lose
<1> QED BY <1>5, <1>11

(* A task that is loaded, parked or queued shows nothing of it. *)
LEMMA HeadQueued ==
  ASSUME NEW c \in Cpus, SchedInv, runnable[c] # <<>>
  PROVE  /\ Head(runnable[c]) \in Own(c) /\ Head(runnable[c]) \in Tasks
         /\ state[Head(runnable[c])] = "RUNNABLE"
<1>1. Head(runnable[c]) \in Queued(c)
  BY ListsTail DEF SchedInv, Sched
<1> QED BY <1>1 DEF Queued, Own

(* Killing a live task from elsewhere shows as its exit only. *)
LEMMA KilledStates ==
  ASSUME ProcTypes, SchedInv, NEW p \in Requests, ServeKillLive(p), NEW x \in Tasks, x = p.at
  PROVE  state'[x] = "EXITED" /\ \A t \in Tasks \ {x} : TaskStatus(t)' = TaskStatus(t)
<1> PICK c : c = Home[x]
  OBVIOUS
<1> PICK st : st = [state EXCEPT ![x] = "EXITED"]
  OBVIOUS
<1>0. c \in Cpus
  BY HomeAssumption
<1>1. st[x] = "EXITED" /\ \A t \in Tasks \ {x} : st[t] = state[t]
  BY DEF ProcTypes
<1>2. CASE x # current[c]
  <2>1. state' = st
    BY <1>2 DEF ServeKillLive
  <2> QED BY <1>1, <2>1 DEF TaskStatus
<1>3. CASE x = current[c]
  <2>1. StepOff(c, st, runnable[c])
    BY <1>3 DEF ServeKillLive
  <2>2. CASE runnable[c] = <<>>
    <3>1. state' = st
      BY <2>1, <2>2 DEF StepOff
    <3> QED BY <1>1, <3>1 DEF TaskStatus
  <2>3. CASE runnable[c] # <<>>
    <3> PICK h : h = Head(runnable[c])
      OBVIOUS
    <3>1. h \in Tasks /\ state[h] = "RUNNABLE"
      BY <1>0, <2>3, HeadQueued
    <3>2. state[x] # "RUNNABLE"
      BY <1>0, <1>3, HomeAssumption DEF SchedInv, Sched
    <3>3. state' = [st EXCEPT ![h] = "RUNNING"]
      BY <2>1, <2>3 DEF StepOff
    <3>4. DOMAIN st = Tasks
      BY DEF ProcTypes
    <3>5. \A t \in Tasks : state'[t] = IF t = h THEN "RUNNING" ELSE st[t]
      BY <3>1, <3>3, <3>4
    <3> QED BY <1>1, <3>1, <3>2, <3>5 DEF TaskStatus
  <2> QED BY <2>2, <2>3
<1> QED BY <1>2, <1>3

(* An answer given at once. *)
LEMMA ServeRefines ==
  ASSUME OpsInv, SchedInv, Matched, ParkedWaits, Shown, Shown', NEW p \in net, Serve(p)
  PROVE  (\E n \in DOMAIN AbsOp : View!Act(n)) \/ UNCHANGED View!vars
<1>0. MsgTypes /\ ProcTypes /\ DataTypes
  BY DEF OpsInv, WellTyped
<1>1. p \in Requests /\ p \in Packets /\ alive[p.dst] /\ UNCHANGED <<responses, log, alive, resets>>
  BY <1>0 DEF Serve, MsgTypes, AnswerType, Packets
<1> PICK kind : kind = AbsOp[p.op].kind
  OBVIOUS
<1> PICK old : old = AbsCell[p.at]
  OBVIOUS
<1>2. /\ kind \in Kinds /\ p.type = Type(kind)
      /\ p.at \in Objects \cup Tasks /\ p.dst = Home[p.at]
      /\ old = IF p.at \in Objects THEN mem[p.at] ELSE TaskStatus(p.at)
  BY <1>1, RequestShown
<1>3. ASSUME NEW result, Reply(p, result), remoteWaiters' = remoteWaiters,
             ~(kind \in {"kill", "wait"} /\ old = 0),
             result = IF old = Gone THEN Gone
                      ELSE IF kind \in {"load", "fetch", "query"} THEN old ELSE 0,
             AbsCell' = IF kind \in {"store", "put"} /\ old # Gone
                          THEN [AbsCell EXCEPT ![p.at] = p.op] ELSE AbsCell
      PROVE  \E n \in DOMAIN AbsOp : View!Act(n)
  <2>1. Answered({p}, result)
    BY <1>1, <1>3, PacketsReplied
  <2> QED BY <1>1, <1>3, <2>1, ActDecides
<1>4. ASSUME UNCHANGED <<mem, state>> PROVE AbsCell' = AbsCell
  BY <1>1, <1>4, StatusKept, CellsKept DEF Shown, TaskStatus
<1>5. CASE ServeRead(p)
  <2>1. kind \in {"load", "fetch"} /\ p.at \in Objects
    BY <1>1, <1>2, <1>5, AtType DEF ServeRead, Type, Kinds, ObjectKinds, TaskKinds
  <2>2. Reply(p, mem[p.at]) /\ UNCHANGED <<mem, state, remoteWaiters>>
    BY <1>5 DEF ServeRead, taskVars
  <2> QED BY <1>2, <1>3, <1>4, <2>1, <2>2
<1>6. CASE ServeWrite(p)
  <2>1. kind \in {"store", "put"} /\ p.at \in Objects
    BY <1>1, <1>2, <1>6, AtType DEF ServeWrite, Type, Kinds, ObjectKinds, TaskKinds
  <2>2. UNCHANGED <<state, remoteWaiters>> /\ old = mem[p.at]
    BY <1>2, <1>6, <2>1 DEF ServeWrite, taskVars
  <2>3. CASE mem[p.at] = Gone
    <3>1. Reply(p, Gone) /\ mem' = mem
      BY <1>6, <2>3 DEF ServeWrite
    <3> QED BY <1>3, <1>4, <2>1, <2>2, <2>3, <3>1
  <2>4. CASE mem[p.at] # Gone
    <3>1. Reply(p, Done) /\ mem' = [mem EXCEPT ![p.at] = p.op]
      BY <1>6, <2>4 DEF ServeWrite
    <3>2. mem'[p.at] = p.op /\ \A o \in Objects : o # p.at => mem'[o] = mem[o]
      BY <1>0, <2>1, <3>1 DEF DataTypes
    <3>3. \A y \in Objects \cup Tasks : y # p.at => Kept(y)
      BY <1>1, <2>2, <3>2 DEF Kept, TaskStatus
    <3>4. AbsCell'[p.at] = p.op
      BY <1>1, <1>2, <2>1, <3>2 DEF Shown, ShownCells
    <3>5. AbsCell' = [AbsCell EXCEPT ![p.at] = p.op]
      BY <1>2, <3>3, <3>4, CellSet DEF Shown
    <3> QED BY <1>3, <2>1, <2>2, <2>4, <3>1, <3>5, Values
  <2> QED BY <2>3, <2>4
<1>7. ASSUME p.type \in TaskKinds
      PROVE  kind = p.type /\ p.at \in Tasks /\ p.at \notin Objects /\ old = TaskStatus(p.at)
  <2>1. p.at \in Tasks /\ p.at \notin Objects
    BY <1>1, <1>7, AtType, HomeAssumption
  <2> QED BY <1>2, <1>7, <2>1 DEF Type, Kinds, ObjectKinds, TaskKinds
<1>8. CASE ServeQuery(p)
  <2>1. kind = "query" /\ old = TaskStatus(p.at)
    BY <1>7, <1>8 DEF ServeQuery, TaskKinds
  <2>2. Reply(p, TaskStatus(p.at)) /\ UNCHANGED <<mem, state, remoteWaiters>>
    BY <1>8 DEF ServeQuery, taskVars
  <2> QED BY <1>3, <1>4, <2>1, <2>2
<1>9. ASSUME p.type \in {"wait", "kill"}, state[p.at] \in {"NONE", "EXITED"},
             Reply(p, IF state[p.at] = "NONE" THEN Gone ELSE Done),
             UNCHANGED <<mem, state, remoteWaiters>>
      PROVE  \E n \in DOMAIN AbsOp : View!Act(n)
  <2>1. kind \in {"wait", "kill"} /\ old = TaskStatus(p.at)
    BY <1>7, <1>9 DEF TaskKinds
  <2>2. old = IF state[p.at] = "NONE" THEN Gone ELSE 1
    BY <1>9, <2>1, Values DEF TaskStatus
  <2>3. AbsCell' = AbsCell
    BY <1>4, <1>9
  <2> QED BY <1>3, <1>9, <2>1, <2>2, <2>3, Values
<1>10. CASE ServeWait(p)
  <2>1. CASE state[p.at] \in {"NONE", "EXITED"}
    BY <1>9, <1>10, <2>1 DEF ServeWait
  <2>2. CASE state[p.at] \notin {"NONE", "EXITED"}
    <3>1. p.at \in Tasks
      BY <1>7, <1>10 DEF ServeWait, TaskKinds
    <3>2. Packets' = Packets /\ UNCHANGED <<mem, state>>
      BY <1>1, <1>10, <2>2, <3>1, PacketsParked DEF ServeWait
    <3> QED BY <1>1, <3>2, Stutter DEF TaskStatus
  <2> QED BY <2>1, <2>2
<1>11. CASE ServeKill(p)
  <2>1. CASE state[p.at] \in {"NONE", "EXITED"}
    BY <1>9, <1>11, <2>1 DEF ServeKill, taskVars
  <2>2. CASE state[p.at] \notin {"NONE", "EXITED"}
    <3> PICK x : x = p.at
      OBVIOUS
    <3> PICK n : n = p.op
      OBVIOUS
    <3>1. kind = "kill" /\ x \in Tasks
      BY <1>7, <1>11 DEF ServeKill, TaskKinds
    <3>2. ServeKillLive(p) /\ mem' = mem
      BY <1>11, <2>2 DEF ServeKill
    <3>3. Answered({p} \cup remoteWaiters[x], Done)
      BY <1>1, <3>1, <3>2, PacketsKilled
    <3>4. state'[x] = "EXITED" /\ \A t \in Tasks \ {x} : TaskStatus(t)' = TaskStatus(t)
      BY <1>0, <1>1, <2>2, <3>1, <3>2, KilledStates
    <3>5. {n} = {q.op : q \in {p}} /\ {p} \in SUBSET Packets /\ {p} \subseteq Requests
      BY <1>1
    <3>6. View!Exit(x, {n}) /\ AbsFaulty' = AbsFaulty
      BY <1>1, <1>2, <2>2, <3>1, <3>2, <3>3, <3>4, <3>5, ExitDecides
    <3>7. n \in DOMAIN AbsOp /\ AbsOp[n].ph = "called" /\ AbsOp[n].at = x /\ AbsOp[n].kind = "kill"
      BY <1>1, <3>1, RequestShown
    <3>8. View!Act(n)
      BY <3>6, <3>7 DEF View!Act
    <3> QED BY <3>7, <3>8
  <2> QED BY <2>1, <2>2
<1> QED BY <1>5, <1>6, <1>8, <1>10, <1>11 DEF Serve

(* A processor that ends or is reset: its calls may be lost, and the calls *)
(* on what is its own.                                                     *)
LEMMA CrashRefines ==
  ASSUME OpsInv, Matched, Shown, Shown', NEW c \in Cpus,
         responses' = [responses EXCEPT ![c] = {}],
         remoteWaiters' = [t \in Tasks |-> IF t \in Own(c) THEN {} ELSE remoteWaiters[t]],
         UNCHANGED <<net, log>>,
         AbsFaulty' = AbsFaulty \cup {c},
         \A x \in Objects \cup Tasks :
           IF Home[x] = c THEN AbsCell'[x] \in {Gone, 0, 1} ELSE Kept(x)
  PROVE  View!Crash(c)
<1>1. /\ Forgot
      /\ \A p \in Packets \ Packets' : c = IF p.req THEN p.dst ELSE Owner(p)
  BY PacketsForgotten
<1>2. DOMAIN AbsCell = Objects \cup Tasks /\ DOMAIN AbsCell' = Objects \cup Tasks
  BY DEF Shown, ShownCells
<1>3. \A x \in DOMAIN AbsCell :
        IF Home[x] = c THEN AbsCell'[x] \in {Gone, View!Alive, View!Exited}
                       ELSE AbsCell'[x] = AbsCell[x]
  BY <1>2, CellKept, Values DEF Shown
<1>4. /\ DOMAIN AbsOp' = DOMAIN AbsOp
      /\ \A n \in DOMAIN AbsOp :
           \/ AbsOp'[n] = AbsOp[n]
           \/ /\ View!Open(n) /\ AbsOp'[n] = View!Lost(n)
              /\ \E p \in Packets \ Packets' : p.op = n
  BY <1>1, OpsLost DEF Shown
<1>5. ASSUME NEW p \in Packets \ Packets' PROVE View!Touches(p.op, c)
  <2>1. p.op \in DOMAIN log /\ Fits(p)
    BY DEF OpsInv, Exclusive, Matched
  <2>2. PICK ph, res : AbsOp[p.op] = Entry(log[p.op], ph, res)
    BY DEF Shown, ShownOps
  <2>3. AbsOp[p.op].by = log[p.op].by /\ AbsOp[p.op].at = log[p.op].at
    BY <2>2, EntryParts
  <2>4. p \in Requests \/ ~p.req
    BY PacketTypes DEF OpsInv, WellTyped, Packets
  <2>5. p \in Requests => p.req /\ p.dst = Home[p.at]
    BY AtType
  <2> QED BY <1>1, <2>1, <2>3, <2>4, <2>5 DEF Fits, Owner, View!Touches
<1>6. \A n \in DOMAIN AbsOp :
        AbsOp'[n] = AbsOp[n] \/ (View!Open(n) /\ View!Touches(n, c) /\ AbsOp'[n] = View!Lost(n))
  BY <1>4, <1>5
<1> HIDE DEF View!Lost, View!Touches, View!Open
<1> QED BY <1>2, <1>3, <1>4, <1>6 DEF View!Crash

LEMMA DiesRefines ==
  ASSUME OpsInv, Matched, Shown, Shown', NEW c \in Cpus, Dies(c),
         UNCHANGED <<net, state, mem, resets>>
  PROVE  View!Crash(c)
<1>1. \A d \in Cpus : alive'[d] = IF d = c THEN FALSE ELSE alive[d]
  BY DEF Dies, OpsInv, WellTyped, ProcTypes
<1>2. AbsFaulty' = AbsFaulty \cup {c}
  <2>1. /\ AbsFaulty = {d \in Cpus : resets[d] > 0 \/ ~alive[d]}
        /\ AbsFaulty' = {d \in Cpus : resets[d] > 0 \/ ~alive'[d]}
    BY DEF Shown, ShownCells
  <2> QED BY <1>1, <2>1
<1>3. \A x \in Objects \cup Tasks : Home[x] \in Cpus
  BY HomeAssumption
<1>4. ASSUME NEW x \in Objects \cup Tasks
      PROVE  IF Home[x] = c THEN AbsCell'[x] \in {Gone, 0, 1} ELSE Kept(x)
  <2>1. CASE Home[x] = c
    BY <1>1, <2>1 DEF Shown, ShownCells
  <2>2. CASE Home[x] # c
    BY <1>1, <1>3, <2>2 DEF Kept, TaskStatus
  <2> QED BY <2>1, <2>2
<1> QED BY <1>2, <1>4, CrashRefines DEF Dies

LEMMA ResetRefines ==
  ASSUME OpsInv, Matched, Shown, Shown', NEW c \in Cpus, Reset(c)
  PROVE  View!Crash(c)
<1>0. ProcTypes
  BY DEF OpsInv, WellTyped
<1>1. /\ resets' = [resets EXCEPT ![c] = @ + 1] /\ alive' = alive
      /\ state' = [t \in Tasks |-> IF t \notin Own(c) THEN state[t]
                                   ELSE IF t = Boot[c] THEN "RUNNING" ELSE "NONE"]
      /\ mem' = [o \in Objects |-> IF Home[o] = c THEN 0 ELSE mem[o]]
      /\ responses' = [responses EXCEPT ![c] = {}]
      /\ remoteWaiters' = [t \in Tasks |-> IF t \in Own(c) THEN {} ELSE remoteWaiters[t]]
      /\ UNCHANGED <<net, log>>
  BY DEF Reset
<1>2. /\ \A d \in Cpus \ {c} : resets'[d] = resets[d]
      /\ resets'[c] > 0
  <2>1. resets[c] \in Nat /\ resets'[c] = resets[c] + 1
    BY <1>0, <1>1, BoundsAssumption DEF ProcTypes
  <2> QED BY <1>0, <1>1, <2>1 DEF ProcTypes
<1>3. AbsFaulty' = AbsFaulty \cup {c}
  BY <1>1, <1>2 DEF Shown, ShownCells
<1>4. ASSUME NEW x \in Objects \cup Tasks
      PROVE  IF Home[x] = c THEN AbsCell'[x] \in {Gone, 0, 1} ELSE Kept(x)
  <2>1. CASE Home[x] = c
    <3>1. x \in Tasks => state'[x] \in {"RUNNING", "NONE"}
      BY <1>1, <2>1 DEF Own
    <3>2. x \in Tasks => TaskStatus(x)' \in {Gone, 0}
      BY <3>1, Values DEF TaskStatus
    <3>3. x \in Objects => mem'[x] = 0
      BY <1>1, <2>1
    <3> QED BY <2>1, <3>2, <3>3 DEF Shown, ShownCells
  <2>2. CASE Home[x] # c
    BY <1>1, <2>2 DEF Kept, TaskStatus, Own
  <2> QED BY <2>1, <2>2
<1> QED BY <1>1, <1>3, <1>4, CrashRefines

(* The loop: an answer that is taken is the return of its call.            *)
LEMMA LoopRefines ==
  ASSUME OpsInv, SchedInv, Matched, Shown, Shown', NEW c \in Cpus, Loop(c)
  PROVE  \/ \E n \in DOMAIN AbsOp : View!Return(n)
         \/ View!Crash(c) \/ UNCHANGED View!vars
<1>0. MsgTypes /\ ProcTypes /\ Sched(c)
  BY DEF OpsInv, WellTyped, SchedInv
<1>1. CASE Wake(c)
  <2>1. /\ UNCHANGED <<net, responses, remoteWaiters, log, alive, resets, mem>>
        /\ state' = [t \in Tasks |-> IF t \in Woken(c) THEN "RUNNABLE" ELSE state[t]]
    BY <1>1 DEF Wake
  <2>2. \A t \in Woken(c) : state[t] = "BLOCKED"
    BY DEF Woken
  <2> HIDE DEF Woken
  <2>3. \A t \in Tasks : TaskStatus(t)' = TaskStatus(t)
    BY <2>1, <2>2 DEF TaskStatus
  <2> QED BY <2>1, <2>3, PacketsSame, Stutter
<1>2. CASE SwitchAway(c)
  <2> PICK h : h = Head(runnable[c])
    OBVIOUS
  <2> PICK parks : parks = {t \in {current[c]} : t # NoTask /\ state[t] # "EXITED"}
    OBVIOUS
  <2>1. /\ UNCHANGED <<net, responses, remoteWaiters, log, alive, resets, mem>>
        /\ runnable[c] # <<>>
        /\ state' = [t \in Tasks |-> IF t = h THEN "RUNNING"
                                     ELSE IF t \in parks THEN "BLOCKED" ELSE state[t]]
    BY <1>2 DEF SwitchAway
  <2>2. state[h] = "RUNNABLE"
    BY <2>1, HeadQueued
  <2>3. \A t \in parks : state[t] = "RUNNING"
    BY <1>0 DEF Sched
  <2>4. \A t \in Tasks : TaskStatus(t)' = TaskStatus(t)
    BY <2>1, <2>2, <2>3 DEF TaskStatus
  <2> QED BY <2>1, <2>4, PacketsSame, Stutter
<1>3. CASE Unblock(c)
  <2>1. UNCHANGED <<net, state, mem, resets>>
    BY <1>3 DEF Unblock
  <2>2. CASE Dies(c)
    BY <2>1, <2>2, DiesRefines
  <2>3. CASE ~Dies(c)
    <3>1. PICK r \in Claimable(c) :
            /\ responses' = [responses EXCEPT ![c] = @ \ {r}]
            /\ log' = [log EXCEPT ![blocked[c].op].got = r.result]
            /\ UNCHANGED <<alive, remoteWaiters>>
      BY <1>3, <2>3 DEF Unblock
    <3>2. Returned(r)
      BY <2>1, <3>1, PacketsReturned
    <3>3. r \in AnswerType
      BY <1>0, <3>1 DEF Claimable, MsgTypes
    <3>4. r.result # NotReturned
      BY <3>3, BoundsAssumption DEF AnswerType
    <3>5. /\ r.op \in DOMAIN AbsOp /\ AbsOp[r.op].ph = "decided"
          /\ AbsOp' = [AbsOp EXCEPT ![r.op].ph = "returned"]
      BY <3>2, <3>4, OpsReturned DEF Shown
    <3>6. AbsCell' = AbsCell /\ AbsFaulty' = AbsFaulty
      BY <2>1, <3>1, StatusKept, CellsKept, FaultyKept DEF Shown, TaskStatus
    <3>7. View!Return(r.op)
      BY <3>5, <3>6 DEF View!Return
    <3> QED BY <3>5, <3>7
  <2> QED BY <2>2, <2>3
<1> QED BY <1>1, <1>2, <1>3 DEF Loop

(* A processor that executes has a current task, which is RUNNING. *)
LEMMA Runs ==
  ASSUME OpsInv, SchedInv, NEW c \in Cpus, Executing(c)
  PROVE  /\ alive[c] /\ current[c] \in Tasks /\ Home[current[c]] = c
         /\ state[current[c]] = "RUNNING"
BY BlockKinds DEF Executing, Turn, SchedInv, Sched, OpsInv, WellTyped, ProcTypes, Own

LEMMA IssueRefines ==
  ASSUME OpsInv, SchedInv, Shown, Shown', NEW c \in Cpus, NEW kind \in Kinds,
         NEW x \in IF kind \in ObjectKinds THEN Objects ELSE Tasks, Issue(c, kind, x)
  PROVE  View!Calls
<1> PICK t : t = current[c]
  OBVIOUS
<1>1. t \in Tasks /\ Home[t] = c
  BY Runs DEF Issue
<1>2. Issued(c, kind, x)
  BY DEF Issue, Issued, Packets, Filed, Parked, taskVars
<1>3. /\ Len(AbsOp) = Len(log)
      /\ AbsOp' = Append(AbsOp, [by |-> t, kind |-> kind, at |-> x, ph |-> "called", res |-> View!Done])
  BY <1>2, OpsCalled, Values DEF Shown
<1>4. Home[x] # Home[t] /\ Len(AbsOp) < MaxOps
  BY <1>1, <1>3 DEF Issue
<1>5. AbsCell' = AbsCell /\ AbsFaulty' = AbsFaulty
  <2>1. UNCHANGED <<alive, mem, state, resets>>
    BY DEF Issue, taskVars
  <2> QED BY <2>1, StatusKept, CellsKept, FaultyKept DEF Shown, TaskStatus
<1>6. View!Call(t, kind, x)
  BY <1>3, <1>4, <1>5 DEF View!Call
<1>7. CASE kind \in ObjectKinds
  BY <1>1, <1>4, <1>6, <1>7 DEF View!Calls, ObjectKinds
<1>8. CASE kind \notin ObjectKinds
  BY <1>1, <1>4, <1>6, <1>8 DEF View!Calls, Kinds, ObjectKinds, TaskKinds
<1> QED BY <1>7, <1>8

(* What a home does to an object of its own. *)
LEMMA ObjectRefines ==
  ASSUME OpsInv, SchedInv, Shown, Shown', NEW c \in Cpus, NEW o \in Objects,
         LocalStore(c, o) \/ ObjFree(c, o)
  PROVE  View!Local(o)
<1> PICK v : v \in {0, Gone} /\ mem' = [mem EXCEPT ![o] = v]
  BY DEF LocalStore, ObjFree
<1>1. /\ UNCHANGED <<net, responses, remoteWaiters, log, alive, resets, state>>
      /\ mem[o] # Gone /\ Home[o] = c /\ alive[c]
  BY Runs DEF LocalStore, ObjFree, taskVars
<1>2. mem'[o] = v /\ \A y \in Objects : y # o => mem'[y] = mem[y]
  BY DEF OpsInv, WellTyped, DataTypes
<1>3. \A y \in Objects \cup Tasks : y # o => Kept(y)
  BY <1>1, <1>2 DEF Kept, TaskStatus
<1>4. AbsCell[o] = mem[o] /\ AbsCell'[o] = v
  BY <1>1, <1>2 DEF Shown, ShownCells
<1>5. AbsCell' = [AbsCell EXCEPT ![o] = v]
  BY <1>3, <1>4, CellSet DEF Shown
<1>6. AbsOp' = AbsOp /\ AbsFaulty' = AbsFaulty
  BY <1>1, PacketsSame, OpsSame, FaultyKept DEF Shown, OpsInv
<1> QED BY <1>1, <1>4, <1>5, <1>6 DEF View!Local

(* A new task. *)
LEMMA CreateRefines ==
  ASSUME OpsInv, SchedInv, Shown, Shown', NEW c \in Cpus, NEW t \in Tasks, TaskCreate(c, t)
  PROVE  View!Local(t)
<1>1. /\ UNCHANGED <<net, responses, remoteWaiters, log, alive, resets, mem>>
      /\ state[t] = "NONE" /\ state' = [state EXCEPT ![t] = "NEW"] /\ Home[t] = c /\ alive[c]
  BY Runs DEF TaskCreate
<1>2. state'[t] = "NEW" /\ \A u \in Tasks : u # t => state'[u] = state[u]
  BY <1>1 DEF OpsInv, WellTyped, ProcTypes
<1>3. \A y \in Objects \cup Tasks : y # t => Kept(y)
  BY <1>1, <1>2 DEF Kept, TaskStatus
<1>4. t \notin Objects
  BY HomeAssumption
<1>5. AbsCell[t] = Gone /\ AbsCell'[t] = View!Alive
  BY <1>1, <1>2, <1>4, Values DEF Shown, ShownCells, TaskStatus
<1>6. AbsCell' = [AbsCell EXCEPT ![t] = View!Alive]
  BY <1>3, <1>5, CellSet DEF Shown
<1>7. AbsOp' = AbsOp /\ AbsFaulty' = AbsFaulty
  BY <1>1, PacketsSame, OpsSame, FaultyKept DEF Shown, OpsInv
<1> QED BY <1>5, <1>6, <1>7 DEF View!Local

(* The exit of a task of the home's own accord. *)
LEMMA LeaveRefines ==
  ASSUME OpsInv, SchedInv, Matched, ParkedWaits, Shown, Shown', NEW x \in Tasks,
         alive[Home[x]], state[x] \notin {"NONE", "EXITED"},
         net' = net \cup WaitAnswers(x),
         remoteWaiters' = [remoteWaiters EXCEPT ![x] = {}],
         UNCHANGED <<responses, log, alive, resets, mem>>,
         state'[x] = "EXITED", \A t \in Tasks \ {x} : TaskStatus(t)' = TaskStatus(t)
  PROVE  View!Local(x)
<1>1. Answered({} \cup remoteWaiters[x], Done)
  BY PacketsLeft
<1>2. {} \in SUBSET Packets /\ {} \subseteq Requests /\ {} = {p.op : p \in {}}
  OBVIOUS
<1>3. View!Exit(x, {}) /\ AbsFaulty' = AbsFaulty
  BY <1>1, <1>2, ExitDecides
<1> QED BY <1>3 DEF View!Local

(* A change of the scheduler's own. *)
LEMMA SchedulerShows ==
  ASSUME OpsInv, Shown, Shown',
         UNCHANGED <<net, responses, remoteWaiters, log, alive, resets, mem>>,
         \A t \in Tasks : \/ state'[t] = state[t]
                          \/ /\ state[t] \notin {"NONE", "EXITED"}
                             /\ state'[t] \notin {"NONE", "EXITED"}
  PROVE  UNCHANGED View!vars
<1>1. \A t \in Tasks : TaskStatus(t)' = TaskStatus(t)
  BY DEF TaskStatus
<1> QED BY <1>1, PacketsSame, Stutter

LEMMA ProgramRefines ==
  ASSUME OpsInv, SchedInv, Matched, ParkedWaits, Shown, Shown', NEW c \in Cpus, Programs(c)
  PROVE  \/ View!Calls \/ \E x \in Objects \cup Tasks : View!Local(x)
         \/ UNCHANGED View!vars
<1>0. ProcTypes
  BY DEF OpsInv, WellTyped
<1>1. ASSUME NEW x \in Objects, NEW k \in ObjectKinds, Issue(c, k, x) PROVE View!Calls
  <2>1. k \in Kinds /\ x \in IF k \in ObjectKinds THEN Objects ELSE Tasks
    BY DEF Kinds
  <2> QED BY <1>1, <2>1, IssueRefines
<1>2. ASSUME NEW x \in Tasks, NEW k \in TaskKinds, Issue(c, k, x) PROVE View!Calls
  <2>1. k \in Kinds /\ x \in IF k \in ObjectKinds THEN Objects ELSE Tasks
    BY DEF Kinds, ObjectKinds, TaskKinds
  <2> QED BY <1>2, <2>1, IssueRefines
<1>3. ASSUME NEW o \in Objects, LocalStore(c, o) \/ ObjFree(c, o) PROVE View!Local(o)
  BY <1>3, ObjectRefines
<1>4. ASSUME NEW t \in Tasks, TaskCreate(c, t) PROVE View!Local(t)
  BY <1>4, CreateRefines
<1>5. ASSUME NEW t \in Tasks, TaskResume(c, t) PROVE UNCHANGED View!vars
  <2>1. /\ UNCHANGED <<net, responses, remoteWaiters, log, alive, resets, mem>>
        /\ state[t] \in {"NEW", "BLOCKED"} /\ state' = [state EXCEPT ![t] = "RUNNABLE"]
    BY <1>5 DEF TaskResume
  <2>2. \A u \in Tasks : state'[u] = IF u = t THEN "RUNNABLE" ELSE state[u]
    BY <1>0, <2>1 DEF ProcTypes
  <2> QED BY <2>1, <2>2, SchedulerShows
<1>6. ASSUME NEW t \in Tasks, TaskKill(c, t) PROVE View!Local(t)
  <2>1. /\ alive[Home[t]] /\ state[t] \notin {"NONE", "EXITED"}
        /\ net' = net \cup WaitAnswers(t) /\ remoteWaiters' = [remoteWaiters EXCEPT ![t] = {}]
        /\ UNCHANGED <<responses, log, alive, resets, mem>>
        /\ state' = [state EXCEPT ![t] = "EXITED"]
    BY <1>6, Runs DEF TaskKill
  <2>2. state'[t] = "EXITED" /\ \A u \in Tasks \ {t} : state'[u] = state[u]
    BY <1>0, <2>1 DEF ProcTypes
  <2>3. \A u \in Tasks \ {t} : TaskStatus(u)' = TaskStatus(u)
    BY <2>2 DEF TaskStatus
  <2> QED BY <2>1, <2>2, <2>3, LeaveRefines
<1>7. CASE TaskYield(c)
  <2> PICK h : h = Head(runnable[c])
    OBVIOUS
  <2> PICK x : x = current[c]
    OBVIOUS
  <2>1. /\ UNCHANGED <<net, responses, remoteWaiters, log, alive, resets, mem>>
        /\ runnable[c] # <<>> /\ state' = [state EXCEPT ![x] = "RUNNABLE", ![h] = "RUNNING"]
        /\ state[x] = "RUNNING" /\ x \in Tasks
    BY <1>7, Runs DEF TaskYield
  <2>2. h \in Tasks /\ state[h] = "RUNNABLE"
    BY <2>1, HeadQueued
  <2>3. \A u \in Tasks : state'[u] = IF u = h THEN "RUNNING" ELSE IF u = x THEN "RUNNABLE" ELSE state[u]
    BY <1>0, <2>1, <2>2 DEF ProcTypes
  <2> QED BY <2>1, <2>2, <2>3, SchedulerShows
<1>8. CASE TaskExit(c)
  <2> PICK h : h = Head(runnable[c])
    OBVIOUS
  <2> PICK x : x = current[c]
    OBVIOUS
  <2> PICK st : st = [state EXCEPT ![x] = "EXITED"]
    OBVIOUS
  <2>1. /\ x \in Tasks /\ alive[Home[x]] /\ state[x] = "RUNNING"
        /\ net' = net \cup WaitAnswers(x) /\ remoteWaiters' = [remoteWaiters EXCEPT ![x] = {}]
        /\ UNCHANGED <<responses, log, alive, resets, mem>>
    BY <1>8, Runs DEF TaskExit
  <2>2. state' = st \/ (runnable[c] # <<>> /\ state' = [st EXCEPT ![h] = "RUNNING"])
    BY <1>8, ZenonT(30) DEF TaskExit
  <2>3. st[x] = "EXITED" /\ DOMAIN st = Tasks /\ \A u \in Tasks \ {x} : st[u] = state[u]
    BY <1>0, <2>1 DEF ProcTypes
  <2>4. CASE state' = st
    BY <2>1, <2>3, <2>4, LeaveRefines DEF TaskStatus
  <2>5. CASE runnable[c] # <<>> /\ state' = [st EXCEPT ![h] = "RUNNING"]
    <3>1. h \in Tasks /\ state[h] = "RUNNABLE"
      BY <2>5, HeadQueued
    <3>2. \A u \in Tasks : state'[u] = IF u = h THEN "RUNNING" ELSE st[u]
      BY <2>3, <2>5, <3>1
    <3>3. state'[x] = "EXITED" /\ \A u \in Tasks \ {x} : TaskStatus(u)' = TaskStatus(u)
      BY <2>1, <2>3, <3>1, <3>2 DEF TaskStatus
    <3> QED BY <2>1, <3>3, LeaveRefines
  <2> QED BY <2>2, <2>4, <2>5
<1> QED BY <1>1, <1>2, <1>3, <1>4, <1>5, <1>6, <1>7, <1>8 DEF Programs

-----------------------------------------------------------------------------
(* The whole of it. *)
LEMMA RefInit == Init => RefInv
<1> SUFFICES ASSUME Init PROVE RefInv
  OBVIOUS
<1>1. Packets = {} /\ remoteWaiters = [t \in Tasks |-> {}]
  BY DEF Init, Packets, Filed, Parked
<1> QED BY <1>1, OpsInit, SchedInit DEF RefInv, Matched, ParkedWaits

LEMMA RefStep == ASSUME ~Reuse PROVE RefInv /\ [Next]_vars => RefInv'
<1> SUFFICES ASSUME RefInv, [Next]_vars PROVE RefInv'
  OBVIOUS
<1>1. OpsInv'
  BY OpsStep DEF RefInv
<1>2. SchedInv' /\ ParkedWaits'
  BY SchedStep, ParkedStep DEF RefInv, OpsInv
<1>3. Matched'
  BY <1>1, MatchedStep DEF RefInv
<1> QED BY <1>1, <1>2, <1>3 DEF RefInv

LEMMA ViewInit == Init => View!Init
<1> SUFFICES ASSUME Init PROVE View!Init
  OBVIOUS
<1>1. ShownOps /\ ShownCells
  BY OpsInit, OpsShown, CellsShown
<1>2. AbsOp = <<>>
  <2>1. log = <<>>
    BY DEF Init
  <2>2. AbsOp = [n \in {} |-> AbsOp[n]]
    BY <1>1, <2>1 DEF ShownOps
  <2> QED BY <2>2
<1>3. AbsFaulty = {}
  BY <1>1 DEF Init, ShownCells
<1>4. ASSUME NEW x \in Objects \cup Tasks PROVE AbsCell[x] \in {Gone, View!Alive}
  <2>1. alive[Home[x]]
    BY HomeAssumption DEF Init
  <2>2. x \in Objects => mem[x] = 0
    BY DEF Init
  <2>3. x \in Tasks => state[x] \in {"RUNNING", "NONE"}
    BY DEF Init
  <2> QED BY <1>1, <2>1, <2>2, <2>3, Values DEF ShownCells, TaskStatus
<1>5. AbsCell \in [Objects \cup Tasks -> {Gone, View!Alive}]
  BY <1>1, <1>4 DEF ShownCells
<1> QED BY <1>2, <1>3, <1>5 DEF View!Init

LEMMA ViewStep ==
  ASSUME RefInv, RefInv', [Next]_vars
  PROVE  [View!Next]_(View!vars)
<1>1. OpsInv /\ SchedInv /\ Matched /\ ParkedWaits /\ Shown /\ Shown'
  BY AllShown, AllShownNext DEF RefInv
<1>2. ASSUME NEW p \in net, Take(p)
      PROVE  (\E n \in DOMAIN AbsOp : View!Act(n) \/ View!Lose(n)) \/ UNCHANGED View!vars
  <2>1. CASE Arrive(p)
    BY <1>1, <2>1, PacketsArrived, Stutter DEF Arrive, taskVars, TaskStatus
  <2>2. CASE Drop(p)
    BY <1>1, <2>2, DropRefines
  <2>3. CASE Serve(p)
    BY <1>1, <2>3, ServeRefines
  <2> QED BY <1>2, <2>1, <2>2, <2>3 DEF Take
<1>3. ASSUME NEW c \in Cpus, Loop(c)
      PROVE  (\E n \in DOMAIN AbsOp : View!Return(n)) \/ View!Crash(c) \/ UNCHANGED View!vars
  BY <1>1, <1>3, LoopRefines
<1>4. ASSUME NEW c \in Cpus, Programs(c)
      PROVE  View!Calls \/ (\E x \in Objects \cup Tasks : View!Local(x)) \/ UNCHANGED View!vars
  BY <1>1, <1>4, ProgramRefines
<1>5. ASSUME NEW c \in Cpus, Finish(c) PROVE View!Crash(c)
  BY <1>1, <1>5, DiesRefines DEF Finish
<1>6. ASSUME NEW c \in Cpus, Reset(c) PROVE View!Crash(c)
  BY <1>1, <1>6, ResetRefines
<1>7. CASE UNCHANGED vars
  BY <1>1, <1>7, PacketsSame, Stutter DEF vars, taskVars, TaskStatus
<1> QED BY <1>2, <1>3, <1>4, <1>5, <1>6, <1>7 DEF Next, View!Next

(* The mappings are those that ImplementsCall names. *)
LEMMA SameCalls ==
  /\ View!Init => Promise!Init
  /\ [View!Next]_(View!vars) => [Promise!Next]_(Promise!vars)
<1> USE DEF AbsCell, AbsOp, AbsFaulty
<1>1. View!Init => Promise!Init
  BY Zenon DEF View!Init, Promise!Init, View!Alive, Promise!Alive
<1>2. UNCHANGED View!vars => UNCHANGED Promise!vars
  BY Zenon DEF View!vars, Promise!vars
<1>3. ASSUME NEW x, NEW D, View!Exit(x, D) PROVE Promise!Exit(x, D)
  BY <1>3, Zenon DEF View!Exit, Promise!Exit, View!Decide, Promise!Decide,
    View!Waiting, Promise!Waiting, View!Alive, Promise!Alive, View!Exited, Promise!Exited,
    View!Done, Promise!Done
<1>4. ASSUME NEW n, View!Act(n) PROVE Promise!Act(n)
  BY <1>4, <1>3, Zenon DEF View!Act, Promise!Act, View!Decide, Promise!Decide,
    View!Alive, Promise!Alive, View!Done, Promise!Done,
    View!Reads, Promise!Reads, View!Writes, Promise!Writes
<1>5. ASSUME NEW n, View!Return(n) PROVE Promise!Return(n)
  BY <1>5, Zenon DEF View!Return, Promise!Return
<1>6. ASSUME NEW n, View!Lose(n) PROVE Promise!Lose(n)
  BY <1>6, Zenon DEF View!Lose, Promise!Lose, View!Open, Promise!Open,
    View!Touches, Promise!Touches, View!Lost, Promise!Lost, View!Done, Promise!Done
<1>7. ASSUME NEW c, View!Crash(c) PROVE Promise!Crash(c)
  BY <1>7, Zenon DEF View!Crash, Promise!Crash, View!Open, Promise!Open,
    View!Touches, Promise!Touches, View!Lost, Promise!Lost, View!Done, Promise!Done,
    View!Alive, Promise!Alive, View!Exited, Promise!Exited
<1>8. ASSUME NEW x, View!Local(x) PROVE Promise!Local(x)
  BY <1>8, <1>3, Zenon DEF View!Local, Promise!Local, View!Alive, Promise!Alive
<1>9. ASSUME View!Calls PROVE Promise!Calls
  BY <1>9, Zenon DEF View!Calls, Promise!Calls, View!Call, Promise!Call, View!Done, Promise!Done
<1> QED BY <1>1, <1>2, <1>4, <1>5, <1>6, <1>7, <1>8, <1>9, Zenon DEF View!Next, Promise!Next

(* Every operation on an object or a task of another processor takes       *)
(* effect at most once, at one moment between the call and the return, and *)
(* returns the result of that moment; only an end or a reset of one of the *)
(* two processors loses one: simorisc's requests, answers, parked waits    *)
(* and kills implement RemoteCall.                                         *)
THEOREM CallsCorrect == ASSUME ~Reuse PROVE Spec => ImplementsCall
<1>1. Init => RefInv /\ Promise!Init
  BY RefInit, ViewInit, SameCalls
<1>2. RefInv /\ [Next]_vars => RefInv'
  BY RefStep
<1>3. RefInv /\ RefInv' /\ [Next]_vars => [Promise!Next]_(Promise!vars)
  BY ViewStep, SameCalls
<1> QED BY <1>1, <1>2, <1>3, PTL DEF Spec, ImplementsCall, Promise!Spec
=============================================================================

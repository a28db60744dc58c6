--------------------------- MODULE TaskSchedProofs ---------------------------
(***************************************************************************)
(* Proofs about TaskSched for any finite set of tasks, any set of queues   *)
(* and any bounds.                                                         *)
(***************************************************************************)
EXTENDS TaskSched, Sequences, SequencesExt, SequenceTheorems,
        FiniteSetTheorems, WellFoundedInduction, TLAPS

-----------------------------------------------------------------------------
(* The run queue kept in step with the set of RUNNABLE tasks: the Python   *)
(* list operations have their counterparts on the set.                     *)

(* q lists every member of S exactly once and nothing else.                *)
Lists(q, S) ==
  /\ q \in Seq(S)
  /\ \A i, j \in 1..Len(q) : q[i] = q[j] => i = j
  /\ \A x \in S : \E i \in 1..Len(q) : q[i] = x

(* A function on 1..n is a sequence of length n.                           *)
LEMMA SeqOfFunction ==
  ASSUME NEW S, NEW n \in Nat, NEW f \in [1..n -> S]
  PROVE  f \in Seq(S) /\ Len(f) = n
BY SeqDef

(* A sequence whose elements are all in S is a sequence over S.            *)
LEMMA SeqOver ==
  ASSUME NEW S, NEW T, NEW s \in Seq(T), \A i \in 1..Len(s) : s[i] \in S
  PROVE  s \in Seq(S)
<1>1. Len(s) \in Nat /\ s \in [1..Len(s) -> T]
  BY LenProperties
<1>2. s \in [1..Len(s) -> S]
  BY <1>1
<1> QED BY <1>1, <1>2, SeqDef

(* A non-empty set of natural numbers has a least element.                 *)
LEMMA LeastNatural ==
  ASSUME NEW I \in SUBSET Nat, I # {}
  PROVE  \E m \in I : \A y \in I : m <= y
<1> DEFINE R == OpToRel(<, Nat)
<1>1. IsWellFoundedOn(R, Nat)
  BY NatLessThanWellFounded
<1>2. PICK m \in I : \A y \in I : ~(<<y, m>> \in R)
  BY <1>1, WFMin
<1>3. \A y \in I : ~(y < m)
  BY <1>2 DEF OpToRel
<1> QED BY <1>3

(* Deleting position k of a list.                                          *)
LEMMA RemoveAtProperties ==
  ASSUME NEW S, NEW s \in Seq(S), NEW k \in 1..Len(s)
  PROVE  /\ RemoveAt(s, k) \in Seq(S)
         /\ Len(RemoveAt(s, k)) = Len(s) - 1
         /\ \A j \in 1..(Len(s) - 1) :
              RemoveAt(s, k)[j] = IF j < k THEN s[j] ELSE s[j + 1]
<1> DEFINE a == SubSeq(s, 1, k - 1)
           b == SubSeq(s, k + 1, Len(s))
<1>1. Len(s) \in Nat /\ \A i \in 1..Len(s) : s[i] \in S
  BY ElementOfSeq
<1>2. /\ a \in Seq(S) /\ Len(a) = k - 1
      /\ \A j \in 1..(k - 1) : a[j] = s[j]
  BY <1>1, SubSeqProperties
<1>3. /\ b \in Seq(S) /\ Len(b) = Len(s) - k
      /\ \A j \in 1..(Len(s) - k) : b[j] = s[k + j]
  BY <1>1, SubSeqProperties
<1> HIDE DEF a, b
<1>4. /\ a \o b \in Seq(S) /\ Len(a \o b) = Len(s) - 1
      /\ \A j \in 1..(Len(s) - 1) :
           (a \o b)[j] = IF j <= k - 1 THEN a[j] ELSE b[j - (k - 1)]
  BY <1>1, <1>2, <1>3, ConcatProperties
<1>5. ASSUME NEW j \in 1..(Len(s) - 1)
      PROVE  (a \o b)[j] = IF j < k THEN s[j] ELSE s[j + 1]
  <2>1. CASE j < k
    BY <1>1, <1>2, <1>4, <2>1
  <2>2. CASE ~(j < k)
    <3>1. j - (k - 1) \in 1..(Len(s) - k) /\ k + (j - (k - 1)) = j + 1
      BY <1>1, <2>2
    <3> QED BY <1>1, <1>3, <1>4, <2>2, <3>1
  <2> QED BY <2>1, <2>2
<1> QED BY <1>4, <1>5 DEF RemoveAt, a, b

(* list.remove deletes one position, or nothing.                           *)
LEMMA RemoveFirstAt ==
  ASSUME NEW S, NEW q \in Seq(S), NEW x
  PROVE  \/ RemoveFirst(q, x) = q
         \/ \E k \in 1..Len(q) : RemoveFirst(q, x) = RemoveAt(q, k)
<1>1. CASE \E i \in 1..Len(q) : q[i] = x
  <2> DEFINE I == {i \in 1..Len(q) : q[i] = x}
             k == Min(I)
  <2>1. I # {} /\ I \in SUBSET Nat /\ \A i \in I : i \in 1..Len(q)
    BY <1>1
  <2>2. k \in 1..Len(q)
    BY <2>1, LeastNatural DEF Min
  <2>3. SelectInSeq(q, LAMBDA v : v = x) = k
    BY <2>1 DEF SelectInSeq
  <2>4. RemoveFirst(q, x) = RemoveAt(q, k)
    BY <1>1, <2>3 DEF RemoveFirst
  <2> QED BY <2>2, <2>4
<1> QED BY <1>1 DEF RemoveFirst

(* list.remove adds no element.                                            *)
LEMMA RemoveFirstType ==
  ASSUME NEW S, NEW q \in Seq(S), NEW x
  PROVE  RemoveFirst(q, x) \in Seq(S)
BY RemoveFirstAt, RemoveAtProperties

(* The empty list lists the empty set, and only that one.                  *)
LEMMA ListsEmpty ==
  ASSUME NEW q, NEW S, Lists(q, S)
  PROVE  q = <<>> <=> S = {}
BY DEF Lists

(* list.pop(0).                                                            *)
LEMMA ListsTail ==
  ASSUME NEW q, NEW S, Lists(q, S), q # <<>>
  PROVE  /\ Head(q) \in S
         /\ Lists(Tail(q), S \ {Head(q)})
<1>1. /\ q \in Seq(S) /\ Len(q) \in Nat /\ 1 \in 1..Len(q) /\ Head(q) = q[1]
      /\ Head(q) \in S
  BY DEF Lists
<1>2. /\ Tail(q) \in Seq(S) /\ Len(Tail(q)) = Len(q) - 1
      /\ \A i \in 1..Len(Tail(q)) : Tail(q)[i] = q[i + 1]
  BY <1>1, HeadTailProperties
<1>3. \A i \in 1..Len(Tail(q)) : Tail(q)[i] \in S \ {Head(q)}
  BY <1>1, <1>2 DEF Lists
<1>4. Tail(q) \in Seq(S \ {Head(q)})
  BY <1>2, <1>3, SeqOver
<1>5. \A i, j \in 1..Len(Tail(q)) : Tail(q)[i] = Tail(q)[j] => i = j
  BY <1>1, <1>2 DEF Lists
<1>6. \A x \in S \ {Head(q)} : \E i \in 1..Len(Tail(q)) : Tail(q)[i] = x
  <2> SUFFICES ASSUME NEW x \in S, x # Head(q)
               PROVE  \E i \in 1..Len(Tail(q)) : Tail(q)[i] = x
    OBVIOUS
  <2>1. PICK k \in 1..Len(q) : q[k] = x
    BY DEF Lists
  <2>2. k - 1 \in 1..Len(Tail(q)) /\ Tail(q)[k - 1] = x
    BY <1>1, <1>2, <2>1
  <2> QED BY <2>2
<1> QED BY <1>1, <1>4, <1>5, <1>6 DEF Lists

(* list.append of a new member.                                            *)
LEMMA ListsAppend ==
  ASSUME NEW q, NEW S, Lists(q, S), NEW x, x \notin S
  PROVE  Lists(Append(q, x), S \cup {x})
<1> DEFINE r == Append(q, x)
<1>1. /\ q \in Seq(S \cup {x}) /\ r \in Seq(S \cup {x}) /\ Len(r) = Len(q) + 1
      /\ Len(q) \in Nat
      /\ \A i \in 1..Len(r) : r[i] = IF i <= Len(q) THEN q[i] ELSE x
      /\ \A i \in 1..Len(q) : q[i] \in S
  BY DEF Lists
<1>2. \A i, j \in 1..Len(r) : r[i] = r[j] => i = j
  <2> SUFFICES ASSUME NEW i \in 1..Len(r), NEW j \in 1..Len(r), r[i] = r[j]
               PROVE  i = j
    OBVIOUS
  <2>1. CASE i <= Len(q) /\ j <= Len(q)
    <3>1. i \in 1..Len(q) /\ j \in 1..Len(q) /\ q[i] = q[j]
      BY <1>1, <2>1
    <3> QED BY <3>1 DEF Lists
  <2>2. CASE i > Len(q) /\ j > Len(q)
    BY <1>1, <2>2
  <2>3. CASE i <= Len(q) /\ j > Len(q)
    BY <1>1, <2>3
  <2>4. CASE i > Len(q) /\ j <= Len(q)
    BY <1>1, <2>4
  <2> QED BY <1>1, <2>1, <2>2, <2>3, <2>4
<1>3. \A y \in S \cup {x} : \E i \in 1..Len(r) : r[i] = y
  <2>1. r[Len(q) + 1] = x /\ Len(q) + 1 \in 1..Len(r)
    BY <1>1
  <2>2. ASSUME NEW y \in S PROVE \E i \in 1..Len(r) : r[i] = y
    <3>1. PICK k \in 1..Len(q) : q[k] = y
      BY DEF Lists
    <3>2. k \in 1..Len(r) /\ r[k] = y
      BY <1>1, <3>1
    <3> QED BY <3>2
  <2> QED BY <2>1, <2>2
<1> QED BY <1>1, <1>2, <1>3 DEF Lists

(* Concatenation of lists of disjoint sets.                                *)
LEMMA ListsConcat ==
  ASSUME NEW p, NEW q, NEW S, NEW T, Lists(p, S), Lists(q, T), S \cap T = {}
  PROVE  Lists(p \o q, S \cup T)
<1> DEFINE r == p \o q
<1>1. /\ p \in Seq(S) /\ q \in Seq(T)
      /\ p \in Seq(S \cup T) /\ q \in Seq(S \cup T)
      /\ Len(p) \in Nat /\ Len(q) \in Nat
      /\ \A i \in 1..Len(p) : p[i] \in S
      /\ \A i \in 1..Len(q) : q[i] \in T
  BY DEF Lists
<1>2. /\ r \in Seq(S \cup T) /\ Len(r) = Len(p) + Len(q)
      /\ \A i \in 1..Len(r) : r[i] = IF i <= Len(p) THEN p[i] ELSE q[i - Len(p)]
  BY <1>1, ConcatProperties
<1>3. \A i, j \in 1..Len(r) : r[i] = r[j] => i = j
  <2> SUFFICES ASSUME NEW i \in 1..Len(r), NEW j \in 1..Len(r), r[i] = r[j]
               PROVE  i = j
    OBVIOUS
  <2>1. CASE i <= Len(p) /\ j <= Len(p)
    <3>1. i \in 1..Len(p) /\ j \in 1..Len(p) /\ p[i] = p[j]
      BY <1>1, <1>2, <2>1
    <3> QED BY <3>1 DEF Lists
  <2>2. CASE i > Len(p) /\ j > Len(p)
    <3>1. i - Len(p) \in 1..Len(q) /\ j - Len(p) \in 1..Len(q)
      BY <1>1, <1>2, <2>2
    <3>2. q[i - Len(p)] = q[j - Len(p)]
      BY <1>1, <1>2, <2>2
    <3>3. i - Len(p) = j - Len(p)
      BY <3>1, <3>2 DEF Lists
    <3> QED BY <1>1, <1>2, <3>3
  <2>3. CASE i <= Len(p) /\ j > Len(p)
    <3>1. i \in 1..Len(p) /\ j - Len(p) \in 1..Len(q)
      BY <1>1, <1>2, <2>3
    <3>2. r[i] \in S /\ r[j] \in T
      BY <1>1, <1>2, <2>3, <3>1
    <3> QED BY <3>2
  <2>4. CASE i > Len(p) /\ j <= Len(p)
    <3>1. j \in 1..Len(p) /\ i - Len(p) \in 1..Len(q)
      BY <1>1, <1>2, <2>4
    <3>2. r[j] \in S /\ r[i] \in T
      BY <1>1, <1>2, <2>4, <3>1
    <3> QED BY <3>2
  <2> QED BY <1>1, <1>2, <2>1, <2>2, <2>3, <2>4
<1>4. ASSUME NEW x \in S \cup T PROVE \E i \in 1..Len(r) : r[i] = x
  <2>1. CASE x \in S
    <3>1. PICK k \in 1..Len(p) : p[k] = x
      BY <2>1 DEF Lists
    <3>2. k \in 1..Len(r) /\ r[k] = x
      BY <1>1, <1>2, <3>1
    <3> QED BY <3>2
  <2>2. CASE x \in T
    <3>1. PICK k \in 1..Len(q) : q[k] = x
      BY <2>2 DEF Lists
    <3>2. k + Len(p) \in 1..Len(r) /\ r[k + Len(p)] = x
      BY <1>1, <1>2, <3>1
    <3> QED BY <3>2
  <2> QED BY <2>1, <2>2
<1> QED BY <1>2, <1>3, <1>4 DEF Lists

(* list.remove of a member.                                                *)
LEMMA ListsRemoveFirst ==
  ASSUME NEW q, NEW S, Lists(q, S), NEW x \in S
  PROVE  Lists(RemoveFirst(q, x), S \ {x})
<1> DEFINE r == RemoveFirst(q, x)
           n == Len(q) - 1
<1>1. PICK k \in 1..Len(q) : q[k] = x
  BY DEF Lists
<1>2. q \in Seq(S) /\ Len(q) \in Nat /\ k \in Nat /\ \A i \in 1..Len(q) : q[i] \in S
  BY <1>1 DEF Lists
<1>3. \A i \in 1..Len(q) : q[i] = x => i = k
  BY <1>1 DEF Lists
<1>4. SelectInSeq(q, LAMBDA v : v = x) = k
  <2> DEFINE I == {i \in 1..Len(q) : q[i] = x}
  <2>1. I = {k}
    BY <1>1, <1>3
  <2>2. Min(I) = k
    BY <1>2, <2>1 DEF Min
  <2> QED BY <2>1, <2>2 DEF SelectInSeq
<1>5. r = RemoveAt(q, k)
  BY <1>1, <1>4 DEF RemoveFirst
<1>6. /\ r \in Seq(S) /\ Len(r) = n
      /\ \A j \in 1..n : r[j] = IF j < k THEN q[j] ELSE q[j + 1]
  BY <1>2, <1>5, RemoveAtProperties
<1> HIDE DEF r
<1>7. \A i \in 1..n : r[i] \in S \ {x}
  BY <1>2, <1>3, <1>6
<1>8. r \in Seq(S \ {x})
  BY <1>6, <1>7, SeqOver
<1>9. \A i, j \in 1..n : r[i] = r[j] => i = j
  <2> SUFFICES ASSUME NEW i \in 1..n, NEW j \in 1..n, r[i] = r[j] PROVE i = j
    OBVIOUS
  <2> DEFINE a(z) == IF z < k THEN z ELSE z + 1
  <2>1. a(i) \in 1..Len(q) /\ a(j) \in 1..Len(q) /\ q[a(i)] = q[a(j)]
    BY <1>2, <1>6
  <2>2. a(i) = a(j)
    BY <2>1 DEF Lists
  <2> QED BY <1>2, <2>2
<1>10. \A y \in S \ {x} : \E i \in 1..n : r[i] = y
  <2> SUFFICES ASSUME NEW y \in S, y # x PROVE \E i \in 1..n : r[i] = y
    OBVIOUS
  <2>1. PICK i \in 1..Len(q) : q[i] = y
    BY DEF Lists
  <2>2. CASE i < k
    BY <1>2, <1>6, <2>1, <2>2
  <2>3. CASE ~(i < k)
    <3>1. i - 1 \in 1..n /\ r[i - 1] = y
      BY <1>1, <1>2, <1>6, <2>1, <2>3
    <3> QED BY <3>1
  <2> QED BY <2>2, <2>3
<1>11. Lists(r, S \ {x})
  BY <1>6, <1>8, <1>9, <1>10 DEF Lists
<1> QED BY <1>11 DEF r

-----------------------------------------------------------------------------
(* A poll waits for one queue and has no deadline.                         *)
Shaped(b) == b.kind = "poll" => ~b.due /\ \E q \in Queues : b.qs = {q}
Blocks == {b \in Block : Shaped(b)}

(* Every block the actions build is a Block of a shape that occurs. *)
LEMMA BlockType ==
  /\ NotBlocked \in Blocks
  /\ ExitWait \in Blocks
  /\ \A q \in Queues, timed \in BOOLEAN : OnQueue(q, timed) \in Blocks
  /\ \A S \in SUBSET Queues, timed \in BOOLEAN : OnAnyQueue(S, timed) \in Blocks
  /\ \A b \in Blocks : b.kind = "waitany" => [b EXCEPT !.due = TRUE] \in Blocks
  /\ Blocks \subseteq Block
  /\ NotBlocked # ExitWait
BY DEF Block, NotBlocked, ExitWait, OnQueue, OnAnyQueue, Shaped, Blocks

(* An order of a set of tasks lists that set.                              *)
LEMMA OrdersList ==
  ASSUME NEW S \in SUBSET Tasks, NEW ws \in Orders(S)
  PROVE  Lists(ws, S) /\ ws \in Seq(Tasks)
<1>1. Cardinality(S) \in Nat
  BY TasksAssumption, FS_Subset, FS_CardinalityType
<1>2. ws \in Seq(S) /\ Len(ws) = Cardinality(S)
  BY <1>1, SeqOfFunction DEF Orders
<1>3. ws \in Seq(Tasks)
  BY <1>2, SeqMonotonic
<1> QED BY <1>2, <1>3 DEF Lists, Orders

(* Appending to, concatenating and taking the tail of a run queue gives
   a run queue. *)
LEMMA SeqOps ==
  ASSUME NEW q \in Seq(Tasks), NEW t \in Tasks
  PROVE  /\ Append(q, t) \in Seq(Tasks) /\ Append(q, t) # <<>>
         /\ q # <<>> => Head(q) \in Tasks /\ Tail(q) \in Seq(Tasks)
BY HeadTailProperties, AppendProperties

-----------------------------------------------------------------------------
(* Type correctness.  It needs the shape of the blocking records, and that *)
(* a processor without a task is parked: neither follows from the types.   *)
WellTyped ==
  /\ TypeOK
  /\ cpuBlocked \in Blocks
  /\ \A t \in Tasks : saved[t] \in Blocks
  /\ current = NoTask => cpuBlocked = ExitWait

(* The initial state is well typed. *)
LEMMA TypeInit == Init => WellTyped
<1> SUFFICES ASSUME Init PROVE WellTyped
  OBVIOUS
<1>1. /\ runnable \in Seq(Tasks) /\ saved \in [Tasks -> Block] /\ cpuBlocked \in Block
      /\ queue \in [Queues -> 0..Depth] /\ sends \in 0..MaxSends
  BY BlockType, EmptySeq, QueuesAssumption DEF Init
<1>2. state \in [Tasks -> TaskState] /\ current \in Tasks
  BY TasksAssumption DEF Init, TaskState
<1>3. TypeOK
  BY <1>1, <1>2 DEF Init, TypeOK
<1> QED BY <1>3, BlockType, TasksAssumption DEF Init, WellTyped

(* Loading the task at the head of a run queue keeps the types.            *)
LEMMA SwitchToType ==
  ASSUME WellTyped, current \in Tasks,
         NEW st \in [Tasks -> TaskState], NEW q \in Seq(Tasks), q # <<>>,
         SwitchTo(st, q)
  PROVE  /\ state' \in [Tasks -> TaskState]
         /\ runnable' \in Seq(Tasks)
         /\ current' \in Tasks
         /\ cpuBlocked' \in Blocks
         /\ saved' \in [Tasks -> Block]
         /\ \A t \in Tasks : saved'[t] \in Blocks
<1>1. Head(q) \in Tasks /\ Tail(q) \in Seq(Tasks)
  BY HeadTailProperties
<1> QED BY <1>1, BlockType DEF SwitchTo, WellTyped, TypeOK, TaskState

(* Every step keeps the types, action by action. *)
LEMMA TypeStep == WellTyped /\ [Next]_vars => WellTyped'
<1> SUFFICES ASSUME WellTyped, [Next]_vars
             PROVE  WellTyped'
  OBVIOUS
<1>1. ASSUME NEW q \in Queues, Deliver(q)
      PROVE  WellTyped'
  <2>1. queue' \in [Queues -> 0..Depth] /\ sends' \in 0..MaxSends
    BY <1>1, QueuesAssumption DEF Deliver, WellTyped, TypeOK
  <2> QED BY <1>1, <2>1 DEF Deliver, WellTyped, TypeOK, taskVars, trapVars
<1>2. ASSUME NEW t \in Tasks, Deadline(t)
      PROVE  WellTyped'
  <2>1. current = NoTask => cpuBlocked.kind # "waitany"
    BY DEF WellTyped, ExitWait, NotBlocked
  <2> QED BY <1>2, <2>1, BlockType DEF Deadline, WellTyped, TypeOK
<1>3. CASE Wake
  <2>1. Woken \in SUBSET Tasks /\ runnable \in Seq(Tasks)
    BY DEF Woken, WellTyped, TypeOK
  <2>2. runnable' \in Seq(Tasks)
    BY <1>3, <2>1, OrdersList, ConcatProperties DEF Wake
  <2>3. state' \in [Tasks -> TaskState]
    BY <1>3 DEF Wake, WellTyped, TypeOK, TaskState
  <2> QED BY <1>3, <2>2, <2>3 DEF Wake, WellTyped, TypeOK
<1>4. CASE Unblock
  <2>1. queue' \in [Queues -> 0..Depth]
    <3> SUFFICES ASSUME NEW q \in Queues, cpuBlocked.kind = "poll", q \in cpuBlocked.qs
                 PROVE  queue[q] > 0
      BY <1>4, QueuesAssumption DEF Unblock, WellTyped, TypeOK
    <3> QED BY <1>4 DEF Unblock, Satisfied, WellTyped, Blocks, Shaped
  <2>2. current # NoTask
    BY <1>4 DEF Unblock, Satisfied, WellTyped, ExitWait, NotBlocked
  <2> QED BY <1>4, <2>1, <2>2, BlockType
       DEF Unblock, WellTyped, TypeOK, taskVars, trapVars
<1>5. CASE Expire
  <2>1. current # NoTask
    BY <1>5 DEF Expire, WellTyped, ExitWait, NotBlocked
  <2> QED BY <1>5, <2>1, BlockType DEF Expire, WellTyped, TypeOK, taskVars, trapVars
<1>6. CASE SwitchAway
  <2>1. Head(runnable) \in Tasks /\ Tail(runnable) \in Seq(Tasks)
    BY <1>6, HeadTailProperties DEF SwitchAway, WellTyped, TypeOK
  <2> QED BY <1>6, <2>1, BlockType, TasksAssumption
       DEF SwitchAway, WellTyped, TypeOK, TaskState
<1>7. CASE IdleTick
  BY <1>7, BlockType DEF IdleTick, WellTyped, TypeOK, TaskState, taskVars, trapVars,
     Stepping, Executing, BlockedTick
<1>8. CASE Instruction
  BY <1>8, BlockType DEF Instruction, WellTyped, TypeOK, TaskState, taskVars, trapVars,
     Stepping, Executing, BlockedTick
<1>9. CASE TaskSuspendSelf
  <2> DEFINE st == [state EXCEPT ![current] = "SUSPENDED"]
             q == IF state[current] = "RUNNABLE" THEN RemoveFirst(runnable, current)
                  ELSE runnable
  <2>1. current \in Tasks
    BY <1>9, BlockType DEF TaskSuspendSelf, Stepping, WellTyped, TypeOK
  <2>2. st \in [Tasks -> TaskState]
    BY DEF WellTyped, TypeOK, TaskState
  <2>3. q \in Seq(Tasks)
    BY RemoveFirstType DEF WellTyped, TypeOK
  <2>4. CASE q = <<>>
    BY <1>9, <2>1, <2>2, <2>3, <2>4 DEF TaskSuspendSelf, WellTyped, TypeOK
  <2>5. CASE q # <<>>
    <3>1. SwitchTo(st, q)
      BY <1>9, <2>5 DEF TaskSuspendSelf
    <3> HIDE DEF st, q
    <3>2. /\ state' \in [Tasks -> TaskState] /\ runnable' \in Seq(Tasks)
          /\ current' \in Tasks /\ cpuBlocked' \in Blocks
          /\ saved' \in [Tasks -> Block] /\ \A t \in Tasks : saved'[t] \in Blocks
      BY <2>1, <2>2, <2>3, <2>5, <3>1, SwitchToType
    <3> QED BY <1>9, <2>1, <3>2, BlockType, TasksAssumption
         DEF TaskSuspendSelf, WellTyped, TypeOK
  <2> QED BY <2>4, <2>5
<1>10. CASE TaskYield
  <2> DEFINE st == [state EXCEPT ![current] = "RUNNABLE"]
             q == Append(runnable, current)
  <2>1. current \in Tasks
    BY <1>10, BlockType DEF TaskYield, Executing, Stepping, WellTyped, TypeOK
  <2>2. st \in [Tasks -> TaskState] /\ q \in Seq(Tasks) /\ q # <<>>
    BY <2>1, SeqOps DEF WellTyped, TypeOK, TaskState
  <2>3. CASE Head(runnable) = current
    <3>1. Tail(runnable) \in Seq(Tasks)
      BY <1>10, <2>1, SeqOps DEF TaskYield, WellTyped, TypeOK
    <3> QED BY <1>10, <2>3, <3>1 DEF TaskYield, WellTyped, TypeOK
  <2>4. CASE Head(runnable) # current
    <3>1. SwitchTo(st, q)
      BY <1>10, <2>4 DEF TaskYield
    <3> HIDE DEF st, q
    <3>2. /\ state' \in [Tasks -> TaskState] /\ runnable' \in Seq(Tasks)
          /\ current' \in Tasks /\ cpuBlocked' \in Blocks
          /\ saved' \in [Tasks -> Block] /\ \A t \in Tasks : saved'[t] \in Blocks
      BY <2>1, <2>2, <3>1, SwitchToType
    <3> QED BY <1>10, <3>2, BlockType, TasksAssumption DEF TaskYield, WellTyped, TypeOK
  <2> QED BY <2>3, <2>4
<1>11. CASE TaskExit
  <2> DEFINE st == StateAfterExit(current)
  <2>1. current \in Tasks /\ cpuBlocked = NotBlocked
    BY <1>11, BlockType DEF TaskExit, Executing, Stepping, WellTyped, TypeOK
  <2>2. st \in [Tasks -> TaskState]
    BY DEF WellTyped, TypeOK, TaskState, StateAfterExit
  <2>3. /\ waiters' \in [Tasks -> SUBSET Tasks]
        /\ pending' \in [Tasks -> Tasks \cup {NoTask}]
    BY <1>11 DEF TaskExit, ReleaseWaiters, WellTyped, TypeOK
  <2>4. PICK ws \in Orders(Released(current)) :
          IF runnable \o ws # <<>>
            THEN SwitchTo(st, runnable \o ws) /\ UNCHANGED active
            ELSE /\ state' = st
                 /\ IF \E t \in Tasks : st[t] = "BLOCKED"
                      THEN cpuBlocked' = ExitWait /\ UNCHANGED active
                      ELSE active' = FALSE /\ UNCHANGED cpuBlocked
                 /\ UNCHANGED <<runnable, current, saved>>
    BY <1>11 DEF TaskExit
  <2>5. runnable \o ws \in Seq(Tasks)
    <3>1. Released(current) \in SUBSET Tasks
      BY <2>1 DEF Released, WellTyped, TypeOK
    <3> QED BY <3>1, OrdersList, ConcatProperties DEF WellTyped, TypeOK
  <2>6. CASE runnable \o ws # <<>>
    <3> DEFINE q == runnable \o ws
    <3>1. SwitchTo(st, q) /\ UNCHANGED active
      BY <2>4, <2>6
    <3> HIDE DEF st, q
    <3>2. /\ state' \in [Tasks -> TaskState] /\ runnable' \in Seq(Tasks)
          /\ current' \in Tasks /\ cpuBlocked' \in Blocks
          /\ saved' \in [Tasks -> Block] /\ \A t \in Tasks : saved'[t] \in Blocks
      BY <2>1, <2>2, <2>5, <2>6, <3>1, SwitchToType DEF q
    <3> QED BY <1>11, <2>3, <3>1, <3>2, BlockType, TasksAssumption
         DEF TaskExit, WellTyped, TypeOK
  <2>7. CASE runnable \o ws = <<>>
    <3>1. /\ state' = st /\ cpuBlocked' \in Blocks /\ active' \in BOOLEAN
          /\ UNCHANGED <<runnable, current, saved>>
      BY <2>4, <2>7, <2>1, BlockType DEF WellTyped, TypeOK
    <3> HIDE DEF st
    <3> QED BY <1>11, <2>1, <2>2, <2>3, <3>1, BlockType, TasksAssumption
         DEF TaskExit, WellTyped, TypeOK
  <2> QED BY <2>6, <2>7
<1>12. ASSUME NEW t \in Tasks, TaskCreate(t)
      PROVE  WellTyped'
  BY <1>12, BlockType DEF TaskCreate, WellTyped, TypeOK, TaskState, taskVars, trapVars,
     Stepping, Executing, BlockedTick
<1>13. ASSUME NEW t \in Tasks, ObjFreeTask(t)
      PROVE  WellTyped'
  BY <1>13, BlockType DEF ObjFreeTask, WellTyped, TypeOK, TaskState, taskVars, trapVars,
     Stepping, Executing, BlockedTick
<1>14. ASSUME NEW t \in Tasks, TaskResume(t)
      PROVE  WellTyped'
  <2>1. Append(runnable, t) \in Seq(Tasks)
    BY <1>14, SeqOps DEF WellTyped, TypeOK
  <2> QED BY <1>14, <2>1 DEF TaskResume, WellTyped, TypeOK, TaskState
<1>15. ASSUME NEW t \in Tasks, TaskSuspend(t)
      PROVE  WellTyped'
  <2>1. runnable' \in Seq(Tasks)
    BY <1>15, RemoveFirstType DEF TaskSuspend, WellTyped, TypeOK
  <2> QED BY <1>15, <2>1 DEF TaskSuspend, WellTyped, TypeOK, TaskState
<1>16. ASSUME NEW t \in Tasks, TaskKill(t)
      PROVE  WellTyped'
  <2>1. runnable' \in Seq(Tasks)
    <3>1. Released(t) \in SUBSET Tasks
      BY <1>16 DEF Released, WellTyped, TypeOK
    <3>2. RemoveFirst(runnable, t) \in Seq(Tasks) /\ runnable \in Seq(Tasks)
      BY RemoveFirstType DEF WellTyped, TypeOK
    <3> QED BY <1>16, <3>1, <3>2, OrdersList, ConcatProperties DEF TaskKill
  <2>2. /\ waiters' \in [Tasks -> SUBSET Tasks]
        /\ pending' \in [Tasks -> Tasks \cup {NoTask}]
    BY <1>16 DEF TaskKill, ReleaseWaiters, WellTyped, TypeOK
  <2>3. state' \in [Tasks -> TaskState]
    BY <1>16 DEF TaskKill, StateAfterExit, WellTyped, TypeOK, TaskState
  <2> QED BY <1>16, <2>1, <2>2, <2>3, BlockType DEF TaskKill, WellTyped, TypeOK
<1>17. ASSUME NEW t \in Tasks, TaskWait(t)
      PROVE  WellTyped'
  <2> DEFINE st == [state EXCEPT ![current] = "BLOCKED"]
  <2>1. current \in Tasks /\ cpuBlocked = NotBlocked
    BY <1>17, BlockType DEF TaskWait, Executing, Stepping, WellTyped, TypeOK
  <2>2. st \in [Tasks -> TaskState]
    BY DEF WellTyped, TypeOK, TaskState
  <2>3. /\ waiters' \in [Tasks -> SUBSET Tasks]
        /\ pending' \in [Tasks -> Tasks \cup {NoTask}]
    BY <1>17, <2>1 DEF TaskWait, WellTyped, TypeOK
  <2>4. CASE runnable # <<>>
    <3>1. SwitchTo(st, runnable) /\ runnable \in Seq(Tasks)
      BY <1>17, <2>4 DEF TaskWait, WellTyped, TypeOK
    <3> HIDE DEF st
    <3>2. /\ state' \in [Tasks -> TaskState] /\ runnable' \in Seq(Tasks)
          /\ current' \in Tasks /\ cpuBlocked' \in Blocks
          /\ saved' \in [Tasks -> Block] /\ \A u \in Tasks : saved'[u] \in Blocks
      BY <2>1, <2>2, <2>4, <3>1, SwitchToType
    <3> QED BY <1>17, <2>3, <3>2, BlockType, TasksAssumption
         DEF TaskWait, WellTyped, TypeOK
  <2>5. CASE runnable = <<>>
    <3>1. /\ state' = st /\ saved' = [saved EXCEPT ![current] = cpuBlocked]
          /\ current' = NoTask /\ cpuBlocked' = ExitWait /\ runnable' = runnable
      BY <1>17, <2>5 DEF TaskWait
    <3> HIDE DEF st
    <3> QED BY <1>17, <2>1, <2>2, <2>3, <3>1, BlockType
         DEF TaskWait, WellTyped, TypeOK
  <2> QED BY <2>4, <2>5
<1>18. ASSUME NEW q \in Queues, NEW timed \in BOOLEAN, ReceiveQueuePoll(q, timed)
      PROVE  WellTyped'
  <2>1. queue' \in [Queues -> 0..Depth]
    BY <1>18, QueuesAssumption DEF ReceiveQueuePoll, WellTyped, TypeOK
  <2>2. current # NoTask
    BY <1>18, BlockType DEF ReceiveQueuePoll, Executing, Stepping, WellTyped
  <2> QED BY <1>18, <2>1, <2>2, BlockType
       DEF ReceiveQueuePoll, WellTyped, TypeOK, taskVars, trapVars
<1>19. ASSUME NEW S \in SUBSET Queues, NEW timed \in BOOLEAN, WaitAnyQueue(S, timed)
      PROVE  WellTyped'
  BY <1>19, BlockType DEF WaitAnyQueue, WellTyped, TypeOK, TaskState, taskVars, trapVars,
     Stepping, Executing, BlockedTick
<1>20. CASE TimerTrap
  BY <1>20, BlockType DEF TimerTrap, WellTyped, TypeOK, TaskState, taskVars, trapVars,
     Stepping, Executing, BlockedTick
<1>21. CASE HandlerYield
  BY <1>21, BlockType DEF HandlerYield, WellTyped, TypeOK, TaskState, taskVars, trapVars,
     Stepping, Executing, BlockedTick
<1>22. CASE ERET
  <2>1. current \in Tasks
    BY <1>22, BlockType DEF ERET, Stepping, WellTyped, TypeOK
  <2>2. CASE runnable = <<>> \/ Head(runnable) = current
    <3>1. runnable' \in Seq(Tasks)
      BY <1>22, <2>1, <2>2, SeqOps DEF ERET, WellTyped, TypeOK
    <3> QED BY <1>22, <2>1, <2>2, <3>1, TasksAssumption, BlockType
         DEF ERET, WellTyped, TypeOK
  <2>3. CASE ~(runnable = <<>> \/ Head(runnable) = current)
    <3> DEFINE q == Append(runnable, current)
    <3>1. q \in Seq(Tasks) /\ q # <<>>
      BY <2>1, SeqOps DEF WellTyped, TypeOK
    <3>2. /\ state' = [state EXCEPT ![current] = "RUNNABLE", ![Head(q)] = "RUNNING"]
          /\ runnable' = Tail(q) /\ current' = Head(q)
          /\ cpuBlocked' = saved[Head(q)]
          /\ saved' = [saved EXCEPT ![Head(q)] = NotBlocked]
      BY <1>22, <2>3 DEF ERET
    <3> HIDE DEF q
    <3>3. Head(q) \in Tasks /\ Tail(q) \in Seq(Tasks)
      BY <2>1, <3>1, SeqOps
    <3> QED BY <1>22, <2>1, <3>2, <3>3, BlockType, TasksAssumption
         DEF ERET, WellTyped, TypeOK, TaskState
  <2> QED BY <2>2, <2>3
<1>23. CASE UNCHANGED vars
  BY <1>23 DEF vars, WellTyped, TypeOK
<1> QED
  BY <1>1, <1>2, <1>3, <1>4, <1>5, <1>6, <1>7, <1>8, <1>9, <1>10, <1>11, <1>12,
     <1>13, <1>14, <1>15, <1>16, <1>17, <1>18, <1>19, <1>20, <1>21, <1>22, <1>23
  DEF Next, CpuStep

(* Every reachable state is well typed.                                    *)
THEOREM TypeCorrect == Spec => []TypeOK
<1>1. Init => WellTyped
  BY TypeInit
<1>2. WellTyped /\ [Next]_vars => WellTyped'
  BY TypeStep
<1>3. WellTyped => TypeOK
  BY DEF WellTyped
<1> QED BY <1>1, <1>2, <1>3, PTL DEF Spec

-----------------------------------------------------------------------------
(* The run queue and the running task.  The invariant adds to the two      *)
(* properties that no saved blocking record is the exit sentinel, so that  *)
(* a loaded task never inherits it.                                        *)
Runnable == {t \in Tasks : state[t] = "RUNNABLE"}

SchedInv ==
  /\ WellTyped
  /\ Lists(runnable, Runnable)
  /\ CurrentRuns
  /\ \A t \in Tasks : saved[t] # ExitWait

ExitedStays ==
  \A t \in Tasks : state[t] = "EXITED" => state'[t] \in {"EXITED", "NONE"}

(* A run queue that lists the RUNNABLE tasks is exact in the sense of
   RunQueueExact. *)
LEMMA ListsExact == SchedInv => RunQueueExact
<1> SUFFICES ASSUME SchedInv PROVE RunQueueExact
  OBVIOUS
<1>1. runnable \in Seq(Runnable) /\ \A i \in 1..Len(runnable) : runnable[i] \in Runnable
  BY DEF SchedInv, Lists
<1> QED BY <1>1 DEF SchedInv, Lists, RunQueueExact, NoDuplicates, Runnable

(* Only the bootstrap task exists at first, and it is current. *)
LEMMA SchedInit == Init => SchedInv
<1> SUFFICES ASSUME Init PROVE SchedInv
  OBVIOUS
<1>1. Runnable = {} /\ runnable = <<>>
  BY DEF Init, Runnable
<1>2. Lists(runnable, Runnable)
  BY <1>1, EmptySeq DEF Lists
<1> QED BY <1>2, TypeInit, BlockType, TasksAssumption DEF Init, SchedInv, CurrentRuns

(* An instruction is executed by the one RUNNING task.                     *)
LEMMA SteppingRuns ==
  ASSUME SchedInv, Stepping
  PROVE  /\ current \in Tasks /\ state[current] = "RUNNING"
         /\ \A t \in Tasks : state[t] = "RUNNING" => t = current
         /\ cpuBlocked = NotBlocked /\ active
BY BlockType DEF SchedInv, WellTyped, TypeOK, CurrentRuns, Stepping

(* Loading the task at the head of an exact run queue.                     *)
LEMMA SwitchToRuns ==
  ASSUME SchedInv, Stepping, NEW st \in [Tasks -> TaskState], NEW q,
         Lists(q, {t \in Tasks : st[t] = "RUNNABLE"}), q # <<>>,
         \A t \in Tasks : st[t] # "RUNNING",
         SwitchTo(st, q)
  PROVE  /\ Lists(runnable', Runnable')
         /\ CurrentRuns'
         /\ \A t \in Tasks : saved'[t] # ExitWait
         /\ current' \in Tasks /\ st[current'] = "RUNNABLE"
         /\ \A t \in Tasks : t # current' => state'[t] = st[t]
         /\ state'[current'] = "RUNNING"
<1> DEFINE R == {t \in Tasks : st[t] = "RUNNABLE"}
<1>1. Head(q) \in R /\ Lists(Tail(q), R \ {Head(q)})
  BY ListsTail
<1>2. /\ state' = [st EXCEPT ![Head(q)] = "RUNNING"] /\ current' = Head(q)
      /\ runnable' = Tail(q) /\ cpuBlocked' = saved[Head(q)]
      /\ saved' = [saved EXCEPT ![current] = cpuBlocked, ![Head(q)] = NotBlocked]
  BY DEF SwitchTo
<1>3. Runnable' = R \ {Head(q)}
  BY <1>1, <1>2 DEF Runnable
<1>4. \A t \in Tasks : saved'[t] # ExitWait
  BY <1>1, <1>2, SteppingRuns, BlockType DEF SchedInv, WellTyped, TypeOK
<1>5. CurrentRuns'
  BY <1>1, <1>2, TasksAssumption DEF CurrentRuns, SchedInv
<1> QED BY <1>1, <1>2, <1>3, <1>4, <1>5

(* Every step keeps the run queue, the state fields and the current
   task in agreement. *)
LEMMA SchedStep ==
  ASSUME ~LoneSuspend, SchedInv, [Next]_vars
  PROVE  SchedInv' /\ ExitedStays
<1> DEFINE Goal == Lists(runnable', Runnable') /\ CurrentRuns'
                   /\ (\A t \in Tasks : saved'[t] # ExitWait) /\ ExitedStays
<1>0. WellTyped'
  BY TypeStep DEF SchedInv
<1> SUFFICES Goal
  BY <1>0 DEF SchedInv
<1>1. ASSUME NEW q \in Queues, Deliver(q)
      PROVE  Goal
  BY <1>1, BlockType DEF Deliver, SchedInv, WellTyped, TypeOK, CurrentRuns, Runnable, ExitedStays,
     taskVars, trapVars, ExitWait, NotBlocked
<1>2. ASSUME NEW t \in Tasks, Deadline(t)
      PROVE  Goal
  <2>0. ASSUME NEW b \in Block, b.kind = "waitany"
        PROVE  [b EXCEPT !.due = TRUE].kind = "waitany"
    BY <2>0 DEF Block
  <2>1. cpuBlocked' # ExitWait \/ cpuBlocked' = cpuBlocked
    BY <1>2, <2>0 DEF Deadline, SchedInv, WellTyped, TypeOK, ExitWait, NotBlocked
  <2>3. \A u \in Tasks : saved'[u] # ExitWait
    BY <1>2, <2>0 DEF Deadline, SchedInv, WellTyped, TypeOK, ExitWait, NotBlocked
  <2>2. current = NoTask \/ cpuBlocked = ExitWait => cpuBlocked' = cpuBlocked
    BY <1>2 DEF Deadline, SchedInv, WellTyped, TypeOK, CurrentRuns, ExitWait, NotBlocked
  <2> QED BY <1>2, <2>1, <2>2, <2>3
       DEF Deadline, SchedInv, CurrentRuns, Runnable, ExitedStays
<1>3. CASE Wake
  <2>1. PICK ws \in Orders(Woken) : runnable' = ws \o runnable
    BY <1>3 DEF Wake
  <2>2. Woken \in SUBSET Tasks /\ Lists(ws, Woken)
    BY OrdersList DEF Woken
  <2>3. Woken \cap Runnable = {} /\ Runnable' = Woken \cup Runnable
    BY <1>3 DEF Wake, Woken, Runnable
  <2>4. Lists(runnable', Runnable')
    BY <2>1, <2>2, <2>3, ListsConcat DEF SchedInv
  <2>5. \A t \in Tasks : t \notin Woken => state'[t] = state[t]
    BY <1>3 DEF Wake
  <2>6. \A t \in Woken : state[t] = "BLOCKED" /\ state'[t] = "RUNNABLE" /\ t # current
    BY <1>3 DEF Wake, Woken
  <2>7. CurrentRuns'
    BY <1>3, <2>5, <2>6 DEF Wake, SchedInv, CurrentRuns, WellTyped, TypeOK
  <2> QED BY <1>3, <2>4, <2>5, <2>6, <2>7 DEF Wake, SchedInv, ExitedStays
<1>4. CASE Unblock
  <2>1. ~Satisfied(ExitWait)
    BY DEF Satisfied, ExitWait, NotBlocked
  <2>2. current # NoTask /\ state[current] = "RUNNING"
    BY <1>4, <2>1 DEF Unblock, BlockedTick, SchedInv, CurrentRuns
  <2> QED BY <1>4, <2>2, BlockType
       DEF Unblock, SchedInv, CurrentRuns, Runnable, ExitedStays, taskVars, trapVars
<1>5. CASE Expire
  BY <1>5, BlockType DEF Expire, SchedInv, WellTyped, TypeOK, CurrentRuns, Runnable, ExitedStays,
     taskVars, trapVars, ExitWait, NotBlocked
<1>6. CASE SwitchAway
  <2> DEFINE nxt == Head(runnable)
             parks == current # NoTask /\ state[current] # "EXITED"
  <2>1. nxt \in Runnable /\ Lists(Tail(runnable), Runnable \ {nxt})
    BY <1>6, ListsTail DEF SwitchAway, SchedInv
  <2>2. nxt # current /\ nxt \in Tasks /\ state[nxt] = "RUNNABLE"
    BY <2>1, TasksAssumption DEF Runnable, SchedInv, CurrentRuns
  <2>3. /\ state' = [t \in Tasks |-> IF t = nxt THEN "RUNNING"
                                   ELSE IF t = current /\ parks THEN "BLOCKED"
                                   ELSE state[t]]
        /\ saved' = [t \in Tasks |-> IF t = nxt THEN NotBlocked
                                   ELSE IF t = current /\ parks THEN cpuBlocked
                                   ELSE saved[t]]
        /\ current' = nxt /\ cpuBlocked' = saved[nxt] /\ runnable' = Tail(runnable)
    BY <1>6, <2>2 DEF SwitchAway
  <2>4. parks => state[current] = "RUNNING" /\ cpuBlocked # ExitWait
    BY DEF SchedInv, CurrentRuns
  <2> HIDE DEF nxt
  <2>5. Runnable' = Runnable \ {nxt}
    BY <2>2, <2>3, <2>4 DEF Runnable, SchedInv, CurrentRuns
  <2>6. \A t \in Tasks : saved'[t] # ExitWait
    BY <2>2, <2>3, <2>4, BlockType DEF SchedInv
  <2>7. CurrentRuns'
    BY <2>2, <2>3, <2>4, TasksAssumption DEF SchedInv, CurrentRuns
  <2>8. ExitedStays
    BY <2>2, <2>3, <2>4 DEF ExitedStays
  <2> QED BY <2>1, <2>3, <2>5, <2>6, <2>7, <2>8 DEF nxt
<1>7. CASE IdleTick
  BY <1>7, BlockType DEF IdleTick, SchedInv, WellTyped, TypeOK, CurrentRuns, Runnable, ExitedStays,
     taskVars, trapVars, ExitWait, NotBlocked
<1>8. CASE Instruction
  BY <1>8, BlockType DEF Instruction, SchedInv, WellTyped, TypeOK, CurrentRuns, Runnable, ExitedStays,
     taskVars, trapVars, ExitWait, NotBlocked
<1>9. CASE TaskSuspendSelf
  <2> DEFINE st == [state EXCEPT ![current] = "SUSPENDED"]
  <2>1. /\ current \in Tasks /\ state[current] = "RUNNING"
        /\ \A t \in Tasks : state[t] = "RUNNING" => t = current
        /\ Stepping
    BY <1>9, SteppingRuns DEF TaskSuspendSelf
  <2>2. runnable # <<>> /\ SwitchTo(st, runnable)
    BY <1>9, <2>1 DEF TaskSuspendSelf
  <2>3. /\ st \in [Tasks -> TaskState] /\ \A t \in Tasks : st[t] # "RUNNING"
        /\ Runnable = {t \in Tasks : st[t] = "RUNNABLE"}
        /\ \A t \in Tasks : state[t] = "EXITED" => st[t] = "EXITED"
    BY <2>1 DEF SchedInv, WellTyped, TypeOK, TaskState, Runnable
  <2> HIDE DEF st
  <2>4. Lists(runnable, {t \in Tasks : st[t] = "RUNNABLE"})
    BY <2>3 DEF SchedInv
  <2> QED BY <2>1, <2>2, <2>3, <2>4, SwitchToRuns DEF ExitedStays
<1>10. CASE TaskYield
  <2> DEFINE st == [state EXCEPT ![current] = "RUNNABLE"]
             q == Append(runnable, current)
  <2>1. /\ current \in Tasks /\ state[current] = "RUNNING"
        /\ \A t \in Tasks : state[t] = "RUNNING" => t = current
        /\ Stepping
    BY <1>10, SteppingRuns DEF TaskYield, Executing
  <2>2. Head(runnable) \in Runnable
    BY <1>10, ListsTail DEF TaskYield, SchedInv
  <2>3. SwitchTo(st, q)
    BY <1>10, <2>1, <2>2 DEF TaskYield, Runnable
  <2>4. /\ st \in [Tasks -> TaskState] /\ \A t \in Tasks : st[t] # "RUNNING"
        /\ Runnable \cup {current} = {t \in Tasks : st[t] = "RUNNABLE"}
        /\ current \notin Runnable
        /\ \A t \in Tasks : state[t] = "EXITED" => st[t] = "EXITED"
    BY <2>1 DEF SchedInv, WellTyped, TypeOK, TaskState, Runnable
  <2>5. q # <<>>
    BY <2>1, SeqOps DEF SchedInv, WellTyped, TypeOK
  <2> HIDE DEF st
  <2>6. Lists(q, {t \in Tasks : st[t] = "RUNNABLE"})
    BY <2>4, ListsAppend DEF SchedInv
  <2> HIDE DEF q
  <2> QED BY <2>1, <2>3, <2>4, <2>5, <2>6, SwitchToRuns DEF ExitedStays
<1>11. CASE TaskExit
  <2> DEFINE st == StateAfterExit(current)
  <2>1. /\ current \in Tasks /\ state[current] = "RUNNING" /\ Stepping
        /\ \A t \in Tasks : state[t] = "RUNNING" => t = current
        /\ cpuBlocked = NotBlocked
    BY <1>11, SteppingRuns DEF TaskExit, Executing
  <2>2. /\ st \in [Tasks -> TaskState] /\ \A t \in Tasks : st[t] # "RUNNING"
        /\ {t \in Tasks : st[t] = "RUNNABLE"} = Runnable \cup Released(current)
        /\ Runnable \cap Released(current) = {} /\ Released(current) \in SUBSET Tasks
        /\ st[current] = "EXITED"
        /\ \A t \in Tasks : state[t] = "EXITED" => st[t] = "EXITED"
    BY <2>1 DEF StateAfterExit, Released, SchedInv, WellTyped, TypeOK, TaskState, Runnable
  <2>3. PICK ws \in Orders(Released(current)) :
          IF runnable \o ws # <<>>
            THEN SwitchTo(st, runnable \o ws) /\ UNCHANGED active
            ELSE /\ state' = st
                 /\ IF \E t \in Tasks : st[t] = "BLOCKED"
                      THEN cpuBlocked' = ExitWait /\ UNCHANGED active
                      ELSE active' = FALSE /\ UNCHANGED cpuBlocked
                 /\ UNCHANGED <<runnable, current, saved>>
    BY <1>11 DEF TaskExit
  <2> DEFINE q == runnable \o ws
  <2> HIDE DEF st
  <2>4. Lists(q, {t \in Tasks : st[t] = "RUNNABLE"})
    BY <2>2, OrdersList, ListsConcat DEF SchedInv
  <2>5. CASE q # <<>>
    <3>1. SwitchTo(st, q)
      BY <2>3, <2>5
    <3> HIDE DEF q
    <3> QED BY <2>1, <2>2, <2>4, <2>5, <3>1, SwitchToRuns DEF ExitedStays
  <2>6. CASE q = <<>>
    <3>1. /\ state' = st /\ UNCHANGED <<runnable, current, saved>>
          /\ cpuBlocked' = ExitWait \/ ~active'
      BY <2>3, <2>6
    <3>2. {t \in Tasks : st[t] = "RUNNABLE"} = {}
      BY <2>4, <2>6, ListsEmpty
    <3>3. Runnable' = {} /\ Runnable = {}
      BY <2>2, <3>1, <3>2 DEF Runnable
    <3>4. CurrentRuns'
      BY <2>1, <2>2, <3>1, TasksAssumption DEF CurrentRuns
    <3> QED BY <2>2, <3>1, <3>3, <3>4 DEF SchedInv, ExitedStays
  <2> QED BY <2>5, <2>6
<1>12. ASSUME NEW t \in Tasks, TaskCreate(t)
      PROVE  Goal
  <2>1. /\ current \in Tasks /\ state[current] = "RUNNING"
        /\ cpuBlocked = NotBlocked
    BY <1>12, SteppingRuns DEF TaskCreate, Executing
  <2>2. Runnable' = Runnable
    BY <1>12 DEF TaskCreate, Runnable, SchedInv, WellTyped, TypeOK
  <2> QED BY <1>12, <2>1, <2>2, BlockType, TasksAssumption
       DEF TaskCreate, SchedInv, WellTyped, TypeOK, CurrentRuns, ExitedStays
<1>13. ASSUME NEW t \in Tasks, ObjFreeTask(t)
      PROVE  Goal
  <2>1. /\ current \in Tasks /\ state[current] = "RUNNING"
        /\ cpuBlocked = NotBlocked
    BY <1>13, SteppingRuns DEF ObjFreeTask, Executing
  <2>2. Runnable' = Runnable
    BY <1>13 DEF ObjFreeTask, Runnable, SchedInv, WellTyped, TypeOK
  <2> QED BY <1>13, <2>1, <2>2, BlockType, TasksAssumption
       DEF ObjFreeTask, SchedInv, WellTyped, TypeOK, CurrentRuns, ExitedStays
<1>14. ASSUME NEW t \in Tasks, TaskResume(t)
      PROVE  Goal
  <2>1. current \in Tasks /\ state[current] = "RUNNING"
    BY <1>14, SteppingRuns DEF TaskResume, Executing
  <2>2. t \notin Runnable /\ Runnable' = Runnable \cup {t}
    BY <1>14 DEF TaskResume, Runnable, SchedInv, WellTyped, TypeOK
  <2>3. Lists(runnable', Runnable')
    BY <1>14, <2>2, ListsAppend DEF TaskResume, SchedInv
  <2> QED BY <1>14, <2>1, <2>3, TasksAssumption
       DEF TaskResume, SchedInv, WellTyped, TypeOK, CurrentRuns, ExitedStays
<1>15. ASSUME NEW t \in Tasks, TaskSuspend(t)
      PROVE  Goal
  <2>1. current \in Tasks /\ state[current] = "RUNNING"
    BY <1>15, SteppingRuns DEF TaskSuspend, Executing
  <2>2. Runnable' = Runnable \ {t} /\ (t \in Runnable <=> state[t] = "RUNNABLE")
    BY <1>15 DEF TaskSuspend, Runnable, SchedInv, WellTyped, TypeOK
  <2>3. Lists(runnable', Runnable')
    BY <1>15, <2>2, ListsRemoveFirst DEF TaskSuspend, SchedInv
  <2> QED BY <1>15, <2>1, <2>3, TasksAssumption
       DEF TaskSuspend, SchedInv, WellTyped, TypeOK, CurrentRuns, ExitedStays
<1>16. ASSUME NEW t \in Tasks, TaskKill(t)
      PROVE  Goal
  <2>1. /\ current \in Tasks /\ state[current] = "RUNNING" /\ cpuBlocked = NotBlocked
    BY <1>16, SteppingRuns DEF TaskKill, Executing
  <2> DEFINE q == IF state[t] = "RUNNABLE" THEN RemoveFirst(runnable, t) ELSE runnable
  <2>2. Lists(q, Runnable \ {t})
    <3>1. t \in Runnable <=> state[t] = "RUNNABLE"
      BY <1>16 DEF Runnable
    <3> QED BY <3>1, ListsRemoveFirst DEF SchedInv
  <2>3. PICK ws \in Orders(Released(t)) : runnable' = q \o ws
    BY <1>16 DEF TaskKill
  <2>4. Released(t) \in SUBSET Tasks /\ (Runnable \ {t}) \cap Released(t) = {}
    BY <1>16 DEF Released, Runnable, SchedInv, WellTyped, TypeOK
  <2>5. Runnable' = (Runnable \ {t}) \cup Released(t)
    BY <1>16, <2>4 DEF TaskKill, StateAfterExit, Released, Runnable
  <2>6. Lists(runnable', Runnable')
    <3> HIDE DEF q
    <3> QED BY <2>2, <2>3, <2>4, <2>5, OrdersList, ListsConcat
  <2>7. ExitedStays
    BY <1>16 DEF TaskKill, StateAfterExit, Released, ExitedStays
  <2>8. CurrentRuns'
    BY <1>16, <2>1, TasksAssumption
    DEF TaskKill, StateAfterExit, Released, SchedInv, CurrentRuns, WellTyped, TypeOK
  <2> QED BY <1>16, <2>6, <2>7, <2>8, BlockType
       DEF TaskKill, SchedInv, WellTyped, TypeOK
<1>17. ASSUME NEW t \in Tasks, TaskWait(t)
      PROVE  Goal
  <2> DEFINE st == [state EXCEPT ![current] = "BLOCKED"]
  <2>1. /\ current \in Tasks /\ state[current] = "RUNNING" /\ Stepping
        /\ \A u \in Tasks : state[u] = "RUNNING" => u = current
        /\ cpuBlocked = NotBlocked
    BY <1>17, SteppingRuns DEF TaskWait, Executing
  <2>2. /\ st \in [Tasks -> TaskState] /\ \A u \in Tasks : st[u] # "RUNNING"
        /\ Runnable = {u \in Tasks : st[u] = "RUNNABLE"}
        /\ \A u \in Tasks : state[u] = "EXITED" => st[u] = "EXITED"
    BY <2>1 DEF SchedInv, WellTyped, TypeOK, TaskState, Runnable
  <2> HIDE DEF st
  <2>3. Lists(runnable, {u \in Tasks : st[u] = "RUNNABLE"})
    BY <2>2 DEF SchedInv
  <2>4. CASE runnable # <<>>
    <3>1. SwitchTo(st, runnable)
      BY <1>17, <2>4 DEF TaskWait, st
    <3> QED BY <2>1, <2>2, <2>3, <2>4, <3>1, SwitchToRuns DEF ExitedStays
  <2>5. CASE runnable = <<>>
    <3>1. /\ state' = st /\ saved' = [saved EXCEPT ![current] = cpuBlocked]
          /\ current' = NoTask /\ cpuBlocked' = ExitWait /\ runnable' = runnable
      BY <1>17, <2>5 DEF TaskWait, st
    <3>2. Runnable' = Runnable
      BY <2>2, <3>1 DEF Runnable
    <3> QED BY <2>1, <2>2, <3>1, <3>2, BlockType
         DEF SchedInv, WellTyped, TypeOK, CurrentRuns, ExitedStays
  <2> QED BY <2>4, <2>5
<1>18. ASSUME NEW q \in Queues, NEW timed \in BOOLEAN, ReceiveQueuePoll(q, timed)
      PROVE  Goal
  <2>1. /\ current \in Tasks /\ state[current] = "RUNNING" /\ cpuBlocked # ExitWait
        /\ cpuBlocked' # ExitWait
    BY <1>18, SteppingRuns, BlockType
       DEF ReceiveQueuePoll, Executing, ExitWait, OnQueue, OnAnyQueue, NotBlocked
  <2> QED BY <1>18, <2>1, TasksAssumption
       DEF ReceiveQueuePoll, SchedInv, CurrentRuns, Runnable, ExitedStays, taskVars, trapVars
<1>19. ASSUME NEW S \in SUBSET Queues, NEW timed \in BOOLEAN, WaitAnyQueue(S, timed)
      PROVE  Goal
  <2>1. /\ current \in Tasks /\ state[current] = "RUNNING" /\ cpuBlocked # ExitWait
        /\ cpuBlocked' # ExitWait
    BY <1>19, SteppingRuns, BlockType
       DEF WaitAnyQueue, Executing, ExitWait, OnQueue, OnAnyQueue, NotBlocked
  <2> QED BY <1>19, <2>1, TasksAssumption
       DEF WaitAnyQueue, SchedInv, CurrentRuns, Runnable, ExitedStays, taskVars, trapVars
<1>20. CASE TimerTrap
  <2>1. current \in Tasks /\ cpuBlocked = NotBlocked
    BY <1>20, SteppingRuns DEF TimerTrap
  <2> QED BY <1>20, <2>1, BlockType
       DEF TimerTrap, SchedInv, WellTyped, TypeOK, CurrentRuns, Runnable, ExitedStays
<1>21. CASE HandlerYield
  BY <1>21, BlockType DEF HandlerYield, SchedInv, WellTyped, TypeOK, CurrentRuns, Runnable, ExitedStays,
     taskVars, trapVars, ExitWait, NotBlocked
<1>22. CASE ERET
  <2> DEFINE q == Append(runnable, current)
  <2>1. /\ current \in Tasks /\ state[current] = "RUNNING" /\ cpuBlocked = NotBlocked
        /\ \A t \in Tasks : state[t] = "RUNNING" => t = current
    BY <1>22, SteppingRuns DEF ERET
  <2>2. CASE runnable = <<>>
    BY <1>22, <2>1, <2>2, TasksAssumption
    DEF ERET, SchedInv, CurrentRuns, Runnable, ExitedStays
  <2>3. CASE runnable # <<>>
    <3>1. Head(runnable) \in Runnable
      BY <2>3, ListsTail DEF SchedInv
    <3>2. /\ state' = [state EXCEPT ![current] = "RUNNABLE", ![Head(q)] = "RUNNING"]
          /\ runnable' = Tail(q) /\ current' = Head(q)
          /\ cpuBlocked' = saved[Head(q)]
          /\ saved' = [saved EXCEPT ![Head(q)] = NotBlocked]
      BY <1>22, <2>1, <2>3, <3>1 DEF ERET, Runnable
    <3>3. Lists(q, Runnable \cup {current}) /\ q # <<>>
      <4>1. current \notin Runnable
        BY <2>1 DEF Runnable
      <4>2. q # <<>>
        BY <2>1, SeqOps DEF SchedInv, WellTyped, TypeOK
      <4> QED BY <4>1, <4>2, ListsAppend DEF SchedInv
    <3> HIDE DEF q
    <3>4. /\ Head(q) \in Runnable \cup {current}
          /\ Lists(Tail(q), (Runnable \cup {current}) \ {Head(q)})
      BY <3>3, ListsTail
    <3>5. Runnable' = (Runnable \cup {current}) \ {Head(q)}
      BY <2>1, <3>2, <3>4 DEF Runnable, SchedInv, WellTyped, TypeOK
    <3>6. \A t \in Tasks : saved'[t] # ExitWait
      BY <3>2, BlockType DEF SchedInv, WellTyped, TypeOK
    <3>7. CurrentRuns'
      BY <2>1, <3>2, <3>4, TasksAssumption
      DEF CurrentRuns, SchedInv, WellTyped, TypeOK, Runnable
    <3>8. ExitedStays
      BY <2>1, <3>2, <3>4 DEF ExitedStays, SchedInv, WellTyped, TypeOK, Runnable
    <3> QED BY <3>2, <3>4, <3>5, <3>6, <3>7, <3>8
  <2> QED BY <2>2, <2>3
<1>23. CASE UNCHANGED vars
  BY <1>23 DEF vars, SchedInv, WellTyped, TypeOK, CurrentRuns, Runnable, ExitedStays,
     taskVars, trapVars
<1> QED
  BY <1>1, <1>2, <1>3, <1>4, <1>5, <1>6, <1>7, <1>8, <1>9, <1>10, <1>11, <1>12,
     <1>13, <1>14, <1>15, <1>16, <1>17, <1>18, <1>19, <1>20, <1>21, <1>22, <1>23
  DEF Next, CpuStep

(* What the run queue, the running task and exited tasks keep, when no     *)
(* program suspends itself with nothing else runnable.                     *)
LEMMA SchedCorrect == ASSUME ~LoneSuspend PROVE Spec => []SchedInv
<1>1. Init => SchedInv
  BY SchedInit
<1>2. SchedInv /\ [Next]_vars => SchedInv'
  BY SchedStep
<1> QED BY <1>1, <1>2, PTL DEF Spec

(* cpu.runnable holds exactly the RUNNABLE tasks, each once; at most one   *)
(* task runs, and nothing executes without a running task.                 *)
THEOREM ScheduleCorrect == ASSUME ~LoneSuspend PROVE Spec => []Scheduled
<1>1. SchedInv => Scheduled
  BY ListsExact DEF SchedInv, Scheduled
<1> QED BY <1>1, SchedCorrect, PTL

(* A terminated task never runs again.                                     *)
THEOREM ExitedForGood == ASSUME ~LoneSuspend PROVE Spec => ExitedIsFinal
<1>1. SchedInv /\ [Next]_vars => [ExitedStays]_vars
  BY SchedStep
<1>2. ExitedStays => \A t \in Tasks : state[t] = "EXITED" => state'[t] \in {"EXITED", "NONE"}
  BY DEF ExitedStays
<1> QED BY <1>1, <1>2, SchedCorrect, PTL DEF Spec, ExitedIsFinal

-----------------------------------------------------------------------------
(* Round robin.  The list operations keep the order of what was listed:    *)
(* nothing gets ahead of an element of q on the way from q to r.           *)
KeepsOrder(q, r) ==
  \A t, u \in Tasks :
    (\E i \in 1..Len(q) : q[i] = t) /\ Ahead(r, u, t) => Ahead(q, u, t)

(* list.pop(0).                                                            *)
LEMMA OrderTail ==
  ASSUME NEW q, NEW r \in Seq(Tasks), r # <<>>, KeepsOrder(q, r)
  PROVE  KeepsOrder(q, Tail(r))
<1>1. /\ Len(r) \in Nat /\ Len(Tail(r)) = Len(r) - 1
      /\ \A i \in 1..Len(Tail(r)) : Tail(r)[i] = r[i + 1]
  BY HeadTailProperties
<1>2. ASSUME NEW t \in Tasks, NEW u \in Tasks, Ahead(Tail(r), u, t)
      PROVE  Ahead(r, u, t)
  <2>1. PICK i, j \in 1..Len(Tail(r)) : i < j /\ Tail(r)[i] = u /\ Tail(r)[j] = t
    BY <1>2 DEF Ahead
  <2>2. /\ i + 1 \in 1..Len(r) /\ j + 1 \in 1..Len(r) /\ i + 1 < j + 1
        /\ r[i + 1] = u /\ r[j + 1] = t
    BY <1>1, <2>1
  <2> QED BY <2>2 DEF Ahead
<1> QED BY <1>2 DEF KeepsOrder

(* Concatenation with a list of elements that are not in q.                *)
LEMMA OrderConcat ==
  ASSUME NEW q \in Seq(Tasks), NEW r \in Seq(Tasks), NEW ws \in Seq(Tasks),
         KeepsOrder(q, r),
         \A i \in 1..Len(q), j \in 1..Len(ws) : q[i] # ws[j]
  PROVE  KeepsOrder(q, r \o ws)
<1>1. /\ Len(r) \in Nat /\ Len(ws) \in Nat /\ Len(r \o ws) = Len(r) + Len(ws)
      /\ \A i \in 1..Len(r \o ws) :
           (r \o ws)[i] = IF i <= Len(r) THEN r[i] ELSE ws[i - Len(r)]
  BY LenProperties, ConcatProperties
<1> SUFFICES ASSUME NEW t \in Tasks, NEW u \in Tasks, NEW k \in 1..Len(q), q[k] = t,
                    Ahead(r \o ws, u, t)
             PROVE  Ahead(r, u, t)
  BY DEF KeepsOrder
<1>2. PICK i, j \in 1..Len(r \o ws) : i < j /\ (r \o ws)[i] = u /\ (r \o ws)[j] = t
  BY DEF Ahead
<1>3. j <= Len(r)
  <2> SUFFICES ASSUME j > Len(r) PROVE FALSE
    BY <1>1, <1>2
  <2>1. j - Len(r) \in 1..Len(ws) /\ ws[j - Len(r)] = t
    BY <1>1, <1>2
  <2> QED BY <2>1
<1>4. i \in 1..Len(r) /\ j \in 1..Len(r) /\ i < j /\ r[i] = u /\ r[j] = t
  BY <1>1, <1>2, <1>3
<1> QED BY <1>4 DEF Ahead

(* list.append of something that is not in q.                              *)
LEMMA OrderAppend ==
  ASSUME NEW q \in Seq(Tasks), NEW x \in Tasks, \A i \in 1..Len(q) : q[i] # x
  PROVE  KeepsOrder(q, Append(q, x))
<1>1. /\ Len(q) \in Nat /\ Len(Append(q, x)) = Len(q) + 1
      /\ \A i \in 1..Len(Append(q, x)) :
           Append(q, x)[i] = IF i <= Len(q) THEN q[i] ELSE x
  BY LenProperties, AppendProperties
<1> SUFFICES ASSUME NEW t \in Tasks, NEW u \in Tasks, NEW k \in 1..Len(q), q[k] = t,
                    Ahead(Append(q, x), u, t)
             PROVE  Ahead(q, u, t)
  BY DEF KeepsOrder
<1>2. PICK i, j \in 1..Len(Append(q, x)) :
        i < j /\ Append(q, x)[i] = u /\ Append(q, x)[j] = t
  BY DEF Ahead
<1>3. i \in 1..Len(q) /\ j \in 1..Len(q) /\ i < j /\ q[i] = u /\ q[j] = t
  BY <1>1, <1>2
<1> QED BY <1>3 DEF Ahead

(* list.remove.                                                            *)
LEMMA OrderRemove ==
  ASSUME NEW q \in Seq(Tasks), NEW x
  PROVE  KeepsOrder(q, RemoveFirst(q, x))
<1>1. CASE RemoveFirst(q, x) = q
  BY <1>1 DEF KeepsOrder
<1>2. CASE \E k \in 1..Len(q) : RemoveFirst(q, x) = RemoveAt(q, k)
  <2>1. PICK k \in 1..Len(q) : RemoveFirst(q, x) = RemoveAt(q, k)
    BY <1>2
  <2> DEFINE r == RemoveAt(q, k)
  <2>2. /\ Len(q) \in Nat /\ Len(r) = Len(q) - 1
        /\ \A j \in 1..(Len(q) - 1) : r[j] = IF j < k THEN q[j] ELSE q[j + 1]
    BY LenProperties, RemoveAtProperties
  <2> HIDE DEF r
  <2>3. ASSUME NEW t \in Tasks, NEW u \in Tasks, Ahead(r, u, t)
        PROVE  Ahead(q, u, t)
    <3>1. PICK i, j \in 1..Len(r) : i < j /\ r[i] = u /\ r[j] = t
      BY <2>3 DEF Ahead
    <3> DEFINE a == IF i < k THEN i ELSE i + 1
               b == IF j < k THEN j ELSE j + 1
    <3>2. a \in 1..Len(q) /\ b \in 1..Len(q) /\ a < b
      BY <2>2, <3>1
    <3>3. q[a] = u /\ q[b] = t
      BY <2>2, <3>1
    <3> QED BY <3>2, <3>3 DEF Ahead
  <2> QED BY <2>1, <2>3 DEF KeepsOrder, r
<1> QED BY <1>1, <1>2, RemoveFirstAt

(* What is released or parked is not RUNNABLE: it is not in the queue.     *)
LEMMA NotQueued ==
  ASSUME SchedInv, NEW t \in Tasks, state[t] # "RUNNABLE"
  PROVE  \A i \in 1..Len(runnable) : runnable[i] # t
BY DEF SchedInv, Lists, Runnable

LEMMA OrderReleased ==
  ASSUME SchedInv, NEW x \in Tasks, NEW ws \in Orders(Released(x)),
         NEW r \in Seq(Tasks), KeepsOrder(runnable, r)
  PROVE  r \o ws \in Seq(Tasks) /\ KeepsOrder(runnable, r \o ws)
<1>1. Released(x) \in SUBSET Tasks /\ \A w \in Released(x) : state[w] = "BLOCKED"
  BY DEF Released, SchedInv, WellTyped, TypeOK
<1>2. Lists(ws, Released(x)) /\ ws \in Seq(Tasks)
  BY <1>1, OrdersList
<1>3. \A i \in 1..Len(runnable), j \in 1..Len(ws) : runnable[i] # ws[j]
  BY <1>1, <1>2, NotQueued DEF Lists
<1>4. runnable \in Seq(Tasks)
  BY DEF SchedInv, WellTyped, TypeOK
<1> QED BY <1>2, <1>3, <1>4, OrderConcat, ConcatProperties

(* Every step of the processor keeps the order of the run queue.           *)
LEMMA OrderStep ==
  ASSUME ~LoneSuspend, SchedInv, phase = "cpu", [Next]_vars
  PROVE  KeepsOrder(runnable, runnable')
<1> DEFINE Goal == KeepsOrder(runnable, runnable')
<1>0. runnable \in Seq(Tasks) /\ KeepsOrder(runnable, runnable)
  BY DEF SchedInv, WellTyped, TypeOK, KeepsOrder
<1>1. ASSUME UNCHANGED runnable PROVE Goal
  BY <1>0, <1>1
<1>2. ASSUME runnable # <<>>, runnable' = Tail(runnable) PROVE Goal
  BY <1>0, <1>2, OrderTail
<1>3. ASSUME NEW c \in Tasks, state[c] # "RUNNABLE"
      PROVE  /\ Append(runnable, c) \in Seq(Tasks) /\ Append(runnable, c) # <<>>
             /\ KeepsOrder(runnable, Append(runnable, c))
             /\ KeepsOrder(runnable, Tail(Append(runnable, c)))
  <2>1. KeepsOrder(runnable, Append(runnable, c))
    BY <1>0, <1>3, NotQueued, OrderAppend
  <2>2. Append(runnable, c) \in Seq(Tasks) /\ Append(runnable, c) # <<>>
    BY <1>0, SeqOps
  <2> QED BY <2>1, <2>2, OrderTail
<1>4. CASE \/ Unblock \/ Expire \/ IdleTick \/ Instruction \/ TimerTrap \/ HandlerYield
           \/ \E t \in Tasks : TaskCreate(t) \/ ObjFreeTask(t)
           \/ \E q \in Queues, timed \in BOOLEAN : ReceiveQueuePoll(q, timed)
           \/ \E S \in SUBSET Queues, timed \in BOOLEAN : WaitAnyQueue(S, timed)
           \/ UNCHANGED vars
  BY <1>1, <1>4
  DEF Unblock, Expire, IdleTick, Instruction, TimerTrap, HandlerYield, TaskCreate,
      ObjFreeTask, ReceiveQueuePoll, WaitAnyQueue, vars, taskVars
<1>5. CASE SwitchAway
  BY <1>2, <1>5 DEF SwitchAway
<1>6. CASE TaskSuspendSelf
  <2>1. current \in Tasks /\ state[current] = "RUNNING"
    BY <1>6, SteppingRuns DEF TaskSuspendSelf
  <2>2. runnable # <<>> /\ SwitchTo([state EXCEPT ![current] = "SUSPENDED"], runnable)
    BY <1>6, <2>1 DEF TaskSuspendSelf
  <2> QED BY <1>2, <2>2 DEF SwitchTo
<1>7. CASE TaskYield
  <2>1. current \in Tasks /\ state[current] = "RUNNING"
    BY <1>7, SteppingRuns DEF TaskYield, Executing
  <2>2. runnable' = Tail(runnable) \/ runnable' = Tail(Append(runnable, current))
    BY <1>7 DEF TaskYield, SwitchTo
  <2> QED BY <1>2, <1>3, <1>7, <2>1, <2>2 DEF TaskYield
<1>8. CASE TaskExit
  <2>1. current \in Tasks
    BY <1>8, SteppingRuns DEF TaskExit, Executing
  <2>2. PICK ws \in Orders(Released(current)) :
          \/ runnable \o ws # <<>> /\ runnable' = Tail(runnable \o ws)
          \/ UNCHANGED runnable
    BY <1>8 DEF TaskExit, SwitchTo
  <2>3. runnable \o ws \in Seq(Tasks) /\ KeepsOrder(runnable, runnable \o ws)
    BY <1>0, <2>1, OrderReleased
  <2> QED BY <1>1, <2>2, <2>3, OrderTail
<1>9. ASSUME NEW t \in Tasks, TaskResume(t) PROVE Goal
  BY <1>3, <1>9 DEF TaskResume
<1>10. ASSUME NEW t \in Tasks, TaskSuspend(t) PROVE Goal
  BY <1>0, <1>10, OrderRemove DEF TaskSuspend
<1>11. ASSUME NEW t \in Tasks, TaskKill(t) PROVE Goal
  <2> DEFINE q == IF state[t] = "RUNNABLE" THEN RemoveFirst(runnable, t) ELSE runnable
  <2>1. q \in Seq(Tasks) /\ KeepsOrder(runnable, q)
    BY <1>0, OrderRemove, RemoveFirstType
  <2>2. \E ws \in Orders(Released(t)) : runnable' = q \o ws
    BY <1>11 DEF TaskKill
  <2> HIDE DEF q
  <2> QED BY <2>1, <2>2, OrderReleased
<1>12. ASSUME NEW t \in Tasks, TaskWait(t) PROVE Goal
  <2>1. UNCHANGED runnable \/ (runnable # <<>> /\ runnable' = Tail(runnable))
    BY <1>12 DEF TaskWait, SwitchTo
  <2> QED BY <1>1, <1>2, <2>1
<1>13. CASE ERET
  <2>1. current \in Tasks /\ state[current] = "RUNNING"
    BY <1>13, SteppingRuns DEF ERET
  <2>2. \/ UNCHANGED runnable
        \/ (runnable # <<>> /\ runnable' = Tail(runnable))
        \/ runnable' = Tail(Append(runnable, current))
    BY <1>13 DEF ERET
  <2> QED BY <1>1, <1>2, <1>3, <2>1, <2>2
<1>14. ~Wake /\ (\A q \in Queues : ~Deliver(q)) /\ (\A t \in Tasks : ~Deadline(t))
  BY DEF Wake, Deliver, Deadline
<1> QED
  BY <1>4, <1>5, <1>6, <1>7, <1>8, <1>9, <1>10, <1>11, <1>12, <1>13, <1>14
  DEF Next, CpuStep

(* Outside a wake-up nothing enters the run queue ahead of a task that is  *)
(* in it: yields, preemptions, resumptions and released waiters go to the  *)
(* back, whatever else is taken out in the same step.                      *)
THEOREM RoundRobin == ASSUME ~LoneSuspend PROVE Spec => NoOvertaking
<1> DEFINE InOrder ==
      phase = "cpu" =>
        \A t, u \in Tasks :
          /\ \E i \in 1..Len(runnable) : runnable[i] = t
          /\ Ahead(runnable', u, t)
          => Ahead(runnable, u, t)
<1>1. SchedInv /\ [Next]_vars => [InOrder]_vars
  BY OrderStep DEF KeepsOrder
<1> QED BY <1>1, SchedCorrect, PTL DEF Spec, NoOvertaking

-----------------------------------------------------------------------------
(* TaskWait.  A waiter and its target point at each other: the waiter is   *)
(* BLOCKED with the live target in pending and no blocking record, and is  *)
(* in the target's waiters list, where no other live task is.              *)
PendingInv ==
  \A t \in Tasks : pending[t] # NoTask =>
    /\ state[t] = "BLOCKED" /\ saved[t] = NotBlocked
    /\ t \in waiters[pending[t]]
    /\ state[pending[t]] \notin {"NONE", "EXITED"}
WaitersInv ==
  \A x \in Tasks : \A w \in waiters[x] :
    state[w] = "EXITED" \/ pending[w] = x
QueueBlock == {b \in Block : b.kind \in {"poll", "waitany"}}
ParkedInv ==
  \A t \in Tasks : state[t] = "BLOCKED" /\ pending[t] = NoTask => saved[t] \in QueueBlock
KindsInv ==
  /\ cpuBlocked \in QueueBlock \cup {NotBlocked, ExitWait}
  /\ \A t \in Tasks : saved[t] \in QueueBlock \cup {NotBlocked}

WaitInv == SchedInv /\ PendingInv /\ WaitersInv /\ ParkedInv /\ KindsInv

(* The blocks of ReceiveQueuePoll and WaitAnyQueue wait for a queue. *)
LEMMA QueueBlocks ==
  /\ NotBlocked \notin QueueBlock /\ ExitWait \notin QueueBlock
  /\ ~Satisfied(NotBlocked)
  /\ \A q \in Queues, timed \in BOOLEAN : OnQueue(q, timed) \in QueueBlock
  /\ \A S \in SUBSET Queues, timed \in BOOLEAN : OnAnyQueue(S, timed) \in QueueBlock
  /\ \A b \in Block : b.kind = "waitany" => [b EXCEPT !.due = TRUE] \in QueueBlock
BY DEF Block, NotBlocked, ExitWait, OnQueue, OnAnyQueue, QueueBlock, Satisfied

(* No task waits at first. *)
LEMMA WaitInit == Init => WaitInv
<1> SUFFICES ASSUME Init PROVE WaitInv
  OBVIOUS
<1>1. SchedInv
  BY SchedInit
<1>2. PendingInv /\ WaitersInv /\ ParkedInv /\ KindsInv
  BY DEF Init, PendingInv, WaitersInv, ParkedInv, KindsInv
<1> QED BY <1>1, <1>2 DEF WaitInv

(* The invariant gives both properties.                                    *)
LEMMA WaitImplies == WaitInv => WaitReturnsAfterExit /\ NoLostWaiter
BY DEF WaitInv, PendingInv, ParkedInv, WaitReturnsAfterExit, NoLostWaiter, QueueBlock

(* The tasks x releases are exactly those that wait for it.                *)
LEMMA ReleasedWait ==
  ASSUME WaitInv, NEW x \in Tasks
  PROVE  /\ \A w \in Released(x) : w \in Tasks /\ w # x /\ state[w] = "BLOCKED" /\ pending[w] = x
         /\ \A w \in Tasks : pending[w] = x /\ w # x => w \in Released(x)
BY TasksAssumption DEF WaitInv, SchedInv, WellTyped, TypeOK, WaitersInv, PendingInv, Released

(* Loading a runnable task leaves every waiter as it is.                   *)
LEMMA SwitchToWaits ==
  ASSUME WaitInv, Stepping, NEW st \in [Tasks -> TaskState], NEW q,
         Lists(q, {t \in Tasks : st[t] = "RUNNABLE"}), q # <<>>,
         SwitchTo(st, q)
  PROVE  /\ KindsInv'
         /\ \E h \in Tasks : /\ st[h] = "RUNNABLE"
                              /\ state' = [st EXCEPT ![h] = "RUNNING"]
                              /\ saved' = [saved EXCEPT ![current] = NotBlocked, ![h] = NotBlocked]
<1>1. Head(q) \in {t \in Tasks : st[t] = "RUNNABLE"}
  BY ListsTail
<1>2. current \in Tasks /\ cpuBlocked = NotBlocked
  BY SteppingRuns DEF WaitInv
<1>3. /\ state' = [st EXCEPT ![Head(q)] = "RUNNING"]
      /\ saved' = [saved EXCEPT ![current] = NotBlocked, ![Head(q)] = NotBlocked]
      /\ cpuBlocked' = saved[Head(q)]
  BY <1>2 DEF SwitchTo
<1>4. KindsInv'
  BY <1>1, <1>3 DEF WaitInv, KindsInv, SchedInv, WellTyped, TypeOK
<1> QED BY <1>1, <1>3, <1>4

(* Every step keeps each TaskWait registered with its live target. *)
LEMMA WaitStep ==
  ASSUME ~LoneSuspend, ~DisturbWaiters, WaitInv, [Next]_vars
  PROVE  WaitInv'
<1> DEFINE Goal == PendingInv' /\ WaitersInv' /\ ParkedInv' /\ KindsInv'
<1>0. SchedInv' /\ SchedInv /\ WellTyped /\ TypeOK /\ WellTyped'
  BY SchedStep DEF WaitInv, SchedInv, WellTyped
<1> SUFFICES Goal
  BY <1>0 DEF WaitInv
<1>1. ASSUME NEW q \in Queues, Deliver(q)
      PROVE  Goal
  BY <1>1 DEF Deliver, WaitInv, PendingInv, WaitersInv, ParkedInv, KindsInv, taskVars, trapVars
<1>2. ASSUME NEW t \in Tasks, Deadline(t)
      PROVE  Goal
  <2>1. UNCHANGED <<state, pending, waiters>>
    BY <1>2 DEF Deadline
  <2>2. \A u \in Tasks : \/ saved'[u] = saved[u]
                         \/ saved[u] # NotBlocked /\ saved'[u] \in QueueBlock
    <3>1. ASSUME saved[t].kind = "waitany", saved' = [saved EXCEPT ![t].due = TRUE]
          PROVE  saved[t] # NotBlocked /\ saved'[t] \in QueueBlock
      BY <1>0, <3>1, QueueBlocks DEF TypeOK, NotBlocked
    <3> QED BY <1>0, <1>2, <3>1 DEF Deadline, TypeOK
  <2>3. KindsInv'
    BY <1>0, <1>2, <2>2, QueueBlocks DEF Deadline, WaitInv, KindsInv, TypeOK
  <2> QED BY <2>1, <2>2, <2>3 DEF WaitInv, PendingInv, WaitersInv, ParkedInv
<1>3. CASE Wake
  <2>1. \A t \in Woken : state[t] = "BLOCKED" /\ pending[t] = NoTask
    BY QueueBlocks DEF Woken, WaitInv, PendingInv
  <2>2. /\ \A t \in Tasks : state'[t] = IF t \in Woken THEN "RUNNABLE" ELSE state[t]
        /\ UNCHANGED <<saved, cpuBlocked, pending, waiters>>
    BY <1>3 DEF Wake
  <2>3. \A x \in Tasks : pending[x] \in Tasks \cup {NoTask} /\ waiters[x] \in SUBSET Tasks
    BY <1>0 DEF TypeOK
  <2> QED BY <2>1, <2>2, <2>3, QueueBlocks DEF WaitInv, PendingInv, WaitersInv, ParkedInv, KindsInv
<1>4. CASE Unblock
  BY <1>4 DEF Unblock, WaitInv, PendingInv, WaitersInv, ParkedInv, KindsInv, taskVars, trapVars
<1>5. CASE Expire
  BY <1>5 DEF Expire, WaitInv, PendingInv, WaitersInv, ParkedInv, KindsInv, taskVars, trapVars
<1>6. CASE SwitchAway
  <2>1. Head(runnable) \in Runnable
    BY <1>0, <1>6, ListsTail DEF SwitchAway, SchedInv
  <2> DEFINE nxt == Head(runnable)
  <2>2. nxt \in Tasks /\ state[nxt] = "RUNNABLE" /\ nxt # current
    BY <1>0, <2>1, TasksAssumption DEF Runnable, SchedInv, CurrentRuns
  <2>3. current # NoTask /\ state[current] # "EXITED" =>
          state[current] = "RUNNING" /\ cpuBlocked \in QueueBlock
    BY <1>0, <1>6 DEF SwitchAway, BlockedTick, SchedInv, CurrentRuns, WaitInv, KindsInv
  <2>4. /\ state' = [t \in Tasks |->
                     IF t = nxt THEN "RUNNING"
                     ELSE IF t = current /\ current # NoTask /\ state[current] # "EXITED"
                       THEN "BLOCKED" ELSE state[t]]
        /\ saved' = [t \in Tasks |->
                     IF t = nxt THEN NotBlocked
                     ELSE IF t = current /\ current # NoTask /\ state[current] # "EXITED"
                       THEN cpuBlocked ELSE saved[t]]
        /\ cpuBlocked' = saved[nxt] /\ UNCHANGED <<pending, waiters>>
    BY <1>6, <2>2 DEF SwitchAway
  <2> HIDE DEF nxt
  <2>5. \A x \in Tasks : pending[x] \in Tasks \cup {NoTask} /\ waiters[x] \in SUBSET Tasks
    BY <1>0 DEF TypeOK
  <2>6. PendingInv'
    BY <2>2, <2>3, <2>4, <2>5 DEF WaitInv, PendingInv
  <2>7. WaitersInv'
    BY <2>2, <2>3, <2>4, <2>5 DEF WaitInv, WaitersInv, PendingInv
  <2>8. ParkedInv' /\ KindsInv'
    BY <2>2, <2>3, <2>4, <2>5 DEF WaitInv, ParkedInv, KindsInv, PendingInv
  <2> QED BY <2>6, <2>7, <2>8
<1>7. CASE IdleTick
  BY <1>7 DEF IdleTick, WaitInv, PendingInv, WaitersInv, ParkedInv, KindsInv, taskVars, trapVars
<1>8. CASE Instruction
  BY <1>8 DEF Instruction, WaitInv, PendingInv, WaitersInv, ParkedInv, KindsInv, taskVars, trapVars
<1>9. CASE TaskSuspendSelf
  <2>1. current \in Tasks /\ state[current] = "RUNNING" /\ cpuBlocked = NotBlocked
    BY <1>0, <1>9, SteppingRuns DEF TaskSuspendSelf, Executing
  <2>2. \A x \in Tasks : pending[x] \in Tasks \cup {NoTask} /\ waiters[x] \in SUBSET Tasks
    BY <1>0 DEF TypeOK
  <2> DEFINE st == [state EXCEPT ![current] = "SUSPENDED"]
  <2>3. runnable # <<>> /\ SwitchTo(st, runnable) /\ UNCHANGED <<pending, waiters>>
    BY <1>9, <2>1 DEF TaskSuspendSelf
  <2>4. /\ st \in [Tasks -> TaskState]
        /\ Runnable = {t \in Tasks : st[t] = "RUNNABLE"}
        /\ st[current] = "SUSPENDED" /\ \A t \in Tasks : t # current => st[t] = state[t]
    BY <1>0, <2>1 DEF TypeOK, TaskState, Runnable
  <2> HIDE DEF st
  <2>5. Lists(runnable, {t \in Tasks : st[t] = "RUNNABLE"}) /\ Stepping
    BY <1>0, <1>9, <2>4 DEF SchedInv, TaskSuspendSelf
  <2>6. KindsInv'
    BY <2>3, <2>4, <2>5, SwitchToWaits
  <2>7. PICK h \in Tasks : /\ st[h] = "RUNNABLE"
                            /\ state' = [st EXCEPT ![h] = "RUNNING"]
                            /\ saved' = [saved EXCEPT ![current] = NotBlocked, ![h] = NotBlocked]
    BY <2>3, <2>4, <2>5, SwitchToWaits
  <2>8. PendingInv'
    BY <1>0, <2>1, <2>2, <2>3, <2>4, <2>7 DEF WaitInv, PendingInv, TypeOK
  <2>9. WaitersInv'
    BY <1>0, <2>1, <2>2, <2>3, <2>4, <2>7 DEF WaitInv, WaitersInv, PendingInv, TypeOK
  <2>10. ParkedInv'
    BY <1>0, <2>1, <2>2, <2>3, <2>4, <2>7 DEF WaitInv, ParkedInv, TypeOK
  <2> QED BY <2>6, <2>8, <2>9, <2>10
<1>10. CASE TaskYield
  <2>1. current \in Tasks /\ state[current] = "RUNNING" /\ cpuBlocked = NotBlocked
    BY <1>0, <1>10, SteppingRuns DEF TaskYield, Executing
  <2>2. \A x \in Tasks : pending[x] \in Tasks \cup {NoTask} /\ waiters[x] \in SUBSET Tasks
    BY <1>0 DEF TypeOK
  <2> DEFINE st == [state EXCEPT ![current] = "RUNNABLE"]
             q == Append(runnable, current)
  <2>3. Head(runnable) # current
    <3>1. Head(runnable) \in Runnable
      BY <1>0, <1>10, ListsTail DEF TaskYield, SchedInv
    <3> QED BY <2>1, <3>1 DEF Runnable
  <2>4. SwitchTo(st, q) /\ UNCHANGED <<pending, waiters>> /\ Stepping
    BY <1>10, <2>3 DEF TaskYield, Executing
  <2>5. /\ st \in [Tasks -> TaskState] /\ current \notin Runnable
        /\ Runnable \cup {current} = {t \in Tasks : st[t] = "RUNNABLE"}
        /\ st[current] = "RUNNABLE" /\ \A t \in Tasks : t # current => st[t] = state[t]
    BY <1>0, <2>1 DEF TypeOK, TaskState, Runnable
  <2> HIDE DEF st
  <2>6. Lists(q, {t \in Tasks : st[t] = "RUNNABLE"}) /\ q # <<>>
    BY <1>0, <2>1, <2>5, ListsAppend, SeqOps DEF SchedInv, TypeOK
  <2> HIDE DEF q
  <2>7. KindsInv'
    BY <2>4, <2>5, <2>6, SwitchToWaits
  <2>8. PICK h \in Tasks : /\ st[h] = "RUNNABLE"
                            /\ state' = [st EXCEPT ![h] = "RUNNING"]
                            /\ saved' = [saved EXCEPT ![current] = NotBlocked, ![h] = NotBlocked]
    BY <2>4, <2>5, <2>6, SwitchToWaits
  <2>9. PendingInv' /\ WaitersInv' /\ ParkedInv'
    BY <1>0, <2>1, <2>2, <2>4, <2>5, <2>8 DEF WaitInv, PendingInv, WaitersInv, ParkedInv, TypeOK
  <2> QED BY <2>7, <2>9
<1>11. CASE TaskExit
  <2>1. current \in Tasks /\ state[current] = "RUNNING" /\ cpuBlocked = NotBlocked
    BY <1>0, <1>11, SteppingRuns DEF TaskExit, Executing
  <2>2. \A x \in Tasks : pending[x] \in Tasks \cup {NoTask} /\ waiters[x] \in SUBSET Tasks
    BY <1>0 DEF TypeOK
  <2> DEFINE st == StateAfterExit(current)
  <2>3. /\ \A t \in Tasks : st[t] = IF t = current THEN "EXITED"
                                  ELSE IF t \in Released(current) THEN "RUNNABLE" ELSE state[t]
        /\ st \in [Tasks -> TaskState]
    BY <1>0 DEF StateAfterExit, TypeOK, TaskState
  <2>4. /\ waiters' = [waiters EXCEPT ![current] = {}]
        /\ \A t \in Tasks : pending'[t] = IF t = current \/ t \in Released(current)
                                         THEN NoTask ELSE pending[t]
    BY <1>11, <2>1, ReleasedWait DEF TaskExit, ReleaseWaiters
  <2>5. /\ \A w \in Released(current) : w \in Tasks /\ w # current /\ state[w] = "BLOCKED" /\ pending[w] = current
        /\ \A w \in Tasks : pending[w] = current /\ w # current => w \in Released(current)
    BY <1>11, <2>1, ReleasedWait
  <2> HIDE DEF st
  <2>6. PICK ws \in Orders(Released(current)) :
          IF runnable \o ws # <<>>
            THEN SwitchTo(st, runnable \o ws)
            ELSE /\ state' = st /\ UNCHANGED saved
                 /\ cpuBlocked' = ExitWait \/ UNCHANGED cpuBlocked
    BY <1>11 DEF TaskExit, st
  <2> DEFINE q == runnable \o ws
  <2>7. CASE q # <<>>
    <3>1. SwitchTo(st, q) /\ Stepping
      BY <1>11, <2>6, <2>7 DEF TaskExit, Executing
    <3>2. Lists(q, {t \in Tasks : st[t] = "RUNNABLE"})
      <4>1. {t \in Tasks : st[t] = "RUNNABLE"} = Runnable \cup Released(current)
        BY <2>1, <2>3, <2>5 DEF Runnable
      <4>2. Runnable \cap Released(current) = {} /\ Released(current) \in SUBSET Tasks
        BY <2>5 DEF Runnable
      <4> QED BY <1>0, <4>1, <4>2, OrdersList, ListsConcat DEF SchedInv
    <3> HIDE DEF q
    <3>3. KindsInv'
      BY <2>3, <2>7, <3>1, <3>2, SwitchToWaits
    <3>4. PICK h \in Tasks : /\ st[h] = "RUNNABLE"
                              /\ state' = [st EXCEPT ![h] = "RUNNING"]
                              /\ saved' = [saved EXCEPT ![current] = NotBlocked, ![h] = NotBlocked]
      BY <2>3, <2>7, <3>1, <3>2, SwitchToWaits
    <3>5. PendingInv'
      BY <1>0, <2>1, <2>2, <2>3, <2>4, <2>5, <3>4 DEF WaitInv, PendingInv, TypeOK
    <3>6. WaitersInv'
      BY <1>0, <2>1, <2>2, <2>3, <2>4, <2>5, <3>4 DEF WaitInv, WaitersInv, TypeOK
    <3>7. ParkedInv'
      BY <1>0, <2>1, <2>2, <2>3, <2>4, <2>5, <3>4 DEF WaitInv, ParkedInv, TypeOK
    <3> QED BY <3>3, <3>5, <3>6, <3>7
  <2>8. CASE q = <<>>
    <3>1. state' = st /\ saved' = saved /\ (cpuBlocked' = ExitWait \/ cpuBlocked' = cpuBlocked)
      BY <2>6, <2>8
    <3>2. PendingInv' /\ WaitersInv'
      BY <1>0, <2>1, <2>2, <2>3, <2>4, <2>5, <3>1 DEF WaitInv, PendingInv, WaitersInv, TypeOK
    <3>3. ParkedInv' /\ KindsInv'
      BY <1>0, <2>1, <2>2, <2>3, <2>4, <2>5, <3>1 DEF WaitInv, ParkedInv, KindsInv, TypeOK
    <3> QED BY <3>2, <3>3
  <2> QED BY <2>7, <2>8
<1>12. ASSUME NEW t \in Tasks, TaskCreate(t)
      PROVE  Goal
  <2>1. current \in Tasks /\ state[current] = "RUNNING" /\ cpuBlocked = NotBlocked
    BY <1>0, <1>12, SteppingRuns DEF TaskCreate, Executing
  <2>2. \A x \in Tasks : pending[x] \in Tasks \cup {NoTask} /\ waiters[x] \in SUBSET Tasks
    BY <1>0 DEF TypeOK
  <2>3. pending[t] = NoTask
    BY <1>12 DEF TaskCreate, WaitInv, PendingInv
  <2> QED BY <1>0, <1>12, <2>1, <2>2, <2>3 DEF TaskCreate, WaitInv, PendingInv, WaitersInv, ParkedInv, KindsInv, TypeOK
<1>13. ASSUME NEW t \in Tasks, ObjFreeTask(t)
      PROVE  Goal
  <2>1. current \in Tasks /\ state[current] = "RUNNING" /\ cpuBlocked = NotBlocked
    BY <1>0, <1>13, SteppingRuns DEF ObjFreeTask, Executing
  <2>2. \A x \in Tasks : pending[x] \in Tasks \cup {NoTask} /\ waiters[x] \in SUBSET Tasks
    BY <1>0 DEF TypeOK
  <2>3. pending[t] = NoTask
    BY <1>13 DEF ObjFreeTask, WaitInv, PendingInv
  <2> QED BY <1>0, <1>13, <2>1, <2>2, <2>3 DEF ObjFreeTask, WaitInv, PendingInv, WaitersInv, ParkedInv, KindsInv, TypeOK
<1>14. ASSUME NEW t \in Tasks, TaskResume(t)
      PROVE  Goal
  <2>1. current \in Tasks /\ state[current] = "RUNNING" /\ cpuBlocked = NotBlocked
    BY <1>0, <1>14, SteppingRuns DEF TaskResume, Executing
  <2>2. \A x \in Tasks : pending[x] \in Tasks \cup {NoTask} /\ waiters[x] \in SUBSET Tasks
    BY <1>0 DEF TypeOK
  <2>3. pending[t] = NoTask
    BY <1>14 DEF TaskResume, WaitInv, PendingInv
  <2> QED BY <1>0, <1>14, <2>1, <2>2, <2>3 DEF TaskResume, WaitInv, PendingInv, WaitersInv, ParkedInv, KindsInv, TypeOK
<1>15. ASSUME NEW t \in Tasks, TaskSuspend(t)
      PROVE  Goal
  <2>1. current \in Tasks /\ state[current] = "RUNNING" /\ cpuBlocked = NotBlocked
    BY <1>0, <1>15, SteppingRuns DEF TaskSuspend, Executing
  <2>2. \A x \in Tasks : pending[x] \in Tasks \cup {NoTask} /\ waiters[x] \in SUBSET Tasks
    BY <1>0 DEF TypeOK
  <2>3. pending[t] = NoTask
    BY <1>15 DEF TaskSuspend, WaitInv, PendingInv
  <2> QED BY <1>0, <1>15, <2>1, <2>2, <2>3 DEF TaskSuspend, WaitInv, PendingInv, WaitersInv, ParkedInv, KindsInv, TypeOK
<1>16. ASSUME NEW t \in Tasks, TaskKill(t)
      PROVE  Goal
  <2>1. current \in Tasks /\ state[current] = "RUNNING" /\ cpuBlocked = NotBlocked
    BY <1>0, <1>16, SteppingRuns DEF TaskKill, Executing
  <2>2. \A x \in Tasks : pending[x] \in Tasks \cup {NoTask} /\ waiters[x] \in SUBSET Tasks
    BY <1>0 DEF TypeOK
  <2> DEFINE st == StateAfterExit(t)
  <2>3. /\ \A u \in Tasks : st[u] = IF u = t THEN "EXITED"
                                  ELSE IF u \in Released(t) THEN "RUNNABLE" ELSE state[u]
        /\ st \in [Tasks -> TaskState]
    BY <1>0 DEF StateAfterExit, TypeOK, TaskState
  <2>4. /\ waiters' = [waiters EXCEPT ![t] = {}]
        /\ \A u \in Tasks : pending'[u] = IF u = t \/ u \in Released(t)
                                         THEN NoTask ELSE pending[u]
    BY <1>16, <2>1, ReleasedWait DEF TaskKill, ReleaseWaiters
  <2>5. /\ \A w \in Released(t) : w \in Tasks /\ w # t /\ state[w] = "BLOCKED" /\ pending[w] = t
        /\ \A w \in Tasks : pending[w] = t /\ w # t => w \in Released(t)
    BY <1>16, <2>1, ReleasedWait
  <2> HIDE DEF st
  <2>6. /\ state' = st /\ saved' = [saved EXCEPT ![t] = NotBlocked] /\ UNCHANGED cpuBlocked
    BY <1>16 DEF TaskKill, st
  <2>7. PendingInv' /\ WaitersInv'
    BY <1>0, <1>16, <2>1, <2>2, <2>3, <2>4, <2>5, <2>6 DEF WaitInv, PendingInv, WaitersInv, TypeOK
  <2>8. ParkedInv' /\ KindsInv'
    BY <1>0, <1>16, <2>1, <2>2, <2>3, <2>4, <2>5, <2>6 DEF WaitInv, ParkedInv, KindsInv, TypeOK
  <2> QED BY <2>7, <2>8
<1>17. ASSUME NEW t \in Tasks, TaskWait(t)
      PROVE  Goal
  <2>1. current \in Tasks /\ state[current] = "RUNNING" /\ cpuBlocked = NotBlocked
    BY <1>0, <1>17, SteppingRuns DEF TaskWait, Executing
  <2>2. \A x \in Tasks : pending[x] \in Tasks \cup {NoTask} /\ waiters[x] \in SUBSET Tasks
    BY <1>0 DEF TypeOK
  <2> DEFINE st == [state EXCEPT ![current] = "BLOCKED"]
  <2>3. /\ waiters' = [waiters EXCEPT ![t] = @ \cup {current}]
        /\ pending' = [pending EXCEPT ![current] = t]
        /\ t # current /\ state[t] \notin {"NONE", "EXITED"} /\ t # NoTask
    BY <1>17, TasksAssumption DEF TaskWait
  <2>4. /\ st \in [Tasks -> TaskState] /\ Runnable = {u \in Tasks : st[u] = "RUNNABLE"}
        /\ st[current] = "BLOCKED" /\ \A u \in Tasks : u # current => st[u] = state[u]
    BY <1>0, <2>1 DEF TypeOK, TaskState, Runnable
  <2> HIDE DEF st
  <2>5. /\ KindsInv'
        /\ \A u \in Tasks : \/ state'[u] = st[u]
                            \/ st[u] = "RUNNABLE" /\ state'[u] = "RUNNING"
        /\ saved'[current] = NotBlocked
        /\ \A u \in Tasks : \/ saved'[u] = saved[u] \/ u = current
                            \/ saved'[u] = NotBlocked /\ st[u] # "BLOCKED"
    <3>1. CASE runnable # <<>>
      <4>1. SwitchTo(st, runnable) /\ Stepping
        BY <1>17, <3>1 DEF TaskWait, st, Executing
      <4>2. Lists(runnable, {u \in Tasks : st[u] = "RUNNABLE"})
        BY <1>0, <2>4 DEF SchedInv
      <4>3. KindsInv'
        BY <2>4, <3>1, <4>1, <4>2, SwitchToWaits
      <4>4. PICK h \in Tasks : /\ st[h] = "RUNNABLE"
                                /\ state' = [st EXCEPT ![h] = "RUNNING"]
                                /\ saved' = [saved EXCEPT ![current] = NotBlocked, ![h] = NotBlocked]
        BY <2>4, <3>1, <4>1, <4>2, SwitchToWaits
      <4>5. saved'[current] = NotBlocked
        BY <1>0, <2>1, <4>4 DEF TypeOK
      <4>6. \A u \in Tasks : \/ state'[u] = st[u]
                             \/ st[u] = "RUNNABLE" /\ state'[u] = "RUNNING"
        BY <2>4, <4>4
      <4>7. \A u \in Tasks : \/ saved'[u] = saved[u] \/ u = current
                             \/ saved'[u] = NotBlocked /\ st[u] # "BLOCKED"
        BY <1>0, <4>4 DEF TypeOK
      <4> QED BY <4>3, <4>5, <4>6, <4>7
    <3>2. CASE runnable = <<>>
      <4>1. /\ state' = st /\ saved' = [saved EXCEPT ![current] = NotBlocked]
            /\ cpuBlocked' = ExitWait
        BY <1>17, <2>1, <3>2 DEF TaskWait, st
      <4>2. KindsInv'
        BY <1>0, <2>1, <4>1 DEF TypeOK, WaitInv, KindsInv
      <4> QED BY <1>0, <2>1, <4>1, <4>2 DEF TypeOK
    <3> QED BY <3>1, <3>2
  <2>9. \A u \in Tasks :
          /\ u # current /\ state[u] = "BLOCKED" /\ saved[u] = NotBlocked
               => state'[u] = "BLOCKED" /\ saved'[u] = NotBlocked
          /\ state'[u] = "EXITED" <=> state[u] = "EXITED"
          /\ state'[u] = "NONE" <=> state[u] = "NONE"
    BY <2>1, <2>4, <2>5
  <2>10. state'[current] = "BLOCKED" /\ pending'[current] = t
         /\ \A u \in Tasks : u # current => pending'[u] = pending[u]
    BY <1>0, <2>1, <2>3, <2>4, <2>5 DEF TypeOK
  <2>11. /\ \A x \in Tasks : waiters[x] \subseteq waiters'[x]
         /\ \A x \in Tasks : \A w \in waiters'[x] :
              w \in waiters[x] \/ (x = t /\ w = current)
         /\ current \in waiters'[t]
    BY <1>0, <1>17, <2>3 DEF TypeOK
  <2>6. PendingInv'
    <3> SUFFICES ASSUME NEW u \in Tasks, pending'[u] # NoTask
                 PROVE  /\ state'[u] = "BLOCKED" /\ saved'[u] = NotBlocked
                        /\ u \in waiters'[pending'[u]]
                        /\ state'[pending'[u]] \notin {"NONE", "EXITED"}
      BY DEF PendingInv
    <3>1. CASE u = current
      BY <1>17, <2>3, <2>5, <2>9, <2>10, <2>11, <3>1
    <3>2. CASE u # current
      BY <2>2, <2>9, <2>10, <2>11, <3>2 DEF WaitInv, PendingInv
    <3> QED BY <3>1, <3>2
  <2>7. WaitersInv'
    <3>1. pending[current] = NoTask
      BY <2>1 DEF WaitInv, PendingInv
    <3> QED BY <2>1, <2>2, <2>9, <2>10, <2>11, <3>1, TasksAssumption DEF WaitInv, WaitersInv
  <2>8. ParkedInv'
    BY <1>0, <1>17, <2>1, <2>2, <2>3, <2>4, <2>5 DEF WaitInv, ParkedInv, TypeOK
  <2> QED BY <2>5, <2>6, <2>7, <2>8
<1>18. ASSUME NEW q \in Queues, NEW timed \in BOOLEAN, ReceiveQueuePoll(q, timed)
      PROVE  Goal
  <2>1. cpuBlocked' \in QueueBlock \cup {NotBlocked, ExitWait}
    BY <1>18, QueueBlocks DEF ReceiveQueuePoll, Executing, Stepping
  <2> QED BY <1>18, <2>1 DEF ReceiveQueuePoll, WaitInv, PendingInv, WaitersInv, ParkedInv, KindsInv, taskVars
<1>19. ASSUME NEW S \in SUBSET Queues, NEW timed \in BOOLEAN, WaitAnyQueue(S, timed)
      PROVE  Goal
  <2>1. cpuBlocked' \in QueueBlock \cup {NotBlocked, ExitWait}
    BY <1>19, QueueBlocks DEF WaitAnyQueue, Executing, Stepping
  <2> QED BY <1>19, <2>1 DEF WaitAnyQueue, WaitInv, PendingInv, WaitersInv, ParkedInv, KindsInv, taskVars
<1>20. CASE TimerTrap
  <2>1. current \in Tasks /\ state[current] = "RUNNING" /\ cpuBlocked = NotBlocked
    BY <1>0, <1>20, SteppingRuns DEF TimerTrap, Executing
  <2> QED BY <1>0, <1>20, <2>1 DEF TimerTrap, WaitInv, PendingInv, WaitersInv, ParkedInv, KindsInv, TypeOK
<1>21. CASE HandlerYield
  BY <1>21 DEF HandlerYield, WaitInv, PendingInv, WaitersInv, ParkedInv, KindsInv, taskVars, trapVars
<1>22. CASE ERET
  <2>1. current \in Tasks /\ state[current] = "RUNNING"
    BY <1>0, <1>22, SteppingRuns DEF ERET
  <2>2. \A x \in Tasks : pending[x] \in Tasks \cup {NoTask} /\ waiters[x] \in SUBSET Tasks
    BY <1>0 DEF TypeOK
  <2> DEFINE q == Append(runnable, current)
  <2>3. CASE runnable = <<>>
    BY <1>0, <1>22, <2>1, <2>3 DEF ERET, WaitInv, PendingInv, WaitersInv, ParkedInv, KindsInv, TypeOK
  <2>4. CASE runnable # <<>>
    <3>1. Head(runnable) \in Runnable
      BY <1>0, <2>4, ListsTail DEF SchedInv
    <3>2. /\ state' = [state EXCEPT ![current] = "RUNNABLE", ![Head(q)] = "RUNNING"]
          /\ cpuBlocked' = saved[Head(q)]
          /\ saved' = [saved EXCEPT ![Head(q)] = NotBlocked]
          /\ UNCHANGED <<pending, waiters>>
      BY <1>22, <2>1, <2>4, <3>1 DEF ERET, Runnable
    <3>3. Head(q) \in Runnable \cup {current}
      <4>1. current \notin Runnable /\ q # <<>>
        BY <1>0, <2>1, SeqOps DEF Runnable, TypeOK
      <4>2. Lists(q, Runnable \cup {current})
        BY <1>0, <4>1, ListsAppend DEF SchedInv
      <4> QED BY <4>1, <4>2, ListsTail
    <3> HIDE DEF q
    <3>4. PendingInv' /\ WaitersInv'
      BY <1>0, <2>1, <2>2, <3>2, <3>3 DEF WaitInv, PendingInv, WaitersInv, TypeOK, Runnable
    <3>5. ParkedInv' /\ KindsInv'
      BY <1>0, <2>1, <2>2, <3>2, <3>3 DEF WaitInv, ParkedInv, KindsInv, TypeOK, Runnable
    <3> QED BY <3>4, <3>5
  <2> QED BY <2>3, <2>4
<1>23. CASE UNCHANGED vars
  BY <1>23 DEF vars, WaitInv, PendingInv, WaitersInv, ParkedInv, KindsInv
<1> QED
  BY <1>1, <1>2, <1>3, <1>4, <1>5, <1>6, <1>7, <1>8, <1>9, <1>10, <1>11, <1>12,
     <1>13, <1>14, <1>15, <1>16, <1>17, <1>18, <1>19, <1>20, <1>21, <1>22, <1>23
  DEF Next, CpuStep

(* WaitInv holds in every behaviour without disturbed waiters. *)
LEMMA WaitCorrect ==
  ASSUME ~LoneSuspend, ~DisturbWaiters PROVE Spec => []WaitInv
<1>1. Init => WaitInv
  BY WaitInit
<1>2. WaitInv /\ [Next]_vars => WaitInv'
  BY WaitStep
<1> QED BY <1>1, <1>2, PTL DEF Spec

(* TaskWait returns only once its target has exited, and a parked task     *)
(* always has somebody that will wake it.                                  *)
THEOREM WaitsCorrect ==
  ASSUME ~LoneSuspend, ~DisturbWaiters PROVE Spec => []WaitsSound
<1>1. WaitInv => WaitsSound
  BY WaitImplies DEF WaitsSound
<1> QED BY <1>1, WaitCorrect, PTL
=============================================================================

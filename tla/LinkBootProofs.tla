--------------------------- MODULE LinkBootProofs ---------------------------
(***************************************************************************)
(* Proofs about LinkBoot for any pool, requests, preloaded images, sizes   *)
(* of images and chunks, and exit codes.                                   *)
(***************************************************************************)
EXTENDS LinkBoot, FiniteSetTheorems, SequenceTheorems, TLAPS

(* What a loader holds when the first p words of j have come.              *)
OffsetOf(j, q) == IF q[1] = "text" THEN q[2] ELSE TextSize[j] + q[2]
Part(j, p) == [q \in {x \in Places(j) : OffsetOf(j, x) < p} |-> <<j, OffsetOf(j, q)>>]

Progress(l, p) ==
  /\ p \in Nat /\ p < Total(job[l]) /\ l \in known /\ pc[l] = "loop"
  /\ words[l] = Part(job[l], p)
  /\ sizes[l] = IF p = 0 THEN <<>> ELSE <<TextSize[job[l]], DataSize[job[l]]>>

(* Where a loader and the server are in the protocol: the processor has    *)
(* been reset; has announced itself; is idle; has a chunk to read; has     *)
(* asked for the next; runs the program.                                   *)
Restarted(l) ==
  /\ pc[l] = "start" /\ toServer[l] = <<>> /\ toLoader[l] = <<>>
  /\ sizes[l] = <<>> /\ words[l] = <<>> /\ (l \in known => state[l] # "idle")
Announcing(l) ==
  /\ pc[l] = "loop" /\ toLoader[l] = <<>> /\ sizes[l] = <<>> /\ words[l] = <<>>
  /\ toServer[l] = <<[off |-> 0, code |-> code[l]]>> /\ (l \in known => state[l] # "idle")
Free(l) ==
  /\ pc[l] = "loop" /\ toServer[l] = <<>> /\ toLoader[l] = <<>>
  /\ sizes[l] = <<>> /\ words[l] = <<>> /\ state[l] = "idle" /\ l \in known
Loading(l) ==
  \E p \in Nat :
    /\ Progress(l, p) /\ toServer[l] = <<>> /\ toLoader[l] = <<ChunkMsg(job[l], p)>>
    /\ position[l] = p + ChunkLen(job[l], p)
    /\ state[l] = IF position[l] >= Total(job[l]) THEN "waiting" ELSE "assigned"
Asking(l) ==
  /\ Progress(l, position[l]) /\ position[l] > 0 /\ state[l] = "assigned"
  /\ toServer[l] = <<[off |-> position[l], code |-> code[l]]>> /\ toLoader[l] = <<>>
Running(l) ==
  /\ pc[l] = "guest" /\ toServer[l] = <<>> /\ toLoader[l] = <<>> /\ l \in known
  /\ state[l] = "waiting" /\ words[l] = Image(job[l])
  /\ sizes[l] = <<TextSize[job[l]], DataSize[job[l]]>>

Protocol(l) ==
  /\ state[l] # "idle" => /\ job[l] \in Jobs /\ l \in known
                          /\ requester[l] = IF job[l] \in Requests THEN job[l] ELSE None
  /\ \/ Restarted(l) \/ Announcing(l) \/ Free(l)
     \/ Loading(l) \/ Asking(l) \/ Running(l)

(* A request is in one place at a time, and its answer is still to come.   *)
Holds(l, r) == state[l] # "idle" /\ job[l] = r
Open(r) == answers[r] = <<>> /\ ran[r] = None
Among(q, r) == \E i \in 1 .. Len(q) : q[i] = r
Once(q, r) == \A i, k \in 1 .. Len(q) : q[i] = r /\ q[k] = r => i = k
Queued(r) == Among(pending, r)
RanBefore(l) == pc[l] = "start" \/ (toServer[l] # <<>> /\ Head(toServer[l]).off = 0)
OneRequest(r) ==
  /\ r \in calls => Open(r) /\ r \notin reads /\ ~Queued(r) /\ \A l \in Loaders : ~Holds(l, r)
  /\ r \in reads => Open(r) /\ ~Queued(r) /\ \A l \in Loaders : ~Holds(l, r)
  /\ Queued(r) => Open(r) /\ \A l \in Loaders : ~Holds(l, r)
  /\ Once(pending, r)
  /\ \A l, k \in Loaders : Holds(l, r) /\ Holds(k, r) => l = k
  /\ \A l \in Loaders : Holds(l, r) =>
       answers[r] = <<>> /\ ran[r] = IF RanBefore(l) THEN code[l] ELSE None
  /\ r \notin asked => /\ Open(r) /\ r \notin calls /\ r \notin reads /\ ~Queued(r)
                       /\ \A l \in Loaders : ~Holds(l, r)
  /\ Len(answers[r]) <= 1
  /\ answers[r] # <<>> => \/ answers[r][1] = Failed /\ ran[r] = None
                          \/ ran[r] # None /\ answers[r][1] = ran[r] % 256

(* The objects of a loader, whose contents Protocol tells.                 *)
Objects == /\ words = [l \in Loaders |-> words[l]]
           /\ sizes = [l \in Loaders |-> sizes[l]]

LinkInv == TypeOK /\ Objects /\ (\A l \in Loaders : Protocol(l)) /\ (\A r \in Requests : OneRequest(r))

-----------------------------------------------------------------------------
(* Images and chunks.                                                      *)

(* A chunk is not empty, and crosses neither the end of the text nor that  *)
(* of the image.                                                           *)
LEMMA ChunkBounds ==
  ASSUME NEW j \in Jobs, NEW p \in Nat, p < Total(j)
  PROVE  /\ Total(j) \in Nat /\ TextSize[j] \in Nat /\ DataSize[j] \in Nat
         /\ ChunkLen(j, p) \in Nat /\ ChunkLen(j, p) > 0
         /\ p + ChunkLen(j, p) <= Total(j)
         /\ p < TextSize[j] => p + ChunkLen(j, p) <= TextSize[j]
BY ImageAssumption DEF Total, ChunkLen, Least

(* A word has one place, and a place one offset.                           *)
LEMMA TargetPlace ==
  ASSUME NEW j \in Jobs, NEW p \in Nat, p < Total(j),
         NEW i \in 0 .. (ChunkLen(j, p) - 1)
  PROVE  /\ Target(ChunkMsg(j, p), i) \in Places(j)
         /\ OffsetOf(j, Target(ChunkMsg(j, p), i)) = p + i
<1> DEFINE m == ChunkMsg(j, p)
<1>1. m.pos = p /\ m.text = TextSize[j]
  BY DEF ChunkMsg
<1>2. CASE p < TextSize[j]
  <2>1. Target(m, i) = <<"text", p + i>>
    BY <1>1, <1>2 DEF Target
  <2>2. p + i \in 0 .. (TextSize[j] - 1)
    BY <1>2, ChunkBounds
  <2> QED BY <2>1, <2>2 DEF Places, OffsetOf
<1>3. CASE ~(p < TextSize[j])
  <2>1. Target(m, i) = <<"data", p - TextSize[j] + i>>
    BY <1>1, <1>3 DEF Target
  <2>2. p - TextSize[j] + i \in 0 .. (DataSize[j] - 1)
    BY <1>3, ChunkBounds DEF Total
  <2>3. TextSize[j] + (p - TextSize[j] + i) = p + i
    BY ChunkBounds
  <2> QED BY <2>1, <2>2, <2>3 DEF Places, OffsetOf
<1> QED BY <1>2, <1>3

LEMMA OnePlaceEach ==
  ASSUME NEW j \in Jobs, NEW x \in Places(j), NEW y \in Places(j),
         OffsetOf(j, x) = OffsetOf(j, y)
  PROVE  x = y
BY ImageAssumption DEF Places, OffsetOf

LEMMA OffsetRange ==
  ASSUME NEW j \in Jobs, NEW x \in Places(j)
  PROVE  OffsetOf(j, x) \in 0 .. (Total(j) - 1)
BY ImageAssumption DEF Places, OffsetOf, Total

(* Nothing has come, and all of it.                                        *)
LEMMA PartEnds ==
  ASSUME NEW j \in Jobs
  PROVE  Part(j, 0) = <<>> /\ Part(j, Total(j)) = Image(j)
<1>1. {x \in Places(j) : OffsetOf(j, x) < 0} = {}
  BY OffsetRange
<1>2. Part(j, 0) = <<>>
  BY <1>1 DEF Part
<1>3. {x \in Places(j) : OffsetOf(j, x) < Total(j)} = Places(j)
  BY OffsetRange, ImageAssumption DEF Total
<1>4. Part(j, Total(j)) = Image(j)
  BY <1>3 DEF Part, Image, OffsetOf
<1> QED BY <1>2, <1>4

(* Copying the next chunk extends what has come by it.                     *)
LEMMA CopiedPart ==
  ASSUME NEW j \in Jobs, NEW p \in Nat, p < Total(j)
  PROVE  Copied(Part(j, p), ChunkMsg(j, p)) = Part(j, p + ChunkLen(j, p))
<1> DEFINE m == ChunkMsg(j, p)
           n == ChunkLen(j, p)
           new == {Target(m, i) : i \in 0 .. (n - 1)}
           old == {x \in Places(j) : OffsetOf(j, x) < p}
<1>1. m.pos = p /\ m.len = n /\ m.job = j /\ n \in Nat
  BY ChunkBounds DEF ChunkMsg
<1>2. new = {x \in Places(j) : p <= OffsetOf(j, x) /\ OffsetOf(j, x) < p + n}
  <2>1. ASSUME NEW x \in new
        PROVE  x \in Places(j) /\ p <= OffsetOf(j, x) /\ OffsetOf(j, x) < p + n
    BY <1>1, TargetPlace
  <2>2. ASSUME NEW x \in Places(j), p <= OffsetOf(j, x), OffsetOf(j, x) < p + n
        PROVE  x \in new
    <3> DEFINE i == OffsetOf(j, x) - p
    <3>1. i \in 0 .. (n - 1) /\ p + i = OffsetOf(j, x)
      BY <2>2, <1>1, OffsetRange
    <3>2. Target(m, i) \in Places(j) /\ OffsetOf(j, Target(m, i)) = OffsetOf(j, x)
      BY <3>1, TargetPlace
    <3>3. Target(m, i) = x
      BY <3>2, OnePlaceEach
    <3> QED BY <3>1, <3>3
  <2> QED BY <2>1, <2>2
<1>3. old \cup new = {x \in Places(j) : OffsetOf(j, x) < p + n}
  BY <1>1, <1>2, OffsetRange
<1>4. DOMAIN Part(j, p) = old
  BY DEF Part
<1>5. ASSUME NEW q \in new
      PROVE  (CHOOSE i \in 0 .. (n - 1) : Target(m, i) = q) = OffsetOf(j, q) - p
  <2>1. PICK i \in 0 .. (n - 1) : Target(m, i) = q
    OBVIOUS
  <2>2. \A k \in 0 .. (n - 1) : Target(m, k) = q => k = OffsetOf(j, q) - p
    BY <1>1, TargetPlace
  <2> QED BY <2>1, <2>2
<1>6. ASSUME NEW q \in old \cup new
      PROVE  (IF q \in new THEN <<m.job, m.pos + (CHOOSE i \in 0 .. (m.len - 1) :
                                                    Target(m, i) = q)>>
              ELSE Part(j, p)[q]) = <<j, OffsetOf(j, q)>>
  <2>1. CASE q \in new
    <3>1. OffsetOf(j, q) \in Nat
      BY <2>1, <1>2, OffsetRange
    <3>2. p + (OffsetOf(j, q) - p) = OffsetOf(j, q)
      BY <3>1
    <3> QED BY <1>1, <1>5, <2>1, <3>2
  <2>2. CASE q \notin new
    <3>1. q \in old
      BY <2>2
    <3> QED BY <2>2, <3>1 DEF Part
  <2> QED BY <2>1, <2>2
<1>7. Copied(Part(j, p), m) =
        [q \in old \cup new |->
           IF q \in new THEN <<m.job, m.pos + (CHOOSE i \in 0 .. (m.len - 1) :
                                                 Target(m, i) = q)>>
           ELSE Part(j, p)[q]]
  BY <1>1, <1>4 DEF Copied
<1>8. Copied(Part(j, p), m) = [q \in old \cup new |-> <<j, OffsetOf(j, q)>>]
  BY <1>6, <1>7
<1> QED BY <1>3, <1>8 DEF Part

-----------------------------------------------------------------------------
(* The initial states.                                                     *)
LEMMA LinkInit == Init => LinkInv
<1> SUFFICES ASSUME Init PROVE LinkInv
  OBVIOUS
<1> USE DEF Init
<1>1. TypeOK
  <2>1. Cardinality(Preloads) \in Nat
    BY PoolAssumption, FS_CardinalityType
  <2>2. pending \in Seq(Jobs)
    BY <2>1 DEF Jobs
  <2> QED BY <2>2, PoolAssumption DEF TypeOK
<1>2. Objects
  BY DEF Objects
<1>3. ASSUME NEW l \in Loaders PROVE Protocol(l)
  BY <1>3 DEF Protocol, Restarted
<1>4. ASSUME NEW r \in Requests PROVE OneRequest(r)
  <2>1. ~Queued(r) /\ \A i \in 1 .. Len(pending) : pending[i] # r
    <3>1. pending \in [1 .. Cardinality(Preloads) -> Preloads]
      OBVIOUS
    <3>2. \A i \in DOMAIN pending : pending[i] \in Preloads
      BY <3>1
    <3>3. DOMAIN pending = 1 .. Len(pending)
      BY <1>1 DEF TypeOK
    <3> QED BY <3>2, <3>3, PoolAssumption DEF Queued, Among
  <2>2. \A l \in Loaders : ~Holds(l, r)
    BY DEF Holds
  <2>3. answers[r] = <<>> /\ ran[r] = None /\ Len(answers[r]) <= 1
    BY DEF Jobs
  <2>4. calls = {} /\ reads = {}
    OBVIOUS
  <2> QED BY ONLY <2>1, <2>2, <2>3, <2>4 DEF OneRequest, Open, Once, Queued, Among
<1> QED BY <1>1, <1>2, <1>3, <1>4 DEF LinkInv

-----------------------------------------------------------------------------
(* What a step leaves alone stays as the invariant says.                   *)
SameLoader(l) ==
  /\ state'[l] = state[l] /\ job'[l] = job[l] /\ position'[l] = position[l]
  /\ requester'[l] = requester[l] /\ toServer'[l] = toServer[l]
  /\ toLoader'[l] = toLoader[l] /\ pc'[l] = pc[l] /\ code'[l] = code[l]
  /\ sizes'[l] = sizes[l] /\ words'[l] = words[l] /\ (l \in known' <=> l \in known)

LEMMA ProtocolFrame ==
  ASSUME NEW l \in Loaders, Protocol(l), SameLoader(l)
  PROVE  Protocol(l)'
<1> USE DEF SameLoader
<1>1. Restarted(l) => Restarted(l)'
  BY DEF Restarted
<1>2. Announcing(l) => Announcing(l)'
  BY DEF Announcing
<1>3. Free(l) => Free(l)'
  BY DEF Free
<1>4. Loading(l) => Loading(l)'
  BY DEF Loading, Progress
<1>5. Asking(l) => Asking(l)'
  BY DEF Asking, Progress
<1>6. Running(l) => Running(l)'
  BY DEF Running
<1> QED BY <1>1, <1>2, <1>3, <1>4, <1>5, <1>6 DEF Protocol

SameHolder(l, r) ==
  /\ Holds(l, r)' <=> Holds(l, r)
  /\ Holds(l, r) => (RanBefore(l)' <=> RanBefore(l)) /\ (RanBefore(l) => code'[l] = code[l])

SameRequest(r) ==
  /\ answers'[r] = answers[r] /\ ran'[r] = ran[r] /\ (r \in asked' <=> r \in asked)
  /\ (r \in calls' <=> r \in calls) /\ (r \in reads' <=> r \in reads)

LEMMA RequestFrame ==
  ASSUME NEW r \in Requests, OneRequest(r), SameRequest(r), pending' = pending,
         \A l \in Loaders : SameHolder(l, r)
  PROVE  OneRequest(r)'
<1>1. Queued(r)' <=> Queued(r)
  BY DEF Queued
<1>2. Open(r)' <=> Open(r)
  BY DEF Open, SameRequest
<1> QED BY <1>1, <1>2 DEF OneRequest, SameRequest, SameHolder

(* A loader that is left alone holds what it held.                         *)
LEMMA SameLoaderHolds ==
  ASSUME NEW l \in Loaders, SameLoader(l), NEW r
  PROVE  SameHolder(l, r)
BY DEF SameLoader, SameHolder, Holds, RanBefore

-----------------------------------------------------------------------------
(* Clients and their requests: no loader is touched.                       *)
LEMMA LoadersAlone ==
  ASSUME LinkInv, UNCHANGED <<state, known, job, position, requester, toServer, toLoader,
                              loaderVars>>
  PROVE  /\ Objects' /\ \A l \in Loaders : Protocol(l)' /\ \A r : SameHolder(l, r)
<1>1. \A l \in Loaders : SameLoader(l)
  BY DEF SameLoader, loaderVars
<1> QED BY <1>1, ProtocolFrame, SameLoaderHolds DEF LinkInv, Objects, loaderVars

LEMMA AskStep ==
  ASSUME LinkInv, NEW r \in Requests, Ask(r)
  PROVE  LinkInv'
<1>1. TypeOK'
  BY DEF Ask, LinkInv, TypeOK, serverVars, loaderVars
<1>2. Objects' /\ \A l \in Loaders : Protocol(l)' /\ \A x : SameHolder(l, x)
  BY LoadersAlone DEF Ask, serverVars
<1>3. ASSUME NEW x \in Requests PROVE OneRequest(x)'
  <2>1. CASE x # r
    BY <1>2, <2>1, RequestFrame DEF LinkInv, Ask, SameRequest, serverVars
  <2>2. CASE x = r
    <3>1. (Queued(r)' <=> Queued(r)) /\ (Open(r)' <=> Open(r))
      BY DEF Queued, Open, Ask, serverVars
    <3> QED BY <1>2, <2>2, <3>1 DEF LinkInv, OneRequest, Ask, serverVars, SameHolder
  <2> QED BY <2>1, <2>2
<1> QED BY <1>1, <1>2, <1>3 DEF LinkInv

LEMMA TakeSpawnStep ==
  ASSUME LinkInv, NEW r \in Requests, TakeSpawn(r)
  PROVE  LinkInv'
<1>1. TypeOK'
  BY DEF TakeSpawn, LinkInv, TypeOK, loaderVars, history
<1>2. Objects' /\ \A l \in Loaders : Protocol(l)' /\ \A x : SameHolder(l, x)
  BY LoadersAlone DEF TakeSpawn
<1>3. ASSUME NEW x \in Requests PROVE OneRequest(x)'
  <2>1. CASE x # r
    BY <1>2, <2>1, RequestFrame DEF LinkInv, TakeSpawn, SameRequest, history
  <2>2. CASE x = r
    <3>1. (Queued(r)' <=> Queued(r)) /\ (Open(r)' <=> Open(r))
      BY DEF Queued, Open, TakeSpawn, history
    <3> QED BY <1>2, <2>2, <3>1 DEF LinkInv, OneRequest, TakeSpawn, history, SameHolder
  <2> QED BY <2>1, <2>2
<1> QED BY <1>1, <1>2, <1>3 DEF LinkInv

(* An answer to an open request that nobody holds.                         *)
LEMMA Refused ==
  ASSUME LinkInv, NEW r \in Requests, r \in calls \/ r \in reads, Notify(r, Failed),
         calls' \subseteq calls, reads' \subseteq reads, r \notin calls' \cup reads',
         \A x \in Requests \ {r} : (x \in calls' <=> x \in calls) /\ (x \in reads' <=> x \in reads),
         UNCHANGED <<state, known, job, position, requester, pending, toServer, toLoader,
                     loaderVars, asked, ran, forgotten>>
  PROVE  LinkInv'
<1>1. answers[r] = <<>> /\ ran[r] = None /\ r \in asked
  BY DEF LinkInv, OneRequest, Open
<1>2. answers' = [answers EXCEPT ![r] = <<Failed>>]
  BY <1>1 DEF Notify
<1>3. TypeOK'
  <2>1. <<Failed>> \in Seq(Nat)
    BY DEF Failed
  <2> QED BY <1>2, <2>1 DEF LinkInv, TypeOK, loaderVars
<1>4. Objects' /\ \A l \in Loaders : Protocol(l)' /\ \A x : SameHolder(l, x)
  BY LoadersAlone
<1>5. ASSUME NEW x \in Requests PROVE OneRequest(x)'
  <2>1. CASE x # r
    <3>1. answers'[x] = answers[x]
      BY <1>2, <2>1 DEF LinkInv, TypeOK
    <3> QED BY <1>4, <2>1, <3>1, RequestFrame DEF LinkInv, SameRequest
  <2>2. CASE x = r
    <3>1. ~Queued(r) /\ \A l \in Loaders : ~Holds(l, r)
      BY DEF LinkInv, OneRequest
    <3>2. ~Queued(r)' /\ \A l \in Loaders : ~Holds(l, r)'
      BY <1>4, <3>1 DEF Queued, SameHolder
    <3>3. answers'[r] = <<Failed>> /\ Len(<<Failed>>) = 1 /\ <<Failed>>[1] = Failed
      BY <1>2 DEF LinkInv, TypeOK
    <3> QED BY <1>1, <2>2, <3>2, <3>3 DEF LinkInv, OneRequest
  <2> QED BY <2>1, <2>2
<1> QED BY <1>3, <1>4, <1>5 DEF LinkInv

LEMMA RefuseSpawnStep ==
  ASSUME LinkInv, NEW r \in Requests, RefuseSpawn(r)
  PROVE  LinkInv'
<1>1. r \notin reads
  BY DEF RefuseSpawn, LinkInv, OneRequest
<1> QED BY <1>1, Refused DEF RefuseSpawn, serverVars

LEMMA RefusePathStep ==
  ASSUME LinkInv, NEW r \in Requests, RefusePath(r)
  PROVE  LinkInv'
<1>1. r \notin calls
  BY DEF RefusePath, LinkInv, OneRequest
<1> QED BY <1>1, Refused DEF RefusePath

LEMMA TakePathStep ==
  ASSUME LinkInv, NEW r \in Requests, TakePath(r)
  PROVE  LinkInv'
<1>1. pending \in Seq(Jobs) /\ r \in Jobs /\ pending' = Append(pending, r)
  BY DEF TakePath, LinkInv, TypeOK, Jobs
<1>2. TypeOK'
  BY <1>1 DEF TakePath, LinkInv, TypeOK, loaderVars, history
<1>3. Objects' /\ \A l \in Loaders : Protocol(l)' /\ \A x : SameHolder(l, x)
  BY LoadersAlone DEF TakePath
<1>4. /\ Len(pending') = Len(pending) + 1 /\ Len(pending) \in Nat
      /\ \A i \in 1 .. Len(pending) : pending'[i] = pending[i]
      /\ pending'[Len(pending) + 1] = r
  BY <1>1
<1>5. ASSUME NEW x \in Requests PROVE OneRequest(x)'
  <2>1. Open(x)' <=> Open(x)
    BY DEF Open, TakePath, history
  <2>2. CASE x # r
    <3>1. Queued(x)' <=> Queued(x)
      BY <1>4, <2>2 DEF Queued, Among
    <3>2. Once(pending', x)
      <4>1. \A i \in 1 .. Len(pending') : pending'[i] = x => i \in 1 .. Len(pending)
        BY <1>4, <2>2
      <4> QED BY <1>4, <4>1 DEF LinkInv, OneRequest, Once
    <3> QED BY <1>3, <2>1, <2>2, <3>1, <3>2
         DEF LinkInv, OneRequest, TakePath, history, SameHolder
  <2>3. CASE x = r
    <3>1. r \in reads /\ r \notin calls /\ Open(r) /\ ~Queued(r) /\ \A l \in Loaders : ~Holds(l, r)
      BY DEF TakePath, LinkInv, OneRequest
    <3>2. Once(pending', r)
      BY <1>4, <3>1 DEF Queued, Among, Once
    <3>3. Queued(r)'
      BY <1>4 DEF Queued, Among
    <3>4. r \in asked
      BY <3>1 DEF LinkInv, OneRequest
    <3> QED BY <1>3, <2>1, <2>3, <3>1, <3>2, <3>3, <3>4
         DEF LinkInv, OneRequest, TakePath, history, SameHolder
  <2> QED BY <2>2, <2>3
<1> QED BY <1>2, <1>3, <1>5 DEF LinkInv

-----------------------------------------------------------------------------
(* Serving a loader.                                                       *)

(* A job leaves the head of the queue, for good or for its end.            *)
LEMMA PendingMoves ==
  ASSUME NEW q \in Seq(Jobs), q # <<>>, NEW x \in Requests,
         Once(q, x),
         NEW n, n = IF Head(q) \in Preloads THEN Append(Tail(q), Head(q)) ELSE Tail(q)
  PROVE  /\ n \in Seq(Jobs)
         /\ Once(n, x) /\ (Among(n, x) <=> Among(q, x) /\ x # Head(q))
<1> USE DEF Once, Among
<1> DEFINE t == Tail(q)
<1>1. /\ t \in Seq(Jobs) /\ Len(q) \in Nat /\ Len(q) > 0 /\ Len(t) = Len(q) - 1
      /\ \A i \in 1 .. Len(t) : t[i] = q[i + 1]
      /\ Head(q) = q[1] /\ Head(q) \in Jobs
  BY HeadTailProperties
<1>2. /\ \A i, k \in 1 .. Len(t) : t[i] = x /\ t[k] = x => i = k
      /\ (\E i \in 1 .. Len(t) : t[i] = x) <=> (\E i \in 1 .. Len(q) : q[i] = x) /\ x # Head(q)
  <2>1. \A i, k \in 1 .. Len(t) : t[i] = x /\ t[k] = x => i = k
    <3> SUFFICES ASSUME NEW i \in 1 .. Len(t), NEW k \in 1 .. Len(t), t[i] = x, t[k] = x
                 PROVE  i = k
      OBVIOUS
    <3>1. i + 1 \in 1 .. Len(q) /\ k + 1 \in 1 .. Len(q) /\ q[i + 1] = x /\ q[k + 1] = x
      BY <1>1
    <3> QED BY <3>1
  <2>2. ASSUME NEW i \in 1 .. Len(t), t[i] = x
        PROVE  (\E k \in 1 .. Len(q) : q[k] = x) /\ x # Head(q)
    <3>1. i + 1 \in 1 .. Len(q) /\ q[i + 1] = x /\ 1 \in 1 .. Len(q) /\ i + 1 # 1
      BY <1>1, <2>2
    <3> QED BY <1>1, <3>1
  <2>3. ASSUME NEW i \in 1 .. Len(q), q[i] = x, x # Head(q)
        PROVE  \E k \in 1 .. Len(t) : t[k] = x
    <3>1. i # 1
      BY <1>1, <2>3
    <3>2. i - 1 \in 1 .. Len(t) /\ (i - 1) + 1 = i
      BY <1>1, <3>1
    <3> QED BY <1>1, <2>3, <3>2
  <2> QED BY <2>1, <2>2, <2>3
<1>3. CASE Head(q) \in Preloads
  <2>1. Head(q) # x
    BY <1>3, PoolAssumption
  <2>2. /\ n \in Seq(Jobs) /\ Len(n) = Len(t) + 1 /\ Len(t) \in Nat
        /\ \A i \in 1 .. Len(t) : n[i] = t[i]
        /\ n[Len(t) + 1] = Head(q)
    BY <1>1, <1>3, AppendProperties
  <2>3. \A i \in 1 .. Len(n) : n[i] = x => i \in 1 .. Len(t) /\ t[i] = x
    BY <2>1, <2>2
  <2>4. \A i \in 1 .. Len(t) : t[i] = x => i \in 1 .. Len(n) /\ n[i] = x
    BY <2>2
  <2> HIDE DEF t
  <2>5. \A i, k \in 1 .. Len(n) : n[i] = x /\ n[k] = x => i = k
    BY ONLY <1>2, <2>3 DEF Once
  <2>6. (\E i \in 1 .. Len(n) : n[i] = x) <=> (\E i \in 1 .. Len(t) : t[i] = x)
    BY ONLY <2>3, <2>4
  <2> QED BY ONLY <1>2, <2>2, <2>5, <2>6 DEF Once, Among
<1>4. CASE Head(q) \notin Preloads
  BY <1>1, <1>2, <1>4
<1> QED BY <1>3, <1>4

LEMMA Singleton ==
  ASSUME NEW x
  PROVE  /\ Append(<<>>, x) = <<x>> /\ Head(<<x>>) = x /\ Tail(<<x>>) = <<>>
         /\ <<x>> # <<>> /\ Len(<<x>>) = 1 /\ Len(<<>>) = 0
OBVIOUS

(* _serve_next_chunk to a loader whose queue is empty.                     *)
LEMMA Serving ==
  ASSUME TypeOK, NEW l \in Loaders, NEW j \in Jobs, NEW p \in Nat, p < Total(j),
         toLoader[l] = <<>>, ServeNext(l, j, p)
  PROVE  /\ toLoader'[l] = <<ChunkMsg(j, p)>> /\ position'[l] = p + ChunkLen(j, p)
         /\ state'[l] = IF position'[l] >= Total(j) THEN "waiting" ELSE "assigned"
         /\ \A k \in Loaders \ {l} : /\ toLoader'[k] = toLoader[k] /\ state'[k] = state[k]
                                     /\ position'[k] = position[k]
         /\ toLoader' \in [Loaders -> Seq(ChunkMsgs)] /\ position' \in [Loaders -> Nat]
         /\ state' \in [Loaders -> {"idle", "assigned", "waiting"}]
<1> DEFINE m == ChunkMsg(j, p)
<1>1. /\ toLoader' = [toLoader EXCEPT ![l] = <<m>>]
      /\ position' = [position EXCEPT ![l] = p + ChunkLen(j, p)]
      /\ state' = [state EXCEPT ![l] = IF p + ChunkLen(j, p) >= Total(j)
                                       THEN "waiting" ELSE "assigned"]
  <2>1. ~(p >= Total(j))
    BY ChunkBounds
  <2>2. Append(toLoader[l], m) = <<m>>
    BY Singleton
  <2> QED BY <2>1, <2>2 DEF ServeNext, TypeOK
<1>2. m \in ChunkMsgs /\ p + ChunkLen(j, p) \in Nat
  BY ChunkBounds DEF ChunkMsg, ChunkMsgs
<1>3. <<m>> \in Seq(ChunkMsgs)
  BY <1>2
<1> QED BY <1>1, <1>2, <1>3 DEF TypeOK

(* A loader the server can give a job to holds nothing and is owed nothing. *)
LEMMA IdleIsFree ==
  ASSUME NEW l \in Loaders, Protocol(l), l \in Idle
  PROVE  Free(l)
BY DEF Idle, Protocol, Restarted, Announcing, Loading, Progress, Asking, Running

LEMMA DispatchStep ==
  ASSUME LinkInv, NEW l \in Loaders, Dispatch(l)
  PROVE  LinkInv'
<1> DEFINE j == Head(pending)
<1>1. /\ pending \in Seq(Jobs) /\ pending # <<>> /\ j \in Jobs /\ Free(l)
      /\ pending' = IF j \in Preloads THEN Append(Tail(pending), j) ELSE Tail(pending)
  BY IdleIsFree DEF Dispatch, Dispatching, LinkInv, TypeOK
<1>2. 0 < Total(j) /\ Total(j) \in Nat
  BY <1>1, ImageAssumption DEF Total
<1>3. ServeNext(l, j, 0)
  BY DEF Dispatch
<1>4. /\ toLoader'[l] = <<ChunkMsg(j, 0)>> /\ position'[l] = 0 + ChunkLen(j, 0)
      /\ state'[l] = IF position'[l] >= Total(j) THEN "waiting" ELSE "assigned"
      /\ \A k \in Loaders \ {l} : /\ toLoader'[k] = toLoader[k] /\ state'[k] = state[k]
                                  /\ position'[k] = position[k]
      /\ toLoader' \in [Loaders -> Seq(ChunkMsgs)] /\ position' \in [Loaders -> Nat]
      /\ state' \in [Loaders -> {"idle", "assigned", "waiting"}]
  BY <1>1, <1>2, <1>3, Serving DEF LinkInv, Free
<1>5. /\ job' = [job EXCEPT ![l] = j]
      /\ requester' = [requester EXCEPT ![l] = IF j \in Requests THEN j ELSE None]
      /\ UNCHANGED <<known, calls, reads, toServer, pc, code, sizes, words,
                     asked, answers, ran, forgotten>>
  BY DEF Dispatch, loaderVars, history
<1>6. TypeOK'
  <2>1. pending' \in Seq(Jobs)
    BY <1>1
  <2> QED BY <1>1, <1>4, <1>5, <2>1 DEF LinkInv, TypeOK
<1>7. Objects'
  BY <1>5 DEF LinkInv, Objects
<1>8. \A k \in Loaders \ {l} : SameLoader(k)
  BY <1>4, <1>5 DEF LinkInv, TypeOK, SameLoader
<1>9. job'[l] = j /\ requester'[l] = (IF j \in Requests THEN j ELSE None) /\ state'[l] # "idle"
  BY <1>4, <1>5 DEF LinkInv, TypeOK
<1>10. Protocol(l)'
  <2>1. Progress(l, 0)'
    BY <1>1, <1>2, <1>5, <1>9, PartEnds DEF Free, Progress
  <2>2. Loading(l)'
    BY <1>1, <1>4, <1>5, <1>9, <2>1 DEF Free, Loading
  <2> QED BY <1>1, <1>5, <1>9, <2>2 DEF Protocol, Free
<1>11. ASSUME NEW k \in Loaders PROVE Protocol(k)'
  BY <1>8, <1>10, ProtocolFrame DEF LinkInv
<1>12. ASSUME NEW x \in Requests PROVE OneRequest(x)'
  <2>1. Once(pending', x) /\ (Queued(x)' <=> Queued(x) /\ x # j)
    <3>1. Once(pending, x)
      BY DEF LinkInv, OneRequest
    <3> QED BY <1>1, <3>1, PendingMoves DEF Queued
  <2>2. ~Holds(l, x) /\ (Holds(l, x)' <=> x = j) /\ ~RanBefore(l)'
    BY <1>1, <1>5, <1>9 DEF Free, Holds, RanBefore
  <2>3. \A k \in Loaders \ {l} : SameHolder(k, x)
    BY <1>8, SameLoaderHolds
  <2>4. Open(x)' <=> Open(x)
    BY <1>5 DEF Open
  <2>5. x = j => Queued(x)
    <3>1. 1 \in 1 .. Len(pending) /\ pending[1] = j
      BY <1>1
    <3> QED BY <3>1 DEF Queued, Among
  <2>6. CASE x = j
    <3>1. Open(x) /\ \A k \in Loaders : ~Holds(k, x)
      BY <2>5, <2>6 DEF LinkInv, OneRequest
    <3>2. x \notin calls /\ x \notin reads /\ x \in asked
      BY <2>5, <2>6 DEF LinkInv, OneRequest
    <3>3. \A k \in Loaders : Holds(k, x)' => k = l
      BY <2>3, <3>1 DEF SameHolder
    <3>4. answers'[x] = <<>> /\ ran'[x] = None
      BY <3>1, <1>5 DEF Open
    <3> QED BY <1>5, <2>1, <2>2, <2>4, <2>6, <3>1, <3>2, <3>3, <3>4
         DEF LinkInv, OneRequest
  <2>7. CASE x # j
    <3>1. \A k \in Loaders : SameHolder(k, x)
      BY <2>2, <2>3, <2>7 DEF SameHolder
    <3>2. Queued(x)' <=> Queued(x)
      BY <2>1, <2>7
    <3> QED BY <1>5, <2>1, <2>4, <3>1, <3>2 DEF LinkInv, OneRequest, SameHolder
  <2> QED BY <2>6, <2>7
<1> QED BY <1>6, <1>7, <1>11, <1>12 DEF LinkInv

(* A message that reached the server is gone from its queue.               *)
LEMMA Heard ==
  ASSUME LinkInv, NEW l \in Loaders, Hears(l)
  PROVE  /\ Announcing(l) \/ Asking(l)
         /\ toServer'[l] = <<>> /\ known' = known \cup {l}
         /\ \A k \in Loaders \ {l} : toServer'[k] = toServer[k]
         /\ toServer' \in [Loaders -> Seq([off : Nat, code : Nat])]
<1>1. Announcing(l) \/ Asking(l)
  BY DEF LinkInv, Protocol, Hears, Restarted, Free, Loading, Running
<1>2. Tail(toServer[l]) = <<>>
  BY <1>1, Singleton DEF Announcing, Asking
<1>3. toServer' = [toServer EXCEPT ![l] = <<>>]
  BY <1>2 DEF Hears
<1>4. <<>> \in Seq([off : Nat, code : Nat])
  OBVIOUS
<1> QED BY <1>1, <1>3, <1>4 DEF LinkInv, TypeOK, Hears

LEMMA AnnouncedStep ==
  ASSUME LinkInv, NEW l \in Loaders, Announced(l)
  PROVE  LinkInv'
<1> DEFINE r == requester[l]
           done == state[l] = "waiting" /\ r # None
           msg == Head(toServer[l])
<1>1. /\ Announcing(l) \/ Asking(l)
      /\ toServer'[l] = <<>> /\ known' = known \cup {l}
      /\ \A k \in Loaders \ {l} : toServer'[k] = toServer[k]
      /\ toServer' \in [Loaders -> Seq([off : Nat, code : Nat])]
  BY Heard DEF Announced
<1>2. Announcing(l) /\ msg.code = code[l]
  <2>1. ~Asking(l)
    BY DEF Announced, Asking, Progress
  <2> QED BY <1>1, <2>1 DEF Announcing
<1>3. /\ state' = [state EXCEPT ![l] = "idle"]
      /\ requester' = [requester EXCEPT ![l] = IF state[l] = "waiting" THEN None ELSE @]
      /\ position' = [position EXCEPT ![l] = IF state[l] = "waiting" THEN 0 ELSE @]
      /\ forgotten' \subseteq forgotten \cup {x \in {r} : r # None}
      /\ UNCHANGED <<job, pending, calls, reads, toLoader, pc, code, sizes, words, asked, ran>>
  BY DEF Announced, loaderVars
<1>4. answers' = IF done THEN [answers EXCEPT ![r] = Append(@, code[l] % 256)] ELSE answers
  BY <1>2 DEF Announced, Notify
<1>5. r # None => r \in Requests
  BY DEF LinkInv, TypeOK
<1>6. code[l] \in Nat /\ code[l] % 256 \in Nat
  BY DEF LinkInv, TypeOK
<1>7. done => Holds(l, r) /\ answers[r] = <<>> /\ ran[r] = code[l]
  <2>1. RanBefore(l)
    BY <1>2 DEF Announcing, RanBefore
  <2>2. done => Holds(l, r)
    BY <1>5 DEF LinkInv, Protocol, Holds
  <2> QED BY <1>5, <2>1, <2>2 DEF LinkInv, OneRequest
<1>8. done => answers' = [answers EXCEPT ![r] = <<code[l] % 256>>]
  <2>1. done => Append(answers[r], code[l] % 256) = <<code[l] % 256>>
    BY <1>7, Singleton
  <2> QED BY <1>4, <2>1
<1>9. TypeOK'
  <2>1. <<code[l] % 256>> \in Seq(Nat)
    BY <1>6
  <2>2. answers' \in [Requests -> Seq(Nat)]
    BY <1>4, <1>5, <1>8, <2>1 DEF LinkInv, TypeOK
  <2>3. /\ state' \in [Loaders -> {"idle", "assigned", "waiting"}]
        /\ requester' \in [Loaders -> Requests \cup {None}] /\ position' \in [Loaders -> Nat]
    BY <1>3 DEF LinkInv, TypeOK
  <2> QED BY <1>1, <1>3, <1>5, <2>2, <2>3 DEF LinkInv, TypeOK
<1>10. Objects'
  BY <1>3 DEF LinkInv, Objects
<1>11. \A k \in Loaders \ {l} : SameLoader(k)
  BY <1>1, <1>3 DEF LinkInv, TypeOK, SameLoader
<1>12. Protocol(l)'
  <2>1. state'[l] = "idle"
    BY <1>3 DEF LinkInv, TypeOK
  <2>2. Free(l)'
    BY <1>1, <1>2, <1>3, <2>1 DEF Announcing, Free
  <2> QED BY <2>1, <2>2 DEF Protocol
<1>13. ASSUME NEW k \in Loaders PROVE Protocol(k)'
  BY <1>11, <1>12, ProtocolFrame DEF LinkInv
<1>14. ASSUME NEW x \in Requests PROVE OneRequest(x)'
  <2>1. ~Holds(l, x)'
    BY <1>3 DEF LinkInv, TypeOK, Holds
  <2>2. \A k \in Loaders \ {l} : SameHolder(k, x)
    BY <1>11, SameLoaderHolds
  <2>3. Queued(x)' <=> Queued(x)
    BY <1>3 DEF Queued, Among
  <2>4. CASE done /\ x = r
    <3>1. Holds(l, x) /\ answers[x] = <<>> /\ ran[x] = code[l]
      BY <1>7, <2>4
    <3>2. answers'[x] = <<code[l] % 256>> /\ ran'[x] = code[l]
      BY <1>3, <1>8, <2>4, <3>1 DEF LinkInv, TypeOK
    <3>3. Len(answers'[x]) = 1 /\ answers'[x][1] = code[l] % 256
      BY <3>2
    <3>4. ran'[x] # None
      BY <1>6, <3>2, PoolAssumption
    <3>5. /\ x \notin calls /\ x \notin reads /\ ~Queued(x) /\ x \in asked
          /\ \A k \in Loaders \ {l} : ~Holds(k, x)
      BY <3>1 DEF LinkInv, OneRequest
    <3>6. \A k \in Loaders : ~Holds(k, x)'
      BY <2>1, <2>2, <3>5 DEF SameHolder
    <3>7. Once(pending', x)
      BY <1>3 DEF LinkInv, OneRequest
    <3> QED BY <1>3, <2>3, <3>2, <3>3, <3>4, <3>5, <3>6, <3>7 DEF OneRequest
  <2>5. CASE ~(done /\ x = r)
    <3>1. answers'[x] = answers[x]
      BY <1>4, <1>5, <2>5 DEF LinkInv, TypeOK
    <3>2. Open(x)' <=> Open(x)
      BY <1>3, <3>1 DEF Open
    <3> QED BY <1>3, <2>1, <2>2, <2>3, <3>1, <3>2 DEF LinkInv, OneRequest, SameHolder
  <2> QED BY <2>4, <2>5
<1> QED BY <1>9, <1>10, <1>13, <1>14 DEF LinkInv

LEMMA AcknowledgedStep ==
  ASSUME LinkInv, NEW l \in Loaders, Acknowledged(l)
  PROVE  LinkInv'
<1> DEFINE j == job[l]
<1>0. PICK p \in Nat : p = position[l]
  BY DEF LinkInv, TypeOK
<1>1. /\ Announcing(l) \/ Asking(l)
      /\ toServer'[l] = <<>> /\ known' = known \cup {l}
      /\ \A k \in Loaders \ {l} : toServer'[k] = toServer[k]
      /\ toServer' \in [Loaders -> Seq([off : Nat, code : Nat])]
  BY Heard DEF Acknowledged
<1>2. Asking(l) /\ l \in known
  <2>1. ~Announcing(l)
    BY DEF Acknowledged, Announcing
  <2> QED BY <1>1, <2>1 DEF Asking, Progress
<1>3. j \in Jobs /\ p < Total(j) /\ toLoader[l] = <<>> /\ state[l] = "assigned"
  BY <1>0, <1>2 DEF LinkInv, Protocol, Asking, Progress
<1>4. ServeNext(l, j, p)
  BY <1>0, <1>2 DEF Acknowledged, Asking
<1>5. /\ toLoader'[l] = <<ChunkMsg(j, p)>> /\ position'[l] = p + ChunkLen(j, p)
      /\ state'[l] = IF position'[l] >= Total(j) THEN "waiting" ELSE "assigned"
      /\ \A k \in Loaders \ {l} : /\ toLoader'[k] = toLoader[k] /\ state'[k] = state[k]
                                  /\ position'[k] = position[k]
      /\ toLoader' \in [Loaders -> Seq(ChunkMsgs)] /\ position' \in [Loaders -> Nat]
      /\ state' \in [Loaders -> {"idle", "assigned", "waiting"}]
  BY <1>3, <1>4, Serving DEF LinkInv
<1>6. UNCHANGED <<job, requester, pending, calls, reads, pc, code, sizes, words,
                  asked, answers, ran, forgotten>>
  BY DEF Acknowledged, loaderVars, history
<1>7. TypeOK'
  BY <1>1, <1>5, <1>6 DEF LinkInv, TypeOK
<1>8. Objects'
  BY <1>6 DEF LinkInv, Objects
<1>9. \A k \in Loaders \ {l} : SameLoader(k)
  BY <1>1, <1>5, <1>6 DEF SameLoader
<1>10. Protocol(l)'
  <2>1. Progress(l, p)'
    BY <1>0, <1>1, <1>2, <1>3, <1>6 DEF Asking, Progress
  <2>2. Loading(l)'
    BY <1>1, <1>3, <1>5, <1>6, <2>1 DEF Loading
  <2> QED BY <1>1, <1>3, <1>6, <2>2 DEF LinkInv, Protocol
<1>11. ASSUME NEW k \in Loaders PROVE Protocol(k)'
  BY <1>9, <1>10, ProtocolFrame DEF LinkInv
<1>12. ASSUME NEW x \in Requests PROVE OneRequest(x)'
  <2>1. SameHolder(l, x)
    <3>1. ~RanBefore(l) /\ ~RanBefore(l)'
      BY <1>1, <1>2, <1>6 DEF Asking, Progress, RanBefore
    <3> QED BY <1>3, <1>5, <1>6, <3>1 DEF SameHolder, Holds
  <2>2. \A k \in Loaders : SameHolder(k, x)
    BY <1>9, <2>1, SameLoaderHolds
  <2> QED BY <1>6, <2>2, RequestFrame DEF LinkInv, SameRequest
<1> QED BY <1>7, <1>8, <1>11, <1>12 DEF LinkInv

-----------------------------------------------------------------------------
(* The spare processors.                                                   *)

LEMMA AnnounceStep ==
  ASSUME LinkInv, NEW l \in Loaders, Announce(l)
  PROVE  LinkInv'
<1> DEFINE m == [off |-> 0, code |-> code[l]]
<1>1. Restarted(l)
  BY DEF LinkInv, Protocol, Announce, Announcing, Free, Loading, Asking, Running, Progress
<1>2. /\ toServer' = [toServer EXCEPT ![l] = <<m>>] /\ pc' = [pc EXCEPT ![l] = "loop"]
      /\ UNCHANGED <<serverVars, calls, toLoader, code, sizes, words, history>>
  <2>1. Append(toServer[l], m) = <<m>>
    BY <1>1, Singleton DEF Restarted
  <2> QED BY <2>1 DEF Announce, Tells
<1>3. TypeOK'
  <2>1. <<m>> \in Seq([off : Nat, code : Nat])
    BY DEF LinkInv, TypeOK
  <2> QED BY <1>2, <2>1 DEF LinkInv, TypeOK, serverVars, history
<1>4. Objects'
  BY <1>2 DEF LinkInv, Objects
<1>5. \A k \in Loaders \ {l} : SameLoader(k)
  BY <1>2 DEF LinkInv, TypeOK, SameLoader, serverVars
<1>6. toServer'[l] = <<m>> /\ pc'[l] = "loop"
  BY <1>2 DEF LinkInv, TypeOK
<1>7. Protocol(l)'
  <2>1. Announcing(l)'
    BY <1>1, <1>2, <1>6 DEF Restarted, Announcing, serverVars
  <2> QED BY <1>2, <2>1 DEF LinkInv, Protocol, serverVars
<1>8. ASSUME NEW k \in Loaders PROVE Protocol(k)'
  BY <1>5, <1>7, ProtocolFrame DEF LinkInv
<1>9. ASSUME NEW x \in Requests PROVE OneRequest(x)'
  <2>1. SameHolder(l, x)
    <3>1. RanBefore(l) /\ RanBefore(l)'
      BY <1>1, <1>6, Singleton DEF Restarted, RanBefore
    <3> QED BY <1>2, <3>1 DEF SameHolder, Holds, serverVars
  <2>2. \A k \in Loaders : SameHolder(k, x)
    BY <1>5, <2>1, SameLoaderHolds
  <2> QED BY <1>2, <2>2, RequestFrame DEF LinkInv, SameRequest, serverVars, history
<1> QED BY <1>3, <1>4, <1>8, <1>9 DEF LinkInv

LEMMA TakeChunkStep ==
  ASSUME LinkInv, NEW l \in Loaders, TakeChunk(l)
  PROVE  LinkInv'
<1> DEFINE j == job[l]
<1>1. Loading(l)
  BY DEF LinkInv, Protocol, TakeChunk, Restarted, Announcing, Free, Asking, Running, Progress
<1>2. PICK p \in Nat :
        /\ Progress(l, p) /\ toServer[l] = <<>> /\ toLoader[l] = <<ChunkMsg(j, p)>>
        /\ position[l] = p + ChunkLen(j, p)
        /\ state[l] = IF position[l] >= Total(j) THEN "waiting" ELSE "assigned"
  BY <1>1 DEF Loading
<1> DEFINE m == ChunkMsg(j, p)
           n == p + ChunkLen(j, p)
<1>3. /\ state[l] # "idle" /\ j \in Jobs /\ p < Total(j)
      /\ m.job = j /\ m.pos = p /\ m.len = ChunkLen(j, p)
      /\ m.text = TextSize[j] /\ m.data = DataSize[j] /\ Head(toLoader[l]) = m
      /\ n \in Nat /\ n > 0 /\ n <= Total(j) /\ Total(j) \in Nat
  BY <1>2, ChunkBounds DEF LinkInv, Protocol, Progress, ChunkMsg
<1>4. words' = [words EXCEPT ![l] = Part(j, n)]
  <2>1. Copied(words[l], m) = Part(j, n)
    BY <1>2, <1>3, CopiedPart DEF Progress
  <2> QED BY <1>3, <2>1 DEF TakeChunk
<1>5. sizes' = [sizes EXCEPT ![l] = <<TextSize[j], DataSize[j]>>]
  <2>1. (IF sizes[l] = <<>> THEN <<m.text, m.data>> ELSE sizes[l]) = <<TextSize[j], DataSize[j]>>
    BY <1>2, <1>3 DEF Progress
  <2> QED BY <1>3, <2>1 DEF TakeChunk
<1>6. toLoader' = [toLoader EXCEPT ![l] = <<>>]
  <2>1. Tail(toLoader[l]) = <<>>
    BY <1>2, Singleton
  <2> QED BY <2>1 DEF TakeChunk
<1>7. IF n = Total(j)
      THEN pc' = [pc EXCEPT ![l] = "guest"] /\ toServer' = toServer
      ELSE pc' = pc /\ toServer' = [toServer EXCEPT ![l] = <<[off |-> n, code |-> code[l]]>>]
  <2>1. m.pos + m.len = n /\ m.text + m.data = Total(j)
    BY <1>3 DEF Total
  <2>2. Append(toServer[l], [off |-> n, code |-> code[l]]) = <<[off |-> n, code |-> code[l]]>>
    BY <1>2, Singleton
  <2> QED BY <1>3, <2>1, <2>2 DEF TakeChunk, Tells
<1>8. UNCHANGED <<state, known, job, position, requester, pending, reads, calls, code,
                  asked, answers, ran, forgotten>>
  BY DEF TakeChunk, serverVars, history
<1>9. TypeOK'
  <2>1. <<[off |-> n, code |-> code[l]]>> \in Seq([off : Nat, code : Nat])
    BY <1>3 DEF LinkInv, TypeOK
  <2>2. toServer' \in [Loaders -> Seq([off : Nat, code : Nat])]
        /\ pc' \in [Loaders -> {"start", "loop", "guest"}]
    BY <1>7, <2>1 DEF LinkInv, TypeOK
  <2>3. toLoader' \in [Loaders -> Seq(ChunkMsgs)]
    BY <1>6 DEF LinkInv, TypeOK
  <2> QED BY <1>8, <2>2, <2>3 DEF LinkInv, TypeOK
<1>10. Objects'
  BY <1>4, <1>5 DEF LinkInv, Objects
<1>11. \A k \in Loaders \ {l} : SameLoader(k)
  BY <1>4, <1>5, <1>6, <1>7, <1>8 DEF LinkInv, TypeOK, Objects, SameLoader
<1>12. /\ words'[l] = Part(j, n) /\ sizes'[l] = <<TextSize[j], DataSize[j]>>
       /\ toLoader'[l] = <<>>
  BY <1>4, <1>5, <1>6 DEF LinkInv, TypeOK, Objects
<1>13. Protocol(l)'
  <2>1. CASE n = Total(j)
    <3>1. pc'[l] = "guest" /\ toServer'[l] = <<>>
      BY <1>2, <1>7, <2>1 DEF LinkInv, TypeOK
    <3>2. state[l] = "waiting" /\ l \in known
      BY <1>2, <1>3, <2>1 DEF Progress
    <3>3. words'[l] = Image(j)
      BY <1>3, <1>12, <2>1, PartEnds
    <3>4. Running(l)'
      BY <1>8, <1>12, <3>1, <3>2, <3>3 DEF Running
    <3> QED BY <1>8, <3>4 DEF LinkInv, Protocol
  <2>2. CASE n # Total(j)
    <3>1. pc'[l] = "loop" /\ toServer'[l] = <<[off |-> n, code |-> code[l]]>>
      BY <1>2, <1>7, <2>2 DEF LinkInv, TypeOK, Progress
    <3>2. n < Total(j) /\ state[l] = "assigned" /\ l \in known
      BY <1>2, <1>3, <2>2 DEF Progress
    <3>3. Progress(l, n)'
      BY <1>3, <1>8, <1>12, <3>1, <3>2 DEF Progress
    <3>4. Asking(l)'
      BY <1>2, <1>3, <1>8, <1>12, <3>1, <3>2, <3>3 DEF Asking
    <3> QED BY <1>8, <3>4 DEF LinkInv, Protocol
  <2> QED BY <2>1, <2>2
<1>14. ASSUME NEW k \in Loaders PROVE Protocol(k)'
  BY <1>11, <1>13, ProtocolFrame DEF LinkInv
<1>15. ASSUME NEW x \in Requests PROVE OneRequest(x)'
  <2>1. SameHolder(l, x)
    <3>1. ~RanBefore(l)
      BY <1>2 DEF Progress, RanBefore
    <3>2. ~RanBefore(l)'
      <4>1. CASE n = Total(j)
        BY <1>2, <1>7, <4>1 DEF LinkInv, TypeOK, RanBefore
      <4>2. CASE n # Total(j)
        <5>1. pc'[l] = "loop" /\ toServer'[l] = <<[off |-> n, code |-> code[l]]>>
          BY <1>2, <1>7, <4>2 DEF LinkInv, TypeOK, Progress
        <5>2. Head(toServer'[l]).off = n
          BY <5>1, Singleton
        <5> QED BY <1>3, <5>1, <5>2 DEF RanBefore
      <4> QED BY <4>1, <4>2
    <3> QED BY <1>8, <3>1, <3>2 DEF SameHolder, Holds
  <2>2. \A k \in Loaders : SameHolder(k, x)
    BY <1>11, <2>1, SameLoaderHolds
  <2> QED BY <1>8, <2>2, RequestFrame DEF LinkInv, SameRequest
<1> QED BY <1>9, <1>10, <1>14, <1>15 DEF LinkInv

(* The end of what the processor ran, and its reset.                       *)
LEMMA Ending ==
  ASSUME LinkInv, NEW l \in Loaders, NEW c \in Nat, Loading(l) \/ Running(l),
         ran' = [ran EXCEPT ![job[l]] = c], Reset(l, c),
         UNCHANGED <<serverVars, calls, toServer, asked, answers, forgotten>>
  PROVE  LinkInv'
<1> DEFINE j == job[l]
<1>1. state[l] # "idle" /\ j \in Jobs /\ l \in known /\ toServer[l] = <<>> /\ pc[l] # "start"
  BY DEF LinkInv, Protocol, Loading, Running, Progress
<1>2. TypeOK'
  BY <1>1 DEF LinkInv, TypeOK, Reset, serverVars
<1>3. Objects'
  BY DEF LinkInv, Objects, Reset
<1>4. \A k \in Loaders \ {l} : SameLoader(k)
  BY DEF LinkInv, TypeOK, Objects, Reset, SameLoader, serverVars
<1>5. /\ pc'[l] = "start" /\ code'[l] = c /\ sizes'[l] = <<>> /\ words'[l] = <<>>
      /\ toLoader'[l] = <<>>
  BY DEF LinkInv, TypeOK, Objects, Reset
<1>6. Protocol(l)'
  <2>1. Restarted(l)'
    BY <1>1, <1>5 DEF Restarted, serverVars
  <2> QED BY <2>1 DEF LinkInv, Protocol, serverVars
<1>7. ASSUME NEW k \in Loaders PROVE Protocol(k)'
  BY <1>4, <1>6, ProtocolFrame DEF LinkInv
<1>8. ASSUME NEW x \in Requests PROVE OneRequest(x)'
  <2>1. (Holds(l, x)' <=> Holds(l, x)) /\ RanBefore(l)'
    BY <1>5 DEF Holds, RanBefore, serverVars
  <2>2. \A k \in Loaders \ {l} : SameHolder(k, x)
    BY <1>4, SameLoaderHolds
  <2>3. Queued(x)' <=> Queued(x)
    BY DEF Queued, serverVars
  <2>4. CASE x = j
    <3>1. Holds(l, x)
      BY <1>1, <2>4 DEF Holds
    <3>2. answers'[x] = <<>> /\ ran'[x] = c
      BY <1>1, <2>4, <3>1 DEF LinkInv, TypeOK, OneRequest
    <3>3. /\ x \notin calls /\ x \notin reads /\ ~Queued(x) /\ x \in asked
          /\ \A k \in Loaders \ {l} : ~Holds(k, x)
      BY <3>1 DEF LinkInv, OneRequest
    <3>4. \A k \in Loaders : Holds(k, x)' => k = l
      BY <2>2, <3>3 DEF SameHolder
    <3>5. Once(pending', x) /\ Len(answers'[x]) <= 1
      BY <3>2, Singleton DEF LinkInv, OneRequest, serverVars
    <3> QED BY <1>5, <2>1, <2>3, <3>2, <3>3, <3>4, <3>5 DEF OneRequest, serverVars
  <2>5. CASE x # j
    <3>1. ran'[x] = ran[x]
      BY <2>5 DEF LinkInv, TypeOK, Jobs
    <3>2. SameHolder(l, x)
      BY <2>1, <2>5 DEF SameHolder, Holds
    <3> QED BY <2>2, <3>1, <3>2, RequestFrame DEF LinkInv, SameRequest, serverVars
  <2> QED BY <2>4, <2>5
<1> QED BY <1>2, <1>3, <1>7, <1>8 DEF LinkInv

LEMMA LoaderFailsStep ==
  ASSUME LinkInv, NEW l \in Loaders, LoaderFails(l)
  PROVE  LinkInv'
<1>1. Loading(l)
  BY DEF LinkInv, Protocol, LoaderFails, Restarted, Announcing, Free, Asking, Running, Progress
<1>2. Head(toLoader[l]).job = job[l]
  BY <1>1, Singleton DEF Loading, ChunkMsg
<1> QED BY <1>1, <1>2, Ending DEF LoaderFails, LoaderFailed

LEMMA GuestExitsStep ==
  ASSUME LinkInv, NEW l \in Loaders, NEW c \in Codes, GuestExits(l, c)
  PROVE  LinkInv'
<1>1. Running(l) /\ job[l] \in Jobs
  BY DEF LinkInv, Protocol, GuestExits, Restarted, Announcing, Free, Loading, Asking, Running, Progress
<1>2. <<"text", 0>> \in Places(job[l])
  BY <1>1, ImageAssumption DEF Places
<1>3. words[l][<<"text", 0>>][1] = job[l]
  BY <1>1, <1>2 DEF Running, Image
<1>4. c \in Nat
  BY ImageAssumption
<1> QED BY <1>1, <1>3, <1>4, Ending DEF GuestExits

-----------------------------------------------------------------------------
(* Every step keeps the invariant.                                         *)
LEMMA LinkStep == LinkInv /\ [Next]_vars => LinkInv'
<1> SUFFICES ASSUME LinkInv, [Next]_vars PROVE LinkInv'
  OBVIOUS
<1>1. CASE UNCHANGED vars
  <2>1. TypeOK' /\ \A r \in Requests : SameRequest(r)
    BY <1>1 DEF vars, LinkInv, TypeOK, SameRequest
  <2>2. Objects' /\ \A l \in Loaders : Protocol(l)' /\ \A r : SameHolder(l, r)
    BY <1>1, LoadersAlone DEF vars, loaderVars
  <2> QED BY <1>1, <2>1, <2>2, RequestFrame DEF vars, LinkInv
<1>2. ASSUME NEW r \in Requests, Ask(r) PROVE LinkInv'
  BY <1>2, AskStep
<1>3. CASE Serve
  BY <1>3, TakeSpawnStep, RefuseSpawnStep, TakePathStep, RefusePathStep, DispatchStep,
     AnnouncedStep, AcknowledgedStep DEF Serve
<1>4. ASSUME NEW l \in Loaders, Run(l) PROVE LinkInv'
  BY <1>4, AnnounceStep, TakeChunkStep, LoaderFailsStep, GuestExitsStep DEF Run
<1> QED BY <1>1, <1>2, <1>3, <1>4 DEF Next

(* The invariant holds always.                                             *)
LEMMA LinkCorrect == Spec => []LinkInv
BY LinkInit, LinkStep, PTL DEF Spec

(* Every variable keeps its type, whatever the pool and the images.        *)
THEOREM TypeCorrect == Spec => []TypeOK
<1>1. LinkInv => TypeOK
  BY DEF LinkInv
<1> QED BY <1>1, LinkCorrect, PTL

(* What runs in a loader's place is one whole image, every word where it   *)
(* belongs, and the one the server waits for.                              *)
LEMMA ImageExact == LinkInv => ExactImage
BY DEF LinkInv, Protocol, ExactImage, Restarted, Announcing, Free, Loading, Asking,
       Running, Progress

(* The loaders and the server never have two messages under way, and no    *)
(* acknowledgement is stale.                                               *)
LEMMA OneMessage == LinkInv => StopAndWait
<1>1. ASSUME LinkInv, NEW l \in Loaders
      PROVE  /\ Len(toServer[l]) + Len(toLoader[l]) <= 1
             /\ pc[l] # "loop" => toLoader[l] = <<>> /\ toServer[l] = <<>>
             /\ toServer[l] # <<>> /\ Head(toServer[l]).off > 0 =>
                  state[l] = "assigned" /\ Head(toServer[l]).off = position[l]
  <2>1. CASE Restarted(l) \/ Free(l) \/ Running(l)
    <3>1. toServer[l] = <<>> /\ toLoader[l] = <<>>
      BY <2>1 DEF Restarted, Free, Running
    <3>2. Len(<<>>) = 0
      OBVIOUS
    <3> QED BY <3>1, <3>2
  <2>2. CASE Announcing(l)
    BY <2>2, Singleton DEF Announcing
  <2>3. CASE Loading(l)
    BY <2>3, Singleton DEF Loading, Progress
  <2>4. CASE Asking(l)
    BY <2>4, Singleton DEF Asking, Progress
  <2> QED BY <1>1, <2>1, <2>2, <2>3, <2>4 DEF LinkInv, Protocol
<1> QED BY <1>1 DEF StopAndWait

(* The program a loader makes room for is exactly the one that was served, *)
(* and the exchange that serves it is stop-and-wait.                       *)
THEOREM TransferCorrect == Spec => []TransferExact
<1>1. LinkInv => TransferExact
  BY ImageExact, OneMessage DEF TransferExact
<1> QED BY <1>1, LinkCorrect, PTL

(* A client is answered once at most: with the failure of a program that   *)
(* was never started, or with the code its own program ended with.         *)
THEOREM ExitsReported == Spec => []ExitReported
<1>1. LinkInv => ExitReported
  BY DEF LinkInv, OneRequest, ExitReported
<1> QED BY <1>1, LinkCorrect, PTL
=============================================================================

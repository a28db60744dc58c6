------------------------- MODULE ObjectTableProofs -------------------------
(***************************************************************************)
(* Proofs about ObjectTable, for any number of generations above two, any  *)
(* capabilities that programs ask for and any bounds.                      *)
(***************************************************************************)
EXTENDS ObjectTable, Sequences, SequencesExt, SequenceTheorems, TLAPS

-----------------------------------------------------------------------------
(* The free list kept in step with the set of dead slots: the Python list  *)
(* operations have their counterparts on the set.                          *)

(* q lists every member of S exactly once and nothing else.                *)
Lists(q, S) ==
  /\ q \in Seq(S)
  /\ \A i, j \in 1..Len(q) : q[i] = q[j] => i = j
  /\ \A x \in S : \E i \in 1..Len(q) : q[i] = x

(* A sequence whose elements are all in S is a sequence over S.            *)
LEMMA SeqOver ==
  ASSUME NEW S, NEW T, NEW s \in Seq(T), \A i \in 1..Len(s) : s[i] \in S
  PROVE  s \in Seq(S)
<1>1. Len(s) \in Nat /\ s \in [1..Len(s) -> T]
  BY LenProperties
<1>2. s \in [1..Len(s) -> S]
  BY <1>1
<1> QED BY <1>1, <1>2, SeqDef

(* Deleting position k of a list.                                          *)
LEMMA RemoveAtProperties ==
  ASSUME NEW S, NEW s \in Seq(S), NEW k \in 1..Len(s)
  PROVE  /\ RemoveAt(s, k) \in Seq(S)
         /\ Len(RemoveAt(s, k)) = Len(s) - 1
         /\ \A j \in 1..(Len(s) - 1) :
              RemoveAt(s, k)[j] = IF j < k THEN s[j] ELSE s[j + 1]
<1> DEFINE a == SubSeq(s, 1, k - 1)
           b == SubSeq(s, k + 1, Len(s))
<1>1. Len(s) \in Nat /\ \A i \in 1..Len(s) : s[i] \in S
  BY ElementOfSeq
<1>2. /\ a \in Seq(S) /\ Len(a) = k - 1
      /\ \A j \in 1..(k - 1) : a[j] = s[j]
  BY <1>1, SubSeqProperties
<1>3. /\ b \in Seq(S) /\ Len(b) = Len(s) - k
      /\ \A j \in 1..(Len(s) - k) : b[j] = s[k + j]
  BY <1>1, SubSeqProperties
<1> HIDE DEF a, b
<1>4. /\ a \o b \in Seq(S) /\ Len(a \o b) = Len(s) - 1
      /\ \A j \in 1..(Len(s) - 1) :
           (a \o b)[j] = IF j <= k - 1 THEN a[j] ELSE b[j - (k - 1)]
  BY <1>1, <1>2, <1>3, ConcatProperties
<1>5. ASSUME NEW j \in 1..(Len(s) - 1)
      PROVE  (a \o b)[j] = IF j < k THEN s[j] ELSE s[j + 1]
  <2>1. CASE j < k
    BY <1>1, <1>2, <1>4, <2>1
  <2>2. CASE ~(j < k)
    <3>1. j - (k - 1) \in 1..(Len(s) - k) /\ k + (j - (k - 1)) = j + 1
      BY <1>1, <2>2
    <3> QED BY <1>1, <1>3, <1>4, <2>2, <3>1
  <2> QED BY <2>1, <2>2
<1> QED BY <1>4, <1>5 DEF RemoveAt, a, b

(* list.pop(0).                                                            *)
LEMMA ListsTail ==
  ASSUME NEW q, NEW S, Lists(q, S), q # <<>>
  PROVE  /\ Head(q) \in S
         /\ Lists(Tail(q), S \ {Head(q)})
<1>1. /\ q \in Seq(S) /\ Len(q) \in Nat /\ 1 \in 1..Len(q) /\ Head(q) = q[1]
      /\ Head(q) \in S
  BY DEF Lists
<1>2. /\ Tail(q) \in Seq(S) /\ Len(Tail(q)) = Len(q) - 1
      /\ \A i \in 1..Len(Tail(q)) : Tail(q)[i] = q[i + 1]
  BY <1>1, HeadTailProperties
<1>3. \A i \in 1..Len(Tail(q)) : Tail(q)[i] \in S \ {Head(q)}
  BY <1>1, <1>2 DEF Lists
<1>4. Tail(q) \in Seq(S \ {Head(q)})
  BY <1>2, <1>3, SeqOver
<1>5. \A i, j \in 1..Len(Tail(q)) : Tail(q)[i] = Tail(q)[j] => i = j
  BY <1>1, <1>2 DEF Lists
<1>6. \A x \in S \ {Head(q)} : \E i \in 1..Len(Tail(q)) : Tail(q)[i] = x
  <2> SUFFICES ASSUME NEW x \in S, x # Head(q)
               PROVE  \E i \in 1..Len(Tail(q)) : Tail(q)[i] = x
    OBVIOUS
  <2>1. PICK k \in 1..Len(q) : q[k] = x
    BY DEF Lists
  <2>2. k - 1 \in 1..Len(Tail(q)) /\ Tail(q)[k - 1] = x
    BY <1>1, <1>2, <2>1
  <2> QED BY <2>2
<1> QED BY <1>1, <1>4, <1>5, <1>6 DEF Lists

(* list.append of a new member.                                            *)
LEMMA ListsAppend ==
  ASSUME NEW q, NEW S, Lists(q, S), NEW x, x \notin S
  PROVE  Lists(Append(q, x), S \cup {x})
<1> DEFINE r == Append(q, x)
<1>1. /\ q \in Seq(S \cup {x}) /\ r \in Seq(S \cup {x}) /\ Len(r) = Len(q) + 1
      /\ Len(q) \in Nat
      /\ \A i \in 1..Len(r) : r[i] = IF i <= Len(q) THEN q[i] ELSE x
      /\ \A i \in 1..Len(q) : q[i] \in S
  BY DEF Lists
<1>2. \A i, j \in 1..Len(r) : r[i] = r[j] => i = j
  <2> SUFFICES ASSUME NEW i \in 1..Len(r), NEW j \in 1..Len(r), r[i] = r[j]
               PROVE  i = j
    OBVIOUS
  <2>1. CASE i <= Len(q) /\ j <= Len(q)
    <3>1. i \in 1..Len(q) /\ j \in 1..Len(q) /\ q[i] = q[j]
      BY <1>1, <2>1
    <3> QED BY <3>1 DEF Lists
  <2>2. CASE i > Len(q) /\ j > Len(q)
    BY <1>1, <2>2
  <2>3. CASE i <= Len(q) /\ j > Len(q)
    BY <1>1, <2>3
  <2>4. CASE i > Len(q) /\ j <= Len(q)
    BY <1>1, <2>4
  <2> QED BY <1>1, <2>1, <2>2, <2>3, <2>4
<1>3. \A y \in S \cup {x} : \E i \in 1..Len(r) : r[i] = y
  <2>1. r[Len(q) + 1] = x /\ Len(q) + 1 \in 1..Len(r)
    BY <1>1
  <2>2. ASSUME NEW y \in S PROVE \E i \in 1..Len(r) : r[i] = y
    <3>1. PICK k \in 1..Len(q) : q[k] = y
      BY DEF Lists
    <3>2. k \in 1..Len(r) /\ r[k] = y
      BY <1>1, <3>1
    <3> QED BY <3>2
  <2> QED BY <2>1, <2>2
<1> QED BY <1>1, <1>2, <1>3 DEF Lists

-----------------------------------------------------------------------------
Entry == [idx : DOMAIN slots, uses : Nat]

(* The number of reusable generations.                                     *)
Period == GenMod - 1

(* Sequences of descriptors, and what make_ref and free_object make.       *)
LEMMA Table ==
  ASSUME TypeOK
  PROVE  /\ Len(slots) \in Nat /\ DOMAIN slots = 1..Len(slots)
         /\ \A i \in DOMAIN slots : slots[i] \in Descriptor
         /\ Len(deferred) \in Nat /\ DOMAIN deferred = 1..Len(deferred)
         /\ \A k \in DOMAIN deferred : deferred[k] \in Entry
<1>1. slots \in Seq(Descriptor) /\ deferred \in Seq(Entry)
  BY DEF TypeOK, Entry
<1>2. /\ Len(slots) \in Nat /\ DOMAIN slots = 1..Len(slots)
      /\ \A i \in 1..Len(slots) : slots[i] \in Descriptor
  BY <1>1, LenProperties, ElementOfSeq
<1>3. /\ Len(deferred) \in Nat /\ DOMAIN deferred = 1..Len(deferred)
      /\ \A k \in 1..Len(deferred) : deferred[k] \in Entry
  BY <1>1, LenProperties, ElementOfSeq
<1> QED BY <1>2, <1>3

(* The next generation is one more, or wraps by the period.                *)
LEMMA NextGenType ==
  ASSUME NEW g \in Generation
  PROVE  /\ NextGen(g) \in Generation
         /\ NextGen(g) = g + 1 \/ NextGen(g) + Period = g + 1
BY GenAssumption DEF Generation, NextGen, Period

(* A new descriptor is a descriptor.                                       *)
LEMMA NewType ==
  ASSUME NEW g \in Generation, NEW u \in Nat, NEW caps \in SUBSET Caps,
         NEW task \in BOOLEAN
  PROVE  NewDescriptor(g, u, caps, task) \in Descriptor
<1>1. <<>> \in Seq(Ref)
  BY EmptySeq
<1> QED BY <1>1 DEF NewDescriptor, Descriptor

(* make_ref makes references.                                              *)
LEMMA RefType ==
  ASSUME NEW i \in Nat \ {0}, NEW d \in Descriptor, NEW caps \in SUBSET Caps,
         boot \in Nat
  PROVE  RefTo(i, d, caps) \in Ref
BY DEF RefTo, Ref, Descriptor

-----------------------------------------------------------------------------
(* Type correctness.                                                       *)

(* The empty table is well typed.                                          *)
LEMMA TypeInit == Init => TypeOK
BY EmptySeq DEF Init, TypeOK

(* What freeing slot i does to the table.                                  *)
LEMMA FreeSlotType ==
  ASSUME TypeOK, NEW i \in DOMAIN slots, FreeSlot(i)
  PROVE  /\ slots' \in Seq(Descriptor) /\ DOMAIN slots' = DOMAIN slots
         /\ free' \in Seq(DOMAIN slots)
         /\ slots'[i] = [slots[i] EXCEPT !.gen = NextGen(@), !.uses = @ + 1,
                                         !.live = FALSE]
         /\ \A j \in DOMAIN slots : j # i => slots'[j] = slots[j]
<1> DEFINE d == [slots[i] EXCEPT !.gen = NextGen(@), !.uses = @ + 1, !.live = FALSE]
<1>1. slots[i] \in Descriptor /\ slots[i].gen \in Generation
  BY Table DEF Descriptor
<1>2. d \in Descriptor
  <2>1. NextGen(slots[i].gen) \in Generation
    BY <1>1, NextGenType
  <2>2. slots[i].uses + 1 \in Nat
    BY <1>1 DEF Descriptor
  <2> QED BY <1>1, <2>1, <2>2 DEF Descriptor
<1>3. slots' = [slots EXCEPT ![i] = d]
  BY DEF FreeSlot
<1>4. slots' \in Seq(Descriptor) /\ DOMAIN slots' = DOMAIN slots
  BY <1>2, <1>3, ExceptSeq DEF TypeOK
<1>5. free' \in Seq(DOMAIN slots)
  BY AppendProperties DEF FreeSlot, TypeOK
<1> QED BY <1>3, <1>4, <1>5

(* What an allocation does to the table: descriptor d, just made, ends up  *)
(* in slot i, which was dead or is new.                                    *)
Placed(i, d, caps, task) ==
  /\ d \in Descriptor /\ d.live /\ d.caps = caps /\ d.queue = <<>>
  /\ i \in DOMAIN slots'
  /\ slots' \in Seq(Descriptor)
  /\ slots'[i] = d
  /\ \A j \in DOMAIN slots : j \in DOMAIN slots' /\ (j # i => slots'[j] = slots[j])
  /\ \A j \in DOMAIN slots' : j = i \/ j \in DOMAIN slots
  /\ refs' = refs \cup {RefTo(i, d, caps)}
  /\ RefTo(i, d, caps) \in Ref

(* Taking the head of the free list places a descriptor in its slot.       *)
LEMMA RecyclePlaces ==
  ASSUME TypeOK, NEW caps \in SUBSET Caps, NEW task \in BOOLEAN,
         Recycle(caps, task)
  PROVE  /\ Head(free) \in DOMAIN slots
         /\ Placed(Head(free), Recycled(Head(free), caps, task), caps, task)
         /\ DOMAIN slots' = DOMAIN slots
         /\ free' \in Seq(DOMAIN slots)
<1> DEFINE i == Head(free)
           d == Recycled(i, caps, task)
<1>1. i \in DOMAIN slots /\ Tail(free) \in Seq(DOMAIN slots)
  BY HeadTailProperties DEF Recycle, TypeOK
<1>2. slots[i] \in Descriptor /\ slots[i].gen \in Generation /\ slots[i].uses \in Nat
  BY <1>1, Table DEF Descriptor
<1>3. d \in Descriptor
  BY <1>2, NewType DEF Recycled
<1>4. d.live /\ d.caps = caps /\ d.queue = <<>>
  BY DEF Recycled, NewDescriptor
<1>5. i \in Nat \ {0}
  BY <1>1, Table
<1>6. RefTo(i, d, caps) \in Ref
  BY <1>3, <1>5, RefType DEF TypeOK
<1> HIDE DEF d
<1>7. slots' = [slots EXCEPT ![i] = d] /\ refs' = refs \cup {RefTo(i, d, caps)}
      /\ free' = Tail(free)
  BY DEF Recycle, d
<1>8. slots' \in Seq(Descriptor) /\ DOMAIN slots' = DOMAIN slots
  BY <1>1, <1>3, <1>7, ExceptSeq DEF TypeOK
<1>9. Placed(i, d, caps, task)
  BY <1>1, <1>3, <1>4, <1>6, <1>7, <1>8 DEF Placed
<1> QED BY <1>1, <1>7, <1>8, <1>9 DEF d

(* Extending the table places a descriptor in a new slot.                  *)
LEMMA ExtendPlaces ==
  ASSUME TypeOK, NEW caps \in SUBSET Caps, NEW task \in BOOLEAN,
         Extend(caps, task)
  PROVE  /\ Placed(Len(slots) + 1, NewDescriptor(1, 0, caps, task), caps, task)
         /\ DOMAIN slots' = DOMAIN slots \cup {Len(slots) + 1}
         /\ Len(slots) + 1 \notin DOMAIN slots
         /\ free' = free
<1> DEFINE i == Len(slots) + 1
           d == NewDescriptor(1, 0, caps, task)
<1>1. Len(slots) \in Nat /\ i \in Nat \ {0} /\ i \notin DOMAIN slots
  BY Table
<1>2. 1 \in Generation
  BY GenAssumption DEF Generation
<1>3. d \in Descriptor
  BY <1>2, NewType
<1>4. d.live /\ d.caps = caps /\ d.queue = <<>>
  BY DEF NewDescriptor
<1>5. RefTo(i, d, caps) \in Ref
  BY <1>1, <1>3, RefType DEF TypeOK
<1> HIDE DEF d
<1>6. slots' = Append(slots, d) /\ refs' = refs \cup {RefTo(i, d, caps)} /\ free' = free
  BY DEF Extend, d
<1>7. /\ slots' \in Seq(Descriptor) /\ Len(slots') = Len(slots) + 1
      /\ slots'[i] = d
      /\ \A j \in 1..Len(slots) : slots'[j] = slots[j]
  BY <1>1, <1>3, <1>6, AppendProperties DEF TypeOK
<1>8. DOMAIN slots' = 1..i /\ DOMAIN slots = 1..Len(slots)
  BY <1>1, <1>7
<1>9. Placed(i, d, caps, task)
  BY <1>1, <1>3, <1>4, <1>5, <1>6, <1>7, <1>8 DEF Placed
<1>10. DOMAIN slots' = DOMAIN slots \cup {i}
  BY <1>1, <1>8
<1> QED BY <1>1, <1>6, <1>9, <1>10 DEF d

(* Every step keeps the types, action by action.                           *)
LEMMA TypeStep == TypeOK /\ [Next]_vars => TypeOK'
<1> SUFFICES ASSUME TypeOK, [Next]_vars PROVE TypeOK'
  OBVIOUS
<1>t. /\ refs \in SUBSET Ref /\ boot \in Nat /\ Len(slots) \in Nat
      /\ DOMAIN slots = 1..Len(slots)
      /\ \A i \in DOMAIN slots : slots[i] \in Descriptor
  BY Table DEF TypeOK
<1>1. ASSUME NEW caps \in SUBSET Caps, NEW task \in BOOLEAN, Alloc(caps, task)
      PROVE  TypeOK'
  <2>1. CASE Recycle(caps, task)
    <3>1. /\ slots' \in Seq(Descriptor) /\ DOMAIN slots' = DOMAIN slots
          /\ free' \in Seq(DOMAIN slots) /\ refs' \in SUBSET Ref
      BY <1>t, <2>1, RecyclePlaces DEF Placed
    <3> QED BY <1>1, <3>1 DEF Alloc, TypeOK
  <2>2. CASE Extend(caps, task)
    <3> DEFINE n == Len(slots) + 1
               d == NewDescriptor(1, 0, caps, task)
    <3>p. /\ Placed(n, d, caps, task) /\ free' = free
          /\ DOMAIN slots' = DOMAIN slots \cup {n}
      BY <2>2, ExtendPlaces
    <3> HIDE DEF n, d
    <3>r. refs' \in SUBSET Ref /\ slots' \in Seq(Descriptor)
      BY <1>t, <3>p DEF Placed
    <3>1. /\ slots' \in Seq(Descriptor) /\ DOMAIN slots \subseteq DOMAIN slots'
          /\ free' = free /\ refs' \in SUBSET Ref
      BY <3>p, <3>r
    <3>2. free' \in Seq(DOMAIN slots')
      BY <3>1, SeqMonotonic DEF TypeOK
    <3>3. Seq(Entry) \subseteq Seq(Entry')
      <4>1. Entry \subseteq Entry'
        BY <3>1 DEF Entry
      <4> QED BY <4>1, SeqMonotonic
    <3> QED BY <1>1, <3>1, <3>2, <3>3 DEF Alloc, TypeOK, Entry
  <2> QED BY <1>1, <2>1, <2>2 DEF Alloc
<1>2. ASSUME NEW r \in refs, ObjFree(r) PROVE TypeOK'
  <2>1. r.idx \in DOMAIN slots /\ FreeSlot(r.idx)
    BY <1>2 DEF ObjFree, Valid
  <2>2. /\ slots' \in Seq(Descriptor) /\ DOMAIN slots' = DOMAIN slots
        /\ free' \in Seq(DOMAIN slots)
    BY <2>1, FreeSlotType
  <2> QED BY <1>2, <2>2 DEF ObjFree, TypeOK
<1>3. ASSUME NEW r \in refs, ObjFreeDeferred(r) PROVE TypeOK'
  <2>1. r.idx \in DOMAIN slots /\ slots[r.idx].uses \in Nat
    BY <1>3, <1>t DEF ObjFreeDeferred, Valid, Descriptor
  <2> DEFINE e == [idx |-> r.idx, uses |-> slots[r.idx].uses]
  <2>2. e \in Entry
    BY <2>1 DEF Entry
  <2> HIDE DEF e
  <2>3. deferred' = Append(deferred, e)
    BY <1>3 DEF ObjFreeDeferred, e
  <2>4. deferred' \in Seq(Entry)
    BY <2>2, <2>3, AppendProperties DEF TypeOK, Entry
  <2> QED BY <1>3, <2>4 DEF ObjFreeDeferred, TypeOK, Entry
<1>4. ASSUME NEW r \in refs, ReceiveQueueAttach(r) PROVE TypeOK'
  <2> DEFINE d == [slots[r.idx] EXCEPT !.attached = TRUE, !.queue = <<>>]
  <2>1. r.idx \in DOMAIN slots
    BY <1>4 DEF ReceiveQueueAttach, Valid
  <2>2. d \in Descriptor
    BY <1>t, <2>1, EmptySeq DEF Descriptor
  <2>3. slots' = [slots EXCEPT ![r.idx] = d]
    BY <1>4 DEF ReceiveQueueAttach
  <2>4. slots' \in Seq(Descriptor) /\ DOMAIN slots' = DOMAIN slots
    BY <2>1, <2>2, <2>3, ExceptSeq DEF TypeOK
  <2> QED BY <1>4, <2>4 DEF ReceiveQueueAttach, TypeOK
<1>5. ASSUME NEW r \in refs, InstallHandler(r) PROVE TypeOK'
  <2> DEFINE d == [slots[r.idx] EXCEPT !.handler = TRUE]
  <2>1. r.idx \in DOMAIN slots
    BY <1>5 DEF InstallHandler, Valid
  <2>2. d \in Descriptor
    BY <1>t, <2>1 DEF Descriptor
  <2>3. slots' = [slots EXCEPT ![r.idx] = d]
    BY <1>5 DEF InstallHandler
  <2>4. slots' \in Seq(Descriptor) /\ DOMAIN slots' = DOMAIN slots
    BY <2>1, <2>2, <2>3, ExceptSeq DEF TypeOK
  <2> QED BY <1>5, <2>4 DEF InstallHandler, TypeOK
<1>6. ASSUME NEW r \in refs, Arrive(r) PROVE TypeOK'
  <2>1. CASE r.idx \in DOMAIN slots /\ slots[r.idx].attached
    <3> DEFINE d == [slots[r.idx] EXCEPT !.queue = Append(@, r)]
    <3>1. Append(slots[r.idx].queue, r) \in Seq(Ref)
      BY <1>t, <2>1, AppendProperties DEF Descriptor
    <3>2. d \in Descriptor
      BY <1>t, <2>1, <3>1 DEF Descriptor
    <3>3. slots' = [slots EXCEPT ![r.idx] = d] /\ inbox' = inbox
      BY <1>6, <2>1 DEF Arrive
    <3>4. slots' \in Seq(Descriptor) /\ DOMAIN slots' = DOMAIN slots
      BY <2>1, <3>2, <3>3, ExceptSeq DEF TypeOK
    <3> QED BY <1>6, <3>3, <3>4 DEF Arrive, TypeOK
  <2>2. CASE ~(r.idx \in DOMAIN slots /\ slots[r.idx].attached)
    <3>1. inbox' = Append(inbox, r) /\ slots' = slots
      BY <1>6, <2>2 DEF Arrive
    <3>2. inbox' \in Seq(Ref)
      BY <1>t, <3>1, AppendProperties DEF TypeOK
    <3> QED BY <1>6, <3>1, <3>2 DEF Arrive, TypeOK
  <2> QED BY <2>1, <2>2
<1>7. ASSUME NEW i \in DOMAIN slots, TakeFirst(i) PROVE TypeOK'
  <2> DEFINE d == [slots[i] EXCEPT !.queue = Tail(@)]
  <2>1. Tail(slots[i].queue) \in Seq(Ref)
    BY <1>t, <1>7, HeadTailProperties DEF Descriptor, TakeFirst
  <2>2. d \in Descriptor
    BY <1>t, <2>1 DEF Descriptor
  <2>3. slots' = [slots EXCEPT ![i] = d]
    BY <1>7 DEF TakeFirst
  <2>4. slots' \in Seq(Descriptor) /\ DOMAIN slots' = DOMAIN slots
    BY <2>2, <2>3, ExceptSeq DEF TypeOK
  <2> QED BY <1>7, <2>4 DEF TakeFirst, TypeOK
<1>8. ASSUME NEW r \in refs, ReceiveQueuePoll(r) PROVE TypeOK'
  BY <1>7, <1>8 DEF ReceiveQueuePoll, Valid
<1>9. ASSUME NEW r \in refs, NEW mask \in Masks, ObjDerive(r, mask) PROVE TypeOK'
  <2>1. r \in Ref /\ r.caps \cap mask \in SUBSET Caps
    BY <1>t DEF Ref
  <2>2. [r EXCEPT !.caps = @ \cap mask] \in Ref
    BY <2>1 DEF Ref
  <2> QED BY <1>9, <2>2 DEF ObjDerive, TypeOK
<1>10. ASSUME NEW k \in DOMAIN deferred, Sweep(k) PROVE TypeOK'
  <2> DEFINE i == deferred[k].idx
  <2>1. /\ i \in DOMAIN slots /\ DOMAIN deferred = 1..Len(deferred)
        /\ deferred \in Seq(Entry)
    BY <1>10, Table DEF Entry, TypeOK
  <2>2. deferred' \in Seq(Entry)
    BY <1>10, <2>1, RemoveAtProperties DEF Sweep
  <2>3. /\ slots' \in Seq(Descriptor) /\ DOMAIN slots' = DOMAIN slots
        /\ free' \in Seq(DOMAIN slots)
    <3>1. CASE slots[i].live
      <4>1. FreeSlot(i)
        BY <1>10, <2>1, <3>1 DEF Sweep
      <4> QED BY <2>1, <4>1, FreeSlotType
    <3>2. CASE ~slots[i].live
      BY <1>10, <2>1, <3>2 DEF Sweep, TypeOK
    <3> QED BY <3>1, <3>2
  <2> QED BY <1>10, <2>2, <2>3 DEF Sweep, TypeOK, Entry
<1>11. CASE Dispatch
  <2>1. inbox' \in Seq(Ref) /\ Head(inbox) \in Ref
    BY <1>11, HeadTailProperties DEF Dispatch, TypeOK
  <2>2. refs' \in SUBSET Ref /\ active' \in BOOLEAN
    <3>1. CASE Valid(Head(inbox)) /\ slots[Head(inbox).idx].handler
      <4> DEFINE i == Head(inbox).idx
                 q == RefTo(i, slots[i], slots[i].caps)
      <4>1. i \in DOMAIN slots /\ i \in Nat \ {0} /\ slots[i] \in Descriptor
        BY <1>t, <3>1 DEF Valid
      <4>2. q \in Ref
        BY <1>t, <4>1, RefType DEF Descriptor
      <4>3. refs' = refs \cup {q} /\ active' = TRUE
        BY <1>11, <3>1 DEF Dispatch
      <4> QED BY <1>t, <4>2, <4>3
    <3>2. CASE ~(Valid(Head(inbox)) /\ slots[Head(inbox).idx].handler)
      BY <1>11, <1>t, <3>2 DEF Dispatch, TypeOK
    <3> QED BY <3>1, <3>2
  <2> QED BY <1>11, <2>1, <2>2 DEF Dispatch, TypeOK
<1>12. CASE Exit
  BY <1>12 DEF Exit, TypeOK
<1>13. CASE Reset
  <2>1. slots' = <<>> /\ free' = <<>> /\ deferred' = <<>> /\ inbox' = <<>>
    BY <1>13 DEF Reset
  <2>2. /\ slots' \in Seq(Descriptor) /\ free' \in Seq(DOMAIN slots')
        /\ deferred' \in Seq(Entry') /\ inbox' \in Seq(Ref)
    BY <2>1, EmptySeq
  <2> QED BY <1>13, <2>2 DEF Reset, TypeOK, Entry
<1>14. CASE UNCHANGED vars
  BY <1>14 DEF vars, TypeOK
<1>15. \A i \in DOMAIN slots : UnblockPoll(i) => TypeOK'
  BY <1>7 DEF UnblockPoll
<1>16. /\ AllocCaps \subseteq SUBSET Caps /\ TaskCaps \in SUBSET Caps
       /\ TRUE \in BOOLEAN /\ FALSE \in BOOLEAN
  BY CapsAssumption DEF TaskCaps, Caps
<1> QED
  BY <1>1, <1>2, <1>3, <1>4, <1>5, <1>6, <1>8, <1>9, <1>10, <1>11, <1>12, <1>13,
     <1>14, <1>15, <1>16 DEF Next

(* The variables keep their types in every behaviour.                      *)
THEOREM TableTypes == Spec => []TypeOK
BY TypeInit, TypeStep, PTL DEF Spec
-----------------------------------------------------------------------------
(* What a step can do to the slots and to the references.                  *)

Dead == {i \in DOMAIN slots : ~slots[i].live}

(* The free list, the strengthening of FreeListExact.                      *)
FreeInv == Lists(free, Dead)

SameObject(q, r) == q.idx = r.idx /\ q.gen = r.gen /\ q.boot = r.boot /\ q.uses = r.uses

(* No object comes or goes; a new reference is a weaker copy of an old     *)
(* one, or one to a live object with no more than its own capabilities.    *)
Keeps ==
  /\ DOMAIN slots' = DOMAIN slots /\ boot' = boot /\ free' = free
  /\ \A i \in DOMAIN slots :
       /\ slots'[i].gen = slots[i].gen /\ slots'[i].uses = slots[i].uses
       /\ slots'[i].live = slots[i].live /\ slots'[i].caps = slots[i].caps
  /\ \A q \in refs' :
       \/ q \in refs
       \/ \E r \in refs : SameObject(q, r) /\ q.caps \subseteq r.caps
       \/ \E i \in DOMAIN slots : slots[i].live /\ q = RefTo(i, slots[i], slots[i].caps)

(* An object is placed in slot i, dead so far or new.                      *)
Allocates(i, d, caps, task) ==
  /\ Placed(i, d, caps, task) /\ boot' = boot
  /\ i \in DOMAIN slots =>
       ~slots[i].live /\ d.gen = slots[i].gen /\ d.uses = slots[i].uses

(* The object in slot i is freed.                                          *)
Frees(i) ==
  /\ i \in DOMAIN slots /\ slots[i].live
  /\ FreeSlot(i) /\ refs' = refs /\ boot' = boot

(* The processor starts over.                                              *)
Restarts == slots' = <<>> /\ free' = <<>> /\ refs' = refs /\ boot' = boot + 1

(* The head of a complete free list is a dead slot.                        *)
LEMMA AllocStep ==
  ASSUME TypeOK, FreeInv, NEW caps \in SUBSET Caps, NEW task \in BOOLEAN,
         Alloc(caps, task)
  PROVE  \E i, d : Allocates(i, d, caps, task)
<1>1. CASE Recycle(caps, task)
  <2> DEFINE i == Head(free)
             d == Recycled(i, caps, task)
  <2>1. i \in Dead
    BY <1>1, ListsTail DEF FreeInv, Recycle
  <2>2. ~slots[i].live
    BY <2>1 DEF Dead
  <2>3. d.gen = slots[i].gen /\ d.uses = slots[i].uses
    BY DEF Recycled, NewDescriptor
  <2>4. Placed(i, d, caps, task)
    BY <1>1, RecyclePlaces
  <2>5. boot' = boot
    BY DEF Alloc
  <2> HIDE DEF i, d
  <2>6. Allocates(i, d, caps, task)
    BY <2>2, <2>3, <2>4, <2>5 DEF Allocates
  <2> QED BY <2>6
<1>2. CASE Extend(caps, task)
  <2> DEFINE i == Len(slots) + 1
             d == NewDescriptor(1, 0, caps, task)
  <2>1. Placed(i, d, caps, task) /\ i \notin DOMAIN slots
    BY <1>2, ExtendPlaces
  <2>2. boot' = boot
    BY DEF Alloc
  <2> HIDE DEF i, d
  <2>3. Allocates(i, d, caps, task)
    BY <2>1, <2>2 DEF Allocates
  <2> QED BY <2>3
<1> QED BY <1>1, <1>2 DEF Alloc

(* Changing the handler or the queue of slot i keeps the objects.          *)
LEMMA TouchKeeps ==
  ASSUME TypeOK, NEW i \in DOMAIN slots, NEW d,
         slots' = [slots EXCEPT ![i] = d],
         d.gen = slots[i].gen, d.uses = slots[i].uses,
         d.live = slots[i].live, d.caps = slots[i].caps,
         free' = free, boot' = boot, refs' = refs
  PROVE  Keeps
BY Table DEF Keeps

(* Every step allocates, frees, restarts or keeps the objects.             *)
LEMMA StepKinds ==
  ASSUME TypeOK, FreeInv, [Next]_vars
  PROVE  \/ \E caps \in SUBSET Caps, task \in BOOLEAN : Alloc(caps, task)
         \/ \E i : Frees(i)
         \/ Keeps
         \/ Restarts
<1>t. \A i \in DOMAIN slots : slots[i] \in Descriptor
  BY Table
<1>2. ASSUME NEW r \in refs, ObjFree(r) PROVE Frees(r.idx)
  BY <1>2 DEF ObjFree, Valid, Frees
<1>3. ASSUME NEW r \in refs, ObjFreeDeferred(r) PROVE Keeps
  BY <1>3 DEF ObjFreeDeferred, Keeps
<1>4. ASSUME NEW r \in refs, ReceiveQueueAttach(r) PROVE Keeps
  <2> DEFINE d == [slots[r.idx] EXCEPT !.attached = TRUE, !.queue = <<>>]
  <2>1. r.idx \in DOMAIN slots
    BY <1>4 DEF ReceiveQueueAttach, Valid
  <2>2. /\ d.gen = slots[r.idx].gen /\ d.uses = slots[r.idx].uses
        /\ d.live = slots[r.idx].live /\ d.caps = slots[r.idx].caps
    BY <1>t, <2>1 DEF Descriptor
  <2>3. /\ slots' = [slots EXCEPT ![r.idx] = d]
        /\ free' = free /\ boot' = boot /\ refs' = refs
    BY <1>4 DEF ReceiveQueueAttach
  <2> HIDE DEF d
  <2> QED BY <2>1, <2>2, <2>3, TouchKeeps
<1>5. ASSUME NEW r \in refs, InstallHandler(r) PROVE Keeps
  <2> DEFINE d == [slots[r.idx] EXCEPT !.handler = TRUE]
  <2>1. r.idx \in DOMAIN slots
    BY <1>5 DEF InstallHandler, Valid
  <2>2. /\ d.gen = slots[r.idx].gen /\ d.uses = slots[r.idx].uses
        /\ d.live = slots[r.idx].live /\ d.caps = slots[r.idx].caps
    BY <1>t, <2>1 DEF Descriptor
  <2>3. /\ slots' = [slots EXCEPT ![r.idx] = d]
        /\ free' = free /\ boot' = boot /\ refs' = refs
    BY <1>5 DEF InstallHandler
  <2> HIDE DEF d
  <2> QED BY <2>1, <2>2, <2>3, TouchKeeps
<1>6. ASSUME NEW r \in refs, Arrive(r) PROVE Keeps
  <2>1. CASE r.idx \in DOMAIN slots /\ slots[r.idx].attached
    <3> DEFINE d == [slots[r.idx] EXCEPT !.queue = Append(@, r)]
    <3>1. /\ d.gen = slots[r.idx].gen /\ d.uses = slots[r.idx].uses
          /\ d.live = slots[r.idx].live /\ d.caps = slots[r.idx].caps
      BY <1>t, <2>1 DEF Descriptor
    <3>2. /\ slots' = [slots EXCEPT ![r.idx] = d]
          /\ free' = free /\ boot' = boot /\ refs' = refs
      BY <1>6, <2>1 DEF Arrive
    <3> HIDE DEF d
    <3> QED BY <2>1, <3>1, <3>2, TouchKeeps
  <2>2. CASE ~(r.idx \in DOMAIN slots /\ slots[r.idx].attached)
    BY <1>6, <2>2 DEF Arrive, Keeps
  <2> QED BY <2>1, <2>2
<1>7. ASSUME NEW i \in DOMAIN slots, TakeFirst(i) PROVE Keeps
  <2> DEFINE d == [slots[i] EXCEPT !.queue = Tail(@)]
  <2>1. /\ d.gen = slots[i].gen /\ d.uses = slots[i].uses
        /\ d.live = slots[i].live /\ d.caps = slots[i].caps
    BY <1>t DEF Descriptor
  <2>2. /\ slots' = [slots EXCEPT ![i] = d]
        /\ free' = free /\ boot' = boot /\ refs' = refs
    BY <1>7 DEF TakeFirst
  <2> HIDE DEF d
  <2> QED BY <2>1, <2>2, TouchKeeps
<1>8. ASSUME NEW r \in refs, ReceiveQueuePoll(r) PROVE Keeps
  BY <1>7, <1>8 DEF ReceiveQueuePoll, Valid
<1>9. ASSUME NEW r \in refs, NEW mask \in Masks, ObjDerive(r, mask) PROVE Keeps
  <2> DEFINE q == [r EXCEPT !.caps = @ \cap mask]
  <2>1. SameObject(q, r) /\ q.caps \subseteq r.caps
    BY DEF SameObject, TypeOK, Ref
  <2>2. refs' = refs \cup {q} /\ slots' = slots /\ free' = free /\ boot' = boot
    BY <1>9 DEF ObjDerive
  <2> HIDE DEF q
  <2> QED BY <2>1, <2>2 DEF Keeps
<1>10. ASSUME NEW k \in DOMAIN deferred, Sweep(k)
       PROVE  (\E i : Frees(i)) \/ Keeps
  BY <1>10 DEF Sweep, Frees, Keeps
<1>11. CASE Dispatch
  <2> DEFINE i == Head(inbox).idx
  <2>1. CASE Valid(Head(inbox)) /\ slots[i].handler
    <3>1. /\ i \in DOMAIN slots /\ slots[i].live
          /\ refs' = refs \cup {RefTo(i, slots[i], slots[i].caps)}
      BY <1>11, <2>1 DEF Dispatch, Valid
    <3>2. slots' = slots /\ free' = free /\ boot' = boot
      BY <1>11 DEF Dispatch
    <3> HIDE DEF i
    <3> QED BY <3>1, <3>2 DEF Keeps
  <2>2. CASE ~(Valid(Head(inbox)) /\ slots[i].handler)
    BY <1>11, <2>2 DEF Dispatch, Keeps
  <2> QED BY <2>1, <2>2
<1>12. CASE Exit
  BY <1>12 DEF Exit, Keeps
<1>13. CASE Reset
  BY <1>13 DEF Reset, Restarts
<1>14. CASE UNCHANGED vars
  BY <1>14 DEF vars, Keeps
<1>15. \A i \in DOMAIN slots : UnblockPoll(i) => Keeps
  BY <1>7 DEF UnblockPoll
<1>16. /\ AllocCaps \subseteq SUBSET Caps /\ TaskCaps \in SUBSET Caps
       /\ TRUE \in BOOLEAN /\ FALSE \in BOOLEAN
  BY CapsAssumption DEF TaskCaps, Caps
<1> QED
  BY <1>2, <1>3, <1>4, <1>5, <1>6, <1>8, <1>9, <1>10, <1>11, <1>12, <1>13,
     <1>14, <1>15, <1>16 DEF Next

-----------------------------------------------------------------------------
(* The free list.                                                          *)

(* The empty table has no dead slot.                                       *)
LEMMA FreeInit == Init => FreeInv
<1> SUFFICES ASSUME Init PROVE FreeInv
  OBVIOUS
<1>1. free = <<>> /\ slots = <<>>
  BY DEF Init
<1>2. Dead = {}
  BY <1>1, EmptySeq DEF Dead
<1> QED BY <1>1, <1>2, EmptySeq DEF FreeInv, Lists

(* Freeing a live slot lists it.                                           *)
LEMMA FreeSlotLists ==
  ASSUME TypeOK, FreeInv, NEW i \in DOMAIN slots, slots[i].live, FreeSlot(i)
  PROVE  FreeInv'
<1>1. /\ DOMAIN slots' = DOMAIN slots /\ free' = Append(free, i)
      /\ \A j \in DOMAIN slots : j # i => slots'[j] = slots[j]
  BY FreeSlotType DEF FreeSlot
<1>2. ~slots'[i].live
  BY Table, FreeSlotType DEF Descriptor
<1>3. Dead' = Dead \cup {i}
  BY <1>1, <1>2 DEF Dead
<1>4. i \notin Dead
  BY DEF Dead
<1>5. Lists(Append(free, i), Dead \cup {i})
  BY <1>4, ListsAppend DEF FreeInv
<1> QED BY <1>1, <1>3, <1>5 DEF FreeInv

(* Recycling takes the slot off the list; extending leaves it empty.       *)
LEMMA AllocLists ==
  ASSUME TypeOK, FreeInv, NEW caps \in SUBSET Caps, NEW task \in BOOLEAN,
         Alloc(caps, task)
  PROVE  FreeInv'
<1>1. CASE Recycle(caps, task)
  <2> DEFINE i == Head(free)
             d == Recycled(i, caps, task)
  <2>1. /\ Placed(i, d, caps, task) /\ DOMAIN slots' = DOMAIN slots
        /\ i \in DOMAIN slots
    BY <1>1, RecyclePlaces
  <2>2. Lists(Tail(free), Dead \ {i}) /\ free' = Tail(free)
    BY <1>1, ListsTail DEF FreeInv, Recycle
  <2> HIDE DEF i, d
  <2>3. Dead' = Dead \ {i}
    BY <2>1 DEF Dead, Placed
  <2> QED BY <2>2, <2>3 DEF FreeInv
<1>2. CASE Extend(caps, task)
  <2> DEFINE i == Len(slots) + 1
             d == NewDescriptor(1, 0, caps, task)
  <2>1. /\ Placed(i, d, caps, task) /\ DOMAIN slots' = DOMAIN slots \cup {i}
        /\ i \notin DOMAIN slots /\ free' = free
    BY <1>2, ExtendPlaces
  <2> HIDE DEF i, d
  <2>2. Dead' = Dead
    BY <2>1 DEF Dead, Placed
  <2> QED BY <2>1, <2>2 DEF FreeInv
<1> QED BY <1>1, <1>2 DEF Alloc

(* Every step keeps the list exact.                                        *)
LEMMA FreeStep == TypeOK /\ FreeInv /\ [Next]_vars => FreeInv'
<1> SUFFICES ASSUME TypeOK, FreeInv, [Next]_vars PROVE FreeInv'
  OBVIOUS
<1>1. ASSUME NEW caps \in SUBSET Caps, NEW task \in BOOLEAN, Alloc(caps, task)
      PROVE  FreeInv'
  BY <1>1, AllocLists
<1>2. CASE Keeps
  <2>1. Dead' = Dead /\ free' = free
    BY <1>2 DEF Keeps, Dead
  <2> QED BY <2>1 DEF FreeInv
<1>3. CASE \E i : Frees(i)
  BY <1>3, FreeSlotLists DEF Frees
<1>4. CASE Restarts
  <2>1. Dead' = {} /\ free' = <<>>
    BY <1>4, EmptySeq DEF Restarts, Dead
  <2> QED BY <2>1, EmptySeq DEF FreeInv, Lists
<1> QED BY <1>1, <1>2, <1>3, <1>4, StepKinds

(* The invariant says what the property does.                              *)
LEMMA FreeInvExact == TypeOK /\ FreeInv => FreeListExact
<1> SUFFICES ASSUME TypeOK, FreeInv PROVE FreeListExact
  OBVIOUS
<1>1. /\ free \in Seq(Dead) /\ DOMAIN free = 1..Len(free)
      /\ \A k \in DOMAIN free : free[k] \in Dead
  BY LenProperties, ElementOfSeq DEF FreeInv, Lists
<1> QED BY <1>1 DEF FreeInv, Lists, FreeListExact, Dead

(* The free list holds exactly the dead slots, each once.                  *)
THEOREM FreeListCorrect == Spec => []FreeListExact
<1>1. Init => TypeOK /\ FreeInv
  BY TypeInit, FreeInit
<1>2. TypeOK /\ FreeInv /\ [Next]_vars => (TypeOK /\ FreeInv)'
  BY TypeStep, FreeStep
<1>3. TypeOK /\ FreeInv => FreeListExact
  BY FreeInvExact
<1> QED BY <1>1, <1>2, <1>3, PTL DEF Spec

-----------------------------------------------------------------------------
(* The references: how a reference relates to the slot it names.           *)

(* The slot's generation is that of the reference plus the number of times *)
(* the slot was freed in between, modulo the period.                       *)
InStep(r, d) ==
  d.uses < r.uses + Period =>
    \/ d.gen + r.uses = r.gen + d.uses
    \/ d.gen + Period + r.uses = r.gen + d.uses

(* A reference is no newer than its slot, older than a dead slot, and no   *)
(* stronger than the object it names.                                      *)
Follows(r, d) ==
  /\ r.uses <= d.uses
  /\ ~d.live => r.uses < d.uses
  /\ InStep(r, d)
  /\ r.uses = d.uses => r.caps \subseteq d.caps

Tracked(r) ==
  /\ r.boot <= boot
  /\ r.boot = boot => r.idx \in DOMAIN slots /\ Follows(r, slots[r.idx])

RefInv == \A r \in refs : Tracked(r)

(* A reference made from a live descriptor follows it.                     *)
LEMMA FreshFollows ==
  ASSUME NEW i \in Nat \ {0}, NEW d \in Descriptor, d.live, boot \in Nat,
         NEW caps \in SUBSET d.caps
  PROVE  Follows(RefTo(i, d, caps), d)
BY DEF Follows, InStep, RefTo, Descriptor, Generation

(* One more free of the slot is one more generation.                       *)
LEMMA FreeFollows ==
  ASSUME NEW r \in Ref, NEW d \in Descriptor, NEW e \in Descriptor, Follows(r, d),
         e.gen = NextGen(d.gen), e.uses = d.uses + 1
  PROVE  Follows(r, e)
<1>1. /\ r.uses \in Nat /\ d.uses \in Nat /\ e.uses \in Nat
      /\ r.gen \in Generation /\ d.gen \in Generation /\ e.gen \in Generation
  BY DEF Ref, Descriptor
<1>2. /\ r.gen \in Nat /\ r.gen >= 1 /\ r.gen <= Period
      /\ d.gen \in Nat /\ d.gen >= 1 /\ d.gen <= Period
      /\ e.gen \in Nat /\ e.gen >= 1 /\ e.gen <= Period
      /\ Period \in Nat
  BY <1>1, GenAssumption DEF Generation, Period
<1>3. e.gen = d.gen + 1 \/ e.gen + Period = d.gen + 1
  BY <1>1, NextGenType
<1>4. r.uses < e.uses
  BY <1>1 DEF Follows
<1>5. InStep(r, e)
  <2> SUFFICES ASSUME e.uses < r.uses + Period
               PROVE  \/ e.gen + r.uses = r.gen + e.uses
                      \/ e.gen + Period + r.uses = r.gen + e.uses
    BY DEF InStep
  <2>1. d.uses < r.uses + Period
    BY <1>1, <1>2
  <2>2. \/ d.gen + r.uses = r.gen + d.uses
        \/ d.gen + Period + r.uses = r.gen + d.uses
    BY <2>1 DEF Follows, InStep
  <2> QED BY <1>1, <1>2, <1>3, <2>2
<1> QED BY <1>1, <1>4, <1>5 DEF Follows

(* There is no reference at first.                                         *)
LEMMA RefInit == Init => RefInv
BY DEF Init, RefInv

(* An allocation: an old reference to the slot names an earlier occupant.  *)
LEMMA RefAllocates ==
  ASSUME TypeOK, RefInv, NEW i, NEW d, NEW caps \in SUBSET Caps, NEW task,
         Allocates(i, d, caps, task)
  PROVE  RefInv'
<1>1. /\ boot' = boot /\ d \in Descriptor /\ d.live /\ d.caps = caps
      /\ i \in DOMAIN slots' /\ slots'[i] = d
      /\ \A j \in DOMAIN slots : j \in DOMAIN slots' /\ (j # i => slots'[j] = slots[j])
      /\ refs' = refs \cup {RefTo(i, d, caps)}
      /\ slots' \in Seq(Descriptor)
  BY DEF Allocates, Placed
<1>2. i \in Nat \ {0}
  <2>1. DOMAIN slots' = 1..Len(slots')
    BY <1>1
  <2>2. Len(slots') \in Nat
    BY <1>1
  <2> QED BY <1>1, <2>1, <2>2
<1>3. ASSUME NEW r \in refs PROVE Tracked(r)'
  <2>1. Tracked(r) /\ r \in Ref
    BY DEF RefInv, TypeOK
  <2>2. ASSUME r.boot = boot
        PROVE  r.idx \in DOMAIN slots' /\ Follows(r, slots'[r.idx])
    <3>1. r.idx \in DOMAIN slots /\ Follows(r, slots[r.idx])
      BY <2>1, <2>2 DEF Tracked
    <3>2. CASE r.idx # i
      BY <1>1, <3>1, <3>2
    <3>3. CASE r.idx = i
      <4>1. /\ ~slots[i].live /\ d.gen = slots[i].gen /\ d.uses = slots[i].uses
        BY <3>1, <3>3 DEF Allocates
      <4>2. r.uses < d.uses /\ r.uses \in Nat /\ d.uses \in Nat
        BY <1>1, <2>1, <3>1, <3>3, <4>1 DEF Follows, Ref, Descriptor
      <4>3. InStep(r, d)
        BY <3>1, <3>3, <4>1 DEF Follows, InStep
      <4>4. Follows(r, d)
        BY <1>1, <4>2, <4>3 DEF Follows
      <4> QED BY <1>1, <3>3, <4>4
    <3> QED BY <3>2, <3>3
  <2> QED BY <1>1, <2>1, <2>2 DEF Tracked
<1>4. ASSUME NEW q, q = RefTo(i, d, caps) PROVE Tracked(q)'
  <2>1. Follows(q, d)
    BY <1>1, <1>2, <1>4, FreshFollows DEF TypeOK
  <2>2. q.idx = i /\ q.boot = boot /\ boot \in Nat
    BY <1>4 DEF RefTo, TypeOK
  <2>3. q.boot <= boot
    BY <2>2
  <2> QED BY <1>1, <2>1, <2>2, <2>3 DEF Tracked
<1> SUFFICES ASSUME NEW q \in refs' PROVE Tracked(q)'
  BY DEF RefInv
<1> QED BY <1>1, <1>3, <1>4

(* A free: every reference to the slot is now older than the slot.         *)
LEMMA RefFrees ==
  ASSUME TypeOK, RefInv, NEW i, Frees(i)
  PROVE  RefInv'
<1>1. i \in DOMAIN slots /\ FreeSlot(i) /\ refs' = refs /\ boot' = boot
  BY DEF Frees
<1>2. /\ DOMAIN slots' = DOMAIN slots
      /\ \A j \in DOMAIN slots : j # i => slots'[j] = slots[j]
      /\ \A j \in DOMAIN slots : slots[j] \in Descriptor /\ slots'[j] \in Descriptor
  <2>1. /\ slots' \in Seq(Descriptor) /\ DOMAIN slots' = DOMAIN slots
        /\ \A j \in DOMAIN slots : j # i => slots'[j] = slots[j]
    BY <1>1, FreeSlotType
  <2>2. DOMAIN slots' = 1..Len(slots')
    BY <2>1
  <2> QED BY <2>1, <2>2, Table, ElementOfSeq
<1>3. slots'[i].gen = NextGen(slots[i].gen) /\ slots'[i].uses = slots[i].uses + 1
  BY <1>1, <1>2, FreeSlotType DEF Descriptor
<1>4. ASSUME NEW r \in refs PROVE Tracked(r)'
  <2>1. Tracked(r) /\ r \in Ref
    BY DEF RefInv, TypeOK
  <2>2. ASSUME r.boot = boot
        PROVE  r.idx \in DOMAIN slots /\ Follows(r, slots'[r.idx])
    <3>1. r.idx \in DOMAIN slots /\ Follows(r, slots[r.idx])
      BY <2>1, <2>2 DEF Tracked
    <3>2. CASE r.idx # i
      BY <1>2, <3>1, <3>2
    <3>3. CASE r.idx = i
      BY <1>2, <1>3, <2>1, <3>1, <3>3, FreeFollows
    <3> QED BY <3>2, <3>3
  <2> QED BY <1>1, <1>2, <2>1, <2>2 DEF Tracked
<1> QED BY <1>1, <1>4 DEF RefInv

(* A copy, however weakened, follows what the original follows.            *)
LEMMA RefKeeps ==
  ASSUME TypeOK, RefInv, Keeps
  PROVE  RefInv'
<1> SUFFICES ASSUME NEW q \in refs' PROVE Tracked(q)'
  BY DEF RefInv
<1>1. /\ DOMAIN slots' = DOMAIN slots /\ boot' = boot
      /\ \A i \in DOMAIN slots :
           /\ slots'[i].gen = slots[i].gen /\ slots'[i].uses = slots[i].uses
           /\ slots'[i].live = slots[i].live /\ slots'[i].caps = slots[i].caps
  BY DEF Keeps
<1>2. ASSUME Tracked(q) PROVE Tracked(q)'
  BY <1>1, <1>2 DEF Tracked, Follows, InStep
<1>3. ASSUME NEW r \in refs, SameObject(q, r), q.caps \subseteq r.caps
      PROVE  Tracked(q)
  <2>1. Tracked(r)
    BY DEF RefInv
  <2> QED BY <1>3, <2>1 DEF Tracked, Follows, InStep, SameObject
<1>4. ASSUME NEW i \in DOMAIN slots, slots[i].live,
             q = RefTo(i, slots[i], slots[i].caps)
      PROVE  Tracked(q)
  <2>1. i \in Nat \ {0} /\ slots[i] \in Descriptor /\ boot \in Nat
    BY Table DEF TypeOK
  <2>2. Follows(q, slots[i])
    BY <1>4, <2>1, FreshFollows
  <2>3. q.idx = i /\ q.boot = boot
    BY <1>4 DEF RefTo
  <2> QED BY <2>1, <2>2, <2>3 DEF Tracked
<1>5. \/ q \in refs
      \/ \E r \in refs : SameObject(q, r) /\ q.caps \subseteq r.caps
      \/ \E i \in DOMAIN slots : slots[i].live /\ q = RefTo(i, slots[i], slots[i].caps)
  BY DEF Keeps
<1>6. q \in refs => Tracked(q)
  BY DEF RefInv
<1> QED BY <1>2, <1>3, <1>4, <1>5, <1>6

(* After a reset every reference is from an earlier boot.                  *)
LEMMA RefRestarts ==
  ASSUME TypeOK, RefInv, Restarts
  PROVE  RefInv'
<1> SUFFICES ASSUME NEW r \in refs PROVE Tracked(r)'
  BY DEF RefInv, Restarts
<1>1. r.boot <= boot /\ r.boot \in Nat /\ boot \in Nat /\ boot' = boot + 1
  BY DEF RefInv, Tracked, Restarts, TypeOK, Ref
<1> QED BY <1>1 DEF Tracked

(* Every step keeps the references in step with their slots.               *)
LEMMA RefStep == TypeOK /\ FreeInv /\ RefInv /\ [Next]_vars => RefInv'
<1> SUFFICES ASSUME TypeOK, FreeInv, RefInv, [Next]_vars PROVE RefInv'
  OBVIOUS
<1>1. ASSUME NEW caps \in SUBSET Caps, NEW task \in BOOLEAN, Alloc(caps, task)
      PROVE  RefInv'
  BY <1>1, AllocStep, RefAllocates
<1> QED BY <1>1, RefFrees, RefKeeps, RefRestarts, StepKinds

(* What the invariant says of names and of capabilities.                   *)
LEMMA RefInvNames == TypeOK /\ RefInv => NamesItsObject /\ CapsBounded
<1> SUFFICES ASSUME TypeOK, RefInv PROVE NamesItsObject /\ CapsBounded
  OBVIOUS
<1>1. ASSUME NEW r \in refs, Valid(r), Recent(r) PROVE slots[r.idx].uses = r.uses
  <2> DEFINE d == slots[r.idx]
  <2>1. /\ r.boot = boot /\ d.uses < r.uses + Period /\ d.gen = r.gen
        /\ r.idx \in DOMAIN slots
    BY <1>1 DEF Valid, Recent, Period
  <2>2. r.uses <= d.uses /\ InStep(r, d)
    BY <2>1 DEF RefInv, Tracked, Follows
  <2>3. r \in Ref /\ d \in Descriptor
    BY <2>1, Table DEF TypeOK
  <2>4. r.uses \in Nat /\ d.uses \in Nat /\ r.gen \in Nat
    BY <2>3 DEF Ref, Descriptor, Generation
  <2>5. Period \in Nat
    BY GenAssumption DEF Period
  <2> QED BY <2>1, <2>2, <2>4, <2>5 DEF InStep
<1>2. CapsBounded
  BY DEF CapsBounded, RefInv, Tracked, Follows
<1> QED BY <1>1, <1>2 DEF NamesItsObject

SafeInv == TypeOK /\ FreeInv /\ RefInv

(* The three parts are inductive together.                                 *)
LEMMA SafeSpec == Spec => []SafeInv
<1>1. Init => SafeInv
  BY TypeInit, FreeInit, RefInit DEF SafeInv
<1>2. SafeInv /\ [Next]_vars => SafeInv'
  BY TypeStep, FreeStep, RefStep DEF SafeInv
<1> QED BY <1>1, <1>2, PTL DEF Spec

(* A reference passes the check only while its own object is in the slot,  *)
(* as long as the slot has not been freed GenMod - 1 times since, and is   *)
(* never stronger than the object was allocated.                           *)
THEOREM RefsCorrect == Spec => []RefsSound
<1>1. SafeInv => RefsSound
  BY RefInvNames DEF SafeInv, RefsSound
<1> QED BY <1>1, SafeSpec, PTL

(* Both: no slot is handed out twice, and no reference outlives its object *)
(* in the slot.                                                            *)
THEOREM SlotsCorrect == Spec => []SlotsSound
<1>1. FreeListExact /\ RefsSound => SlotsSound
  BY DEF SlotsSound
<1> QED BY FreeListCorrect, RefsCorrect, <1>1, PTL

-----------------------------------------------------------------------------
(* The messages: what a queue or the inbox holds was sent through a        *)
(* reference that was handed out.                                          *)

(* References are never taken back, and the crossbar stays what it is.     *)
LEMMA RefsGrow ==
  ASSUME [Next]_vars
  PROVE  refs \subseteq refs' /\ socket' = socket
<1> DEFINE Grow == refs \subseteq refs' /\ socket' = socket
<1>1. ASSUME NEW caps \in SUBSET Caps, NEW task \in BOOLEAN, Alloc(caps, task)
      PROVE  Grow
  BY <1>1 DEF Alloc, Recycle, Extend
<1>2. /\ AllocCaps \subseteq SUBSET Caps /\ TaskCaps \in SUBSET Caps
      /\ TRUE \in BOOLEAN /\ FALSE \in BOOLEAN
  BY CapsAssumption DEF TaskCaps, Caps
<1>3. ASSUME NEW r \in refs,
             \/ ObjFree(r) \/ ObjFreeDeferred(r) \/ ReceiveQueueAttach(r)
             \/ InstallHandler(r) \/ Arrive(r) \/ ReceiveQueuePoll(r)
             \/ \E mask \in Masks : ObjDerive(r, mask)
      PROVE  Grow
  BY <1>3 DEF ObjFree, ObjFreeDeferred, ReceiveQueueAttach, InstallHandler, Arrive,
              ReceiveQueuePoll, TakeFirst, ObjDerive
<1>4. \A k \in DOMAIN deferred : Sweep(k) => Grow
  BY DEF Sweep
<1>5. \A i \in DOMAIN slots : UnblockPoll(i) => Grow
  BY DEF UnblockPoll, TakeFirst
<1>6. Dispatch \/ Exit \/ Reset \/ UNCHANGED vars => Grow
  BY DEF Dispatch, Exit, Reset, vars
<1> HIDE DEF Grow
<1>7. Grow
  BY <1>1, <1>2, <1>3, <1>4, <1>5, <1>6 DEF Next
<1> QED BY <1>7 DEF Grow

(* The message in slot i's queue that was sent through r.                  *)
Fits(r, i) ==
  /\ r \in refs /\ r.idx = i
  /\ ~socket /\ Recent(r) => r.uses = slots[i].uses

QueueInv ==
  \A i \in DOMAIN slots : slots[i].live =>
    \A k \in 1..Len(slots[i].queue) : Fits(slots[i].queue[k], i)

(* How a step changes the queue of a slot that is live after it.           *)
QueueKept(i) ==
  /\ i \in DOMAIN slots /\ slots[i].live
  /\ slots'[i].uses = slots[i].uses /\ boot' = boot
  /\ \/ slots'[i].queue = slots[i].queue
     \/ slots[i].queue # <<>> /\ slots'[i].queue = Tail(slots[i].queue)
     \/ \E r \in refs : /\ r.idx = i /\ (socket \/ Valid(r))
                        /\ slots'[i].queue = Append(slots[i].queue, r)

(* Where no queue is touched.                                              *)
LEMMA SameSlotsKeep ==
  ASSUME NEW i \in DOMAIN slots, slots'[i] = slots[i], slots'[i].live, boot' = boot
  PROVE  QueueKept(i)
BY DEF QueueKept

(* Every step keeps a queue, takes from it, adds to it, or starts it anew. *)
LEMMA QueueKinds ==
  ASSUME TypeOK, FreeInv, [Next]_vars, NEW i \in DOMAIN slots', slots'[i].live
  PROVE  slots'[i].queue = <<>> \/ QueueKept(i)
<1>t. \A j \in DOMAIN slots : slots[j] \in Descriptor
  BY Table
<1>1. ASSUME NEW caps \in SUBSET Caps, NEW task \in BOOLEAN, Alloc(caps, task)
      PROVE  slots'[i].queue = <<>> \/ QueueKept(i)
  <2>1. PICK j, d : Allocates(j, d, caps, task)
    BY <1>1, AllocStep
  <2>2. CASE i = j
    BY <2>1, <2>2 DEF Allocates, Placed
  <2>3. CASE i # j
    <3>1. i \in DOMAIN slots /\ slots'[i] = slots[i] /\ boot' = boot
      BY <2>1, <2>3 DEF Allocates, Placed
    <3> QED BY <3>1, SameSlotsKeep
  <2> QED BY <2>2, <2>3
<1>2. ASSUME NEW j \in DOMAIN slots, FreeSlot(j), boot' = boot PROVE QueueKept(i)
  <2>1. /\ DOMAIN slots' = DOMAIN slots /\ ~slots'[j].live
        /\ \A l \in DOMAIN slots : l # j => slots'[l] = slots[l]
    BY <1>2, <1>t, FreeSlotType DEF Descriptor
  <2> QED BY <1>2, <2>1, SameSlotsKeep
<1>3. ASSUME slots' = slots, boot' = boot PROVE QueueKept(i)
  BY <1>3, SameSlotsKeep
<1>4. ASSUME NEW j \in DOMAIN slots, NEW d, slots' = [slots EXCEPT ![j] = d],
             boot' = boot, i # j
      PROVE  QueueKept(i)
  <2>1. i \in DOMAIN slots /\ slots'[i] = slots[i]
    BY <1>4
  <2> QED BY <1>4, <2>1, SameSlotsKeep
<1>5. ASSUME NEW r \in refs, ReceiveQueueAttach(r)
      PROVE  slots'[i].queue = <<>> \/ QueueKept(i)
  <2>1. /\ r.idx \in DOMAIN slots /\ boot' = boot
        /\ slots' = [slots EXCEPT ![r.idx].attached = TRUE, ![r.idx].queue = <<>>]
    BY <1>5 DEF ReceiveQueueAttach, Valid
  <2>2. CASE i = r.idx
    BY <1>t, <2>1, <2>2 DEF Descriptor
  <2>3. CASE i # r.idx
    <3>1. slots' = [slots EXCEPT
                      ![r.idx] = [slots[r.idx] EXCEPT !.attached = TRUE, !.queue = <<>>]]
      BY <2>1
    <3> QED BY <1>4, <2>1, <2>3, <3>1
  <2> QED BY <2>2, <2>3
<1>6. ASSUME NEW r \in refs, InstallHandler(r) PROVE QueueKept(i)
  <2>1. /\ r.idx \in DOMAIN slots /\ boot' = boot
        /\ slots' = [slots EXCEPT ![r.idx] = [slots[r.idx] EXCEPT !.handler = TRUE]]
    BY <1>6 DEF InstallHandler, Valid
  <2>2. CASE i = r.idx
    BY <1>t, <2>1, <2>2 DEF Descriptor, QueueKept
  <2> QED BY <1>4, <2>1, <2>2
<1>7. ASSUME NEW r \in refs, Arrive(r) PROVE QueueKept(i)
  <2>1. CASE r.idx \in DOMAIN slots /\ slots[r.idx].attached
    <3>1. /\ boot' = boot /\ (socket \/ Valid(r))
          /\ slots' = [slots EXCEPT
               ![r.idx] = [slots[r.idx] EXCEPT !.queue = Append(@, r)]]
      BY <1>7, <2>1 DEF Arrive
    <3>2. CASE i = r.idx
      <4>1. /\ slots'[i].queue = Append(slots[i].queue, r)
            /\ slots'[i].uses = slots[i].uses /\ slots'[i].live = slots[i].live
        BY <1>t, <2>1, <3>1, <3>2 DEF Descriptor
      <4> QED BY <2>1, <3>1, <3>2, <4>1 DEF QueueKept
    <3> QED BY <1>4, <2>1, <3>1, <3>2
  <2>2. CASE ~(r.idx \in DOMAIN slots /\ slots[r.idx].attached)
    BY <1>3, <1>7, <2>2 DEF Arrive
  <2> QED BY <2>1, <2>2
<1>8. ASSUME NEW j \in DOMAIN slots, TakeFirst(j) PROVE QueueKept(i)
  <2>1. /\ boot' = boot /\ slots[j].queue # <<>>
        /\ slots' = [slots EXCEPT ![j] = [slots[j] EXCEPT !.queue = Tail(@)]]
    BY <1>8 DEF TakeFirst
  <2>2. CASE i = j
    <3>1. /\ slots'[i].queue = Tail(slots[i].queue)
          /\ slots'[i].uses = slots[i].uses /\ slots'[i].live = slots[i].live
      BY <1>t, <2>1, <2>2 DEF Descriptor
    <3> QED BY <2>1, <2>2, <3>1 DEF QueueKept
  <2> QED BY <1>4, <2>1, <2>2
<1>9. ASSUME NEW r \in refs, ReceiveQueuePoll(r) PROVE QueueKept(i)
  BY <1>8, <1>9 DEF ReceiveQueuePoll, Valid
<1>10. ASSUME NEW r \in refs, ObjFree(r) PROVE QueueKept(i)
  BY <1>2, <1>10 DEF ObjFree, Valid
<1>11. ASSUME NEW k \in DOMAIN deferred, Sweep(k) PROVE QueueKept(i)
  BY <1>2, <1>3, <1>11 DEF Sweep
<1>12. \A r \in refs, mask \in Masks : ObjDerive(r, mask) => QueueKept(i)
  BY <1>3 DEF ObjDerive
<1>13. \A r \in refs : ObjFreeDeferred(r) => QueueKept(i)
  BY <1>3 DEF ObjFreeDeferred
<1>14. Dispatch \/ Exit \/ UNCHANGED vars => QueueKept(i)
  BY <1>3 DEF Dispatch, Exit, vars
<1>15. ~Reset
  BY EmptySeq DEF Reset
<1>16. \A j \in DOMAIN slots : UnblockPoll(j) => QueueKept(i)
  BY <1>8 DEF UnblockPoll
<1>17. /\ AllocCaps \subseteq SUBSET Caps /\ TaskCaps \in SUBSET Caps
       /\ TRUE \in BOOLEAN /\ FALSE \in BOOLEAN
  BY CapsAssumption DEF TaskCaps, Caps
<1> QED
  BY <1>1, <1>5, <1>6, <1>7, <1>9, <1>10, <1>11, <1>12, <1>13, <1>14, <1>15, <1>16,
     <1>17 DEF Next

(* Messages stay with the object: a queue starts empty with each object,   *)
(* and what enters it in this process passed the check.                    *)
LEMMA QueueStep == SafeInv /\ QueueInv /\ [Next]_vars => QueueInv'
<1> SUFFICES ASSUME SafeInv, QueueInv, [Next]_vars,
                    NEW i \in DOMAIN slots', slots'[i].live,
                    NEW k \in 1..Len(slots'[i].queue),
                    NEW m, m = slots'[i].queue[k]
             PROVE  Fits(m, i)'
  BY DEF QueueInv
<1> DEFINE Q == slots[i].queue
           R == slots'[i].queue
<1>1. R # <<>>
  BY EmptySeq
<1>2. QueueKept(i)
  BY <1>1, QueueKinds DEF SafeInv
<1>3. Q \in Seq(Ref) /\ \A j \in 1..Len(Q) : Fits(Q[j], i)
  BY <1>2, Table DEF QueueKept, SafeInv, Descriptor, QueueInv
<1>4. refs \subseteq refs' /\ socket' = socket
  BY RefsGrow
<1>5. ASSUME NEW r, Fits(r, i) PROVE Fits(r, i)'
  BY <1>2, <1>4, <1>5 DEF Fits, Recent, QueueKept
<1>6. ASSUME NEW r \in refs, r.idx = i, socket \/ Valid(r) PROVE Fits(r, i)
  BY <1>6, RefInvNames DEF SafeInv, NamesItsObject, Fits
<1>7. Fits(m, i)
  <2>1. CASE R = Q
    BY <1>3, <2>1
  <2>2. CASE Q # <<>> /\ R = Tail(Q)
    <3>1. Len(Q) \in Nat /\ k \in 1..Len(Tail(Q)) /\ Len(Tail(Q)) = Len(Q) - 1
      BY <1>3, <2>2, HeadTailProperties
    <3>2. Tail(Q)[k] = Q[k + 1] /\ k + 1 \in 1..Len(Q)
      BY <1>3, <2>2, <3>1, HeadTailProperties
    <3> QED BY <1>3, <2>2, <3>2
  <2>3. ASSUME NEW r \in refs, r.idx = i, socket \/ Valid(r), R = Append(Q, r)
        PROVE  Fits(m, i)
    <3>1. r \in Ref
      BY DEF SafeInv, TypeOK
    <3>2. /\ Len(Append(Q, r)) = Len(Q) + 1 /\ Len(Q) \in Nat
          /\ \A j \in 1..Len(Q) : Append(Q, r)[j] = Q[j]
          /\ Append(Q, r)[Len(Q) + 1] = r
      BY <1>3, <3>1, AppendProperties
    <3>3. k \in 1..Len(Q) \/ k = Len(Q) + 1
      BY <2>3, <3>2
    <3> QED BY <1>3, <1>6, <2>3, <3>2, <3>3
  <2> QED BY <1>2, <2>1, <2>2, <2>3 DEF QueueKept
<1> QED BY <1>5, <1>7

(* In this process, a queue holds only messages sent to its object.        *)
THEOREM LocalQueueCorrect == Spec => []LocalQueueHoldsOwn
<1>1. Init => QueueInv
  BY EmptySeq DEF Init, QueueInv
<1>2. SafeInv /\ QueueInv /\ [Next]_vars => QueueInv'
  BY QueueStep
<1>3. SafeInv /\ QueueInv => LocalQueueHoldsOwn
  <2> SUFFICES ASSUME SafeInv, QueueInv, ~socket, NEW i \in DOMAIN slots,
                      slots[i].live, NEW k \in DOMAIN slots[i].queue,
                      Recent(slots[i].queue[k])
               PROVE  slots[i].queue[k].uses = slots[i].uses
    BY DEF LocalQueueHoldsOwn, QueueHoldsOwn
  <2>1. slots[i].queue \in Seq(Ref)
    BY Table DEF SafeInv, Descriptor
  <2>2. k \in 1..Len(slots[i].queue)
    BY <2>1
  <2> QED BY <2>2 DEF QueueInv, Fits
<1> QED BY <1>1, <1>2, <1>3, SafeSpec, PTL DEF Spec

-----------------------------------------------------------------------------
(* The handlers.                                                           *)

InboxInv == \A k \in 1..Len(inbox) : inbox[k] \in refs

(* Only Arrive puts a message into the inbox.                              *)
LEMMA InboxStep == TypeOK /\ InboxInv /\ [Next]_vars => InboxInv'
<1> SUFFICES ASSUME TypeOK, InboxInv, [Next]_vars PROVE InboxInv'
  OBVIOUS
<1>1. refs \subseteq refs' /\ inbox \in Seq(Ref)
  BY RefsGrow DEF TypeOK
<1>2. CASE inbox' = inbox
  BY <1>1, <1>2 DEF InboxInv
<1>3. ASSUME NEW r \in refs, inbox' = Append(inbox, r) PROVE InboxInv'
  <2>1. /\ r \in Ref
        /\ Len(inbox') = Len(inbox) + 1 /\ Len(inbox) \in Nat
        /\ \A j \in 1..Len(inbox) : inbox'[j] = inbox[j]
        /\ inbox'[Len(inbox) + 1] = r
    BY <1>1, <1>3, AppendProperties DEF TypeOK
  <2> QED BY <1>1, <2>1 DEF InboxInv
<1>4. CASE inbox # <<>> /\ inbox' = Tail(inbox)
  <2>1. /\ Len(inbox') = Len(inbox) - 1 /\ Len(inbox) \in Nat
        /\ \A j \in 1..Len(inbox') : inbox'[j] = inbox[j + 1]
    BY <1>1, <1>4, HeadTailProperties
  <2> QED BY <1>1, <2>1 DEF InboxInv
<1>5. CASE inbox' = <<>>
  BY <1>5, EmptySeq DEF InboxInv
<1>6. ASSUME NEW caps \in SUBSET Caps, NEW task \in BOOLEAN, Alloc(caps, task)
      PROVE  inbox' = inbox
  BY <1>6 DEF Alloc
<1>7. ASSUME NEW r \in refs,
             \/ ObjFree(r) \/ ObjFreeDeferred(r) \/ ReceiveQueueAttach(r)
             \/ InstallHandler(r) \/ ReceiveQueuePoll(r)
             \/ \E mask \in Masks : ObjDerive(r, mask)
      PROVE  inbox' = inbox
  BY <1>7 DEF ObjFree, ObjFreeDeferred, ReceiveQueueAttach, InstallHandler,
              ReceiveQueuePoll, TakeFirst, ObjDerive
<1>8. ASSUME NEW r \in refs, Arrive(r)
      PROVE  inbox' = inbox \/ inbox' = Append(inbox, r)
  BY <1>8 DEF Arrive
<1>9. \A k \in DOMAIN deferred : Sweep(k) => inbox' = inbox
  BY DEF Sweep
<1>10. \A i \in DOMAIN slots : UnblockPoll(i) => inbox' = inbox
  BY DEF UnblockPoll, TakeFirst
<1>11. Dispatch => inbox # <<>> /\ inbox' = Tail(inbox)
  BY DEF Dispatch
<1>12. Exit \/ UNCHANGED vars => inbox' = inbox
  BY DEF Exit, vars
<1>13. Reset => inbox' = <<>>
  BY DEF Reset
<1>14. /\ AllocCaps \subseteq SUBSET Caps /\ TaskCaps \in SUBSET Caps
       /\ TRUE \in BOOLEAN /\ FALSE \in BOOLEAN
  BY CapsAssumption DEF TaskCaps, Caps
<1> QED
  BY <1>2, <1>3, <1>4, <1>5, <1>6, <1>7, <1>8, <1>9, <1>10, <1>11, <1>12, <1>13,
     <1>14 DEF Next

(* Only a dispatch or a reset wakes an idle processor.                     *)
LEMMA WakesByDispatch ==
  ASSUME TypeOK, [Next]_vars, ~active, active', boot' = boot
  PROVE  Dispatch
<1>1. ASSUME NEW caps \in SUBSET Caps, NEW task \in BOOLEAN PROVE ~Alloc(caps, task)
  BY DEF Alloc
<1>2. ASSUME NEW r \in refs
      PROVE  ~(\/ ObjFree(r) \/ ObjFreeDeferred(r) \/ ReceiveQueueAttach(r)
               \/ InstallHandler(r) \/ Arrive(r) \/ ReceiveQueuePoll(r)
               \/ \E mask \in Masks : ObjDerive(r, mask))
  BY DEF ObjFree, ObjFreeDeferred, ReceiveQueueAttach, InstallHandler, Arrive,
         ReceiveQueuePoll, ObjDerive
<1>3. \A k \in DOMAIN deferred : ~Sweep(k)
  BY DEF Sweep
<1>4. \A i \in DOMAIN slots : ~UnblockPoll(i)
  BY DEF UnblockPoll
<1>5. ~Exit /\ ~UNCHANGED vars
  BY DEF Exit, vars
<1>6. ~Reset
  BY DEF Reset, TypeOK
<1>7. /\ AllocCaps \subseteq SUBSET Caps /\ TaskCaps \in SUBSET Caps
      /\ TRUE \in BOOLEAN /\ FALSE \in BOOLEAN
  BY CapsAssumption DEF TaskCaps, Caps
<1> QED BY <1>1, <1>2, <1>3, <1>4, <1>5, <1>6, <1>7 DEF Next

(* A handler is started only for the object its message was sent to.       *)
THEOREM HandlerCorrect == Spec => HandlerForItsObject
<1> DEFINE Dispatched ==
      ~active /\ active' /\ boot' = boot =>
        LET r == Head(inbox)
        IN Recent(r) => slots[r.idx].live /\ slots[r.idx].uses = r.uses
<1>1. Init => InboxInv
  BY EmptySeq DEF Init, InboxInv
<1>2. TypeOK /\ InboxInv /\ [Next]_vars => InboxInv'
  BY InboxStep
<1>3. SafeInv /\ InboxInv /\ [Next]_vars => [Dispatched]_vars
  <2> SUFFICES ASSUME SafeInv, InboxInv, [Next]_vars, ~active, active', boot' = boot,
                      NEW r, r = Head(inbox), Recent(r)
               PROVE  slots[r.idx].live /\ slots[r.idx].uses = r.uses
    OBVIOUS
  <2>1. Dispatch
    BY WakesByDispatch DEF SafeInv
  <2>2. inbox # <<>> /\ Valid(r)
    BY <2>1 DEF Dispatch
  <2>3. r \in refs
    <3>1. inbox \in Seq(Ref)
      BY DEF SafeInv, TypeOK
    <3>2. 1 \in 1..Len(inbox) /\ r = inbox[1]
      BY <2>2, <3>1
    <3> QED BY <3>2 DEF InboxInv
  <2> QED BY <2>2, <2>3, RefInvNames DEF SafeInv, NamesItsObject, Valid
<1>4. Spec => []InboxInv
  <2>1. SafeInv /\ InboxInv /\ [Next]_vars => InboxInv'
    BY <1>2 DEF SafeInv
  <2> QED BY <1>1, <2>1, SafeSpec, PTL DEF Spec
<1> QED BY <1>3, <1>4, SafeSpec, PTL DEF Spec, HandlerForItsObject

-----------------------------------------------------------------------------
(* The deferred frees, where a program never frees an object whose         *)
(* deferred free is pending.                                               *)

(* Every pending free is for the object that is in its slot now, and no    *)
(* two are for the same.                                                   *)
DeferredInv ==
  /\ \A k \in 1..Len(deferred) :
       /\ slots[deferred[k].idx].live
       /\ slots[deferred[k].idx].uses = deferred[k].uses
  /\ \A k, l \in 1..Len(deferred) : deferred[k].idx = deferred[l].idx => k = l

(* The steps that matter to a pending free.                                *)
LEMMA DeferredKinds ==
  ASSUME TypeOK, FreeInv, [Next]_vars
  PROVE  \/ \E caps \in SUBSET Caps, task \in BOOLEAN : Alloc(caps, task)
         \/ \E r \in refs : ObjFree(r) \/ ObjFreeDeferred(r)
         \/ \E k \in DOMAIN deferred : Sweep(k)
         \/ Reset
         \/ Keeps /\ deferred' = deferred
<1> DEFINE Quiet == free' = free /\ boot' = boot /\ deferred' = deferred
<1>1. ASSUME NEW r \in refs,
             \/ ReceiveQueueAttach(r) \/ InstallHandler(r) \/ Arrive(r)
             \/ ReceiveQueuePoll(r) \/ \E mask \in Masks : ObjDerive(r, mask)
      PROVE  Quiet
  BY <1>1 DEF ReceiveQueueAttach, InstallHandler, Arrive, ReceiveQueuePoll, TakeFirst,
              ObjDerive
<1>2. \A i \in DOMAIN slots : UnblockPoll(i) => Quiet
  BY DEF UnblockPoll, TakeFirst
<1>3. Dispatch \/ Exit \/ UNCHANGED vars => Quiet
  BY DEF Dispatch, Exit, vars
<1>4. ASSUME Quiet
      PROVE  Keeps \/ \E caps \in SUBSET Caps, task \in BOOLEAN : Alloc(caps, task)
  <2>1. ~\E i : Frees(i)
    <3> SUFFICES ASSUME NEW i, Frees(i) PROVE FALSE
      OBVIOUS
    <3>1. free' = Append(free, i) /\ free \in Seq(DOMAIN slots) /\ i \in DOMAIN slots
      BY DEF Frees, FreeSlot, TypeOK
    <3>2. Len(free') = Len(free) + 1 /\ Len(free) \in Nat
      BY <3>1, AppendProperties
    <3> QED BY <1>4, <3>2
  <2>2. ~Restarts
    BY <1>4 DEF Restarts, TypeOK
  <2> QED BY <2>1, <2>2, StepKinds
<1>5. /\ AllocCaps \subseteq SUBSET Caps /\ TaskCaps \in SUBSET Caps
      /\ TRUE \in BOOLEAN /\ FALSE \in BOOLEAN
  BY CapsAssumption DEF TaskCaps, Caps
<1>6. CASE Quiet
  BY <1>4, <1>6
<1>7. CASE ~Quiet
  <2> HIDE DEF Quiet
  <2> QED BY <1>1, <1>2, <1>3, <1>5, <1>7 DEF Next
<1> QED BY <1>6, <1>7

(* Where every pending free is its object's own, freeing any other slot    *)
(* leaves them so.                                                         *)
LEMMA DeferredOthers ==
  ASSUME TypeOK, DeferredInv, NEW i \in DOMAIN slots, FreeSlot(i), NEW k \in 1..Len(deferred),
         deferred[k].idx # i
  PROVE  /\ slots'[deferred[k].idx].live
         /\ slots'[deferred[k].idx].uses = deferred[k].uses
<1>1. deferred[k].idx \in DOMAIN slots
  BY Table DEF Entry
<1>2. slots'[deferred[k].idx] = slots[deferred[k].idx]
  BY <1>1, FreeSlotType
<1> QED BY <1>2 DEF DeferredInv

(* Under the assumption, a slot with a pending free is freed by that free. *)
LEMMA DeferredStep ==
  ASSUME ~FreeAgain, TypeOK, FreeInv, DeferredInv, [Next]_vars
  PROVE  DeferredInv'
<1>t. /\ Len(deferred) \in Nat /\ DOMAIN deferred = 1..Len(deferred)
      /\ deferred \in Seq(Entry)
      /\ \A k \in 1..Len(deferred) : deferred[k].idx \in DOMAIN slots
  BY Table DEF Entry, TypeOK
<1>1. ASSUME NEW caps \in SUBSET Caps, NEW task \in BOOLEAN, Alloc(caps, task)
      PROVE  DeferredInv'
  <2>1. PICK i, d : Allocates(i, d, caps, task)
    BY <1>1, AllocStep
  <2>2. deferred' = deferred
    BY <1>1 DEF Alloc
  <2>3. \A k \in 1..Len(deferred) : slots'[deferred[k].idx] = slots[deferred[k].idx]
    BY <1>t, <2>1 DEF Allocates, Placed, DeferredInv
  <2> QED BY <2>2, <2>3 DEF DeferredInv
<1>2. ASSUME NEW r \in refs, ObjFree(r) PROVE DeferredInv'
  <2>1. /\ r.idx \in DOMAIN slots /\ FreeSlot(r.idx) /\ deferred' = deferred
        /\ ~Condemned(r.idx)
    BY <1>2 DEF ObjFree, Valid
  <2>2. \A k \in 1..Len(deferred) : deferred[k].idx # r.idx
    BY <1>t, <2>1 DEF Condemned, DeferredInv
  <2>3. \A k \in 1..Len(deferred) :
          /\ slots'[deferred[k].idx].live
          /\ slots'[deferred[k].idx].uses = deferred[k].uses
    BY <2>1, <2>2, DeferredOthers
  <2> QED BY <2>1, <2>3 DEF DeferredInv
<1>3. ASSUME NEW r \in refs, ObjFreeDeferred(r) PROVE DeferredInv'
  <2> DEFINE e == [idx |-> r.idx, uses |-> slots[r.idx].uses]
  <2>1. /\ r.idx \in DOMAIN slots /\ slots[r.idx].live /\ slots' = slots
        /\ ~Condemned(r.idx)
    BY <1>3 DEF ObjFreeDeferred, Valid
  <2>2. e \in Entry /\ e.idx = r.idx /\ e.uses = slots[r.idx].uses
    BY <2>1, Table DEF Entry, Descriptor
  <2>3. \A k \in 1..Len(deferred) : deferred[k].idx # r.idx
    BY <1>t, <2>1 DEF Condemned, DeferredInv
  <2> HIDE DEF e
  <2>4. deferred' = Append(deferred, e)
    BY <1>3 DEF ObjFreeDeferred, e
  <2>5. /\ Len(deferred') = Len(deferred) + 1
        /\ \A k \in 1..Len(deferred) : deferred'[k] = deferred[k]
        /\ deferred'[Len(deferred) + 1] = e
    BY <1>t, <2>2, <2>4, AppendProperties
  <2> QED BY <1>t, <2>1, <2>2, <2>3, <2>5 DEF DeferredInv
<1>4. ASSUME NEW k \in DOMAIN deferred, Sweep(k) PROVE DeferredInv'
  <2> DEFINE i == deferred[k].idx
  <2>1. /\ k \in 1..Len(deferred) /\ i \in DOMAIN slots /\ slots[i].live
    BY <1>t DEF DeferredInv
  <2>2. FreeSlot(i) /\ deferred' = RemoveAt(deferred, k)
    BY <1>4, <2>1 DEF Sweep
  <2>3. /\ Len(deferred') = Len(deferred) - 1
        /\ \A j \in 1..(Len(deferred) - 1) :
             deferred'[j] = IF j < k THEN deferred[j] ELSE deferred[j + 1]
    BY <1>t, <2>1, <2>2, RemoveAtProperties
  <2>4. \A j \in 1..Len(deferred) : j # k =>
          /\ slots'[deferred[j].idx].live
          /\ slots'[deferred[j].idx].uses = deferred[j].uses
    BY <2>1, <2>2, DeferredOthers DEF DeferredInv
  <2> DEFINE old(j) == IF j < k THEN j ELSE j + 1
  <2>5. \A j \in 1..Len(deferred') :
          /\ old(j) \in 1..Len(deferred) /\ old(j) # k
          /\ deferred'[j] = deferred[old(j)]
    BY <1>t, <2>1, <2>3
  <2>6. \A j, l \in 1..Len(deferred') : old(j) = old(l) => j = l
    BY <1>t, <2>1, <2>3
  <2> HIDE DEF i, old
  <2>7. \A j \in 1..Len(deferred') :
          /\ slots'[deferred'[j].idx].live
          /\ slots'[deferred'[j].idx].uses = deferred'[j].uses
    BY <2>4, <2>5
  <2>8. ASSUME NEW j \in 1..Len(deferred'), NEW l \in 1..Len(deferred'),
               deferred'[j].idx = deferred'[l].idx
        PROVE  j = l
    <3>1. old(j) = old(l)
      BY <2>5, <2>8 DEF DeferredInv
    <3> QED BY <2>6, <3>1
  <2> QED BY <2>7, <2>8 DEF DeferredInv
<1>5. CASE Reset
  <2>1. deferred' = <<>>
    BY <1>5 DEF Reset
  <2> QED BY <2>1, EmptySeq DEF DeferredInv
<1>6. CASE Keeps /\ deferred' = deferred
  BY <1>t, <1>6 DEF Keeps, DeferredInv
<1> QED BY <1>1, <1>2, <1>3, <1>4, <1>5, <1>6, DeferredKinds

(* A deferred free tears down the object it was asked for, and no other.   *)
THEOREM SweepCorrect == ~FreeAgain /\ Spec => SweepFreesItsOwn
<1> SUFFICES ASSUME ~FreeAgain PROVE Spec => SweepFreesItsOwn
  OBVIOUS
<1>1. Init => DeferredInv
  BY EmptySeq DEF Init, DeferredInv
<1>2. SafeInv /\ DeferredInv /\ [Next]_vars => DeferredInv'
  BY DeferredStep DEF SafeInv
<1>3. SafeInv /\ DeferredInv
        => [\A k \in DOMAIN deferred :
              Sweep(k) /\ slots' # slots
                => deferred[k].uses = slots[deferred[k].idx].uses]_vars
  BY Table DEF SafeInv, DeferredInv
<1> QED BY <1>1, <1>2, <1>3, SafeSpec, PTL DEF Spec, SweepFreesItsOwn
=============================================================================

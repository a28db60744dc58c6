---------------------------- MODULE ObjectTable ----------------------------
(***************************************************************************)
(* The object table of one ObjectRISC processor, as tools/sim/simorisc     *)
(* keeps it: descriptors with a generation counter, the free list that     *)
(* recycles their slots, deferred frees, and the references that name      *)
(* objects from anywhere in the system.  A reference is never forged, only *)
(* handed out, copied and derived, and nothing takes it back: refs is the  *)
(* set of all references handed out so far, and on a socket a SEND may     *)
(* arrive through any of them, however old.                                *)
(*                                                                         *)
(* The occupants of a slot are told apart by the number of times the slot  *)
(* has been freed (uses) and the number of resets (boot); no code reads    *)
(* either.  Storage is left out, and so are the code, stack and data       *)
(* objects of the boot image: no reference carries V for them.  Every      *)
(* reference has this processor as its home (EREMOTE otherwise).           *)
(***************************************************************************)
EXTENDS Naturals, Sequences, FiniteSets, SequencesExt

CONSTANTS
  GenMod,         \* number of generation values: 2^16 in the code
  AllocCaps,      \* initial capabilities a program asks for
  Masks,          \* masks a program derives with
  Depth,          \* maximum depth of a receive queue
  FreeAgain,      \* may a program free an object whose deferred free is pending?
  MaxObjects,     \* bound: objects allocated
  MaxDeferred,    \* bound: pending deferred frees
  MaxInbox,       \* bound: messages waiting for a handler
  MaxBoots        \* bound: resets

Caps == {"R", "W", "X", "S", "V", "M", "C"}
TaskCaps == {"R", "V", "C"}

ASSUME GenAssumption == GenMod \in Nat /\ GenMod > 2
ASSUME CapsAssumption == AllocCaps \subseteq SUBSET Caps /\ Masks \subseteq SUBSET Caps
ASSUME FreeAssumption == FreeAgain \in BOOLEAN
ASSUME BoundAssumption ==
  /\ Depth \in Nat \ {0} /\ MaxObjects \in Nat
  /\ MaxDeferred \in Nat /\ MaxInbox \in Nat /\ MaxBoots \in Nat

VARIABLES
  slots,      \* cpu.descriptors
  free,       \* cpu.free_indices
  deferred,   \* cpu.deferred_frees
  inbox,      \* cpu.inbox: SENDs to objects without a receive queue
  active,     \* cpu.active
  refs,       \* every reference handed out so far
  boot,       \* number of resets so far
  socket      \* is the crossbar a socket, or a table in this process?

vars == <<slots, free, deferred, inbox, active, refs, boot, socket>>

-----------------------------------------------------------------------------
Generation == 1..(GenMod - 1)

Ref == [idx : Nat \ {0}, gen : Generation, caps : SUBSET Caps,
        boot : Nat, uses : Nat]

Descriptor == [gen : Generation, uses : Nat, live : BOOLEAN,
               caps : SUBSET Caps, task : BOOLEAN, handler : BOOLEAN,
               attached : BOOLEAN, queue : Seq(Ref)]

NewDescriptor(gen, uses, caps, task) ==
  [gen |-> gen, uses |-> uses, live |-> TRUE, caps |-> caps, task |-> task,
   handler |-> FALSE, attached |-> FALSE, queue |-> <<>>]

(* make_ref for the object that descriptor d puts in slot i.               *)
RefTo(i, d, caps) ==
  [idx |-> i, gen |-> d.gen, caps |-> caps, boot |-> boot, uses |-> d.uses]

ValidIfDead(r) == r.idx \in DOMAIN slots /\ slots[r.idx].gen = r.gen \* Mutant

(* The check that every primitive, dereference and remote request makes.   *)
Valid(r) ==
  /\ r.idx \in DOMAIN slots
  /\ slots[r.idx].live
  /\ slots[r.idx].gen = r.gen

NextGenZero(g) == (g + 1) % GenMod  \* Mutant: 0 is not skipped

(* The generation is bumped modulo 2^16 and skips 0.                       *)
NextGen(g) == IF g + 1 = GenMod THEN 1 ELSE g + 1

Init ==
  /\ slots = <<>> /\ free = <<>> /\ deferred = <<>> /\ inbox = <<>>
  /\ active = TRUE
  /\ refs = {}
  /\ boot = 0
  /\ socket \in BOOLEAN

-----------------------------------------------------------------------------
(* Allocation: alloc_object takes the slot that has been free longest,     *)
(* with the generation its free left in it, else a new slot.               *)
RecycledInPlace(i, caps, task) ==  \* Mutant: the old queue survives
  [slots[i] EXCEPT !.live = TRUE, !.caps = caps, !.task = task]

Recycled(i, caps, task) ==
  NewDescriptor(slots[i].gen, slots[i].uses, caps, task)

Recycle(caps, task) ==
  /\ free # <<>>
  /\ LET i == Head(free)
         d == Recycled(i, caps, task)
     IN /\ slots' = [slots EXCEPT ![i] = d]
        /\ refs' = refs \cup {RefTo(i, d, caps)}
  /\ free' = Tail(free)

Extend(caps, task) ==
  /\ free = <<>>
  /\ LET d == NewDescriptor(1, 0, caps, task)
     IN /\ slots' = Append(slots, d)
        /\ refs' = refs \cup {RefTo(Len(slots) + 1, d, caps)}
  /\ UNCHANGED free

(* ObjAlloc and its variants, and TaskCreate's alloc_task_descriptor.      *)
Alloc(caps, task) ==
  /\ active
  /\ Cardinality({<<r.boot, r.idx, r.uses>> : r \in refs}) < MaxObjects
  /\ Recycle(caps, task) \/ Extend(caps, task)
  /\ UNCHANGED <<deferred, inbox, active, boot, socket>>

-----------------------------------------------------------------------------
(* Deallocation.                                                           *)

FreeSlotSameGen(i) ==  \* Mutant: the generation is not bumped
  /\ slots' = [slots EXCEPT ![i].uses = @ + 1, ![i].live = FALSE]
  /\ free' = Append(free, i)

(* free_object: the descriptor stays, dead and with its queue, until its   *)
(* slot is allocated again.                                                *)
FreeSlot(i) ==
  /\ slots' = [slots EXCEPT ![i].gen = NextGen(@), ![i].uses = @ + 1,
                            ![i].live = FALSE]
  /\ free' = Append(free, i)

(* Is the object in slot i going to be freed by a deferred free of its own? *)
Condemned(i) == \E k \in DOMAIN deferred : /\ deferred[k].idx = i
                                           /\ deferred[k].uses = slots[i].uses

(* ObjFree.  A task has to have exited first, which the scheduler decides. *)
ObjFree(r) ==
  /\ active
  /\ "V" \in r.caps /\ Valid(r)
  /\ Condemned(r.idx) => FreeAgain
  /\ FreeSlot(r.idx)
  /\ UNCHANGED <<deferred, inbox, active, refs, boot, socket>>

ObjFreeDeferredStale(r) ==  \* Mutant: the generation is not checked
  /\ active
  /\ "V" \in r.caps /\ r.idx \in DOMAIN slots
  /\ ~slots[r.idx].task
  /\ Condemned(r.idx) => FreeAgain
  /\ Len(deferred) < MaxDeferred
  /\ deferred' = Append(deferred, [idx |-> r.idx, uses |-> r.uses])
  /\ UNCHANGED <<slots, free, inbox, active, refs, boot, socket>>

(* ObjFreeDeferred, never of a task.  The code keeps only the index; uses  *)
(* records whose free it is.                                               *)
ObjFreeDeferred(r) ==
  /\ active
  /\ "V" \in r.caps /\ Valid(r)
  /\ ~slots[r.idx].task
  /\ Condemned(r.idx) => FreeAgain
  /\ Len(deferred) < MaxDeferred
  /\ deferred' = Append(deferred, [idx |-> r.idx, uses |-> slots[r.idx].uses])
  /\ UNCHANGED <<slots, free, inbox, active, refs, boot, socket>>

(* System.run frees what is due.  Delays differ, so that any entry may be  *)
(* due next; a pass over several due entries is several of these steps.    *)
Sweep(k) ==
  /\ deferred' = RemoveAt(deferred, k)
  /\ LET i == deferred[k].idx
     IN IF i \in DOMAIN slots /\ slots[i].live THEN FreeSlot(i)
        ELSE UNCHANGED <<slots, free>>
  /\ UNCHANGED <<inbox, active, refs, boot, socket>>

-----------------------------------------------------------------------------
(* References and messages.                                                *)

DeriveMore(r, mask) ==  \* Mutant: the mask is added
  /\ active
  /\ "C" \in r.caps
  /\ refs' = refs \cup {[r EXCEPT !.caps = @ \cup mask]}
  /\ UNCHANGED <<slots, free, deferred, inbox, active, boot, socket>>

(* ObjDerive does not look at the descriptor.                              *)
ObjDerive(r, mask) ==
  /\ active
  /\ "C" \in r.caps
  /\ refs' = refs \cup {[r EXCEPT !.caps = @ \cap mask]}
  /\ UNCHANGED <<slots, free, deferred, inbox, active, boot, socket>>

(* ReceiveQueueAttach: an empty queue replaces the one there may be.       *)
ReceiveQueueAttach(r) ==
  /\ active
  /\ {"S", "V"} \subseteq r.caps /\ Valid(r)
  /\ slots' = [slots EXCEPT ![r.idx].attached = TRUE, ![r.idx].queue = <<>>]
  /\ UNCHANGED <<free, deferred, inbox, active, refs, boot, socket>>

(* InstallHandler, where the handler's code is mapped (EINVAL otherwise).  *)
InstallHandler(r) ==
  /\ active
  /\ {"S", "V"} \subseteq r.caps /\ Valid(r)
  /\ slots' = [slots EXCEPT ![r.idx].handler = TRUE]
  /\ UNCHANGED <<free, deferred, inbox, active, refs, boot, socket>>

(* A SEND through r reaches receive_packet.  In this process the SEND      *)
(* instruction has just checked r; on a socket the sender cannot.  The     *)
(* receiver looks at the index only, drops what a full queue cannot hold,  *)
(* and keeps a message for an object without a queue in the inbox.         *)
Arrive(r) ==
  /\ "S" \in r.caps
  /\ socket \/ Valid(r)
  /\ IF r.idx \in DOMAIN slots /\ slots[r.idx].attached
       THEN /\ Len(slots[r.idx].queue) < Depth
            /\ slots' = [slots EXCEPT ![r.idx].queue = Append(@, r)]
            /\ UNCHANGED inbox
       ELSE /\ Len(inbox) < MaxInbox
            /\ inbox' = Append(inbox, r)
            /\ UNCHANGED slots
  /\ UNCHANGED <<free, deferred, active, refs, boot, socket>>

TakeFirst(i) ==
  /\ slots[i].queue # <<>>
  /\ slots' = [slots EXCEPT ![i].queue = Tail(@)]
  /\ UNCHANGED <<free, deferred, inbox, active, refs, boot, socket>>

(* ReceiveQueuePoll with a message there.                                  *)
ReceiveQueuePoll(r) ==
  /\ active
  /\ "V" \in r.caps /\ Valid(r) /\ slots[r.idx].attached
  /\ TakeFirst(r.idx)

(* _try_unblock_queue, for a task that found the queue of slot i empty     *)
(* some time ago: nothing is checked again.                                *)
UnblockPoll(i) == active /\ TakeFirst(i)

DispatchByIndex ==  \* Mutant: the generation is not checked
  /\ ~active /\ inbox # <<>>
  /\ LET r == Head(inbox)
     IN IF /\ r.idx \in DOMAIN slots /\ slots[r.idx].live
           /\ slots[r.idx].handler
          THEN /\ active' = TRUE
               /\ refs' = refs \cup {RefTo(r.idx, slots[r.idx], slots[r.idx].caps)}
          ELSE UNCHANGED <<active, refs>>
  /\ inbox' = Tail(inbox)
  /\ UNCHANGED <<slots, free, deferred, boot, socket>>

(* dispatch_handler: an idle processor takes the next message; the handler *)
(* gets a reference of its own to the object, with all of its max_caps.    *)
Dispatch ==
  /\ ~active /\ inbox # <<>>
  /\ LET r == Head(inbox)
     IN IF Valid(r) /\ slots[r.idx].handler
          THEN /\ active' = TRUE
               /\ refs' = refs \cup {RefTo(r.idx, slots[r.idx], slots[r.idx].caps)}
          ELSE UNCHANGED <<active, refs>>
  /\ inbox' = Tail(inbox)
  /\ UNCHANGED <<slots, free, deferred, boot, socket>>

(* The program exits with no other task left.                              *)
Exit ==
  /\ active
  /\ active' = FALSE
  /\ UNCHANGED <<slots, free, deferred, inbox, refs, boot, socket>>

(* reset_cpu, after an exit under --reset-on-exit.  References other       *)
(* processors hold stay where they are.                                    *)
Reset ==
  /\ ~active
  /\ boot < MaxBoots
  /\ slots' = <<>> /\ free' = <<>> /\ deferred' = <<>> /\ inbox' = <<>>
  /\ active' = TRUE
  /\ boot' = boot + 1
  /\ UNCHANGED <<refs, socket>>

Next ==
  \/ \E caps \in AllocCaps : Alloc(caps, FALSE)
  \/ Alloc(TaskCaps, TRUE)
  \/ \E r \in refs : \/ ObjFree(r) \/ ObjFreeDeferred(r)
                     \/ ReceiveQueueAttach(r) \/ InstallHandler(r)
                     \/ Arrive(r) \/ ReceiveQueuePoll(r)
                     \/ \E mask \in Masks : ObjDerive(r, mask)
  \/ \E k \in DOMAIN deferred : Sweep(k)
  \/ \E i \in DOMAIN slots : UnblockPoll(i)
  \/ Dispatch \/ Exit \/ Reset

Spec == Init /\ [][Next]_vars

-----------------------------------------------------------------------------
(* Every variable holds a value of its type.                               *)
TypeOK ==
  /\ slots \in Seq(Descriptor)
  /\ free \in Seq(DOMAIN slots)
  /\ deferred \in Seq([idx : DOMAIN slots, uses : Nat])
  /\ inbox \in Seq(Ref)
  /\ refs \in SUBSET Ref
  /\ active \in BOOLEAN /\ socket \in BOOLEAN /\ boot \in Nat

(* free_indices holds exactly the dead slots, each once: no slot is lost,  *)
(* and none is handed out twice.                                           *)
FreeListExact ==
  /\ \A i, j \in DOMAIN free : free[i] = free[j] => i = j
  /\ \A i \in DOMAIN slots :
       ~slots[i].live <=> \E k \in DOMAIN free : free[k] = i

(* The generation scheme works: as long as a slot has not been freed       *)
(* GenMod - 1 times since the reference was handed out, the reference      *)
(* passes the check only while its own object is in the slot.  Across a    *)
(* reset, which starts the generations over, nothing is promised.          *)
Recent(r) == r.boot = boot /\ slots[r.idx].uses < r.uses + (GenMod - 1)
NamesItsObject ==
  \A r \in refs : Valid(r) /\ Recent(r) => slots[r.idx].uses = r.uses

(* No reference to an object carries a capability that the object was not  *)
(* allocated with, not even the one its handler is given.                  *)
CapsBounded ==
  \A r \in refs : r.boot = boot /\ slots[r.idx].uses = r.uses
                    => r.caps \subseteq slots[r.idx].caps

(* Whoever holds a reference has its object and no other, with at most the *)
(* capabilities the object was given.                                      *)
RefsSound == NamesItsObject /\ CapsBounded

(* A slot that is free is free once, and none that is live is named by a   *)
(* reference to what was in it before.                                     *)
SlotsSound == FreeListExact /\ RefsSound

(* A handler is started only for the object its message was sent to.       *)
HandlerForItsObject ==
  [][~active /\ active' /\ boot' = boot =>
       LET r == Head(inbox)
       IN Recent(r) => slots[r.idx].live /\ slots[r.idx].uses = r.uses]_vars

(* A deferred free tears down the object it was asked for, and no other.   *)
SweepFreesItsOwn ==
  [][\A k \in DOMAIN deferred :
       Sweep(k) /\ slots' # slots
         => deferred[k].uses = slots[deferred[k].idx].uses]_vars

(* The receive queue of an object holds only messages that were sent to    *)
(* it: where the SEND instruction checks the reference, and where only the *)
(* receiving side could.                                                   *)
QueueHoldsOwn ==
  \A i \in DOMAIN slots : slots[i].live =>
    \A k \in DOMAIN slots[i].queue :
      LET r == slots[i].queue[k] IN Recent(r) => r.uses = slots[i].uses
LocalQueueHoldsOwn == ~socket => QueueHoldsOwn
SocketQueueHoldsOwn == socket => QueueHoldsOwn
=============================================================================

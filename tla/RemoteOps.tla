----------------------------- MODULE RemoteOps -----------------------------
(***************************************************************************)
(* Operations on the objects and tasks of other processors, as             *)
(* tools/sim/simorisc runs them over a crossbar, one processor to a        *)
(* process: the remote forms of the object loads and stores, of            *)
(* ObjFetchBytes and ObjStoreBytes, and of TaskWait, TaskQuery and         *)
(* TaskKill.  The issuer sends a request under a transaction id and        *)
(* blocks; the home serves requests whatever its tasks are doing; the      *)
(* answer is matched by its id, if need be after other tasks of the issuer *)
(* have run.  Processors may end or be reset in between.                   *)
(*                                                                         *)
(* One iteration of System.run takes the packets that have arrived, each   *)
(* a step here, then wakes parked tasks (Wake, if there are any to wake),  *)
(* and then does one thing: an action whose guard has Turn.  The network   *)
(* is a set: nothing here relies on the order the crossbar keeps.  Objects *)
(* hold the number of the operation that wrote them, 0 for anything        *)
(* written at home.                                                        *)
(***************************************************************************)
EXTENDS Naturals, Sequences, FiniteSets, SequencesExt

CONSTANTS
  Cpus, Tasks, Objects,
  Home,         \* the processor of every task and object
  Boot,         \* the bootstrap task of every processor
  NoTask,       \* Python's None where a task is expected
  Gone,         \* the contents of a freed object, and the answer ERR_ESTALE
  NotReturned,  \* no answer yet
  TrapHandled,  \* processors with a handler for the traps of remote faults
  Resettable,   \* processors started with --reset-on-exit
  Serving,      \* processors started with --serve
  Asks,         \* the kinds of operations the programs of a processor use
  TransMod,     \* transaction ids are below it: 2^16 in the code
  Reuse,        \* may an id come round while the operation it named is open?
  MaxOps,       \* bound: remote operations in one behaviour
  MaxResets     \* bound: resets of each processor

(* What a task asks for: a load or store instruction, ObjFetchBytes,       *)
(* ObjStoreBytes ("put"), TaskWait, TaskQuery, TaskKill.                   *)
ObjectKinds == {"load", "store", "fetch", "put"}
TaskKinds == {"wait", "query", "kill"}
Kinds == ObjectKinds \cup TaskKinds

ASSUME HomeAssumption ==
  /\ Home \in [Tasks \cup Objects -> Cpus] /\ Tasks \cap Objects = {}
  /\ Boot \in [Cpus -> Tasks] /\ \A c \in Cpus : Home[Boot[c]] = c
  /\ NoTask \notin Tasks /\ IsFiniteSet(Tasks)
ASSUME CpusAssumption ==
  /\ TrapHandled \subseteq Cpus /\ Resettable \subseteq Cpus /\ Serving \subseteq Cpus
  /\ Asks \in [Cpus -> SUBSET Kinds]
ASSUME BoundsAssumption ==
  /\ TransMod \in Nat \ {0} /\ MaxOps \in Nat /\ MaxResets \in Nat
  /\ Reuse \in BOOLEAN /\ {Gone, NotReturned} \cap Nat = {} /\ Gone # NotReturned

VARIABLES
  net,          \* packets in the network
  responses,    \* cpu.responses: answers filed and not yet claimed
  nextTrans,    \* cpu.next_trans_id
  state,        \* Task.state, "NONE" without an entry in cpu.tasks
  current,      \* cpu.current_task
  runnable,     \* cpu.runnable
  blocked,      \* cpu.blocked_on
  saved,        \* Task.blocked_on
  remoteWaiters,\* Task.remote_waiters
  mem,          \* what each object holds
  active,       \* cpu.active
  draining,     \* cpu.reset_at_time > 0
  alive,        \* the process runs
  resets,       \* how often each processor has been reset
  log           \* history: the operations, and what each returned

procVars == <<current, runnable, blocked, active, draining>>
taskVars == <<state, saved, remoteWaiters>>
vars == <<net, responses, nextTrans, state, current, runnable, blocked, saved,
          remoteWaiters, mem, active, draining, alive, resets, log>>

-----------------------------------------------------------------------------
(* The packet type that carries a request, and the kinds whose issuer does *)
(* not compare the type of the answer.                                     *)
Type(kind) == IF kind \in {"load", "fetch"} THEN "read"
              ELSE IF kind \in {"store", "put"} THEN "write" ELSE kind
Unchecked == {"load", "store"}

(* What a processor or a parked task waits for; op is history.             *)
NotBlocked == [kind |-> "none", id |-> 0, op |-> 0]
ExitWait == [NotBlocked EXCEPT !.kind = "exitwait"]
Waits(b) == b.kind \in Kinds

Request(c, kind, x, id, n) ==
  [req |-> TRUE, src |-> c, dst |-> Home[x], type |-> Type(kind), id |-> id,
   at |-> x, op |-> n]
Answer(p, result) ==
  [req |-> FALSE, src |-> p.dst, dst |-> p.src, type |-> p.type, id |-> p.id,
   result |-> result, op |-> p.op]

Done == 0
Exited == 1

Own(c) == {t \in Tasks : Home[t] = c}

(* A killed task leaves the run queue.                                     *)
Without(q, t) == IF state[t] = "RUNNABLE" THEN RemoveFirst(q, t) ELSE q

Init ==
  /\ net = {}
  /\ responses = [c \in Cpus |-> {}]
  /\ nextTrans = [c \in Cpus |-> 0]
  /\ state = [t \in Tasks |-> IF t = Boot[Home[t]] THEN "RUNNING" ELSE "NONE"]
  /\ current = Boot
  /\ runnable = [c \in Cpus |-> <<>>]
  /\ blocked = [c \in Cpus |-> NotBlocked]
  /\ saved = [t \in Tasks |-> NotBlocked]
  /\ remoteWaiters = [t \in Tasks |-> {}]
  /\ mem = [o \in Objects |-> 0]
  /\ active = [c \in Cpus |-> TRUE]
  /\ draining = [c \in Cpus |-> FALSE]
  /\ alive = [c \in Cpus |-> TRUE]
  /\ resets = [c \in Cpus |-> 0]
  /\ log = <<>>

-----------------------------------------------------------------------------
(* Packets arrive, requests are served.                                    *)

(* poll_incoming files an answer; nobody has looked whether it is awaited. *)
Arrive(p) ==
  /\ ~p.req /\ alive[p.dst]
  /\ net' = net \ {p}
  /\ responses' = [responses EXCEPT ![p.dst] = @ \cup {p}]
  /\ UNCHANGED <<nextTrans, taskVars, procVars, mem, alive, resets, log>>

(* The crossbar drops what is for a processor that is not there.           *)
Drop(p) ==
  /\ ~alive[p.dst]
  /\ net' = net \ {p}
  /\ UNCHANGED <<responses, nextTrans, taskVars, procVars, mem, alive,
                 resets, log>>

ReplyKeeps(p, result) ==  \* Mutant: the request is not taken
  net' = net \cup {Answer(p, result)}
Reply(p, result) == net' = (net \ {p}) \cup {Answer(p, result)}

ServeRead(p) ==
  /\ p.type = "read"
  /\ Reply(p, mem[p.at])
  /\ UNCHANGED <<taskVars, procVars, mem>>

ServeWriteAnyway(p) ==  \* Mutant: the write is done before the check
  /\ p.type = "write"
  /\ Reply(p, IF mem[p.at] = Gone THEN Gone ELSE Done)
  /\ mem' = [mem EXCEPT ![p.at] = p.op]
  /\ UNCHANGED <<taskVars, procVars>>

ServeWrite(p) ==
  /\ p.type = "write"
  /\ IF mem[p.at] = Gone
       THEN Reply(p, Gone) /\ UNCHANGED mem
       ELSE Reply(p, Done) /\ mem' = [mem EXCEPT ![p.at] = p.op]
  /\ UNCHANGED <<taskVars, procVars>>

TaskStatus(x) == IF state[x] = "NONE" THEN Gone
                 ELSE IF state[x] = "EXITED" THEN Exited ELSE Done

ServeQuery(p) ==
  /\ p.type = "query"
  /\ Reply(p, TaskStatus(p.at))
  /\ UNCHANGED <<taskVars, procVars, mem>>

(* TaskWait is answered at once or parked with its target.                 *)
ServeWait(p) ==
  /\ p.type = "wait"
  /\ IF state[p.at] \in {"NONE", "EXITED"}
       THEN /\ Reply(p, IF state[p.at] = "NONE" THEN Gone ELSE Done)
            /\ UNCHANGED remoteWaiters
       ELSE /\ net' = net \ {p}
            /\ remoteWaiters' = [remoteWaiters EXCEPT ![p.at] = @ \cup {p}]
  /\ UNCHANGED <<state, saved, procVars, mem>>

(* _wake_waiters answers the waits that are parked with an exiting task.   *)
WaitAnswers(x) == {Answer(p, Done) : p \in remoteWaiters[x]}

(* The processor drops its current task, which has been killed from        *)
(* elsewhere: another one is loaded, or it parks, or nothing is left.      *)
StepOff(c, st, q) ==
  /\ active' = [active EXCEPT ![c] = FALSE]
  /\ IF q # <<>>
       THEN /\ saved' = [saved EXCEPT ![Head(q)] = NotBlocked]
            /\ current' = [current EXCEPT ![c] = Head(q)]
            /\ runnable' = [runnable EXCEPT ![c] = Tail(q)]
            /\ blocked' = [blocked EXCEPT ![c] = saved[Head(q)]]
            /\ state' = [st EXCEPT ![Head(q)] = "RUNNING"]
       ELSE /\ current' = [current EXCEPT ![c] = NoTask]
            /\ state' = st
            /\ blocked' = IF \E t \in Own(c) : st[t] = "BLOCKED"
                            THEN [blocked EXCEPT ![c] = ExitWait] ELSE blocked
            /\ UNCHANGED <<runnable, saved>>

ServeKillLive(p) ==
  LET x == p.at
      c == Home[x]
      st == [state EXCEPT ![x] = "EXITED"]
  IN
  /\ net' = (net \ {p}) \cup WaitAnswers(x) \cup {Answer(p, Done)}
  /\ remoteWaiters' = [remoteWaiters EXCEPT ![x] = {}]
  /\ IF x = current[c]
       THEN StepOff(c, st, runnable[c])
       ELSE /\ state' = st
            /\ saved' = [saved EXCEPT ![x] = NotBlocked]
            /\ runnable' = [runnable EXCEPT ![c] = Without(@, x)]
            /\ UNCHANGED <<current, blocked, active>>
  /\ UNCHANGED draining

ServeKill(p) ==
  /\ p.type = "kill"
  /\ IF state[p.at] \in {"NONE", "EXITED"}
       THEN /\ Reply(p, IF state[p.at] = "NONE" THEN Gone ELSE Done)
            /\ UNCHANGED <<taskVars, procVars>>
       ELSE ServeKillLive(p)
  /\ UNCHANGED mem

Serve(p) ==
  /\ p.req /\ alive[p.dst]
  /\ ServeRead(p) \/ ServeWrite(p) \/ ServeQuery(p) \/ ServeWait(p) \/ ServeKill(p)
  /\ UNCHANGED <<responses, nextTrans, alive, resets, log>>

(* The waits _wake_blocked_tasks looks for: not that of ObjStoreBytes.      *)
WakeLocalKinds == ObjectKinds \ {"put"}  \* Mutant: forgets the task operations
WakeKinds == Kinds \ {"put"}
Woken(c) == {t \in Own(c) : /\ state[t] = "BLOCKED" /\ t # current[c]
                            /\ saved[t].kind \in WakeKinds
                            /\ \E r \in responses[c] : r.id = saved[t].id}

(* _wake_blocked_tasks: a parked task goes to the front of the run queue   *)
(* when an answer with its id is there.                                    *)
Wake(c) ==
  /\ alive[c] /\ Woken(c) # {}
  /\ \E ws \in SetToSeqs(Woken(c)) :
       runnable' = [runnable EXCEPT ![c] = ws \o @]
  /\ state' = [t \in Tasks |-> IF t \in Woken(c) THEN "RUNNABLE" ELSE state[t]]
  /\ UNCHANGED <<net, responses, nextTrans, current, blocked, saved, remoteWaiters,
                 mem, active, draining, alive, resets, log>>

Turn(c) == alive[c] /\ Woken(c) = {}

-----------------------------------------------------------------------------
(* The processor waits.                                                    *)

(* The process ends, and with it what its memory held.                     *)
Dies(c) ==
  /\ alive' = [alive EXCEPT ![c] = FALSE]
  /\ responses' = [responses EXCEPT ![c] = {}]
  /\ remoteWaiters' = [t \in Tasks |-> IF t \in Own(c) THEN {} ELSE remoteWaiters[t]]
  /\ UNCHANGED <<log, blocked>>

ClaimableAnyId(c) ==  \* Mutant: the first answer of the right type
  {r \in responses[c] : Waits(blocked[c]) /\ r.type = Type(blocked[c].kind)}

(* The answers _try_unblock takes for a waiting processor.                 *)
Claimable(c) ==
  {r \in responses[c] : /\ Waits(blocked[c])
                        /\ r.id = blocked[c].id
                        /\ blocked[c].kind \notin Unchecked => r.type = Type(blocked[c].kind)}

(* The call returns with the answer.  A fault of a load or a store is a    *)
(* trap: without a handler it ends the process.                            *)
Unblock(c) ==
  /\ Turn(c)
  /\ \E r \in Claimable(c) :
       IF blocked[c].kind \in Unchecked /\ r.result = Gone /\ c \notin TrapHandled
         THEN Dies(c)
         ELSE /\ responses' = [responses EXCEPT ![c] = @ \ {r}]
              /\ log' = [log EXCEPT ![blocked[c].op].got = r.result]
              /\ blocked' = [blocked EXCEPT ![c] = NotBlocked]
              /\ UNCHANGED <<alive, remoteWaiters>>
  /\ UNCHANGED <<net, nextTrans, state, saved, current, runnable, mem, active,
                 draining, resets>>

(* Still waiting, and another task is runnable: it is loaded, and the      *)
(* current one, unless it has exited, parked.                              *)
SwitchAway(c) ==
  /\ Turn(c)
  /\ blocked[c] # NotBlocked /\ Claimable(c) = {} /\ runnable[c] # <<>>
  /\ LET nxt == Head(runnable[c])
         parks == {t \in {current[c]} : t # NoTask /\ state[t] # "EXITED"}
     IN /\ state' = [t \in Tasks |-> IF t = nxt THEN "RUNNING"
                                     ELSE IF t \in parks THEN "BLOCKED" ELSE state[t]]
        /\ saved' = [t \in Tasks |-> IF t = nxt THEN NotBlocked
                                     ELSE IF t \in parks THEN blocked[c] ELSE saved[t]]
        /\ current' = [current EXCEPT ![c] = nxt]
        /\ blocked' = [blocked EXCEPT ![c] = saved[nxt]]
        /\ runnable' = [runnable EXCEPT ![c] = Tail(@)]
  /\ UNCHANGED <<net, responses, nextTrans, remoteWaiters, mem, active, draining,
                 alive, resets, log>>

-----------------------------------------------------------------------------
(* The current task executes an instruction that has an effect here.       *)

Executing(c) == Turn(c) /\ active[c] /\ blocked[c] = NotBlocked

NextIdUncut(id) == id + 1  \* Mutant: not cut to 16 bits
NextId(id) == (id + 1) % TransMod

(* The id is that of no open operation, parked request or filed answer of  *)
(* this processor.                                                         *)
Unused(c, id) ==
  /\ \A t \in Own(c) : ~(Waits(saved[t]) /\ saved[t].id = id)
  /\ \A r \in responses[c] : r.id # id
  /\ \A p \in net : ~(p.id = id /\ IF p.req THEN p.src = c ELSE p.dst = c)
  /\ \A x \in Tasks : \A p \in remoteWaiters[x] : ~(p.src = c /\ p.id = id)

(* Programs hold references to what has existed.                           *)
Held == Objects \cup {t \in Tasks : state[t] # "NONE" \/ resets[Home[t]] > 0}

(* A remote operation: the request is sent and the processor blocks on the *)
(* CALL or the load or store.                                              *)
Issue(c, kind, x) ==
  /\ Executing(c)
  /\ kind \in Asks[c] /\ Home[x] # c /\ x \in Held /\ Len(log) < MaxOps
  /\ LET id == nextTrans[c]
         n == Len(log) + 1
     IN /\ ~Reuse => Unused(c, id)
        /\ net' = net \cup {Request(c, kind, x, id, n)}
        /\ blocked' = [blocked EXCEPT ![c] = [kind |-> kind, id |-> id, op |-> n]]
        /\ log' = Append(log, [by |-> current[c], kind |-> kind, at |-> x,
                               got |-> NotReturned])
        /\ nextTrans' = [nextTrans EXCEPT ![c] = NextId(id)]
  /\ UNCHANGED <<responses, taskVars, current, runnable, mem, active, draining,
                 alive, resets>>

(* The home's own accesses to its objects: a store, and ObjFree.           *)
LocalStore(c, o) ==
  /\ Executing(c) /\ Home[o] = c
  /\ mem[o] \notin {0, Gone}
  /\ mem' = [mem EXCEPT ![o] = 0]
  /\ UNCHANGED <<net, responses, nextTrans, taskVars, procVars, alive, resets, log>>

ObjFree(c, o) ==
  /\ Executing(c) /\ Home[o] = c
  /\ mem[o] # Gone
  /\ mem' = [mem EXCEPT ![o] = Gone]
  /\ UNCHANGED <<net, responses, nextTrans, taskVars, procVars, alive, resets, log>>

TaskCreate(c, t) ==
  /\ Executing(c) /\ Home[t] = c
  /\ state[t] = "NONE"
  /\ state' = [state EXCEPT ![t] = "NEW"]
  /\ UNCHANGED <<net, responses, nextTrans, saved, remoteWaiters, procVars, mem,
                 alive, resets, log>>

TaskResume(c, t) ==
  /\ Executing(c) /\ Home[t] = c
  /\ state[t] \in {"NEW", "BLOCKED"}
  /\ state' = [state EXCEPT ![t] = "RUNNABLE"]
  /\ runnable' = [runnable EXCEPT ![c] = Append(@, t)]
  /\ UNCHANGED <<net, responses, nextTrans, saved, remoteWaiters, current, blocked,
                 mem, active, draining, alive, resets, log>>

(* TaskYield, by the program or by the preemption timer.                   *)
TaskYield(c) ==
  /\ Executing(c) /\ runnable[c] # <<>>
  /\ LET nxt == Head(runnable[c])
         cur == current[c]
     IN /\ state' = [state EXCEPT ![cur] = "RUNNABLE", ![nxt] = "RUNNING"]
        /\ saved' = [saved EXCEPT ![cur] = NotBlocked, ![nxt] = NotBlocked]
        /\ current' = [current EXCEPT ![c] = nxt]
        /\ blocked' = [blocked EXCEPT ![c] = saved[nxt]]
        /\ runnable' = [runnable EXCEPT ![c] = Append(Tail(@), cur)]
  /\ UNCHANGED <<net, responses, nextTrans, remoteWaiters, mem, active, draining,
                 alive, resets, log>>

(* TaskKill of another task of this processor, which may be waiting for an *)
(* answer: nobody will claim it.                                           *)
TaskKill(c, t) ==
  /\ Executing(c) /\ Home[t] = c /\ t # current[c]
  /\ state[t] \notin {"NONE", "EXITED"}
  /\ state' = [state EXCEPT ![t] = "EXITED"]
  /\ saved' = [saved EXCEPT ![t] = NotBlocked]
  /\ runnable' = [runnable EXCEPT ![c] = Without(@, t)]
  /\ net' = net \cup WaitAnswers(t)
  /\ remoteWaiters' = [remoteWaiters EXCEPT ![t] = {}]
  /\ UNCHANGED <<responses, nextTrans, current, blocked, mem, active, draining,
                 alive, resets, log>>

(* TaskExit: load another task; or park while some are BLOCKED; or raise   *)
(* TaskExitSignal, after which a reset may be due.                         *)
TaskExit(c) ==
  LET x == current[c]
      st == [state EXCEPT ![x] = "EXITED"]
      q == runnable[c]
  IN
  /\ Executing(c)
  /\ net' = net \cup WaitAnswers(x)
  /\ remoteWaiters' = [remoteWaiters EXCEPT ![x] = {}]
  /\ \/ /\ q # <<>>
        /\ state' = [st EXCEPT ![Head(q)] = "RUNNING"]
        /\ saved' = [saved EXCEPT ![Head(q)] = NotBlocked]
        /\ current' = [current EXCEPT ![c] = Head(q)]
        /\ blocked' = [blocked EXCEPT ![c] = saved[Head(q)]]
        /\ runnable' = [runnable EXCEPT ![c] = Tail(q)]
        /\ UNCHANGED <<active, draining>>
     \/ /\ q = <<>> /\ \E t \in Own(c) : st[t] = "BLOCKED"
        /\ state' = st
        /\ blocked' = [blocked EXCEPT ![c] = ExitWait]
        /\ UNCHANGED <<saved, current, runnable, active, draining>>
     \/ /\ q = <<>> /\ \A t \in Own(c) : st[t] # "BLOCKED"
        /\ state' = st
        /\ active' = [active EXCEPT ![c] = FALSE]
        /\ draining' = [draining EXCEPT ![c] = c \in Resettable]
        /\ UNCHANGED <<saved, current, runnable, blocked>>
  /\ UNCHANGED <<responses, nextTrans, mem, alive, resets, log>>

-----------------------------------------------------------------------------
(* The processor is inactive.                                              *)

Inactive(c) == Turn(c) /\ ~active[c] /\ blocked[c] = NotBlocked

(* Nothing left to do: the process ends, unless told to serve on.          *)
Finish(c) ==
  /\ Inactive(c) /\ ~draining[c] /\ c \notin Serving
  /\ Dies(c)
  /\ UNCHANGED <<net, nextTrans, state, saved, current, runnable, mem, active,
                 draining, resets>>

(* The drain time is over: reset_cpu.                                      *)
Reset(c) ==
  /\ Inactive(c) /\ draining[c] /\ resets[c] < MaxResets
  /\ responses' = [responses EXCEPT ![c] = {}]
  /\ nextTrans' = [nextTrans EXCEPT ![c] = 0]
  /\ state' = [t \in Tasks |-> IF t \notin Own(c) THEN state[t]
                               ELSE IF t = Boot[c] THEN "RUNNING" ELSE "NONE"]
  /\ saved' = [t \in Tasks |-> IF t \in Own(c) THEN NotBlocked ELSE saved[t]]
  /\ remoteWaiters' = [t \in Tasks |-> IF t \in Own(c) THEN {} ELSE remoteWaiters[t]]
  /\ current' = [current EXCEPT ![c] = Boot[c]]
  /\ runnable' = [runnable EXCEPT ![c] = <<>>]
  /\ mem' = [o \in Objects |-> IF Home[o] = c THEN 0 ELSE mem[o]]
  /\ active' = [active EXCEPT ![c] = TRUE]
  /\ draining' = [draining EXCEPT ![c] = FALSE]
  /\ resets' = [resets EXCEPT ![c] = @ + 1]
  /\ UNCHANGED <<net, blocked, alive, log>>

-----------------------------------------------------------------------------
Programs(c) ==
  \/ \E x \in Objects, k \in ObjectKinds : Issue(c, k, x)
  \/ \E x \in Tasks, k \in TaskKinds : Issue(c, k, x)
  \/ \E o \in Objects : LocalStore(c, o) \/ ObjFree(c, o)
  \/ \E t \in Tasks : TaskCreate(c, t) \/ TaskResume(c, t) \/ TaskKill(c, t)
  \/ TaskYield(c) \/ TaskExit(c)

Loop(c) == Wake(c) \/ Unblock(c) \/ SwitchAway(c)

Take(p) == Arrive(p) \/ Drop(p) \/ Serve(p)

Next == \/ \E p \in net : Take(p)
        \/ \E c \in Cpus : Loop(c) \/ Programs(c) \/ Finish(c) \/ Reset(c)

Spec == Init /\ [][Next]_vars

(* Packets arrive and each iteration takes those that have; the loop goes  *)
(* on; a task that runs while others are runnable yields or is preempted.  *)
Fairness ==
  /\ \A n \in 1..MaxOps : WF_vars(\E p \in net : p.op = n /\ Take(p))
  /\ \A c \in Cpus : WF_vars(Loop(c)) /\ WF_vars(TaskYield(c))

FairSpec == Spec /\ Fairness

-----------------------------------------------------------------------------
BlockType == [kind : {"none", "exitwait"} \cup Kinds, id : 0..TransMod - 1, op : 0..MaxOps]
RequestType == [req : {TRUE}, src : Cpus, dst : Cpus, id : 0..TransMod - 1,
                type : {"read", "write"} \cup TaskKinds, at : Tasks \cup Objects, op : 1..MaxOps]
AnswerType == [req : {FALSE}, src : Cpus, dst : Cpus, id : 0..TransMod - 1,
               type : {"read", "write"} \cup TaskKinds, result : Nat \cup {Gone},
               op : 1..MaxOps]

(* Every variable holds a value of its type.                               *)
TypeOK ==
  /\ net \subseteq RequestType \cup AnswerType
  /\ responses \in [Cpus -> SUBSET AnswerType]
  /\ nextTrans \in [Cpus -> 0..TransMod - 1]
  /\ state \in [Tasks -> {"NONE", "NEW", "RUNNABLE", "RUNNING", "BLOCKED", "EXITED"}]
  /\ current \in [Cpus -> Tasks \cup {NoTask}]
  /\ runnable \in [Cpus -> Seq(Tasks)]
  /\ blocked \in [Cpus -> BlockType]
  /\ saved \in [Tasks -> BlockType]
  /\ remoteWaiters \in [Tasks -> SUBSET RequestType]
  /\ mem \in [Objects -> Nat \cup {Gone}]
  /\ active \in [Cpus -> BOOLEAN] /\ draining \in [Cpus -> BOOLEAN]
  /\ alive \in [Cpus -> BOOLEAN]
  /\ resets \in [Cpus -> 0..MaxResets]
  /\ log \in Seq([by : Tasks, kind : Kinds, at : Tasks \cup Objects,
                  got : Nat \cup {Gone, NotReturned}])
  /\ Len(log) <= MaxOps

(* An answer that a waiting processor would take, or for which a parked    *)
(* task would be woken, is the answer to its own request.                  *)
OwnAnswer ==
  \A c \in Cpus : \A r \in responses[c] :
    /\ r \in Claimable(c) => r.op = blocked[c].op
    /\ \A t \in Woken(c) : r.id = saved[t].id => r.op = saved[t].op

(* Where operation n is: its request on the way or parked with its target, *)
(* its answer on the way or filed.                                         *)
Filed == UNION {responses[c] : c \in Cpus}
Parked == UNION {remoteWaiters[t] : t \in Tasks}
Places(n) == {p \in net \cup Filed \cup Parked : p.op = n}

(* An operation is in one place at a time, and nowhere once it returned:   *)
(* no request is served twice and no answer is left over.                  *)
InOnePlace ==
  /\ net \cap (Filed \cup Parked) = {}
  /\ \A n \in DOMAIN log :
       /\ \A p, q \in Places(n) : p = q
       /\ log[n].got # NotReturned => Places(n) = {}

(* Every operation has one answer, which reaches it and nothing else.      *)
OneAnswer == OwnAnswer /\ InOnePlace

(* The refinement: an operation is decided when its answer exists.         *)
OpNow(n) ==
  LET ps == Places(n)
      decided == {p \in ps : ~p.req}
  IN [by |-> log[n].by, kind |-> log[n].kind, at |-> log[n].at,
      ph |-> IF log[n].got # NotReturned THEN "returned" ELSE IF ps = {} THEN "lost"
             ELSE IF decided = {} THEN "called" ELSE "decided",
      res |-> IF log[n].got # NotReturned THEN log[n].got
              ELSE IF decided = {} THEN Done ELSE (CHOOSE p \in decided : TRUE).result]
Cell(x) == IF ~alive[Home[x]] THEN Gone
           ELSE IF x \in Objects THEN mem[x] ELSE TaskStatus(x)

(* Every remote operation takes effect once, between its call and its      *)
(* return, with the result it returns.                                     *)
Promise == INSTANCE RemoteCall WITH
  cell <- [x \in Objects \cup Tasks |-> Cell(x)],
  op <- [n \in DOMAIN log |-> OpNow(n)],
  faulty <- {c \in Cpus : resets[c] > 0 \/ ~alive[c]}
ImplementsCall == Promise!Spec

(* An operation returns: one that need not wait, or a wait for a task that *)
(* has exited.  Excepted are a caller that was killed, processors that     *)
(* ended, were reset or stopped stepping, and ObjStoreBytes (see           *)
(* StoreReturns).                                                          *)
Pending(n) == n \in DOMAIN log /\ log[n].got = NotReturned
Excused(n) ==
  LET c == Home[log[n].by]
      h == Home[log[n].at]
  IN \/ state[log[n].by] = "EXITED" \/ ~active[c]
     \/ resets[c] > 0 \/ resets[h] > 0 \/ ~alive[c] \/ ~alive[h]
OperationReturns ==
  \A n \in 1..MaxOps :
    (/\ Pending(n) /\ log[n].kind # "put"
     /\ log[n].kind = "wait" => state[log[n].at] = "EXITED")
    ~> (~Pending(n) \/ Excused(n))

(* simorisc:1710 "if their IPC condition is now satisfied (matching        *)
(* response in cpu.responses, or non-empty queue), promote them to         *)
(* RUNNABLE": also a task that waits in ObjStoreBytes is.                  *)
StoreReturns ==
  \A n \in 1..MaxOps :
    (Pending(n) /\ log[n].kind = "put") ~> (~Pending(n) \/ Excused(n))

(* simorisc:1687 "Step it off the CPU now: pick another runnable,          *)
(* context-switch": the processor goes on with the task it picked.         *)
RunningIsStepped ==
  \A c \in Cpus : alive[c] /\ current[c] # NoTask /\ state[current[c]] = "RUNNING" => active[c]
=============================================================================

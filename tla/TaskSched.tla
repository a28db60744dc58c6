----------------------------- MODULE TaskSched -----------------------------
(***************************************************************************)
(* The firmware task scheduler of one ObjectRISC processor, as             *)
(* tools/sim/simorisc runs it: the Volume VI task primitives (TaskCreate,  *)
(* TaskResume, TaskSuspend, TaskYield, TaskExit, TaskKill, TaskWait), the  *)
(* two blocking receive primitives (ReceiveQueuePoll, WaitAnyQueue), the   *)
(* preemption timer with its deferred yield, and the part of System.run    *)
(* that wakes parked tasks and switches away from a blocked one.           *)
(*                                                                         *)
(* One iteration of System.run over the processor is two steps here: Wake  *)
(* (phase "wake"), then one of the actions of phase "cpu".  Packets, which *)
(* poll_incoming delivers before the processors run, arrive in phase       *)
(* "wake".  Message contents and exit codes are left out: a queue is the   *)
(* number of messages in it.                                               *)
(***************************************************************************)
EXTENDS Naturals, Sequences, FiniteSets, SequencesExt

CONSTANTS
  Tasks,           \* descriptor indices that may hold a task
  Boot,            \* the bootstrap task
  NoTask,          \* Python's None where a task is expected
  Queues,          \* objects with a receive queue attached
  Depth,           \* their queue_max_depth
  MaxSends,        \* bound: messages sent in one behaviour
  LoneSuspend,     \* may a program suspend itself with nothing else runnable?
  DisturbWaiters   \* may a program suspend or resume a task parked in TaskWait?

ASSUME TasksAssumption ==
  /\ IsFiniteSet(Tasks)
  /\ Boot \in Tasks
  /\ NoTask \notin Tasks
ASSUME QueuesAssumption == Depth \in Nat \ {0} /\ MaxSends \in Nat
ASSUME UsageAssumption == LoneSuspend \in BOOLEAN /\ DisturbWaiters \in BOOLEAN

VARIABLES
  state,         \* Task.state, "NONE" where cpu.tasks has no entry
  runnable,      \* cpu.runnable
  current,       \* cpu.current_task
  cpuBlocked,    \* cpu.blocked_on
  saved,         \* Task.blocked_on of every task
  waiters,       \* Task.waiters, as a set: a second entry is skipped
  redo,          \* tasks whose saved PC is still on their own TaskSuspend CALL
  queue,         \* number of messages in each receive queue
  active,        \* cpu.active
  inTrap,        \* cpu.in_trap_handler
  yieldPending,  \* cpu.yield_pending
  phase,         \* where System.run is in its iteration
  sends,         \* messages sent so far (bounded by MaxSends)
  pending        \* history: the target of a TaskWait that has not returned

taskVars == <<state, runnable, current, saved, waiters, redo, pending>>
trapVars == <<inTrap, yieldPending>>
vars == <<state, runnable, current, cpuBlocked, saved, waiters, redo, queue,
          active, inTrap, yieldPending, phase, sends, pending>>

-----------------------------------------------------------------------------
TaskState == {"NONE", "NEW", "RUNNABLE", "RUNNING", "SUSPENDED", "BLOCKED",
              "EXITED"}

(* What a processor or a parked task waits for: nothing, the sentinel      *)
(* BlockedOnExitWait, one queue, or any of a set of queues.  "timed" is a  *)
(* finite timeout; "due" that the wall-clock deadline has passed.          *)
Block == [kind : {"none", "exitwait", "poll", "waitany"},
          qs : SUBSET Queues, timed : BOOLEAN, due : BOOLEAN]
NotBlocked == [kind |-> "none", qs |-> {}, timed |-> FALSE, due |-> FALSE]
ExitWait == [NotBlocked EXCEPT !.kind = "exitwait"]
OnQueue(q, timed) ==
  [kind |-> "poll", qs |-> {q}, timed |-> timed, due |-> FALSE]
OnAnyQueue(S, timed) ==
  [kind |-> "waitany", qs |-> S, timed |-> timed, due |-> FALSE]

(* Mutant: a task without a blocking record counts as satisfied.           *)
SatisfiedByNone(b) == b.kind = "none" \/ b.due \/ \E q \in b.qs : queue[q] > 0

Satisfied(b) == \/ \E q \in b.qs : queue[q] > 0
                \/ b.due

(* The sequences that hold every member of a finite set exactly once.      *)
Orders(S) ==
  {f \in [1..Cardinality(S) -> S] :
     /\ \A i, j \in 1..Cardinality(S) : i # j => f[i] # f[j]
     /\ \A x \in S : \E i \in 1..Cardinality(S) : f[i] = x}

Init ==
  /\ state = [t \in Tasks |-> IF t = Boot THEN "RUNNING" ELSE "NONE"]
  /\ runnable = <<>>
  /\ current = Boot
  /\ cpuBlocked = NotBlocked
  /\ saved = [t \in Tasks |-> NotBlocked]
  /\ waiters = [t \in Tasks |-> {}]
  /\ redo = {}
  /\ queue = [q \in Queues |-> 0]
  /\ active = TRUE
  /\ inTrap = FALSE
  /\ yieldPending = FALSE
  /\ phase = "wake"
  /\ sends = 0
  /\ pending = [t \in Tasks |-> NoTask]

-----------------------------------------------------------------------------
(* Between two steps of the processor.                                     *)

(* Mutant: the depth check is missing.                                     *)
DeliverToFull(q) ==
  /\ phase = "wake" /\ active
  /\ sends < MaxSends
  /\ sends' = sends + 1
  /\ queue' = [queue EXCEPT ![q] = @ + 1]
  /\ UNCHANGED <<taskVars, trapVars, cpuBlocked, active, phase>>

(* A SEND reaches an attached queue; a full queue drops it.                *)
Deliver(q) ==
  /\ phase = "wake" /\ active
  /\ sends < MaxSends
  /\ sends' = sends + 1
  /\ queue' = [queue EXCEPT ![q] = IF @ < Depth THEN @ + 1 ELSE @]
  /\ UNCHANGED <<taskVars, trapVars, cpuBlocked, active, phase>>

(* The wall-clock deadline of a timed WaitAnyQueue passes.                 *)
Deadline(t) ==
  LET late(b) == b.kind = "waitany" /\ b.timed /\ ~b.due
  IN
  /\ phase = "wake" /\ active
  /\ \/ /\ t = current /\ late(cpuBlocked)
        /\ cpuBlocked' = [cpuBlocked EXCEPT !.due = TRUE]
        /\ UNCHANGED saved
     \/ /\ t # current /\ late(saved[t])
        /\ state[t] \in {"BLOCKED", "RUNNABLE", "SUSPENDED"}
        /\ saved' = [saved EXCEPT ![t].due = TRUE]
        /\ UNCHANGED cpuBlocked
  /\ UNCHANGED <<state, runnable, current, waiters, redo, pending, queue,
                 active, inTrap, yieldPending, phase, sends>>

(* _wake_blocked_tasks: every parked task whose condition now holds goes   *)
(* to the FRONT of the run queue; nothing is consumed yet.                 *)
WokenFromWaitAny == {t \in Tasks : /\ state[t] = "BLOCKED"  \* Mutant: forgets polls
                                   /\ t # current
                                   /\ saved[t].kind = "waitany"
                                   /\ Satisfied(saved[t])}
Woken == {t \in Tasks : /\ state[t] = "BLOCKED"
                        /\ t # current
                        /\ Satisfied(saved[t])}

Wake ==
  /\ phase = "wake" /\ active
  /\ \E ws \in Orders(Woken) : runnable' = ws \o runnable
  /\ state' = [t \in Tasks |-> IF t \in Woken THEN "RUNNABLE" ELSE state[t]]
  /\ phase' = "cpu"
  /\ UNCHANGED <<current, cpuBlocked, saved, waiters, redo, pending, queue,
                 active, inTrap, yieldPending, sends>>

-----------------------------------------------------------------------------
(* The processor is blocked: _try_unblock, then the switch away.           *)

BlockedTick == phase = "cpu" /\ active /\ cpuBlocked # NotBlocked

(* The condition holds: a poll takes the message, WaitAnyQueue does not.   *)
Unblock ==
  /\ BlockedTick
  /\ Satisfied(cpuBlocked)
  /\ queue' = [q \in Queues |->
                 IF cpuBlocked.kind = "poll" /\ q \in cpuBlocked.qs
                   THEN queue[q] - 1 ELSE queue[q]]
  /\ cpuBlocked' = NotBlocked
  /\ phase' = "wake"
  /\ UNCHANGED <<taskVars, trapVars, active, sends>>

(* The tick count of a timed poll runs out; it only runs on the processor. *)
Expire ==
  /\ BlockedTick
  /\ ~Satisfied(cpuBlocked)
  /\ cpuBlocked.kind = "poll" /\ cpuBlocked.timed
  /\ cpuBlocked' = NotBlocked
  /\ phase' = "wake"
  /\ UNCHANGED <<taskVars, trapVars, queue, active, sends>>

(* Mutant: an EXITED current task is parked like any other.                *)
SwitchAwayFromExited ==
  /\ BlockedTick
  /\ ~Satisfied(cpuBlocked)
  /\ runnable # <<>>
  /\ LET nxt == Head(runnable)
     IN /\ state' = [t \in Tasks |-> IF t = nxt THEN "RUNNING"
                                     ELSE IF t = current THEN "BLOCKED"
                                     ELSE state[t]]
        /\ saved' = [t \in Tasks |-> IF t = nxt THEN NotBlocked
                                     ELSE IF t = current THEN cpuBlocked
                                     ELSE saved[t]]
        /\ current' = nxt
        /\ cpuBlocked' = saved[nxt]
        /\ runnable' = Tail(runnable)
  /\ phase' = "wake"
  /\ UNCHANGED <<waiters, redo, pending, queue, active, inTrap, yieldPending,
                 sends>>

(* Still blocked with a runnable task: park the current one and load it.   *)
SwitchAway ==
  /\ BlockedTick
  /\ ~Satisfied(cpuBlocked)
  /\ runnable # <<>>
  /\ LET nxt == Head(runnable)
         parks == current # NoTask /\ state[current] # "EXITED"
     IN /\ runnable' = Tail(runnable)
        /\ IF nxt = current
             THEN UNCHANGED <<state, current, saved, cpuBlocked>>
             ELSE /\ state' = [t \in Tasks |->
                                 IF t = nxt THEN "RUNNING"
                                 ELSE IF t = current /\ parks THEN "BLOCKED"
                                 ELSE state[t]]
                  /\ saved' = [t \in Tasks |->
                                 IF t = nxt THEN NotBlocked
                                 ELSE IF t = current /\ parks THEN cpuBlocked
                                 ELSE saved[t]]
                  /\ current' = nxt
                  /\ cpuBlocked' = saved[nxt]
  /\ phase' = "wake"
  /\ UNCHANGED <<waiters, redo, pending, queue, active, inTrap, yieldPending,
                 sends>>

IdleTick ==
  /\ BlockedTick
  /\ ~Satisfied(cpuBlocked)
  /\ runnable = <<>>
  /\ phase' = "wake"
  /\ UNCHANGED <<taskVars, trapVars, cpuBlocked, queue, active, sends>>

-----------------------------------------------------------------------------
(* The current task executes one instruction.                              *)

Stepping == phase = "cpu" /\ active /\ cpuBlocked = NotBlocked
Executing == Stepping /\ ~inTrap /\ current \notin redo

(* Mutant: the loaded task is not marked RUNNING.                          *)
SwitchToUnmarked(st, q) ==
  /\ saved' = [saved EXCEPT ![current] = cpuBlocked, ![Head(q)] = NotBlocked]
  /\ state' = st
  /\ runnable' = Tail(q)
  /\ current' = Head(q)
  /\ cpuBlocked' = saved[Head(q)]

(* context_switch and its inlined copies: with the outgoing task's state   *)
(* already in st and its place in the run queue already in q, load the     *)
(* task at the head of q.  Its Task.blocked_on is dead until it leaves the *)
(* processor, which overwrites it: the model resets it here.               *)
SwitchTo(st, q) ==
  /\ saved' = [saved EXCEPT ![current] = cpuBlocked, ![Head(q)] = NotBlocked]
  /\ state' = [st EXCEPT ![Head(q)] = "RUNNING"]
  /\ runnable' = Tail(q)
  /\ current' = Head(q)
  /\ cpuBlocked' = saved[Head(q)]

(* _wake_waiters: the tasks parked in TaskWait on x, which is EXITED by    *)
(* then, become RUNNABLE at the back of the run queue, with the exit       *)
(* status in their registers.                                              *)
ReleasedIfTimed(x) ==  \* Mutant: waiters without a deadline are not woken
  {w \in waiters[x] : state[w] = "BLOCKED" /\ saved[w].timed}
Released(x) == {w \in waiters[x] \ {x} : state[w] = "BLOCKED"}
StateAfterExit(x) ==
  [t \in Tasks |-> IF t = x THEN "EXITED"
                   ELSE IF t \in Released(x) THEN "RUNNABLE"
                   ELSE state[t]]
ReleaseWaiters(x) ==
  /\ waiters' = [waiters EXCEPT ![x] = {}]
  /\ pending' = [t \in Tasks |->
                   IF t = x \/ (t \in Released(x) /\ pending[t] = x)
                     THEN NoTask ELSE pending[t]]

(* Any instruction without effect on the scheduler: a user instruction, a  *)
(* query, a primitive that returns an error status, TaskYield with nothing *)
(* runnable, TaskWait on an EXITED task, a poll that does not wait.        *)
Instruction ==
  /\ Executing
  /\ phase' = "wake"
  /\ UNCHANGED <<taskVars, trapVars, cpuBlocked, queue, active, sends>>

TaskCreate(t) ==
  /\ Executing
  /\ state[t] = "NONE"
  /\ state' = [state EXCEPT ![t] = "NEW"]
  /\ saved' = [saved EXCEPT ![t] = NotBlocked]
  /\ phase' = "wake"
  /\ UNCHANGED <<runnable, current, cpuBlocked, waiters, redo, pending, queue,
                 active, inTrap, yieldPending, sends>>

(* ObjFree of an EXITED task evicts it.  Entries of a dead task in other   *)
(* tasks' waiters lists can never match again: they are dropped with it,   *)
(* so that the index may be used for a new task.                           *)
ObjFreeTask(t) ==
  /\ Executing
  /\ state[t] = "EXITED"
  /\ state' = [state EXCEPT ![t] = "NONE"]
  /\ waiters' = [x \in Tasks |-> waiters[x] \ {t}]
  /\ redo' = redo \ {t}
  /\ phase' = "wake"
  /\ UNCHANGED <<runnable, current, cpuBlocked, saved, pending, queue, active,
                 inTrap, yieldPending, sends>>

TaskResumeFirst(t) ==  \* Mutant: the resumed task jumps the queue
  /\ Executing
  /\ state[t] \in {"NEW", "SUSPENDED", "BLOCKED"}
  /\ pending[t] # NoTask => DisturbWaiters
  /\ state' = [state EXCEPT ![t] = "RUNNABLE"]
  /\ runnable' = <<t>> \o runnable
  /\ phase' = "wake"
  /\ UNCHANGED <<current, cpuBlocked, saved, waiters, redo, pending, queue,
                 active, inTrap, yieldPending, sends>>

TaskResume(t) ==
  /\ Executing
  /\ state[t] \in {"NEW", "SUSPENDED", "BLOCKED"}
  /\ pending[t] # NoTask => DisturbWaiters
  /\ state' = [state EXCEPT ![t] = "RUNNABLE"]
  /\ runnable' = Append(runnable, t)
  /\ phase' = "wake"
  /\ UNCHANGED <<current, cpuBlocked, saved, waiters, redo, pending, queue,
                 active, inTrap, yieldPending, sends>>

TaskSuspendInPlace(t) ==  \* Mutant: the run queue keeps the suspended task
  /\ Executing
  /\ t # current
  /\ state[t] \in {"NEW", "RUNNABLE", "BLOCKED"}
  /\ pending[t] # NoTask => DisturbWaiters
  /\ state' = [state EXCEPT ![t] = "SUSPENDED"]
  /\ phase' = "wake"
  /\ UNCHANGED <<runnable, current, cpuBlocked, saved, waiters, redo, pending,
                 queue, active, inTrap, yieldPending, sends>>

TaskSuspend(t) ==
  /\ Executing
  /\ t # current
  /\ state[t] \in {"NEW", "RUNNABLE", "BLOCKED"}
  /\ pending[t] # NoTask => DisturbWaiters
  /\ state' = [state EXCEPT ![t] = "SUSPENDED"]
  /\ runnable' = IF state[t] = "RUNNABLE" THEN RemoveFirst(runnable, t)
                 ELSE runnable
  /\ phase' = "wake"
  /\ UNCHANGED <<current, cpuBlocked, saved, waiters, redo, pending, queue,
                 active, inTrap, yieldPending, sends>>

(* TaskSuspend on the caller.  The state is SUSPENDED before the search    *)
(* for a successor: with none, EBUSY is returned and the caller goes on.   *)
(* With one, the PC is saved as it is, on the CALL, which the task         *)
(* executes again when it next runs.                                       *)
TaskSuspendSelf ==
  /\ Stepping /\ ~inTrap
  /\ runnable = <<>> => LoneSuspend
  /\ LET st == [state EXCEPT ![current] = "SUSPENDED"]
         q == IF state[current] = "RUNNABLE" THEN RemoveFirst(runnable, current)
              ELSE runnable
     IN IF q = <<>>
          THEN /\ state' = st
               /\ runnable' = q
               /\ redo' = redo \ {current}
               /\ UNCHANGED <<current, cpuBlocked, saved>>
          ELSE /\ SwitchTo(st, q)
               /\ redo' = redo \cup {current}
  /\ phase' = "wake"
  /\ UNCHANGED <<waiters, pending, queue, active, inTrap, yieldPending, sends>>

TaskYield ==
  /\ Executing
  /\ runnable # <<>>
  /\ IF Head(runnable) = current
       THEN /\ runnable' = Tail(runnable)
            /\ UNCHANGED <<state, current, cpuBlocked, saved>>
       ELSE SwitchTo([state EXCEPT ![current] = "RUNNABLE"],
                     Append(runnable, current))
  /\ phase' = "wake"
  /\ UNCHANGED <<waiters, redo, pending, queue, active, inTrap, yieldPending,
                 sends>>

(* TaskExit: switch to a successor; else park the processor while a        *)
(* BLOCKED task may still wake; else the processor stops.                  *)
TaskExit ==
  /\ Executing
  /\ LET st == StateAfterExit(current)
     IN \E ws \in Orders(Released(current)) :
          LET q == runnable \o ws
          IN IF q # <<>>
               THEN /\ SwitchTo(st, q)
                    /\ UNCHANGED active
               ELSE /\ state' = st
                    /\ IF \E t \in Tasks : st[t] = "BLOCKED"
                         THEN cpuBlocked' = ExitWait /\ UNCHANGED active
                         ELSE active' = FALSE /\ UNCHANGED cpuBlocked
                    /\ UNCHANGED <<runnable, current, saved>>
  /\ ReleaseWaiters(current)
  /\ phase' = "wake"
  /\ UNCHANGED <<redo, queue, inTrap, yieldPending, sends>>

TaskKill(t) ==
  /\ Executing
  /\ t # current
  /\ state[t] \notin {"NONE", "EXITED"}
  /\ LET q == IF state[t] = "RUNNABLE" THEN RemoveFirst(runnable, t)
              ELSE runnable
     IN \E ws \in Orders(Released(t)) : runnable' = q \o ws
  /\ state' = StateAfterExit(t)
  /\ saved' = [saved EXCEPT ![t] = NotBlocked]
  /\ ReleaseWaiters(t)
  /\ phase' = "wake"
  /\ UNCHANGED <<current, cpuBlocked, redo, queue, active, inTrap,
                 yieldPending, sends>>

(* TaskWait on a live task: park past the CALL.  The caller is BLOCKED     *)
(* when the code looks for a BLOCKED task, so it always finds one and the  *)
(* EBUSY return is never taken.                                            *)
TaskWait(t) ==
  /\ Executing
  /\ t # current
  /\ state[t] \notin {"NONE", "EXITED"}
  /\ waiters' = [waiters EXCEPT ![t] = @ \cup {current}]
  /\ pending' = [pending EXCEPT ![current] = t]
  /\ LET st == [state EXCEPT ![current] = "BLOCKED"]
     IN IF runnable # <<>>
          THEN SwitchTo(st, runnable)
          ELSE /\ state' = st
               /\ saved' = [saved EXCEPT ![current] = cpuBlocked]
               /\ current' = NoTask
               /\ cpuBlocked' = ExitWait
               /\ UNCHANGED runnable
  /\ phase' = "wake"
  /\ UNCHANGED <<redo, queue, active, inTrap, yieldPending, sends>>

(* ReceiveQueuePoll: take a message, or wait for one on this CALL.         *)
ReceiveQueuePoll(q, timed) ==
  /\ Executing
  /\ IF queue[q] > 0
       THEN /\ queue' = [queue EXCEPT ![q] = @ - 1]
            /\ UNCHANGED cpuBlocked
       ELSE /\ cpuBlocked' = OnQueue(q, timed)
            /\ UNCHANGED queue
  /\ phase' = "wake"
  /\ UNCHANGED <<taskVars, trapVars, active, sends>>

(* WaitAnyQueue on a set without messages; otherwise it returns at once.   *)
WaitAnyQueue(S, timed) ==
  /\ Executing
  /\ \A q \in S : queue[q] = 0
  /\ cpuBlocked' = OnAnyQueue(S, timed)
  /\ phase' = "wake"
  /\ UNCHANGED <<taskVars, trapVars, queue, active, sends>>

-----------------------------------------------------------------------------
(* The preemption timer, with libc's handler: TaskYield, then ERET.        *)

TimerTrap ==
  /\ Stepping /\ ~inTrap
  /\ saved' = [saved EXCEPT ![current] = cpuBlocked]
  /\ inTrap' = TRUE
  /\ phase' = "wake"
  /\ UNCHANGED <<state, runnable, current, cpuBlocked, waiters, redo, pending,
                 queue, active, yieldPending, sends>>

(* Inside a handler TaskYield only records that a switch is wanted.        *)
HandlerYield ==
  /\ Stepping /\ inTrap /\ ~yieldPending
  /\ yieldPending' = TRUE
  /\ phase' = "wake"
  /\ UNCHANGED <<taskVars, cpuBlocked, queue, active, inTrap, sends>>

(* Mutant: the deferred yield is forgotten.                                *)
ERETInPlace ==
  /\ Stepping /\ inTrap /\ yieldPending
  /\ inTrap' = FALSE
  /\ yieldPending' = FALSE
  /\ cpuBlocked' = saved[current]
  /\ phase' = "wake"
  /\ UNCHANGED <<taskVars, queue, active, sends>>

(* ERET honours it, or resumes the trapped task from its saved image.      *)
ERET ==
  /\ Stepping /\ inTrap /\ yieldPending
  /\ inTrap' = FALSE
  /\ yieldPending' = FALSE
  /\ IF runnable = <<>> \/ Head(runnable) = current
       THEN /\ runnable' = IF runnable = <<>> THEN <<>> ELSE Tail(runnable)
            /\ cpuBlocked' = saved[current]
            /\ UNCHANGED <<state, current, saved>>
       ELSE LET q == Append(runnable, current)
            IN /\ state' = [state EXCEPT ![current] = "RUNNABLE",
                                         ![Head(q)] = "RUNNING"]
               /\ runnable' = Tail(q)
               /\ current' = Head(q)
               /\ cpuBlocked' = saved[Head(q)]
               /\ saved' = [saved EXCEPT ![Head(q)] = NotBlocked]
  /\ phase' = "wake"
  /\ UNCHANGED <<waiters, redo, pending, queue, active, sends>>

-----------------------------------------------------------------------------
CpuStep ==
  \/ Unblock \/ Expire \/ SwitchAway \/ IdleTick
  \/ Instruction \/ TaskSuspendSelf \/ TaskYield \/ TaskExit
  \/ \E t \in Tasks : \/ TaskCreate(t) \/ ObjFreeTask(t) \/ TaskResume(t)
                      \/ TaskSuspend(t) \/ TaskKill(t) \/ TaskWait(t)
  \/ \E q \in Queues, timed \in BOOLEAN : ReceiveQueuePoll(q, timed)
  \/ \E S \in SUBSET Queues, timed \in BOOLEAN : WaitAnyQueue(S, timed)
  \/ TimerTrap \/ HandlerYield \/ ERET

Next ==
  \/ \E q \in Queues : Deliver(q)
  \/ \E t \in Tasks : Deadline(t)
  \/ Wake
  \/ CpuStep

Spec == Init /\ [][Next]_vars

(* The loop of System.run never stops while the processor is active.       *)
(* Every executed instruction adds to the cycle count the timer compares   *)
(* with, so the timer fires again and again as long as tasks execute.      *)
Fairness ==
  /\ WF_vars(Wake)
  /\ WF_vars(CpuStep)
  /\ SF_vars(TimerTrap)

FairSpec == Spec /\ Fairness

-----------------------------------------------------------------------------
(* Every variable holds a value of its type.                               *)
TypeOK ==
  /\ state \in [Tasks -> TaskState]
  /\ runnable \in Seq(Tasks)
  /\ current \in Tasks \cup {NoTask}
  /\ cpuBlocked \in Block
  /\ saved \in [Tasks -> Block]
  /\ waiters \in [Tasks -> SUBSET Tasks]
  /\ redo \in SUBSET Tasks
  /\ queue \in [Queues -> 0..Depth]
  /\ active \in BOOLEAN
  /\ inTrap \in BOOLEAN
  /\ yieldPending \in BOOLEAN
  /\ phase \in {"wake", "cpu"}
  /\ sends \in 0..MaxSends
  /\ pending \in [Tasks -> Tasks \cup {NoTask}]

(* cpu.runnable holds exactly the tasks whose state is RUNNABLE, each      *)
(* once: every path that moves a task (resume, wake-up, yield, preemption, *)
(* suspend, kill) keeps the list and the state field in step.              *)
NoDuplicates ==
  \A i, j \in 1..Len(runnable) : runnable[i] = runnable[j] => i = j
RunQueueExact ==
  /\ NoDuplicates
  /\ \A t \in Tasks :
       state[t] = "RUNNABLE" <=> \E i \in 1..Len(runnable) : runnable[i] = t

(* At most one task is RUNNING and it is current_task; a processor whose   *)
(* current task is gone or has exited is parked on the exit sentinel or    *)
(* stopped, and never executes.                                            *)
CurrentRuns ==
  /\ \A t \in Tasks : state[t] = "RUNNING" => t = current
  /\ IF current = NoTask THEN cpuBlocked = ExitWait
     ELSE \/ state[current] = "RUNNING" /\ cpuBlocked # ExitWait
          \/ state[current] = "EXITED" /\ (cpuBlocked = ExitWait \/ ~active)

(* The list, the state fields and the current task agree at every step of  *)
(* the loop, in the middle of a trap and on the way out of a primitive.    *)
Scheduled == RunQueueExact /\ CurrentRuns

(* No task gets out of TaskWait before its target has exited, or with the  *)
(* status of some other task.                                              *)
WaitReturnsAfterExit ==
  \A t \in Tasks : state[t] \in {"RUNNABLE", "RUNNING"} => pending[t] = NoTask

(* No wake-up is lost: a parked task is registered with a live target of   *)
(* its TaskWait, or waits for a queue that _wake_blocked_tasks scans.      *)
NoLostWaiter ==
  \A t \in Tasks : state[t] = "BLOCKED" =>
    IF pending[t] # NoTask
      THEN /\ t \in waiters[pending[t]]
           /\ state[pending[t]] \notin {"NONE", "EXITED"}
      ELSE saved[t].kind \in {"poll", "waitany"}

(* A wait ends when it should, not before, and does not miss its end.      *)
WaitsSound == WaitReturnsAfterExit /\ NoLostWaiter

(* A terminated task never comes back: EXITED is left only by ObjFree.     *)
ExitedIsFinal ==
  [][\A t \in Tasks : state[t] = "EXITED" => state'[t] \in {"EXITED", "NONE"}]_vars

(* A task that suspended itself goes on after the call when it is resumed: *)
(* it does not suspend itself again.  The code saves the PC on the CALL,   *)
(* so this is what the documentation says, not what the processor does.    *)
SuspendReturns == [][TaskSuspendSelf => current \notin redo]_vars

(* Round robin: outside a wake-up nothing enters the run queue ahead of a  *)
(* task that is already in it.                                             *)
Ahead(q, u, t) == \E i, j \in 1..Len(q) : i < j /\ q[i] = u /\ q[j] = t
NoOvertaking ==
  [][phase = "cpu" =>
       \A t, u \in Tasks :
         /\ \E i \in 1..Len(runnable) : runnable[i] = t
         /\ Ahead(runnable', u, t)
         => Ahead(runnable, u, t)]_vars

(* A runnable task gets the processor (once SENDs, whose wake-ups go to    *)
(* the front of the queue, have stopped) even when every task loops.       *)
RunnableRuns == \A t \in Tasks : state[t] = "RUNNABLE" ~> state[t] # "RUNNABLE"

(* A message in a queue that a parked task polls is taken: the wake-up     *)
(* and the later delivery are two steps, other tasks run in between.       *)
Polled(q) == \E t \in Tasks : /\ state[t] = "BLOCKED"
                              /\ saved[t].kind = "poll" /\ q \in saved[t].qs
MessageTaken == \A q \in Queues :
                  (queue[q] > 0 /\ Polled(q)) ~> (queue[q] = 0 \/ ~Polled(q))

(* No task starves: neither in the run queue nor parked at a queue that    *)
(* holds a message.                                                        *)
NoneStarves == RunnableRuns /\ MessageTaken
=============================================================================

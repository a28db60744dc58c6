----------------------------- MODULE Supervisor -----------------------------
(***************************************************************************)
(* The Ouroboros supervisors (ouroboros/supervisor.c) and their clients    *)
(* (sup_spawn_at of libc, orx_unload, the window manager's End Session):   *)
(* one supervisor on every processor serves spawn requests from its        *)
(* mailbox, on its own processor or by relaying them to the supervisor of  *)
(* another; it keeps the tasks it made in a table of a few slots, tagged   *)
(* with the terminal they were started from.  A terminal that ends its     *)
(* session has its tasks killed here and, by a message to every peer, on   *)
(* the other processors.                                                   *)
(*                                                                         *)
(* A supervisor is one task that takes one message at a time, but nearly   *)
(* every step of serving one asks the directory or the file server and     *)
(* waits: the other processors, the tasks of its own and the arrival of    *)
(* messages go on in between.  What it does between two such waits is one  *)
(* action here.                                                            *)
(*                                                                         *)
(* A request is a member of Requests, and so is the task made for it.  The *)
(* clients are those tasks and the programs a processor starts with: the   *)
(* window manager of a terminal, the login shell of another processor;     *)
(* such a root client goes by the number of its processor.                 *)
(***************************************************************************)
EXTENDS Integers, Sequences, FiniteSets

CONSTANTS
  NCpus,      \* processors are 0 .. NCpus - 1: MAX_PROCID of the code
  Terminals,  \* processors with a display, and so with a window manager
  Roots,      \* processors with a root client
  Booted,     \* processors whose supervisor is up when a behaviour begins
  NSlots,     \* slots of a task table not taken at boot: 16 less one
  Depth,      \* depth of a supervisor's mailbox: 8
  Requests,   \* bound: the spawn requests of one behaviour
  Enders,     \* clients that may end their session
  Readers,    \* tasks that read the arguments they were started with
  Asks,       \* the placements each client asks for
  LocalPid, AnyPid, \* TARGET_PID_LOCAL, TARGET_PID_ANY
  None

Cpus == 0 .. (NCpus - 1)
Slot == 0 .. (NSlots - 1)
Targets == Cpus \cup {LocalPid, AnyPid}
Clients == Cpus \cup Requests
(* What a client asks for, on which processor, and its terminal.           *)
SpawnReq == [by : Clients, from : Cpus, to : Targets, hint : Cpus, localOk : BOOLEAN]

ASSUME CpusAssumption ==
  /\ NCpus \in Nat \ {0} /\ NSlots \in Nat \ {0} /\ Depth \in Nat \ {0}
  /\ Terminals \subseteq Roots /\ Roots \subseteq Cpus /\ Booted \subseteq Cpus
ASSUME RequestsAssumption ==
  /\ IsFiniteSet(Requests) /\ Requests \cap Cpus = {}
  /\ Enders \subseteq Terminals \cup Requests /\ Readers \subseteq Requests
ASSUME TargetsAssumption ==
  /\ LocalPid \notin Cpus /\ AnyPid \notin Cpus /\ LocalPid # AnyPid
  /\ Asks \in [Clients -> SUBSET Targets] /\ None \notin Cpus \cup Requests \cup SpawnReq

VARIABLES
  dir,      \* processors with an entry /sys/cpu/<n>/supervisor
  wm,       \* processors with an entry /sys/wm/<n>/0
  at,       \* where each supervisor is in its program
  cur,      \* the message it is serving
  scan,     \* the loop variable of pick_next_cpu and of the broadcast
  peer,     \* the processor it relays to
  counter,  \* next_cpu_counter
  mbox,     \* the queue of each supervisor's mailbox
  wire,     \* messages between processors, in order
  table,    \* the task and manifest tables of each supervisor
  origin,   \* task_term_origin
  args,     \* the buffer of arguments each supervisor shares with its tasks
  req,      \* what each client asked for
  task,     \* the task made for a request
  node,     \* the processor it was made on
  mem,      \* the code, data and stack loaded for it
  seen,     \* the arguments it read
  hold,     \* how the client of a request stands
  ended,    \* clients that have ended their session
  reply,    \* history: the replies sent for a request
  made,     \* history: how many tasks were made for it
  hops,     \* history: how often it was relayed
  lost      \* history: requests dropped with the mailbox they were sent to

vars == <<dir, wm, at, cur, scan, peer, counter, mbox, wire, table, origin,
          args, req, task, node, mem, seen, hold, ended, reply, made, hops, lost>>
supVars == <<at, cur, scan, peer, counter>>
tableVars == <<table, origin, task, hold, mem>>
taskVars == <<table, origin, args, task, node, mem, seen>>
netVars == <<mbox, wire, lost>>
clientVars == <<req, hold, ended>>
history == <<reply, made, hops>>

Msg == [op : {"spawn", "end", "cull"}, req : Requests \cup {None},
        to : Targets, hint : Cpus \cup {None}]
NoMsg == [op |-> "end", req |-> None, to |-> LocalPid, hint |-> None]
SpawnMsg(r, to, hint) == [op |-> "spawn", req |-> r, to |-> to, hint |-> hint]
CullMsg(terminal) == [NoMsg EXCEPT !.op = "cull", !.hint = terminal]

Init ==
  /\ dir = Booted /\ wm = {} /\ ended = {} /\ lost = {}
  /\ at = [c \in Cpus |-> IF c \in Booted THEN "poll" ELSE "boot"]
  /\ cur = [c \in Cpus |-> NoMsg]
  /\ scan = [c \in Cpus |-> 0]
  /\ peer = [c \in Cpus |-> c]
  /\ counter = [c \in Cpus |-> (c + 1) % NCpus]
  /\ mbox = [c \in Cpus |-> <<>>]
  /\ wire = [c \in Cpus |-> [d \in Cpus |-> <<>>]]
  /\ table = [c \in Cpus |-> [s \in Slot |-> None]]
  /\ origin = [c \in Cpus |-> [s \in Slot |-> None]]
  /\ args = [c \in Cpus |-> None]
  /\ req = [r \in Requests |-> None]
  /\ task = [r \in Requests |-> "none"]
  /\ node = [r \in Requests |-> None]
  /\ mem = [r \in Requests |-> "none"]
  /\ seen = [r \in Requests |-> None]
  /\ hold = [r \in Requests |-> "idle"]
  /\ reply = [r \in Requests |-> <<>>]
  /\ made = [r \in Requests |-> 0]
  /\ hops = [r \in Requests |-> 0]

-----------------------------------------------------------------------------
(* Clients.                                                                *)

CpuOf(b) == IF b \in Cpus THEN b ELSE node[b]
(* task_my_terminal_idx: a task has the terminal of the client it was      *)
(* started for, a root client that of its processor.                       *)
TerminalOf(b) == IF b \in Cpus THEN b ELSE req[b].hint

Alive(b) == IF b \in Cpus THEN b \in Roots /\ b \notin ended
            ELSE task[b] = "live"
(* sup_spawn_at blocks until the reply, task_wait until the task ends.     *)
Blocked(b) ==
  \E r \in Requests : req[r] # None /\ req[r].by = b /\ hold[r] \in {"asked", "waiting"}
Runs(b) ==
  /\ Alive(b) /\ b \notin ended /\ ~Blocked(b)
  /\ b \in Cpus => at[b] # "boot" /\ (b \in Terminals => b \in wm)

(* SEND to a mailbox of this processor: a full queue drops the message,    *)
(* and nobody serves the queue of a supervisor that has ended.             *)
Arrives(c, m) ==
  IF at[c] # "halted" /\ Len(mbox[c]) < Depth
  THEN mbox' = [mbox EXCEPT ![c] = Append(@, m)] /\ lost' = lost
  ELSE mbox' = mbox /\ lost' = lost \cup ({m.req} \ {None})

(* sup_spawn_at: op 1 to the supervisor of the client's own processor.  A  *)
(* program's mark LOCAL_OK is looked at only when the placement is open.   *)
Ask(b, r, to, localOk) ==
  /\ Runs(b) /\ to \in Asks[b] /\ req[r] = None /\ (localOk => to = AnyPid)
  /\ req' = [req EXCEPT ![r] = [by |-> b, from |-> CpuOf(b), to |-> to,
                                hint |-> TerminalOf(b), localOk |-> localOk]]
  /\ hold' = [hold EXCEPT ![r] = "asked"]
  /\ Arrives(CpuOf(b), SpawnMsg(r, to, TerminalOf(b)))
  /\ UNCHANGED <<dir, wm, supVars, wire, taskVars, ended, history>>

(* The reply arrives: the client enrols the task or reports the failure.   *)
Receive(r) ==
  /\ hold[r] = "asked" /\ reply[r] # <<>> /\ Alive(req[r].by)
  /\ hold' = [hold EXCEPT ![r] = IF Head(reply[r]) = "ok" THEN "held" ELSE "failed"]
  /\ UNCHANGED <<dir, wm, supVars, netVars, taskVars, req, ended, history>>

(* orx_unload of a client begins with task_wait: it blocks while the task  *)
(* runs, and fails when the descriptor is no longer there.                 *)
Wait(r) ==
  /\ hold[r] = "held" /\ Runs(req[r].by)
  /\ hold' = [hold EXCEPT ![r] = CASE task[r] = "live"   -> "waiting"
                                   [] task[r] = "exited" -> "collected"
                                   [] OTHER              -> "stuck"]
  /\ UNCHANGED <<dir, wm, supVars, netVars, taskVars, req, ended, history>>

(* The end of it, task_free: the slot is given up when the descriptor was  *)
(* freed, and for a task of another processor, which ObjFree refuses.  The *)
(* client's own manifest has no entry for the task.                        *)
Release(r) ==
  LET here == node[r] = CpuOf(req[r].by)
  IN /\ hold[r] = "collected" /\ Runs(req[r].by)
     /\ hold' = [hold EXCEPT ![r] = IF here /\ task[r] # "exited" THEN "stuck"
                                    ELSE "released"]
     /\ task' = IF here THEN [task EXCEPT ![r] = "freed"] ELSE task
     /\ UNCHANGED <<dir, wm, supVars, netVars, table, origin, args, node, mem,
                    seen, req, ended, history>>

(* Tasks that end, by themselves or killed, wake those that wait for them. *)
TasksEnd(S) ==
  LET dying == {r \in S : task[r] = "live"}
  IN /\ task' = [r \in Requests |-> IF r \in dying THEN "exited" ELSE task[r]]
     /\ hold' = [r \in Requests |->
                   IF r \in dying /\ hold[r] = "waiting" THEN "collected" ELSE hold[r]]

Exit(r) ==
  /\ task[r] = "live" /\ Runs(r)
  /\ TasksEnd({r})
  /\ UNCHANGED <<dir, wm, supVars, netVars, table, origin, args, node, mem, seen,
                 req, ended, history>>

(* program_args: the task copies the shared buffer some time after start.  *)
ReadArgs(r) ==
  /\ r \in Readers /\ Runs(r) /\ seen[r] = None
  /\ seen' = [seen EXCEPT ![r] = args[node[r]]]
  /\ UNCHANGED <<dir, wm, supVars, netVars, table, origin, args, task, node, mem,
                 clientVars, history>>

(* End Session of a window manager, which withdraws its entry first and    *)
(* exits after it; `exit' of a shell, which then yields for ever.          *)
EndSession(b) ==
  /\ b \in Enders /\ Runs(b)
  /\ ended' = ended \cup {b}
  /\ wm' = wm \ {b}
  /\ Arrives(CpuOf(b), NoMsg)
  /\ UNCHANGED <<dir, supVars, wire, taskVars, req, hold, history>>

-----------------------------------------------------------------------------
(* Boot, and the network.                                                  *)

Boot(c) ==
  /\ at[c] = "boot"
  /\ at' = [at EXCEPT ![c] = "poll"]
  /\ dir' = dir \cup {c}
  /\ UNCHANGED <<wm, cur, scan, peer, counter, netVars, taskVars, clientVars, history>>

(* sysinit starts the window manager, which registers itself.              *)
StartWM(c) ==
  /\ c \in Terminals \ (wm \cup ended) /\ at[c] \notin {"boot", "halted"}
  /\ wm' = wm \cup {c}
  /\ UNCHANGED <<dir, supVars, netVars, taskVars, clientVars, history>>

Deliver(c, d) ==
  /\ wire[c][d] # <<>>
  /\ Arrives(d, Head(wire[c][d]))
  /\ wire' = [wire EXCEPT ![c][d] = Tail(@)]
  /\ UNCHANGED <<dir, wm, supVars, taskVars, clientVars, history>>

Sends(c, d, m) == wire' = [wire EXCEPT ![c][d] = Append(@, m)]

-----------------------------------------------------------------------------
(* The supervisor: the dispatch loop takes a message.                      *)

Goto(c, place) == at' = [at EXCEPT ![c] = place]

(* reply_to_requester.                                                     *)
Tell(r, what) == reply' = [reply EXCEPT ![r] = Append(@, what)]

ExitedSlots(c, t) == {s \in Slot : table[c][s] # None /\ t[table[c][s]] = "exited"}

(* reap_exited_tasks, when the states of the tasks are t: task_query fails *)
(* for a descriptor that is gone, and the slot is passed over.  orx_unload *)
(* frees what was loaded, the descriptor and the slot.                     *)
Reap(c, t) ==
  LET done == ExitedSlots(c, t)
      gone == {table[c][s] : s \in done}
  IN /\ task' = [r \in Requests |-> IF r \in gone THEN "freed" ELSE t[r]]
     /\ mem' = [r \in Requests |-> IF r \in gone THEN "freed" ELSE mem[r]]
     /\ table' = [table EXCEPT ![c] = [s \in Slot |-> IF s \in done THEN None ELSE @[s]]]
     /\ origin' = [origin EXCEPT ![c] = [s \in Slot |-> IF s \in done THEN None ELSE @[s]]]

Takes(c, op) ==
  /\ at[c] = "poll" /\ mbox[c] # <<>> /\ Head(mbox[c]).op = op
  /\ mbox' = [mbox EXCEPT ![c] = Tail(@)]
  /\ cur' = [cur EXCEPT ![c] = Head(mbox[c])]

(* handle_spawn_request, to the choice of a processor.  A terminal keeps a *)
(* program marked LOCAL_OK.                                                *)
Placement(c, m) ==
  IF m.to = AnyPid
  THEN IF c \in Terminals /\ req[m.req].localOk THEN "load" ELSE "pick"
  ELSE IF m.to \in Cpus /\ m.to # c THEN "relay" ELSE "load"

TakeSpawn(c) ==
  LET m == Head(mbox[c])
  IN /\ Takes(c, "spawn")
     /\ Reap(c, task) /\ hold' = hold
     /\ Goto(c, Placement(c, m))
     /\ peer' = [peer EXCEPT ![c] = IF m.to \in Cpus THEN m.to ELSE c]
     /\ scan' = [scan EXCEPT ![c] = 0]
     /\ UNCHANGED <<dir, wm, counter, wire, lost, args, node, seen, req, ended, history>>

(* Shutdown, op 2: a terminal tells its peers first.                       *)
TakeEnd(c) ==
  /\ Takes(c, "end")
  /\ Goto(c, IF c \in Terminals THEN "broadcast" ELSE "unregister")
  /\ scan' = [scan EXCEPT ![c] = 0]
  /\ UNCHANGED <<dir, wm, peer, counter, wire, lost, taskVars, clientVars, history>>

(* cull_tasks_for_terminal, op 3: kill what is tagged, reap if it was any. *)
TakeCullAll(c) ==  \* Mutant: the tag is not looked at
  LET S == {s \in Slot : table[c][s] # None}
      dying == {table[c][s] : s \in S} \cap {r \in Requests : task[r] = "live"}
      killed == [r \in Requests |-> IF r \in dying THEN "exited" ELSE task[r]]
  IN /\ Takes(c, "cull")
     /\ hold' = [r \in Requests |->
                   IF r \in dying /\ hold[r] = "waiting" THEN "collected" ELSE hold[r]]
     /\ IF S = {} THEN UNCHANGED <<table, origin, task, mem>> ELSE Reap(c, killed)
     /\ UNCHANGED <<dir, wm, at, scan, peer, counter, wire, lost, args, node, seen,
                    req, ended, history>>
TakeCull(c) ==
  LET S == {s \in Slot : table[c][s] # None /\ origin[c][s] = Head(mbox[c]).hint}
      dying == {table[c][s] : s \in S} \cap {r \in Requests : task[r] = "live"}
      killed == [r \in Requests |-> IF r \in dying THEN "exited" ELSE task[r]]
  IN /\ Takes(c, "cull")
     /\ hold' = [r \in Requests |->
                   IF r \in dying /\ hold[r] = "waiting" THEN "collected" ELSE hold[r]]
     /\ IF S = {} THEN UNCHANGED <<table, origin, task, mem>> ELSE Reap(c, killed)
     /\ UNCHANGED <<dir, wm, at, scan, peer, counter, wire, lost, args, node, seen,
                    req, ended, history>>

-----------------------------------------------------------------------------
(* Choosing a processor, and relaying.                                     *)

Candidate(c) == (counter[c] + scan[c]) % NCpus

(* pick_next_cpu asks whether the next candidate has a supervisor ...      *)
PickWalk(c) ==
  /\ at[c] = "pick" /\ scan[c] < NCpus
  /\ IF Candidate(c) \in dir THEN Goto(c, "picked") /\ scan' = scan
     ELSE at' = at /\ scan' = [scan EXCEPT ![c] = @ + 1]
  /\ UNCHANGED <<dir, wm, cur, peer, counter, netVars, taskVars, clientVars, history>>

(* ... and passes it over if it has a window manager.                      *)
PickTerminal(c) ==
  /\ at[c] = "picked"
  /\ IF Candidate(c) \in wm
     THEN /\ Goto(c, "pick") /\ scan' = [scan EXCEPT ![c] = @ + 1]
          /\ UNCHANGED <<counter, peer>>
     ELSE /\ Goto(c, IF Candidate(c) = c THEN "load" ELSE "relay")
          /\ peer' = [peer EXCEPT ![c] = Candidate(c)]
          /\ counter' = [counter EXCEPT ![c] = (Candidate(c) + 1) % NCpus]
          /\ scan' = scan
  /\ UNCHANGED <<dir, wm, cur, netVars, taskVars, clientVars, history>>

PickSelf(c) ==
  /\ at[c] = "pick" /\ scan[c] = NCpus
  /\ Goto(c, "load")
  /\ counter' = [counter EXCEPT ![c] = (c + 1) % NCpus]
  /\ UNCHANGED <<dir, wm, cur, scan, peer, netVars, taskVars, clientVars, history>>

(* relay_spawn_request: the peer's mailbox is looked up, and the request   *)
(* refused if there is none ...                                            *)
RelayWalk(c) ==
  /\ at[c] = "relay"
  /\ IF peer[c] \in dir THEN Goto(c, "send") /\ reply' = reply
     ELSE Goto(c, "poll") /\ Tell(cur[c].req, "no")
  /\ UNCHANGED <<dir, wm, cur, scan, peer, counter, netVars, taskVars, clientVars,
                 made, hops>>

(* ... and then sent on, pinned to the processor it is sent to.            *)
RelaySendFallsThrough(c) ==  \* Mutant: no return after the relay
  /\ at[c] = "send"
  /\ Sends(c, peer[c], SpawnMsg(cur[c].req, LocalPid, cur[c].hint))
  /\ hops' = [hops EXCEPT ![cur[c].req] = @ + 1]
  /\ Goto(c, "load")
  /\ UNCHANGED <<dir, wm, cur, scan, peer, counter, mbox, lost, taskVars, clientVars,
                 reply, made>>
RelaySend(c) ==
  /\ at[c] = "send"
  /\ Sends(c, peer[c], SpawnMsg(cur[c].req, LocalPid, cur[c].hint))
  /\ hops' = [hops EXCEPT ![cur[c].req] = @ + 1]
  /\ Goto(c, "poll")
  /\ UNCHANGED <<dir, wm, cur, scan, peer, counter, mbox, lost, taskVars, clientVars,
                 reply, made>>

-----------------------------------------------------------------------------
(* A spawn on this processor: orx_spawn and what surrounds it.             *)

(* The terminal's services are looked up, the image is loaded and the      *)
(* arguments are put where the task will look for them.                    *)
Load(c) ==
  /\ at[c] = "load"
  /\ mem' = [mem EXCEPT ![cur[c].req] = "held"]
  /\ args' = [args EXCEPT ![c] = cur[c].req]
  /\ Goto(c, "create")
  /\ UNCHANGED <<dir, wm, cur, scan, peer, counter, netVars, table, origin, task, node,
                 seen, clientVars, history>>

(* The request has no bytes, the file is not there or not a program, or    *)
(* memory is short: what was allocated is freed again.                     *)
LoadFailsSilently(c) ==  \* Mutant: an early return without a reply
  /\ at[c] = "load"
  /\ Goto(c, "poll")
  /\ UNCHANGED <<dir, wm, cur, scan, peer, counter, netVars, taskVars, clientVars,
                 history>>
LoadFails(c) ==
  /\ at[c] = "load"
  /\ Goto(c, "poll")
  /\ Tell(cur[c].req, "no")
  /\ UNCHANGED <<dir, wm, cur, scan, peer, counter, netVars, taskVars, clientVars,
                 made, hops>>

FreeSlots(c) == {s \in Slot : table[c][s] = None}

(* TaskCreate, task_register_o1, TaskResume, the manifest, the tag and the *)
(* reply.  The task runs before the last three are done, but only this     *)
(* supervisor looks at the tables.                                         *)
CreateUntagged(c) ==  \* Mutant: the tag of the slot's last task stays
  LET r == cur[c].req
  IN \E s \in FreeSlots(c) :
     /\ at[c] = "create" /\ \A y \in FreeSlots(c) : s <= y
     /\ table' = [table EXCEPT ![c][s] = r]
     /\ task' = [task EXCEPT ![r] = "live"]
     /\ node' = [node EXCEPT ![r] = c]
     /\ made' = [made EXCEPT ![r] = @ + 1]
     /\ Tell(r, "ok")
     /\ Goto(c, "poll")
     /\ UNCHANGED <<dir, wm, cur, scan, peer, counter, netVars, args, mem, seen,
                    clientVars, hops, origin>>
Create(c) ==
  LET r == cur[c].req
  IN \E s \in FreeSlots(c) :
     /\ at[c] = "create" /\ \A y \in FreeSlots(c) : s <= y
     /\ table' = [table EXCEPT ![c][s] = r]
     /\ origin' = [origin EXCEPT ![c][s] = cur[c].hint]
     /\ task' = [task EXCEPT ![r] = "live"]
     /\ node' = [node EXCEPT ![r] = c]
     /\ made' = [made EXCEPT ![r] = @ + 1]
     /\ Tell(r, "ok")
     /\ Goto(c, "poll")
     /\ UNCHANGED <<dir, wm, cur, scan, peer, counter, netVars, args, mem, seen,
                    clientVars, hops>>

(* The table is full: the task that was made never runs, and nothing       *)
(* names it any more.                                                      *)
CreateFails(c) ==
  LET r == cur[c].req
  IN /\ at[c] = "create" /\ FreeSlots(c) = {}
     /\ task' = [task EXCEPT ![r] = "orphan"]
     /\ node' = [node EXCEPT ![r] = c]
     /\ mem' = [mem EXCEPT ![r] = "freed"]
     /\ Tell(r, "no")
     /\ Goto(c, "poll")
     /\ UNCHANGED <<dir, wm, cur, scan, peer, counter, netVars, table, origin, args,
                    seen, clientVars, made, hops>>

-----------------------------------------------------------------------------
(* Shutdown.                                                               *)

(* broadcast_cull_to_peers, one peer.                                      *)
BroadcastPast(c) ==  \* Mutant: the loop runs one too far
  /\ at[c] = "broadcast" /\ scan[c] <= NCpus
  /\ IF scan[c] # c /\ scan[c] \in dir THEN Sends(c, scan[c], CullMsg(c)) ELSE wire' = wire
  /\ scan' = [scan EXCEPT ![c] = @ + 1]
  /\ UNCHANGED <<dir, wm, at, cur, peer, counter, mbox, lost, taskVars, clientVars, history>>
Broadcast(c) ==
  /\ at[c] = "broadcast" /\ scan[c] < NCpus
  /\ IF scan[c] # c /\ scan[c] \in dir THEN Sends(c, scan[c], CullMsg(c)) ELSE wire' = wire
  /\ scan' = [scan EXCEPT ![c] = @ + 1]
  /\ UNCHANGED <<dir, wm, at, cur, peer, counter, mbox, lost, taskVars, clientVars, history>>

Unregister(c) ==
  /\ at[c] = "unregister" \/ (at[c] = "broadcast" /\ scan[c] = NCpus)
  /\ dir' = dir \ {c}
  /\ Goto(c, "kill")
  /\ UNCHANGED <<wm, cur, scan, peer, counter, netVars, taskVars, clientVars, history>>

(* The cascade kill, and the end of the supervisor with its mailbox.       *)
KillAll(c) ==
  /\ at[c] = "kill"
  /\ TasksEnd({table[c][s] : s \in Slot} \ {None})
  /\ Goto(c, "halted")
  /\ lost' = lost \cup ({mbox[c][i].req : i \in 1 .. Len(mbox[c])} \ {None})
  /\ mbox' = [mbox EXCEPT ![c] = <<>>]
  /\ UNCHANGED <<dir, wm, cur, scan, peer, counter, wire, table, origin, args, node,
                 mem, seen, req, ended, history>>

-----------------------------------------------------------------------------
Serve(c) ==
  \/ TakeSpawn(c) \/ TakeEnd(c) \/ TakeCull(c)
  \/ PickWalk(c) \/ PickTerminal(c) \/ PickSelf(c) \/ RelayWalk(c) \/ RelaySend(c)
  \/ Load(c) \/ LoadFails(c) \/ Create(c) \/ CreateFails(c)
  \/ Broadcast(c) \/ Unregister(c) \/ KillAll(c)

Client ==
  \/ \E b \in Clients, r \in Requests, to \in Targets, ok \in BOOLEAN :
       Ask(b, r, to, ok)
  \/ \E r \in Requests : Receive(r) \/ Wait(r) \/ Release(r) \/ Exit(r) \/ ReadArgs(r)
  \/ \E b \in Clients : EndSession(b)

Next ==
  \/ Client
  \/ \E c \in Cpus : Boot(c) \/ StartWM(c) \/ Serve(c)
  \/ \E c, d \in Cpus : Deliver(c, d)

Spec == Init /\ [][Next]_vars

(* Supervisors and the network go on; clients do as they like, except that *)
(* one whose reply has arrived goes on with it.                            *)
FairSpec ==
  /\ Spec
  /\ \A c \in Cpus : WF_vars(Serve(c))
  /\ \A d \in Cpus : WF_vars(\E c \in Cpus : Deliver(c, d))
  /\ \A r \in Requests : WF_vars(Receive(r))

-----------------------------------------------------------------------------
(* Type correctness of every variable.                                     *)
TypeOK ==
  /\ dir \subseteq Cpus /\ wm \subseteq Terminals
  /\ at \in [Cpus -> {"boot", "poll", "pick", "picked", "relay", "send", "load",
                      "create", "broadcast", "unregister", "kill", "halted"}]
  /\ cur \in [Cpus -> Msg] /\ scan \in [Cpus -> 0 .. NCpus]
  /\ peer \in [Cpus -> Cpus] /\ counter \in [Cpus -> Cpus]
  /\ mbox \in [Cpus -> Seq(Msg)] /\ wire \in [Cpus -> [Cpus -> Seq(Msg)]]
  /\ table \in [Cpus -> [Slot -> Requests \cup {None}]]
  /\ origin \in [Cpus -> [Slot -> Cpus \cup {None}]]
  /\ args \in [Cpus -> Requests \cup {None}]
  /\ req \in [Requests -> SpawnReq \cup {None}]
  /\ task \in [Requests -> {"none", "live", "exited", "freed", "orphan"}]
  /\ node \in [Requests -> Cpus \cup {None}]
  /\ mem \in [Requests -> {"none", "held", "freed"}]
  /\ seen \in [Requests -> Requests \cup {None}]
  /\ hold \in [Requests -> {"idle", "asked", "held", "failed", "waiting", "collected",
                            "released", "stuck"}]
  /\ ended \subseteq Clients /\ lost \subseteq Requests
  /\ reply \in [Requests -> Seq({"ok", "no"})]
  /\ made \in [Requests -> Nat] /\ hops \in [Requests -> Nat]

(* A request gets one reply and one task at most, whatever supervisors it  *)
(* passes through, and the reply says whether there is a task: a client    *)
(* told of a failure has nothing running.                                  *)
OneTask(r) ==
  /\ Len(reply[r]) <= 1 /\ made[r] <= 1
  /\ reply[r] = <<"ok">> <=> made[r] = 1
  /\ r \in lost => reply[r] = <<>>

(* A request is relayed once at most, and its task is made where the       *)
(* client asked for it: on its own processor, on the processor named, or,  *)
(* if it left the choice open, wherever the first supervisor sent it.  A   *)
(* program that may stay on its terminal stays there.                      *)
Placed(r) ==
  /\ hops[r] <= 1
  /\ task[r] # "none" =>
       CASE req[r].to = LocalPid -> node[r] = req[r].from
         [] req[r].to = AnyPid   -> /\ node[r] # req[r].from => hops[r] = 1
                                    /\ (req[r].localOk /\ req[r].from \in Terminals)
                                         => node[r] = req[r].from
         [] OTHER                -> node[r] = req[r].to

(* Each request makes one task at most, in the place it was asked for.     *)
SpawnedOnce == \A r \in Requests : OneTask(r) /\ Placed(r)

(* Every running task is in exactly one slot of the supervisor that made   *)
(* it, which has not ended, tagged with the terminal it was started from,  *)
(* and its memory is there: so a session's end finds it and reaping frees  *)
(* it once.  Memory that is held belongs to a task in the table or to the  *)
(* spawn under way.                                                        *)
SlotsOf(r) == {p \in Cpus \X Slot : table[p[1]][p[2]] = r}
Accounted ==
  \A r \in Requests :
    /\ task[r] = "live" => at[node[r]] # "halted"
    /\ task[r] \in {"live", "exited"} =>
         /\ mem[r] = "held"
         /\ \E s \in Slot : /\ SlotsOf(r) = {<<node[r], s>>}
                            /\ origin[node[r]][s] = req[r].hint
    /\ mem[r] = "held" =>
         SlotsOf(r) # {} \/ \E c \in Cpus : at[c] = "create" /\ cur[c].req = r

(* Asked for, made, told and kept: of a request there is one task, one     *)
(* reply that is true, and one slot that knows the task.                   *)
OneOfEach == SpawnedOnce /\ Accounted

(* Taking the message that a terminal ended its session ends exactly the   *)
(* tasks of that processor that were started from that terminal.           *)
CullExact ==
  [][\A c \in Cpus :
       (at[c] = "poll" /\ mbox[c] # <<>> /\ Head(mbox[c]).op = "cull"
         /\ mbox'[c] = Tail(mbox[c])) =>
       \A r \in Requests : task[r] = "live" /\ node[r] = c =>
                             (task'[r] = "live" <=> req[r].hint # Head(mbox[c]).hint)]_vars

(* A client that asked for a task is told the outcome, unless it has ended *)
(* itself or a full or abandoned mailbox dropped the request.              *)
SpawnAnswered ==
  \A r \in Requests :
    hold[r] = "asked" ~> (hold[r] # "asked" \/ r \in lost \/ ~Alive(req[r].by))

-----------------------------------------------------------------------------
(* What comments of the code claim.                                        *)

(* orx.c: the arguments a task reads are those it was started with.        *)
ArgsAreOwn == \A r \in Requests : seen[r] \in {None, r}

(* supervisor.c: reaping leaves a clean table.  No slot keeps a task whose *)
(* descriptor is gone, which no later reaping can tell from a running one. *)
NoDeadSlot ==
  \A c \in Cpus, s \in Slot : table[c][s] # None => task[table[c][s]] # "freed"

(* supervisor.c: the tasks a terminal started elsewhere do not outlive it, *)
(* once the messages of its shutdown have arrived.                         *)
NoOrphan ==
  \A c \in Terminals :
    (/\ at[c] = "halted"
     /\ \A d \in Cpus : mbox[d] = <<>> /\ at[d] \in {"poll", "halted"} /\ wire[c][d] = <<>>)
    => \A r \in Requests : task[r] = "live" => req[r].hint # c

(* supervisor.c: a terminal runs only what was started from it.            *)
TerminalForItsOwn ==
  \A r \in Requests :
    task[r] # "none" /\ node[r] \in Terminals /\ req[r].to = AnyPid => node[r] = req[r].from
=============================================================================

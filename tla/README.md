# A TLA+ model of ObjectRISC

ObjectRISC is a capability machine that exists as a set of cooperating programs: a processor
simulator (one process per processor, or several processors in one process), a crossbar that
switches packets between processes, device daemons that speak the same packets, and an operating
environment (Ouroboros) that runs on the simulated processors. This directory holds TLA+ models of
the parts where order, concurrency and reuse matter, TLC configurations that check them, and TLAPS
proofs. Paths are relative to the repository; `simorisc` is `tools/sim/simorisc`.

1. [The system](#1-the-system)
2. [Modules](#2-modules)
3. [What is checked](#3-what-is-checked)
4. [What is proved](#4-what-is-proved)
5. [What the code does not do](#5-what-the-code-does-not-do)
6. [What is not modelled, and the plan](#6-what-is-not-modelled-and-the-plan)

## 1. The system

| Part | State it keeps | Operations | Talks to |
|---|---|---|---|
| Task scheduler (`simorisc`) | tasks with a state and a saved image, `cpu.runnable`, `current_task`, `blocked_on`, waiters, timer and trap flags | TaskCreate, TaskResume, TaskSuspend, TaskYield, TaskExit, TaskKill, TaskWait, ReceiveQueuePoll, WaitAnyQueue, timer trap and ERET, the wake-up scan of `System.run` | object table (task descriptors, queues) |
| Object table (`simorisc`) | descriptors with generations, `free_indices`, deferred frees, receive queues, handlers, inbox, mappings | ObjAlloc, ObjFree, ObjFreeDeferred, ObjDerive, ReceiveQueueAttach/Poll, InstallHandler, SEND, handler dispatch, MapObject/Unmap, reset | everything that holds a reference |
| Remote operations (`simorisc`) | pending responses by transaction id, remote waiters | remote load/store, ObjFetchBytes/ObjStoreBytes, remote TaskWait/Query/Kill | crossbar, other processors, devices |
| Crossbar (`tools/sim/oriscbar`) | connections by processor number, input and output buffers, write interest | accept, handshake, route, flush, close | all processes, over sockets |
| Directory (`tools/devices/oriscdir`) | a tree of directories, leaves and mounts; subscriptions; deferred mounts; pending requests | register, unregister, mount, walk, list, subscribe | every program that looks up a service |
| Host files (`tools/devices/hostfsd`) | sessions, open files, pending requests | subscribe, open, opendir, close, read, write, mkdir, unlink | programs, the host's file system |
| Link boot (`tools/devices/linkbootd`, `examples/linkboot`) | loaders and their state, spawn queue, chunks | spawn request, announce, acknowledge, serve chunk | loaders on other processors, shells |
| Supervisor (`ouroboros/supervisor.c`) | its task table (libc), names and terminals of tasks, a round-robin counter | spawn, relay, cull, list, shutdown | directory, peer supervisors, hostfsd, shells |
| Terminal (`tools/devices/oriscterm`) | drawing, keyboard and pointer subscribers, focus | console, grid, vector, keyboard, pointer services | programs |
| Launcher (`tools/oriscrun`) | child processes | start, wait, tear down | all processes |
| Window manager (`ouroboros/oriscwm.c`) | windows and their surfaces, stack, focus, subscribers, drags, menu | new, bind, destroy, subscribe, raise, move, menu, scan for exited owners | programs, supervisor, display |
| Shell, programs, libc | sequential programs over the services above | | |
| Assembler, linker, compiler, fonts | none between runs | | |

Everything is a message or a scheduler step. A processor executes one task at a time; tasks meet
only through primitives, receive queues and preemption. Between processes there are packets over
the crossbar: a SEND is not acknowledged, a remote operation is a request and a response matched by
a 16-bit transaction id. References (`make_ref`: generation, home, index, capabilities) are copied
freely and outlive the object, the processor's reset and the connection they came over. Device
daemons are single-threaded event loops that often need a second message (fetching a path from the
caller's memory) before they can act, so requests of several clients interleave at that point.

What is hard, per part (`PROJECT.json` lists every hazard with its line):

* scheduler: five places move a task between states and lists; wake-up and delivery are two steps;
  preemption interrupts any of them; a waiter may have changed state since it registered;
* object table: slots are reused under a wrapping generation; a queue, a deferred free, a mapping
  and a parked poller remember only the slot index;
* crossbar: batches of events some of which close connections of others, partial reads and writes
  under back-pressure, clients that restart under the same number;
* remote operations: a response that arrives after the requester was reset, a kill of the task
  that is executing, a wait whose home disappears;
* the services: state read before an asynchronous fetch and used after it, requests that time out
  or are repeated, replies and notifications that cross.

Correctness, per part: the scheduler loses no task and no wake-up, runs no dead task and returns
from waits exactly when it should; the object table gives an object's authority and messages to
nobody else, and never hands out a slot twice; the crossbar delivers in order, once and whole, or
not at all when an end is gone; a remote operation completes with the answer to its own request; the
directory answers from one consistent tree and tells subscribers of every change; an open file
belongs to one session and is closed with it; every spawn is answered once and a loader never mixes
two images; a spawned task is owned by one supervisor and dies with its terminal; the window manager keeps its
records of a window in agreement, gives every program its own window and its own input, and always comes back to its queues.

## 2. Modules

| Module | What it is |
|---|---|
| `TaskSched` | the task scheduler of one processor |
| `ObjectTable` | the object table of one processor |
| `Switch` | what the crossbar promises its clients |
| `Crossbar` | the crossbar process and the sockets around it, shown to implement `Switch` |
| `RemoteCall` | what an operation on another processor's object or task promises its caller |
| `RemoteOps` | the remote operations of several processors, one to a process, shown to implement `RemoteCall` |
| `Supervisor` | the supervisors of all processors and their clients: spawn, relay, reaping, the end of a session |
| `LinkBoot` | the link-boot server, its pool of loaders and their clients |
| `WindowManager` | the window manager of a terminal, the programs that open windows, and the user |
| `Namespace` | what the directory service promises |
| `Directory` | the directory server and its clients, shown to implement `Namespace` |
| `HostOs` | the host's open, read, write, mkdir, unlink and listdir, as hostfsd uses them (external) |
| `HostFiles` | what the host file service promises a program |
| `HostFs` | hostfsd and the programs that use it, shown to implement `HostFiles` |
| `TaskSchedProofs`, `ObjectTableProofs`, `CrossbarProofs`, `RemoteOpsProofs`, `SupervisorProofs`, `LinkBootProofs`, `WindowManagerProofs`, `HostFsProofs` | the theorems of each |
| `MC...` | instances for TLC |

`Supervisor`, `Directory` and `HostFs` send their messages over what `Switch` promises: between two processes, in
order and once. `Supervisor` uses of the scheduler that a task that is waited for is collected once, and of the
object table that a freed descriptor does not answer.

Operators named `...Zero`, `...Stale`, `FlushOnce` and so on, marked *Mutant*, are plausible bugs: each
property of a passing run is violated when the definition after it is replaced by one of them. They are
part of no specification.

### TaskSched

One iteration of `System.run` over one processor is two steps: `Wake` (`_wake_blocked_tasks`) in
phase "wake", then one action in phase "cpu": a blocked processor unblocks, expires, switches away or
idles (`Unblock`, `Expire`, `SwitchAway`, `IdleTick`); otherwise it executes an instruction, one of the
primitives, or the timer trap. Messages arrive (`Deliver`) and wall-clock deadlines pass (`Deadline`)
in phase "wake". `state` is `Task.state` ("NONE" without an entry in `cpu.tasks`), `runnable`,
`current` and `cpuBlocked` are the fields of `CPU`, `saved` is `Task.blocked_on`, `waiters` is
`Task.waiters`. `redo` and `pending` are history: tasks saved on their own TaskSuspend call, and
the target of a TaskWait in progress.

A queue is a count of messages; exit codes are left out. The order in which several woken tasks enter
the run queue is that of a dictionary and is left open (`Orders`).

Two constants say what programs do. `LoneSuspend`: whether a program suspends itself while nothing else is
runnable. `DisturbWaiters`: whether a task parked in TaskWait is suspended or resumed by others; the
libraries never do (task_resume is called only on freshly created tasks, `tools/cc/lib/orx.c:815`,
`ouroboros/supervisor.c:1649`, and nothing calls TaskSuspend). The passing runs have both FALSE; the
theorems that need this say so.

The EBUSY refusal of TaskWait (`simorisc:3393-3400`) is not in the model: its test counts the caller,
which has just been set BLOCKED, so the branch is never reached and a task that waits alone parks.

### ObjectTable

`slots` is `cpu.descriptors` without its null entry, `free` is `free_indices`, `deferred` is
`deferred_frees`, `inbox` the messages for objects without a receive queue. `refs` is every reference
ever handed out: a program may keep one forever, and a message may arrive through any of them.
Two history values tell apart the objects that have lived in a slot: `uses`, how often the slot has been
freed, and `boot`, how often the processor was reset; no guard of the model reads them save those that
state an assumption (`Condemned`) or a property. `socket` chooses the crossbar: in one process the SEND
instruction checks the reference just before it is delivered; over a socket only the receiver could.

`FreeAgain` says whether a program frees an object whose deferred free is pending. The
libraries do not: each manifest entry gets one ObjFreeDeferred (`freedef_o1` in `tools/cc/lib/orx.c`,
`list_free_reply` in `ouroboros/supervisor.c`).

InstallHandler succeeds or fails with the mapping of the handler's code, which is an open choice.
A reset starts a new table whose generations begin at 1; references from before it that survive elsewhere
may then pass the check for a new object. The properties therefore speak of references of the current boot
(`Recent`): the code has no defence against the others and no document promises one.

### Crossbar

The event loop is split where clients can act in between: `Select` takes a batch, `HandleWritable` and
`HandleReadable` serve its entries in any order (the writable part of a connection first, as in
`Crossbar.run`), and `RoutePacket` forwards one packet at a time. `conn[c]` is "none", "pending",
"open" or "dead"; `table` is `Crossbar.connections`. `CloseConnection` of a dead connection stops the loop
(`running`): `selector.unregister` of a closed socket raises ValueError, which `close_connection` does not catch.

Streams are sequences of *halves*: a packet is a head and a tail, so that a kernel buffer of `Room` items can
split it. A greeting and its reply are one item. After a lost tail the next length field is garbage; the
crossbar is then taken to wait (`PacketReady`). `Data` is a stream without the greeting or reply it may begin with;
packets are numbered by one counter, `sent`, so that no two are alike.

`Waiting` are the clients whose `send_packet` waits for room, as the devices' does. The others are processors,
whose `sendall` on a non-blocking socket drops what does not fit. `Foreign` clients may greet wrongly; no
program of the repository does.

`Switch` is the promise: per pair of clients, packets arrive in order, at most once, whole, and are lost only
with an end that left. The refinement maps a client's submitted packets to the complete packets in
`buf \o up \o rest` and its queue to those in `inbuf \o down \o outbuf`. A client that leaves may lose what it
had submitted but the crossbar had not read: when a write to it fails first, its connection is closed unread.

### RemoteOps

Each processor is a process of its own (`oriscrun` starts them so) with a loop of its own. An iteration is split as the code
splits it: packets that have arrived are taken first, each in a step (`Arrive` files an answer, `Serve` runs one of the five
`_handle_*_req`); then `Wake`; then one action with `Turn` in its guard, which is an unblock, a switch away from a waiting task, an
instruction or primitive, the end of the process, or its reset. Requests are served whatever the tasks do, so an answer, a kill
or a wait meets the home in any state, inactive and draining included.

`net` is a *set* of packets: the crossbar's order between two processors (`Switch`) is not used. `responses`, `blocked`, `saved` and
`remoteWaiters` are the fields of that name of `CPU` and `Task`. `log` and the `op` field of packets and waits are history: they number
the operations, and no guard reads them except through the bound. An object holds the number of the operation
that wrote it, so two writes never look alike. A freed object holds `Gone`, which is also the answer ERR_ESTALE; the other
faults (capability, bounds) do not depend on the state and are left out.

The current task's own wait is `blocked[c]`; that of a parked task is `saved[t]`. A load or store returns its fault as a trap at the same
instruction: with a handler (`TrapHandled`) the operation is over, without one the process ends. `Resettable` and `Serving` are the flags
`--reset-on-exit` and `--serve`. A reset gives new objects and tasks the identities of the old ones, as the code does (indices
and generations begin again), so a request from before it may meet the new incarnation.

`Reuse` says whether a transaction id may come round (after 65,536 requests, or after a reset) while the operation
it named is open or its answer lies unclaimed. **Nothing in the code prevents this**, and there is no document that promises more; the
runs and theorems about answers assume it does not happen, and say so. With `Reuse` TRUE an answer may reach a later
operation; a load does not even compare the type.

`RemoteCall` is the promise: an operation is called, takes effect once in a single step with the result it will return, and returns; it is lost
only when the caller's or the home's processor ended or was reset. Waits take effect only when their target has exited.

Left out here because `TaskSched` or `ObjectTable` has it: receives, handlers, local waits, suspension. SEND advances the same transaction
ids and gets no answer. The re-check of the destination that ObjFetchBytes makes when its answer comes is about the caller's own table.

### Supervisor

Every processor has one supervisor; `at[c]` is where its program stands, and between two values it waits for an answer
(of the directory, of the file server, of the loader of `orx_spawn`) while everything else goes on. `TakeSpawn`, `TakeCull`
and `TakeEnd` are the branches of the main loop on the head of the mailbox, each after `Reap` (`reap_exited_tasks` runs at the top
of every iteration). `PickWalk`, `PickTerminal` and `PickSelf` are the steps of `pick_next_cpu`, one directory lookup each, so that the
directory may change between them; `RelayWalk`/`RelaySend` pass a request on; `Load`, `LoadFails`, `Create` and `CreateFails` are
`handle_spawn_request` on this processor. `Broadcast`, `Unregister`, `KillAll` are the end of a session.
Clients (`Ask`, `Receive`, `Wait`, `Release`, `Exit`, `ReadArgs`, `EndSession`) are `sup_spawn_at`, `task_wait` and `orx_unload` of libc and the window
manager's End Session.

A request is also the name of the task made for it. A send to a full mailbox is dropped by the receiving processor (`Arrives`, `lost`), as
`receive_packet` does; a supervisor that has halted drops everything. `lost`, `made`, `hops`, `reply` and `seen` are history. The two queries (the
mailbox of the directory, the list of tasks) change nothing and are left out. Names, paths and exit codes are data.

### LinkBoot

`state`, `job`, `position`, `requester` are the fields of `LoaderInfo`, `pending` is `pending_spawns`, `reads` the requests whose
path is being fetched. `Dispatch` (`_dispatch_pending`) gives the head of the queue to an idle loader; `Announced` and `Acknowledged` are the two
halves of `_handle_ack`. On the other side `Announce`, `TakeChunk`, `LoaderFails` and `GuestExits` are chunkboot.s with the reset that follows it (`--reset-on-exit`
leaves the exit code in r27, which the next announcement carries). An image is a set of words that know which image they come from and where they
belong, so a word in the wrong place or of the wrong image shows. Sticky images (`Preloads`) return to the queue when they are served.

### WindowManager

The manager is one loop: `wm_block_until_ready`, then a pass over its queues. `pc` says which poll comes next, and each of `PollOneRequest`,
`ScanOwnerExits`, `PollPointerSubscribes`, `PollOnePointerEvent` (all that are there), `PollKeyboardSubscribes` and `PollKeyboardEvents` is one of them. Between two polls programs and the
user go on: a request, a subscription and a click that were made in one order may be taken in another, which is where this program is hard. While
a program is started from the menu (`spawning`) the manager takes nothing until the supervisor has answered.

`window_type`, `window_z`, `focused_wid`, `window_pos`, `kbd_sub`, `ptr_sub` are the variables of that name; `objects` is what the five `alloc_window_*` have
allocated for a window, so that a failure half way shows; `drag`, `sb`, `menu` are the three groups of drag state. `LeftPress`, `LeftRelease`, `MotionTo`, `DragMenu`, `PointAtMenu` and
`RightPress` are the parts of `wm_handle_pointer` in its order of tests, and `FlushMotion` is the coalesced motion of `poll_pointer_events`. A program opens a session, subscribes, unsubscribes and closes as
`wm_open_session`, `term_init`, `pointer_subscribe`, `term_shutdown` and `wm_destroy_window` do.

The screen has one dimension, and what a window or the menu has at a point is part of the point, so that every hit test can have every result. `owner` is history but for `Owners`: libc sends a null owner, and
the scan can ask only for owners that are tasks. `user_closed` is history. Left out is what changes only pixels: the surface queues, compositing, titles, fonts, the elevator's place. "bind" stands for all requests
that look a window up and leave the table alone.

### Namespace and Directory

`tree` is a function from the paths that exist to nodes; a path is a sequence of names. A call is `sent`, then `fetching` (the server reads the path from
the caller's memory), then carried out in one step, then `writing` if there is text to return, then `replied`. `Mutated` is everything that follows a change:
the notification of the subscribers above it and the retry of the mounts that wait (`_resolve_pending_mounts`), repeated while it changes something,
all in the action that made the change, as in the code. Devices register with a packet that carries the path in line and get no answer.

`Namespace` knows no directories and no phases: it is a set of bound paths, none above another, and each call takes effect in one step. `Directory` implements it
with `answer` settled in the step that carries the call out, also for a walk through a mount, whose reply is sent two packets later.

A client that dies while its memory is read or written is left out: its transaction would stay pending for good.

### HostOs, HostFiles and HostFs

`HostOs` is the host: names, files, blocks. `HostFs` is `HostFSD` and `host_io.c`: `hf_init` subscribes a reply mailbox, `HfCall` sends a request, `HfWait` takes its
answer; `HandlePacket` is one packet of the service, `Dispatch` its table of operations. A request that needs the caller's memory is put aside under a transaction id
(`pending`) and finished by `HandleReadResp` or `HandleWriteResp`; in between anything may happen, and the session it belongs to may be unsubscribed. `SessionsFor` is
`_session_for_sender` with both its ways: by the home and index of the mailbox, and by processor alone where that finds nothing.

Four constants say what the environment does: `Reuse` (a transaction id comes round while a packet still carries it; 16 bits, never checked), `EarlyReset` (a processor starts afresh while
packets of its former programs are on their way), `Leavers` (programs that unsubscribe; those written against libc never do) and `LeaveShared` (they do so while
others of their processor have sessions). The passing run has `Reuse`, `EarlyReset` and `LeaveShared` FALSE; see 5 for what happens otherwise.

`HostFiles` gives each program a table of open files of its own. A call takes effect at one moment and may fail only for a reason that holds then. A read is two moments, because the code moves
the offset before it delivers the bytes. A killed program may still have its last call served; a descriptor it left behind is nobody's.

## 3. What is checked

| Run | Instance | Shows |
|---|---|---|
| `sched` | 3 tasks, one queue of depth 1, two SENDs, fair | `Scheduled`: run queue, states and current task agree; `WaitsSound`: TaskWait returns after the exit and no waiter is lost; EXITED is final; yielding is round robin; `NoneStarves`: every runnable task runs and a polled message is taken |
| `objects` | 3 objects, generations 1 and 2, one deferred free, one reset, queues and inbox of one, both crossbars | `SlotsSound`: the free list is exact and references name their own object with no more than its capabilities; queues, handlers and deferred frees reach their own object |
| `crossbar` | 3 devices, two of them asking for one number, one of them greeting wrongly or not, kernel buffers that split every packet, two packets, fair | `Connected`: numbers are exclusive, no double close; streams framed; refinement of `Switch`; nothing gets stuck |
| `crossbar_cpu` | violation, processors instead of devices | a stream is misframed |
| `remote` | two processors, three tasks, one object, two operations, ids of one bit, one reset, fair | `OneAnswer`: answers reach their own operation, nothing is served twice or left over; refinement of `RemoteCall`, operations return |
| `remote_store` | violation, one caller in ObjStoreBytes beside a task that runs | the caller never wakes |
| `supervisor` | a terminal and a compute processor that comes up later, a root client on each, one slot, mailboxes of one, two requests, one end of session, fair | `OneOfEach`: one task, one truthful reply, where it was asked for, and every running task is in one slot of its supervisor, with tag and memory; a cull ends exactly its terminal's tasks; every client is answered |
| `linkboot` | two loaders, one short of memory, two requests and a sticky image, of one to four words in chunks of two, fair | `TransferExact`: the program that starts is one whole image and at most one message is under way; exits are reported to their own requester; every request is answered |
| `directory` | two symmetric programs of two calls each out of thirteen, one device, three configured mounts of which one is below and one beyond another | the tree stays well formed; subscribers are told of every change and of nothing else; refinement of `Namespace` |
| `hostfs` | two programs of one processor, one that unsubscribes, dies and starts again; one file, its directory, one open file each, three host descriptors, two transaction ids, three calls, fair | open files never share or lose a host descriptor; answers find their own request; refinement of `HostFiles`; every call is answered |
| `wm` | two programs (one with an owner the scan can ask for, one that subscribes to the pointer), two windows, a screen two windows wide, sinks of one event, fair | `WindowTable`: stack, focus and objects agree with the live windows; `OwnWindow`: nobody but the user takes a program's window; `Attended`: every request, key and subscription is taken |
| `wm_keys` | violation, the same | a program that ends replaces another one's keyboard subscription |

Beside these, configurations that end in a counterexample and show what an assumption keeps out (5):
`TaskSchedSuspend.cfg` (SuspendReturns), `TaskSchedLone.cfg` (ExitedIsFinal with `LoneSuspend`), `ObjectTableFreeAgain.cfg` (SweepFreesItsOwn with `FreeAgain`),
`ObjectTableSocket.cfg` (SocketQueueHoldsOwn), `RemoteKill.cfg` (RunningIsStepped), `SupervisorArgs.cfg` (ArgsAreOwn), `SupervisorTerminal.cfg` (TerminalForItsOwn), `SupervisorSlots.cfg`
(NoDeadSlot), `SupervisorOrphan.cfg` (NoOrphan), `LinkBootForgotten.cfg` (EveryExitNotified), `HostFsShared.cfg` (OwnDescriptor with `LeaveShared`), `HostFsEarly.cfg` (OnePlace with `EarlyReset`),
`WindowManagerRace.cfg` (SubscriberOwn), `WindowManagerStale.cfg` (ClosesOwn), `WindowManagerDrag.cfg` (DraggedLive; with DraggedMenuShown in its place, the dragged menu). Each
runs as `tlc -config X.cfg MC<component>.tla`.

**Why these bounds.** Three tasks are a waiter, its target and a third that interferes; a second queue adds no new
order of wake-ups because WaitAnyQueue already waits for sets. Two generations (`GenMod = 3`) make the counter wrap
after two frees of one slot, so three objects in one slot reach both the wrap and the window before it; a third object can
also sit in a second slot. With `Room = 1` every packet is split in both directions and every write is partial; two
packets are enough for one to wait behind another, and the third client is the rival for a number or the destination
that leaves. In `remote` processor A has two
tasks, so that one is parked while the other calls; B holds the object, queries and kills tasks of A, and may be reset or end; A serves on and
ends its process only through a fault. Two operations are enough for any two to cross, to wait for each other's effect, or to meet a reset; two
ids (`TransMod = 2`) are reused as soon as they are free. A uses neither loads nor TaskQuery there: the trapping path of a load is that of
the store and its reading path that of ObjFetchBytes, and B's queries take the path A's would. In `supervisor` two requests
compete for one slot and one place in a mailbox, so that full tables, full mailboxes, relays that meet a cull and peers that come or go while they are looked
up all occur; a task started by the first request may make the second. In `linkboot` one image needs two chunks of text and data and one ends in a short chunk;
two loaders and three images make a queue and a choice. In `directory` two programs of two calls give every pair of operations in flight, on paths of three names
that can be obstacles or prefixes of each other; the mounts are a chain, so that one retry enables or blocks the next. In `hostfs` one open file per program makes the
limit real with two opens under way, three descriptors make the host run out, and the death and restart of one program happen at every point of the other's calls; a second processor would be
independent of the first, since every queue and session is looked up by processor. In `wm` two programs are one that acts and one whose window it could disturb; two windows make a stack, on a screen
on which they can overlap or lie side by side; the user may do most before a window is open (`MaxInputs` = 5: what it takes to show, pin, drag and leave the menu) and less the more programs there are, and a sink of one event
is often full. `MAX_WINDOWS` is not exceeded: E_NOSPC changes nothing. Each run's counters (`MaxSends`, `MaxObjects`, `MaxDeferred`, `MaxInbox`, `MaxBoots`, `MaxPackets`,
`MaxOps`, `MaxResets`, `MaxCalls`, `MaxInits`, `MaxInputs`, and the sets `Requests` of `Supervisor` and `LinkBoot`) only bound the number of inputs.

**Fairness.** `System.run` is one loop, so `Wake` and `CpuStep` are weakly fair. The timer compares a cycle count that every
executed instruction increases, so with tasks executing it fires again and again: `TimerTrap` is strongly fair (it is
disabled in between, inside its own handler). Without it a looping task would keep the processor, in the code as in the model.
The crossbar's loop is weakly fair, and so is each client's reading of its socket; sending, leaving and connecting are not.
No fairness is assumed for a client that is gone.
In `RemoteOps` the packets of each operation are weakly fairly taken (an iteration takes all that arrived, and the crossbar delivers: `AllArrive`), each loop is weakly
fair, and so is each processor's TaskYield: a task that runs while others are runnable yields or is preempted. No program has to issue, exit or free
anything, and no reset has to happen.

In `Supervisor` each supervisor is weakly fair in taking its next step, deliveries to each processor are, and so is a client in taking a reply that has arrived; nobody has to ask,
exit or end. In `LinkBoot` all packets reach the server on one socket in one order: a packet at the head of its loader's stream is taken though the server is dispatching now and then, hence strong fairness
for `Announced`, `Acknowledged` and the packets of a request; the loaders run and their programs end (a program that does not end is not expected to be reported). In `HostFs` the service's loop, each processor's answering and each waiting program are weakly fair. In
`WindowManager` the manager with its supervisor is weakly fair, and so is a program in taking an answer; nobody has to ask, close, type or click.
`Directory` states no liveness: its steps are those of `Namespace`, and its one pending hazard of that kind (a client that dies) is left out.

**Deadlock checking is off** in all runs but `linkboot` (whose loaders are reset and start over): a processor stops for good when its last task exits, clients send finitely
many packets and may all leave, processes end, and the bounded inputs run out. Unwanted stops are what `NoneStarves`,
`AllArrive`, `Attended`, `OperationReturns`, `SpawnAnswered` and `Answered` exclude. `OperationReturns` excuses a caller that was killed, a caller's processor that is inactive, ended or was reset, a
home that ended or was reset, and ObjStoreBytes (see 5). The `SpawnAnswered` of `Supervisor` excuses requests dropped by a full or abandoned mailbox, for which the code has no
timeout, that of `LinkBoot` requests given up with a loader that restarted.

## 4. What is proved

TLAPS checks the theorems below for every value of the constants that the named ASSUMEs allow, so for any number of
tasks, slots, messages and resets, any generation width and any queue depth.

`TaskSchedProofs`

| Theorem | Under | States |
|---|---|---|
| `TypeCorrect` | | `TypeOK` |
| `ScheduleCorrect`, `ExitedForGood`, `RoundRobin` | `~LoneSuspend` | `Scheduled`, `ExitedIsFinal`, `NoOvertaking` |
| `WaitsCorrect` | `~LoneSuspend`, `~DisturbWaiters` | `WaitsSound` |

The inductive invariant has three layers. `WellTyped` adds to the types the shape of blocking records. `SchedInv` says
that the run queue *lists* the RUNNABLE tasks (`Lists`: each exactly once), that the current task is RUNNING or has exited, and that no
parked task saved the exit sentinel: without the last part a wake-up could load a task that can never unblock.
`WaitInv` relates `pending`, `waiters` and the kinds of the saved records: only BLOCKED tasks have a pending target, each is among
that target's waiters, and the target is alive. It is proved after, and uses, `SchedInv`.

`RoundRobin` says of every list operation (`pop(0)`, `append`, `+`, `remove`) that it puts nothing ahead of what was listed (`KeepsOrder`),
given that what is added was not in the list. The second half is `SchedInv`: a caller that yields is RUNNING and a released waiter BLOCKED, so neither is queued already.

`ObjectTableProofs`

| Theorem | Under | States |
|---|---|---|
| `TableTypes` | | `TypeOK` |
| `SlotsCorrect` (`FreeListCorrect`, `RefsCorrect`) | | `SlotsSound`, that is `FreeListExact` and `RefsSound` |
| `LocalQueueCorrect`, `HandlerCorrect` | | `LocalQueueHoldsOwn`, `HandlerForItsObject` |
| `SweepCorrect` | `~FreeAgain` | `SweepFreesItsOwn` |

`SafeInv` is `TypeOK`, `FreeInv` (the free list lists the dead slots) and `RefInv`. `RefInv` is the reason why generations work: for
every reference of this boot the slot has been freed at least as often as when the reference was made, and strictly more
often once it is dead, and its generation has advanced by exactly that number *modulo* `GenMod - 1`. Two equal generations are
therefore a multiple of `GenMod - 1` frees apart, and `NamesItsObject` follows inside the window. `QueueInv`, `InboxInv` and
`DeferredInv` carry the same facts to references that sit in queues, in the inbox and in the list of deferred frees. To keep the case
split small every action is first classified (`StepKinds`) as one that allocates, frees, keeps or restarts the slots.

`CrossbarProofs`

| Theorem | Under | States |
|---|---|---|
| `TypeCorrect` | | `TypeOK` |
| `ConnectionsCorrect` | | `Connected`, that is `TableExact` and `NeverDies` |
| `FramedCorrect` | `Waiting = Clients` | `Framed` |
| `SwitchCorrect` | `Waiting = Clients` | `ImplementsSwitch` |

`LoopInv` states the agreement of the table with the connections from both sides: an open connection is the entry of its
own number (`TableExact`), and every entry is an open connection that asked for that number (`Holders`). The second part is
what makes closing one connection leave the others' entries alone. Nothing is needed about the streams; the connection being
routed may already be closed, and then `HandleReadable` and `RoutePacket` do not close it again, which is `NeverDies`.

`Waiting = Clients` says that every client's `send_packet` waits for room, as that of every device does; the processors' does not, and
the counterexample of `crossbar_cpu` to `Framed` shows that nothing weaker will do. `FrameInv` says of the stream of each connection, in
each direction and with all its buffers put end to end, that heads and tails of the same packets alternate in it; that what comes in ends with a tail; and that what
goes out does so too as long as the client is there to write the rest. `SwitchCorrect` maps each action to the step of `Switch` it is (a lemma `...Refines` for each) or to none (the lemmas `...Moves`, which move
halves between buffers and leave the concatenation alone). The counting of whole packets in a stream is a definition by `SelectSeq`; what the proof uses of it is
derived from an equivalent description of the stream, not by induction.

`RemoteOpsProofs`

| Theorem | Under | States |
|---|---|---|
| `TypeCorrect` | | `TypeOK` |
| `AnswersReturn` (`AnswersMatch`, `ServedOnce`) | `~Reuse` | `OneAnswer`, that is `OwnAnswer` and `InOnePlace` |
| `CallsCorrect` | `~Reuse` | `ImplementsCall` |

The types are strengthened by `WellTyped`: run queues hold tasks of their own processor only, packets say where they come from and go, and
a parked request is parked with the task it names. `OpsInv` adds `Exclusive`, that an operation is in one place at a time and in none once it
returned, and `OneName`, that anything on record for a processor under an id (a wait, a request, an answer) belongs to one operation. Neither
property is inductive by itself: that a wait takes its own answer rests on `OneName`, and `OneName` is kept by a new request only because its id is unused
by *everything* on record, the requests parked with tasks of other processors among it. Kills and resets only take
things away, and each of the steps that move an operation on moves one packet (`Carried`) or one wait (`WaitsMove`).

`CallsCorrect` is the refinement of `RemoteCall`. Its invariant `RefInv` adds three parts. `Matched`: a packet names the kind, the caller and the target of its operation, so that what the
home does for it is what was called. `ParkedWaits`: only waits are parked, so an exit decides waits and nothing else. `SchedInv`: what is
queued is RUNNABLE and what executes is RUNNING, without which loading a task could bring an exited one back and a decided wait would have been wrong. What a state shows of the calls is read
off its packets (`ShownOps`: a request is a call, an answer a decision, neither a loss or a return). Every step is first classified by what it does to the packets (`Forgot`, `Answered`, `Returned`, `Issued`),
then by what it does to objects and tasks (`Kept`), and the two together are one step of `RemoteCall` or none.

`SupervisorProofs`

| Theorem | States |
|---|---|
| `TypeCorrect` | `TypeOK` |
| `SpawnsCorrect` (`SpawnsOnce`, `TasksAccounted`) | `OneOfEach`, that is `SpawnedOnce` and `Accounted` |
| `CullIsExact` | `CullExact` |

For any number of processors, terminals, slots, places in a mailbox and requests. `SupInv` is `TypeOK`, `Messages` (what a message on its way may say) and, for each request, `OneRequest`: `Placing`, that a
request is in one place, once: a mailbox, the wire, or the hands of one supervisor, and says there what its client asked; `Settled`, that where it still is
somewhere nothing has been done for it, and where it is nowhere it is answered or lost; and `InTable`, that a live or exited task is in exactly one slot, of the supervisor
that made it, with its tag and its memory. None of the properties is inductive without the first: that a request makes one task is because taking it removes the only copy.
Most actions leave most requests alone; the frame lemma `Unaffected` says so once, `ReapKeeps` and `EndsKeeps` treat the two operations that touch many at a time.

`LinkBootProofs`

| Theorem | States |
|---|---|
| `TypeCorrect` | `TypeOK` |
| `TransferCorrect` | `TransferExact` |
| `ExitsReported` | `ExitReported` |

For any pool, any sizes of text and data, any chunk length. The invariant says of each loader in which of six situations it and the server are together; in the one where a chunk is
under way, exactly the words below its offset have been copied. `ImageExact` and `OneMessage` conclude the two halves of `TransferExact`. That at most one message is under way also shows that
the server's test for an unexpected offset never succeeds: what it would do then (ignore the acknowledgement, and so never send to that loader again) cannot happen.

`WindowManagerProofs`

| Theorem | States |
|---|---|
| `TypeCorrect` | `TypeOK` |
| `WindowTableCorrect` | `WindowTable` |
| `OwnWindowCorrect` | `OwnWindow` |

For any number of programs, windows, gestures and keys. `IInv` is `TypeOK`, `Calls` (where a program stands, what the manager owes it, and which requests can be in
the queue at all), `TableInv` (the stack *lists* the live windows, which with the objects, subscribers and focus is `WindowTable`) and `OwnInv`: until the user closes a window, whoever holds a window or is about to be told of one
(`Claims`) is its owner. `OwnWindow` alone is not inductive: a number in an answer that is still in a mailbox becomes a window of its program only later, and until then only `OwnInv`
says whose it is; and that a destroy request takes the window of its sender and of nobody else needs `Calls`.

`HostFsProofs`

| Theorem | Under | States |
|---|---|---|
| `TypeCorrect` | `~Reuse`, `~EarlyReset`, `~LeaveShared` | `TypeOK` |
| `DescriptorsOwned` | the same | `OwnDescriptor` |
| `AnswersCorrect` | the same | `AnswersFindRequest` |
| `FilesCorrect` | the same | `ImplementsFiles` |

For any number of programs on any processors, any tree of files with any blocks, any requests, any limit of open files and any bound on deaths and
restarts. The conditions are those of the run, and each is needed: ids come round after 65,536 requests (`Reuse`, as in `RemoteOps`), and `HostFsEarly` and `HostFsShared`
violate the properties when a processor starts afresh too early or a program unsubscribes for others.

`Inv` is `TypeInv`, `SessInv`, `DescInv` and `CallInv`. `TypeInv` strengthens the types by what each queue may carry and by what each kind of request put aside knows. `SessInv`: a session
belongs to the program whose mailbox it names, and its files are few enough. `DescInv`: an open file of a session that is in use holds a descriptor that is open, and no other open file holds it.
`CallInv` says where the one call of each program is: the program is `Idle` (nothing of its own is anywhere), `Asked` (one packet on the wire to the host),
`Served` (one packet on the way back, an answer or a question of the server), or `Told` (the answer lies in its mailbox). While that packet is a question of the server or the answer to one,
the server has put aside exactly this call, for the session that the program has (`PutAside`); and no subscription or end of one that is still on the wire will change that session before the call is handled (`Settled`). The
properties are not inductive without `CallInv`: that an open neither passes the limit looked at before its path was fetched nor finds its session gone is because the same program can have no
second call under way, which is a fact about the wire and not about the server. A program that was killed may leave a packet behind; its processor starts afresh only when both its queues are empty, which is
what `~EarlyReset` says.

`FilesCorrect` is the refinement of `HostFiles`. What a state shows of a program (`View`) is read off its sessions' files and off its one packet: a request, or a question about it, is a
call; an answer is a result; a dead program has neither. A step changes what it shows of at most one program (`Unseen` for the others, since all that is not its own
packet or session is kept), and for that one it is a call, an action on the files, a failure, a landing, a return or nothing; there is one lemma `...View` for each step of the server and of the program. A
read is the step where two things happen: its offset moves when the bytes are sent, and the call returns or fails when they have landed. `SamePromise` says that this view is the
mapping of `ImplementsFiles`.

The four modules that speak of sequences which *list* a set (`TaskSchedProofs`, `ObjectTableProofs`, `RemoteOpsProofs`, `WindowManagerProofs`) begin with the
lemmas they need on `Lists` under Append, Tail, concatenation, SubSeq and removal.

Only model-checked: the liveness properties (`NoneStarves`, `AllArrive`, `Attended`, `OperationReturns`, both `SpawnAnswered`, `Answered`: the prover has no
rules for fairness and ENABLED); and `Directory` (`TypeOK`, `ChangeNotified`, `Atomic`) with its refinement of `Namespace`. Every registration and removal in the directory ends by settling the pending mounts, a recursive function over
their list, so what any of its steps does to the tree is an induction over data. No theorem is about a recursive definition.

## 5. What the code does not do

Three runs end in a counterexample to a statement of the repository, quoted under `findings`.

1. `crossbar_cpu`: a processor whose socket is full drops the rest of the packet it is sending and loses framing.
2. `remote_store`: the scan that wakes parked tasks has no case for ObjStoreBytes, so a task parked in it never wakes, although its
   docstring says that a matching response promotes.
3. `wm_keys`: a program that ends sends the keyboard service a message that should remove its own subscription (`term.c:222-225`). The window manager does not look at R4: it stores the reference in it for the
   window that is focused when the message is polled, often that of another program, which gets no more keys.

The configurations outside the runs show more of the same kind.

4. `TaskSchedSuspend`: TaskSuspend saves the caller on its CALL (`simorisc:3119`), so a resumed task suspends itself again, although the comment
   beside it says it sees R2 = OK on resume.
5. `TaskSchedLone`: TaskSuspend refuses a lone caller with EBUSY after it has set it SUSPENDED (`simorisc:3109`); resuming itself then queues the running
   task, which is scheduled again after its own exit.
6. `ObjectTableFreeAgain`: a deferred free remembers only the slot (`simorisc:4219`), so a second free lets the deadline tear down the next object.
7. `ObjectTableSocket`: over a socket nobody compares the generation of a SEND for an object with a receive queue (`simorisc:1091`), so the queue's
   next owner gets it, although a comment says the home validates.
8. `RemoteKill`: a remote TaskKill of the current task deactivates the processor and then loads another task (`simorisc:1696`), which nothing steps; the
   comment says it mirrors TaskExit, which stays active.
9. `SupervisorSlots`: a slot whose task's descriptor was freed by the client that waited for it can no longer be told from a running one (`supervisor.c:1094`) and is kept
   for ever, although comments say that reaping leaves a clean table.
10. `SupervisorArgs`: the arguments of all tasks of a supervisor are in one buffer, which the next spawn overwrites before the last task has read it; `orx.c:353-360` says the race does not happen.
11. `SupervisorTerminal`: `pick_next_cpu` asks for the window manager of a processor that has come up but not started it yet, and sends it a program of another terminal, which `supervisor.c:786-788` excludes.
12. `LinkBootForgotten`: a loader that gives up an image announces itself, is reset to idle, and its requester is never answered; linkbootd's docstring says the shell is notified when the guest exits.
13. `HostFsShared`: a null subscription of one program removes the sessions of its whole processor and closes their descriptors, while requests of the others are put aside: what these then
    open or write uses descriptors that are closed or belong to somebody else. Programs written against libc never send one.
14. `SupervisorOrphan`: a spawn that is taken after the cull of its session starts a task that no cull will end, although `supervisor.c:638-639` says that apps do not outlive the terminal.
15. `HostFsEarly`: a program that starts with the mailbox of a predecessor, on a processor that was reset early, takes the predecessor's answer for its own.
16. `WindowManagerRace`: a program's first subscription is stored for the window focused when it is polled; another window opened or clicked meanwhile gets it, though `oriscwm.c:289-293` says that there is no race between concurrent
   `term_init` calls.
17. `WindowManagerStale`: a program does not learn that the user closed its window; when it ends it closes whichever window has that number by then.
18. `WindowManagerDrag`: closing a window does not end a drag of it, and letting the button go moves the window that has its number by then.
19. `WindowManagerDrag` with DraggedMenuShown: Escape takes the menu down in the middle of a drag of it; the manager then takes all pointer events until the button is released.

Smaller disagreements met on the way, without a model of their own: linkbootd calls an image given with `--image` "served once" (58-61) and serves it again and again (636-650), and documents
`exit_code` as always 0; a mount installed by oriscdir keeps the reference its source was first registered with; oriscdir's branch for a leaf that still has children is never reached, and a configured
mount whose target is taken is dropped without a word; no program calls `dir_subscribe`, though a comment says the supervisor does; hostfsd's `MAX_INFLIGHT_PER_CPU` is never used; an unsubscribed
request gets no answer at all from hostfsd (about line 531), where its docs promise an error, so the caller waits for ever; the documented bits of the open flags (1 read, 2 write) are not the code's (0, 1, 2 as in libc);
a block that was read but could not be delivered is skipped by the next read; a second subscription of the same mailbox leaks the descriptors of the first session; and libc neither closes files nor unsubscribes when a
program ends. The window manager never frees the client task slots of the programs it starts (`oriscwm.c:6530`), so it can start sixteen. It
expects windows to have no room to cascade (`oriscwm.c:3487-3491`), which is no longer so on its 1280 pixels; and a transient menu takes the release of a scrollbar arrow that is held.

## 6. What is not modelled, and the plan

Not modelled for good: the assembler, linker and compiler (translations without state), fonts, the arithmetic of instructions and
the framebuffer primitives (sequential and tested by example), the shell and user programs (sequential
clients of the services), the launcher (operating system processes), the terminal's drawing. The compiler is by far the largest part of the repository's C code, and a third-party program;
the simulator and the daemons modelled here are Python scripts without an extension.

Next, in this order:

1. `ObjectTable`: mappings (`MapObject`, `Unmap`, `lookup_va`), which remember a slot index without its generation (`simorisc:1268`).
2. `WindowManager`: the polls of the windows' surfaces and the compositing change pixels only and stay out.
3. The composition of `Supervisor` with `TaskSched` (task_kill and task_wait as the scheduler implements them) instead of with their promise.

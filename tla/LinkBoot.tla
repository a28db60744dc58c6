------------------------------ MODULE LinkBoot ------------------------------
(***************************************************************************)
(* The link-boot service: tools/devices/linkbootd gives programs to a pool *)
(* of spare processors, each of which runs the loader of                   *)
(* examples/linkboot/chunkboot.s until it has a program, runs that in the  *)
(* loader's place, and is reset into the loader when it ends; clients ask  *)
(* for a program with lb_spawn of tools/cc/lib/linkboot.c and wait for its *)
(* exit code.                                                              *)
(*                                                                         *)
(* The server is one loop over the packets that arrive.  An image is       *)
(* served in chunks: the loader asks for the next one by its offset, and   *)
(* offset 0 says that it has (re)started.  A chunk is a descriptor at the  *)
(* server that never changes; the loader reads it word by word, which is   *)
(* one step here.  A word of an image is the job and its offset in the     *)
(* text and data taken together.                                           *)
(***************************************************************************)
EXTENDS Integers, Sequences, FiniteSets

CONSTANTS
  Loaders,    \* the pool, numbered in the order of the server's table
  Requests,   \* bound: the calls of lb_spawn
  Preloads,   \* images given with --image, served again and again
  TextSize, DataSize,  \* of every image, in words
  Chunk,      \* CHUNK_BYTES
  Codes,      \* the exit codes of programs
  MayFail,    \* loaders whose processor may lack the memory for an image
  None

Jobs == Requests \cup Preloads
Failed == 255        \* the code of a spawn that failed
LoaderFailed == 99   \* the exit code of a loader that gives up

ASSUME PoolAssumption ==
  /\ Loaders \subseteq Nat /\ IsFiniteSet(Loaders) /\ MayFail \subseteq Loaders
  /\ Requests \cap Preloads = {} /\ IsFiniteSet(Preloads) /\ None \notin Jobs \cup Nat
ASSUME ImageAssumption ==
  /\ TextSize \in [Jobs -> Nat \ {0}] /\ DataSize \in [Jobs -> Nat]
  /\ Chunk \in Nat \ {0} /\ Codes \subseteq Nat

VARIABLES
  state,     \* LoaderInfo.state
  known,     \* the loaders whose self_ref the server has
  job,       \* LoaderInfo.text, data: the image being served
  position,  \* LoaderInfo.position
  requester, \* LoaderInfo.requester_ref
  pending,   \* pending_spawns
  calls,     \* requests on their way from clients to the server
  reads,     \* pending_reads: requests whose path is being fetched
  toServer,  \* announcements and acknowledgements of each loader
  toLoader,  \* the queue of each loader
  pc,        \* what each spare processor is doing
  code,      \* r27: the exit code the reset left
  sizes,     \* r21, r22 of the first chunk, <<>> before the allocation
  words,     \* the objects the loader copies into
  asked,     \* history: requests sent
  answers,   \* history: the results sent to each client
  ran,       \* history: the exit code of the processor that ran a job
  forgotten  \* history: requests given up with a loader that restarted

vars == <<state, known, job, position, requester, pending, calls, reads, toServer,
          toLoader, pc, code, sizes, words, asked, answers, ran, forgotten>>
serverVars == <<state, known, job, position, requester, pending, reads>>
loaderVars == <<pc, code, sizes, words>>
history == <<asked, answers, ran, forgotten>>

Total(j) == TextSize[j] + DataSize[j]
Places(j) == ({"text"} \X (0 .. (TextSize[j] - 1)))
               \cup ({"data"} \X (0 .. (DataSize[j] - 1)))
Image(j) == [p \in Places(j) |->
               <<j, IF p[1] = "text" THEN p[2] ELSE TextSize[j] + p[2]>>]

Init ==
  /\ state = [l \in Loaders |-> "idle"]
  /\ known = {}
  /\ job = [l \in Loaders |-> None]
  /\ position = [l \in Loaders |-> 0]
  /\ requester = [l \in Loaders |-> None]
  /\ pending \in {q \in [1 .. Cardinality(Preloads) -> Preloads] :
                    \A p \in Preloads : \E i \in DOMAIN q : q[i] = p}
  /\ calls = {} /\ reads = {}
  /\ toServer = [l \in Loaders |-> <<>>]
  /\ toLoader = [l \in Loaders |-> <<>>]
  /\ pc = [l \in Loaders |-> "start"]
  /\ code = [l \in Loaders |-> 0]
  /\ sizes = [l \in Loaders |-> <<>>]
  /\ words = [l \in Loaders |-> <<>>]
  /\ asked = {} /\ forgotten = {}
  /\ answers = [r \in Requests |-> <<>>]
  /\ ran = [j \in Jobs |-> None]

-----------------------------------------------------------------------------
(* Clients, and the requests they send.                                    *)

Ask(r) ==
  /\ r \notin asked
  /\ asked' = asked \cup {r}
  /\ calls' = calls \cup {r}
  /\ UNCHANGED <<serverVars, toServer, toLoader, loaderVars, answers, ran, forgotten>>

(* The server's loop is in _dispatch_pending while a job and an idle       *)
(* loader are at hand; it takes the next packet when that has returned.    *)
\* Mutant: a loader that waits for its processor is given another program.
NotAssigned == {l \in known : state[l] # "assigned"}
Idle == {l \in known : state[l] = "idle"}
Dispatching == pending # <<>> /\ Idle # {}

Notify(r, c) == answers' = [answers EXCEPT ![r] = Append(@, c)]

(* _handle_spawn_request: the path is fetched from the client's memory, or *)
(* its length is refused.                                                  *)
TakeSpawn(r) ==
  /\ ~Dispatching /\ r \in calls
  /\ calls' = calls \ {r}
  /\ reads' = reads \cup {r}
  /\ UNCHANGED <<state, known, job, position, requester, pending, toServer, toLoader,
                 loaderVars, history>>

RefuseSpawn(r) ==
  /\ ~Dispatching /\ r \in calls
  /\ calls' = calls \ {r}
  /\ Notify(r, Failed)
  /\ UNCHANGED <<serverVars, toServer, toLoader, loaderVars, asked, ran, forgotten>>

(* _handle_obj_read_resp: the image is loaded and queued, or the path is   *)
(* not that of a program.                                                  *)
TakePath(r) ==
  /\ ~Dispatching /\ r \in reads
  /\ reads' = reads \ {r}
  /\ pending' = Append(pending, r)
  /\ UNCHANGED <<state, known, job, position, requester, calls, toServer, toLoader,
                 loaderVars, history>>

RefusePathSilently(r) ==  \* Mutant: no answer
  /\ ~Dispatching /\ r \in reads
  /\ reads' = reads \ {r}
  /\ UNCHANGED <<state, known, job, position, requester, pending, calls, toServer,
                 toLoader, loaderVars, history>>

RefusePath(r) ==
  /\ ~Dispatching /\ r \in reads
  /\ reads' = reads \ {r}
  /\ Notify(r, Failed)
  /\ UNCHANGED <<state, known, job, position, requester, pending, calls, toServer,
                 toLoader, loaderVars, asked, ran, forgotten>>

-----------------------------------------------------------------------------
(* Serving a loader.                                                       *)

Least(a, b) == IF a <= b THEN a ELSE b

(* _serve_next_chunk of job j at offset p: a chunk does not cross the end  *)
(* of the text, and the last one makes the server wait for the processor.  *)
\* Mutants: a chunk over the end of the text; the data measured from the top.
ChunkLenAcross(j, p) == Least(Chunk, Total(j) - p)
ChunkLenFromTop(j, p) ==
  Least(Chunk, IF p < TextSize[j] THEN TextSize[j] - p ELSE DataSize[j] - p)
ChunkLen(j, p) ==
  Least(Chunk, IF p < TextSize[j] THEN TextSize[j] - p ELSE Total(j) - p)

ChunkMsg(j, p) == [job |-> j, pos |-> p, len |-> ChunkLen(j, p),
                   text |-> TextSize[j], data |-> DataSize[j]]

ServeNext(l, j, p) ==
  IF p >= Total(j)
  THEN /\ state' = [state EXCEPT ![l] = "waiting"]
       /\ position' = position /\ toLoader' = toLoader
  ELSE /\ toLoader' = [toLoader EXCEPT ![l] = Append(@, ChunkMsg(j, p))]
       /\ position' = [position EXCEPT ![l] = p + ChunkLen(j, p)]
       /\ state' = [state EXCEPT ![l] = IF p + ChunkLen(j, p) >= Total(j)
                                        THEN "waiting" ELSE "assigned"]

(* _dispatch_pending: the first idle loader gets the oldest job; one given *)
(* with --image goes to the end of the queue again.                        *)
Dispatch(l) ==
  LET j == Head(pending)
  IN /\ Dispatching /\ l \in Idle /\ \A k \in Idle : l <= k
     /\ pending' = IF j \in Preloads THEN Append(Tail(pending), j) ELSE Tail(pending)
     /\ job' = [job EXCEPT ![l] = j]
     /\ requester' = [requester EXCEPT ![l] = IF j \in Requests THEN j ELSE None]
     /\ ServeNext(l, j, 0)
     /\ UNCHANGED <<known, calls, reads, toServer, loaderVars, history>>

Hears(l) ==
  /\ ~Dispatching /\ toServer[l] # <<>>
  /\ toServer' = [toServer EXCEPT ![l] = Tail(@)]
  /\ known' = known \cup {l}

(* _handle_loader_msg, offset 0: the program the loader ran has ended and  *)
(* its exit code comes with the message; or the loader gave up an image    *)
(* that was being served, and the server forgets who asked for it.         *)
Announced(l) ==
  LET done == state[l] = "waiting" /\ requester[l] # None
      dropped == state[l] = "assigned" /\ requester[l] # None
  IN /\ Hears(l) /\ Head(toServer[l]).off = 0
     /\ IF done THEN Notify(requester[l], Head(toServer[l]).code % 256) ELSE answers' = answers
     /\ requester' = [requester EXCEPT ![l] = IF state[l] = "waiting" THEN None ELSE @]
     /\ position' = [position EXCEPT ![l] = IF state[l] = "waiting" THEN 0 ELSE @]
     /\ state' = [state EXCEPT ![l] = "idle"]
     /\ forgotten' = IF dropped THEN forgotten \cup {requester[l]} ELSE forgotten
     /\ UNCHANGED <<job, pending, calls, reads, toLoader, loaderVars, asked, ran>>

(* An acknowledgement: the next chunk, if this is the one expected.        *)
Acknowledged(l) ==
  /\ Hears(l) /\ Head(toServer[l]).off > 0
  /\ IF state[l] = "assigned" /\ Head(toServer[l]).off = position[l]
     THEN ServeNext(l, job[l], position[l])
     ELSE UNCHANGED <<state, position, toLoader>>
  /\ UNCHANGED <<job, requester, pending, calls, reads, loaderVars, history>>

-----------------------------------------------------------------------------
(* The spare processors.                                                   *)

Tells(l, off) ==
  toServer' = [toServer EXCEPT ![l] = Append(@, [off |-> off, code |-> code[l]])]

Announce(l) ==
  /\ pc[l] = "start"
  /\ Tells(l, 0)
  /\ pc' = [pc EXCEPT ![l] = "loop"]
  /\ UNCHANGED <<serverVars, calls, toLoader, code, sizes, words, history>>

(* TaskExit ends the processor's last task: reset_cpu starts the loader    *)
(* again, with the exit code in a register and an empty object table.      *)
ResetPlain(l, c) ==  \* Mutant: the exit code is not kept
  /\ pc' = [pc EXCEPT ![l] = "start"]
  /\ sizes' = [sizes EXCEPT ![l] = <<>>]
  /\ words' = [words EXCEPT ![l] = <<>>]
  /\ toLoader' = [toLoader EXCEPT ![l] = <<>>]
  /\ code' = code

Reset(l, c) ==
  /\ pc' = [pc EXCEPT ![l] = "start"]
  /\ code' = [code EXCEPT ![l] = c]
  /\ sizes' = [sizes EXCEPT ![l] = <<>>]
  /\ words' = [words EXCEPT ![l] = <<>>]
  /\ toLoader' = [toLoader EXCEPT ![l] = <<>>]

(* The loop of chunkboot: the first chunk has the objects allocated; the   *)
(* words go to the text or the data object by the chunk's offset.  When    *)
(* all has been copied the program takes the loader's place, and otherwise *)
(* the next offset is asked for.                                           *)
Target(m, i) == IF m.pos < m.text THEN <<"text", m.pos + i>>
                ELSE <<"data", m.pos - m.text + i>>
Copied(old, m) ==
  LET new == {Target(m, i) : i \in 0 .. (m.len - 1)}
  IN [p \in (DOMAIN old) \cup new |->
        IF p \in new
        THEN <<m.job, m.pos + (CHOOSE i \in 0 .. (m.len - 1) : Target(m, i) = p)>>
        ELSE old[p]]

TakeChunk(l) ==
  LET m == Head(toLoader[l])
  IN /\ pc[l] = "loop" /\ toLoader[l] # <<>>
     /\ toLoader' = [toLoader EXCEPT ![l] = Tail(@)]
     /\ sizes' = [sizes EXCEPT ![l] = IF @ = <<>> THEN <<m.text, m.data>> ELSE @]
     /\ words' = [words EXCEPT ![l] = Copied(@, m)]
     /\ IF m.pos + m.len = m.text + m.data
        THEN pc' = [pc EXCEPT ![l] = "guest"] /\ toServer' = toServer
        ELSE pc' = pc /\ Tells(l, m.pos + m.len)
     /\ UNCHANGED <<serverVars, calls, code, history>>

(* An allocation fails: the loader exits with code 99.                     *)
LoaderFails(l) ==
  /\ l \in MayFail /\ pc[l] = "loop" /\ toLoader[l] # <<>> /\ sizes[l] = <<>>
  /\ ran' = [ran EXCEPT ![Head(toLoader[l]).job] = LoaderFailed]
  /\ Reset(l, LoaderFailed)
  /\ UNCHANGED <<serverVars, calls, toServer, asked, answers, forgotten>>

GuestExits(l, c) ==
  /\ pc[l] = "guest"
  /\ ran' = [ran EXCEPT ![words[l][<<"text", 0>>][1]] = c]
  /\ Reset(l, c)
  /\ UNCHANGED <<serverVars, calls, toServer, asked, answers, forgotten>>

-----------------------------------------------------------------------------
Serve ==
  \/ \E r \in Requests : TakeSpawn(r) \/ RefuseSpawn(r) \/ TakePath(r) \/ RefusePath(r)
  \/ \E l \in Loaders : Dispatch(l) \/ Announced(l) \/ Acknowledged(l)

Run(l) ==
  \/ Announce(l) \/ TakeChunk(l) \/ LoaderFails(l)
  \/ \E c \in Codes : GuestExits(l, c)

Next ==
  \/ \E r \in Requests : Ask(r)
  \/ Serve
  \/ \E l \in Loaders : Run(l)

Spec == Init /\ [][Next]_vars

(* Packets reach the server on one socket and are taken in their turn, so  *)
(* each one is taken though the server is now and then busy dispatching:   *)
(* hence strong fairness.  The processors run, and their programs end.     *)
FairSpec ==
  /\ Spec
  /\ \A r \in Requests : SF_vars(TakeSpawn(r) \/ RefuseSpawn(r))
                         /\ SF_vars(TakePath(r) \/ RefusePath(r))
  /\ WF_vars(\E l \in Loaders : Dispatch(l))
  /\ \A l \in Loaders : WF_vars(Run(l))
                        /\ SF_vars(Announced(l) \/ Acknowledged(l))

-----------------------------------------------------------------------------
ChunkMsgs == [job : Jobs, pos : Nat, len : Nat, text : Nat, data : Nat]

(* Type correctness of every variable.                                     *)
TypeOK ==
  /\ state \in [Loaders -> {"idle", "assigned", "waiting"}] /\ known \subseteq Loaders
  /\ job \in [Loaders -> Jobs \cup {None}] /\ position \in [Loaders -> Nat]
  /\ requester \in [Loaders -> Requests \cup {None}]
  /\ pending \in Seq(Jobs) /\ calls \subseteq Requests /\ reads \subseteq Requests
  /\ toServer \in [Loaders -> Seq([off : Nat, code : Nat])]
  /\ toLoader \in [Loaders -> Seq(ChunkMsgs)]
  /\ pc \in [Loaders -> {"start", "loop", "guest"}] /\ code \in [Loaders -> Nat]
  /\ asked \subseteq Requests /\ forgotten \subseteq Requests
  /\ answers \in [Requests -> Seq(Nat)] /\ ran \in [Jobs -> Nat \cup {None}]

(* The program that takes the loader's place is one whole image: the one   *)
(* the server is waiting for, every word where it belongs, none left over  *)
(* from an image served before.                                            *)
ExactImage ==
  \A l \in Loaders : pc[l] = "guest" =>
    /\ state[l] = "waiting" /\ job[l] \in Jobs
    /\ sizes[l] = <<TextSize[job[l]], DataSize[job[l]]>>
    /\ words[l] = Image(job[l])

(* The protocol is stop-and-wait: at most one message is on its way        *)
(* between the server and a loader, in either direction, so the loader's   *)
(* queue of four never overflows and no acknowledgement is ever stale.     *)
StopAndWait ==
  \A l \in Loaders :
    /\ Len(toServer[l]) + Len(toLoader[l]) <= 1
    /\ pc[l] # "loop" => toLoader[l] = <<>> /\ toServer[l] = <<>>
    /\ toServer[l] # <<>> /\ Head(toServer[l]).off > 0 =>
         state[l] = "assigned" /\ Head(toServer[l]).off = position[l]

(* An image is served one message at a time and arrives exactly.           *)
TransferExact == ExactImage /\ StopAndWait

(* A client hears once: that its program could not be had, and then it was *)
(* never started; or the low byte of the code with which the processor     *)
(* that was given its own program ended.                                   *)
ExitReported ==
  \A r \in Requests :
    /\ Len(answers[r]) <= 1
    /\ answers[r] # <<>> => \/ answers[r][1] = Failed /\ ran[r] = None
                            \/ ran[r] # None /\ answers[r][1] = ran[r] % 256

(* Every request is answered, unless the loader that was being given the   *)
(* program restarted.                                                      *)
SpawnAnswered ==
  \A r \in Requests : r \in asked ~> (answers[r] # <<>> \/ r \in forgotten)

-----------------------------------------------------------------------------
(* linkbootd: "notifies the shell when the guest exits".                   *)
EveryExitNotified == \A r \in Requests : r \in asked ~> answers[r] # <<>>
=============================================================================

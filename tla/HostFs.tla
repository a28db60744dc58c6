------------------------------- MODULE HostFs -------------------------------
(***************************************************************************)
(* The host file service (tools/devices/hostfsd) and its clients           *)
(* (tools/cc/lib/host_io.c).  Programs on several processors send requests *)
(* to the service and wait, each on a mailbox of its own, for the reply.   *)
(* The service keeps a session for every mailbox that was subscribed.  A   *)
(* request that needs bytes of the program's memory, a path or what is to  *)
(* be written, or puts some there, is put aside (pending) under a          *)
(* transaction id until the processor has answered; other requests are     *)
(* served in between.                                                      *)
(*                                                                         *)
(* Packets between a processor and the service arrive in order.  A program *)
(* may be killed in the middle of a call, and its processor may end; when  *)
(* all programs of a processor are gone it may start afresh, with the same *)
(* mailboxes: indices and generations begin again.                         *)
(***************************************************************************)
EXTENDS HostOs, FiniteSets

CONSTANTS
  Programs,
  Cpus,
  Home,        \* the processor of each program
  Requests,    \* what programs ask for
  Asks,        \* the requests each program makes
  Jailed,      \* names that resolve to a place outside the root
  MaxFds,      \* MAX_FDS_PER_CPU: 64
  Descs,       \* descriptors the host gives the service
  TransIds,    \* transaction ids: 2^16
  Reuse,       \* whether an id may come round while a packet has it
  EarlyReset,  \* whether a processor starts afresh while packets of its
               \* former programs are on their way
  Mortal,      \* programs that may end or be killed
  Leavers,     \* programs that unsubscribe; those of host_io.c never do
  LeaveShared, \* whether they do while others of their processor have sessions
  MaxCalls,    \* bound: calls of one behaviour
  MaxInits,    \* bound: subscriptions of one behaviour
  None

PathOps == {"open", "opendir", "mkdir", "unlink"}
FdOps == {"close", "read", "write"}
Request ==
  [op : PathOps \cup FdOps, name : Names, flags : Flags, fd : Nat,
   arg : {"good", "null", "readonly"}]

ASSUME ProgramsAssumption ==
  /\ Home \in [Programs -> Cpus] /\ Programs \subseteq Blocks
  /\ Requests \subseteq Request /\ Asks \in [Programs -> SUBSET Requests]
  /\ None \notin Requests \cup Blocks \cup Names \cup Nat
ASSUME ServiceAssumption ==
  /\ MaxFds \in Nat /\ Descs \subseteq Nat /\ Jailed \subseteq Names
  /\ None \notin TransIds
  /\ Reuse \in BOOLEAN /\ EarlyReset \in BOOLEAN
  /\ Mortal \subseteq Programs /\ Leavers \subseteq Programs /\ LeaveShared \in BOOLEAN
  /\ MaxCalls \in Nat /\ MaxInits \in Nat

VARIABLES
  prog,     \* what each program is doing
  call,     \* its latest call: what its memory holds for the service
  buf,      \* its buffer: the block that was written there
  mbox,     \* its reply mailbox
  toFs,     \* packets from each processor to the service
  toCpu,    \* and back
  sessions, \* the session of each subscribed mailbox
  sess,     \* every session made, also those no mailbox has any more
  pending,  \* requests put aside, by transaction id
  desc,     \* open descriptors of the service's process
  host,     \* the files
  calls,    \* number of calls, for the bound
  inits     \* number of subscriptions, for the bound

vars == <<prog, call, buf, mbox, toFs, toCpu, sessions, sess, pending, desc, host,
          calls, inits>>
progVars == <<prog, call, buf, mbox, calls, inits>>
fsVars == <<sessions, sess, pending, desc, host>>

(* What one transfer moves: a block, or the names in a listing.            *)
Chunk == SUBSET (Blocks \cup Names \cup {None})
Nothing == {None}

Empty == <<>>
Members(q) == {q[i] : i \in DOMAIN q}
Without(f, X) == [x \in DOMAIN f \ X |-> f[x]]
With(f, x, v) == [y \in DOMAIN f \cup {x} |-> IF y = x THEN v ELSE f[y]]

(* Packets.  "sub", "unsub" and "req" are messages of a program, "bytes"   *)
(* and "landed" the answers of a processor, "fetch" and "land" the         *)
(* requests of the service to it, "reply" a message of the service.        *)
NoPacket == [t |-> "sub", by |-> None, r |-> None, id |-> None, ok |-> TRUE,
             code |-> "OK", n |-> 0, block |-> Nothing]
FromProgram(t, p, r) == [NoPacket EXCEPT !.t = t, !.by = p, !.r = r]
Fetch(p) == [NoPacket EXCEPT !.t = "fetch", !.by = p]
LandBlock(p, b) == [NoPacket EXCEPT !.t = "land", !.by = p, !.block = b]
ReplyTo(p, code, n) == [NoPacket EXCEPT !.t = "reply", !.by = p, !.code = code, !.n = n]

Init ==
  /\ prog = [p \in Programs |-> "new"]
  /\ call = [p \in Programs |-> None]
  /\ buf = [p \in Programs |-> Nothing]
  /\ mbox = [p \in Programs |-> <<>>]
  /\ toFs = [c \in Cpus |-> <<>>] /\ toCpu = [c \in Cpus |-> <<>>]
  /\ sessions = [p \in Programs |-> None] /\ sess = <<>>
  /\ pending = Empty /\ desc = Empty
  /\ host = FirstHost
  /\ calls = 0
  /\ inits = 0

(* The packets of a program's call that are on their way.                  *)
OnWire(p) ==
  {m \in Members(mbox[p]) \cup Members(toCpu[Home[p]]) \cup Members(toFs[Home[p]]) :
     m.by = p /\ m.t \notin {"sub", "unsub"}}

(* The transaction ids they bear.                                          *)
IdsOnWire == {m.id : m \in UNION {Members(toFs[c]) \cup Members(toCpu[c]) : c \in Cpus}}

-----------------------------------------------------------------------------
(* Programs.                                                               *)

SendFs(p, m) == toFs' = [toFs EXCEPT ![Home[p]] = Append(@, m)]

(* hf_init: a fresh mailbox; the subscription is not answered.             *)
HfInit(p) ==
  /\ prog[p] = "new" /\ inits < MaxInits
  /\ inits' = inits + 1
  /\ prog' = [prog EXCEPT ![p] = "run"]
  /\ SendFs(p, FromProgram("sub", p, None))
  /\ UNCHANGED <<call, buf, mbox, calls, toCpu, fsVars>>

(* The null subscription gives up all sessions of the processor.           *)
Alone(p) ==
  \A q \in Programs \ {p} : Home[q] = Home[p] => prog[q] \in {"new", "dead"} /\ OnWire(q) = {}
Leave(p) ==
  /\ p \in Leavers /\ prog[p] = "run" /\ (LeaveShared \/ Alone(p))
  /\ prog' = [prog EXCEPT ![p] = "new"]
  /\ SendFs(p, FromProgram("unsub", p, None))
  /\ UNCHANGED <<call, buf, mbox, calls, inits, toCpu, fsVars>>

HfCall(p) ==
  /\ prog[p] = "run" /\ calls < MaxCalls
  /\ \E r \in Asks[p] :
       /\ call' = [call EXCEPT ![p] = r]
       /\ SendFs(p, FromProgram("req", p, r))
  /\ buf' = [buf EXCEPT ![p] = Nothing]
  /\ prog' = [prog EXCEPT ![p] = "wait"]
  /\ calls' = calls + 1
  /\ UNCHANGED <<mbox, inits, toCpu, fsVars>>

(* hf_wait takes whatever comes to the mailbox first.                      *)
HfWait(p) ==
  /\ prog[p] = "wait" /\ mbox[p] # <<>>
  /\ mbox' = [mbox EXCEPT ![p] = Tail(@)]
  /\ prog' = [prog EXCEPT ![p] = "run"]
  /\ UNCHANGED <<call, buf, calls, inits, toFs, toCpu, fsVars>>

(* A program ends, or is killed while it waits; its files stay open.       *)
Die(p) ==
  /\ p \in Mortal /\ prog[p] \in {"run", "wait"}
  /\ prog' = [prog EXCEPT ![p] = "dead"]
  /\ mbox' = [mbox EXCEPT ![p] = <<>>]
  /\ UNCHANGED <<call, buf, calls, inits, toFs, toCpu, fsVars>>

Gone(c) ==
  /\ \A p \in Programs : Home[p] = c => prog[p] \in {"new", "dead"}
  /\ \E p \in Programs : Home[p] = c /\ prog[p] = "dead"

(* The processor's process ends: what is on its way to it is lost, what    *)
(* it had sent may be.                                                     *)
CpuEnds(c) ==
  /\ Gone(c)
  /\ toCpu' = [toCpu EXCEPT ![c] = <<>>]
  /\ toFs' \in {toFs, [toFs EXCEPT ![c] = <<>>]}
  /\ UNCHANGED <<progVars, fsVars>>

(* It is reset, or started again under its number.                         *)
CpuStarts(c) ==
  /\ Gone(c)
  /\ EarlyReset \/ (toFs[c] = <<>> /\ toCpu[c] = <<>>)
  /\ prog' = [p \in Programs |-> IF Home[p] = c THEN "new" ELSE prog[p]]
  /\ call' = [p \in Programs |-> IF Home[p] = c THEN None ELSE call[p]]
  /\ buf' = [p \in Programs |-> IF Home[p] = c THEN Nothing ELSE buf[p]]
  /\ UNCHANGED <<mbox, calls, inits, toFs, toCpu, fsVars>>

(* The processor serves the service's accesses to a program's memory, and  *)
(* queues replies.  An access may fail: the reference may be bad.          *)
Answer(c) ==
  LET m == Head(toCpu[c])
      back == [m EXCEPT !.t = IF m.t = "fetch" THEN "bytes" ELSE "landed"]
  IN
  /\ toCpu[c] # <<>>
  /\ toCpu' = [toCpu EXCEPT ![c] = Tail(@)]
  /\ \/ /\ m.t = "reply"
        /\ mbox' = IF prog[m.by] \in {"run", "wait"}
                     THEN [mbox EXCEPT ![m.by] = Append(@, m)] ELSE mbox
        /\ UNCHANGED <<buf, toFs>>
     \/ /\ m.t = "fetch"
        /\ \/ call[m.by] # None /\ SendFs(m.by, [back EXCEPT !.r = call[m.by]])
           \/ SendFs(m.by, [back EXCEPT !.ok = FALSE])
        /\ UNCHANGED <<buf, mbox>>
     \/ /\ m.t = "land"
        /\ \/ SendFs(m.by, back) /\ buf' = [buf EXCEPT ![m.by] = m.block]
           \/ SendFs(m.by, [back EXCEPT !.ok = FALSE]) /\ UNCHANGED buf
        /\ UNCHANGED mbox
  /\ UNCHANGED <<prog, call, calls, inits, fsVars>>

-----------------------------------------------------------------------------
(* The service.                                                            *)

SendCpu(p, m) == toCpu' = [toCpu EXCEPT ![Home[p]] = Append(@, m)]
(* _reply: to the mailbox of the session, not of the sender.               *)
Reply(s, code, n) == SendCpu(sess[s].box, ReplyTo(sess[s].box, code, n))
Refuse(s, code) == Reply(s, code, 0) /\ UNCHANGED fsVars

(* Mutant: the counter of ids is not advanced by every request.            *)
DeferSameId(s, p, r, m) ==
  \E t \in TransIds :
    /\ pending' = With(pending, t, [op |-> r.op, s |-> s, fd |-> r.fd, flags |-> r.flags])
    /\ SendCpu(p, [m EXCEPT !.id = t])
(* _next_trans, and what is put aside under the id.                        *)
Defer(s, p, r, m) ==
  \E t \in TransIds :
    /\ Reuse \/ t \notin IdsOnWire
    /\ pending' = With(pending, t, [op |-> r.op, s |-> s, fd |-> r.fd, flags |-> r.flags])
    /\ SendCpu(p, [m EXCEPT !.id = t])

(* Mutant: sessions are found by processor alone.                          *)
SessionsForCpu(p) ==
  {sessions[q] : q \in {x \in Programs : Home[x] = Home[p] /\ sessions[x] # None}}
(* _session_for_sender: by the mailbox named in the request, else any      *)
(* session of the sender's processor.                                      *)
SessionsFor(p) ==
  IF sessions[p] # None THEN {sessions[p]}
  ELSE {sessions[q] : q \in {x \in Programs : Home[x] = Home[p] /\ sessions[x] # None}}

(* _do_subscribe: a session of the same mailbox is forgotten as it is.     *)
Subscribe(p) ==
  /\ sess' = Append(sess, [box |-> p, files |-> Empty, next |-> 0])
  /\ sessions' = [sessions EXCEPT ![p] = Len(sess) + 1]
  /\ UNCHANGED <<pending, desc, host, toCpu>>

(* Its null form forgets all sessions of the processor and closes their    *)
(* descriptors; requests put aside keep the session with its files.        *)
HostDescs(s) == {sess[s].files[fd].host : fd \in DOMAIN sess[s].files}
Unsubscribe(p) ==
  LET gone == {q \in Programs : Home[q] = Home[p] /\ sessions[q] # None} IN
  /\ sessions' = [q \in Programs |-> IF q \in gone THEN None ELSE sessions[q]]
  /\ desc' = Without(desc, UNION {HostDescs(sessions[q]) : q \in gone})
  /\ UNCHANGED <<sess, pending, host, toCpu>>

(* Mutant: the limit is off by one.                                        *)
DoOpenOneMore(s, p, r) ==
  \/ r.arg = "null" /\ Refuse(s, "INVAL")
  \/ /\ r.arg # "null" /\ Cardinality(DOMAIN sess[s].files) > MaxFds
     /\ Refuse(s, "NOMEM")
  \/ /\ r.arg # "null" /\ Cardinality(DOMAIN sess[s].files) <= MaxFds
     /\ Defer(s, p, r, Fetch(p))
     /\ UNCHANGED <<sessions, sess, desc, host>>

(* _do_open: the limit is checked before the path is fetched.              *)
DoOpen(s, p, r) ==
  \/ r.arg = "null" /\ Refuse(s, "INVAL")
  \/ /\ r.arg # "null" /\ Cardinality(DOMAIN sess[s].files) >= MaxFds
     /\ Refuse(s, "NOMEM")
  \/ /\ r.arg # "null" /\ Cardinality(DOMAIN sess[s].files) < MaxFds
     /\ Defer(s, p, r, Fetch(p))
     /\ UNCHANGED <<sessions, sess, desc, host>>

DoPathOp(s, p, r) ==
  \/ r.arg = "null" /\ Refuse(s, "INVAL")
  \/ /\ r.arg # "null" /\ Defer(s, p, r, Fetch(p))
     /\ UNCHANGED <<sessions, sess, desc, host>>

IsDir(of) == of.host = None

(* Mutant: the entry of a closed file stays.                               *)
DoCloseKeeps(s, r) ==
  LET files == sess[s].files
      of == files[r.fd]
  IN
  \/ r.fd \notin DOMAIN files /\ Refuse(s, "BADF")
  \/ /\ r.fd \in DOMAIN files
     /\ desc' = Without(desc, {of.host})
     /\ Reply(s, IF IsDir(of) \/ of.host \in DOMAIN desc THEN "OK" ELSE "IO", 0)
     /\ UNCHANGED <<sessions, sess, pending, host>>

DoClose(s, r) ==
  LET files == sess[s].files
      of == files[r.fd]
  IN
  \/ r.fd \notin DOMAIN files /\ Refuse(s, "BADF")
  \/ /\ r.fd \in DOMAIN files
     /\ sess' = [sess EXCEPT ![s].files = Without(files, {r.fd})]
     /\ desc' = Without(desc, {of.host})
     /\ Reply(s, IF IsDir(of) \/ of.host \in DOMAIN desc THEN "OK" ELSE "IO", 0)
     /\ UNCHANGED <<sessions, pending, host>>

(* _do_read: the position moves before the block is on its way.            *)
IsFile(d) == d \in DOMAIN desc /\ desc[d].file \in Nat
CanRead(of) == IsDir(of) \/ (IsFile(of.host) /\ Readable(desc[of.host].mode))
AllRead(of) ==
  IF IsDir(of) THEN of.pos > 0 ELSE AtEnd(host, desc[of.host].file, desc[of.host].pos)

TakeBlock(s, fd) ==
  LET of == sess[s].files[fd] IN
  \/ /\ IsDir(of)
     /\ sess' = [sess EXCEPT ![s].files[fd].pos = @ + 1]
     /\ UNCHANGED desc
  \/ /\ ~IsDir(of)
     /\ desc' = [desc EXCEPT ![of.host].pos = @ + 1]
     /\ UNCHANGED sess
BlockOf(of) ==
  IF IsDir(of) THEN of.names ELSE {BlockAt(host, desc[of.host].file, desc[of.host].pos)}

DoRead(s, p, r) ==
  LET files == sess[s].files
      of == files[r.fd]
  IN
  \/ r.fd \notin DOMAIN files /\ Refuse(s, "BADF")
  \/ r.fd \in DOMAIN files /\ r.arg = "null" /\ Refuse(s, "INVAL")
  \/ r.fd \in DOMAIN files /\ r.arg = "readonly" /\ Refuse(s, "ACCES")
  \/ /\ r.fd \in DOMAIN files /\ r.arg = "good"
     /\ \/ ~CanRead(of) /\ Refuse(s, "IO")
        \/ CanRead(of) /\ AllRead(of) /\ Refuse(s, "OK")
        \/ /\ CanRead(of) /\ ~AllRead(of)
           /\ TakeBlock(s, r.fd)
           /\ Defer(s, p, r, LandBlock(p, BlockOf(of)))
           /\ UNCHANGED <<sessions, host>>

DoWrite(s, p, r) ==
  LET files == sess[s].files IN
  \/ r.fd \notin DOMAIN files /\ Refuse(s, "BADF")
  \/ r.fd \in DOMAIN files /\ r.arg = "null" /\ Refuse(s, "INVAL")
  \/ /\ r.fd \in DOMAIN files /\ r.arg # "null"
     /\ Defer(s, p, r, Fetch(p))
     /\ UNCHANGED <<sessions, sess, desc, host>>

Dispatch(s, p, r) ==
  \/ r.op \in {"open", "opendir"} /\ DoOpen(s, p, r)
  \/ r.op \in {"mkdir", "unlink"} /\ DoPathOp(s, p, r)
  \/ r.op = "close" /\ DoClose(s, r)
  \/ r.op = "read" /\ DoRead(s, p, r)
  \/ r.op = "write" /\ DoWrite(s, p, r)

(* _handle_send; without a session the request is dropped unanswered.      *)
HandleSend(m) ==
  \/ m.t = "sub" /\ Subscribe(m.by)
  \/ m.t = "unsub" /\ Unsubscribe(m.by)
  \/ /\ m.t = "req"
     /\ \/ \E s \in SessionsFor(m.by) : Dispatch(s, m.by, m.r)
        \/ SessionsFor(m.by) = {} /\ UNCHANGED <<fsVars, toCpu>>

(* The host gives the lowest descriptor that is not in use.                *)
NewDesc(d) == d \in Descs \ DOMAIN desc /\ \A e \in Descs \ DOMAIN desc : d <= e

AddFile(s, of) ==
  sess' = [sess EXCEPT ![s].files = With(@, sess[s].next, of), ![s].next = @ + 1]

OpenFile(s, n, flags) ==
  LET code == IF n \in Jailed THEN "ACCES" ELSE IF flags.mode = 3 THEN "INVAL"
              ELSE IF Descs \subseteq DOMAIN desc THEN "IO" ELSE OpenError(host, n, flags)
  IN
  \/ code # "OK" /\ Reply(s, code, 0) /\ UNCHANGED <<sess, desc, host>>
  \/ /\ code = "OK"
     /\ host' = Opened(host, n, flags)
     /\ \E d \in Descs :
          /\ NewDesc(d)
          /\ desc' = With(desc, d, [file |-> host'.entry[n], mode |-> flags.mode, pos |-> 0])
          /\ AddFile(s, [host |-> d, names |-> {}, pos |-> 0])
     /\ Reply(s, "OK", sess[s].next)

OpenDir(s, n) ==
  LET code == IF n \in Jailed THEN "ACCES" ELSE ListError(host, n) IN
  /\ \/ code # "OK" /\ Reply(s, code, 0) /\ UNCHANGED sess
     \/ /\ code = "OK"
        /\ AddFile(s, [host |-> None, names |-> Listing(host, n), pos |-> 0])
        /\ Reply(s, "OK", sess[s].next)
  /\ UNCHANGED <<desc, host>>

MkdirPath(s, n) ==
  LET code == IF n \in Jailed THEN "ACCES" ELSE MkdirError(host, n) IN
  /\ host' = IF code = "OK" THEN WithDir(host, n) ELSE host
  /\ Reply(s, code, 0)
  /\ UNCHANGED <<sess, desc>>

UnlinkPath(s, n) ==
  LET code == IF n \in Jailed THEN "ACCES" ELSE UnlinkError(host, n) IN
  /\ host' = IF code = "OK" THEN Unlinked(host, n) ELSE host
  /\ Reply(s, code, 0)
  /\ UNCHANGED <<sess, desc>>

(* The write half of _handle_read_resp: the file may have been closed      *)
(* while its bytes were fetched.                                           *)
WriteFile(s, fd, b) ==
  LET d == sess[s].files[fd].host IN
  /\ \/ fd \notin DOMAIN sess[s].files /\ Reply(s, "BADF", 0) /\ UNCHANGED <<desc, host>>
     \/ /\ fd \in DOMAIN sess[s].files
        /\ \/ /\ ~(IsFile(d) /\ Writable(desc[d].mode))
              /\ Reply(s, "IO", 0) /\ UNCHANGED <<desc, host>>
           \/ /\ IsFile(d) /\ Writable(desc[d].mode)
              /\ host' = Written(host, desc[d].file, desc[d].pos, b)
              /\ desc' = [desc EXCEPT ![d].pos = @ + 1]
              /\ Reply(s, "OK", 1)
  /\ UNCHANGED sess

(* Mutant: a failed transfer is not reported.                              *)
HandleReadRespMute(m) ==
  LET pr == pending[m.id] IN
  /\ m.t = "bytes"
  /\ \/ m.id \notin DOMAIN pending /\ UNCHANGED <<fsVars, toCpu>>
     \/ /\ m.id \in DOMAIN pending
        /\ pending' = Without(pending, {m.id})
        /\ UNCHANGED sessions
        /\ \/ ~m.ok /\ UNCHANGED <<sess, desc, host, toCpu>>
           \/ m.ok /\ pr.op = "open" /\ OpenFile(pr.s, m.r.name, pr.flags)
           \/ m.ok /\ pr.op = "opendir" /\ OpenDir(pr.s, m.r.name)
           \/ m.ok /\ pr.op = "mkdir" /\ MkdirPath(pr.s, m.r.name)
           \/ m.ok /\ pr.op = "unlink" /\ UnlinkPath(pr.s, m.r.name)
           \/ m.ok /\ pr.op = "write" /\ WriteFile(pr.s, pr.fd, m.by)
           \/ m.ok /\ pr.op = "read" /\ UNCHANGED <<sess, desc, host, toCpu>>

HandleReadResp(m) ==
  LET pr == pending[m.id] IN
  /\ m.t = "bytes"
  /\ \/ m.id \notin DOMAIN pending /\ UNCHANGED <<fsVars, toCpu>>
     \/ /\ m.id \in DOMAIN pending
        /\ pending' = Without(pending, {m.id})
        /\ UNCHANGED sessions
        /\ \/ ~m.ok /\ Reply(pr.s, "IO", 0) /\ UNCHANGED <<sess, desc, host>>
           \/ m.ok /\ pr.op = "open" /\ OpenFile(pr.s, m.r.name, pr.flags)
           \/ m.ok /\ pr.op = "opendir" /\ OpenDir(pr.s, m.r.name)
           \/ m.ok /\ pr.op = "mkdir" /\ MkdirPath(pr.s, m.r.name)
           \/ m.ok /\ pr.op = "unlink" /\ UnlinkPath(pr.s, m.r.name)
           \/ m.ok /\ pr.op = "write" /\ WriteFile(pr.s, pr.fd, m.by)
           \/ m.ok /\ pr.op = "read" /\ UNCHANGED <<sess, desc, host, toCpu>>

HandleWriteResp(m) ==
  LET pr == pending[m.id] IN
  /\ m.t = "landed"
  /\ \/ m.id \notin DOMAIN pending /\ UNCHANGED <<fsVars, toCpu>>
     \/ /\ m.id \in DOMAIN pending
        /\ pending' = Without(pending, {m.id})
        /\ \/ pr.op = "read" /\ (IF m.ok THEN Reply(pr.s, "OK", 1) ELSE Reply(pr.s, "IO", 0))
           \/ pr.op # "read" /\ UNCHANGED toCpu
        /\ UNCHANGED <<sessions, sess, desc, host>>

HandlePacket(c) ==
  LET m == Head(toFs[c]) IN
  /\ toFs[c] # <<>>
  /\ toFs' = [toFs EXCEPT ![c] = Tail(@)]
  /\ HandleSend(m) \/ HandleReadResp(m) \/ HandleWriteResp(m)
  /\ UNCHANGED progVars

Next ==
  \/ \E p \in Programs : HfInit(p) \/ Leave(p) \/ HfCall(p) \/ HfWait(p) \/ Die(p)
  \/ \E c \in Cpus : CpuEnds(c) \/ CpuStarts(c) \/ Answer(c) \/ HandlePacket(c)

Spec == Init /\ [][Next]_vars

(* The service and the processors that serve it are loops.  A program that *)
(* has its reply goes on; none has to call, to end or to start.            *)
Fairness ==
  /\ \A c \in Cpus : WF_vars(HandlePacket(c)) /\ WF_vars(Answer(c))
  /\ \A p \in Programs : WF_vars(HfWait(p))
FairSpec == Spec /\ Fairness
-----------------------------------------------------------------------------
(* Properties.                                                             *)

(* Every variable has its type; no session has more open files than the    *)
(* limit although it is checked before the path is fetched.                *)
Packet ==
  [t : {"sub", "unsub", "req", "bytes", "landed", "fetch", "land", "reply"},
   by : Programs, r : Requests \cup {None}, id : TransIds \cup {None}, ok : BOOLEAN,
   code : {"OK", "BADF", "INVAL", "NOENT", "ACCES", "IO", "NOMEM", "EXIST"}, n : Nat,
   block : Chunk]
Open == [host : Descs \cup {None}, names : SUBSET Names, pos : Nat]
Deferred == [op : PathOps \cup FdOps, s : 1 .. Len(sess), fd : Nat, flags : Flags]
Desc == [file : 1 .. MaxFiles \cup {Dir}, mode : 0 .. 2, pos : Nat]
TypeOK ==
  /\ prog \in [Programs -> {"new", "run", "wait", "dead"}]
  /\ call \in [Programs -> Requests \cup {None}]
  /\ buf \in [Programs -> Chunk]
  /\ mbox \in [Programs -> Seq(Packet)]
  /\ toFs \in [Cpus -> Seq(Packet)] /\ toCpu \in [Cpus -> Seq(Packet)]
  /\ sessions \in [Programs -> 1 .. Len(sess) \cup {None}]
  /\ \A s \in DOMAIN sess :
       /\ sess[s].box \in Programs /\ sess[s].next \in Nat
       /\ Cardinality(DOMAIN sess[s].files) <= MaxFds
       /\ \A fd \in DOMAIN sess[s].files : fd \in Nat /\ sess[s].files[fd] \in Open
  /\ \A t \in DOMAIN pending : t \in TransIds /\ pending[t] \in Deferred
  /\ \A d \in DOMAIN desc : d \in Descs /\ desc[d] \in Desc
  /\ host.entry \in [Names -> 1 .. MaxFiles \cup {NoEntry, Dir}]
  /\ Len(host.data) <= MaxFiles
  /\ calls \in Nat /\ inits \in Nat

(* No two open files share a descriptor of the host, and none has one that *)
(* is closed: what a program writes goes to the file it opened.  These are *)
(* the files of the sessions in use and of those a request put aside still *)
(* refers to when its answer comes.                                        *)
InUse ==
  {sessions[p] : p \in {q \in Programs : sessions[q] # None}}
  \cup {pending[t].s : t \in DOMAIN pending \cap IdsOnWire}
OwnDescriptor ==
  \A s, z \in InUse : \A fd \in DOMAIN sess[s].files, g \in DOMAIN sess[z].files :
    LET d == sess[s].files[fd].host IN
    d # None => /\ d \in DOMAIN desc
                /\ d = sess[z].files[g].host => s = z /\ fd = g

(* The packets on their way that carry a transaction id, by id.            *)
Count(q, t) == Cardinality({i \in DOMAIN q : q[i].id = t})
(* An answer always finds the request it answers: ids on the wire are      *)
(* pending, each once, for a session of the processor it goes to, as what  *)
(* it is: a transfer to the program for a read, from it for the others.    *)
Matched ==
  \A c \in Cpus : \A q \in {toFs[c], toCpu[c]} : \A i \in DOMAIN q :
    q[i].id # None =>
      /\ q[i].id \in DOMAIN pending
      /\ Home[sess[pending[q[i].id].s].box] = c
      /\ q[i].t \in {"land", "landed"} <=> pending[q[i].id].op = "read"
      /\ \A d \in Cpus \ {c} : Count(toFs[d], q[i].id) + Count(toCpu[d], q[i].id) = 0
      /\ Count(toFs[c], q[i].id) + Count(toCpu[c], q[i].id) = 1

(* A call is in one place: a program that waits has one packet under way.  *)
OnePlace == \A p \in Programs : prog[p] = "wait" => Cardinality(OnWire(p)) = 1
AnswersFindRequest == Matched /\ OnePlace

(* Programs see what HostFiles promises: calls that take effect at one     *)
(* moment, on their own open files.                                        *)
Before(p) ==  \* the service does not know this life of the program yet
  prog[p] = "new" \/ \E i \in DOMAIN toFs[Home[p]] :
                        toFs[Home[p]][i].t = "sub" /\ toFs[Home[p]][i].by = p
FileNow(of) ==
  [file |-> IF IsDir(of) THEN Root ELSE desc[of.host].file,
   mode |-> IF IsDir(of) THEN ReadOnly ELSE desc[of.host].mode,
   pos |-> IF IsDir(of) THEN of.pos ELSE desc[of.host].pos,
   names |-> of.names]
(* Nobody can use the files of a program that has ended.                   *)
Known(p) ==
  ~Before(p) /\ sessions[p] # None /\ (prog[p] = "dead" => OnWire(p) # {})
TableNow(p) ==
  IF ~Known(p) THEN Empty
  ELSE LET files == sess[sessions[p]].files IN [fd \in DOMAIN files |-> FileNow(files[fd])]
NextFdNow(p) == IF ~Known(p) THEN 0 ELSE sess[sessions[p]].next

CallNow(p) ==
  LET out == [ph |-> "out", r |-> None, code |-> "OK", fd |-> 0, block |-> Nothing]
      wire == OnWire(p)
      m == CHOOSE x \in wire : TRUE
      busy == [out EXCEPT !.r = call[p], !.ph = "called"]
  IN
  IF prog[p] \in {"new", "run"} \/ wire = {} THEN out
  ELSE CASE m.t \in {"land", "landed"} -> [busy EXCEPT !.ph = "taken", !.block = m.block]
         [] m.t = "reply" ->
              [busy EXCEPT !.ph = "decided", !.code = m.code,
                 !.fd = IF call[p].op \in {"open", "opendir"} THEN m.n ELSE 0,
                 !.block = IF call[p].op = "read" /\ m.n = 1 THEN buf[p] ELSE Nothing]
         [] OTHER -> busy

Promise == INSTANCE HostFiles WITH
  table <- [p \in Programs |-> TableNow(p)],
  nextFd <- [p \in Programs |-> NextFdNow(p)],
  call <- [p \in Programs |-> CallNow(p)],
  dead <- {p \in Programs : prog[p] = "dead"}
ImplementsFiles == Promise!Spec

(* Every call is answered, unless the program ends first.                  *)
Answered == \A p \in Programs : prog[p] = "wait" ~> prog[p] # "wait"
=============================================================================

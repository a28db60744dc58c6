----------------------------- MODULE HostFiles ------------------------------
(***************************************************************************)
(* What the host file service promises a program.  A program has a table   *)
(* of open files of its own, numbered from 0.  A call takes effect at one  *)
(* moment between its beginning and its return, on the files of the host   *)
(* and on the caller's table alone, and returns the result of that moment; *)
(* it fails only for a reason that holds then, and then has no effect.     *)
(* A read is two moments: it takes the next block, and lands it in the     *)
(* caller's buffer; a block that does not land is lost, and the caller is  *)
(* told.  A program that is killed may still have its last call served.    *)
(***************************************************************************)
EXTENDS HostOs, FiniteSets

CONSTANTS
  Programs,
  Requests,   \* the calls: records of an operation and its arguments
  Jailed,     \* names that resolve to a place outside the root
  MaxFds,     \* open files of one program: 64
  None

VARIABLES
  host,    \* the files of the host
  table,   \* the open files of each program, by number
  nextFd,  \* the number its next open gets
  call,    \* the call each program is in
  dead     \* programs that have been killed or have ended

vars == <<host, table, nextFd, call, dead>>

Empty == <<>>
Nothing == {None}
NoCall == [ph |-> "out", r |-> None, code |-> "OK", fd |-> 0, block |-> Nothing]

Init ==
  /\ host = FirstHost
  /\ table = [p \in Programs |-> Empty]
  /\ nextFd = [p \in Programs |-> 0]
  /\ call = [p \in Programs |-> NoCall]
  /\ dead = {}

OpenFile(f, mode) == [file |-> f, mode |-> mode, pos |-> 0, names |-> {}]
OpenDir(names) == [file |-> Root, mode |-> ReadOnly, pos |-> 0, names |-> names]
IsListing(o) == o.file = Root
IsFile(o) == o.file \in 1 .. MaxFiles

PathOps == {"open", "opendir", "mkdir", "unlink"}
FdOps == {"close", "read", "write"}

(* The reasons for which a call may fail now.  The host or the transfer of *)
(* a path or of a block may fail at any time.                              *)
PathError(r) ==
  CASE r.op = "open" -> OpenError(host, r.name, r.flags)
    [] r.op = "opendir" -> ListError(host, r.name)
    [] r.op = "mkdir" -> MkdirError(host, r.name)
    [] r.op = "unlink" -> UnlinkError(host, r.name)

Errors(p, r) ==
  LET open == r.op \in FdOps /\ r.fd \in DOMAIN table[p] IN
  {"IO"}
  \cup {e \in {"INVAL"} : \/ r.op # "close" /\ r.arg = "null"
                          \/ r.op = "open" /\ r.flags.mode = 3}
  \cup {e \in {"ACCES"} : \/ r.op = "read" /\ r.arg = "readonly"
                          \/ r.op \in PathOps /\ r.name \in Jailed}
  \cup {e \in {"NOMEM"} : r.op \in {"open", "opendir"} /\ Cardinality(DOMAIN table[p]) >= MaxFds}
  \cup {e \in {"BADF"} : r.op \in FdOps /\ ~open}
  \cup {e \in {"NOENT", "EXIST", "INVAL"} : r.op \in PathOps /\ e = PathError(r)}

(* It may succeed if nothing speaks against it.                            *)
Sound(p, r) ==
  /\ Errors(p, r) = {"IO"}
  /\ r.op \in PathOps => PathError(r) = "OK"

Call(p, r) ==
  /\ p \notin dead
  /\ call' = [call EXCEPT ![p] = [NoCall EXCEPT !.ph = "called", !.r = r]]
  /\ UNCHANGED <<host, table, nextFd, dead>>

Decide(p, code, fd, block) ==
  call' = [call EXCEPT ![p].ph = "decided", ![p].code = code, ![p].fd = fd, ![p].block = block]

Fail(p) ==
  /\ \E e \in Errors(p, call[p].r) : Decide(p, e, 0, Nothing)
  /\ UNCHANGED <<host, table, nextFd, dead>>

NewFile(p, o) ==
  /\ table' = [table EXCEPT ![p] = [fd \in DOMAIN @ \cup {nextFd[p]} |->
                                      IF fd = nextFd[p] THEN o ELSE @[fd]]]
  /\ nextFd' = [nextFd EXCEPT ![p] = @ + 1]
  /\ Decide(p, "OK", nextFd[p], Nothing)

Path(p) ==
  LET r == call[p].r IN
  \/ /\ r.op = "open" /\ host' = Opened(host, r.name, r.flags)
     /\ NewFile(p, OpenFile(host'.entry[r.name], r.flags.mode))
  \/ /\ r.op = "opendir" /\ NewFile(p, OpenDir(Listing(host, r.name)))
     /\ UNCHANGED host
  \/ /\ r.op = "mkdir" /\ host' = WithDir(host, r.name) /\ Decide(p, "OK", 0, Nothing)
     /\ UNCHANGED <<table, nextFd>>
  \/ /\ r.op = "unlink" /\ host' = Unlinked(host, r.name) /\ Decide(p, "OK", 0, Nothing)
     /\ UNCHANGED <<table, nextFd>>

Close(p) ==
  LET fd == call[p].r.fd IN
  /\ call[p].r.op = "close"
  /\ table' = [table EXCEPT ![p] = [x \in DOMAIN @ \ {fd} |-> @[x]]]
  /\ Decide(p, "OK", 0, Nothing)
  /\ UNCHANGED <<host, nextFd>>

AllRead(o) ==
  IF IsListing(o) THEN o.pos > 0 ELSE IsFile(o) /\ AtEnd(host, o.file, o.pos)
NextBlock(o) == IF IsListing(o) THEN o.names ELSE {BlockAt(host, o.file, o.pos)}

Read(p) ==
  LET fd == call[p].r.fd
      o == table[p][fd]
  IN
  /\ call[p].r.op = "read" /\ (IsListing(o) \/ IsFile(o)) /\ Readable(o.mode)
  /\ \/ AllRead(o) /\ Decide(p, "OK", 0, Nothing) /\ UNCHANGED table
     \/ /\ ~AllRead(o)
        /\ call' = [call EXCEPT ![p].ph = "taken", ![p].block = NextBlock(o)]
        /\ table' = [table EXCEPT ![p][fd].pos = @ + 1]
  /\ UNCHANGED <<host, nextFd>>

Land(p) ==
  /\ Decide(p, "OK", 0, call[p].block) \/ Decide(p, "IO", 0, Nothing)
  /\ UNCHANGED <<host, table, nextFd, dead>>

Write(p) ==
  LET fd == call[p].r.fd
      o == table[p][fd]
  IN
  /\ call[p].r.op = "write" /\ IsFile(o) /\ Writable(o.mode)
  /\ host' = Written(host, o.file, o.pos, p)
  /\ table' = [table EXCEPT ![p][fd].pos = @ + 1]
  /\ Decide(p, "OK", 0, Nothing)
  /\ UNCHANGED nextFd

Act(p) ==
  /\ Sound(p, call[p].r)
  /\ Path(p) \/ Close(p) \/ Read(p) \/ Write(p)
  /\ UNCHANGED dead

Return(p) ==
  /\ call' = [call EXCEPT ![p] = NoCall]
  /\ UNCHANGED <<host, table, nextFd, dead>>

(* The calls and the files of the programs P are gone.                     *)
Forget(P) ==
  /\ call' = [p \in Programs |-> IF p \in P THEN NoCall ELSE call[p]]
  /\ table' = [p \in Programs |-> IF p \in P THEN Empty ELSE table[p]]
  /\ nextFd' = [p \in Programs |-> IF p \in P THEN 0 ELSE nextFd[p]]
  /\ UNCHANGED host

(* A program ends, or gives up its files; or the call a program was killed *)
(* in comes to its end; or the processor of the programs P starts afresh.  *)
Die(p) ==
  /\ p \notin dead /\ dead' = dead \cup {p}
  /\ Forget({p}) \/ UNCHANGED <<host, table, nextFd, call>>
Leave(p) == Forget({p}) /\ UNCHANGED dead
Lose(P) == Forget(P) /\ UNCHANGED dead
Renew(P) == Forget(P) /\ dead' = dead \ P

Step(p) ==
  LET ph == call[p].ph IN
  \/ ph = "out" /\ (Leave(p) \/ \E r \in Requests : Call(p, r))
  \/ ph = "called" /\ (Fail(p) \/ Act(p))
  \/ ph = "taken" /\ Land(p)
  \/ ph = "decided" /\ Return(p)

Next ==
  \/ \E p \in Programs : Step(p) \/ Die(p)
  \/ \E P \in SUBSET dead : Lose(P) \/ Renew(P)

Spec == Init /\ [][Next]_vars
=============================================================================

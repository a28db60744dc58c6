----------------------------- MODULE RemoteCall -----------------------------
(***************************************************************************)
(* What an operation on an object or a task of another processor promises: *)
(* it takes effect at most once, at one moment between the call and the    *)
(* return, and returns the result of that moment.  A call whose processor, *)
(* or whose target's processor, is reset or ends may be lost; nothing else *)
(* loses one.                                                              *)
(***************************************************************************)
EXTENDS Naturals, Sequences

CONSTANTS
  Cpus, Tasks, Objects,
  Home,       \* the processor of every task and object
  Gone,       \* the result of a stale reference
  MaxOps      \* bound: operations in one behaviour

VARIABLES
  cell,       \* what each object holds, and whether each task has exited
  op,         \* the operations so far
  faulty      \* processors that have been reset or have ended

vars == <<cell, op, faulty>>

Alive == 0        \* the cell of a task that has not exited
Exited == 1       \* and of one that has
Done == 0         \* the result of an operation that returns no value

Reads == {"load", "fetch", "query"}
Writes == {"store", "put"}
Kinds == Reads \cup Writes \cup {"wait", "kill"}

Init ==
  /\ cell \in [Objects \cup Tasks -> {Gone, Alive}]
  /\ op = <<>>
  /\ faulty = {}

Open(n) == op[n].ph \in {"called", "decided"}
Touches(n, c) == c \in {Home[op[n].by], Home[op[n].at]}

Call(t, kind, x) ==
  /\ Home[x] # Home[t]
  /\ op' = Append(op, [by |-> t, kind |-> kind, at |-> x, ph |-> "called", res |-> Done])
  /\ UNCHANGED <<cell, faulty>>

(* The operations in D are decided, with results r.                        *)
Decide(D, r) ==
  op' = [n \in DOMAIN op |->
           IF n \in D THEN [op[n] EXCEPT !.ph = "decided", !.res = r[n]] ELSE op[n]]

Waiting(x) ==
  {n \in DOMAIN op : op[n].kind = "wait" /\ op[n].at = x /\ op[n].ph = "called"}

(* The exit of a task decides waits for it: those that have arrived.       *)
Exit(x, D) ==
  /\ cell[x] = Alive
  /\ cell' = [cell EXCEPT ![x] = Exited]
  /\ \E W \in SUBSET Waiting(x) : Decide(D \cup W, [n \in D \cup W |-> Done])

Act(n) ==
  LET x == op[n].at
      kind == op[n].kind
      result == IF cell[x] = Gone THEN Gone ELSE IF kind \in Reads THEN cell[x] ELSE Done
  IN
  /\ op[n].ph = "called"
  /\ \/ /\ kind = "kill" /\ Exit(x, {n})
     \/ /\ ~(kind \in {"kill", "wait"} /\ cell[x] = Alive)
        /\ Decide({n}, [m \in {n} |-> result])
        /\ cell' = IF kind \in Writes /\ cell[x] # Gone
                     THEN [cell EXCEPT ![x] = n] ELSE cell
  /\ UNCHANGED faulty

Return(n) ==
  /\ op[n].ph = "decided"
  /\ op' = [op EXCEPT ![n].ph = "returned"]
  /\ UNCHANGED <<cell, faulty>>

(* The home changes its own objects and tasks.                             *)
Local(x) ==
  /\ \/ /\ x \in Objects /\ cell[x] # Gone
        /\ \E v \in {0, Gone} : cell' = [cell EXCEPT ![x] = v]
        /\ UNCHANGED op
     \/ /\ x \in Tasks /\ cell[x] = Gone
        /\ cell' = [cell EXCEPT ![x] = Alive]
        /\ UNCHANGED op
     \/ x \in Tasks /\ Exit(x, {})
  /\ UNCHANGED faulty

(* Nobody will learn its result.                                           *)
Lost(n) == [op[n] EXCEPT !.ph = "lost", !.res = Done]

(* A processor ends or is reset: its cells start afresh.                   *)
Crash(c) ==
  /\ faulty' = faulty \cup {c}
  /\ DOMAIN cell' = DOMAIN cell /\ DOMAIN op' = DOMAIN op
  /\ \A x \in DOMAIN cell :
       IF Home[x] = c THEN cell'[x] \in {Gone, Alive, Exited} ELSE cell'[x] = cell[x]
  /\ \A n \in DOMAIN op :
       op'[n] = op[n] \/ (Open(n) /\ Touches(n, c) /\ op'[n] = Lost(n))

Lose(n) ==
  /\ Open(n) /\ \E c \in faulty : Touches(n, c)
  /\ op' = [op EXCEPT ![n] = Lost(n)]
  /\ UNCHANGED <<cell, faulty>>

Calls ==
  /\ Len(op) < MaxOps
  /\ \/ \E t \in Tasks, x \in Objects, k \in {"load", "fetch", "store", "put"} : Call(t, k, x)
     \/ \E t, x \in Tasks, k \in {"query", "wait", "kill"} : Call(t, k, x)

Next ==
  \/ Calls
  \/ \E n \in DOMAIN op : Act(n) \/ Return(n) \/ Lose(n)
  \/ \E x \in Objects \cup Tasks : Local(x)
  \/ \E c \in Cpus : Crash(c)

Spec == Init /\ [][Next]_vars
=============================================================================

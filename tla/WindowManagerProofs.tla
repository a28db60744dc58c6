------------------------ MODULE WindowManagerProofs ------------------------
(***************************************************************************)
(* Proofs about WindowManager for any programs, owners, crashes, number    *)
(* and size of windows, gestures and keys.  The invariant at the end has   *)
(* four parts, each inductive given the first two: the types; each program *)
(* has at most one request in the queue, the one it waits for; the stack   *)
(* lists the live windows and the focus is on top; and each program's      *)
(* claim to a window is honoured until the user closes one.                *)
(***************************************************************************)
EXTENDS WindowManager, Sequences, SequencesExt, SequenceTheorems,
        FunctionTheorems, FiniteSetTheorems, WellFoundedInduction, TLAPS

-----------------------------------------------------------------------------
(* The stack kept in step with the set of live windows: the list           *)
(* operations have their counterparts on the set.                          *)

(* q lists every member of S exactly once and nothing else.                *)
Lists(q, S) ==
  /\ q \in Seq(S)
  /\ \A i, j \in 1..Len(q) : q[i] = q[j] => i = j
  /\ \A x \in S : \E i \in 1..Len(q) : q[i] = x

(* A sequence whose elements are all in S is a sequence over S.            *)
LEMMA SeqOver ==
  ASSUME NEW S, NEW T, NEW s \in Seq(T), \A i \in 1..Len(s) : s[i] \in S
  PROVE  s \in Seq(S)
<1>1. Len(s) \in Nat /\ s \in [1..Len(s) -> T]
  BY LenProperties
<1>2. s \in [1..Len(s) -> S]
  BY <1>1
<1> QED BY <1>1, <1>2, SeqDef

(* A non-empty set of natural numbers has a least element.                 *)
LEMMA LeastNatural ==
  ASSUME NEW I \in SUBSET Nat, I # {}
  PROVE  \E m \in I : \A y \in I : m <= y
<1> DEFINE R == OpToRel(<, Nat)
<1>1. IsWellFoundedOn(R, Nat)
  BY NatLessThanWellFounded
<1>2. PICK m \in I : \A y \in I : ~(<<y, m>> \in R)
  BY <1>1, WFMin
<1>3. \A y \in I : ~(y < m)
  BY <1>2 DEF OpToRel
<1> QED BY <1>3

(* Deleting position k of a list.                                          *)
LEMMA RemoveAtProperties ==
  ASSUME NEW S, NEW s \in Seq(S), NEW k \in 1..Len(s)
  PROVE  /\ RemoveAt(s, k) \in Seq(S)
         /\ Len(RemoveAt(s, k)) = Len(s) - 1
         /\ \A j \in 1..(Len(s) - 1) :
              RemoveAt(s, k)[j] = IF j < k THEN s[j] ELSE s[j + 1]
<1> DEFINE a == SubSeq(s, 1, k - 1)
           b == SubSeq(s, k + 1, Len(s))
<1>1. Len(s) \in Nat /\ \A i \in 1..Len(s) : s[i] \in S
  BY ElementOfSeq
<1>2. /\ a \in Seq(S) /\ Len(a) = k - 1
      /\ \A j \in 1..(k - 1) : a[j] = s[j]
  BY <1>1, SubSeqProperties
<1>3. /\ b \in Seq(S) /\ Len(b) = Len(s) - k
      /\ \A j \in 1..(Len(s) - k) : b[j] = s[k + j]
  BY <1>1, SubSeqProperties
<1> HIDE DEF a, b
<1>4. /\ a \o b \in Seq(S) /\ Len(a \o b) = Len(s) - 1
      /\ \A j \in 1..(Len(s) - 1) :
           (a \o b)[j] = IF j <= k - 1 THEN a[j] ELSE b[j - (k - 1)]
  BY <1>1, <1>2, <1>3, ConcatProperties
<1>5. ASSUME NEW j \in 1..(Len(s) - 1)
      PROVE  (a \o b)[j] = IF j < k THEN s[j] ELSE s[j + 1]
  <2>1. CASE j < k
    BY <1>1, <1>2, <1>4, <2>1
  <2>2. CASE ~(j < k)
    <3>1. j - (k - 1) \in 1..(Len(s) - k) /\ k + (j - (k - 1)) = j + 1
      BY <1>1, <2>2
    <3> QED BY <1>1, <1>3, <1>4, <2>2, <3>1
  <2> QED BY <2>1, <2>2
<1> QED BY <1>4, <1>5 DEF RemoveAt, a, b

(* list.remove deletes one position, or nothing.                           *)
LEMMA RemoveFirstAt ==
  ASSUME NEW S, NEW q \in Seq(S), NEW x
  PROVE  \/ RemoveFirst(q, x) = q
         \/ \E k \in 1..Len(q) : RemoveFirst(q, x) = RemoveAt(q, k)
<1>1. CASE \E i \in 1..Len(q) : q[i] = x
  <2> DEFINE I == {i \in 1..Len(q) : q[i] = x}
             k == Min(I)
  <2>1. I # {} /\ I \in SUBSET Nat /\ \A i \in I : i \in 1..Len(q)
    BY <1>1
  <2>2. k \in 1..Len(q)
    BY <2>1, LeastNatural DEF Min
  <2>3. SelectInSeq(q, LAMBDA v : v = x) = k
    BY <2>1 DEF SelectInSeq
  <2>4. RemoveFirst(q, x) = RemoveAt(q, k)
    BY <1>1, <2>3 DEF RemoveFirst
  <2> QED BY <2>2, <2>4
<1> QED BY <1>1 DEF RemoveFirst

(* list.remove adds no element.                                            *)
LEMMA RemoveFirstType ==
  ASSUME NEW S, NEW q \in Seq(S), NEW x
  PROVE  RemoveFirst(q, x) \in Seq(S)
BY RemoveFirstAt, RemoveAtProperties

(* list.append of a new member.                                            *)
LEMMA ListsAppend ==
  ASSUME NEW q, NEW S, Lists(q, S), NEW x, x \notin S
  PROVE  Lists(Append(q, x), S \cup {x})
<1> DEFINE r == Append(q, x)
<1>1. /\ q \in Seq(S \cup {x}) /\ r \in Seq(S \cup {x}) /\ Len(r) = Len(q) + 1
      /\ Len(q) \in Nat
      /\ \A i \in 1..Len(r) : r[i] = IF i <= Len(q) THEN q[i] ELSE x
      /\ \A i \in 1..Len(q) : q[i] \in S
  BY DEF Lists
<1>2. \A i, j \in 1..Len(r) : r[i] = r[j] => i = j
  <2> SUFFICES ASSUME NEW i \in 1..Len(r), NEW j \in 1..Len(r), r[i] = r[j]
               PROVE  i = j
    OBVIOUS
  <2>1. CASE i <= Len(q) /\ j <= Len(q)
    <3>1. i \in 1..Len(q) /\ j \in 1..Len(q) /\ q[i] = q[j]
      BY <1>1, <2>1
    <3> QED BY <3>1 DEF Lists
  <2>2. CASE i > Len(q) /\ j > Len(q)
    BY <1>1, <2>2
  <2>3. CASE i <= Len(q) /\ j > Len(q)
    BY <1>1, <2>3
  <2>4. CASE i > Len(q) /\ j <= Len(q)
    BY <1>1, <2>4
  <2> QED BY <1>1, <2>1, <2>2, <2>3, <2>4
<1>3. \A y \in S \cup {x} : \E i \in 1..Len(r) : r[i] = y
  <2>1. r[Len(q) + 1] = x /\ Len(q) + 1 \in 1..Len(r)
    BY <1>1
  <2>2. ASSUME NEW y \in S PROVE \E i \in 1..Len(r) : r[i] = y
    <3>1. PICK k \in 1..Len(q) : q[k] = y
      BY DEF Lists
    <3>2. k \in 1..Len(r) /\ r[k] = y
      BY <1>1, <3>1
    <3> QED BY <3>2
  <2> QED BY <2>1, <2>2
<1> QED BY <1>1, <1>2, <1>3 DEF Lists

(* list.remove of a member.                                                *)
LEMMA ListsRemoveFirst ==
  ASSUME NEW q, NEW S, Lists(q, S), NEW x \in S
  PROVE  Lists(RemoveFirst(q, x), S \ {x})
<1> DEFINE r == RemoveFirst(q, x)
           n == Len(q) - 1
<1>1. PICK k \in 1..Len(q) : q[k] = x
  BY DEF Lists
<1>2. q \in Seq(S) /\ Len(q) \in Nat /\ k \in Nat /\ \A i \in 1..Len(q) : q[i] \in S
  BY <1>1 DEF Lists
<1>3. \A i \in 1..Len(q) : q[i] = x => i = k
  BY <1>1 DEF Lists
<1>4. SelectInSeq(q, LAMBDA v : v = x) = k
  <2> DEFINE I == {i \in 1..Len(q) : q[i] = x}
  <2>1. I = {k}
    BY <1>1, <1>3
  <2>2. Min(I) = k
    BY <1>2, <2>1 DEF Min
  <2> QED BY <2>1, <2>2 DEF SelectInSeq
<1>5. r = RemoveAt(q, k)
  BY <1>1, <1>4 DEF RemoveFirst
<1>6. /\ r \in Seq(S) /\ Len(r) = n
      /\ \A j \in 1..n : r[j] = IF j < k THEN q[j] ELSE q[j + 1]
  BY <1>2, <1>5, RemoveAtProperties
<1> HIDE DEF r
<1>7. \A i \in 1..n : r[i] \in S \ {x}
  BY <1>2, <1>3, <1>6
<1>8. r \in Seq(S \ {x})
  BY <1>6, <1>7, SeqOver
<1>9. \A i, j \in 1..n : r[i] = r[j] => i = j
  <2> SUFFICES ASSUME NEW i \in 1..n, NEW j \in 1..n, r[i] = r[j] PROVE i = j
    OBVIOUS
  <2> DEFINE a(z) == IF z < k THEN z ELSE z + 1
  <2>1. a(i) \in 1..Len(q) /\ a(j) \in 1..Len(q) /\ q[a(i)] = q[a(j)]
    BY <1>2, <1>6
  <2>2. a(i) = a(j)
    BY <2>1 DEF Lists
  <2> QED BY <1>2, <2>2
<1>10. \A y \in S \ {x} : \E i \in 1..n : r[i] = y
  <2> SUFFICES ASSUME NEW y \in S, y # x PROVE \E i \in 1..n : r[i] = y
    OBVIOUS
  <2>1. PICK i \in 1..Len(q) : q[i] = y
    BY DEF Lists
  <2>2. CASE i < k
    BY <1>2, <1>6, <2>1, <2>2
  <2>3. CASE ~(i < k)
    <3>1. i - 1 \in 1..n /\ r[i - 1] = y
      BY <1>1, <1>2, <1>6, <2>1, <2>3
    <3> QED BY <3>1
  <2> QED BY <2>2, <2>3
<1>11. Lists(r, S \ {x})
  BY <1>6, <1>8, <1>9, <1>10 DEF Lists
<1> QED BY <1>11 DEF r

-----------------------------------------------------------------------------
(* The values that the steps compute.                                      *)

LEMMA WidsProperties ==
  /\ MaxWindows \in Nat \ {0} /\ Wids = 1 .. MaxWindows
  /\ \A w \in Wids : w \in Nat /\ w # 0 /\ w \in 0 .. MaxWindows
  /\ Live \subseteq Wids
BY WindowsAssumption DEF Wids, Live

(* The lowest free wid.                                                    *)
LEMMA LowestFree ==
  ASSUME Wids \ Live # {}
  PROVE  (CHOOSE v \in Wids \ Live : \A u \in Wids \ Live : v <= u) \in Wids \ Live
<1>1. Wids \ Live \in SUBSET Nat
  BY WidsProperties
<1>2. \E v \in Wids \ Live : \A u \in Wids \ Live : v <= u
  BY <1>1, LeastNatural
<1> QED BY <1>2

LEMMA TopOfType ==
  ASSUME NEW S, NEW z \in Seq(S)
  PROVE  /\ z = <<>> => TopOf(z) = 0
         /\ z # <<>> => TopOf(z) \in S /\ TopOf(z) = z[Len(z)] /\ Len(z) \in 1 .. Len(z)
<1>1. CASE z = <<>>
  BY <1>1 DEF TopOf
<1>2. CASE z # <<>>
  <2>1. Len(z) \in 1 .. Len(z)
    BY <1>2, EmptySeq, LenProperties
  <2> QED BY <1>2, <2>1, ElementOfSeq DEF TopOf, Last
<1> QED BY <1>1, <1>2

(* A window hit by a click is in the stack.                                *)
LEMMA TopmostInStack ==
  ASSUME NEW S, window_z \in Seq(S), NEW x, TopmostAt(x) # 0
  PROVE  TopmostAt(x) \in S /\ \E i \in 1 .. Len(window_z) : TopmostAt(x) = window_z[i]
<1> DEFINE hit == {i \in 1 .. Len(window_z) : Covers(window_z[i], x)}
           k == CHOOSE i \in hit : \A j \in hit : j <= i
<1>1. hit # {} /\ TopmostAt(x) = window_z[k]
  BY DEF TopmostAt
<1>2. Len(window_z) \in Nat /\ \A i \in hit : i \in 1 .. Len(window_z)
  BY LenProperties
<1> HIDE DEF hit
<1>3. \E i \in hit : \A j \in hit : j <= i
  <2> DEFINE back == {Len(window_z) - i : i \in hit}
  <2>1. back \in SUBSET Nat /\ back # {}
    BY <1>1, <1>2
  <2>2. PICK m \in back : \A y \in back : m <= y
    BY <2>1, LeastNatural
  <2>3. PICK i \in hit : m = Len(window_z) - i
    BY <2>2
  <2>4. ASSUME NEW j \in hit PROVE j <= i
    <3>1. m <= Len(window_z) - j
      BY <2>2
    <3>2. i \in 1 .. Len(window_z) /\ j \in 1 .. Len(window_z)
      BY <1>2
    <3> QED BY <1>2, <2>3, <3>1, <3>2
  <2> QED BY <2>4
<1>4. k \in hit
  BY <1>3
<1> HIDE DEF k
<1>5. k \in 1 .. Len(window_z)
  BY <1>2, <1>4
<1> QED BY <1>1, <1>5, ElementOfSeq

(* Windows stay on the screen.                                             *)
LEMMA ClampedType ==
  ASSUME NEW v \in Int
  PROVE  Clamped(v) \in Places
BY ScreenAssumption DEF Clamped, Places

LEMMA DefaultPosType ==
  ASSUME NEW n \in Nat
  PROVE  DefaultPos(n) \in Places
<1>1. Slack \in Nat /\ Slack + 1 \in Nat \ {0} /\ Origin \in Nat /\ Cascade \in Nat
  BY ScreenAssumption DEF Slack
<1>2. n * Cascade \in Nat
  BY <1>1
<1> DEFINE m == n * Cascade
           d == Slack + 1
<1>3. m \in Nat /\ d \in Nat \ {0}
  BY <1>1, <1>2
<1> HIDE DEF m, d
<1>4. m % d \in 0 .. (d - 1)
  BY <1>3
<1>5. (n * Cascade) % (Slack + 1) \in 0 .. Slack
  BY <1>1, <1>4 DEF m, d
<1> DEFINE r == (n * Cascade) % (Slack + 1)
<1>6. r \in 0 .. Slack /\ DefaultPos(n) = Origin + r
  BY <1>5 DEF DefaultPos
<1> HIDE DEF r
<1> QED BY <1>6, ScreenAssumption DEF Slack, Places

-----------------------------------------------------------------------------
(* Types.                                                                  *)

AllObjects == {Objects[i] : i \in 1 .. Len(Objects)}

(* What the table and the pointer state are made of.                       *)
TableTypes ==
  /\ window_type \in [Wids -> BOOLEAN]
  /\ objects \in [Wids -> SUBSET AllObjects]
  /\ window_z \in Seq(Wids) /\ focused_wid \in 0 .. MaxWindows
  /\ kbd_sub \in [Wids -> Programs \cup {None}] /\ ptr_sub \in [Wids -> Programs \cup {None}]
WindowTypes == window_pos \in [Wids -> Places] /\ owner \in [Wids -> Programs \cup {None}]
ReplyTypes == reply \in [Programs -> Answer \cup {None}]

LEMMA TableOfTypes == TypeOK => TableTypes /\ WindowTypes /\ ReplyTypes
BY DEF TypeOK, TableTypes, WindowTypes, ReplyTypes, AllObjects

LEMMA TopOfWids ==
  ASSUME NEW z \in Seq(Wids)
  PROVE  TopOf(z) \in 0 .. MaxWindows
BY TopOfType, WidsProperties

LEMMA TeardownTypes ==
  ASSUME TableTypes, NEW w \in Wids, Teardown(w)
  PROVE  TableTypes'
<1>1. window_z' \in Seq(Wids)
  BY RemoveFirstType DEF Teardown, TableTypes
<1>2. focused_wid' \in 0 .. MaxWindows
  BY <1>1, TopOfWids DEF Teardown, TableTypes, Refocused
<1>3. /\ window_type' \in [Wids -> BOOLEAN]
      /\ objects' \in [Wids -> SUBSET AllObjects]
  BY DEF Teardown, TableTypes
<1>4. kbd_sub' \in [Wids -> Programs \cup {None}] /\ ptr_sub' \in [Wids -> Programs \cup {None}]
  BY DEF Teardown, TableTypes
<1> QED BY <1>1, <1>2, <1>3, <1>4 DEF TableTypes

LEMMA RaiseTypes ==
  ASSUME TableTypes, NEW w \in Wids, Raise(w), UNCHANGED <<window_type, objects, kbd_sub, ptr_sub>>
  PROVE  TableTypes'
<1>1. window_z' \in Seq(Wids)
  BY RemoveFirstType, AppendProperties DEF Raise, TableTypes
<1>2. focused_wid' \in 0 .. MaxWindows
  BY WidsProperties DEF Raise
<1> QED BY <1>1, <1>2 DEF TableTypes

(* An answer is one of the four, about a wid or none.                      *)
LEMMA TellTypes ==
  ASSUME ReplyTypes, NEW p \in Programs, NEW w \in 0 .. MaxWindows,
         NEW status \in {"ok", "noent", "nospc", "io"}, Tell(p, status, w)
  PROVE  ReplyTypes'
<1>1. [status |-> status, wid |-> w] \in Answer
  BY DEF Answer
<1> QED BY <1>1 DEF Tell, ReplyTypes

(* A free wid is opened for a program, with the window on top.             *)
Lowest == CHOOSE v \in Wids \ Live : \A u \in Wids \ Live : v <= u

LEMMA FreedProperties ==
  ASSUME NEW n \in 1 .. Len(Objects)
  PROVE  {Objects[i] : i \in 1 .. (n - 1)} \ FreedOnFailure(n) = {}
BY DEF FreedOnFailure

OpenedFor(p) ==
  /\ owner' = [owner EXCEPT ![Lowest] = p]
  /\ objects' = [objects EXCEPT ![Lowest] = AllObjects]
  /\ window_pos' = [window_pos EXCEPT ![Lowest] = DefaultPos(Len(window_z))]
  /\ window_z' = Append(window_z, Lowest)
  /\ focused_wid' = Lowest
  /\ window_type' = [window_type EXCEPT ![Lowest] = TRUE]
  /\ Tell(p, "ok", Lowest)
  /\ UNCHANGED <<kbd_sub, ptr_sub>>
FailedFor(p) ==
  /\ objects' = [objects EXCEPT ![Lowest] = {}]
  /\ owner' = [owner EXCEPT ![Lowest] = p]
  /\ Tell(p, "io", 0)
  /\ UNCHANGED <<window_type, window_z, focused_wid, kbd_sub, ptr_sub, window_pos>>

LEMMA NewWindowOutcome ==
  ASSUME NEW p, HandleNewWindow(p)
  PROVE  \/ Tell(p, "nospc", 0) /\ UNCHANGED <<tableVars, windowVars>>
         \/ Lowest \in Wids \ Live /\ (OpenedFor(p) \/ FailedFor(p))
<1>1. CASE Wids \ Live = {}
  BY <1>1 DEF HandleNewWindow
<1>2. CASE Wids \ Live # {}
  <2>1. Lowest \in Wids \ Live
    BY <1>2, LowestFree DEF Lowest
  <2>2. OpenedFor(p) \/ FailedFor(p)
    BY <1>2, FreedProperties DEF HandleNewWindow, OpenedFor, FailedFor, Lowest, AllObjects
  <2> QED BY <2>1, <2>2
<1> QED BY <1>1, <1>2

LEMMA NewWindowTypes ==
  ASSUME TableTypes, WindowTypes, ReplyTypes, NEW p \in Programs, HandleNewWindow(p)
  PROVE  TableTypes' /\ WindowTypes' /\ ReplyTypes'
<1>1. 0 \in 0 .. MaxWindows
  BY WidsProperties
<1>2. CASE Tell(p, "nospc", 0) /\ UNCHANGED <<tableVars, windowVars>>
  BY <1>1, <1>2, TellTypes DEF TableTypes, WindowTypes, tableVars, windowVars
<1>3. ASSUME Lowest \in Wids \ Live, OpenedFor(p)
      PROVE  TableTypes' /\ WindowTypes' /\ ReplyTypes'
  <2>1. Lowest \in Wids /\ Lowest \in 0 .. MaxWindows
    BY <1>3, WidsProperties
  <2>2. ReplyTypes'
    BY <1>3, <2>1, TellTypes DEF OpenedFor
  <2>3. window_z \in Seq(Wids) /\ window_z' = Append(window_z, Lowest)
    BY <1>3 DEF OpenedFor, TableTypes
  <2>4. window_z' \in Seq(Wids) /\ Len(window_z) \in Nat
    BY <2>1, <2>3, AppendProperties, LenProperties
  <2>5. DefaultPos(Len(window_z)) \in Places
    BY <2>4, DefaultPosType
  <2>6. TableTypes'
    BY <1>3, <2>1, <2>4 DEF OpenedFor, TableTypes
  <2>7. WindowTypes'
    BY <1>3, <2>1, <2>5 DEF OpenedFor, WindowTypes
  <2> QED BY <2>2, <2>6, <2>7
<1>4. ASSUME Lowest \in Wids \ Live, FailedFor(p)
      PROVE  TableTypes' /\ WindowTypes' /\ ReplyTypes'
  <2>1. ReplyTypes'
    BY <1>1, <1>4, TellTypes DEF FailedFor
  <2>2. TableTypes'
    BY <1>4 DEF FailedFor, TableTypes
  <2>3. WindowTypes'
    BY <1>4 DEF FailedFor, WindowTypes
  <2> QED BY <2>1, <2>2, <2>3
<1> QED BY <1>2, <1>3, <1>4, NewWindowOutcome

(* The rest of the types: queues and programs, then the mouse.             *)
RestTypes ==
  /\ pc \in {"wait", "scan", "ptr_subs", "ptr_events", "kbd_subs",
             "kbd_events", "spawning", "ended"}
  /\ requests \in Seq(Request) /\ kbd_svc \in Seq(KbdMessage)
  /\ ptr_svc \in Seq(Programs \cup {None})
  /\ ptr_events \in Seq(Event) /\ kbd_events \in Seq(Key)
  /\ client \in [Programs -> {"off", "running", "pointing", "leaving",
                              "exited", "gone"} \cup Waiting]
  /\ held \in [Programs -> 0 .. MaxWindows]
  /\ left_down \in BOOLEAN /\ inputs \in Nat
MouseTypes ==
  /\ drag \in [active : BOOLEAN, wid : 0 .. MaxWindows, grab : Int, outline : Places]
  /\ (drag.active => drag.wid # 0)
  /\ sb \subseteq {"arrow", "elevator", "anchor"}
  /\ menu \in [active : BOOLEAN, pinned : BOOLEAN, drag : BOOLEAN]
  /\ pending_xy \in Point \cup {None} /\ user_closed \in BOOLEAN

LEMMA TypeParts ==
  TypeOK <=> TableTypes /\ WindowTypes /\ ReplyTypes /\ RestTypes /\ MouseTypes
BY DEF TypeOK, TableTypes, WindowTypes, ReplyTypes, RestTypes, MouseTypes, AllObjects

LEMMA TypePartsNext ==
  TypeOK' <=> TableTypes' /\ WindowTypes' /\ ReplyTypes' /\ RestTypes' /\ MouseTypes'
BY DEF TypeOK, TableTypes, WindowTypes, ReplyTypes, RestTypes, MouseTypes, AllObjects

LEMMA HeadTailType ==
  ASSUME NEW S, NEW q \in Seq(S), q # <<>>
  PROVE  Head(q) \in S /\ Tail(q) \in Seq(S)
BY HeadTailProperties

LEMMA InitTypes == Init => TypeOK
<1> SUFFICES ASSUME Init PROVE TypeOK
  OBVIOUS
<1>1. 0 \in Places
  BY ScreenAssumption DEF Places
<1>2. 0 \in 0 .. MaxWindows
  BY WidsProperties
<1> DEFINE Nil == <<>>
<1>0. \A S : Nil \in Seq(S)
  BY EmptySeq
<1> HIDE DEF Nil
<1>3. TableTypes /\ WindowTypes /\ ReplyTypes
  <2>1. window_z = Nil
    BY DEF Init, Nil
  <2> QED BY <1>0, <1>1, <1>2, <2>1 DEF Init, TableTypes, WindowTypes, ReplyTypes
<1>4. RestTypes
  <2>1. /\ requests = Nil /\ kbd_svc = Nil /\ ptr_svc = Nil
        /\ ptr_events = Nil /\ kbd_events = Nil
    BY DEF Init, Nil
  <2> QED BY <1>0, <1>2, <2>1 DEF Init, RestTypes
<1>5. MouseTypes
  <2>1. drag = NoDrag /\ sb = {} /\ menu = NoMenu /\ pending_xy = None /\ user_closed = FALSE
    BY DEF Init
  <2>2. NoDrag \in [active : BOOLEAN, wid : 0 .. MaxWindows, grab : Int, outline : Places]
    BY <1>1, <1>2 DEF NoDrag
  <2>3. NoMenu \in [active : BOOLEAN, pinned : BOOLEAN, drag : BOOLEAN]
    BY DEF NoMenu
  <2> QED BY <2>1, <2>2, <2>3 DEF MouseTypes, NoDrag
<1> QED BY <1>3, <1>4, <1>5, TypeParts

(* Messages of a program.                                                  *)
LEMMA SendTypes ==
  ASSUME RestTypes, NEW p \in Programs, NEW op \in Ops, NEW w \in 0 .. MaxWindows,
         Send(p, op, w)
  PROVE  requests' \in Seq(Request)
BY AppendProperties DEF Send, RestTypes, Request

LEMMA ProgramTypes ==
  ASSUME TypeOK, NEW p \in Programs, Program(p)
  PROVE  TypeOK'
<1>1. TableTypes /\ WindowTypes /\ ReplyTypes /\ RestTypes /\ MouseTypes
  BY TypeParts
<1> USE DEF Waiting
<1>2. TableTypes' /\ WindowTypes' /\ MouseTypes'
  <2>1. ManagerIdles /\ UNCHANGED objects
    BY DEF Program, WmNewWindow, WmAnswer, PointerSubscribe, TermShutdown, WmDestroyWindow,
           Crash, Reap, ManagerIdles
  <2> QED BY <1>1, <2>1 DEF ManagerIdles, TableTypes, WindowTypes, MouseTypes, windowVars,
                            mouseVars
<1>3. ReplyTypes'
  BY <1>1 DEF Program, WmNewWindow, WmAnswer, PointerSubscribe, TermShutdown,
              WmDestroyWindow, Crash, Reap, ReplyTypes
<1>4. held[p] \in 0 .. MaxWindows /\ 0 \in 0 .. MaxWindows
  BY <1>1, WidsProperties DEF RestTypes
<1>5. [r4 |-> 0, o2 |-> p] \in KbdMessage /\ [r4 |-> 1, o2 |-> p] \in KbdMessage
  BY DEF KbdMessage
<1>6. ASSUME WmNewWindow(p) PROVE RestTypes'
  <2>1. requests' \in Seq(Request)
    BY <1>1, <1>4, <1>6, SendTypes DEF WmNewWindow, Ops
  <2> QED BY <1>1, <1>6, <2>1 DEF WmNewWindow, ManagerIdles, RestTypes, userVars
<1>7. ASSUME WmAnswer(p) PROVE RestTypes'
  <2>1. reply[p] \in Answer /\ reply[p].wid \in 0 .. MaxWindows
    BY <1>1, <1>7 DEF WmAnswer, ReplyTypes, Answer
  <2>2. requests' \in Seq(Request)
    <3>1. CASE UNCHANGED requests
      BY <1>1, <3>1 DEF RestTypes
    <3>2. CASE Send(p, "bind", reply[p].wid)
      BY <1>1, <2>1, <3>2, SendTypes DEF Ops
    <3>3. CASE Send(p, "destroy", held[p])
      BY <1>1, <1>4, <3>3, SendTypes DEF Ops
    <3> QED BY <1>7, <3>1, <3>2, <3>3 DEF WmAnswer
  <2>3. kbd_svc' \in Seq(KbdMessage)
    <3>1. CASE kbd_svc' = Append(kbd_svc, [r4 |-> 0, o2 |-> p])
      BY <1>1, <1>5, <3>1, AppendProperties DEF RestTypes
    <3> QED BY <1>1, <1>7, <3>1 DEF WmAnswer, RestTypes
  <2>4. held' \in [Programs -> 0 .. MaxWindows]
    BY <1>1, <1>7, <2>1 DEF WmAnswer, RestTypes
  <2>5. /\ client' \in [Programs -> {"off", "running", "pointing", "leaving",
                                     "exited", "gone"} \cup Waiting]
        /\ UNCHANGED <<pc, ptr_svc, ptr_events, kbd_events, left_down, inputs>>
    BY <1>1, <1>7 DEF WmAnswer, RestTypes, ManagerIdles, userVars
  <2>6. RestTypes'
    BY <1>1, <2>2, <2>3, <2>4, <2>5 DEF RestTypes
  <2> QED BY <2>6
<1>8. ASSUME PointerSubscribe(p) PROVE RestTypes'
  <2>1. ptr_svc' \in Seq(Programs \cup {None})
    BY <1>1, <1>8, AppendProperties DEF PointerSubscribe, RestTypes
  <2> QED BY <1>1, <1>8, <2>1 DEF PointerSubscribe, ManagerIdles, RestTypes, userVars
<1>9. ASSUME TermShutdown(p) PROVE RestTypes'
  <2>1. ptr_svc' \in Seq(Programs \cup {None}) /\ kbd_svc' \in Seq(KbdMessage)
    <3>1. ptr_svc' = ptr_svc \/ ptr_svc' = Append(ptr_svc, None)
      BY <1>9 DEF TermShutdown
    <3>2. None \in Programs \cup {None} /\ ptr_svc \in Seq(Programs \cup {None})
      BY <1>1 DEF RestTypes
    <3>3. kbd_svc' = Append(kbd_svc, [r4 |-> 1, o2 |-> p])
      BY <1>9 DEF TermShutdown
    <3>4. ptr_svc' \in Seq(Programs \cup {None})
      BY <3>1, <3>2, AppendProperties
    <3>5. kbd_svc' \in Seq(KbdMessage)
      BY <1>1, <1>5, <3>3, AppendProperties DEF RestTypes
    <3> QED BY <3>4, <3>5
  <2> QED BY <1>1, <1>9, <2>1 DEF TermShutdown, ManagerIdles, RestTypes, userVars
<1>10. ASSUME WmDestroyWindow(p) PROVE RestTypes'
  <2>1. requests' \in Seq(Request)
    BY <1>1, <1>4, <1>10, SendTypes DEF WmDestroyWindow, Ops
  <2> QED BY <1>1, <1>10, <2>1 DEF WmDestroyWindow, ManagerIdles, RestTypes, userVars
<1>11. ASSUME Crash(p) \/ Reap(p) PROVE RestTypes'
  BY <1>1, <1>11 DEF Crash, Reap, ManagerIdles, RestTypes, userVars
<1>12. RestTypes'
  BY <1>6, <1>7, <1>8, <1>9, <1>10, <1>11 DEF Program
<1> QED BY <1>2, <1>3, <1>12, TypePartsNext

LEMMA UserTypes ==
  ASSUME TypeOK, User
  PROVE  TypeOK'
<1>1. TableTypes /\ WindowTypes /\ ReplyTypes /\ RestTypes /\ MouseTypes
  BY TypeParts
<1>2. Started + 1 \in 1 .. (Cardinality(Programs) + 1)
  <2>1. {p \in Programs : client[p] # "off"} \in SUBSET Programs /\ IsFiniteSet(Programs)
    BY ProgramsAssumption
  <2>2. Started <= Cardinality(Programs) /\ Started \in Nat /\ Cardinality(Programs) \in Nat
    BY <2>1, FS_Subset, FS_CardinalityType DEF Started
  <2> QED BY <2>2
<1>3. Gestures[Started + 1] \subseteq Event /\ Keys[Started + 1] \subseteq Key
  BY <1>2, ScreenAssumption
<1>4. \A S : \A q \in Seq(S), x \in S : Sunk(q, x) \in Seq(S)
  BY AppendProperties DEF Sunk
<1>5. ASSUME NEW k \in Key, Type(k) PROVE TypeOK'
  <2>1. kbd_events' \in Seq(Key)
    BY <1>1, <1>4, <1>5 DEF Type, RestTypes
  <2> QED BY <1>1, <1>5, <2>1, TypePartsNext
          DEF Type, RestTypes, TableTypes, WindowTypes, ReplyTypes, MouseTypes, tableVars,
              windowVars, mouseVars, programVars
<1>6. ASSUME NEW e \in Event, Pointer(e) PROVE TypeOK'
  <2>1. ptr_events' \in Seq(Event)
    BY <1>1, <1>4, <1>6 DEF Pointer, RestTypes
  <2>2. left_down' \in BOOLEAN
    BY <1>1, <1>6 DEF Pointer, RestTypes
  <2> QED BY <1>1, <1>6, <2>1, <2>2, TypePartsNext
          DEF Pointer, RestTypes, TableTypes, WindowTypes, ReplyTypes, MouseTypes, tableVars,
              windowVars, mouseVars, programVars
<1> QED BY <1>3, <1>5, <1>6 DEF User

-----------------------------------------------------------------------------
(* Calls.  A request in the queue is the one its sender waits for, and     *)
(* each has at most one there.                                             *)

Pending(r) ==
  /\ reply[r.from] = None
  /\ \/ client[r.from] = "opening" /\ r.op = "new"
     \/ client[r.from] = "binding" /\ r.op = "bind" /\ r.wid = held[r.from]
     \/ client[r.from] = "closing" /\ r.op = "destroy" /\ r.wid = held[r.from]

OneCall ==
  \A i \in 1 .. Len(requests) :
    /\ Pending(requests[i])
    /\ \A j \in 1 .. Len(requests) : requests[i].from = requests[j].from => i = j

(* A program knows the wid of its window, an answer what it answers.       *)
Opened(p) == client[p] = "opening" /\ reply[p] # None /\ reply[p].status = "ok"
Known(p) ==
  /\ client[p] \in Holding \cup {"closing"} => held[p] \in Wids
  /\ reply[p] # None => client[p] \in Waiting
  /\ Opened(p) => reply[p].wid \in Wids
Calls == OneCall /\ \A p \in Programs : Known(p)

(* No request of p is in the queue.                                        *)
Quiet(p) == \A i \in 1 .. Len(requests) : requests[i].from # p

LEMMA QuietUnless ==
  ASSUME Calls, NEW p, client[p] \notin Waiting \/ reply[p] # None
  PROVE  Quiet(p)
BY DEF Calls, OneCall, Pending, Quiet, Waiting

LEMMA CallsInit == Init => Calls
<1> SUFFICES ASSUME Init PROVE Calls
  OBVIOUS
<1>1. OneCall
  <2>1. Len(requests) = 0
    BY DEF Init
  <2> QED BY <2>1 DEF OneCall
<1>2. \A p \in Programs : Known(p)
  BY DEF Init, Known, Opened, Holding
<1> QED BY <1>1, <1>2 DEF Calls

Unmoved(q) == client'[q] = client[q] /\ held'[q] = held[q] /\ reply'[q] = reply[q]

(* What the queue holds after the program p has moved on, with or without  *)
(* a request.                                                              *)
LEMMA OneCallSame ==
  ASSUME RestTypes, Calls, NEW p, Quiet(p), requests' = requests,
         \A q \in Programs \ {p} : Unmoved(q)
  PROVE  OneCall'
<1>1. \A i \in 1 .. Len(requests) : requests[i].from \in Programs \ {p}
  <2>1. \A i \in 1 .. Len(requests) : requests[i] \in Request
    BY ElementOfSeq DEF RestTypes
  <2> QED BY <2>1 DEF Quiet, Request
<1> QED BY <1>1 DEF Calls, OneCall, Pending, Unmoved

LEMMA OneCallSend ==
  ASSUME RestTypes, Calls, NEW p \in Programs, Quiet(p), NEW op \in Ops,
         NEW w \in 0 .. MaxWindows, Send(p, op, w),
         Pending([op |-> op, from |-> p, wid |-> w])',
         \A q \in Programs \ {p} : Unmoved(q)
  PROVE  OneCall'
<1> DEFINE r == [op |-> op, from |-> p, wid |-> w]
<1>1. requests \in Seq(Request) /\ r \in Request /\ r.from = p /\ requests' = Append(requests, r)
  BY DEF RestTypes, Request, Send
<1>2. Pending(r)'
  OBVIOUS
<1> HIDE DEF r
<1>3. /\ Len(requests) \in Nat /\ Len(requests') = Len(requests) + 1
      /\ \A i \in 1 .. Len(requests) : requests'[i] = requests[i]
      /\ requests'[Len(requests) + 1] = r
  BY <1>1, AppendProperties, LenProperties
<1>4. ASSUME NEW i \in 1 .. Len(requests)
      PROVE  Pending(requests[i])' /\ requests'[i].from # p
  <2>1. requests[i] \in Request /\ requests[i].from # p /\ Pending(requests[i])
    BY <1>1, ElementOfSeq DEF Quiet, Calls, OneCall
  <2>2. Unmoved(requests[i].from)
    BY <2>1 DEF Request
  <2>3. requests'[i] = requests[i]
    BY <1>3
  <2> QED BY <2>1, <2>2, <2>3 DEF Pending, Unmoved
<1>5. ASSUME NEW i \in 1 .. Len(requests'), NEW j \in 1 .. Len(requests'),
             requests'[i].from = requests'[j].from
      PROVE  i = j
  <2>1. CASE i \in 1 .. Len(requests) /\ j \in 1 .. Len(requests)
    BY <1>3, <1>5, <2>1 DEF Calls, OneCall
  <2>2. CASE i \in 1 .. Len(requests) /\ j = Len(requests) + 1
    BY <1>1, <1>3, <1>4, <1>5, <2>2
  <2>3. CASE j \in 1 .. Len(requests) /\ i = Len(requests) + 1
    BY <1>1, <1>3, <1>4, <1>5, <2>3
  <2> QED BY <1>3, <2>1, <2>2, <2>3
<1>6. ASSUME NEW i \in 1 .. Len(requests') PROVE Pending(requests[i])'
  <2>1. CASE i \in 1 .. Len(requests)
    BY <1>4, <2>1
  <2>2. CASE i = Len(requests) + 1
    BY <1>2, <1>3, <2>2 DEF Pending
  <2> QED BY <1>3, <2>1, <2>2
<1> QED BY <1>5, <1>6 DEF OneCall

LEMMA CallsSame ==
  ASSUME Calls, UNCHANGED <<requests, client, held, reply>>
  PROVE  Calls'
BY DEF Calls, OneCall, Pending, Known, Opened

LEMMA ProgramCalls ==
  ASSUME TypeOK, Calls, NEW p \in Programs, Program(p)
  PROVE  Calls'
<1>1. ReplyTypes /\ RestTypes
  BY TypeParts
<1> USE DEF Waiting, Holding
<1>2. \A q \in Programs \ {p} : Unmoved(q)
  BY <1>1 DEF Unmoved, Program, WmNewWindow, WmAnswer, PointerSubscribe, TermShutdown,
              WmDestroyWindow, Crash, Reap, RestTypes, ReplyTypes
<1>3. Quiet(p)
  BY QuietUnless DEF Program, WmNewWindow, WmAnswer, PointerSubscribe, TermShutdown,
                     WmDestroyWindow, Crash, Reap, Open
<1>4. \A q \in Programs \ {p} : Known(q)'
  BY <1>2 DEF Calls, Known, Opened, Unmoved
<1>5. OneCall' /\ Known(p)'
  <2>1. Known(p) /\ held[p] \in 0 .. MaxWindows /\ 0 \in 0 .. MaxWindows
    BY <1>1, WidsProperties DEF Calls, RestTypes
  <2>2. ASSUME requests' = requests PROVE OneCall'
    BY <1>1, <1>2, <1>3, <2>2, OneCallSame
  <2>3. CASE WmNewWindow(p)
    <3>1. /\ client'[p] = "opening" /\ reply'[p] = reply[p] /\ held'[p] = held[p]
          /\ Send(p, "new", 0)
      BY <1>1, <2>3 DEF WmNewWindow, RestTypes
    <3>2. reply[p] = None
      BY <2>1, <2>3 DEF WmNewWindow, Known
    <3>3. Pending([op |-> "new", from |-> p, wid |-> 0])'
      BY <3>1, <3>2 DEF Pending
    <3> QED BY <1>1, <1>2, <1>3, <2>1, <3>1, <3>2, <3>3, OneCallSend DEF Ops, Known, Opened
  <2>4. CASE WmAnswer(p)
    <3>1. reply'[p] = None
      BY <1>1, <2>4 DEF WmAnswer, ReplyTypes
    <3>2. reply[p] \in Answer /\ reply[p].wid \in 0 .. MaxWindows
      BY <1>1, <2>4 DEF WmAnswer, ReplyTypes, Answer
    <3>3. ASSUME client[p] = "opening", reply[p].status = "ok", held'[p] = reply[p].wid,
                 client'[p] = "binding", Send(p, "bind", reply[p].wid)
          PROVE  OneCall' /\ Known(p)'
      <4> PICK w \in 0 .. MaxWindows : w = reply[p].wid
        BY <3>2
      <4>1. Pending([op |-> "bind", from |-> p, wid |-> w])'
        BY <3>1, <3>3 DEF Pending
      <4>2. OneCall'
        BY <1>1, <1>2, <1>3, <3>3, <4>1, OneCallSend DEF Ops
      <4>3. held'[p] \in Wids
        BY <2>1, <2>4, <3>3 DEF Known, Opened, WmAnswer
      <4> QED BY <3>1, <3>3, <4>2, <4>3 DEF Known, Opened
    <3>4. ASSUME client[p] = "binding", client'[p] = "running", requests' = requests,
                 held'[p] = held[p]
          PROVE  OneCall' /\ Known(p)'
      BY <2>1, <2>2, <3>1, <3>4 DEF Known, Opened
    <3>5. ASSUME client[p] = "binding", client'[p] = "closing", held'[p] = held[p],
                 Send(p, "destroy", held[p])
          PROVE  OneCall' /\ Known(p)'
      <4> PICK w \in 0 .. MaxWindows : w = held[p]
        BY <2>1
      <4>1. Pending([op |-> "destroy", from |-> p, wid |-> w])'
        BY <3>1, <3>5 DEF Pending
      <4>2. OneCall'
        BY <1>1, <1>2, <1>3, <3>5, <4>1, OneCallSend DEF Ops
      <4> QED BY <2>1, <3>1, <3>5, <4>2 DEF Known, Opened
    <3>6. ASSUME client'[p] = "gone", requests' = requests
          PROVE  OneCall' /\ Known(p)'
      BY <2>2, <3>1, <3>6 DEF Known, Opened
    <3> QED BY <1>1, <2>4, <3>3, <3>4, <3>5, <3>6 DEF WmAnswer, RestTypes
  <2>5. CASE PointerSubscribe(p) \/ TermShutdown(p) \/ Crash(p) \/ Reap(p)
    <3>1. /\ requests' = requests /\ held'[p] = held[p] /\ reply'[p] = reply[p]
          /\ client[p] \in Holding \cup {"exited"}
          /\ \/ client'[p] \in {"pointing", "leaving"} /\ client[p] \in Holding
             \/ client'[p] \in {"exited", "gone"}
          /\ client[p] \notin Waiting
      BY <1>1, <2>5 DEF PointerSubscribe, TermShutdown, Crash, Reap, Open, RestTypes
    <3> QED BY <2>1, <2>2, <3>1 DEF Known, Opened
  <2>6. CASE WmDestroyWindow(p)
    <3>1. /\ client'[p] = "closing" /\ reply'[p] = reply[p] /\ held'[p] = held[p]
          /\ Send(p, "destroy", held[p]) /\ client[p] = "leaving"
      BY <1>1, <2>6 DEF WmDestroyWindow, RestTypes
    <3>2. reply[p] = None
      BY <2>1, <3>1 DEF Known
    <3> PICK w \in 0 .. MaxWindows : w = held[p]
      BY <2>1
    <3>3. Pending([op |-> "destroy", from |-> p, wid |-> w])'
      BY <3>1, <3>2 DEF Pending
    <3>4. OneCall'
      BY <1>1, <1>2, <1>3, <3>1, <3>3, OneCallSend DEF Ops
    <3> QED BY <2>1, <3>1, <3>2, <3>4 DEF Known, Opened
  <2> QED BY <2>3, <2>4, <2>5, <2>6 DEF Program
<1> QED BY <1>4, <1>5 DEF Calls

(* The manager.                                                            *)
LEMMA RequestTypes ==
  ASSUME TypeOK, Calls, PollOneRequest
  PROVE  TypeOK'
<1>1. TableTypes /\ WindowTypes /\ ReplyTypes /\ RestTypes /\ MouseTypes
  BY TypeParts
<1> DEFINE r == Head(requests)
<1>2. r \in Request /\ Tail(requests) \in Seq(Request)
  BY <1>1, HeadTailType DEF PollOneRequest, RestTypes
<1>3. \/ r.op = "new" /\ HandleNewWindow(r.from)
      \/ r.op = "bind" /\ HandleBindSurface(r.from, r.wid)
      \/ r.op = "destroy" /\ HandleDestroyWindow(r.from, r.wid)
  BY DEF PollOneRequest
<1> HIDE DEF r
<1>4. r.from \in Programs /\ r.wid \in 0 .. MaxWindows /\ 0 \in 0 .. MaxWindows
  BY <1>2, WidsProperties DEF Request
<1>5. RestTypes' /\ MouseTypes'
  BY <1>1, <1>2 DEF PollOneRequest, RestTypes, MouseTypes, mouseVars, userVars, r
<1>0. r.op = "destroy" => r.wid \in Wids
  <2>1. 1 \in 1 .. Len(requests) /\ r = requests[1]
    BY <1>1, HeadTailProperties, EmptySeq, LenProperties DEF PollOneRequest, RestTypes, r
  <2>2. Pending(r)
    BY <2>1 DEF Calls, OneCall
  <2> QED BY <1>4, <2>2 DEF Pending, Calls, Known
<1>6. CASE HandleNewWindow(r.from)
  BY <1>1, <1>4, <1>5, <1>6, NewWindowTypes, TypePartsNext
<1>7. CASE HandleBindSurface(r.from, r.wid)
  <2>1. ReplyTypes'
    BY <1>1, <1>4, <1>7, TellTypes DEF HandleBindSurface
  <2>2. TableTypes' /\ WindowTypes'
    BY <1>1, <1>7 DEF HandleBindSurface, TableTypes, WindowTypes, tableVars, windowVars
  <2> QED BY <1>5, <2>1, <2>2, TypePartsNext
<1>8. ASSUME window_type[r.wid], r.wid \in Wids, Teardown(r.wid),
             Tell(r.from, "ok", 0), UNCHANGED windowVars
      PROVE  TypeOK'
  <2>1. ReplyTypes'
    BY <1>1, <1>4, <1>8, TellTypes
  <2>2. TableTypes'
    BY <1>1, <1>8, TeardownTypes
  <2>3. WindowTypes'
    BY <1>1, <1>8 DEF WindowTypes, windowVars
  <2> QED BY <1>5, <2>1, <2>2, <2>3, TypePartsNext
<1>9. CASE Tell(r.from, "noent", 0) /\ UNCHANGED <<tableVars, windowVars>>
  <2>1. ReplyTypes'
    BY <1>1, <1>4, <1>9, TellTypes
  <2>2. TableTypes' /\ WindowTypes'
    BY <1>1, <1>9 DEF TableTypes, WindowTypes, tableVars, windowVars
  <2> QED BY <1>5, <2>1, <2>2, TypePartsNext
<1> QED BY <1>0, <1>3, <1>6, <1>7, <1>8, <1>9 DEF HandleDestroyWindow

(* Taking the first request, which is answered.                            *)
LEMMA RequestCalls ==
  ASSUME TypeOK, Calls, PollOneRequest
  PROVE  Calls'
<1>1. TableTypes /\ ReplyTypes /\ RestTypes
  BY TypeParts
<1> PICK r \in Request : r = Head(requests)
  BY <1>1, HeadTailType DEF PollOneRequest, RestTypes
<1> PICK p \in Programs : p = r.from
  BY DEF Request
<1>2. /\ requests \in Seq(Request) /\ requests # <<>> /\ requests' = Tail(requests)
      /\ UNCHANGED <<client, held>>
  BY <1>1 DEF PollOneRequest, RestTypes
<1>3. /\ Len(requests) \in Nat /\ 1 \in 1 .. Len(requests) /\ r = requests[1]
      /\ Len(requests') = Len(requests) - 1
      /\ \A i \in 1 .. Len(requests') : requests'[i] = requests[i + 1] /\ i + 1 \in 1 .. Len(requests)
  BY <1>2, HeadTailProperties, EmptySeq, LenProperties
<1>4. Pending(r) /\ \A i \in 1 .. Len(requests') : requests'[i].from # p
  BY <1>3 DEF Calls, OneCall
<1>5. PICK status \in {"ok", "noent", "nospc", "io"}, w \in 0 .. MaxWindows :
        Tell(p, status, w) /\ (status = "ok" /\ client[p] = "opening" => w \in Wids)
  <2>0. 0 \in 0 .. MaxWindows
    BY WidsProperties
  <2>1. CASE r.op = "new" /\ HandleNewWindow(p)
    <3>1. \/ Tell(p, "nospc", 0) \/ Tell(p, "io", 0)
          \/ Lowest \in Wids /\ Lowest \in 0 .. MaxWindows /\ Tell(p, "ok", Lowest)
      BY <2>1, NewWindowOutcome, WidsProperties DEF OpenedFor, FailedFor
    <3> QED BY <2>0, <3>1
  <2>2. CASE r.op = "bind" /\ HandleBindSurface(p, r.wid)
    <3>1. r.wid \in 0 .. MaxWindows /\ client[p] = "binding"
      BY <1>4, <2>2 DEF Request, Pending
    <3>2. Tell(p, "ok", r.wid) \/ Tell(p, "noent", r.wid)
      BY <2>2 DEF HandleBindSurface
    <3> QED BY <3>1, <3>2
  <2>3. CASE r.op = "destroy" /\ HandleDestroyWindow(p, r.wid)
    <3>1. client[p] = "closing"
      BY <1>4, <2>3 DEF Pending
    <3>2. Tell(p, "ok", 0) \/ Tell(p, "noent", 0)
      BY <2>3 DEF HandleDestroyWindow
    <3> QED BY <2>0, <3>1, <3>2
  <2> QED BY <2>1, <2>2, <2>3 DEF PollOneRequest
<1>6. /\ reply'[p] = [status |-> status, wid |-> w]
      /\ \A q \in Programs \ {p} : reply'[q] = reply[q]
  BY <1>1, <1>5 DEF Tell, ReplyTypes
<1>7. \A q \in Programs \ {p} : Unmoved(q)
  BY <1>2, <1>6 DEF Unmoved
<1>8. OneCall'
  <2>1. ASSUME NEW i \in 1 .. Len(requests') PROVE Pending(requests[i])'
    <3>1. requests[i + 1] \in Request /\ Pending(requests[i + 1]) /\ requests'[i] = requests[i + 1]
      BY <1>2, <1>3, ElementOfSeq DEF Calls, OneCall
    <3>2. Unmoved(requests[i + 1].from)
      BY <1>4, <1>7, <3>1 DEF Request
    <3> QED BY <3>1, <3>2 DEF Pending, Unmoved
  <2>2. ASSUME NEW i \in 1 .. Len(requests'), NEW j \in 1 .. Len(requests'),
               requests'[i].from = requests'[j].from
        PROVE  i = j
    <3>1. i + 1 = j + 1
      BY <1>3, <2>2 DEF Calls, OneCall
    <3> QED BY <1>3, <3>1
  <2> QED BY <2>1, <2>2 DEF OneCall
<1>9. \A q \in Programs \ {p} : Known(q)'
  BY <1>7 DEF Calls, Known, Opened, Unmoved
<1>10. Known(p)'
  <2>1. client[p] \in Waiting
    BY <1>4 DEF Pending, Waiting
  <2> QED BY <1>2, <1>5, <1>6, <2>1 DEF Calls, Known, Opened, Waiting
<1> QED BY <1>8, <1>9, <1>10 DEF Calls

LEMMA CallsStep ==
  ASSUME TypeOK, Calls, [Next]_vars
  PROVE  Calls'
<1>1. CASE PollOneRequest
  BY <1>1, RequestCalls
<1>2. ASSUME NEW p \in Programs, Program(p) PROVE Calls'
  BY <1>2, ProgramCalls
<1>3. CASE \/ NoRequest \/ ScanOwnerExits \/ PollPointerSubscribes
           \/ FlushMotion \/ NoPointerEvent \/ PollKeyboardSubscribes \/ PollKeyboardEvents
           \/ SupervisorServes \/ UNCHANGED vars
  BY <1>3, CallsSame
  DEF NoRequest, ScanOwnerExits, PollPointerSubscribes, FlushMotion, NoPointerEvent,
      PollKeyboardSubscribes, PollKeyboardEvents, SupervisorServes, vars, queueVars, programVars
<1>4. CASE PollOnePointerEvent
  BY <1>4, CallsSame DEF PollOnePointerEvent, programVars
<1>5. CASE User
  BY <1>5, CallsSame DEF User, Type, Pointer, programVars
<1> QED BY <1>1, <1>2, <1>3, <1>4, <1>5 DEF Next, Manager

-----------------------------------------------------------------------------
(* The other steps of the manager.                                         *)

LEMMA ScanTypes ==
  ASSUME TypeOK, ScanOwnerExits
  PROVE  TypeOK'
<1>1. TableTypes /\ WindowTypes /\ ReplyTypes /\ RestTypes /\ MouseTypes
  BY TypeParts
<1>2. TableTypes'
  <2>1. ASSUME NEW w \in Wids, Teardown(w) PROVE TableTypes'
    BY <1>1, <2>1, TeardownTypes
  <2> QED BY <1>1, <2>1 DEF ScanOwnerExits, TableTypes, tableVars
<1>3. RestTypes'
  BY <1>1 DEF ScanOwnerExits, RestTypes, queueVars, programVars, userVars
<1>4. WindowTypes' /\ ReplyTypes' /\ MouseTypes'
  BY <1>1 DEF ScanOwnerExits, WindowTypes, ReplyTypes, MouseTypes, windowVars, mouseVars,
              programVars
<1> QED BY <1>2, <1>3, <1>4, TypePartsNext

LEMMA SubscriptionTypes ==
  ASSUME TypeOK, PollPointerSubscribes \/ PollKeyboardSubscribes \/ PollKeyboardEvents
  PROVE  TypeOK'
<1>1. TableTypes /\ WindowTypes /\ ReplyTypes /\ RestTypes /\ MouseTypes
  BY TypeParts
<1>2. WindowTypes' /\ ReplyTypes'
  BY <1>1 DEF PollPointerSubscribes, PollKeyboardSubscribes, PollKeyboardEvents, WindowTypes,
              ReplyTypes, windowVars, programVars
<1>3. CASE PollPointerSubscribes
  <2>1. ptr_svc # <<>> => /\ Head(ptr_svc) \in Programs \cup {None}
                          /\ Tail(ptr_svc) \in Seq(Programs \cup {None})
    BY <1>1, HeadTailType DEF RestTypes
  <2>2. RestTypes'
    BY <1>1, <1>3, <2>1 DEF PollPointerSubscribes, RestTypes, programVars, userVars
  <2>3. TableTypes'
    BY <1>1, <1>3, <2>1 DEF PollPointerSubscribes, TableTypes
  <2>4. MouseTypes'
    BY <1>1, <1>3 DEF PollPointerSubscribes, MouseTypes, mouseVars
  <2> QED BY <1>2, <2>2, <2>3, <2>4, TypePartsNext
<1>4. CASE PollKeyboardSubscribes
  <2>1. kbd_svc # <<>> => /\ Head(kbd_svc).o2 \in Programs
                          /\ Tail(kbd_svc) \in Seq(KbdMessage)
    <3>1. \A m \in KbdMessage : m.o2 \in Programs
      BY DEF KbdMessage
    <3> QED BY <1>1, <3>1, HeadTailType DEF RestTypes
  <2>2. RestTypes'
    BY <1>1, <1>4, <2>1 DEF PollKeyboardSubscribes, RestTypes, programVars, userVars
  <2>3. TableTypes'
    BY <1>1, <1>4, <2>1 DEF PollKeyboardSubscribes, TableTypes
  <2>4. MouseTypes'
    BY <1>1, <1>4 DEF PollKeyboardSubscribes, MouseTypes, mouseVars
  <2> QED BY <1>2, <2>2, <2>3, <2>4, TypePartsNext
<1>5. CASE PollKeyboardEvents
  <2>1. kbd_events # <<>> => Tail(kbd_events) \in Seq(Key)
    BY <1>1, HeadTailType DEF RestTypes
  <2>2. RestTypes'
    BY <1>1, <1>5, <2>1 DEF PollKeyboardEvents, RestTypes, programVars, userVars
  <2>3. TableTypes'
    BY <1>1, <1>5 DEF PollKeyboardEvents, TableTypes, tableVars
  <2>4. menu' \in [active : BOOLEAN, pinned : BOOLEAN, drag : BOOLEAN]
    BY <1>1, <1>5 DEF PollKeyboardEvents, MouseTypes
  <2>5. MouseTypes'
    BY <1>1, <1>5, <2>4 DEF PollKeyboardEvents, MouseTypes
  <2> QED BY <1>2, <2>2, <2>3, <2>5, TypePartsNext
<1> QED BY <1>3, <1>4, <1>5

(* What the pointer can change besides the table and where the manager is. *)
HandTypes ==
  /\ drag \in [active : BOOLEAN, wid : 0 .. MaxWindows, grab : Int, outline : Places]
  /\ drag.active => drag.wid # 0
  /\ sb \subseteq {"arrow", "elevator", "anchor"}
  /\ menu \in [active : BOOLEAN, pinned : BOOLEAN, drag : BOOLEAN]
  /\ user_closed \in BOOLEAN

LEMMA MotionTypes ==
  ASSUME HandTypes, NEW x \in Int, MotionTo(x)
  PROVE  /\ drag' \in [active : BOOLEAN, wid : 0 .. MaxWindows, grab : Int, outline : Places]
         /\ drag'.active => drag'.wid # 0
<1>1. drag.grab \in Int
  BY DEF HandTypes
<1>2. Clamped(x - drag.grab) \in Places
  BY <1>1, ClampedType
<1> QED BY <1>2 DEF MotionTo, HandTypes

LEMMA PointType ==
  ASSUME NEW q \in Point
  PROVE  q.x \in Int
BY ScreenAssumption DEF Point

(* What a pointer event does, apart from the queue.                        *)
LEMMA MenuTypes ==
  ASSUME MouseTypes, RestTypes, NEW e \in Event, DragMenu(e) \/ PointAtMenu(e)
  PROVE  /\ menu' \in [active : BOOLEAN, pinned : BOOLEAN, drag : BOOLEAN]
         /\ pc' \in {pc, "spawning", "ended"}
         /\ UNCHANGED <<tableVars, windowVars, drag, sb, user_closed>>
<1>1. menu \in [active : BOOLEAN, pinned : BOOLEAN, drag : BOOLEAN]
  BY DEF MouseTypes
<1>2. Dismissed \in [active : BOOLEAN, pinned : BOOLEAN, drag : BOOLEAN]
  BY <1>1 DEF Dismissed
<1>3. CASE DragMenu(e)
  BY <1>1, <1>3 DEF DragMenu
<1>4. CASE PointAtMenu(e)
  <2>1. ASSUME PressMenu(e.at.menu)
        PROVE  /\ menu' \in [active : BOOLEAN, pinned : BOOLEAN, drag : BOOLEAN]
               /\ pc' \in {pc, "spawning", "ended"}
    BY <1>1, <1>2, <2>1 DEF PressMenu, SelectProgram, SelectEndSession
  <2> QED BY <1>1, <1>4, <2>1 DEF PointAtMenu
<1> QED BY <1>3, <1>4

LEMMA ScreenTypes ==
  ASSUME TableTypes, WindowTypes, MouseTypes, NEW e \in Event, PointAtScreen(e)
  PROVE  TableTypes' /\ WindowTypes' /\ HandTypes' /\ pc' = pc
<1> DEFINE Goal == TableTypes' /\ WindowTypes' /\ HandTypes'
<1>0. HandTypes /\ pc' = pc
  BY DEF MouseTypes, HandTypes, PointAtScreen
<1>1. ASSUME RightPress(e) PROVE Goal
  BY <1>0, <1>1 DEF RightPress, TableTypes, WindowTypes, HandTypes, tableVars, windowVars
<1>2. ASSUME LeftPress(e) PROVE Goal
  <2> DEFINE t == TopmostAt(e.at.x)
  <2>1. t # 0 => t \in Wids
    BY TopmostInStack DEF TableTypes
  <2>2. WindowTypes' /\ menu' \in [active : BOOLEAN, pinned : BOOLEAN, drag : BOOLEAN]
    BY <1>0, <1>2 DEF LeftPress, WindowTypes, HandTypes, windowVars
  <2>3. CASE t = 0 /\ UNCHANGED <<tableVars, drag, sb, user_closed>>
    BY <1>0, <2>2, <2>3 DEF TableTypes, HandTypes, tableVars
  <2>4. CASE t # 0 /\ Teardown(t) /\ user_closed' = TRUE /\ UNCHANGED <<drag, sb>>
    <3>1. TableTypes'
      BY <2>1, <2>4, TeardownTypes
    <3> QED BY <1>0, <2>2, <2>4, <3>1 DEF HandTypes
  <2>5. ASSUME t # 0, Raise(t),
               drag' = IF e.at.part = "title"
                         THEN [active |-> TRUE, wid |-> t, grab |-> e.at.x - window_pos[t],
                               outline |-> window_pos[t]] ELSE drag,
               sb' = IF e.at.part \in {"arrow", "elevator", "anchor"}
                       THEN sb \cup {e.at.part} ELSE sb,
               UNCHANGED <<window_type, objects, kbd_sub, ptr_sub, user_closed>>
        PROVE  Goal
    <3>1. t \in Wids /\ t \in 0 .. MaxWindows /\ t # 0
      BY <2>1, <2>5, WidsProperties
    <3>2. e.at.x \in Int
      BY PointType DEF Event
    <3>3. TableTypes'
      BY <2>5, <3>1, RaiseTypes
    <3> HIDE DEF t
    <3>4. window_pos[t] \in Places /\ window_pos[t] \in Int
      BY <3>1, ScreenAssumption DEF WindowTypes, Places
    <3>5. e.at.x - window_pos[t] \in Int
      BY <3>2, <3>4
    <3>6. /\ drag' \in [active : BOOLEAN, wid : 0 .. MaxWindows, grab : Int, outline : Places]
          /\ drag'.active => drag'.wid # 0
      BY <1>0, <2>5, <3>1, <3>4, <3>5 DEF HandTypes
    <3> QED BY <1>0, <2>2, <2>5, <3>3, <3>6 DEF HandTypes
  <2> QED BY <1>2, <2>3, <2>4, <2>5 DEF LeftPress
<1>3. ASSUME LeftRelease(e) PROVE Goal
  <2>1. TableTypes' /\ menu' = menu /\ user_closed' = user_closed /\ sb' = {} /\ owner' = owner
    BY <1>3 DEF LeftRelease, TableTypes, tableVars
  <2>2. CASE drag.active /\ window_pos' = [window_pos EXCEPT ![drag.wid] = drag.outline]
             /\ drag' = NoDrag
    <3>1. drag.outline \in Places /\ 0 \in Places
      BY <1>0, ScreenAssumption DEF HandTypes, Places
    <3>2. 0 \in 0 .. MaxWindows
      BY WidsProperties
    <3>3. /\ NoDrag \in [active : BOOLEAN, wid : 0 .. MaxWindows, grab : Int, outline : Places]
          /\ ~NoDrag.active
      BY <3>1, <3>2 DEF NoDrag
    <3>4. WindowTypes'
      BY <2>1, <2>2, <3>1 DEF WindowTypes
    <3> QED BY <1>0, <2>1, <2>2, <3>3, <3>4 DEF HandTypes
  <2>3. CASE UNCHANGED <<window_pos, drag>>
    BY <1>0, <2>1, <2>3 DEF WindowTypes, HandTypes
  <2> QED BY <1>3, <2>2, <2>3 DEF LeftRelease
<1>4. ASSUME MotionTo(e.at.x), UNCHANGED <<menu, tableVars, windowVars, sb, user_closed>>
      PROVE  Goal
  <2>1. e.at.x \in Int
    BY PointType DEF Event
  <2>2. TableTypes' /\ WindowTypes'
    BY <1>4 DEF TableTypes, WindowTypes, tableVars, windowVars
  <2> QED BY <1>0, <1>4, <2>1, <2>2, MotionTypes DEF HandTypes
<1> QED BY <1>0, <1>1, <1>2, <1>3, <1>4 DEF PointAtScreen

LEMMA PointerTypes ==
  ASSUME TypeOK, PollOnePointerEvent
  PROVE  TypeOK'
<1>1. TableTypes /\ WindowTypes /\ ReplyTypes /\ RestTypes /\ MouseTypes
  BY TypeParts
<1> PICK e \in Event : e = Head(ptr_events)
  BY <1>1, HeadTailType DEF PollOnePointerEvent, RestTypes
<1>2. Tail(ptr_events) \in Seq(Event)
  BY <1>1, HeadTailType DEF PollOnePointerEvent, RestTypes
<1>3. e.at \in Point
  BY DEF Event
<1>4. CASE DispatchPointerEvent(e) /\ UNCHANGED pending_xy
  <2>1. CASE DragMenu(e) \/ PointAtMenu(e)
    <3>1. /\ menu' \in [active : BOOLEAN, pinned : BOOLEAN, drag : BOOLEAN]
          /\ pc' \in {pc, "spawning", "ended"}
          /\ UNCHANGED <<tableVars, windowVars, drag, sb, user_closed>>
      BY <1>1, <2>1, MenuTypes
    <3>2. TableTypes' /\ WindowTypes' /\ MouseTypes'
      BY <1>1, <1>4, <3>1 DEF TableTypes, WindowTypes, MouseTypes, tableVars, windowVars
    <3>3. RestTypes' /\ ReplyTypes'
      BY <1>1, <1>2, <3>1 DEF PollOnePointerEvent, RestTypes, ReplyTypes, programVars, userVars
    <3> QED BY <3>2, <3>3, TypePartsNext
  <2>2. CASE PointAtScreen(e)
    <3>1. TableTypes' /\ WindowTypes' /\ pc' = pc
      BY <1>1, <2>2, ScreenTypes
    <3>2. MouseTypes'
      <4>1. pending_xy' \in Point \cup {None}
        BY <1>1, <1>4 DEF MouseTypes
      <4>2. HandTypes'
        BY <1>1, <2>2, ScreenTypes
      <4> QED BY <4>1, <4>2 DEF MouseTypes, HandTypes
    <3>3. RestTypes' /\ ReplyTypes'
      BY <1>1, <1>2, <3>1 DEF PollOnePointerEvent, RestTypes, ReplyTypes, programVars, userVars
    <3> QED BY <3>1, <3>2, <3>3, TypePartsNext
  <2> QED BY <1>4, <2>1, <2>2 DEF DispatchPointerEvent
<1>5. CASE pending_xy' = e.at /\ UNCHANGED <<pc, tableVars, windowVars, drag, sb, menu, user_closed>>
  <2>1. TableTypes' /\ WindowTypes' /\ MouseTypes'
    BY <1>1, <1>3, <1>5 DEF TableTypes, WindowTypes, MouseTypes, tableVars, windowVars
  <2>2. RestTypes' /\ ReplyTypes'
    BY <1>1, <1>2, <1>5 DEF PollOnePointerEvent, RestTypes, ReplyTypes, programVars, userVars
  <2> QED BY <2>1, <2>2, TypePartsNext
<1> QED BY <1>4, <1>5 DEF PollOnePointerEvent

LEMMA OtherTypes ==
  ASSUME TypeOK, \/ NoRequest \/ FlushMotion \/ NoPointerEvent \/ SupervisorServes
                 \/ UNCHANGED vars
  PROVE  TypeOK'
<1>1. TableTypes /\ WindowTypes /\ ReplyTypes /\ RestTypes /\ MouseTypes
  BY TypeParts
<1>2. TableTypes' /\ WindowTypes' /\ ReplyTypes' /\ RestTypes'
  BY <1>1 DEF NoRequest, FlushMotion, NoPointerEvent, SupervisorServes, vars, queueVars,
              tableVars, windowVars, programVars, userVars, TableTypes, WindowTypes,
              ReplyTypes, RestTypes
<1>3. CASE FlushMotion
  <2>1. pending_xy.x \in Int
    BY <1>1, <1>3, PointType DEF FlushMotion, MouseTypes
  <2>2. MouseTypes'
    BY <1>1, <1>3, <2>1, MotionTypes DEF FlushMotion, MouseTypes, HandTypes
  <2> QED BY <1>2, <2>2, TypePartsNext
<1>4. CASE NoRequest \/ NoPointerEvent \/ SupervisorServes \/ UNCHANGED vars
  <2>1. MouseTypes'
    BY <1>1, <1>4 DEF NoRequest, NoPointerEvent, SupervisorServes, vars, mouseVars, MouseTypes
  <2> QED BY <1>2, <2>1, TypePartsNext
<1> QED BY <1>3, <1>4

LEMMA TypeStep ==
  ASSUME TypeOK, Calls, [Next]_vars
  PROVE  TypeOK'
BY RequestTypes, ScanTypes, SubscriptionTypes, PointerTypes, OtherTypes, UserTypes,
   ProgramTypes
DEF Next, Manager

-----------------------------------------------------------------------------
(* The window table.                                                       *)

TableInv ==
  /\ Lists(window_z, Live)
  /\ focused_wid = TopOf(window_z)
  /\ TornDown

(* What a step can do to the table: nothing; close a live window; open one *)
(* for a program, or fail to; raise a live window; store a subscription.   *)
Raised(w) == Raise(w) /\ UNCHANGED <<window_type, objects, kbd_sub, ptr_sub>>
Subscribed ==
  /\ UNCHANGED <<window_type, objects, window_z, focused_wid>>
  /\ \A w \in Wids \ {focused_wid} : kbd_sub'[w] = kbd_sub[w] /\ ptr_sub'[w] = ptr_sub[w]

LEMMA RemovedKeepsTop ==
  ASSUME NEW q, NEW S, Lists(q, S), NEW x \in S, TopOf(q) # x
  PROVE  TopOf(RemoveFirst(q, x)) = TopOf(q)
<1>1. PICK k \in 1 .. Len(q) : q[k] = x
  BY DEF Lists
<1> DEFINE I == {i \in 1 .. Len(q) : q[i] = x}
<1>2. q \in Seq(S) /\ Len(q) \in Nat /\ k \in Nat
  BY <1>1, LenProperties DEF Lists
<1>3. \A i \in 1 .. Len(q) : q[i] = x => i = k
  BY <1>1 DEF Lists
<1>4. SelectInSeq(q, LAMBDA v : v = x) = k
  <2>1. I = {k}
    BY <1>1, <1>3
  <2>2. Min(I) = k
    BY <1>2, <2>1 DEF Min
  <2> QED BY <2>1, <2>2 DEF SelectInSeq
<1>5. RemoveFirst(q, x) = RemoveAt(q, k)
  BY <1>1, <1>4 DEF RemoveFirst
<1> DEFINE r == RemoveAt(q, k)
<1>6. /\ r \in Seq(S) /\ Len(r) = Len(q) - 1
      /\ \A j \in 1 .. (Len(q) - 1) : r[j] = IF j < k THEN q[j] ELSE q[j + 1]
  BY <1>1, <1>2, RemoveAtProperties
<1> HIDE DEF r
<1>7. q # <<>> /\ TopOf(q) = q[Len(q)]
  BY <1>1, <1>2, TopOfType, EmptySeq
<1>8. k # Len(q) /\ Len(q) - 1 \in 1 .. (Len(q) - 1)
  BY <1>1, <1>2, <1>7
<1>9. r # <<>> /\ TopOf(r) = r[Len(r)]
  BY <1>2, <1>6, <1>8, TopOfType, EmptySeq
<1>10. r[Len(r)] = q[Len(q)]
  BY <1>1, <1>2, <1>6, <1>8
<1> QED BY <1>5, <1>7, <1>9, <1>10 DEF r

LEMMA TopOfAppend ==
  ASSUME NEW S, NEW q \in Seq(S), NEW x \in S
  PROVE  TopOf(Append(q, x)) = x
<1> DEFINE r == Append(q, x)
<1>1. r \in Seq(S) /\ Len(r) = Len(q) + 1 /\ r[Len(q) + 1] = x /\ Len(q) \in Nat
  BY AppendProperties, LenProperties
<1> HIDE DEF r
<1>2. r # <<>>
  BY <1>1, EmptySeq
<1> QED BY <1>1, <1>2, TopOfType DEF r

LEMMA FocusLive ==
  ASSUME TableInv
  PROVE  focused_wid # 0 => focused_wid \in Live
<1>1. window_z \in Seq(Live)
  BY DEF TableInv, Lists
<1> QED BY <1>1, TopOfType DEF TableInv

LEMMA TableMoves ==
  ASSUME TypeOK, Calls, TableInv, [Next]_vars
  PROVE  \/ UNCHANGED tableVars
         \/ \E w \in Live : Teardown(w) \/ Raised(w)
         \/ Lowest \in Wids \ Live /\ \E p \in Programs : OpenedFor(p) \/ FailedFor(p)
         \/ Subscribed
<1> DEFINE Goal == \/ UNCHANGED tableVars
                   \/ \E w \in Live : Teardown(w) \/ Raised(w)
                   \/ Lowest \in Wids \ Live /\ \E p \in Programs : OpenedFor(p) \/ FailedFor(p)
                   \/ Subscribed
<1>1. TableTypes /\ RestTypes
  BY TypeParts
<1>2. CASE PollOneRequest
  <2> PICK r \in Request : r = Head(requests)
    BY <1>1, <1>2, HeadTailType DEF PollOneRequest, RestTypes
  <2>1. r.from \in Programs
    BY DEF Request
  <2>2. CASE HandleNewWindow(r.from)
    BY <2>1, <2>2, NewWindowOutcome
  <2>3. CASE HandleBindSurface(r.from, r.wid)
    BY <2>3 DEF HandleBindSurface
  <2>4. CASE r.op = "destroy" /\ HandleDestroyWindow(r.from, r.wid)
    <3>1. 1 \in 1 .. Len(requests) /\ r = requests[1]
      BY <1>1, <1>2, HeadTailProperties, EmptySeq, LenProperties DEF PollOneRequest, RestTypes
    <3>2. r.wid \in Wids
      BY <2>1, <2>4, <3>1 DEF Calls, OneCall, Pending, Known
    <3> QED BY <2>4, <3>2 DEF HandleDestroyWindow, Live
  <2> QED BY <1>2, <2>2, <2>3, <2>4 DEF PollOneRequest
<1>3. CASE ScanOwnerExits
  BY <1>3 DEF ScanOwnerExits, OwnerExited, Live
<1>4. CASE PollPointerSubscribes \/ PollKeyboardSubscribes
  BY <1>1, <1>4 DEF PollPointerSubscribes, PollKeyboardSubscribes, Subscribed, TableTypes
<1>5. CASE PollOnePointerEvent
  <2>1. ASSUME NEW e, LeftPress(e) PROVE Goal
    <3>1. window_z \in Seq(Live)
      BY DEF TableInv, Lists
    <3>2. TopmostAt(e.at.x) # 0 => TopmostAt(e.at.x) \in Live
      BY <3>1, TopmostInStack
    <3> QED BY <2>1, <3>2 DEF LeftPress, Raised
  <2>2. ASSUME NEW e, RightPress(e) \/ LeftRelease(e) \/ DragMenu(e) \/ PointAtMenu(e)
        PROVE  UNCHANGED tableVars
    BY <2>2 DEF RightPress, LeftRelease, DragMenu, PointAtMenu
  <2> QED BY <1>5, <2>1, <2>2 DEF PollOnePointerEvent, DispatchPointerEvent, PointAtScreen
<1>6. ASSUME NEW p \in Programs, Program(p) PROVE UNCHANGED tableVars
  BY <1>6 DEF Program, WmNewWindow, WmAnswer, PointerSubscribe, TermShutdown,
              WmDestroyWindow, Crash, Reap, ManagerIdles, tableVars
<1>7. CASE NoRequest \/ FlushMotion \/ NoPointerEvent \/ PollKeyboardEvents
           \/ SupervisorServes \/ User \/ UNCHANGED vars
  BY <1>7 DEF NoRequest, FlushMotion, NoPointerEvent, PollKeyboardEvents, SupervisorServes,
              User, Type, Pointer, vars
<1> QED BY <1>2, <1>3, <1>4, <1>5, <1>6, <1>7 DEF Next, Manager

LEMMA TableStep ==
  ASSUME TypeOK, Calls, TableInv, [Next]_vars
  PROVE  TableInv'
<1>1. TableTypes
  BY TypeParts
<1>2. /\ Lists(window_z, Live) /\ focused_wid = TopOf(window_z)
      /\ TornDown /\ window_z \in Seq(Live) /\ window_z \in Seq(Wids)
  BY <1>1 DEF TableInv, Lists, TableTypes
<1>3. CASE UNCHANGED tableVars
  BY <1>2, <1>3 DEF tableVars, TableInv, TornDown, Live
<1>4. ASSUME NEW w \in Live, Teardown(w) PROVE TableInv'
  <2>1. Lists(window_z', Live \ {w})
    BY <1>2, <1>4, ListsRemoveFirst DEF Teardown
  <2>2. w \in Wids /\ Live' = Live \ {w}
    BY <1>1, <1>4 DEF Teardown, Live, TableTypes
  <2>3. focused_wid' = TopOf(window_z')
    <3>1. CASE focused_wid = w
      BY <1>4, <3>1 DEF Teardown, Refocused
    <3>2. CASE focused_wid # w
      <4>1. TopOf(RemoveFirst(window_z, w)) = TopOf(window_z)
        BY <1>2, <3>2, RemovedKeepsTop
      <4> QED BY <1>2, <1>4, <3>2, <4>1 DEF Teardown, Refocused
    <3> QED BY <3>1, <3>2
  <2>4. TornDown'
    BY <1>1, <1>2, <1>4, <2>2 DEF Teardown, TornDown, TableTypes
  <2> QED BY <2>1, <2>2, <2>3, <2>4 DEF TableInv
<1>5. ASSUME NEW w \in Live, Raised(w) PROVE TableInv'
  <2> DEFINE q == RemoveFirst(window_z, w)
  <2>1. Lists(q, Live \ {w})
    BY <1>2, ListsRemoveFirst
  <2>2. window_z' = Append(q, w) /\ focused_wid' = w
    BY <1>5 DEF Raised, Raise
  <2> HIDE DEF q
  <2>3. Lists(Append(q, w), (Live \ {w}) \cup {w})
    BY <2>1, ListsAppend
  <2>4. Live' = Live /\ (Live \ {w}) \cup {w} = Live
    BY <1>5 DEF Raised, Live
  <2>5. q \in Seq(Live)
    <3>1. q \in Seq(Live \ {w})
      BY <2>1 DEF Lists
    <3> QED BY <3>1
  <2>6. TopOf(Append(q, w)) = w
    BY <2>5, TopOfAppend
  <2>7. TornDown'
    BY <1>2, <1>5 DEF Raised, TornDown
  <2> QED BY <2>2, <2>3, <2>4, <2>6, <2>7 DEF TableInv
<1>6. ASSUME Lowest \in Wids \ Live, NEW p \in Programs, OpenedFor(p) PROVE TableInv'
  <2>1. Lists(window_z', Live \cup {Lowest})
    BY <1>2, <1>6, ListsAppend DEF OpenedFor
  <2>2. Live' = Live \cup {Lowest}
    BY <1>1, <1>6 DEF OpenedFor, Live, TableTypes
  <2>3. TopOf(window_z') = Lowest
    BY <1>2, <1>6, TopOfAppend DEF OpenedFor
  <2>4. TornDown'
    BY <1>1, <1>2, <1>6 DEF OpenedFor, TornDown, TableTypes, AllObjects
  <2> QED BY <1>6, <2>1, <2>2, <2>3, <2>4 DEF TableInv, OpenedFor
<1>7. ASSUME Lowest \in Wids \ Live, NEW p \in Programs, FailedFor(p) PROVE TableInv'
  <2>1. Live' = Live
    BY <1>7 DEF FailedFor, Live
  <2>2. TornDown'
    BY <1>1, <1>2, <1>7 DEF FailedFor, TornDown, TableTypes, Live
  <2> QED BY <1>2, <1>7, <2>1, <2>2 DEF TableInv, FailedFor
<1>8. CASE Subscribed
  <2>1. Live' = Live
    BY <1>8 DEF Subscribed, Live
  <2>2. focused_wid # 0 => window_type[focused_wid]
    BY FocusLive DEF Live
  <2>3. \A w \in Wids : w # 0
    BY WidsProperties
  <2>4. TornDown'
    BY <1>2, <1>8, <2>2, <2>3 DEF Subscribed, TornDown
  <2> QED BY <1>2, <1>8, <2>1, <2>4 DEF TableInv, Subscribed
<1> QED BY <1>3, <1>4, <1>5, <1>6, <1>7, <1>8, TableMoves

LEMMA TableInit == Init => TableInv
<1> SUFFICES ASSUME Init PROVE TableInv
  OBVIOUS
<1>1. Live = {} /\ window_z = <<>>
  BY DEF Init, Live
<1>2. Lists(window_z, Live)
  BY <1>1, EmptySeq DEF Lists
<1>3. TornDown /\ focused_wid = TopOf(window_z)
  BY <1>1 DEF Init, TornDown, TopOf
<1> QED BY <1>2, <1>3 DEF TableInv

(* A list of a set has as many elements as the set.                        *)
LEMMA ListsLength ==
  ASSUME NEW q, NEW S, Lists(q, S)
  PROVE  /\ Len(q) = Cardinality(S)
         /\ {q[i] : i \in 1 .. Len(q)} = S
<1>1. q \in Seq(S) /\ Len(q) \in Nat /\ q \in [1 .. Len(q) -> S]
  BY LenProperties DEF Lists
<1>2. q \in Bijection(1 .. Len(q), S)
  BY <1>1 DEF Lists, Bijection, Injection, Surjection, IsInjective
<1>3. ExistsBijection(1 .. Len(q), S)
  BY <1>2 DEF ExistsBijection
<1>4. IsFiniteSet(1 .. Len(q)) /\ Cardinality(1 .. Len(q)) = Len(q)
  <2> DEFINE n == Len(q)
  <2>1. n \in Nat /\ n \in Int /\ 1 \in Int
    BY <1>1
  <2> HIDE DEF n
  <2>2. IsFiniteSet(1 .. n) /\ Cardinality(1 .. n) = (IF 1 > n THEN 0 ELSE n - 1 + 1)
    BY ONLY <2>1, FS_Interval
  <2>3. IsFiniteSet(1 .. n) /\ Cardinality(1 .. n) = n
    BY <2>1, <2>2
  <2> QED BY <2>3 DEF n
<1>5. Cardinality(S) = Len(q)
  BY <1>3, <1>4, FS_Bijection
<1>6. {q[i] : i \in 1 .. Len(q)} = S
  BY <1>1 DEF Lists
<1> QED BY <1>5, <1>6

LEMMA TableExact == TableInv => WindowTable
<1> SUFFICES ASSUME TableInv PROVE WindowTable
  OBVIOUS
<1>1. Lists(window_z, Live)
  BY DEF TableInv
<1> QED BY <1>1, ListsLength DEF TableInv, WindowTable, StackExact

-----------------------------------------------------------------------------
(* Who has which window.  A program claims the window it has been given    *)
(* until the manager has served its request to close it: also while the    *)
(* answer that gives it, or that request, is on the way.                   *)

Claims(p, w) ==
  \/ w = held[p] /\ (client[p] \in Holding \/ (client[p] = "closing" /\ reply[p] = None))
  \/ Opened(p) /\ w = reply[p].wid
Has(p, w) == window_type[w] /\ owner[w] = p
OwnInv == ~user_closed => \A p \in Programs, w \in Wids : Claims(p, w) => Has(p, w)

LEMMA OwnInit == Init => OwnInv
BY DEF Init, OwnInv, Claims, Opened, Holding

(* A step that adds no claim and takes no claimed window.                  *)
LEMMA OwnKept ==
  ASSUME OwnInv, ~user_closed' => ~user_closed,
         ~user_closed => \A p \in Programs, w \in Wids :
           Claims(p, w)' => Claims(p, w) /\ (Has(p, w) => Has(p, w)')
  PROVE  OwnInv'
BY DEF OwnInv

LEMMA OwnSame ==
  ASSUME OwnInv, UNCHANGED <<window_type, owner, user_closed, client, held, reply>>
  PROVE  OwnInv'
BY DEF OwnInv, Claims, Has, Opened

LEMMA ProgramOwn ==
  ASSUME TypeOK, Calls, OwnInv, NEW p \in Programs, Program(p)
  PROVE  OwnInv'
<1>1. ReplyTypes /\ RestTypes
  BY TypeParts
<1>2. UNCHANGED <<window_type, owner, user_closed>>
  BY DEF Program, WmNewWindow, WmAnswer, PointerSubscribe, TermShutdown,
         WmDestroyWindow, Crash, Reap, ManagerIdles, windowVars, mouseVars
<1>3. \A q \in Programs \ {p} : Unmoved(q)
  BY <1>1 DEF Unmoved, Program, WmNewWindow, WmAnswer, PointerSubscribe, TermShutdown,
              WmDestroyWindow, Crash, Reap, RestTypes, ReplyTypes
<1>4. ASSUME NEW q \in Programs \ {p}, NEW w \in Wids, Claims(q, w)' PROVE Claims(q, w)
  BY <1>3, <1>4 DEF Claims, Opened, Unmoved
<1>5. ASSUME NEW w \in Wids, Claims(p, w)' PROVE Claims(p, w)
  <2> USE DEF Holding, Waiting
  <2>1. Known(p)
    BY DEF Calls
  <2>2. CASE WmNewWindow(p)
    <3>1. client'[p] = "opening" /\ reply'[p] = None
      BY <1>1, <2>1, <2>2 DEF WmNewWindow, Known, RestTypes
    <3> QED BY <1>5, <3>1 DEF Claims, Opened
  <2>3. CASE WmAnswer(p)
    <3>1. reply'[p] = None /\ reply[p] # None
      BY <1>1, <2>3 DEF WmAnswer, ReplyTypes
    <3>2. \/ /\ client[p] = "opening" /\ reply[p].status = "ok"
             /\ held'[p] = reply[p].wid /\ client'[p] = "binding"
          \/ client[p] = "binding" /\ held'[p] = held[p]
          \/ client'[p] = "gone"
      BY <1>1, <2>3 DEF WmAnswer, RestTypes
    <3> QED BY <1>5, <3>1, <3>2 DEF Claims, Opened
  <2>4. CASE PointerSubscribe(p) \/ TermShutdown(p) \/ WmDestroyWindow(p)
    <3>1. client[p] \in Holding /\ held'[p] = held[p] /\ client'[p] # "opening"
      BY <1>1, <2>4 DEF PointerSubscribe, TermShutdown, WmDestroyWindow, Open, RestTypes
    <3> QED BY <1>5, <3>1 DEF Claims, Opened
  <2>5. CASE Crash(p) \/ Reap(p)
    <3>1. client'[p] \in {"exited", "gone"}
      BY <1>1, <2>5 DEF Crash, Reap, RestTypes
    <3> QED BY <1>5, <3>1 DEF Claims, Opened
  <2> QED BY <2>2, <2>3, <2>4, <2>5 DEF Program
<1> QED BY <1>2, <1>4, <1>5 DEF OwnInv, Has

LEMMA RequestOwn ==
  ASSUME TypeOK, Calls, OwnInv, PollOneRequest
  PROVE  OwnInv'
<1>1. TableTypes /\ WindowTypes /\ ReplyTypes /\ RestTypes
  BY TypeParts
<1> PICK r \in Request : r = Head(requests)
  BY <1>1, HeadTailType DEF PollOneRequest, RestTypes
<1> PICK p \in Programs : p = r.from
  BY DEF Request
<1>2. UNCHANGED <<client, held, user_closed>>
  BY DEF PollOneRequest, mouseVars
<1>3. Pending(r)
  <2>1. 1 \in 1 .. Len(requests) /\ r = requests[1]
    BY <1>1, HeadTailProperties, EmptySeq, LenProperties DEF PollOneRequest, RestTypes
  <2> QED BY <2>1 DEF Calls, OneCall
<1>4. ASSUME NEW s \in {"ok", "noent", "nospc", "io"}, NEW w \in 0 .. MaxWindows, Tell(p, s, w)
      PROVE  /\ reply'[p] # None /\ reply'[p].status = s /\ reply'[p].wid = w
             /\ \A q \in Programs \ {p} : reply'[q] = reply[q]
  <2>1. [status |-> s, wid |-> w] # None
    BY ProgramsAssumption DEF Answer
  <2> QED BY <1>1, <1>4, <2>1 DEF Tell, ReplyTypes
<1>5. 0 \in 0 .. MaxWindows /\ r.wid \in 0 .. MaxWindows
  BY WidsProperties DEF Request
<1>6. CASE r.op = "new" /\ HandleNewWindow(p)
  <2>1. client[p] = "opening" /\ client[p] \notin Holding
    BY <1>3, <1>6 DEF Pending, Holding
  <2>2. ASSUME NEW s \in {"nospc", "io"}, Tell(p, s, 0),
               UNCHANGED window_type, \A w \in Live : owner'[w] = owner[w]
        PROVE  OwnInv'
    <3>1. /\ reply'[p].status # "ok"
          /\ \A q \in Programs \ {p} : reply'[q] = reply[q]
      BY <1>4, <1>5, <2>2
    <3>2. \A w \in Wids : ~Claims(p, w)'
      BY <1>2, <2>1, <3>1 DEF Claims, Opened
    <3>3. \A q \in Programs \ {p}, w \in Wids : Claims(q, w)' => Claims(q, w)
      BY <1>2, <3>1 DEF Claims, Opened
    <3>4. \A q \in Programs, w \in Wids : Has(q, w) => Has(q, w)'
      BY <2>2 DEF Has, Live
    <3> QED BY <1>2, <3>2, <3>3, <3>4, OwnKept
  <2>3. ASSUME Lowest \in Wids \ Live, OpenedFor(p) PROVE OwnInv'
    <3> DEFINE v == Lowest
    <3>1. v \in Wids /\ v \in 0 .. MaxWindows /\ ~window_type[v]
      BY <2>3, WidsProperties DEF Live
    <3>2. /\ owner' = [owner EXCEPT ![v] = p]
          /\ window_type' = [window_type EXCEPT ![v] = TRUE] /\ Tell(p, "ok", v)
      BY <2>3 DEF OpenedFor
    <3> HIDE DEF v
    <3>3. reply'[p].wid = v /\ \A q \in Programs \ {p} : reply'[q] = reply[q]
      BY <1>4, <3>1, <3>2
    <3>4. ASSUME NEW w \in Wids, Claims(p, w)' PROVE Has(p, w)'
      <4>1. w = v
        BY <1>2, <2>1, <3>3, <3>4 DEF Claims, Opened
      <4> QED BY <1>1, <3>1, <3>2, <4>1 DEF Has, TableTypes, WindowTypes
    <3>5. ASSUME ~user_closed, NEW q \in Programs \ {p}, NEW w \in Wids, Claims(q, w)'
          PROVE  Has(q, w)'
      <4>1. Claims(q, w)
        BY <1>2, <3>3, <3>5 DEF Claims, Opened
      <4>2. Has(q, w) /\ w # v
        BY <3>1, <3>5, <4>1 DEF OwnInv, Has
      <4> QED BY <1>1, <3>1, <3>2, <4>2 DEF Has, TableTypes, WindowTypes
    <3> QED BY <1>2, <3>4, <3>5 DEF OwnInv
  <2>4. ASSUME Lowest \in Wids \ Live, FailedFor(p) PROVE OwnInv'
    <3>1. \A w \in Live : owner'[w] = owner[w]
      BY <1>1, <2>4 DEF FailedFor, WindowTypes, Live
    <3> QED BY <2>2, <2>4, <3>1 DEF FailedFor
  <2>5. CASE Tell(p, "nospc", 0) /\ UNCHANGED <<tableVars, windowVars>>
    BY <2>2, <2>5 DEF tableVars, windowVars
  <2> QED BY <1>6, <2>3, <2>4, <2>5, NewWindowOutcome
<1>7. CASE r.op = "bind" /\ HandleBindSurface(p, r.wid)
  <2>1. client[p] = "binding"
    BY <1>3, <1>7 DEF Pending
  <2>2. Tell(p, "ok", r.wid) \/ Tell(p, "noent", r.wid)
    BY <1>7 DEF HandleBindSurface
  <2>3. \A q \in Programs \ {p} : reply'[q] = reply[q]
    BY <1>4, <1>5, <2>2
  <2>4. \A q \in Programs, w \in Wids : Claims(q, w)' => Claims(q, w)
    BY <1>2, <2>1, <2>3 DEF Claims, Opened, Holding
  <2> QED BY <1>2, <1>7, <2>4, OwnKept DEF HandleBindSurface, tableVars, windowVars, Has
<1>8. CASE r.op = "destroy" /\ HandleDestroyWindow(p, r.wid)
  <2>1. client[p] = "closing" /\ reply[p] = None /\ r.wid = held[p]
    BY <1>3, <1>8 DEF Pending
  <2>2. r.wid \in Wids /\ Claims(p, r.wid)
    BY <2>1 DEF Calls, Known, Claims
  <2>3. Tell(p, "ok", 0) \/ Tell(p, "noent", 0)
    BY <1>8 DEF HandleDestroyWindow
  <2>4. reply'[p] # None /\ \A q \in Programs \ {p} : reply'[q] = reply[q]
    BY <1>4, <1>5, <2>3
  <2>5. \A w \in Wids : ~Claims(p, w)'
    BY <1>2, <2>1, <2>4 DEF Claims, Opened, Holding
  <2>6. \A q \in Programs \ {p}, w \in Wids : Claims(q, w)' => Claims(q, w)
    BY <1>2, <2>4 DEF Claims, Opened
  <2>7. owner' = owner /\ \A w \in Wids \ {r.wid} : window_type'[w] = window_type[w]
    BY <1>1, <1>8 DEF HandleDestroyWindow, Teardown, tableVars, windowVars, TableTypes
  <2>8. ASSUME ~user_closed, NEW q \in Programs \ {p}, NEW w \in Wids, Claims(q, w)
        PROVE  Has(q, w) => Has(q, w)'
    <3>1. w # r.wid
      BY <2>2, <2>8 DEF OwnInv, Has
    <3> QED BY <2>7, <3>1 DEF Has
  <2> QED BY <1>2, <2>5, <2>6, <2>8, OwnKept
<1> QED BY <1>6, <1>7, <1>8 DEF PollOneRequest


LEMMA OwnStep ==
  ASSUME TypeOK, Calls, OwnInv, [Next]_vars
  PROVE  OwnInv'
<1>1. TableTypes /\ WindowTypes
  BY TypeParts
<1>2. CASE PollOneRequest
  BY <1>2, RequestOwn
<1>3. ASSUME NEW p \in Programs, Program(p) PROVE OwnInv'
  BY <1>3, ProgramOwn
<1>4. ASSUME NEW w \in Wids, OwnerExited(w), Teardown(w),
             UNCHANGED <<owner, user_closed, client, held, reply>>
      PROVE  OwnInv'
  <2>1. client[owner[w]] = "exited" /\ \A v \in Wids \ {w} : window_type'[v] = window_type[v]
    BY <1>1, <1>4 DEF OwnerExited, Teardown, TableTypes
  <2>2. \A q \in Programs, v \in Wids : Claims(q, v)' => Claims(q, v) /\ client[q] # "exited"
    BY <1>4 DEF Claims, Opened, Holding
  <2>3. \A q \in Programs, v \in Wids : Claims(q, v)' /\ Has(q, v) => v # w
    BY <2>1, <2>2 DEF Has
  <2> QED BY <1>4, <2>1, <2>2, <2>3, OwnKept DEF Has
<1>5. CASE ScanOwnerExits
  BY <1>4, <1>5, OwnSame DEF ScanOwnerExits, tableVars, windowVars, mouseVars, programVars
<1>6. CASE PollOnePointerEvent
  <2>1. UNCHANGED <<client, held, reply>>
    BY <1>6 DEF PollOnePointerEvent, programVars
  <2>2. ASSUME NEW e, DispatchPointerEvent(e) PROVE OwnInv'
    <3>1. ASSUME NEW w, Teardown(w), user_closed' = TRUE PROVE OwnInv'
      BY <3>1 DEF OwnInv
    <3>2. ASSUME UNCHANGED <<window_type, owner, user_closed>> PROVE OwnInv'
      BY <2>1, <3>2, OwnSame
    <3>3. CASE DragMenu(e) \/ PointAtMenu(e) \/ RightPress(e) \/ LeftRelease(e)
      BY <3>2, <3>3 DEF DragMenu, PointAtMenu, RightPress, LeftRelease, tableVars, windowVars
    <3>4. CASE LeftPress(e)
      BY <3>1, <3>2, <3>4 DEF LeftPress, tableVars, windowVars
    <3>5. CASE UNCHANGED <<menu, tableVars, windowVars, sb, user_closed>>
      BY <3>2, <3>5 DEF tableVars, windowVars
    <3> QED BY <2>2, <3>3, <3>4, <3>5 DEF DispatchPointerEvent, PointAtScreen
  <2>3. CASE UNCHANGED <<pc, tableVars, windowVars, drag, sb, menu, user_closed>>
    BY <2>1, <2>3, OwnSame DEF tableVars, windowVars
  <2> QED BY <1>6, <2>2, <2>3 DEF PollOnePointerEvent
<1>7. CASE PollPointerSubscribes \/ PollKeyboardSubscribes \/ PollKeyboardEvents
  BY <1>7, OwnSame DEF PollPointerSubscribes, PollKeyboardSubscribes, PollKeyboardEvents,
                       tableVars, windowVars, mouseVars, programVars
<1>8. CASE NoRequest \/ FlushMotion \/ NoPointerEvent \/ SupervisorServes \/ User
           \/ UNCHANGED vars
  BY <1>8, OwnSame DEF NoRequest, FlushMotion, NoPointerEvent, SupervisorServes, User, Type,
                       Pointer, vars, tableVars, windowVars, mouseVars, programVars
<1> QED BY <1>2, <1>3, <1>5, <1>6, <1>7, <1>8 DEF Next, Manager

LEMMA OwnExact == TypeOK /\ Calls /\ OwnInv => OwnWindow
<1> SUFFICES ASSUME TypeOK, Calls, OwnInv, ~user_closed,
                    NEW p \in Programs, client[p] \in Holding
             PROVE  HasWindow(p)
  BY DEF OwnWindow
<1>1. held[p] \in Wids /\ Claims(p, held[p])
  BY DEF Calls, Known, Claims
<1> QED BY <1>1 DEF OwnInv, Has, HasWindow

-----------------------------------------------------------------------------
(* The inductive invariant of the manager and its programs.                *)
IInv == TypeOK /\ Calls /\ TableInv /\ OwnInv

LEMMA Invariance == Spec => []IInv
<1>1. Init => IInv
  BY InitTypes, CallsInit, TableInit, OwnInit DEF IInv
<1>2. IInv /\ [Next]_vars => IInv'
  BY TypeStep, CallsStep, TableStep, OwnStep DEF IInv
<1> QED BY <1>1, <1>2, PTL DEF Spec

(* The state stays well-typed: no window leaves the screen, whatever the   *)
(* user drags, no wid but those of the table is ever opened, focused or    *)
(* closed, and what a program sends and is answered has its form.          *)
THEOREM TypeCorrect == Spec => []TypeOK
<1>1. IInv => TypeOK
  BY DEF IInv
<1> QED BY <1>1, Invariance, PTL

(* For any number of windows and programs: the stack lists the live        *)
(* windows, each once, with the focus on the top one; the live windows     *)
(* have all of their objects, and the dead ones neither objects nor        *)
(* subscribers.                                                            *)
THEOREM WindowTableCorrect == Spec => []WindowTable
<1>1. IInv => WindowTable
  BY TableExact DEF IInv
<1> QED BY <1>1, Invariance, PTL

(* Until the user closes a window, a program that has opened one and not   *)
(* asked to close it has it: no request, scan or exit of another program   *)
(* takes it away, and its wid is not given to another.                     *)
THEOREM OwnWindowCorrect == Spec => []OwnWindow
<1>1. IInv => OwnWindow
  BY OwnExact DEF IInv
<1> QED BY <1>1, Invariance, PTL
=============================================================================

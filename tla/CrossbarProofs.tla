--------------------------- MODULE CrossbarProofs ---------------------------
(***************************************************************************)
(* Proofs about Crossbar for any clients, processor numbers, and sizes of  *)
(* kernel buffers.                                                         *)
(***************************************************************************)
EXTENDS Crossbar, SequenceTheorems, TLAPS

(* The variables the table invariant speaks of have their types.  Nothing  *)
(* is needed about the streams.                                            *)
LoopTypes ==
  /\ conn \in [Clients -> {"none", "pending", "open", "dead"}]
  /\ readable \subseteq Clients /\ writable \subseteq Clients
  /\ routing \in Clients \cup {NoClient}
  /\ table = [p \in DOMAIN table |-> table[p]]

(* The table and the connections agree, read from the side of the table.   *)
Holders ==
  \A p \in DOMAIN table : /\ table[p] \in Clients
                          /\ pid[table[p]] = p
                          /\ conn[table[p]] = "open"

LoopInv == LoopTypes /\ Holders /\ TableExact /\ NeverDies

-----------------------------------------------------------------------------
(* Initially nobody is connected. *)
LEMMA LoopInit == Init => LoopInv
BY ClientsAssumption DEF Init, LoopInv, LoopTypes, Holders, TableExact, NeverDies

(* Closing a connection that is not dead gives up its number, keeps the    *)
(* others', and does not stop the loop.                                    *)
LEMMA Closing ==
  ASSUME LoopTypes, Holders, TableExact, NeverDies,
         NEW c \in Clients, conn[c] # "dead", CloseConnection(c)
  PROVE  /\ conn' \in [Clients -> {"none", "pending", "open", "dead"}]
         /\ table' = [p \in DOMAIN table' |-> table'[p]]
         /\ Holders' /\ TableExact' /\ NeverDies'
<1>1. /\ conn' = [conn EXCEPT ![c] = "dead"]
      /\ table' = [p \in {q \in DOMAIN table : table[q] # c} |-> table[p]]
      /\ running' = running
  BY DEF CloseConnection, Restrict
<1>2. DOMAIN table' = {q \in DOMAIN table : table[q] # c}
  BY <1>1
<1>3. \A p \in DOMAIN table' : table'[p] = table[p]
  BY <1>1, <1>2
<1>4. conn' \in [Clients -> {"none", "pending", "open", "dead"}]
  BY <1>1 DEF LoopTypes
<1>5. Holders'
  BY <1>1, <1>2, <1>3 DEF Holders, LoopTypes
<1>6. TableExact'
  BY <1>1, <1>2, <1>3 DEF TableExact, LoopTypes, Holders
<1> QED BY <1>1, <1>4, <1>5, <1>6 DEF NeverDies

(* The same for the effect of a flush, which may end in a close.           *)
LEMMA Flushing ==
  ASSUME LoopTypes, Holders, TableExact, NeverDies,
         NEW c \in Clients, conn[c] # "dead", NEW out, FlushOrClose(c, out)
  PROVE  /\ conn' \in [Clients -> {"none", "pending", "open", "dead"}]
         /\ table' = [p \in DOMAIN table' |-> table'[p]]
         /\ Holders' /\ TableExact' /\ NeverDies'
<1>1. CASE client[c] = "gone"
  BY <1>1, Closing DEF FlushOrClose
<1>2. CASE client[c] # "gone"
  BY <1>2 DEF FlushOrClose, Flush, LoopTypes, Holders, TableExact, NeverDies
<1> QED BY <1>1, <1>2

(* Admitting a client that asked for a free number enters it.              *)
LEMMA Admitting ==
  ASSUME LoopTypes, Holders, TableExact, NeverDies,
         NEW c \in Clients, conn[c] = "pending", pid[c] \notin DOMAIN table,
         Admit(c, pid[c])
  PROVE  /\ conn' \in [Clients -> {"none", "pending", "open", "dead"}]
         /\ table' = [p \in DOMAIN table' |-> table'[p]]
         /\ Holders' /\ TableExact' /\ NeverDies'
<1>1. /\ conn' = [conn EXCEPT ![c] = "open"]
      /\ table' = [x \in DOMAIN table \cup {pid[c]} |->
                     IF x = pid[c] THEN c ELSE table[x]]
      /\ running' = running
  BY DEF Admit
<1>2. DOMAIN table' = DOMAIN table \cup {pid[c]}
  BY <1>1
<1>3. table'[pid[c]] = c /\ \A p \in DOMAIN table : table'[p] = table[p]
  BY <1>1
<1>4. conn' \in [Clients -> {"none", "pending", "open", "dead"}]
  BY <1>1 DEF LoopTypes
<1>5. Holders'
  BY <1>1, <1>2, <1>3 DEF Holders, LoopTypes
<1>6. TableExact'
  BY <1>1, <1>2, <1>3 DEF TableExact, LoopTypes, Holders
<1> QED BY <1>1, <1>4, <1>5, <1>6 DEF NeverDies

(* Every step keeps the invariant. *)
LEMMA LoopStep == LoopInv /\ [Next]_vars => LoopInv'
<1> SUFFICES ASSUME LoopInv, [Next]_vars PROVE LoopInv'
  OBVIOUS
<1> USE DEF LoopInv
<1>1. CASE UNCHANGED <<conn, readable, writable, routing, table, running>>
  BY <1>1 DEF LoopTypes, Holders, TableExact, NeverDies
<1>2. CASE Select
  BY <1>2 DEF Select, Open, LoopTypes, Holders, TableExact, NeverDies
<1>3. ASSUME NEW c \in Clients, Accept(c) PROVE LoopInv'
  BY <1>3 DEF Accept, batch, LoopTypes, Holders, TableExact, NeverDies
<1>4. ASSUME NEW c \in Clients, HandleWritable(c) PROVE LoopInv'
  <2>1. readable' = readable /\ writable' \subseteq writable /\ routing' = routing
    BY <1>4 DEF HandleWritable
  <2>2. CASE conn[c] = "dead"
    BY <1>4, <2>1, <2>2 DEF HandleWritable, LoopTypes, Holders, TableExact, NeverDies
  <2>3. CASE conn[c] # "dead"
    <3>1. FlushOrClose(c, outbuf[c])
      BY <1>4, <2>3 DEF HandleWritable
    <3> QED BY <2>1, <2>3, <3>1, Flushing DEF LoopTypes
  <2> QED BY <2>2, <2>3
<1>5. ASSUME NEW c \in Clients, HandleReadable(c) PROVE LoopInv'
  <2>1. readable' \subseteq readable /\ writable' = writable
    BY <1>5 DEF HandleReadable
  <2>2. CASE conn[c] = "dead"
    BY <1>5, <2>1, <2>2 DEF HandleReadable, LoopTypes, Holders, TableExact, NeverDies
  <2>3. CASE conn[c] # "dead" /\ up[c] # <<>>
    BY <1>5, <2>1, <2>3
    DEF HandleReadable, ReadSome, LoopTypes, Holders, TableExact, NeverDies
  <2>4. CASE conn[c] # "dead" /\ up[c] = <<>>
    <3>1. CloseConnection(c) /\ routing' = routing
      BY <1>5, <2>4 DEF HandleReadable
    <3> QED BY <2>1, <2>4, <3>1, Closing DEF LoopTypes
  <2> QED BY <2>2, <2>3, <2>4
<1>6. ASSUME NEW c \in Clients, HandleHandshake(c) PROVE LoopInv'
  <2>1. readable' = readable /\ writable' = writable /\ conn[c] = "pending"
    BY <1>6 DEF HandleHandshake, batch
  <2>2. CASE TakeHandshake(c) = BadPid \/ TakeHandshake(c) \in DOMAIN table
    <3>1. CloseConnection(c) /\ routing' = NoClient
      BY <1>6, <2>2 DEF HandleHandshake, Reject
    <3> QED BY <2>1, <3>1, Closing DEF LoopTypes
  <2>3. CASE TakeHandshake(c) # BadPid /\ TakeHandshake(c) \notin DOMAIN table
    <3>1. TakeHandshake(c) = pid[c]
      BY <2>3 DEF TakeHandshake
    <3>2. Admit(c, pid[c]) /\ pid[c] \notin DOMAIN table
      BY <1>6, <2>3, <3>1 DEF HandleHandshake
    <3>3. routing' = routing
      BY <3>2 DEF Admit
    <3> QED BY <2>1, <3>2, <3>3, Admitting DEF LoopTypes
  <2> QED BY <2>2, <2>3
<1>7. ASSUME NEW c \in Clients, RoutePacket(c) PROVE LoopInv'
  <2> DEFINE dst == Head(buf[c]).packet.dst
  <2>1. readable' = readable /\ writable' = writable /\ routing' = routing
    BY <1>7 DEF RoutePacket, batch
  <2>2. CASE dst \notin DOMAIN table
    BY <1>7, <2>1, <2>2 DEF RoutePacket, LoopTypes, Holders, TableExact, NeverDies
  <2>3. CASE dst \in DOMAIN table
    <3>1. WritePacket(table[dst], First(buf[c], 2))
      BY <1>7, <2>3 DEF RoutePacket
    <3>2. table[dst] \in Clients /\ conn[table[dst]] # "dead"
      BY <2>3 DEF Holders
    <3> QED BY <2>1, <3>1, <3>2, Flushing DEF WritePacket, LoopTypes
  <2> QED BY <2>2, <2>3
<1>8. ASSUME NEW c \in Clients, DoneReading(c) PROVE LoopInv'
  BY <1>8 DEF DoneReading, batch, LoopTypes, Holders, TableExact, NeverDies
<1>9. ASSUME NEW c \in Clients,
             \/ Connect(c) \/ ReadReply(c) \/ Leave(c)
             \/ \E dst \in Pids : SendPacket(c, dst)
             \/ SendMore(c) \/ Receive(c)
      PROVE  UNCHANGED <<conn, readable, writable, routing, table, running>>
  BY <1>9 DEF Connect, ReadReply, Leave, GoneClient, SendPacket, SendMore, Receive, batch
<1>10. CASE UNCHANGED vars
  BY <1>1, <1>10 DEF vars, batch
<1> QED
  BY <1>1, <1>2, <1>3, <1>4, <1>5, <1>6, <1>7, <1>8, <1>9, <1>10 DEF Next, Loop

(* The invariant holds always. *)
LEMMA LoopCorrect == Spec => []LoopInv
BY LoopInit, LoopStep, PTL DEF Spec

(* A processor number belongs to exactly the client that was told so, from *)
(* its handshake to the close of its connection; and no connection is      *)
(* closed twice, whatever a batch of events does to the connections in it: *)
(* the event loop does not die.                                            *)
THEOREM ConnectionsCorrect == Spec => []Connected
<1>1. LoopInv => Connected
  BY DEF LoopInv, Connected
<1> QED BY <1>1, LoopCorrect, PTL
-----------------------------------------------------------------------------
(* Streams.                                                                *)

LEMMA SeqWider ==
  ASSUME NEW S, NEW T, S \subseteq T, NEW s \in Seq(S)
  PROVE  s \in Seq(T)
BY SeqMonotonic

LEMMA OneItem ==
  ASSUME NEW x
  PROVE  <<x>> # <<>> /\ Len(<<x>>) = 1 /\ Head(<<x>>) = x /\ Tail(<<x>>) = <<>>
OBVIOUS

LEMMA StaysNonEmpty ==
  ASSUME NEW S, NEW s \in Seq(S), NEW t \in Seq(S), s # <<>>
  PROVE  s \o t # <<>>
<1>1. Len(s) \in Nat \ {0} /\ Len(t) \in Nat
  BY EmptySeq, LenProperties
<1>2. Len(s \o t) = Len(s) + Len(t)
  BY ConcatProperties
<1> QED BY <1>1, <1>2

(* The beginning stays where it is when more is added.                     *)
LEMMA HeadConcat ==
  ASSUME NEW S, NEW s \in Seq(S), NEW t \in Seq(S), s # <<>>
  PROVE  /\ s \o t # <<>>
         /\ Head(s \o t) = Head(s)
         /\ Tail(s \o t) = Tail(s) \o t
<1>1. /\ s \o t # <<>> /\ Len(s) \in Nat \ {0} /\ Len(t) \in Nat
  BY StaysNonEmpty, EmptySeq, LenProperties
<1>2. /\ s \o t \in Seq(S) /\ Len(s \o t) = Len(s) + Len(t)
      /\ \A i \in 1..(Len(s) + Len(t)) :
           (s \o t)[i] = IF i <= Len(s) THEN s[i] ELSE t[i - Len(s)]
  BY ConcatProperties
<1>3. Head(s \o t) = Head(s)
  BY <1>1, <1>2, HeadTailProperties
<1>4. /\ Tail(s) \in Seq(S) /\ Len(Tail(s)) = Len(s) - 1
      /\ \A i \in 1..(Len(s) - 1) : Tail(s)[i] = s[i + 1]
  BY <1>1, HeadTailProperties
<1>5. /\ Tail(s \o t) \in Seq(S) /\ Len(Tail(s \o t)) = Len(s) + Len(t) - 1
      /\ \A i \in 1..(Len(s) + Len(t) - 1) : Tail(s \o t)[i] = (s \o t)[i + 1]
  BY <1>1, <1>2, HeadTailProperties
<1> DEFINE a == Tail(s)
           b == Tail(s \o t)
<1>6. /\ a \o t \in Seq(S) /\ Len(a \o t) = Len(s) + Len(t) - 1
      /\ \A i \in 1..(Len(s) + Len(t) - 1) :
           (a \o t)[i] = IF i <= Len(s) - 1 THEN a[i] ELSE t[i - (Len(s) - 1)]
  BY <1>1, <1>4, ConcatProperties
<1>7. \A i \in 1..(Len(s) + Len(t) - 1) : b[i] = (a \o t)[i]
  <2> SUFFICES ASSUME NEW i \in 1..(Len(s) + Len(t) - 1) PROVE b[i] = (a \o t)[i]
    OBVIOUS
  <2>1. CASE i <= Len(s) - 1
    BY <1>1, <1>2, <1>4, <1>5, <1>6, <2>1
  <2>2. CASE ~(i <= Len(s) - 1)
    <3>1. i + 1 \in 1..(Len(s) + Len(t)) /\ ~(i + 1 <= Len(s))
          /\ i + 1 - Len(s) = i - (Len(s) - 1)
      BY <1>1, <2>2
    <3> QED BY <1>2, <1>5, <1>6, <2>2, <3>1
  <2> QED BY <2>1, <2>2
<1> HIDE DEF a, b
<1>8. b = a \o t
  BY <1>5, <1>6, <1>7, SeqEqual DEF b
<1> QED BY <1>1, <1>3, <1>8 DEF a, b

(* Cutting a sequence in two.                                              *)
LEMMA Cutting ==
  ASSUME NEW S, NEW s \in Seq(S), NEW n \in 0..Len(s)
  PROVE  /\ First(s, n) \in Seq(S) /\ Len(First(s, n)) = n
         /\ \A i \in 1..n : First(s, n)[i] = s[i]
         /\ Beyond(s, n) \in Seq(S) /\ Len(Beyond(s, n)) = Len(s) - n
         /\ \A i \in 1..(Len(s) - n) : Beyond(s, n)[i] = s[n + i]
         /\ First(s, n) \o Beyond(s, n) = s
<1>1. Len(s) \in Nat /\ \A i \in 1..Len(s) : s[i] \in S
  BY ElementOfSeq
<1>2. /\ First(s, n) \in Seq(S) /\ Len(First(s, n)) = n
      /\ \A i \in 1..n : First(s, n)[i] = s[i]
  BY <1>1, SubSeqProperties DEF First
<1>3. /\ Beyond(s, n) \in Seq(S) /\ Len(Beyond(s, n)) = Len(s) - n
      /\ \A i \in 1..(Len(s) - n) : Beyond(s, n)[i] = s[n + i]
  BY <1>1, SubSeqProperties DEF Beyond
<1> DEFINE p == First(s, n)
           q == Beyond(s, n)
           r == p \o q
<1> HIDE DEF p, q
<1>4. /\ r \in Seq(S) /\ Len(r) = Len(s)
      /\ \A i \in 1..Len(r) : r[i] = IF i <= n THEN p[i] ELSE q[i - n]
  <2>1. p \in Seq(S) /\ q \in Seq(S) /\ Len(p) = n /\ Len(q) = Len(s) - n
    BY <1>2, <1>3 DEF p, q
  <2> QED BY <1>1, <2>1, ConcatProperties
<1> USE DEF p, q
<1>5. \A i \in 1..Len(r) : r[i] = s[i]
  <2> SUFFICES ASSUME NEW i \in 1..Len(r) PROVE r[i] = s[i]
    OBVIOUS
  <2>1. CASE i <= n
    BY <1>1, <1>2, <1>4, <2>1
  <2>2. CASE ~(i <= n)
    <3>1. i - n \in 1..(Len(s) - n) /\ n + (i - n) = i
      BY <1>1, <1>4, <2>2
    <3> QED BY <1>3, <1>4, <2>2, <3>1
  <2> QED BY <2>1, <2>2
<1>6. r = s
  BY <1>4, <1>5, SeqEqual
<1> QED BY <1>2, <1>3, <1>6

(* What a kernel buffer takes is there, and leaves it within its capacity. *)
LEMMA Fitting ==
  ASSUME NEW S, NEW s \in Seq(S), NEW T, NEW pipe \in Seq(T), Len(pipe) <= Room
  PROVE  Fit(s, pipe) \in 0..Len(s) /\ Len(pipe) + Fit(s, pipe) <= Room
<1>1. Len(s) \in Nat /\ Len(pipe) \in Nat /\ Room \in Nat
  BY RoomAssumption, LenProperties
<1> QED BY <1>1 DEF Fit, Least

(* Replacing what one of the buffers holds.                                *)
LEMMA Storing ==
  ASSUME NEW S, NEW f \in [Clients -> Seq(S)], \A d \in Clients : Len(f[d]) <= Room,
         NEW c \in Clients, NEW s \in Seq(S), Len(s) <= Room,
         NEW h, h = [f EXCEPT ![c] = s]
  PROVE  /\ h \in [Clients -> Seq(S)]
         /\ \A d \in Clients : Len(h[d]) <= Room
<1>1. h \in [Clients -> Seq(S)] /\ h[c] = s /\ \A d \in Clients : d # c => h[d] = f[d]
  OBVIOUS
<1>2. ASSUME NEW d \in Clients PROVE Len(h[d]) <= Room
  <2>1. CASE d = c
    BY <1>1, <2>1
  <2>2. CASE d # c
    BY <1>1, <2>2
  <2> QED BY <2>1, <2>2
<1> QED BY <1>1, <1>2

(* The empty stream is a stream of any kind, and fits everywhere.          *)
LEMMA Nothing ==
  ASSUME NEW S
  PROVE  <<>> \in Seq(S) /\ Len(<<>>) = 0 /\ Len(<<>>) <= Room
BY RoomAssumption

LEMMA Filling ==
  ASSUME NEW S, NEW s \in Seq(S), NEW T, S \subseteq T, NEW pipe \in Seq(T),
         Len(pipe) <= Room
  PROVE  LET n == Fit(s, pipe)
         IN /\ n \in 0..Len(s)
            /\ First(s, n) \in Seq(S) /\ Beyond(s, n) \in Seq(S)
            /\ First(s, n) \o Beyond(s, n) = s
            /\ pipe \o First(s, n) \in Seq(T)
            /\ Len(pipe \o First(s, n)) <= Room
<1> DEFINE n == Fit(s, pipe)
<1>1. n \in 0..Len(s) /\ Len(pipe) + n <= Room
  BY Fitting
<1> HIDE DEF n
<1>2. /\ First(s, n) \in Seq(S) /\ Beyond(s, n) \in Seq(S)
      /\ First(s, n) \o Beyond(s, n) = s /\ Len(First(s, n)) = n
  BY <1>1, Cutting
<1>3. First(s, n) \in Seq(T)
  BY <1>2, SeqWider
<1>4. /\ pipe \o First(s, n) \in Seq(T)
      /\ Len(pipe \o First(s, n)) = Len(pipe) + Len(First(s, n))
  BY <1>3, ConcatProperties
<1> QED BY <1>1, <1>2, <1>4 DEF n

LEMMA HalvesProperties ==
  ASSUME NEW packet \in Packet
  PROVE  /\ Halves(packet) \in Seq(Half) /\ Len(Halves(packet)) = 2
         /\ Halves(packet)[1] = [half |-> "head", packet |-> packet]
         /\ Halves(packet)[2] = [half |-> "tail", packet |-> packet]
BY DEF Halves, Half

(* Of halves alone, a stream has all of them, and half as many packets.    *)
LEMMA FramesType ==
  ASSUME NEW s \in Seq(Half)
  PROVE  /\ Data(s) = s
         /\ Frames(s) \in Seq(Packet)
         /\ Len(Frames(s)) \in Nat
         /\ 2 * Len(Frames(s)) = Len(s) \/ 2 * Len(Frames(s)) + 1 = Len(s)
         /\ \A k \in 1..Len(Frames(s)) : Frames(s)[k] = s[2 * k - 1].packet
<1>1. Len(s) \in Nat /\ \A i \in 1..Len(s) : s[i] \in Half
  BY ElementOfSeq
<1>2. Data(s) = s
  <2>1. s # <<>> => Head(s) \in Half
    BY HeadTailProperties
  <2> QED BY <2>1 DEF Data, IsHalf, Half
<1> DEFINE n == Len(s) \div 2
<1>3. n \in Nat /\ (2 * n = Len(s) \/ 2 * n + 1 = Len(s))
  BY <1>1
<1>4. Frames(s) = [k \in 1..n |-> s[2 * k - 1].packet]
  BY <1>2 DEF Frames
<1> HIDE DEF n
<1>5. \A k \in 1..n : 2 * k - 1 \in 1..Len(s) /\ s[2 * k - 1].packet \in Packet
  BY <1>1, <1>3 DEF Half
<1>6. Frames(s) \in [1..n -> Packet]
  BY <1>4, <1>5
<1>7. Frames(s) \in Seq(Packet) /\ Len(Frames(s)) = n
  BY <1>3, <1>6, SeqDef
<1> QED BY <1>2, <1>3, <1>4, <1>7

-----------------------------------------------------------------------------
(* What the streams of a client hold, by the state of its connection.      *)

(* A greeting at most, and the loop goes on to judge it once it is read.   *)
Greeted(s) == s = <<>> \/ \E greeting \in Greeting : s = <<greeting>>

Unconnected(c) ==
  /\ client[c] \in {"away", "greeting", "gone"}
  /\ rest[c] = <<>> /\ inbuf[c] = <<>> /\ down[c] = <<>> /\ outbuf[c] = <<>>
  /\ ~armed[c] /\ c \notin writable
  /\ Greeted(buf[c]) /\ Greeted(up[c])
  /\ IF routing = c THEN conn[c] = "pending" /\ buf[c] # <<>> /\ up[c] = <<>>
                    ELSE buf[c] = <<>>
  /\ client[c] = "away" => conn[c] = "none" /\ up[c] = <<>>
  /\ c \in readable => conn[c] = "pending" /\ (up[c] # <<>> \/ client[c] = "gone")

(* Halves of packets, behind the reply that the client has not read yet.   *)
Opened(c) ==
  /\ up[c] \in Seq(Half) /\ buf[c] \in Seq(Half)
  /\ client[c] \in {"greeting", "up", "gone"}
  /\ client[c] = "greeting" =>
       /\ rest[c] = <<>> /\ inbuf[c] = <<>>
       /\ down[c] # <<>> /\ Head(down[c]) = [half |-> "ok"]
       /\ Tail(down[c]) \in Seq(Half)
  /\ client[c] = "up" => down[c] \in Seq(Half)
  /\ client[c] = "gone" => rest[c] = <<>> /\ inbuf[c] = <<>> /\ down[c] = <<>>
  /\ c \in readable => up[c] # <<>> \/ client[c] = "gone"

(* Only what handle_readable still holds is left.                          *)
Dead(c) ==
  /\ rest[c] = <<>> /\ inbuf[c] = <<>> /\ outbuf[c] = <<>> /\ up[c] = <<>>
  /\ buf[c] \in Seq(Half)
  /\ \/ client[c] = "gone" /\ down[c] = <<>>
     \/ client[c] = "greeting" /\ down[c] = <<[half |-> "rejected"]>>

Streams(c) ==
  /\ conn[c] \in {"none", "pending"} => Unconnected(c)
  /\ conn[c] = "open" => Opened(c)
  /\ conn[c] = "dead" => Dead(c)

TypeInv == TypeOK /\ \A c \in Clients : Streams(c)

(* A step that is not about d.                                             *)
Untouched(d) ==
  /\ client'[d] = client[d] /\ rest'[d] = rest[d] /\ inbuf'[d] = inbuf[d]
  /\ up'[d] = up[d] /\ down'[d] = down[d] /\ conn'[d] = conn[d]
  /\ buf'[d] = buf[d] /\ outbuf'[d] = outbuf[d]
  /\ armed'[d] = armed[d]
  /\ d \in readable' => d \in readable
  /\ d \in writable' => d \in writable
  /\ routing' = d <=> routing = d

LEMMA UntouchedStreams ==
  ASSUME NEW d \in Clients, Streams(d), Untouched(d)
  PROVE  Streams(d)'
<1>1. CASE conn[d] \in {"none", "pending"}
  BY <1>1 DEF Streams, Untouched, Unconnected, Greeted
<1>2. CASE conn[d] = "open"
  BY <1>2 DEF Streams, Untouched, Opened
<1>3. CASE conn[d] = "dead"
  BY <1>3 DEF Streams, Untouched, Dead
<1>4. CASE conn[d] \notin {"none", "pending", "open", "dead"}
  BY <1>4 DEF Streams, Untouched
<1> QED BY <1>1, <1>2, <1>3, <1>4

(* The kernel buffers of a typed state.                                    *)
LEMMA KernelBuffers ==
  ASSUME TypeOK
  PROVE  /\ up \in [Clients -> Seq(Half \cup Greeting)]
         /\ down \in [Clients -> Seq(Half \cup Reply)]
         /\ \A d \in Clients : Len(up[d]) <= Room
         /\ \A d \in Clients : Len(down[d]) <= Room
BY DEF TypeOK

LEMMA TypeInit == Init => TypeInv
<1> SUFFICES ASSUME Init PROVE TypeInv
  OBVIOUS
<1>1. TypeOK
  BY RoomAssumption DEF Init, TypeOK, Range
<1>2. \A c \in Clients : Streams(c)
  BY ClientsAssumption DEF Init, Streams, Unconnected, Greeted
<1> QED BY <1>1, <1>2 DEF TypeInv

-----------------------------------------------------------------------------
(* The clients' steps keep it.                                             *)

LEMMA ConnectTypes ==
  ASSUME TypeInv, NEW c \in Clients, Connect(c)
  PROVE  TypeInv'
<1> USE DEF TypeInv
<1>1. /\ client[c] = "away" /\ client' = [client EXCEPT ![c] = "greeting"]
      /\ UNCHANGED <<sent, rest, inbuf, got, down, conn, buf, outbuf, armed, table,
                     readable, writable, routing, running>>
  BY DEF Connect, batch
<1>2. PICK good \in BOOLEAN : up' = [up EXCEPT ![c] = <<[half |-> "hello", good |-> good]>>]
  BY DEF Connect
<1> DEFINE g == [half |-> "hello", good |-> good]
<1>3. g \in Greeting /\ <<g>> \in Seq(Half \cup Greeting) /\ Len(<<g>>) = 1
  BY DEF Greeting
<1> HIDE DEF g
<1>4. TypeOK'
  <2>1. up' = [up EXCEPT ![c] = <<g>>]
    BY <1>2 DEF g
  <2>2. /\ up' \in [Clients -> Seq(Half \cup Greeting)]
        /\ \A d \in Clients : Len(up'[d]) <= Room
    <3>1. Len(<<g>>) <= Room
      BY <1>3, RoomAssumption
    <3> QED BY <1>3, <2>1, <3>1, KernelBuffers, Storing
  <2> QED BY <1>1, <2>2 DEF TypeOK
<1>5. \A d \in Clients \ {c} : Untouched(d)
  BY <1>1, <1>2 DEF TypeOK, Untouched
<1>6. Streams(c)'
  <2>1. conn[c] = "none" /\ Unconnected(c)
    BY <1>1 DEF TypeOK, Streams, Unconnected, Opened, Dead
  <2>2. up'[c] = <<g>>
    BY <1>2 DEF TypeOK, g
  <2>3. client'[c] = "greeting" /\ conn'[c] = "none"
    BY <1>1, <2>1 DEF TypeOK
  <2>4. Unconnected(c)'
    BY <1>1, <1>3, <2>1, <2>2, <2>3 DEF Unconnected, Greeted
  <2> QED BY <2>3, <2>4 DEF Streams
<1> QED BY <1>4, <1>5, <1>6, UntouchedStreams

(* Closing empties all that the client had.                                *)
LEMMA GoneClientTypes ==
  ASSUME TypeInv, NEW c \in Clients, client[c] \in {"greeting", "up"}, GoneClient(c)
  PROVE  TypeInv'
<1> USE DEF TypeInv
<1>1. /\ client' = [client EXCEPT ![c] = "gone"]
      /\ rest' = [rest EXCEPT ![c] = <<>>] /\ inbuf' = [inbuf EXCEPT ![c] = <<>>]
      /\ down' = [down EXCEPT ![c] = <<>>]
      /\ UNCHANGED <<sent, got, up, conn, buf, outbuf, armed, table, readable, writable,
                     routing, running>>
  BY DEF GoneClient, batch
<1>2. TypeOK'
  <2>1. /\ down' \in [Clients -> Seq(Half \cup Reply)]
        /\ \A d \in Clients : Len(down'[d]) <= Room
    BY <1>1, KernelBuffers, Nothing, Storing
  <2> QED BY <1>1, <2>1, Nothing DEF TypeOK
<1>3. \A d \in Clients \ {c} : Untouched(d)
  BY <1>1 DEF TypeOK, Untouched
<1>4. Streams(c)'
  <2>1. client'[c] = "gone" /\ rest'[c] = <<>> /\ inbuf'[c] = <<>> /\ down'[c] = <<>>
    BY <1>1 DEF TypeOK
  <2> QED BY <1>1, <2>1 DEF Streams, Unconnected, Opened, Dead, Greeted
<1> QED BY <1>2, <1>3, <1>4, UntouchedStreams

LEMMA ReadReplyTypes ==
  ASSUME TypeInv, NEW c \in Clients, ReadReply(c)
  PROVE  TypeInv'
<1> USE DEF TypeInv
<1>1. client[c] = "greeting" /\ down[c] # <<>>
  BY DEF ReadReply
<1>2. CASE Head(down[c]).half = "ok"
  <2>1. /\ client' = [client EXCEPT ![c] = "up"]
        /\ down' = [down EXCEPT ![c] = Tail(@)]
        /\ UNCHANGED <<sent, rest, inbuf, got, up, conn, buf, outbuf, armed, table,
                       readable, writable, routing, running>>
    BY <1>2 DEF ReadReply, batch
  <2>2. conn[c] = "open" /\ Opened(c)
    BY <1>1, <1>2 DEF TypeOK, Streams, Unconnected, Dead
  <2>3. /\ Tail(down[c]) \in Seq(Half \cup Reply) /\ Len(Tail(down[c])) <= Room
        /\ Tail(down[c]) \in Seq(Half)
    BY <1>1, <2>2, HeadTailProperties, LenProperties, RoomAssumption DEF TypeOK, Opened
  <2>4. TypeOK'
    BY <2>1, <2>3 DEF TypeOK
  <2>5. \A d \in Clients \ {c} : Untouched(d)
    BY <2>1 DEF TypeOK, Untouched
  <2>6. client'[c] = "up" /\ down'[c] = Tail(down[c])
    BY <2>1 DEF TypeOK
  <2>7. Streams(c)'
    BY <2>1, <2>2, <2>3, <2>6 DEF Streams, Opened
  <2> QED BY <2>4, <2>5, <2>7, UntouchedStreams
<1>3. CASE Head(down[c]).half # "ok"
  BY <1>1, <1>3, GoneClientTypes DEF ReadReply
<1> QED BY <1>2, <1>3

LEMMA SendPacketTypes ==
  ASSUME TypeInv, NEW c \in Clients, NEW dst \in Pids, SendPacket(c, dst)
  PROVE  TypeInv'
<1> USE DEF TypeInv
<1> DEFINE packet == [src |-> c, dst |-> dst, n |-> sent + 1]
           halves == Halves(packet)
           n == Fit(halves, up[c])
<1>1. /\ client[c] = "up" /\ rest[c] = <<>> /\ sent < MaxPackets
      /\ sent' = sent + 1
      /\ up' = [up EXCEPT ![c] = up[c] \o First(halves, n)]
      /\ rest' = [rest EXCEPT ![c] = IF c \in Waiting THEN Beyond(halves, n) ELSE <<>>]
      /\ UNCHANGED <<client, inbuf, got, down, conn, buf, outbuf, armed, table,
                     readable, writable, routing, running>>
  BY DEF SendPacket, batch
<1>2. conn[c] = "open" /\ Opened(c)
  BY <1>1 DEF TypeOK, Streams, Unconnected, Dead
<1>3. sent' \in 0..MaxPackets /\ packet \in Packet
  BY <1>1, RoomAssumption DEF TypeOK, Packet
<1>4. halves \in Seq(Half) /\ up[c] \in Seq(Half) /\ Len(up[c]) <= Room
  BY <1>2, <1>3, HalvesProperties DEF TypeOK, Opened
<1> HIDE DEF halves
<1>5. /\ Beyond(halves, n) \in Seq(Half)
      /\ up[c] \o First(halves, n) \in Seq(Half)
      /\ Len(up[c] \o First(halves, n)) <= Room
  BY <1>4, Filling
<1>6. up[c] \o First(halves, n) \in Seq(Half \cup Greeting)
  BY <1>5, SeqWider
<1> DEFINE written == up[c] \o First(halves, n)
           left == IF c \in Waiting THEN Beyond(halves, n) ELSE <<>>
<1>7. left \in Seq(Half)
  BY <1>5, Nothing
<1> HIDE DEF n, written, left
<1>8. up' = [up EXCEPT ![c] = written] /\ rest' = [rest EXCEPT ![c] = left]
  BY <1>1 DEF written, left
<1>9. TypeOK'
  <2>1. /\ up' \in [Clients -> Seq(Half \cup Greeting)]
        /\ \A d \in Clients : Len(up'[d]) <= Room
    BY <1>5, <1>6, <1>8, KernelBuffers, Storing DEF written
  <2>2. rest' \in [Clients -> Seq(Half)]
    BY <1>7, <1>8 DEF TypeOK
  <2>3. UNCHANGED <<client, inbuf, got, down, conn, buf, outbuf, armed, table,
                    readable, writable, routing, running>>
    BY <1>1
  <2> QED BY <1>3, <2>1, <2>2, <2>3 DEF TypeOK
<1>10. \A d \in Clients \ {c} : Untouched(d)
  BY <1>1, <1>8 DEF TypeOK, Untouched
<1>11. Streams(c)'
  <2>1. up'[c] = written /\ up'[c] \in Seq(Half)
    BY <1>5, <1>8 DEF TypeOK, written
  <2>2. c \in readable => up'[c] # <<>>
    <3>1. First(halves, n) \in Seq(Half)
      BY <1>4, Filling DEF n
    <3> QED BY <1>1, <1>2, <1>4, <2>1, <3>1, StaysNonEmpty DEF Opened, written
  <2> QED BY <1>1, <1>2, <2>1, <2>2 DEF Streams, Opened
<1> QED BY <1>9, <1>10, <1>11, UntouchedStreams

LEMMA SendMoreTypes ==
  ASSUME TypeInv, NEW c \in Clients, SendMore(c)
  PROVE  TypeInv'
<1> USE DEF TypeInv
<1> DEFINE n == Fit(rest[c], up[c])
           written == up[c] \o First(rest[c], n)
           left == Beyond(rest[c], n)
<1>1. /\ n > 0
      /\ up' = [up EXCEPT ![c] = written]
      /\ rest' = [rest EXCEPT ![c] = left]
      /\ UNCHANGED <<client, sent, inbuf, got, down, conn, buf, outbuf, armed, table,
                     readable, writable, routing, running>>
  BY DEF SendMore, batch
<1>2. rest[c] # <<>>
  <2>1. Len(up[c]) \in Nat /\ Len(up[c]) <= Room /\ Room \in Nat
    BY RoomAssumption, LenProperties DEF TypeOK
  <2>2. rest[c] = <<>> => Len(rest[c]) = 0
    OBVIOUS
  <2>3. rest[c] = <<>> => n = 0
    BY <2>1, <2>2 DEF Fit, Least
  <2> QED BY <1>1, <2>3
<1>3. client[c] = "up" /\ conn[c] = "open" /\ Opened(c)
  BY <1>2 DEF TypeOK, Streams, Unconnected, Dead, Opened
<1>4. rest[c] \in Seq(Half) /\ up[c] \in Seq(Half) /\ Len(up[c]) <= Room
  BY <1>3 DEF TypeOK, Opened
<1>5. left \in Seq(Half) /\ written \in Seq(Half) /\ Len(written) <= Room
  BY <1>4, Filling
<1>6. written \in Seq(Half \cup Greeting)
  BY <1>5, SeqWider
<1> HIDE DEF n, written, left
<1>7. TypeOK'
  <2>1. /\ up' \in [Clients -> Seq(Half \cup Greeting)]
        /\ \A d \in Clients : Len(up'[d]) <= Room
    BY <1>1, <1>5, <1>6, KernelBuffers, Storing
  <2> QED BY <1>1, <1>5, <2>1 DEF TypeOK
<1>8. \A d \in Clients \ {c} : Untouched(d)
  BY <1>1 DEF TypeOK, Untouched
<1>9. Streams(c)'
  <2>1. up'[c] = written /\ up'[c] \in Seq(Half)
    BY <1>1, <1>5 DEF TypeOK
  <2>2. c \in readable => up'[c] # <<>>
    <3>1. First(rest[c], n) \in Seq(Half)
      BY <1>4, Filling DEF n
    <3> QED BY <1>1, <1>3, <1>4, <2>1, <3>1, StaysNonEmpty DEF Opened, written
  <2> QED BY <1>1, <1>3, <2>1, <2>2 DEF Streams, Opened
<1> QED BY <1>7, <1>8, <1>9, UntouchedStreams

LEMMA ReceiveTypes ==
  ASSUME TypeInv, NEW c \in Clients, Receive(c)
  PROVE  TypeInv'
<1> USE DEF TypeInv
<1> DEFINE s == inbuf[c] \o down[c]
           n == Len(Frames(s))
<1>1. /\ client[c] = "up" /\ rest[c] = <<>> /\ down[c] # <<>>
      /\ got' = [got EXCEPT ![c] = got[c] \o Frames(s)]
      /\ inbuf' = [inbuf EXCEPT ![c] = Beyond(s, 2 * n)]
      /\ down' = [down EXCEPT ![c] = <<>>]
      /\ UNCHANGED <<client, sent, rest, up, conn, buf, outbuf, armed, table,
                     readable, writable, routing, running>>
  BY DEF Receive, batch
<1>2. conn[c] = "open" /\ Opened(c)
  BY <1>1 DEF TypeOK, Streams, Unconnected, Dead
<1>3. s \in Seq(Half)
  BY <1>1, <1>2, ConcatProperties DEF TypeOK, Opened
<1> HIDE DEF s
<1>4. Frames(s) \in Seq(Packet) /\ 2 * n \in 0..Len(s)
  BY <1>3, FramesType, LenProperties
<1>5. Beyond(s, 2 * n) \in Seq(Half)
  BY <1>3, <1>4, Cutting
<1> DEFINE received == got[c] \o Frames(s)
           kept == Beyond(s, 2 * n)
<1>6. received \in Seq(Packet)
  BY <1>4, ConcatProperties DEF TypeOK
<1> HIDE DEF n, received, kept
<1>7. got' = [got EXCEPT ![c] = received] /\ inbuf' = [inbuf EXCEPT ![c] = kept]
  BY <1>1 DEF received, kept
<1>8. TypeOK'
  <2>1. /\ down' \in [Clients -> Seq(Half \cup Reply)]
        /\ \A d \in Clients : Len(down'[d]) <= Room
    BY <1>1, KernelBuffers, Nothing, Storing
  <2>2. inbuf' \in [Clients -> Seq(Half)]
    BY <1>5, <1>7 DEF TypeOK, kept
  <2>3. got' \in [Clients -> Seq(Packet)]
    BY <1>6, <1>7 DEF TypeOK
  <2>4. UNCHANGED <<client, sent, rest, up, conn, buf, outbuf, armed, table,
                    readable, writable, routing, running>>
    BY <1>1
  <2> QED BY <2>1, <2>2, <2>3, <2>4 DEF TypeOK
<1>9. \A d \in Clients \ {c} : Untouched(d)
  BY <1>1, <1>7 DEF TypeOK, Untouched
<1>10. Streams(c)'
  <2>1. down'[c] = <<>> /\ down'[c] \in Seq(Half)
    BY <1>1, Nothing DEF TypeOK
  <2> QED BY <1>1, <1>2, <2>1 DEF Streams, Opened
<1> QED BY <1>8, <1>9, <1>10, UntouchedStreams

-----------------------------------------------------------------------------
(* The crossbar's steps keep it.                                           *)

LEMMA AcceptTypes ==
  ASSUME TypeInv, NEW c \in Clients, Accept(c)
  PROVE  TypeInv'
<1> USE DEF TypeInv
<1>1. /\ conn[c] = "none" /\ client[c] # "away"
      /\ conn' = [conn EXCEPT ![c] = "pending"]
      /\ UNCHANGED <<client, sent, rest, inbuf, got, up, down, buf, outbuf, armed,
                     table, readable, writable, routing, running>>
  BY DEF Accept, clientVars, batch
<1>2. TypeOK'
  BY <1>1 DEF TypeOK
<1>3. \A d \in Clients \ {c} : Untouched(d)
  BY <1>1 DEF TypeOK, Untouched
<1>4. Streams(c)'
  <2>1. conn'[c] = "pending"
    BY <1>1 DEF TypeOK
  <2>2. Unconnected(c)
    BY <1>1 DEF Streams
  <2> QED BY <1>1, <2>1, <2>2 DEF Streams, Unconnected, Greeted
<1> QED BY <1>2, <1>3, <1>4, UntouchedStreams

LEMMA SelectTypes ==
  ASSUME TypeInv, Select
  PROVE  TypeInv'
<1> USE DEF TypeInv
<1>1. /\ readable' = {c \in Open : up[c] # <<>> \/ client[c] = "gone"}
      /\ writable' = {c \in Open : armed[c] /\ (Len(down[c]) < Room \/ client[c] = "gone")}
      /\ UNCHANGED <<client, sent, rest, inbuf, got, up, down, conn, buf, outbuf,
                     armed, table, routing, running>>
  BY DEF Select, clientVars
<1>2. readable' \subseteq Clients /\ writable' \subseteq Clients
  BY <1>1 DEF Open
<1>3. TypeOK'
  BY <1>1, <1>2 DEF TypeOK
<1>4. ASSUME NEW d \in Clients PROVE Streams(d)'
  <2>1. /\ d \in readable' => /\ conn[d] \in {"pending", "open"}
                              /\ up[d] # <<>> \/ client[d] = "gone"
        /\ d \in writable' => armed[d]
    BY <1>1 DEF Open
  <2>2. CASE conn[d] \in {"none", "pending"}
    BY <1>1, <2>1, <2>2 DEF Streams, Unconnected, Greeted
  <2>3. CASE conn[d] \notin {"none", "pending"}
    BY <1>1, <2>1, <2>3 DEF Streams, Opened, Dead
  <2> QED BY <2>2, <2>3
<1> QED BY <1>3, <1>4

(* What close_connection assigns has its type, ...                         *)
LEMMA ClosingTypes ==
  ASSUME TypeOK, NEW c \in Clients, CloseConnection(c)
  PROVE  /\ conn' = [conn EXCEPT ![c] = "dead"]
         /\ conn' \in [Clients -> {"none", "pending", "open", "dead"}]
         /\ DOMAIN table' \subseteq Pids /\ Range(table') \subseteq Clients
         /\ up' = [up EXCEPT ![c] = <<>>]
         /\ up' \in [Clients -> Seq(Half \cup Greeting)]
         /\ \A d \in Clients : Len(up'[d]) <= Room
         /\ outbuf' = [outbuf EXCEPT ![c] = <<>>]
         /\ outbuf' \in [Clients -> Seq(Half)]
         /\ armed' = [armed EXCEPT ![c] = FALSE]
         /\ armed' \in [Clients -> BOOLEAN]
         /\ running' \in BOOLEAN
<1>1. /\ conn' = [conn EXCEPT ![c] = "dead"]
      /\ table' = [p \in {p \in DOMAIN table : table[p] # c} |-> table[p]]
      /\ up' = [up EXCEPT ![c] = <<>>]
      /\ outbuf' = [outbuf EXCEPT ![c] = <<>>]
      /\ armed' = [armed EXCEPT ![c] = FALSE]
      /\ running' \in BOOLEAN
  BY DEF CloseConnection, Restrict, TypeOK
<1>2. DOMAIN table' \subseteq Pids /\ Range(table') \subseteq Clients
  <2>1. DOMAIN table' = {p \in DOMAIN table : table[p] # c}
    BY <1>1
  <2>2. \A p \in DOMAIN table' : table'[p] = table[p]
    BY <1>1, <2>1
  <2>3. DOMAIN table \subseteq Pids /\ \A p \in DOMAIN table : table[p] \in Clients
    BY DEF TypeOK, Range
  <2> QED BY <2>1, <2>2, <2>3 DEF Range
<1>3. /\ up' \in [Clients -> Seq(Half \cup Greeting)]
      /\ \A d \in Clients : Len(up'[d]) <= Room
  BY <1>1, KernelBuffers, Nothing, Storing
<1>4. /\ conn' \in [Clients -> {"none", "pending", "open", "dead"}]
      /\ armed' \in [Clients -> BOOLEAN]
  BY <1>1 DEF TypeOK
<1>5. outbuf' \in [Clients -> Seq(Half)]
  BY <1>1, Nothing DEF TypeOK
<1> QED BY <1>1, <1>2, <1>3, <1>4, <1>5

(* ... and leaves nothing of a client that has gone.                       *)
LEMMA ClosingStreams ==
  ASSUME TypeOK, NEW c \in Clients, CloseConnection(c), Streams(c),
         client[c] = "gone", UNCHANGED <<client, rest, inbuf, down>>,
         buf'[c] \in Seq(Half)
  PROVE  Streams(c)'
<1>1. conn'[c] = "dead" /\ up'[c] = <<>> /\ outbuf'[c] = <<>>
  <2>1. /\ conn' = [conn EXCEPT ![c] = "dead"]
        /\ up' = [up EXCEPT ![c] = <<>>]
        /\ outbuf' = [outbuf EXCEPT ![c] = <<>>]
    BY ClosingTypes
  <2> QED BY <2>1 DEF TypeOK
<1>2. rest[c] = <<>> /\ inbuf[c] = <<>> /\ down[c] = <<>>
  BY DEF Streams, Unconnected, Opened, Dead, TypeOK
<1> QED BY <1>1, <1>2 DEF Streams, Dead

(* What a flush assigns has its type, and is cut where the room ends.      *)
LEMMA FlushTypes ==
  ASSUME TypeOK, NEW c \in Clients, NEW out \in Seq(Half), Flush(c, out)
  PROVE  /\ UNCHANGED <<conn, table, up, running>>
         /\ down' \in [Clients -> Seq(Half \cup Reply)]
         /\ \A d \in Clients : Len(down'[d]) <= Room
         /\ outbuf' \in [Clients -> Seq(Half)]
         /\ armed' \in [Clients -> BOOLEAN]
         /\ \A d \in Clients \ {c} : /\ down'[d] = down[d] /\ outbuf'[d] = outbuf[d]
                                     /\ armed'[d] = armed[d]
         /\ \E n \in 0..Len(out) : /\ down'[c] = down[c] \o First(out, n)
                                   /\ outbuf'[c] = Beyond(out, n)
                                   /\ First(out, n) \in Seq(Half)
                                   /\ First(out, n) \o Beyond(out, n) = out
<1> DEFINE n == Fit(out, down[c])
           written == down[c] \o First(out, n)
           left == Beyond(out, n)
           more == n < Len(out)
<1>1. /\ down' = [down EXCEPT ![c] = written]
      /\ outbuf' = [outbuf EXCEPT ![c] = left]
      /\ armed' = [armed EXCEPT ![c] = more]
      /\ UNCHANGED <<conn, table, up, running>>
  BY DEF Flush
<1>2. down[c] \in Seq(Half \cup Reply) /\ Len(down[c]) <= Room
  BY KernelBuffers
<1>3. /\ n \in 0..Len(out)
      /\ First(out, n) \in Seq(Half) /\ left \in Seq(Half)
      /\ First(out, n) \o left = out
      /\ written \in Seq(Half \cup Reply) /\ Len(written) <= Room
  BY <1>2, Filling
<1>4. more \in BOOLEAN
  OBVIOUS
<1> HIDE DEF n, written, left, more
<1>5. /\ down' \in [Clients -> Seq(Half \cup Reply)]
      /\ \A d \in Clients : Len(down'[d]) <= Room
  BY <1>1, <1>3, KernelBuffers, Storing
<1>6. outbuf' \in [Clients -> Seq(Half)]
  BY <1>1, <1>3 DEF TypeOK
<1>7. armed' \in [Clients -> BOOLEAN]
  BY <1>1, <1>4, Zenon DEF TypeOK
<1>8. \A d \in Clients \ {c} : /\ down'[d] = down[d] /\ outbuf'[d] = outbuf[d]
                               /\ armed'[d] = armed[d]
  BY <1>1 DEF TypeOK
<1>9. down'[c] = down[c] \o First(out, n) /\ outbuf'[c] = Beyond(out, n)
  BY <1>1 DEF TypeOK, written, left
<1> QED BY <1>1, <1>3, <1>5, <1>6, <1>7, <1>8, <1>9 DEF left

(* A flush to an open connection keeps its streams.                        *)
LEMMA FlushStreams ==
  ASSUME TypeOK, NEW c \in Clients, NEW out \in Seq(Half), Flush(c, out), Streams(c),
         conn[c] = "open", client[c] # "gone",
         UNCHANGED <<client, rest, inbuf, readable, routing>>, buf'[c] \in Seq(Half)
  PROVE  Streams(c)'
<1>1. Opened(c) /\ UNCHANGED <<conn, up>>
  BY FlushTypes DEF Streams
<1>2. PICK n \in 0..Len(out) : down'[c] = down[c] \o First(out, n) /\ First(out, n) \in Seq(Half)
  BY FlushTypes
<1> DEFINE more == First(out, n)
<1>3. more \in Seq(Half) /\ down'[c] = down[c] \o more
  BY <1>2
<1> HIDE DEF more
<1>4. CASE client[c] = "up"
  <2>1. down'[c] \in Seq(Half)
    BY <1>1, <1>3, <1>4, ConcatProperties DEF Opened
  <2> QED BY <1>1, <1>4, <2>1 DEF Streams, Opened
<1>5. CASE client[c] = "greeting"
  <2>1. /\ down[c] \in Seq(Half \cup Reply) /\ down[c] # <<>>
        /\ Tail(down[c]) \in Seq(Half) /\ Head(down[c]) = [half |-> "ok"]
    BY <1>1, <1>5, KernelBuffers DEF Opened
  <2>2. more \in Seq(Half \cup Reply)
    BY <1>3, SeqWider
  <2>3. /\ down'[c] # <<>> /\ Head(down'[c]) = Head(down[c])
        /\ Tail(down'[c]) = Tail(down[c]) \o more
    <3> DEFINE s == down[c]
    <3>1. s \in Seq(Half \cup Reply) /\ s # <<>>
      BY <2>1
    <3> HIDE DEF s
    <3>2. /\ s \o more # <<>> /\ Head(s \o more) = Head(s)
          /\ Tail(s \o more) = Tail(s) \o more
      BY <2>2, <3>1, HeadConcat
    <3> QED BY <1>3, <3>2 DEF s
  <2>4. Tail(down'[c]) \in Seq(Half)
    BY <1>3, <2>1, <2>3, ConcatProperties
  <2> QED BY <1>1, <1>5, <2>1, <2>3, <2>4 DEF Streams, Opened
<1> QED BY <1>1, <1>4, <1>5 DEF Opened

(* Either way, flush_outbound is about one connection.                     *)
LEMMA FlushOrCloseTypes ==
  ASSUME TypeInv, NEW c \in Clients, NEW out \in Seq(Half), FlushOrClose(c, out),
         conn[c] = "open", UNCHANGED <<client, rest, inbuf, readable, routing>>,
         buf'[c] \in Seq(Half)
  PROVE  /\ conn' \in [Clients -> {"none", "pending", "open", "dead"}]
         /\ DOMAIN table' \subseteq Pids /\ Range(table') \subseteq Clients
         /\ up' \in [Clients -> Seq(Half \cup Greeting)]
         /\ down' \in [Clients -> Seq(Half \cup Reply)]
         /\ \A d \in Clients : Len(up'[d]) <= Room /\ Len(down'[d]) <= Room
         /\ outbuf' \in [Clients -> Seq(Half)]
         /\ armed' \in [Clients -> BOOLEAN]
         /\ running' \in BOOLEAN
         /\ \A d \in Clients \ {c} :
              /\ conn'[d] = conn[d] /\ up'[d] = up[d] /\ down'[d] = down[d]
              /\ outbuf'[d] = outbuf[d] /\ armed'[d] = armed[d]
         /\ Streams(c)'
<1>1. TypeOK /\ Streams(c)
  BY DEF TypeInv
<1>2. CASE client[c] = "gone"
  <2>1. CloseConnection(c) /\ UNCHANGED down
    BY <1>2 DEF FlushOrClose
  <2>2. Streams(c)'
    BY <1>1, <1>2, <2>1, ClosingStreams
  <2>3. /\ down' \in [Clients -> Seq(Half \cup Reply)]
        /\ \A d \in Clients : Len(down'[d]) <= Room
    BY <1>1, <2>1, KernelBuffers
  <2>4. /\ conn' = [conn EXCEPT ![c] = "dead"] /\ up' = [up EXCEPT ![c] = <<>>]
        /\ outbuf' = [outbuf EXCEPT ![c] = <<>>]
        /\ armed' = [armed EXCEPT ![c] = FALSE]
    BY <1>1, <2>1, ClosingTypes
  <2>5. \A d \in Clients \ {c} :
              /\ conn'[d] = conn[d] /\ up'[d] = up[d] /\ down'[d] = down[d]
              /\ outbuf'[d] = outbuf[d] /\ armed'[d] = armed[d]
    BY <1>1, <2>1, <2>4 DEF TypeOK
  <2> QED BY <1>1, <2>1, <2>2, <2>3, <2>5, ClosingTypes
<1>3. CASE client[c] # "gone"
  <2>1. Flush(c, out)
    BY <1>3 DEF FlushOrClose
  <2>2. Streams(c)'
    BY <1>1, <1>3, <2>1, FlushStreams
  <2>3. UNCHANGED <<conn, table, up, running>>
    BY <1>1, <2>1, FlushTypes
  <2>4. /\ conn \in [Clients -> {"none", "pending", "open", "dead"}]
        /\ DOMAIN table \subseteq Pids /\ Range(table) \subseteq Clients
        /\ running \in BOOLEAN
    BY <1>1 DEF TypeOK
  <2> QED BY <1>1, <2>1, <2>2, <2>3, <2>4, FlushTypes, KernelBuffers
<1> QED BY <1>2, <1>3

LEMMA HandleWritableTypes ==
  ASSUME TypeInv, NEW c \in Clients, HandleWritable(c)
  PROVE  TypeInv'
<1>1. /\ c \in writable /\ writable' = writable \ {c}
      /\ UNCHANGED <<client, sent, rest, inbuf, got, buf, readable, routing>>
  BY DEF HandleWritable, clientVars
<1>2. TypeOK /\ \A d \in Clients : Streams(d)
  BY DEF TypeInv
<1>3. CASE conn[c] = "dead"
  <2>1. UNCHANGED <<up, down, conn, outbuf, armed, table, running>>
    BY <1>3 DEF HandleWritable
  <2>2. TypeOK'
    BY <1>1, <1>2, <2>1 DEF TypeOK
  <2>3. \A d \in Clients : Untouched(d)
    BY <1>1, <2>1 DEF Untouched
  <2> QED BY <1>2, <2>2, <2>3, UntouchedStreams DEF TypeInv
<1>4. CASE conn[c] # "dead"
  <2>1. FlushOrClose(c, outbuf[c])
    BY <1>4 DEF HandleWritable
  <2>2. conn[c] = "open" /\ buf'[c] \in Seq(Half) /\ outbuf[c] \in Seq(Half)
    BY <1>1, <1>2, <1>4 DEF TypeOK, Streams, Unconnected, Opened
  <2>3. /\ conn' \in [Clients -> {"none", "pending", "open", "dead"}]
        /\ DOMAIN table' \subseteq Pids /\ Range(table') \subseteq Clients
        /\ up' \in [Clients -> Seq(Half \cup Greeting)]
        /\ down' \in [Clients -> Seq(Half \cup Reply)]
        /\ \A d \in Clients : Len(up'[d]) <= Room /\ Len(down'[d]) <= Room
        /\ outbuf' \in [Clients -> Seq(Half)]
        /\ armed' \in [Clients -> BOOLEAN]
        /\ running' \in BOOLEAN
        /\ \A d \in Clients \ {c} :
             /\ conn'[d] = conn[d] /\ up'[d] = up[d] /\ down'[d] = down[d]
             /\ outbuf'[d] = outbuf[d] /\ armed'[d] = armed[d]
        /\ Streams(c)'
    BY <1>1, <2>1, <2>2, FlushOrCloseTypes
  <2>4. writable' \subseteq Clients
    BY <1>1, <1>2 DEF TypeOK
  <2>5. TypeOK'
    BY <1>1, <1>2, <2>3, <2>4 DEF TypeOK
  <2>6. \A d \in Clients \ {c} : Untouched(d)
    BY <1>1, <2>3 DEF Untouched
  <2> QED BY <1>2, <2>3, <2>5, <2>6, UntouchedStreams DEF TypeInv
<1> QED BY <1>3, <1>4

LEMMA HandleReadableTypes ==
  ASSUME TypeInv, NEW c \in Clients, HandleReadable(c)
  PROVE  TypeInv'
<1>1. /\ routing = NoClient /\ c \in readable /\ readable' = readable \ {c}
      /\ UNCHANGED <<client, sent, rest, inbuf, got, down, writable>>
  BY DEF HandleReadable, clientVars
<1>2. TypeOK /\ \A d \in Clients : Streams(d)
  BY DEF TypeInv
<1>3. readable' \subseteq Clients /\ c \notin readable' /\ routing # c
  BY <1>1, <1>2, ClientsAssumption DEF TypeOK
<1>4. CASE conn[c] = "dead"
  <2>1. UNCHANGED <<up, conn, buf, outbuf, armed, table, routing, running>>
    BY <1>4 DEF HandleReadable
  <2>2. TypeOK'
    BY <1>1, <1>2, <1>3, <2>1 DEF TypeOK
  <2>3. \A d \in Clients : Untouched(d)
    BY <1>1, <2>1 DEF Untouched
  <2> QED BY <1>2, <2>2, <2>3, UntouchedStreams DEF TypeInv
<1>5. CASE conn[c] # "dead" /\ up[c] # <<>>
  <2>1. ReadSome(c)
    BY <1>5 DEF HandleReadable
  <2>2. PICK n \in 1..Len(up[c]) : /\ buf' = [buf EXCEPT ![c] = buf[c] \o First(up[c], n)]
                                   /\ up' = [up EXCEPT ![c] = Beyond(up[c], n)]
    BY <2>1 DEF ReadSome
  <2>3. routing' = c /\ UNCHANGED <<conn, outbuf, armed, table, running>>
    BY <2>1 DEF ReadSome
  <2> DEFINE more == First(up[c], n)
             left == Beyond(up[c], n)
             read == buf[c] \o more
  <2>4. /\ up[c] \in Seq(Half \cup Greeting) /\ buf[c] \in Seq(Half \cup Greeting)
        /\ Len(up[c]) <= Room /\ Len(up[c]) \in Nat /\ Room \in Nat
        /\ n \in 0..Len(up[c])
    BY <1>2, KernelBuffers, LenProperties, RoomAssumption DEF TypeOK
  <2>5. /\ more \in Seq(Half \cup Greeting) /\ left \in Seq(Half \cup Greeting)
        /\ Len(left) = Len(up[c]) - n /\ Len(left) <= Room
    BY <2>4, Cutting
  <2>6. read \in Seq(Half \cup Greeting)
    BY <2>4, <2>5, ConcatProperties
  <2> HIDE DEF more, left, read
  <2>7. buf' = [buf EXCEPT ![c] = read] /\ up' = [up EXCEPT ![c] = left]
    BY <2>2 DEF more, left, read
  <2>8. TypeOK'
    <3>1. /\ up' \in [Clients -> Seq(Half \cup Greeting)]
          /\ \A d \in Clients : Len(up'[d]) <= Room
      BY <1>2, <2>5, <2>7, KernelBuffers, Storing
    <3>2. buf' \in [Clients -> Seq(Half \cup Greeting)]
      BY <1>2, <2>6, <2>7 DEF TypeOK
    <3> QED BY <1>1, <1>2, <1>3, <2>3, <3>1, <3>2 DEF TypeOK
  <2>9. \A d \in Clients \ {c} : Untouched(d)
    BY <1>1, <1>2, <2>3, <2>7, ClientsAssumption DEF TypeOK, Untouched
  <2>10. conn'[c] = conn[c] /\ buf'[c] = read /\ up'[c] = left
    BY <1>2, <2>3, <2>7 DEF TypeOK
  <2>11. Streams(c)'
    <3>1. CASE conn[c] = "open"
      <4>1. Opened(c) /\ up[c] \in Seq(Half) /\ buf[c] \in Seq(Half)
        BY <1>2, <3>1 DEF Streams, Opened
      <4>2. more \in Seq(Half) /\ left \in Seq(Half)
        BY <2>4, <4>1, Cutting DEF more, left
      <4>3. read \in Seq(Half)
        BY <4>1, <4>2, ConcatProperties DEF read
      <4> QED BY <1>1, <1>3, <2>10, <3>1, <4>1, <4>2, <4>3 DEF Streams, Opened
    <3>2. CASE conn[c] \in {"none", "pending"}
      <4>1. Unconnected(c) /\ conn[c] = "pending"
        BY <1>1, <1>2, <3>2 DEF Streams, Unconnected
      <4>2. PICK greeting \in Greeting : up[c] = <<greeting>>
        BY <1>5, <4>1 DEF Unconnected, Greeted
      <4>3. buf[c] = <<>> /\ n = 1 /\ Len(up[c]) = 1
        BY <1>3, <4>1, <4>2 DEF Unconnected
      <4>4. left = <<>>
        BY <2>5, <4>3, EmptySeq
      <4>5. read = <<greeting>>
        <5>1. more \o left = up[c]
          BY <2>4, Cutting DEF more, left
        <5>2. more = up[c]
          BY <2>5, <4>4, <5>1, ConcatEmptySeq
        <5> QED BY <2>5, <4>2, <4>3, <5>2, ConcatEmptySeq DEF read
      <4> QED BY <1>1, <1>3, <2>3, <2>10, <4>1, <4>4, <4>5 DEF Streams, Unconnected, Greeted
    <3>3. conn[c] \in {"none", "pending", "open"}
      BY <1>2, <1>5 DEF TypeOK
    <3> QED BY <3>1, <3>2, <3>3
  <2> QED BY <1>2, <2>8, <2>9, <2>11, UntouchedStreams DEF TypeInv
<1>6. CASE conn[c] # "dead" /\ up[c] = <<>>
  <2>1. CloseConnection(c) /\ buf' = [buf EXCEPT ![c] = <<>>] /\ routing' = routing
    BY <1>6 DEF HandleReadable
  <2>2. client[c] = "gone"
    BY <1>1, <1>2, <1>6 DEF TypeOK, Streams, Unconnected, Opened
  <2>3. buf' \in [Clients -> Seq(Half \cup Greeting)]
    BY <1>2, <2>1, Nothing DEF TypeOK
  <2>4. buf'[c] \in Seq(Half)
    BY <1>2, <2>1, Nothing DEF TypeOK
  <2>5. /\ conn' = [conn EXCEPT ![c] = "dead"] /\ up' = [up EXCEPT ![c] = <<>>]
        /\ outbuf' = [outbuf EXCEPT ![c] = <<>>]
        /\ armed' = [armed EXCEPT ![c] = FALSE]
    BY <1>2, <2>1, ClosingTypes
  <2>6. TypeOK'
    <3>1. /\ conn' \in [Clients -> {"none", "pending", "open", "dead"}]
          /\ DOMAIN table' \subseteq Pids /\ Range(table') \subseteq Clients
          /\ up' \in [Clients -> Seq(Half \cup Greeting)]
          /\ \A d \in Clients : Len(up'[d]) <= Room
          /\ outbuf' \in [Clients -> Seq(Half)]
          /\ armed' \in [Clients -> BOOLEAN]
          /\ running' \in BOOLEAN
      BY <1>2, <2>1, ClosingTypes
    <3> QED BY <1>1, <1>2, <1>3, <2>1, <2>3, <3>1 DEF TypeOK
  <2>7. \A d \in Clients \ {c} : Untouched(d)
    BY <1>1, <1>2, <2>1, <2>5 DEF TypeOK, Untouched
  <2>8. Streams(c)'
    BY <1>1, <1>2, <2>1, <2>2, <2>4, ClosingStreams
  <2> QED BY <1>2, <2>6, <2>7, <2>8, UntouchedStreams DEF TypeInv
<1> QED BY <1>4, <1>5, <1>6

LEMMA HandleHandshakeTypes ==
  ASSUME TypeInv, NEW c \in Clients, HandleHandshake(c)
  PROVE  TypeInv'
<1>1. /\ routing = c /\ conn[c] = "pending"
      /\ UNCHANGED <<client, sent, rest, inbuf, got, readable, writable>>
  BY DEF HandleHandshake, clientVars, batch
<1>2. TypeOK /\ \A d \in Clients : Streams(d)
  BY DEF TypeInv
<1>3. Unconnected(c) /\ buf[c] # <<>> /\ up[c] = <<>>
  BY <1>1, <1>2 DEF Streams, Unconnected
<1>4. /\ c \notin readable \/ client[c] = "gone"
      /\ routing # NoClient
  BY <1>1, <1>3, ClientsAssumption DEF Unconnected
<1> DEFINE Answer(status) == IF client[c] = "gone" THEN <<>> ELSE <<[half |-> status]>>
<1>5. ASSUME NEW status \in {"ok", "rejected"}, WriteReply(c, status)
      PROVE  /\ down' = [down EXCEPT ![c] = Answer(status)]
             /\ down' \in [Clients -> Seq(Half \cup Reply)]
             /\ \A d \in Clients : Len(down'[d]) <= Room
  <2> DEFINE item == [half |-> status]
  <2>1. item \in Reply
    BY DEF Reply
  <2>2. down[c] = <<>>
    BY <1>3 DEF Unconnected
  <2> HIDE DEF item
  <2>3. Append(down[c], item) = <<item>>
    BY <2>2
  <2>4. /\ <<item>> \in Seq(Half \cup Reply) /\ Len(<<item>>) <= Room
    BY <2>1, RoomAssumption
  <2>5. CASE client[c] = "gone"
    <3>1. down' = down
      BY <1>5, <2>5 DEF WriteReply
    <3>2. down' = [down EXCEPT ![c] = <<>>]
      BY <1>2, <2>2, <3>1 DEF TypeOK
    <3> QED BY <1>2, <2>5, <3>1, <3>2, KernelBuffers
  <2>6. CASE client[c] # "gone"
    <3>1. down' = [down EXCEPT ![c] = <<item>>]
      BY <1>5, <2>3, <2>6 DEF WriteReply, item
    <3>2. /\ down' \in [Clients -> Seq(Half \cup Reply)]
          /\ \A d \in Clients : Len(down'[d]) <= Room
      BY <1>2, <2>4, <3>1, KernelBuffers, Storing
    <3> QED BY <2>6, <3>1, <3>2 DEF item
  <2> QED BY <2>5, <2>6
<1>6. CASE TakeHandshake(c) = BadPid \/ TakeHandshake(c) \in DOMAIN table
  <2>1. /\ CloseConnection(c) /\ WriteReply(c, "rejected")
        /\ buf' = [buf EXCEPT ![c] = <<>>] /\ routing' = NoClient
    BY <1>6 DEF HandleHandshake, Reject
  <2>2. /\ down' = [down EXCEPT ![c] = Answer("rejected")]
        /\ down' \in [Clients -> Seq(Half \cup Reply)]
        /\ \A d \in Clients : Len(down'[d]) <= Room
    BY <1>5, <2>1
  <2>3. /\ conn' = [conn EXCEPT ![c] = "dead"] /\ up' = [up EXCEPT ![c] = <<>>]
        /\ outbuf' = [outbuf EXCEPT ![c] = <<>>]
        /\ armed' = [armed EXCEPT ![c] = FALSE]
    BY <1>2, <2>1, ClosingTypes
  <2>4. TypeOK'
    <3>1. /\ conn' \in [Clients -> {"none", "pending", "open", "dead"}]
          /\ DOMAIN table' \subseteq Pids /\ Range(table') \subseteq Clients
          /\ up' \in [Clients -> Seq(Half \cup Greeting)]
          /\ \A d \in Clients : Len(up'[d]) <= Room
          /\ outbuf' \in [Clients -> Seq(Half)]
          /\ armed' \in [Clients -> BOOLEAN]
          /\ running' \in BOOLEAN
      BY <1>2, <2>1, ClosingTypes
    <3>2. buf' \in [Clients -> Seq(Half \cup Greeting)]
      BY <1>2, <2>1, Nothing DEF TypeOK
    <3> QED BY <1>1, <1>2, <2>1, <2>2, <3>1, <3>2 DEF TypeOK
  <2>5. \A d \in Clients \ {c} : Untouched(d)
    BY <1>1, <1>2, <2>1, <2>2, <2>3, ClientsAssumption DEF TypeOK, Untouched
  <2>6. Streams(c)'
    <3>1. /\ conn'[c] = "dead" /\ up'[c] = <<>> /\ outbuf'[c] = <<>>
          /\ buf'[c] = <<>> /\ buf'[c] \in Seq(Half)
          /\ down'[c] = Answer("rejected")
      BY <1>2, <2>1, <2>2, <2>3, Nothing DEF TypeOK
    <3>2. client[c] \in {"greeting", "gone"}
      BY <1>1, <1>3 DEF Unconnected
    <3> QED BY <1>1, <1>3, <3>1, <3>2 DEF Streams, Dead, Unconnected
  <2> QED BY <1>2, <2>4, <2>5, <2>6, UntouchedStreams DEF TypeInv
<1>7. CASE ~(TakeHandshake(c) = BadPid \/ TakeHandshake(c) \in DOMAIN table)
  <2>1. TakeHandshake(c) = pid[c] /\ pid[c] \in Pids
    BY <1>7, PidsAssumption DEF TakeHandshake
  <2>2. /\ conn' = [conn EXCEPT ![c] = "open"]
        /\ table' = [x \in DOMAIN table \cup {pid[c]} |-> IF x = pid[c] THEN c ELSE table[x]]
        /\ WriteReply(c, "ok")
        /\ buf' = [buf EXCEPT ![c] = Tail(buf[c])]
        /\ UNCHANGED <<up, outbuf, armed, routing, running>>
    BY <1>7, <2>1 DEF HandleHandshake, Admit
  <2>3. /\ down' = [down EXCEPT ![c] = Answer("ok")]
        /\ down' \in [Clients -> Seq(Half \cup Reply)]
        /\ \A d \in Clients : Len(down'[d]) <= Room
    BY <1>5, <2>2
  <2>4. Tail(buf[c]) = <<>>
    <3>1. PICK greeting \in Greeting : buf[c] = <<greeting>>
      BY <1>3 DEF Unconnected, Greeted
    <3> QED BY <3>1, OneItem
  <2>5. TypeOK'
    <3>1. DOMAIN table' \subseteq Pids /\ Range(table') \subseteq Clients
      <4>1. DOMAIN table' = DOMAIN table \cup {pid[c]}
        BY <2>2
      <4>2. \A x \in DOMAIN table' : table'[x] = IF x = pid[c] THEN c ELSE table[x]
        BY <2>2, <4>1
      <4>3. DOMAIN table \subseteq Pids /\ \A p \in DOMAIN table : table[p] \in Clients
        BY <1>2 DEF TypeOK, Range
      <4>4. \A x \in DOMAIN table' : table'[x] \in Clients
        BY <4>1, <4>2, <4>3
      <4> QED BY <2>1, <4>1, <4>3, <4>4 DEF Range
    <3>2. /\ buf' \in [Clients -> Seq(Half \cup Greeting)]
          /\ conn' \in [Clients -> {"none", "pending", "open", "dead"}]
      BY <1>2, <2>2, <2>4, Nothing DEF TypeOK
    <3> QED BY <1>1, <1>2, <2>2, <2>3, <3>1, <3>2 DEF TypeOK
  <2>6. \A d \in Clients \ {c} : Untouched(d)
    BY <1>1, <1>2, <2>2, <2>3 DEF TypeOK, Untouched
  <2>7. Streams(c)'
    <3>1. /\ conn'[c] = "open" /\ buf'[c] = <<>> /\ down'[c] = Answer("ok")
          /\ buf'[c] \in Seq(Half) /\ up'[c] = <<>> /\ up'[c] \in Seq(Half)
      <4>1. /\ conn \in [Clients -> {"none", "pending", "open", "dead"}]
            /\ buf \in [Clients -> Seq(Half \cup Greeting)]
            /\ down \in [Clients -> Seq(Half \cup Reply)]
        BY <1>2 DEF TypeOK
      <4>2. conn'[c] = "open" /\ buf'[c] = <<>> /\ up'[c] = <<>>
        BY <1>3, <2>2, <2>4, <4>1
      <4> HIDE DEF Answer
      <4>3. down'[c] = Answer("ok")
        BY <2>3, <4>1
      <4> QED BY <4>2, <4>3, Nothing
    <3>2. client[c] \in {"greeting", "gone"}
      BY <1>1, <1>3 DEF Unconnected
    <3>3. client[c] = "greeting" => /\ down'[c] # <<>> /\ Head(down'[c]) = [half |-> "ok"]
                                    /\ Tail(down'[c]) = <<>>
                                    /\ Tail(down'[c]) \in Seq(Half)
      BY <3>1, Nothing
    <3> QED BY <1>1, <1>3, <1>4, <3>1, <3>2, <3>3 DEF Streams, Opened, Unconnected
  <2> QED BY <1>2, <2>5, <2>6, <2>7, UntouchedStreams DEF TypeInv
<1> QED BY <1>6, <1>7

(* Packets are cut off where the halves of a connection are.               *)
LEMMA RoutePacketTypes ==
  ASSUME TypeInv, Holders, NEW c \in Clients, RoutePacket(c)
  PROVE  TypeInv'
<1> DEFINE dst == Head(buf[c]).packet.dst
           packet == First(buf[c], 2)
           left == Beyond(buf[c], 2)
<1>1. /\ routing = c /\ conn[c] # "pending" /\ PacketReady(buf[c])
      /\ buf' = [buf EXCEPT ![c] = left]
      /\ UNCHANGED <<client, sent, rest, inbuf, got, readable, writable, routing>>
  BY DEF RoutePacket, clientVars, batch
<1>2. TypeOK /\ \A d \in Clients : Streams(d)
  BY DEF TypeInv
<1>3. conn[c] \in {"open", "dead"} /\ buf[c] \in Seq(Half)
  BY <1>1, <1>2 DEF TypeOK, Streams, Unconnected, Opened, Dead
<1>4. left \in Seq(Half) /\ packet \in Seq(Half)
  <2>1. 2 \in 0..Len(buf[c])
    BY <1>1, <1>3, LenProperties DEF PacketReady
  <2> QED BY <1>3, <2>1, Cutting
<1>5. left \in Seq(Half \cup Greeting)
  BY <1>4, SeqWider
<1> HIDE DEF packet, left
<1>6. buf' \in [Clients -> Seq(Half \cup Greeting)]
  BY <1>1, <1>2, <1>5 DEF TypeOK
<1>7. buf'[c] = left /\ \A d \in Clients \ {c} : buf'[d] = buf[d]
  BY <1>1, <1>2 DEF TypeOK
(* What remains of c, unless it was the destination. *)
<1>8. ASSUME UNCHANGED <<conn[c], up[c], down[c], outbuf[c], armed[c]>>
      PROVE  Streams(c)'
  BY <1>1, <1>2, <1>3, <1>4, <1>7, <1>8 DEF Streams, Opened, Dead
<1>9. CASE dst \notin DOMAIN table
  <2>1. UNCHANGED <<up, down, conn, outbuf, armed, table, running>>
    BY <1>9 DEF RoutePacket
  <2>2. TypeOK'
    BY <1>1, <1>2, <1>6, <2>1 DEF TypeOK
  <2>3. \A d \in Clients \ {c} : Untouched(d)
    BY <1>1, <1>7, <2>1 DEF Untouched
  <2>4. Streams(c)'
    BY <1>8, <2>1
  <2> QED BY <1>2, <2>2, <2>3, <2>4, UntouchedStreams DEF TypeInv
<1>10. CASE dst \in DOMAIN table
  <2> PICK t \in Clients : t = table[dst]
    BY <1>10 DEF Holders
  <2> DEFINE out == outbuf[t] \o packet
  <2>1. FlushOrClose(t, out)
    BY <1>10 DEF RoutePacket, WritePacket, packet
  <2>2. conn[t] = "open" /\ Opened(t)
    BY <1>2, <1>10 DEF Holders, Streams
  <2>3. out \in Seq(Half)
    BY <1>2, <1>4, <2>2, ConcatProperties DEF TypeOK
  <2>4. buf'[t] \in Seq(Half)
    <3>1. CASE t = c
      BY <1>4, <1>7, <3>1
    <3>2. CASE t # c
      BY <1>7, <2>2, <3>2 DEF Opened
    <3> QED BY <3>1, <3>2
  <2> HIDE DEF out
  <2>5. /\ conn' \in [Clients -> {"none", "pending", "open", "dead"}]
        /\ DOMAIN table' \subseteq Pids /\ Range(table') \subseteq Clients
        /\ up' \in [Clients -> Seq(Half \cup Greeting)]
        /\ down' \in [Clients -> Seq(Half \cup Reply)]
        /\ \A d \in Clients : Len(up'[d]) <= Room /\ Len(down'[d]) <= Room
        /\ outbuf' \in [Clients -> Seq(Half)]
        /\ armed' \in [Clients -> BOOLEAN]
        /\ running' \in BOOLEAN
        /\ \A d \in Clients \ {t} :
             /\ conn'[d] = conn[d] /\ up'[d] = up[d] /\ down'[d] = down[d]
             /\ outbuf'[d] = outbuf[d] /\ armed'[d] = armed[d]
        /\ Streams(t)'
    BY <1>1, <2>1, <2>2, <2>3, <2>4, FlushOrCloseTypes
  <2>6. TypeOK'
    BY <1>1, <1>2, <1>6, <2>5 DEF TypeOK
  <2>7. \A d \in Clients \ {c, t} : Untouched(d)
    BY <1>1, <1>7, <2>5 DEF Untouched
  <2>8. Streams(c)'
    BY <1>8, <2>5
  <2> QED BY <1>2, <2>2, <2>5, <2>6, <2>7, <2>8, UntouchedStreams DEF TypeInv
<1> QED BY <1>9, <1>10

LEMMA DoneReadingTypes ==
  ASSUME TypeInv, NEW c \in Clients, DoneReading(c)
  PROVE  TypeInv'
<1> DEFINE left == IF conn[c] = "dead" THEN <<>> ELSE buf[c]
<1>1. /\ routing = c /\ conn[c] # "pending" /\ routing' = NoClient
      /\ buf' = [buf EXCEPT ![c] = left]
      /\ UNCHANGED <<client, sent, rest, inbuf, got, up, down, conn, outbuf, armed,
                     table, readable, writable, running>>
  BY DEF DoneReading, clientVars, batch
<1>2. TypeOK /\ \A d \in Clients : Streams(d)
  BY DEF TypeInv
<1>3. conn[c] \in {"open", "dead"} /\ buf[c] \in Seq(Half)
  BY <1>1, <1>2 DEF TypeOK, Streams, Unconnected, Opened, Dead
<1>4. left \in Seq(Half)
  BY <1>3, Nothing
<1>5. left \in Seq(Half \cup Greeting)
  BY <1>4, SeqWider
<1> HIDE DEF left
<1>6. buf' \in [Clients -> Seq(Half \cup Greeting)]
  BY <1>1, <1>2, <1>5 DEF TypeOK
<1>7. buf'[c] = left /\ \A d \in Clients \ {c} : buf'[d] = buf[d]
  BY <1>1, <1>2 DEF TypeOK
<1>8. TypeOK'
  BY <1>1, <1>2, <1>6 DEF TypeOK
<1>9. \A d \in Clients \ {c} : Untouched(d)
  BY <1>1, <1>7, ClientsAssumption DEF Untouched
<1>10. Streams(c)'
  BY <1>1, <1>2, <1>3, <1>4, <1>7 DEF Streams, Opened, Dead
<1> QED BY <1>2, <1>8, <1>9, <1>10, UntouchedStreams DEF TypeInv

(* Every step keeps it. *)
LEMMA TypeStep == TypeInv /\ LoopInv /\ [Next]_vars => TypeInv'
<1> SUFFICES ASSUME TypeInv, LoopInv, [Next]_vars PROVE TypeInv'
  OBVIOUS
<1>1. CASE Select
  BY <1>1, SelectTypes
<1>2. ASSUME NEW c \in Clients,
             \/ Accept(c) \/ HandleWritable(c) \/ HandleReadable(c)
             \/ HandleHandshake(c) \/ RoutePacket(c) \/ DoneReading(c)
      PROVE  TypeInv'
  BY <1>2, AcceptTypes, HandleWritableTypes, HandleReadableTypes, HandleHandshakeTypes,
     RoutePacketTypes, DoneReadingTypes DEF LoopInv
<1>3. ASSUME NEW c \in Clients,
             \/ Connect(c) \/ ReadReply(c) \/ Leave(c)
             \/ \E dst \in Pids : SendPacket(c, dst)
             \/ SendMore(c) \/ Receive(c)
      PROVE  TypeInv'
  BY <1>3, ConnectTypes, ReadReplyTypes, GoneClientTypes, SendPacketTypes, SendMoreTypes,
     ReceiveTypes DEF Leave
<1>4. CASE UNCHANGED vars
  BY <1>4 DEF vars, clientVars, batch, TypeInv, TypeOK, Streams, Unconnected, Opened, Dead,
              Greeted
<1> QED BY <1>1, <1>2, <1>3, <1>4 DEF Next, Loop

LEMMA TypeInvariant == Spec => [](TypeInv /\ LoopInv)
<1>1. Init => TypeInv /\ LoopInv
  BY TypeInit, LoopInit
<1>2. TypeInv /\ LoopInv /\ [Next]_vars => TypeInv' /\ LoopInv'
  BY TypeStep, LoopStep
<1> QED BY <1>1, <1>2, PTL DEF Spec

(* Every variable holds a value of its type, whatever becomes of the       *)
(* sockets: greetings and replies stay apart from packets, and no kernel   *)
(* buffer overflows.                                                       *)
THEOREM TypeCorrect == Spec => []TypeOK
BY TypeInvariant, PTL DEF TypeInv

-----------------------------------------------------------------------------
(* Streams that are cut into whole packets.                                *)

(* WellFramed, by the places of a packet instead of its halves.            *)
InPairs(s) ==
  \A k \in Nat :
    /\ 2 * k + 1 \in 1..Len(s) => s[2 * k + 1].half = "head"
    /\ 2 * k + 2 \in 1..Len(s) => /\ s[2 * k + 2].half = "tail"
                                  /\ s[2 * k + 2].packet = s[2 * k + 1].packet

LEMMA WellFramedPairs ==
  ASSUME NEW s \in Seq(Half)
  PROVE  WellFramed(s) <=> InPairs(s)
<1>1. Data(s) = s /\ Len(s) \in Nat
  BY FramesType, LenProperties
<1>2. WellFramed(s) <=> \A i \in 1..Len(s) :
        IF i % 2 = 1 THEN s[i].half = "head"
                     ELSE s[i].half = "tail" /\ s[i].packet = s[i - 1].packet
  BY <1>1 DEF WellFramed
<1>3. \A k \in Nat : /\ (2 * k + 1) % 2 = 1 /\ (2 * k + 2) % 2 = 0
                     /\ 2 * k + 2 - 1 = 2 * k + 1
  OBVIOUS
<1>4. ASSUME NEW i \in 1..Len(s)
      PROVE  \/ i % 2 = 1 /\ \E k \in Nat : i = 2 * k + 1
             \/ i % 2 = 0 /\ \E k \in Nat : i = 2 * k + 2
  <2>1. i \in Nat \ {0}
    BY <1>1
  <2>2. i % 2 \in {0, 1} /\ i = 2 * (i \div 2) + (i % 2) /\ i \div 2 \in Nat
    BY <2>1
  <2>3. CASE i % 2 = 1
    BY <2>2, <2>3
  <2>4. CASE i % 2 = 0
    <3>1. (i \div 2) - 1 \in Nat /\ i = 2 * ((i \div 2) - 1) + 2
      BY <2>1, <2>2, <2>4
    <3> QED BY <2>4, <3>1
  <2> QED BY <2>2, <2>3, <2>4
<1>5. ASSUME WellFramed(s) PROVE InPairs(s)
  <2> SUFFICES ASSUME NEW k \in Nat
               PROVE  /\ 2 * k + 1 \in 1..Len(s) => s[2 * k + 1].half = "head"
                      /\ 2 * k + 2 \in 1..Len(s) =>
                           /\ s[2 * k + 2].half = "tail"
                           /\ s[2 * k + 2].packet = s[2 * k + 1].packet
    BY DEF InPairs
  <2> QED BY <1>2, <1>3, <1>5
<1>6. ASSUME InPairs(s) PROVE WellFramed(s)
  <2> SUFFICES ASSUME NEW i \in 1..Len(s)
               PROVE  IF i % 2 = 1 THEN s[i].half = "head"
                      ELSE s[i].half = "tail" /\ s[i].packet = s[i - 1].packet
    BY <1>2
  <2>1. CASE i % 2 = 1 /\ \E k \in Nat : i = 2 * k + 1
    BY <1>6, <2>1 DEF InPairs
  <2>2. CASE i % 2 = 0 /\ \E k \in Nat : i = 2 * k + 2
    <3>1. PICK k \in Nat : i = 2 * k + 2
      BY <2>2
    <3>2. i - 1 = 2 * k + 1
      BY <3>1
    <3> QED BY <1>6, <2>2, <3>1, <3>2 DEF InPairs
  <2> QED BY <1>4, <2>1, <2>2
<1> QED BY <1>5, <1>6

(* No half is missing at the end.                                          *)
Complete(s) == 2 * Len(Frames(s)) = Len(s)

Whole(s) == InPairs(s) /\ Complete(s)

LEMMA FramesEmpty ==
  Frames(<<>>) = <<>> /\ Whole(<<>>)
<1>1. <<>> \in Seq(Half) /\ Len(<<>>) = 0
  BY Nothing
<1>2. Len(Frames(<<>>)) = 0 /\ Frames(<<>>) \in Seq(Packet)
  <2>1. /\ Frames(<<>>) \in Seq(Packet) /\ Len(Frames(<<>>)) \in Nat
        /\ 2 * Len(Frames(<<>>)) = Len(<<>>) \/ 2 * Len(Frames(<<>>)) + 1 = Len(<<>>)
    BY <1>1, FramesType
  <2>2. \A n \in Nat : 2 * n = 0 \/ 2 * n + 1 = 0 => n = 0
    OBVIOUS
  <2> QED BY <1>1, <2>1, <2>2
<1> QED BY <1>1, <1>2, EmptySeq DEF Whole, InPairs, Complete

LEMMA FramesHalves ==
  ASSUME NEW packet \in Packet
  PROVE  Frames(Halves(packet)) = <<packet>> /\ Whole(Halves(packet))
<1> DEFINE s == Halves(packet)
<1>1. /\ s \in Seq(Half) /\ Len(s) = 2
      /\ s[1] = [half |-> "head", packet |-> packet]
      /\ s[2] = [half |-> "tail", packet |-> packet]
  BY HalvesProperties
<1> HIDE DEF s
<1>2. /\ Frames(s) \in Seq(Packet) /\ Len(Frames(s)) \in Nat
      /\ 2 * Len(Frames(s)) = Len(s) \/ 2 * Len(Frames(s)) + 1 = Len(s)
      /\ \A k \in 1..Len(Frames(s)) : Frames(s)[k] = s[2 * k - 1].packet
  BY <1>1, FramesType
<1>3. Len(Frames(s)) = 1
  <2>1. \A n \in Nat : 2 * n = 2 \/ 2 * n + 1 = 2 => n = 1
    OBVIOUS
  <2> QED BY <1>1, <1>2, <2>1
<1>4. Frames(s)[1] = packet
  BY <1>1, <1>2, <1>3
<1>5. Frames(s) = <<packet>>
  <2>1. <<packet>> \in Seq(Packet) /\ Len(<<packet>>) = 1 /\ <<packet>>[1] = packet
    OBVIOUS
  <2> QED BY <1>2, <1>3, <1>4, <2>1, SeqEqual
<1>6. InPairs(s)
  <2> SUFFICES ASSUME NEW k \in Nat
               PROVE  /\ 2 * k + 1 \in 1..2 => s[2 * k + 1].half = "head"
                      /\ 2 * k + 2 \in 1..2 =>
                           /\ s[2 * k + 2].half = "tail"
                           /\ s[2 * k + 2].packet = s[2 * k + 1].packet
    BY <1>1 DEF InPairs
  <2>1. CASE k = 0
    BY <1>1, <2>1
  <2>2. CASE k # 0
    BY <2>2
  <2> QED BY <2>1, <2>2
<1>7. Complete(s)
  BY <1>1, <1>3 DEF Complete
<1> QED BY <1>5, <1>6, <1>7 DEF Whole, s

(* The two halves at the front of a stream are one packet.                 *)
LEMMA FirstHalves ==
  ASSUME NEW s \in Seq(Half), InPairs(s), Len(s) >= 2
  PROVE  /\ Head(s).half = "head" /\ Head(s).packet \in Packet
         /\ First(s, 2) = Halves(Head(s).packet)
<1>1. /\ Len(s) \in Nat /\ s # <<>> /\ 1 \in 1..Len(s) /\ 2 \in 1..Len(s)
      /\ s[1] \in Half /\ s[2] \in Half /\ Head(s) = s[1]
  BY LenProperties, ElementOfSeq, HeadTailProperties
<1>2. s[1].half = "head" /\ s[2].half = "tail" /\ s[2].packet = s[1].packet
  <2>1. 0 \in Nat /\ 2 * 0 + 1 = 1 /\ 2 * 0 + 2 = 2
    OBVIOUS
  <2> QED BY <1>1, <2>1 DEF InPairs
<1> DEFINE packet == s[1].packet
<1>3. packet \in Packet /\ s[1] = [half |-> "head", packet |-> packet]
      /\ s[2] = [half |-> "tail", packet |-> packet]
  BY <1>1, <1>2 DEF Half
<1>4. 2 \in 0..Len(s)
  BY <1>1
<1>5. /\ First(s, 2) \in Seq(Half) /\ Len(First(s, 2)) = 2
      /\ First(s, 2)[1] = s[1] /\ First(s, 2)[2] = s[2]
  <2>1. /\ First(s, 2) \in Seq(Half) /\ Len(First(s, 2)) = 2
        /\ \A i \in 1..2 : First(s, 2)[i] = s[i]
    BY <1>4, Cutting
  <2>2. 1 \in 1..2 /\ 2 \in 1..2
    OBVIOUS
  <2> QED BY <2>1, <2>2
<1> HIDE DEF packet
<1>6. First(s, 2) = Halves(packet)
  <2>1. /\ Halves(packet) \in Seq(Half) /\ Len(Halves(packet)) = 2
        /\ Halves(packet)[1] = s[1] /\ Halves(packet)[2] = s[2]
    BY <1>3, HalvesProperties
  <2>2. \A i \in 1..2 : First(s, 2)[i] = Halves(packet)[i]
    BY <1>5, <2>1
  <2> QED BY <1>5, <2>1, <2>2, SeqEqual
<1> QED BY <1>1, <1>2, <1>3, <1>6 DEF packet

(* Arithmetic of halves and packets. *)
LEMMA HalfLengths ==
  ASSUME NEW l \in Nat, NEW n \in Nat, 2 * n = l \/ 2 * n + 1 = l
  PROVE  /\ \A k \in 1..n : 2 * k - 1 \in 1..l /\ 2 * k \in 1..l
         /\ \A k \in Nat : 2 * k + 2 \in 1..l => k + 1 \in 1..n
         /\ \A m \in Nat : 2 * m <= l => m <= n
         /\ \A m \in Nat : 2 * m = l \/ 2 * m + 1 = l => m = n
OBVIOUS

LEMMA BehindLengths ==
  ASSUME NEW m \in Nat, NEW l \in Nat, NEW k \in Nat
  PROVE  /\ k < m => /\ 2 * k + 1 \in 1..(2 * m) /\ 2 * k + 2 \in 1..(2 * m)
                     /\ 2 * k + 1 \in 1..(2 * m + l) /\ 2 * k + 2 \in 1..(2 * m + l)
                     /\ 2 * k + 1 <= 2 * m /\ 2 * k + 2 <= 2 * m
         /\ ~(k < m) => /\ k - m \in Nat
                        /\ (2 * k + 1) - 2 * m = 2 * (k - m) + 1
                        /\ (2 * k + 2) - 2 * m = 2 * (k - m) + 2
                        /\ ~(2 * k + 1 <= 2 * m) /\ ~(2 * k + 2 <= 2 * m)
                        /\ 2 * k + 1 \in 1..(2 * m + l) => 2 * (k - m) + 1 \in 1..l
                        /\ 2 * k + 2 \in 1..(2 * m + l) =>
                             2 * (k - m) + 2 \in 1..l /\ 2 * k + 1 \in 1..(2 * m + l)
         /\ 2 * k = l \/ 2 * k + 1 = l =>
               2 * (m + k) = 2 * m + l \/ 2 * (m + k) + 1 = 2 * m + l
         /\ 2 * k = l => 2 * (m + k) = 2 * m + l
OBVIOUS

(* A stream behind a complete one.                                         *)
LEMMA FramesConcat ==
  ASSUME NEW s \in Seq(Half), NEW t \in Seq(Half), Complete(s)
  PROVE  /\ s \o t \in Seq(Half)
         /\ Frames(s \o t) = Frames(s) \o Frames(t)
         /\ InPairs(s) /\ InPairs(t) => InPairs(s \o t)
         /\ Complete(t) => Complete(s \o t)
<1> DEFINE r == s \o t
           m == Len(Frames(s))
           n == Len(Frames(t))
<1>1. /\ m \in Nat /\ Len(s) = 2 * m /\ Frames(s) \in Seq(Packet)
      /\ \A k \in 1..m : Frames(s)[k] = s[2 * k - 1].packet
  BY FramesType DEF Complete
<1>2. /\ n \in Nat /\ Len(t) \in Nat /\ Frames(t) \in Seq(Packet)
      /\ 2 * n = Len(t) \/ 2 * n + 1 = Len(t)
      /\ \A k \in 1..n : Frames(t)[k] = t[2 * k - 1].packet
  BY FramesType, LenProperties
<1>3. /\ r \in Seq(Half) /\ Len(r) = 2 * m + Len(t)
      /\ \A i \in 1..Len(r) : r[i] = IF i <= 2 * m THEN s[i] ELSE t[i - 2 * m]
  <2> HIDE DEF m, n
  <2>1. /\ s \o t \in Seq(Half) /\ Len(s \o t) = Len(s) + Len(t)
        /\ \A i \in 1..(Len(s) + Len(t)) :
             (s \o t)[i] = IF i <= Len(s) THEN s[i] ELSE t[i - Len(s)]
    BY ConcatProperties
  <2> QED BY <1>1, <2>1
<1> HIDE DEF r, m, n
<1>4. /\ Frames(r) \in Seq(Packet) /\ Len(Frames(r)) = m + n
      /\ \A k \in 1..(m + n) : Frames(r)[k] = r[2 * k - 1].packet
  <2>1. /\ Frames(r) \in Seq(Packet) /\ Len(Frames(r)) \in Nat
        /\ 2 * Len(Frames(r)) = Len(r) \/ 2 * Len(Frames(r)) + 1 = Len(r)
        /\ \A k \in 1..Len(Frames(r)) : Frames(r)[k] = r[2 * k - 1].packet
    BY <1>3, FramesType
  <2>2. Len(Frames(r)) = m + n
    <3>1. Len(r) \in Nat /\ m + n \in Nat
          /\ (2 * (m + n) = Len(r) \/ 2 * (m + n) + 1 = Len(r))
      <4>1. /\ m \in Nat /\ n \in Nat /\ Len(t) \in Nat /\ Len(r) = 2 * m + Len(t)
            /\ 2 * n = Len(t) \/ 2 * n + 1 = Len(t)
        BY <1>1, <1>2, <1>3
      <4>2. 2 * (m + n) = 2 * m + Len(t) \/ 2 * (m + n) + 1 = 2 * m + Len(t)
        BY <4>1, BehindLengths
      <4>3. 2 * m + Len(t) \in Nat /\ m + n \in Nat
        BY <4>1
      <4> QED BY <4>1, <4>2, <4>3
    <3> QED BY <2>1, <3>1, HalfLengths
  <2> QED BY <2>1, <2>2
<1>5. Frames(r) = Frames(s) \o Frames(t)
  <2> DEFINE f == Frames(s)
             g == Frames(t)
  <2>1. /\ f \o g \in Seq(Packet) /\ Len(f \o g) = m + n
        /\ \A k \in 1..(m + n) : (f \o g)[k] = IF k <= m THEN f[k] ELSE g[k - m]
    <3>1. f \in Seq(Packet) /\ g \in Seq(Packet) /\ Len(f) = m /\ Len(g) = n
      BY <1>1, <1>2 DEF m, n
    <3> HIDE DEF f, g
    <3> QED BY <3>1, ConcatProperties
  <2>2. ASSUME NEW k \in 1..(m + n) PROVE Frames(r)[k] = (f \o g)[k]
    <3>1. CASE k <= m
      <4>1. k \in 1..m /\ 2 * k - 1 \in 1..Len(r) /\ 2 * k - 1 <= 2 * m
        BY <1>1, <1>2, <1>3, <3>1
      <4>2. r[2 * k - 1] = s[2 * k - 1]
        BY <1>3, <4>1
      <4> QED BY <1>1, <1>4, <2>1, <3>1, <4>1, <4>2
    <3>2. CASE ~(k <= m)
      <4>1. /\ k - m \in 1..n /\ 2 * k - 1 \in 1..Len(r) /\ ~(2 * k - 1 <= 2 * m)
            /\ 2 * k - 1 - 2 * m = 2 * (k - m) - 1
        BY <1>1, <1>2, <1>3, <3>2
      <4>2. r[2 * k - 1] = t[2 * (k - m) - 1]
        BY <1>3, <4>1
      <4>3. Frames(r)[k] = t[2 * (k - m) - 1].packet
        BY <1>4, <4>2
      <4>4. g[k - m] = t[2 * (k - m) - 1].packet
        BY <1>2, <4>1
      <4> QED BY <2>1, <3>2, <4>3, <4>4
    <3> QED BY <3>1, <3>2
  <2> QED BY <1>4, <2>1, <2>2, SeqEqual
<1>6. ASSUME InPairs(s), InPairs(t) PROVE InPairs(r)
  <2> SUFFICES ASSUME NEW k \in Nat
               PROVE  /\ 2 * k + 1 \in 1..Len(r) => r[2 * k + 1].half = "head"
                      /\ 2 * k + 2 \in 1..Len(r) =>
                           /\ r[2 * k + 2].half = "tail"
                           /\ r[2 * k + 2].packet = r[2 * k + 1].packet
    BY DEF InPairs
  <2>1. CASE k < m
    <3>1. /\ 2 * k + 1 \in 1..Len(s) /\ 2 * k + 2 \in 1..Len(s)
          /\ 2 * k + 1 \in 1..Len(r) /\ 2 * k + 2 \in 1..Len(r)
          /\ 2 * k + 1 <= 2 * m /\ 2 * k + 2 <= 2 * m
      <4>1. Len(t) \in Nat /\ m \in Nat /\ Len(s) = 2 * m /\ Len(r) = 2 * m + Len(t)
        BY <1>1, <1>2, <1>3
      <4> QED BY <2>1, <4>1, BehindLengths
    <3>2. r[2 * k + 1] = s[2 * k + 1] /\ r[2 * k + 2] = s[2 * k + 2]
      BY <1>3, <3>1
    <3> QED BY <1>6, <3>1, <3>2 DEF InPairs
  <2>2. CASE ~(k < m)
    <3> DEFINE j == k - m
    <3>1. /\ j \in Nat /\ (2 * k + 1) - 2 * m = 2 * j + 1 /\ (2 * k + 2) - 2 * m = 2 * j + 2
          /\ ~(2 * k + 1 <= 2 * m) /\ ~(2 * k + 2 <= 2 * m)
          /\ 2 * k + 1 \in 1..Len(r) => 2 * j + 1 \in 1..Len(t)
          /\ 2 * k + 2 \in 1..Len(r) => 2 * j + 2 \in 1..Len(t) /\ 2 * k + 1 \in 1..Len(r)
      <4>1. Len(t) \in Nat /\ m \in Nat /\ Len(r) = 2 * m + Len(t)
        BY <1>1, <1>2, <1>3
      <4> QED BY <2>2, <4>1, BehindLengths
    <3> HIDE DEF j
    <3>2. /\ 2 * k + 1 \in 1..Len(r) => r[2 * k + 1] = t[2 * j + 1]
          /\ 2 * k + 2 \in 1..Len(r) => r[2 * k + 2] = t[2 * j + 2]
      <4>1. \A i \in 1..Len(r) : ~(i <= 2 * m) => r[i] = t[i - 2 * m]
        BY <1>3
      <4>2. 2 * k + 1 \in 1..Len(r) => r[2 * k + 1] = t[(2 * k + 1) - 2 * m]
        BY <3>1, <4>1
      <4>3. 2 * k + 2 \in 1..Len(r) => r[2 * k + 2] = t[(2 * k + 2) - 2 * m]
        BY <3>1, <4>1
      <4> QED BY <3>1, <4>2, <4>3
    <3> QED BY <1>6, <3>1, <3>2 DEF InPairs
  <2> QED BY <1>1, <2>1, <2>2
<1>7. ASSUME Complete(t) PROVE Complete(r)
  <2>1. 2 * n = Len(t) /\ m \in Nat /\ n \in Nat /\ Len(t) \in Nat
    BY <1>1, <1>2, <1>7 DEF Complete, n
  <2>2. 2 * (m + n) = 2 * m + Len(t)
    BY <2>1
  <2> QED BY <1>3, <1>4, <2>2 DEF Complete
<1> QED BY <1>3, <1>5, <1>6, <1>7 DEF r

(* The beginning of a stream.                                              *)
LEMMA FramesFirst ==
  ASSUME NEW s \in Seq(Half), NEW m \in 0..Len(s)
  PROVE  /\ \E n \in 0..Len(Frames(s)) : Frames(First(s, m)) = SubSeq(Frames(s), 1, n)
         /\ InPairs(s) => InPairs(First(s, m))
<1> DEFINE p == First(s, m)
           f == Frames(s)
           g == Frames(p)
           n == Len(g)
<1>1. /\ p \in Seq(Half) /\ Len(p) = m /\ \A i \in 1..m : p[i] = s[i]
  BY Cutting
<1>2. /\ f \in Seq(Packet) /\ Len(f) \in Nat /\ Len(s) \in Nat
      /\ 2 * Len(f) = Len(s) \/ 2 * Len(f) + 1 = Len(s)
      /\ \A k \in 1..Len(f) : f[k] = s[2 * k - 1].packet
  BY FramesType, LenProperties
<1> HIDE DEF p
<1>3. /\ g \in Seq(Packet) /\ n \in Nat
      /\ 2 * n = m \/ 2 * n + 1 = m
      /\ \A k \in 1..n : g[k] = p[2 * k - 1].packet
  BY <1>1, FramesType
<1> HIDE DEF f, g, n
<1>4. n \in 0..Len(f)
  <2>1. 2 * n <= Len(s)
    BY <1>2, <1>3
  <2>2. n <= Len(f)
    BY <1>2, <1>3, <2>1, HalfLengths
  <2> QED BY <1>2, <1>3, <2>2
<1>5. g = SubSeq(f, 1, n)
  <2>1. /\ SubSeq(f, 1, n) \in Seq(Packet) /\ Len(SubSeq(f, 1, n)) = n
        /\ \A k \in 1..n : SubSeq(f, 1, n)[k] = f[k]
    BY <1>2, <1>4, Cutting DEF First
  <2>2. ASSUME NEW k \in 1..n PROVE g[k] = SubSeq(f, 1, n)[k]
    <3>1. k \in 1..Len(f) /\ 2 * k - 1 \in 1..m
      BY <1>2, <1>3, <1>4
    <3>2. p[2 * k - 1] = s[2 * k - 1]
      BY <1>1, <3>1
    <3> QED BY <1>2, <1>3, <2>1, <3>1, <3>2
  <2>3. Len(g) = n
    BY DEF n
  <2> QED BY <1>3, <2>1, <2>2, <2>3, SeqEqual
<1>6. ASSUME InPairs(s) PROVE InPairs(p)
  <2> SUFFICES ASSUME NEW k \in Nat
               PROVE  /\ 2 * k + 1 \in 1..m => p[2 * k + 1].half = "head"
                      /\ 2 * k + 2 \in 1..m =>
                           /\ p[2 * k + 2].half = "tail"
                           /\ p[2 * k + 2].packet = p[2 * k + 1].packet
    BY <1>1 DEF InPairs
  <2>1. \A i \in 1..m : i \in 1..Len(s) /\ p[i] = s[i]
    BY <1>1, <1>2
  <2>2. 2 * k + 2 \in 1..m => 2 * k + 1 \in 1..m
    OBVIOUS
  <2> QED BY <1>6, <2>1, <2>2 DEF InPairs
<1> QED BY <1>4, <1>5, <1>6 DEF p, f, g

(* What is left of a stream when packets are taken off it.                 *)
LEMMA FramesBeyond ==
  ASSUME NEW s \in Seq(Half), NEW n \in Nat, 2 * n <= Len(s)
  PROVE  /\ Frames(Beyond(s, 2 * n)) = SubSeq(Frames(s), n + 1, Len(Frames(s)))
         /\ n <= Len(Frames(s))
         /\ InPairs(s) => InPairs(Beyond(s, 2 * n))
         /\ Complete(s) => Complete(Beyond(s, 2 * n))
<1> DEFINE b == Beyond(s, 2 * n)
           f == Frames(s)
           g == Frames(b)
<1>1. Len(s) \in Nat /\ 2 * n \in 0..Len(s)
  BY LenProperties
<1>2. /\ b \in Seq(Half) /\ Len(b) = Len(s) - 2 * n
      /\ \A i \in 1..(Len(s) - 2 * n) : b[i] = s[2 * n + i]
  BY <1>1, Cutting
<1>3. /\ f \in Seq(Packet) /\ Len(f) \in Nat
      /\ 2 * Len(f) = Len(s) \/ 2 * Len(f) + 1 = Len(s)
      /\ \A k \in 1..Len(f) : f[k] = s[2 * k - 1].packet
  BY FramesType
<1> HIDE DEF b
<1>4. /\ g \in Seq(Packet) /\ Len(g) \in Nat
      /\ 2 * Len(g) = Len(b) \/ 2 * Len(g) + 1 = Len(b)
      /\ \A k \in 1..Len(g) : g[k] = b[2 * k - 1].packet
  BY <1>2, FramesType
<1> HIDE DEF f, g
<1>5. n <= Len(f)
  BY <1>1, <1>3, HalfLengths
<1>6. Len(g) = Len(f) - n
  <2>1. /\ Len(b) \in Nat /\ Len(f) - n \in Nat
        /\ 2 * (Len(f) - n) = Len(b) \/ 2 * (Len(f) - n) + 1 = Len(b)
    BY <1>1, <1>2, <1>3, <1>5
  <2> QED BY <1>4, <2>1, HalfLengths
<1>7. g = SubSeq(f, n + 1, Len(f))
  <2>1. n \in 0..Len(f)
    BY <1>3, <1>5
  <2>2. /\ SubSeq(f, n + 1, Len(f)) \in Seq(Packet)
        /\ Len(SubSeq(f, n + 1, Len(f))) = Len(f) - n
        /\ \A k \in 1..(Len(f) - n) : SubSeq(f, n + 1, Len(f))[k] = f[n + k]
    BY <1>3, <2>1, Cutting DEF Beyond
  <2>3. ASSUME NEW k \in 1..(Len(f) - n) PROVE g[k] = SubSeq(f, n + 1, Len(f))[k]
    <3>1. /\ n + k \in 1..Len(f) /\ 2 * k - 1 \in 1..(Len(s) - 2 * n)
          /\ 2 * n + (2 * k - 1) = 2 * (n + k) - 1
      BY <1>1, <1>3, <1>5
    <3>2. b[2 * k - 1] = s[2 * (n + k) - 1]
      BY <1>2, <3>1
    <3>3. g[k] = s[2 * (n + k) - 1].packet
      BY <1>4, <1>6, <3>2
    <3>4. f[n + k] = s[2 * (n + k) - 1].packet
      BY <1>3, <3>1
    <3> QED BY <2>2, <3>3, <3>4
  <2> QED BY <1>4, <1>6, <2>2, <2>3, SeqEqual
<1>8. ASSUME InPairs(s) PROVE InPairs(b)
  <2> SUFFICES ASSUME NEW k \in Nat
               PROVE  /\ 2 * k + 1 \in 1..Len(b) => b[2 * k + 1].half = "head"
                      /\ 2 * k + 2 \in 1..Len(b) =>
                           /\ b[2 * k + 2].half = "tail"
                           /\ b[2 * k + 2].packet = b[2 * k + 1].packet
    BY DEF InPairs
  <2> DEFINE j == n + k
  <2>1. /\ j \in Nat /\ 2 * n + (2 * k + 1) = 2 * j + 1 /\ 2 * n + (2 * k + 2) = 2 * j + 2
        /\ 2 * k + 1 \in 1..Len(b) => 2 * j + 1 \in 1..Len(s)
        /\ 2 * k + 2 \in 1..Len(b) => 2 * j + 2 \in 1..Len(s) /\ 2 * k + 1 \in 1..Len(b)
    BY <1>1, <1>2
  <2> HIDE DEF j
  <2>2. /\ 2 * k + 1 \in 1..Len(b) => b[2 * k + 1] = s[2 * j + 1]
        /\ 2 * k + 2 \in 1..Len(b) => b[2 * k + 2] = s[2 * j + 2]
    <3>1. \A i \in 1..Len(b) : b[i] = s[2 * n + i]
      BY <1>2
    <3>2. 2 * k + 1 \in 1..Len(b) => b[2 * k + 1] = s[2 * n + (2 * k + 1)]
      BY <3>1
    <3>3. 2 * k + 2 \in 1..Len(b) => b[2 * k + 2] = s[2 * n + (2 * k + 2)]
      BY <3>1
    <3> QED BY <2>1, <3>2, <3>3
  <2> QED BY <1>8, <2>1, <2>2 DEF InPairs
<1>9. ASSUME Complete(s) PROVE Complete(b)
  BY <1>1, <1>2, <1>3, <1>6, <1>9 DEF Complete, f, g
<1> QED BY <1>5, <1>7, <1>8, <1>9 DEF b, f, g

(* Cutting and joining. *)
LEMMA BeyondConcat ==
  ASSUME NEW S, NEW s \in Seq(S), NEW t \in Seq(S), NEW m \in 0..Len(s)
  PROVE  /\ Beyond(s \o t, m) = Beyond(s, m) \o t
         /\ First(s \o t, m) = First(s, m)
<1> DEFINE p == First(s, m)
           q == Beyond(s, m)
           r == s \o t
<1>1. /\ p \in Seq(S) /\ Len(p) = m /\ q \in Seq(S) /\ Len(q) = Len(s) - m
      /\ p \o q = s
      /\ \A i \in 1..m : p[i] = s[i]
      /\ \A i \in 1..(Len(s) - m) : q[i] = s[m + i]
  BY Cutting
<1>2. /\ r \in Seq(S) /\ Len(r) = Len(s) + Len(t) /\ Len(s) \in Nat /\ Len(t) \in Nat
      /\ \A i \in 1..(Len(s) + Len(t)) : r[i] = IF i <= Len(s) THEN s[i] ELSE t[i - Len(s)]
  BY ConcatProperties, LenProperties
<1> HIDE DEF p, q, r
<1>3. m \in 0..Len(r)
  BY <1>2
<1>4. /\ First(r, m) \in Seq(S) /\ Len(First(r, m)) = m
      /\ \A i \in 1..m : First(r, m)[i] = r[i]
      /\ Beyond(r, m) \in Seq(S) /\ Len(Beyond(r, m)) = Len(r) - m
      /\ \A i \in 1..(Len(r) - m) : Beyond(r, m)[i] = r[m + i]
  BY <1>2, <1>3, Cutting
<1>5. First(r, m) = p
  <2>1. \A i \in 1..m : First(r, m)[i] = p[i]
    BY <1>1, <1>2, <1>4
  <2> QED BY <1>1, <1>4, <2>1, SeqEqual
<1>6. Beyond(r, m) = q \o t
  <2>1. /\ q \o t \in Seq(S) /\ Len(q \o t) = Len(q) + Len(t)
        /\ \A i \in 1..(Len(q) + Len(t)) :
             (q \o t)[i] = IF i <= Len(q) THEN q[i] ELSE t[i - Len(q)]
    <3>1. \A x, y \in Seq(S) :
            /\ x \o y \in Seq(S) /\ Len(x \o y) = Len(x) + Len(y)
            /\ \A i \in 1..(Len(x) + Len(y)) :
                 (x \o y)[i] = IF i <= Len(x) THEN x[i] ELSE y[i - Len(x)]
      BY ConcatProperties
    <3> QED BY <1>1, <3>1
  <2>2. Len(r) - m = Len(q) + Len(t)
    BY <1>1, <1>2
  <2>3. ASSUME NEW i \in 1..(Len(r) - m) PROVE Beyond(r, m)[i] = (q \o t)[i]
    <3>1. m + i \in 1..(Len(s) + Len(t)) /\ Beyond(r, m)[i] = r[m + i]
      BY <1>2, <1>4
    <3>2. CASE i <= Len(q)
      <4>1. i \in 1..(Len(s) - m) /\ m + i <= Len(s)
        BY <1>1, <1>2, <3>2
      <4> QED BY <1>1, <1>2, <2>1, <2>2, <3>1, <3>2, <4>1
    <3>3. CASE ~(i <= Len(q))
      <4>1. ~(m + i <= Len(s)) /\ m + i - Len(s) = i - Len(q)
        BY <1>1, <1>2, <3>3
      <4>2. r[m + i] = t[m + i - Len(s)]
        <5>1. \A j \in 1..(Len(s) + Len(t)) : ~(j <= Len(s)) => r[j] = t[j - Len(s)]
          BY <1>2
        <5> QED BY <3>1, <4>1, <5>1
      <4>3. (q \o t)[i] = t[i - Len(q)]
        BY <2>1, <2>2, <3>3
      <4> QED BY <3>1, <4>1, <4>2, <4>3
    <3> QED BY <3>2, <3>3
  <2> QED BY <1>4, <2>1, <2>2, <2>3, SeqEqual
<1> QED BY <1>5, <1>6 DEF p, q, r

LEMMA FirstOfConcat ==
  ASSUME NEW S, NEW s \in Seq(S), NEW t \in Seq(S)
  PROVE  Len(s) \in 0..Len(s \o t) /\ First(s \o t, Len(s)) = s
<1>1. Len(s) \in Nat /\ Len(t) \in Nat /\ Len(s \o t) = Len(s) + Len(t)
  BY LenProperties, ConcatProperties
<1>2. First(s \o t, Len(s)) = First(s, Len(s))
  BY <1>1, BeyondConcat
<1>3. First(s, Len(s)) = s
  BY SubSeqFull DEF First
<1> QED BY <1>1, <1>2, <1>3

LEMMA Joining ==
  ASSUME NEW S, NEW x \in Seq(S), NEW y \in Seq(S), NEW z \in Seq(S)
  PROVE  (x \o y) \o z = x \o (y \o z)
BY ConcatAssociative

(* Streams put together; a definition of its own, which the provers take   *)
(* apart only where they are told to.                                      *)
Join(s, t) == s \o t

LEMMA JoinType ==
  ASSUME NEW S, NEW s \in Seq(S), NEW t \in Seq(S)
  PROVE  Join(s, t) \in Seq(S)
BY ConcatProperties DEF Join

LEMMA JoinAssociative ==
  ASSUME NEW S, NEW x \in Seq(S), NEW y \in Seq(S), NEW z \in Seq(S)
  PROVE  Join(Join(x, y), z) = Join(x, Join(y, z))
BY Joining DEF Join

LEMMA JoinEmpty ==
  ASSUME NEW S, NEW s \in Seq(S)
  PROVE  Join(s, <<>>) = s /\ Join(<<>>, s) = s
BY ConcatEmptySeq DEF Join

LEMMA JoinCut ==
  ASSUME NEW S, NEW s \in Seq(S), NEW n \in 0..Len(s)
  PROVE  /\ First(s, n) \in Seq(S) /\ Beyond(s, n) \in Seq(S)
         /\ Join(First(s, n), Beyond(s, n)) = s
BY Cutting DEF Join

(* A part that moves from one buffer to the next stays in its place.       *)
LEMMA Rejoining ==
  ASSUME NEW S, NEW a \in Seq(S), NEW b \in Seq(S), NEW s \in Seq(S),
         NEW n \in 0..Len(s)
  PROVE  /\ Join(Join(a, Join(b, First(s, n))), Beyond(s, n)) = Join(Join(a, b), s)
         /\ Join(Join(a, First(s, n)), Beyond(s, n)) = Join(a, s)
<1> DEFINE p == First(s, n)
           q == Beyond(s, n)
<1>1. p \in Seq(S) /\ q \in Seq(S) /\ Join(p, q) = s
  BY JoinCut
<1> HIDE DEF p, q
<1>2. Join(Join(a, p), q) = Join(a, s)
  BY <1>1, JoinAssociative
<1>3. Join(a, b) \in Seq(S)
  BY JoinType
<1>4. Join(a, Join(b, p)) = Join(Join(a, b), p)
  BY <1>1, JoinAssociative
<1>5. Join(Join(Join(a, b), p), q) = Join(Join(a, b), s)
  BY <1>1, <1>3, JoinAssociative
<1> QED BY <1>2, <1>4, <1>5 DEF p, q

(* The front of what is put together.                                      *)
LEMMA JoinFirst ==
  ASSUME NEW S, NEW s \in Seq(S), NEW t \in Seq(S)
  PROVE  Len(s) \in 0..Len(Join(s, t)) /\ First(Join(s, t), Len(s)) = s
BY FirstOfConcat DEF Join

LEMMA JoinBeyond ==
  ASSUME NEW S, NEW s \in Seq(S), NEW t \in Seq(S), NEW m \in 0..Len(s)
  PROVE  /\ Beyond(Join(s, t), m) = Join(Beyond(s, m), t)
         /\ First(Join(s, t), m) = First(s, m)
         /\ Beyond(s, m) \in Seq(S)
BY BeyondConcat, Cutting DEF Join

-----------------------------------------------------------------------------
(* The halves between a client and the crossbar, and how a step moves      *)
(* them.  The crossbar has nothing to send to a client that has gone.      *)

Out(c) ==
  IF conn[c] \in {"open", "dead"} THEN Join(Join(buf[c], up[c]), rest[c]) ELSE <<>>
In(c) ==
  IF conn[c] = "open" /\ client[c] # "gone"
    THEN IF client[c] = "greeting" THEN Join(Tail(down[c]), outbuf[c])
                                   ELSE Join(Join(inbuf[c], down[c]), outbuf[c])
    ELSE <<>>

LEMMA GreetedData ==
  ASSUME NEW s, Greeted(s)
  PROVE  Data(s) = <<>>
<1>1. CASE s = <<>>
  BY <1>1 DEF Data
<1>2. ASSUME NEW greeting \in Greeting, s = <<greeting>> PROVE Data(s) = <<>>
  <2>1. ~IsHalf(greeting)
    BY DEF Greeting, IsHalf
  <2> QED BY <1>2, <2>1, OneItem DEF Data
<1> QED BY <1>1, <1>2 DEF Greeted

LEMMA OutLine ==
  ASSUME TypeInv, NEW c \in Clients
  PROVE  Out(c) \in Seq(Half) /\ Data(Upstream(c)) = Out(c)
<1>1. TypeOK /\ Streams(c)
  BY DEF TypeInv
<1>2. CASE conn[c] \in {"none", "pending"}
  <2>1. Unconnected(c)
    BY <1>1, <1>2 DEF Streams
  <2>2. /\ rest[c] = <<>> /\ (buf[c] = <<>> \/ up[c] = <<>>)
        /\ buf[c] \in Seq(Half \cup Greeting) /\ up[c] \in Seq(Half \cup Greeting)
    BY <1>1, <2>1 DEF TypeOK, Unconnected
  <2>3. Upstream(c) = buf[c] \/ Upstream(c) = up[c]
    <3>1. buf[c] \o up[c] = buf[c] \/ buf[c] \o up[c] = up[c]
      BY <2>2, ConcatEmptySeq
    <3>2. buf[c] \o up[c] \in Seq(Half \cup Greeting)
      BY <2>2, ConcatProperties
    <3>3. (buf[c] \o up[c]) \o <<>> = buf[c] \o up[c]
      BY <3>2, ConcatEmptySeq
    <3> QED BY <2>2, <3>1, <3>3 DEF Upstream
  <2>4. Data(Upstream(c)) = <<>>
    BY <2>1, <2>3, GreetedData DEF Unconnected
  <2> QED BY <1>2, <2>4, Nothing DEF Out
<1>3. CASE conn[c] \in {"open", "dead"}
  <2>1. buf[c] \in Seq(Half) /\ up[c] \in Seq(Half) /\ rest[c] \in Seq(Half)
    BY <1>1, <1>3, Nothing DEF TypeOK, Streams, Opened, Dead
  <2>2. Upstream(c) \in Seq(Half)
    BY <2>1, ConcatProperties DEF Upstream
  <2> QED BY <1>3, <2>2, FramesType DEF Out, Upstream, Join
<1> QED BY <1>1, <1>2, <1>3 DEF TypeOK

LEMMA InLine ==
  ASSUME TypeInv, NEW c \in Clients
  PROVE  /\ In(c) \in Seq(Half)
         /\ client[c] # "gone" => Data(Downstream(c)) = In(c)
<1>1. TypeOK /\ Streams(c)
  BY DEF TypeInv
<1>2. /\ inbuf[c] \in Seq(Half) /\ outbuf[c] \in Seq(Half)
      /\ down[c] \in Seq(Half \cup Reply)
  BY <1>1 DEF TypeOK
<1>3. CASE client[c] = "gone"
  BY <1>3, Nothing DEF In
<1>4. CASE client[c] # "gone" /\ conn[c] \in {"none", "pending"}
  <2>1. inbuf[c] = <<>> /\ down[c] = <<>> /\ outbuf[c] = <<>>
    BY <1>1, <1>4 DEF Streams, Unconnected
  <2>2. Downstream(c) = <<>>
    BY <2>1, Nothing, ConcatEmptySeq DEF Downstream
  <2> QED BY <1>4, <2>2, Nothing DEF In, Data
<1>5. CASE client[c] # "gone" /\ conn[c] = "dead"
  <2>1. inbuf[c] = <<>> /\ outbuf[c] = <<>> /\ down[c] = <<[half |-> "rejected"]>>
    BY <1>1, <1>5 DEF Streams, Dead
  <2> DEFINE x == [half |-> "rejected"]
  <2>2. ~IsHalf(x)
    BY DEF IsHalf
  <2> HIDE DEF x
  <2>3. Downstream(c) = <<x>>
    <3>1. <<x>> \in Seq({x})
      OBVIOUS
    <3>2. <<>> \o <<x>> = <<x>> /\ <<x>> \o <<>> = <<x>>
      BY <3>1, ConcatEmptySeq
    <3> QED BY <2>1, <3>2 DEF Downstream, x
  <2>4. Data(Downstream(c)) = <<>>
    BY <2>2, <2>3, OneItem DEF Data
  <2> QED BY <1>5, <2>4, Nothing DEF In
<1>6. CASE client[c] # "gone" /\ conn[c] = "open" /\ client[c] = "greeting"
  <2>1. /\ inbuf[c] = <<>> /\ down[c] # <<>> /\ Head(down[c]) = [half |-> "ok"]
        /\ Tail(down[c]) \in Seq(Half)
    BY <1>1, <1>6 DEF Streams, Opened
  <2>2. Downstream(c) = down[c] \o outbuf[c]
    BY <1>2, <2>1, ConcatEmptySeq DEF Downstream
  <2>3. outbuf[c] \in Seq(Half \cup Reply)
    BY <1>2, SeqWider
  <2>4. /\ Downstream(c) # <<>> /\ Head(Downstream(c)) = Head(down[c])
        /\ Tail(Downstream(c)) = Tail(down[c]) \o outbuf[c]
    <3> DEFINE s == down[c]
    <3>1. s \in Seq(Half \cup Reply) /\ s # <<>>
      BY <1>2, <2>1
    <3> HIDE DEF s
    <3>2. /\ s \o outbuf[c] # <<>> /\ Head(s \o outbuf[c]) = Head(s)
          /\ Tail(s \o outbuf[c]) = Tail(s) \o outbuf[c]
      BY <2>3, <3>1, HeadConcat
    <3> QED BY <2>2, <3>2 DEF s
  <2>5. Data(Downstream(c)) = Tail(down[c]) \o outbuf[c]
    <3>1. ~IsHalf(Head(Downstream(c)))
      BY <2>1, <2>4 DEF IsHalf
    <3> QED BY <2>4, <3>1 DEF Data
  <2>6. Tail(down[c]) \o outbuf[c] \in Seq(Half)
    BY <1>2, <2>1, ConcatProperties
  <2> QED BY <1>6, <2>5, <2>6 DEF In, Join
<1>7. CASE client[c] # "gone" /\ conn[c] = "open" /\ client[c] # "greeting"
  <2>1. down[c] \in Seq(Half)
    BY <1>1, <1>7 DEF Streams, Opened
  <2>2. Downstream(c) \in Seq(Half)
    BY <1>2, <2>1, ConcatProperties DEF Downstream
  <2> QED BY <1>7, <2>2, FramesType DEF In, Downstream, Join
<1> QED BY <1>1, <1>3, <1>4, <1>5, <1>6, <1>7 DEF TypeOK

(* The packets of a stream and its framing are those of its halves.        *)
LEMMA LineFrames ==
  ASSUME TypeInv, NEW c \in Clients
  PROVE  /\ Frames(Upstream(c)) = Frames(Out(c))
         /\ WellFramed(Upstream(c)) <=> InPairs(Out(c))
         /\ client[c] # "gone" => /\ Frames(Downstream(c)) = Frames(In(c))
                                  /\ WellFramed(Downstream(c)) <=> InPairs(In(c))
<1>1. \A s : \A h \in Seq(Half) : Data(s) = h =>
        Frames(s) = Frames(h) /\ (WellFramed(s) <=> InPairs(h))
  <2> SUFFICES ASSUME NEW s, NEW h \in Seq(Half), Data(s) = h
               PROVE  Frames(s) = Frames(h) /\ (WellFramed(s) <=> InPairs(h))
    OBVIOUS
  <2>1. Data(h) = h
    BY FramesType
  <2>2. WellFramed(h) <=> InPairs(h)
    BY WellFramedPairs
  <2>3. Frames(s) = Frames(h)
    BY <2>1 DEF Frames
  <2>4. WellFramed(s) <=> WellFramed(h)
    BY <2>1 DEF WellFramed
  <2> QED BY <2>2, <2>3, <2>4
<1>2. Out(c) \in Seq(Half) /\ Data(Upstream(c)) = Out(c)
  BY OutLine
<1>3. In(c) \in Seq(Half)
  BY InLine
<1>4. client[c] # "gone" => Data(Downstream(c)) = In(c)
  BY InLine
<1> QED BY <1>1, <1>2, <1>3, <1>4

-----------------------------------------------------------------------------
(* How a step moves them.                                                  *)

Still(d) == Out(d)' = Out(d) /\ In(d)' = In(d)

LEMMA UntouchedStill ==
  ASSUME NEW d \in Clients,
         client'[d] = client[d] /\ rest'[d] = rest[d] /\ inbuf'[d] = inbuf[d],
         up'[d] = up[d] /\ down'[d] = down[d] /\ conn'[d] = conn[d],
         buf'[d] = buf[d] /\ outbuf'[d] = outbuf[d]
  PROVE  Still(d)
BY DEF Still, Out, In

(* The buffers of a connection that has been answered hold halves.         *)
LEMMA Lines ==
  ASSUME TypeInv, NEW c \in Clients
  PROVE  /\ conn[c] \in {"none", "pending", "open", "dead"}
         /\ rest[c] \in Seq(Half) /\ inbuf[c] \in Seq(Half) /\ outbuf[c] \in Seq(Half)
         /\ conn[c] \in {"open", "dead"} => buf[c] \in Seq(Half) /\ up[c] \in Seq(Half)
         /\ client[c] = "up" => conn[c] = "open" /\ down[c] \in Seq(Half)
         /\ client[c] = "away" => conn[c] = "none"
         /\ client[c] = "gone" => rest[c] = <<>>
BY Nothing DEF TypeInv, TypeOK, Streams, Unconnected, Opened, Dead

LEMMA ConnectMoves ==
  ASSUME TypeInv, NEW c \in Clients, Connect(c)
  PROVE  /\ \A d \in Clients : Still(d)
         /\ UNCHANGED <<sent, got, table>>
         /\ {d \in Clients : client'[d] # "gone"} = {d \in Clients : client[d] # "gone"}
<1>1. /\ client[c] = "away" /\ client' = [client EXCEPT ![c] = "greeting"]
      /\ UNCHANGED <<sent, rest, inbuf, got, down, conn, buf, outbuf, table>>
      /\ \A d \in Clients \ {c} : up'[d] = up[d]
  BY DEF Connect, TypeInv, TypeOK
<1>2. \A d \in Clients \ {c} : Still(d)
  BY <1>1, UntouchedStill DEF TypeInv, TypeOK
<1>3. conn[c] = "none" /\ conn'[c] = "none"
  BY <1>1, Lines
<1>4. Still(c)
  BY <1>3 DEF Still, Out, In
<1>5. client'[c] # "gone" /\ \A d \in Clients \ {c} : client'[d] = client[d]
  BY <1>1 DEF TypeInv, TypeOK
<1> QED BY <1>1, <1>2, <1>4, <1>5

(* What was not written to the socket is lost, and all on the way to it.   *)
LEMMA GoneClientMoves ==
  ASSUME TypeInv, NEW c \in Clients, client[c] \in {"greeting", "up"}, GoneClient(c)
  PROVE  /\ \A d \in Clients \ {c} : Still(d)
         /\ \E m \in 0..Len(Out(c)) : Out(c)' = First(Out(c), m)
         /\ In(c)' = <<>>
         /\ UNCHANGED <<sent, got, table>>
         /\ {d \in Clients : client'[d] # "gone"} = {d \in Clients : client[d] # "gone"} \ {c}
<1>1. /\ client' = [client EXCEPT ![c] = "gone"]
      /\ rest' = [rest EXCEPT ![c] = <<>>] /\ inbuf' = [inbuf EXCEPT ![c] = <<>>]
      /\ down' = [down EXCEPT ![c] = <<>>]
      /\ UNCHANGED <<sent, got, up, conn, buf, outbuf, table>>
  BY DEF GoneClient
<1>2. \A d \in Clients \ {c} : Still(d)
  BY <1>1, UntouchedStill DEF TypeInv, TypeOK
<1>3. client'[c] = "gone" /\ rest'[c] = <<>> /\ \A d \in Clients \ {c} : client'[d] = client[d]
  BY <1>1 DEF TypeInv, TypeOK
<1>4. In(c)' = <<>>
  BY <1>3 DEF In
<1>5. \E m \in 0..Len(Out(c)) : Out(c)' = First(Out(c), m)
  <2>1. CASE conn[c] \in {"open", "dead"}
    <3> DEFINE s == Join(buf[c], up[c])
    <3>1. s \in Seq(Half) /\ rest[c] \in Seq(Half)
      BY <2>1, Lines, JoinType
    <3>2. Out(c) = Join(s, rest[c]) /\ Out(c)' = Join(s, <<>>)
      BY <1>1, <1>3, <2>1 DEF Out
    <3> HIDE DEF s
    <3>3. Out(c)' = s
      BY <3>1, <3>2, JoinEmpty
    <3>4. Len(s) \in 0..Len(Out(c)) /\ First(Out(c), Len(s)) = s
      BY <3>1, <3>2, JoinFirst
    <3> QED BY <3>3, <3>4
  <2>2. CASE conn[c] \notin {"open", "dead"}
    <3>1. Out(c) = <<>> /\ Out(c)' = <<>>
      BY <1>1, <2>2 DEF Out
    <3>2. First(<<>>, 0) = <<>> /\ Len(<<>>) = 0
      BY DEF First
    <3> QED BY <3>1, <3>2
  <2> QED BY <2>1, <2>2
<1> QED BY <1>1, <1>2, <1>3, <1>4, <1>5

(* The reply leaves the line; the halves behind it stay.                   *)
LEMMA ReadReplyMoves ==
  ASSUME TypeInv, NEW c \in Clients, ReadReply(c), Head(down[c]).half = "ok"
  PROVE  /\ \A d \in Clients : Still(d)
         /\ UNCHANGED <<sent, got, table>>
         /\ {d \in Clients : client'[d] # "gone"} = {d \in Clients : client[d] # "gone"}
<1>1. /\ client[c] = "greeting" /\ down[c] # <<>>
      /\ client' = [client EXCEPT ![c] = "up"]
      /\ down' = [down EXCEPT ![c] = Tail(down[c])]
      /\ UNCHANGED <<sent, rest, inbuf, got, up, conn, buf, outbuf, table>>
  BY DEF ReadReply
<1>2. TypeOK /\ Streams(c)
  BY DEF TypeInv
<1>3. conn[c] = "open" /\ inbuf[c] = <<>> /\ Tail(down[c]) \in Seq(Half)
  BY <1>1, <1>2 DEF TypeOK, Streams, Unconnected, Dead, Opened
<1>4. client'[c] = "up" /\ down'[c] = Tail(down[c])
      /\ \A d \in Clients \ {c} : client'[d] = client[d] /\ down'[d] = down[d]
  BY <1>1, <1>2 DEF TypeOK
<1>5. \A d \in Clients \ {c} : Still(d)
  BY <1>1, <1>4, UntouchedStill
<1>6. Still(c)
  <2>1. Join(<<>>, Tail(down[c])) = Tail(down[c])
    BY <1>3, JoinEmpty
  <2> QED BY <1>1, <1>3, <1>4, <2>1 DEF Still, Out, In
<1> QED BY <1>1, <1>4, <1>5, <1>6

(* A device's packet is on the line at once, however much was written.     *)
LEMMA SendPacketMoves ==
  ASSUME TypeInv, Waiting = Clients, NEW c \in Clients, NEW dst \in Pids,
         SendPacket(c, dst),
         NEW packet, packet = [src |-> c, dst |-> dst, n |-> sent + 1]
  PROVE  /\ \A d \in Clients \ {c} : Still(d)
         /\ In(c)' = In(c)
         /\ Out(c)' = Join(Out(c), Halves(packet))
         /\ packet \in Packet
         /\ client[c] = "up" /\ sent < MaxPackets /\ sent' = sent + 1
         /\ UNCHANGED <<client, got, table>>
<1> DEFINE halves == Halves(packet)
           n == Fit(halves, up[c])
<1>1. /\ client[c] = "up" /\ rest[c] = <<>> /\ sent < MaxPackets /\ sent' = sent + 1
      /\ up' = [up EXCEPT ![c] = up[c] \o First(halves, n)]
      /\ rest' = [rest EXCEPT ![c] = Beyond(halves, n)]
      /\ UNCHANGED <<client, inbuf, got, down, conn, buf, outbuf, table>>
  BY DEF SendPacket
<1>2. TypeOK
  BY DEF TypeInv
<1>3. packet \in Packet
  BY <1>1, <1>2, RoomAssumption DEF TypeOK, Packet
<1>4. conn[c] = "open" /\ buf[c] \in Seq(Half) /\ up[c] \in Seq(Half)
  BY <1>1, Lines
<1>5. halves \in Seq(Half) /\ Len(up[c]) <= Room
  BY <1>2, <1>3, HalvesProperties DEF TypeOK
<1> HIDE DEF halves
<1>6. n \in 0..Len(halves)
  BY <1>4, <1>5, Fitting
<1> HIDE DEF n
<1>7. up'[c] = Join(up[c], First(halves, n)) /\ rest'[c] = Beyond(halves, n)
      /\ \A d \in Clients \ {c} : up'[d] = up[d] /\ rest'[d] = rest[d]
  BY <1>1, <1>2 DEF TypeOK, Join
<1>8. \A d \in Clients \ {c} : Still(d)
  BY <1>1, <1>7, UntouchedStill
<1>9. Out(c)' = Join(Join(buf[c], Join(up[c], First(halves, n))), Beyond(halves, n))
      /\ Out(c) = Join(Join(buf[c], up[c]), <<>>)
  BY <1>1, <1>4, <1>7 DEF Out
<1>10. Out(c)' = Join(Join(buf[c], up[c]), halves)
  BY <1>4, <1>5, <1>6, <1>9, Rejoining
<1>11. Out(c) = Join(buf[c], up[c])
  <2>1. Join(buf[c], up[c]) \in Seq(Half)
    BY <1>4, JoinType
  <2> QED BY <1>9, <2>1, JoinEmpty
<1>12. In(c)' = In(c)
  BY <1>1 DEF In
<1> QED BY <1>1, <1>3, <1>8, <1>10, <1>11, <1>12 DEF halves

LEMMA SendMoreMoves ==
  ASSUME TypeInv, NEW c \in Clients, SendMore(c)
  PROVE  /\ \A d \in Clients : Still(d)
         /\ UNCHANGED <<client, sent, got, table>>
<1> DEFINE n == Fit(rest[c], up[c])
<1>1. /\ up' = [up EXCEPT ![c] = up[c] \o First(rest[c], n)]
      /\ rest' = [rest EXCEPT ![c] = Beyond(rest[c], n)]
      /\ UNCHANGED <<client, sent, inbuf, got, down, conn, buf, outbuf, table>>
  BY DEF SendMore
<1>2. TypeOK
  BY DEF TypeInv
<1>3. /\ rest[c] \in Seq(Half) /\ up[c] \in Seq(Half \cup Greeting) /\ Len(up[c]) <= Room
  BY <1>2 DEF TypeOK
<1>4. n \in 0..Len(rest[c])
  BY <1>3, Fitting
<1> HIDE DEF n
<1>5. up'[c] = Join(up[c], First(rest[c], n)) /\ rest'[c] = Beyond(rest[c], n)
      /\ \A d \in Clients \ {c} : up'[d] = up[d] /\ rest'[d] = rest[d]
  BY <1>1, <1>2 DEF TypeOK, Join
<1>6. \A d \in Clients \ {c} : Still(d)
  BY <1>1, <1>5, UntouchedStill
<1>7. In(c)' = In(c)
  BY <1>1 DEF In
<1>8. CASE conn[c] \in {"open", "dead"}
  <2>1. buf[c] \in Seq(Half) /\ up[c] \in Seq(Half)
    BY <1>8, Lines
  <2>2. Join(Join(buf[c], Join(up[c], First(rest[c], n))), Beyond(rest[c], n))
          = Join(Join(buf[c], up[c]), rest[c])
    BY <1>3, <1>4, <2>1, Rejoining
  <2>3. Out(c)' = Out(c)
    BY <1>1, <1>5, <1>8, <2>2 DEF Out
  <2> QED BY <1>1, <1>6, <1>7, <2>3 DEF Still
<1>9. CASE conn[c] \notin {"open", "dead"}
  <2>1. Out(c)' = Out(c)
    BY <1>1, <1>9 DEF Out
  <2> QED BY <1>1, <1>6, <1>7, <2>1 DEF Still
<1> QED BY <1>8, <1>9

(* The complete packets that have arrived are taken off the line.          *)
LEMMA ReceiveMoves ==
  ASSUME TypeInv, NEW c \in Clients, Receive(c)
  PROVE  /\ \A d \in Clients \ {c} : Still(d)
         /\ Out(c)' = Out(c)
         /\ \E n \in 0..Len(Frames(In(c))) :
              /\ 2 * n <= Len(In(c))
              /\ In(c)' = Beyond(In(c), 2 * n)
              /\ got' = [got EXCEPT ![c] = @ \o SubSeq(Frames(In(c)), 1, n)]
              /\ n = 0 => got' = got
         /\ UNCHANGED <<client, sent, table>>
<1> DEFINE s == Join(inbuf[c], down[c])
           n == Len(Frames(s))
<1>1. /\ client[c] = "up"
      /\ got' = [got EXCEPT ![c] = got[c] \o Frames(s)]
      /\ inbuf' = [inbuf EXCEPT ![c] = Beyond(s, 2 * n)]
      /\ down' = [down EXCEPT ![c] = <<>>]
      /\ UNCHANGED <<client, sent, rest, up, conn, buf, outbuf, table>>
  BY DEF Receive, Join
<1>2. TypeOK
  BY DEF TypeInv
<1>3. /\ conn[c] = "open" /\ inbuf[c] \in Seq(Half) /\ down[c] \in Seq(Half)
      /\ outbuf[c] \in Seq(Half) /\ client[c] # "greeting" /\ client[c] # "gone"
  BY <1>1, Lines
<1>4. s \in Seq(Half)
  BY <1>3, JoinType
<1>5. In(c) = Join(s, outbuf[c])
  BY <1>3 DEF In
<1> HIDE DEF s
<1>6. /\ Frames(s) \in Seq(Packet) /\ n \in Nat /\ 2 * n \in 0..Len(s) /\ 2 * n <= Len(s)
  BY <1>4, FramesType, LenProperties
<1> DEFINE k == 2 * n
<1>7. inbuf'[c] = Beyond(s, k) /\ down'[c] = <<>>
      /\ \A d \in Clients \ {c} : inbuf'[d] = inbuf[d] /\ down'[d] = down[d]
  BY <1>1, <1>2 DEF TypeOK
<1>8. In(c)' = Join(Join(Beyond(s, k), <<>>), outbuf[c])
  BY <1>1, <1>3, <1>7 DEF In
<1>9. In(c)' = Beyond(In(c), k)
  <2> HIDE DEF n, k
  <2>1. k \in 0..Len(s)
    BY <1>6 DEF k
  <2>2. /\ Beyond(Join(s, outbuf[c]), k) = Join(Beyond(s, k), outbuf[c])
        /\ Beyond(s, k) \in Seq(Half)
    BY <1>3, <1>4, <2>1, JoinBeyond
  <2>3. Join(Beyond(s, k), <<>>) = Beyond(s, k)
    BY <2>2, JoinEmpty
  <2> QED BY <1>5, <1>8, <2>2, <2>3
<1> DEFINE f == Frames(In(c))
<1>10. Len(s) \in 0..Len(In(c)) /\ First(In(c), Len(s)) = s /\ In(c) \in Seq(Half)
  <2>1. Len(s) \in 0..Len(Join(s, outbuf[c])) /\ First(Join(s, outbuf[c]), Len(s)) = s
    BY <1>3, <1>4, JoinFirst
  <2> QED BY <1>5, <2>1, InLine
<1>11. PICK m \in 0..Len(f) : Frames(First(In(c), Len(s))) = SubSeq(f, 1, m)
  BY <1>10, FramesFirst
<1>12. f \in Seq(Packet)
  BY <1>10, FramesType
<1> HIDE DEF f
<1>13. Frames(s) = SubSeq(f, 1, n) /\ n = m
  <2>1. Frames(s) = SubSeq(f, 1, m)
    BY <1>10, <1>11
  <2>2. Len(SubSeq(f, 1, m)) = m
    BY <1>11, <1>12, Cutting DEF First
  <2> QED BY <2>1, <2>2
<1>14. n \in 0..Len(f) /\ 2 * n <= Len(In(c))
  <2>1. Len(In(c)) \in Nat /\ Len(s) <= Len(In(c)) /\ Len(s) \in Nat
    BY <1>4, <1>10, LenProperties
  <2>2. 2 * n <= Len(In(c))
    <3> HIDE DEF n
    <3> QED BY <1>6, <2>1
  <2> QED BY <1>11, <1>13, <2>2
<1>15. n = 0 => got' = got
  <2> HAVE n = 0
  <2>1. Frames(s) = <<>>
    BY <1>6, EmptySeq
  <2>2. got[c] \o <<>> = got[c]
    BY <1>2, ConcatEmptySeq DEF TypeOK
  <2> QED BY <1>1, <1>2, <2>1, <2>2 DEF TypeOK
<1>16. \A d \in Clients \ {c} : Still(d)
  BY <1>1, <1>7, UntouchedStill
<1>17. Out(c)' = Out(c)
  BY <1>1 DEF Out
<1>18. got' = [got EXCEPT ![c] = @ \o SubSeq(f, 1, n)]
  BY <1>1, <1>13
<1> HIDE DEF n
<1> QED BY <1>1, <1>9, <1>14, <1>15, <1>16, <1>17, <1>18 DEF f, k

(* The crossbar's steps that neither switch a packet nor close a           *)
(* connection move nothing.                                                *)
Quiet == (\A d \in Clients : Still(d)) /\ UNCHANGED <<client, sent, got, table>>

(* A client is found to have gone; part of what it had sent may be lost.   *)
Detaching(c) ==
  /\ client[c] = "gone"
  /\ \A d \in Clients \ {c} : Still(d)
  /\ In(c)' = In(c)
  /\ \E m \in 0..Len(Out(c)) : Out(c)' = First(Out(c), m)
  /\ table' = Restrict(table, {p \in DOMAIN table : table[p] # c})
  /\ UNCHANGED <<client, sent, got>>

LEMMA AcceptMoves ==
  ASSUME TypeInv, NEW c \in Clients, Accept(c)
  PROVE  Quiet
<1>1. /\ conn[c] = "none" /\ conn' = [conn EXCEPT ![c] = "pending"]
      /\ UNCHANGED <<client, sent, rest, inbuf, got, up, down, buf, outbuf, table>>
  BY DEF Accept, clientVars
<1>2. conn'[c] = "pending" /\ \A d \in Clients \ {c} : conn'[d] = conn[d]
  BY <1>1 DEF TypeInv, TypeOK
<1>3. \A d \in Clients \ {c} : Still(d)
  BY <1>1, <1>2, UntouchedStill
<1>4. Still(c)
  BY <1>1, <1>2 DEF Still, Out, In
<1> QED BY <1>1, <1>3, <1>4 DEF Quiet

(* What is on the line before the part that waits in outbuf.               *)
Line(c) == IF client[c] = "greeting" THEN Tail(down[c]) ELSE Join(inbuf[c], down[c])

(* A flush puts what it was given behind it.                               *)
LEMMA FlushMoves ==
  ASSUME TypeInv, NEW c \in Clients, NEW out \in Seq(Half), Flush(c, out),
         conn[c] = "open", client[c] # "gone", UNCHANGED <<client, inbuf>>
  PROVE  /\ Line(c) \in Seq(Half) /\ In(c) = Join(Line(c), outbuf[c])
         /\ In(c)' = Join(Line(c), out)
<1>1. TypeOK /\ Opened(c)
  BY DEF TypeInv, Streams
<1>2. PICK n \in 0..Len(out) : /\ down'[c] = down[c] \o First(out, n)
                               /\ outbuf'[c] = Beyond(out, n)
                               /\ First(out, n) \in Seq(Half)
  BY <1>1, FlushTypes
<1>3. conn' = conn
  BY DEF Flush
<1>4. CASE client[c] = "up"
  <2>1. inbuf[c] \in Seq(Half) /\ down[c] \in Seq(Half)
    BY <1>4, Lines
  <2>2. Line(c) \in Seq(Half) /\ In(c) = Join(Line(c), outbuf[c])
    BY <1>4, <2>1, JoinType DEF Line, In
  <2>3. In(c)' = Join(Join(inbuf[c], Join(down[c], First(out, n))), Beyond(out, n))
    BY <1>2, <1>3, <1>4 DEF In, Join
  <2>4. In(c)' = Join(Join(inbuf[c], down[c]), out)
    BY <2>1, <2>3, Rejoining
  <2> QED BY <1>4, <2>2, <2>4 DEF Line
<1>5. CASE client[c] = "greeting"
  <2> DEFINE s == down[c]
             more == First(out, n)
  <2>1. /\ s \in Seq(Half \cup Reply) /\ s # <<>> /\ Tail(s) \in Seq(Half)
    BY <1>1, <1>5, KernelBuffers DEF Opened
  <2>2. more \in Seq(Half \cup Reply)
    BY <1>2, SeqWider
  <2>3. down'[c] = s \o more
    BY <1>2
  <2> HIDE DEF s, more
  <2>4. Tail(down'[c]) = Join(Tail(s), more)
    <3>1. Tail(s \o more) = Tail(s) \o more
      BY <2>1, <2>2, HeadConcat
    <3> QED BY <2>3, <3>1 DEF Join
  <2>5. In(c)' = Join(Join(Tail(s), more), Beyond(out, n))
    BY <1>2, <1>3, <1>5, <2>4 DEF In
  <2>6. In(c)' = Join(Tail(s), out)
    BY <2>1, <2>5, Rejoining DEF more
  <2> QED BY <1>5, <2>1, <2>6 DEF Line, In, s
<1> QED BY <1>1, <1>4, <1>5 DEF Opened

(* A close drops all but what handle_readable has taken in.                *)
LEMMA ClosingMoves ==
  ASSUME TypeInv, NEW c \in Clients, CloseConnection(c), client[c] = "gone",
         UNCHANGED <<client, rest>>, buf'[c] \in Seq(Half)
  PROVE  /\ Out(c)' = buf'[c] /\ In(c)' = <<>> /\ In(c) = <<>>
         /\ \A d \in Clients \ {c} :
              conn'[d] = conn[d] /\ up'[d] = up[d] /\ outbuf'[d] = outbuf[d]
         /\ table' = Restrict(table, {p \in DOMAIN table : table[p] # c})
<1>1. TypeOK
  BY DEF TypeInv
<1>2. /\ conn' = [conn EXCEPT ![c] = "dead"] /\ up' = [up EXCEPT ![c] = <<>>]
      /\ outbuf' = [outbuf EXCEPT ![c] = <<>>]
      /\ table' = Restrict(table, {p \in DOMAIN table : table[p] # c})
  BY DEF CloseConnection
<1>3. conn'[c] = "dead" /\ up'[c] = <<>>
  BY <1>1, <1>2 DEF TypeOK
<1>4. rest[c] = <<>>
  BY Lines
<1>5. Out(c)' = Join(Join(buf'[c], <<>>), <<>>)
  BY <1>3, <1>4 DEF Out
<1>6. Out(c)' = buf'[c]
  BY <1>5, JoinEmpty
<1>7. In(c)' = <<>> /\ In(c) = <<>>
  BY <1>3 DEF In
<1> QED BY <1>1, <1>2, <1>6, <1>7 DEF TypeOK

(* What handle_readable holds is the front of the line.                    *)
LEMMA FrontOfLine ==
  ASSUME TypeInv, NEW c \in Clients, conn[c] \in {"open", "dead"}
  PROVE  /\ buf[c] \in Seq(Half) /\ Out(c) \in Seq(Half)
         /\ Len(buf[c]) \in 0..Len(Out(c)) /\ First(Out(c), Len(buf[c])) = buf[c]
         /\ \A m \in 0..Len(buf[c]) :
              /\ First(Out(c), m) = First(buf[c], m)
              /\ Beyond(Out(c), m) = Join(Join(Beyond(buf[c], m), up[c]), rest[c])
              /\ Beyond(buf[c], m) \in Seq(Half)
<1>1. buf[c] \in Seq(Half) /\ up[c] \in Seq(Half) /\ rest[c] \in Seq(Half)
  BY Lines
<1> DEFINE s == buf[c]
           t == Join(up[c], rest[c])
<1>2. s \in Seq(Half) /\ t \in Seq(Half)
  BY <1>1, JoinType
<1>3. Out(c) = Join(s, t)
  BY <1>1, JoinAssociative DEF Out
<1>4. ASSUME NEW m \in 0..Len(s)
      PROVE  /\ First(Out(c), m) = First(s, m)
             /\ Beyond(Out(c), m) = Join(Join(Beyond(s, m), up[c]), rest[c])
             /\ Beyond(s, m) \in Seq(Half)
  <2> HIDE DEF s
  <2>1. /\ Beyond(Join(s, t), m) = Join(Beyond(s, m), t)
        /\ First(Join(s, t), m) = First(s, m)
        /\ Beyond(s, m) \in Seq(Half)
    BY <1>2, JoinBeyond
  <2>2. Join(Join(Beyond(s, m), up[c]), rest[c]) = Join(Beyond(s, m), t)
    BY <1>1, <2>1, JoinAssociative
  <2> QED BY <1>3, <2>1, <2>2
<1> HIDE DEF t
<1>5. Len(s) \in 0..Len(Join(s, t)) /\ First(Join(s, t), Len(s)) = s
  <2> HIDE DEF s
  <2> QED BY <1>2, JoinFirst
<1> QED BY <1>1, <1>3, <1>4, <1>5, OutLine

LEMMA HandleWritableMoves ==
  ASSUME TypeInv, NEW c \in Clients, HandleWritable(c)
  PROVE  Quiet \/ Detaching(c)
<1>1. /\ c \in writable
      /\ UNCHANGED <<client, sent, rest, inbuf, got, buf>>
  BY DEF HandleWritable, clientVars
<1>2. TypeOK /\ Streams(c)
  BY DEF TypeInv
<1>3. CASE conn[c] = "dead"
  <2>1. UNCHANGED <<up, down, conn, outbuf, table>>
    BY <1>3 DEF HandleWritable
  <2> QED BY <1>1, <2>1, UntouchedStill DEF Quiet
<1>4. CASE conn[c] # "dead"
  <2>1. FlushOrClose(c, outbuf[c])
    BY <1>4 DEF HandleWritable
  <2>2. conn[c] = "open" /\ outbuf[c] \in Seq(Half)
    BY <1>1, <1>2, <1>4 DEF TypeOK, Streams, Unconnected
  <2>3. CASE client[c] = "gone"
    <3>1. CloseConnection(c) /\ UNCHANGED down
      BY <2>1, <2>3 DEF FlushOrClose
    <3>2. buf'[c] = buf[c] /\ buf[c] \in Seq(Half)
      BY <1>1, <2>2, Lines
    <3>3. /\ Out(c)' = buf[c] /\ In(c)' = In(c)
          /\ \A d \in Clients \ {c} :
               conn'[d] = conn[d] /\ up'[d] = up[d] /\ outbuf'[d] = outbuf[d]
          /\ table' = Restrict(table, {p \in DOMAIN table : table[p] # c})
      BY <1>1, <2>3, <3>1, <3>2, ClosingMoves
    <3>4. \A d \in Clients \ {c} : Still(d)
      BY <1>1, <3>1, <3>3, UntouchedStill
    <3>5. Len(buf[c]) \in 0..Len(Out(c)) /\ First(Out(c), Len(buf[c])) = buf[c]
      BY <2>2, FrontOfLine
    <3> QED BY <1>1, <2>3, <3>3, <3>4, <3>5 DEF Detaching
  <2>4. CASE client[c] # "gone"
    <3>1. Flush(c, outbuf[c])
      BY <2>1, <2>4 DEF FlushOrClose
    <3>2. /\ UNCHANGED <<conn, table, up>>
          /\ \A d \in Clients \ {c} : down'[d] = down[d] /\ outbuf'[d] = outbuf[d]
      BY <1>2, <2>2, <3>1, FlushTypes
    <3>3. \A d \in Clients \ {c} : Still(d)
      BY <1>1, <3>2, UntouchedStill
    <3>4. In(c)' = In(c)
      BY <1>1, <2>2, <2>4, <3>1, FlushMoves
    <3>5. Out(c)' = Out(c)
      BY <1>1, <3>2 DEF Out
    <3> QED BY <1>1, <3>2, <3>3, <3>4, <3>5 DEF Quiet, Still
  <2> QED BY <2>3, <2>4
<1> QED BY <1>3, <1>4

LEMMA HandleReadableMoves ==
  ASSUME TypeInv, NEW c \in Clients, HandleReadable(c)
  PROVE  Quiet \/ Detaching(c)
<1>1. /\ c \in readable
      /\ UNCHANGED <<client, sent, rest, inbuf, got, down>>
  BY DEF HandleReadable, clientVars
<1>2. TypeOK /\ Streams(c)
  BY DEF TypeInv
<1>3. CASE conn[c] = "dead"
  <2>1. UNCHANGED <<up, conn, buf, outbuf, table>>
    BY <1>3 DEF HandleReadable
  <2> QED BY <1>1, <2>1, UntouchedStill DEF Quiet
<1>4. CASE conn[c] # "dead" /\ up[c] # <<>>
  <2>1. ReadSome(c)
    BY <1>4 DEF HandleReadable
  <2>2. PICK n \in 1..Len(up[c]) : /\ buf' = [buf EXCEPT ![c] = buf[c] \o First(up[c], n)]
                                   /\ up' = [up EXCEPT ![c] = Beyond(up[c], n)]
    BY <2>1 DEF ReadSome
  <2>3. UNCHANGED <<conn, outbuf, table>>
    BY <2>1 DEF ReadSome
  <2>4. /\ buf'[c] = Join(buf[c], First(up[c], n)) /\ up'[c] = Beyond(up[c], n)
        /\ \A d \in Clients \ {c} : buf'[d] = buf[d] /\ up'[d] = up[d]
    BY <1>2, <2>2 DEF TypeOK, Join
  <2>5. \A d \in Clients \ {c} : Still(d)
    BY <1>1, <2>3, <2>4, UntouchedStill
  <2>6. In(c)' = In(c)
    BY <1>1, <2>3 DEF In
  <2>7. Out(c)' = Out(c)
    <3>1. CASE conn[c] = "open"
      <4>1. buf[c] \in Seq(Half) /\ up[c] \in Seq(Half) /\ rest[c] \in Seq(Half)
        BY <3>1, Lines
      <4>2. n \in 0..Len(up[c])
        BY <4>1, LenProperties
      <4>3. Join(Join(buf[c], First(up[c], n)), Beyond(up[c], n)) = Join(buf[c], up[c])
        BY <4>1, <4>2, Rejoining
      <4> QED BY <1>1, <2>3, <2>4, <3>1, <4>3 DEF Out
    <3>2. CASE conn[c] # "open"
      BY <1>4, <2>3, <3>2 DEF Out
    <3> QED BY <3>1, <3>2
  <2> QED BY <1>1, <2>3, <2>5, <2>6, <2>7 DEF Quiet, Still
<1>5. CASE conn[c] # "dead" /\ up[c] = <<>>
  <2>1. CloseConnection(c) /\ buf' = [buf EXCEPT ![c] = <<>>]
    BY <1>5 DEF HandleReadable
  <2>2. client[c] = "gone"
    BY <1>1, <1>2, <1>5 DEF TypeOK, Streams, Unconnected, Opened
  <2>3. buf'[c] = <<>> /\ buf'[c] \in Seq(Half) /\ \A d \in Clients \ {c} : buf'[d] = buf[d]
    BY <1>2, <2>1, Nothing DEF TypeOK
  <2>4. /\ Out(c)' = <<>> /\ In(c)' = In(c)
        /\ \A d \in Clients \ {c} :
             conn'[d] = conn[d] /\ up'[d] = up[d] /\ outbuf'[d] = outbuf[d]
        /\ table' = Restrict(table, {p \in DOMAIN table : table[p] # c})
    BY <1>1, <2>1, <2>2, <2>3, ClosingMoves
  <2>5. \A d \in Clients \ {c} : Still(d)
    BY <1>1, <2>3, <2>4, UntouchedStill
  <2>6. 0 \in 0..Len(Out(c)) /\ First(Out(c), 0) = <<>>
    <3>1. Out(c) \in Seq(Half) /\ Len(Out(c)) \in Nat
      BY OutLine, LenProperties
    <3>2. 0 \in 0..Len(Out(c))
      BY <3>1
    <3>3. First(Out(c), 0) \in Seq(Half) /\ Len(First(Out(c), 0)) = 0
      BY <3>1, <3>2, Cutting
    <3> QED BY <3>2, <3>3, EmptySeq
  <2> QED BY <1>1, <2>2, <2>4, <2>5, <2>6 DEF Detaching
<1> QED BY <1>3, <1>4, <1>5

(* A greeting is not part of the line, and the answer to it neither.       *)
LEMMA HandleHandshakeMoves ==
  ASSUME TypeInv, LoopInv, NEW c \in Clients, HandleHandshake(c)
  PROVE  \/ Quiet
         \/ /\ \A d \in Clients : Still(d)
            /\ UNCHANGED <<client, sent, got>>
            /\ pid[c] \in Pids \ DOMAIN table /\ c \notin Range(table)
            /\ table' = [x \in DOMAIN table \cup {pid[c]} |->
                           IF x = pid[c] THEN c ELSE table[x]]
<1>1. /\ routing = c /\ conn[c] = "pending"
      /\ UNCHANGED <<client, sent, rest, inbuf, got>>
  BY DEF HandleHandshake, clientVars
<1>2. TypeOK /\ Unconnected(c) /\ Holders /\ LoopTypes
  BY <1>1 DEF TypeInv, Streams, LoopInv
<1>3. /\ buf[c] # <<>> /\ up[c] = <<>> /\ rest[c] = <<>> /\ inbuf[c] = <<>>
      /\ down[c] = <<>> /\ outbuf[c] = <<>> /\ client[c] # "away" /\ client[c] # "up"
  BY <1>1, <1>2 DEF Unconnected
<1>4. c \notin Range(table)
  BY <1>1, <1>2 DEF Holders, Range
<1>5. Out(c) = <<>> /\ In(c) = <<>>
  BY <1>1 DEF Out, In
<1>6. ASSUME NEW status, WriteReply(c, status)
      PROVE  /\ \A d \in Clients \ {c} : down'[d] = down[d]
             /\ client[c] # "gone" => down'[c] = <<[half |-> status]>>
  <2> DEFINE item == [half |-> status]
  <2> HIDE DEF item
  <2>1. Append(<<>>, item) = <<item>>
    OBVIOUS
  <2>2. CASE client[c] = "gone"
    BY <1>6, <2>2 DEF WriteReply
  <2>3. CASE client[c] # "gone"
    <3>1. down' = [down EXCEPT ![c] = <<item>>]
      BY <1>3, <1>6, <2>1, <2>3 DEF WriteReply, item
    <3> QED BY <1>2, <3>1 DEF TypeOK, item
  <2> QED BY <2>2, <2>3
<1>7. CASE TakeHandshake(c) = BadPid \/ TakeHandshake(c) \in DOMAIN table
  <2>1. /\ CloseConnection(c) /\ WriteReply(c, "rejected")
        /\ buf' = [buf EXCEPT ![c] = <<>>]
    BY <1>7 DEF HandleHandshake, Reject
  <2>2. /\ conn' = [conn EXCEPT ![c] = "dead"] /\ up' = [up EXCEPT ![c] = <<>>]
        /\ outbuf' = [outbuf EXCEPT ![c] = <<>>]
        /\ table' = Restrict(table, {p \in DOMAIN table : table[p] # c})
    BY <2>1 DEF CloseConnection
  <2>3. /\ conn'[c] = "dead" /\ up'[c] = <<>> /\ buf'[c] = <<>>
        /\ \A d \in Clients \ {c} : /\ conn'[d] = conn[d] /\ up'[d] = up[d]
                                    /\ outbuf'[d] = outbuf[d] /\ buf'[d] = buf[d]
    BY <1>2, <2>1, <2>2 DEF TypeOK
  <2>4. \A d \in Clients \ {c} : Still(d)
    BY <1>1, <1>6, <2>1, <2>3, UntouchedStill
  <2>5. Out(c)' = <<>> /\ In(c)' = <<>>
    <3>1. Join(<<>>, <<>>) = <<>>
      BY Nothing, JoinEmpty
    <3> QED BY <1>1, <1>3, <2>3, <3>1 DEF Out, In
  <2>6. table' = table
    <3>1. {p \in DOMAIN table : table[p] # c} = DOMAIN table
      BY <1>4 DEF Range
    <3> QED BY <1>2, <2>2, <3>1 DEF Restrict, LoopTypes
  <2> QED BY <1>1, <1>5, <2>4, <2>5, <2>6 DEF Quiet, Still
<1>8. CASE ~(TakeHandshake(c) = BadPid \/ TakeHandshake(c) \in DOMAIN table)
  <2>1. TakeHandshake(c) = pid[c] /\ pid[c] \in Pids \ DOMAIN table
    BY <1>8, PidsAssumption DEF TakeHandshake
  <2>2. /\ conn' = [conn EXCEPT ![c] = "open"]
        /\ table' = [x \in DOMAIN table \cup {pid[c]} |-> IF x = pid[c] THEN c ELSE table[x]]
        /\ WriteReply(c, "ok")
        /\ buf' = [buf EXCEPT ![c] = Tail(buf[c])]
        /\ UNCHANGED <<up, outbuf>>
    BY <1>8, <2>1 DEF HandleHandshake, Admit
  <2>3. Tail(buf[c]) = <<>>
    <3>1. PICK greeting \in Greeting : buf[c] = <<greeting>>
      BY <1>2, <1>3 DEF Unconnected, Greeted
    <3> QED BY <3>1, OneItem
  <2>4. /\ conn'[c] = "open" /\ buf'[c] = <<>>
        /\ \A d \in Clients \ {c} : conn'[d] = conn[d] /\ buf'[d] = buf[d]
    BY <1>2, <2>2, <2>3 DEF TypeOK
  <2>5. \A d \in Clients \ {c} : Still(d)
    BY <1>1, <1>6, <2>2, <2>4, UntouchedStill
  <2>6. Join(<<>>, <<>>) = <<>>
    BY Nothing, JoinEmpty
  <2>7. Out(c)' = <<>>
    BY <1>1, <1>3, <2>2, <2>4, <2>6 DEF Out
  <2>8. In(c)' = <<>>
    <3>1. CASE client[c] = "gone"
      BY <1>1, <3>1 DEF In
    <3>2. CASE client[c] # "gone"
      <4>1. client[c] = "greeting"
        BY <1>2, <1>3, <3>2 DEF TypeOK
      <4>2. down'[c] = <<[half |-> "ok"]>>
        BY <1>6, <2>2, <3>2
      <4>3. Tail(down'[c]) = <<>>
        BY <4>2
      <4> QED BY <1>1, <1>3, <2>2, <2>4, <2>6, <4>1, <4>3 DEF In
    <3> QED BY <3>1, <3>2
  <2> QED BY <1>1, <1>4, <1>5, <2>1, <2>2, <2>5, <2>7, <2>8 DEF Still
<1> QED BY <1>7, <1>8

(* Where the front packet of the line from c goes: nowhere, ...            *)
Dropped(c, dst) ==
  /\ dst \notin DOMAIN table
  /\ \A d \in Clients \ {c} : Still(d)
  /\ Out(c)' = Beyond(Out(c), 2) /\ In(c)' = In(c)
  /\ table' = table

(* ... behind the line to the holder t of its number, ...                  *)
Passed(c, dst, t) ==
  /\ dst \in DOMAIN table /\ t = table[dst] /\ client[t] # "gone"
  /\ Out(c)' = Beyond(Out(c), 2)
  /\ \A d \in Clients \ {c} : Out(d)' = Out(d)
  /\ In(t)' = Join(In(t), First(Out(c), 2))
  /\ \A d \in Clients \ {t} : In(d)' = In(d)
  /\ table' = table

(* ... or nowhere, and the holder is found to have gone.                   *)
Refused(c, dst, t) ==
  /\ dst \in DOMAIN table /\ t = table[dst] /\ client[t] = "gone"
  /\ \A d \in Clients : In(d)' = In(d)
  /\ \A d \in Clients \ {c, t} : Out(d)' = Out(d)
  /\ t # c => Out(c)' = Beyond(Out(c), 2)
  /\ LET s == IF t = c THEN Beyond(Out(c), 2) ELSE Out(t)
     IN \E m \in 0..Len(s) : Out(t)' = First(s, m)
  /\ table' = Restrict(table, {p \in DOMAIN table : table[p] # t})

LEMMA RoutePacketMoves ==
  ASSUME TypeInv, LoopInv, NEW c \in Clients, RoutePacket(c),
         NEW dst, dst = Head(buf[c]).packet.dst
  PROVE  /\ UNCHANGED <<client, sent, got>>
         /\ Out(c) \in Seq(Half) /\ Len(Out(c)) >= 2 /\ Head(Out(c)) = Head(buf[c])
         /\ \/ Dropped(c, dst)
            \/ \E t \in Clients : Passed(c, dst, t) \/ Refused(c, dst, t)
<1> DEFINE packet == First(buf[c], 2)
           left == Beyond(buf[c], 2)
<1>1. /\ routing = c /\ conn[c] # "pending" /\ PacketReady(buf[c])
      /\ buf' = [buf EXCEPT ![c] = left]
      /\ UNCHANGED <<client, sent, rest, inbuf, got>>
  BY DEF RoutePacket, clientVars
<1>2. TypeOK /\ (\A d \in Clients : Streams(d)) /\ Holders
  BY DEF TypeInv, LoopInv
<1>3. conn[c] \in {"open", "dead"}
  BY <1>1, <1>2 DEF TypeOK, Streams, Unconnected
<1>4. /\ buf[c] \in Seq(Half) /\ Out(c) \in Seq(Half)
      /\ Len(buf[c]) \in 0..Len(Out(c))
      /\ Len(buf[c]) \in Nat /\ Len(Out(c)) \in Nat /\ Len(buf[c]) >= 2
  <2>1. /\ buf[c] \in Seq(Half) /\ Out(c) \in Seq(Half) /\ Len(buf[c]) \in 0..Len(Out(c))
    BY <1>3, FrontOfLine
  <2> QED BY <1>1, <2>1, LenProperties DEF PacketReady
<1>5. /\ First(Out(c), 2) = packet
      /\ Beyond(Out(c), 2) = Join(Join(left, up[c]), rest[c])
      /\ left \in Seq(Half) /\ packet \in Seq(Half)
  <2>1. 2 \in 0..Len(buf[c])
    BY <1>4
  <2>2. \A m \in 0..Len(buf[c]) :
              /\ First(Out(c), m) = First(buf[c], m)
              /\ Beyond(Out(c), m) = Join(Join(Beyond(buf[c], m), up[c]), rest[c])
              /\ Beyond(buf[c], m) \in Seq(Half)
    BY <1>3, FrontOfLine
  <2>3. First(buf[c], 2) \in Seq(Half)
    BY <1>4, <2>1, Cutting
  <2> QED BY <2>1, <2>2, <2>3
<1>6. Len(Out(c)) >= 2 /\ Head(Out(c)) = Head(buf[c])
  <2>1. Len(Out(c)) >= 2 /\ 1 \in 1..Len(buf[c]) /\ Len(buf[c]) \in 0..Len(Out(c))
    BY <1>4
  <2>2. buf[c] # <<>> /\ Out(c) # <<>>
    BY <1>4, <2>1
  <2>3. Head(Out(c)) = Out(c)[1] /\ Head(buf[c]) = buf[c][1]
    BY <1>4, <2>2, HeadTailProperties
  <2>4. \A i \in 1..Len(buf[c]) : First(Out(c), Len(buf[c]))[i] = Out(c)[i]
    BY <1>4, Cutting
  <2>5. First(Out(c), Len(buf[c])) = buf[c]
    BY <1>3, FrontOfLine
  <2> QED BY <2>1, <2>3, <2>4, <2>5
<1> HIDE DEF packet, left
<1>7. buf'[c] = left /\ \A d \in Clients \ {c} : buf'[d] = buf[d]
  BY <1>1, <1>2 DEF TypeOK
<1>8. ASSUME conn'[c] = conn[c], up'[c] = up[c]
      PROVE  Out(c)' = Beyond(Out(c), 2)
  BY <1>1, <1>3, <1>5, <1>7, <1>8 DEF Out
<1>9. CASE dst \notin DOMAIN table
  <2>1. UNCHANGED <<up, down, conn, outbuf, table>>
    BY <1>9 DEF RoutePacket
  <2>2. \A d \in Clients \ {c} : Still(d)
    BY <1>1, <1>7, <2>1, UntouchedStill
  <2>3. Out(c)' = Beyond(Out(c), 2)
    BY <1>8, <2>1
  <2>4. In(c)' = In(c)
    BY <1>1, <2>1 DEF In
  <2> QED BY <1>1, <1>4, <1>6, <1>9, <2>1, <2>2, <2>3, <2>4 DEF Dropped
<1>10. CASE dst \in DOMAIN table
  <2> PICK t \in Clients : t = table[dst]
    BY <1>2, <1>10 DEF Holders
  <2> DEFINE out == Join(outbuf[t], packet)
  <2>1. FlushOrClose(t, out)
    BY <1>10 DEF RoutePacket, WritePacket, packet, Join
  <2>2. conn[t] = "open" /\ outbuf[t] \in Seq(Half) /\ buf[t] \in Seq(Half)
    BY <1>2, <1>10, Lines DEF Holders
  <2>3. out \in Seq(Half)
    BY <1>5, <2>2, JoinType
  <2>4. CASE client[t] # "gone"
    <3>1. Flush(t, out)
      BY <2>1, <2>4 DEF FlushOrClose
    <3> HIDE DEF out
    <3>2. /\ UNCHANGED <<conn, table, up>>
          /\ \A d \in Clients \ {t} : down'[d] = down[d] /\ outbuf'[d] = outbuf[d]
      <4>1. TypeOK
        BY <1>2
      <4> QED BY <2>3, <3>1, <4>1, FlushTypes
    <3>3. /\ Line(t) \in Seq(Half) /\ In(t) = Join(Line(t), outbuf[t])
          /\ In(t)' = Join(Line(t), out)
      BY <1>1, <2>2, <2>3, <2>4, <3>1, FlushMoves
    <3>4. In(t)' = Join(In(t), packet)
      BY <1>5, <2>2, <3>3, JoinAssociative DEF out
    <3>5. Out(c)' = Beyond(Out(c), 2)
      BY <1>8, <3>2
    <3>6. \A d \in Clients \ {c} : Out(d)' = Out(d)
      BY <1>1, <1>7, <3>2 DEF Out
    <3>7. \A d \in Clients \ {t} : In(d)' = In(d)
      BY <1>1, <3>2 DEF In
    <3>8. Passed(c, dst, t)
      BY <1>5, <1>10, <2>4, <3>2, <3>4, <3>5, <3>6, <3>7 DEF Passed
    <3> QED BY <1>1, <1>4, <1>6, <3>8
  <2>5. CASE client[t] = "gone"
    <3>1. CloseConnection(t) /\ UNCHANGED down
      BY <2>1, <2>5 DEF FlushOrClose
    <3>2. buf'[t] \in Seq(Half)
      <4>1. CASE t = c
        BY <1>5, <1>7, <4>1
      <4>2. CASE t # c
        BY <1>7, <2>2, <4>2
      <4> QED BY <4>1, <4>2
    <3> HIDE DEF out
    <3>3. Out(t)' = buf'[t] /\ In(t)' = In(t)
      BY <1>1, <2>5, <3>1, <3>2, ClosingMoves
    <3>4. table' = Restrict(table, {p \in DOMAIN table : table[p] # t})
      BY <1>1, <2>5, <3>1, <3>2, ClosingMoves
    <3>5. ASSUME NEW d \in Clients, d # t
          PROVE  conn'[d] = conn[d] /\ up'[d] = up[d] /\ outbuf'[d] = outbuf[d]
      BY <1>1, <2>5, <3>1, <3>2, <3>5, ClosingMoves
    <3>6. ASSUME NEW d \in Clients PROVE In(d)' = In(d)
      <4>1. CASE d = t
        BY <3>3, <4>1
      <4>2. CASE d # t
        <5>1. conn'[d] = conn[d] /\ outbuf'[d] = outbuf[d]
          BY <3>5, <4>2
        <5>2. client' = client /\ inbuf' = inbuf /\ down' = down
          BY <1>1, <3>1
        <5> QED BY <5>1, <5>2 DEF In
      <4> QED BY <4>1, <4>2
    <3>7. ASSUME NEW d \in Clients, d # c, d # t PROVE Out(d)' = Out(d)
      <4>1. conn'[d] = conn[d] /\ up'[d] = up[d]
        BY <3>5, <3>7
      <4>2. buf'[d] = buf[d] /\ rest' = rest
        BY <1>1, <1>7, <3>7
      <4> QED BY <4>1, <4>2 DEF Out
    <3>8. t # c => Out(c)' = Beyond(Out(c), 2)
      BY <1>8, <3>5
    <3>9. ASSUME t = c PROVE Refused(c, dst, t)
      <4> DEFINE s == Beyond(Out(c), 2)
                 u == up[c]
                 v == rest[c]
      <4>1. u \in Seq(Half) /\ v \in Seq(Half)
        BY <1>3, Lines
      <4>2. s = Join(Join(left, u), v) /\ left \in Seq(Half)
        BY <1>5
      <4> HIDE DEF s, u, v
      <4>3. Join(u, v) \in Seq(Half)
        BY <4>1, JoinType
      <4>4. s = Join(left, Join(u, v))
        BY <4>1, <4>2, JoinAssociative
      <4>5. Len(left) \in 0..Len(s) /\ First(s, Len(left)) = left
        BY <4>2, <4>3, <4>4, JoinFirst
      <4>6. Out(t)' = First(s, Len(left))
        <5>1. Out(t)' = left
          BY <1>7, <3>3, <3>9
        <5> QED BY <4>5, <5>1
      <4>7. \E m \in 0..Len(s) : Out(t)' = First(s, m)
        BY <4>5, <4>6
      <4>8. LET z == IF t = c THEN Beyond(Out(c), 2) ELSE Out(t)
            IN \E m \in 0..Len(z) : Out(t)' = First(z, m)
        BY <3>9, <4>7 DEF s
      <4> QED BY <1>10, <2>5, <3>4, <3>6, <3>7, <3>8, <4>8 DEF Refused
    <3>10. ASSUME t # c PROVE Refused(c, dst, t)
      <4> DEFINE s == Out(t)
      <4>1. Len(buf[t]) \in 0..Len(s) /\ First(s, Len(buf[t])) = buf[t]
        BY <2>2, FrontOfLine
      <4>2. Out(t)' = buf[t]
        BY <1>7, <3>3, <3>10
      <4>3. \E m \in 0..Len(s) : Out(t)' = First(s, m)
        <5> DEFINE k == Len(buf[t])
                   r == Out(t)'
        <5>1. k \in 0..Len(s) /\ r = First(s, k)
          BY <4>1, <4>2
        <5> HIDE DEF k, r, s
        <5>2. \E m \in 0..Len(s) : r = First(s, m)
          BY <5>1
        <5> QED BY <5>2 DEF r
      <4>4. LET z == IF t = c THEN Beyond(Out(c), 2) ELSE Out(t)
            IN \E m \in 0..Len(z) : Out(t)' = First(z, m)
        BY <3>10, <4>3
      <4> QED BY <1>10, <2>5, <3>4, <3>6, <3>7, <3>8, <4>4 DEF Refused
    <3> QED BY <1>1, <1>4, <1>6, <3>9, <3>10
  <2> QED BY <2>4, <2>5
<1> QED BY <1>9, <1>10

(* What is left of a connection that was closed meanwhile is dropped.      *)
LEMMA DoneReadingMoves ==
  ASSUME TypeInv, NEW c \in Clients, DoneReading(c)
  PROVE  /\ \A d \in Clients \ {c} : Still(d)
         /\ In(c)' = In(c)
         /\ UNCHANGED <<client, sent, got, table>>
         /\ \/ Out(c)' = Out(c)
            \/ Out(c)' = <<>> /\ Out(c) \in Seq(Half) /\ ~PacketReady(Out(c))
<1>1. /\ routing = c /\ conn[c] # "pending" /\ ~PacketReady(buf[c])
      /\ buf' = [buf EXCEPT ![c] = IF conn[c] = "dead" THEN <<>> ELSE buf[c]]
      /\ UNCHANGED <<client, sent, rest, inbuf, got, up, down, conn, outbuf, table>>
  BY DEF DoneReading, clientVars
<1>2. TypeOK /\ Streams(c)
  BY DEF TypeInv
<1>3. /\ buf'[c] = IF conn[c] = "dead" THEN <<>> ELSE buf[c]
      /\ \A d \in Clients \ {c} : buf'[d] = buf[d]
  BY <1>1, <1>2 DEF TypeOK
<1>4. \A d \in Clients \ {c} : Still(d)
  BY <1>1, <1>3, UntouchedStill
<1>5. In(c)' = In(c)
  BY <1>1 DEF In
<1>6. CASE conn[c] # "dead"
  <2>1. Out(c)' = Out(c)
    BY <1>1, <1>3, <1>6 DEF Out
  <2> QED BY <1>1, <1>4, <1>5, <2>1
<1>7. CASE conn[c] = "dead"
  <2>1. up[c] = <<>> /\ rest[c] = <<>> /\ buf[c] \in Seq(Half)
    BY <1>2, <1>7 DEF Streams, Dead
  <2>2. Out(c) = Join(Join(buf[c], <<>>), <<>>) /\ Out(c)' = Join(Join(<<>>, <<>>), <<>>)
    BY <1>1, <1>3, <1>7, <2>1 DEF Out
  <2>3. Out(c) = buf[c]
    BY <2>1, <2>2, JoinEmpty
  <2>4. Out(c)' = <<>>
    <3>1. Join(<<>>, <<>>) = <<>>
      BY Nothing, JoinEmpty
    <3> QED BY <2>2, <3>1
  <2> QED BY <1>1, <1>4, <1>5, <2>1, <2>3, <2>4
<1> QED BY <1>6, <1>7

-----------------------------------------------------------------------------
(* While send_packet waits for room, the lines carry whole packets; only a *)
(* client that has gone may leave half of one behind.                      *)

LEMMA FramesJoin ==
  ASSUME NEW s \in Seq(Half), NEW t \in Seq(Half), Complete(s)
  PROVE  /\ Join(s, t) \in Seq(Half)
         /\ Frames(Join(s, t)) = Frames(s) \o Frames(t)
         /\ InPairs(s) /\ InPairs(t) => InPairs(Join(s, t))
         /\ Complete(t) => Complete(Join(s, t))
BY FramesConcat DEF Join

LEMMA FramesFront ==
  ASSUME NEW s \in Seq(Half), InPairs(s), Len(s) >= 2
  PROVE  /\ Head(s).packet \in Packet
         /\ First(s, 2) = Halves(Head(s).packet)
         /\ Beyond(s, 2) \in Seq(Half) /\ InPairs(Beyond(s, 2))
         /\ Complete(s) => Complete(Beyond(s, 2))
         /\ Frames(s) # <<>> /\ Head(Frames(s)) = Head(s).packet
         /\ Frames(Beyond(s, 2)) = Tail(Frames(s))
<1> DEFINE f == Frames(s)
<1>1. 1 \in Nat /\ 2 * 1 = 2 /\ 2 * 1 - 1 = 1 /\ 1 + 1 = 2
  OBVIOUS
<1>2. /\ Frames(Beyond(s, 2)) = SubSeq(f, 2, Len(f))
      /\ 1 <= Len(f)
      /\ InPairs(Beyond(s, 2))
      /\ Complete(s) => Complete(Beyond(s, 2))
  BY <1>1, FramesBeyond
<1>3. /\ f \in Seq(Packet) /\ Len(f) \in Nat
      /\ \A k \in 1..Len(f) : f[k] = s[2 * k - 1].packet
  BY FramesType
<1> HIDE DEF f
<1>4. f # <<>> /\ 1 \in 1..Len(f)
  BY <1>2, <1>3, EmptySeq
<1>5. Head(f) = f[1] /\ Tail(f) = SubSeq(f, 2, Len(f))
  BY <1>3, <1>4, HeadTailProperties
<1>6. f[1] = s[1].packet
  BY <1>1, <1>3, <1>4
<1>7. s # <<>> /\ Head(s) = s[1] /\ 2 \in 0..Len(s)
  BY LenProperties, EmptySeq, HeadTailProperties
<1>8. Beyond(s, 2) \in Seq(Half)
  BY <1>7, Cutting
<1> QED BY <1>2, <1>4, <1>5, <1>6, <1>7, <1>8, FirstHalves DEF f

(* The lines of one client, by whether it is there.                        *)
Sound(out, in, here) ==
  /\ InPairs(out)
  /\ here => Complete(out)
  /\ Whole(in)

FrameInv == \A c \in Clients : Sound(Out(c), In(c), client[c] # "gone")

LEMMA FrameInit == Init => FrameInv
<1> SUFFICES ASSUME Init, NEW c \in Clients
             PROVE  Sound(Out(c), In(c), client[c] # "gone")
  BY DEF FrameInv
<1>1. Out(c) = <<>> /\ In(c) = <<>>
  BY DEF Init, Out, In
<1> QED BY <1>1, FramesEmpty DEF Sound, Whole

(* What was there stays as it was.                                         *)
LEMMA StillSound ==
  ASSUME NEW d \in Clients, Sound(Out(d), In(d), client[d] # "gone"), Still(d),
         client'[d] # "gone" => client[d] # "gone"
  PROVE  Sound(Out(d)', In(d)', client'[d] # "gone")
BY DEF Sound, Still

LEMMA QuietSound ==
  ASSUME FrameInv, Quiet
  PROVE  FrameInv'
<1> SUFFICES ASSUME NEW d \in Clients
             PROVE  Sound(Out(d)', In(d)', client'[d] # "gone")
  BY DEF FrameInv
<1> QED BY StillSound DEF FrameInv, Quiet

LEMMA DetachingSound ==
  ASSUME TypeInv, FrameInv, NEW c \in Clients, Detaching(c)
  PROVE  FrameInv'
<1> SUFFICES ASSUME NEW d \in Clients
             PROVE  Sound(Out(d)', In(d)', client'[d] # "gone")
  BY DEF FrameInv
<1>1. /\ client[c] = "gone" /\ client' = client /\ In(c)' = In(c)
      /\ \A e \in Clients \ {c} : Still(e)
  BY DEF Detaching
<1>2. PICK m \in 0..Len(Out(c)) : Out(c)' = First(Out(c), m)
  BY DEF Detaching
<1>3. InPairs(Out(c)') /\ Whole(In(c)')
  BY <1>1, <1>2, OutLine, FramesFirst DEF FrameInv, Sound
<1>4. CASE d = c
  BY <1>1, <1>3, <1>4 DEF Sound
<1>5. CASE d # c
  BY <1>1, <1>5, StillSound DEF FrameInv
<1> QED BY <1>4, <1>5

LEMMA RouteSound ==
  ASSUME TypeInv, LoopInv, FrameInv, NEW c \in Clients, RoutePacket(c)
  PROVE  FrameInv'
<1> SUFFICES ASSUME NEW d \in Clients
             PROVE  Sound(Out(d)', In(d)', client'[d] # "gone")
  BY DEF FrameInv
<1> DEFINE dst == Head(buf[c]).packet.dst
<1>1. client' = client /\ Out(c) \in Seq(Half) /\ Len(Out(c)) >= 2
  BY RoutePacketMoves
<1>2. \A e \in Clients : Sound(Out(e), In(e), client[e] # "gone")
  BY DEF FrameInv
<1>3. /\ Beyond(Out(c), 2) \in Seq(Half) /\ InPairs(Beyond(Out(c), 2))
      /\ Complete(Out(c)) => Complete(Beyond(Out(c), 2))
      /\ Whole(First(Out(c), 2)) /\ First(Out(c), 2) \in Seq(Half)
  <2>1. InPairs(Out(c))
    BY <1>2 DEF Sound
  <2>2. /\ Beyond(Out(c), 2) \in Seq(Half) /\ InPairs(Beyond(Out(c), 2))
        /\ Complete(Out(c)) => Complete(Beyond(Out(c), 2))
        /\ First(Out(c), 2) = Halves(Head(Out(c)).packet) /\ Head(Out(c)).packet \in Packet
    BY <1>1, <2>1, FramesFront
  <2> QED BY <2>2, FramesHalves, HalvesProperties
<1>4. CASE Dropped(c, dst)
  <2>1. CASE d = c
    BY <1>1, <1>2, <1>3, <1>4, <2>1 DEF Sound, Dropped
  <2>2. CASE d # c
    BY <1>1, <1>2, <1>4, <2>2, StillSound DEF Dropped
  <2> QED BY <2>1, <2>2
<1>5. ASSUME NEW t \in Clients, Passed(c, dst, t)
      PROVE  Sound(Out(d)', In(d)', client'[d] # "gone")
  <2>1. InPairs(Out(d)') /\ (client[d] # "gone" => Complete(Out(d)'))
    <3>1. CASE d = c
      BY <1>2, <1>3, <1>5, <3>1 DEF Sound, Passed
    <3>2. CASE d # c
      BY <1>2, <1>5, <3>2 DEF Sound, Passed
    <3> QED BY <3>1, <3>2
  <2>2. Whole(In(d)')
    <3>1. CASE d = t
      <4>1. In(t) \in Seq(Half) /\ Whole(In(t))
        BY <1>2, InLine DEF Sound
      <4>2. Whole(Join(In(t), First(Out(c), 2)))
        BY <1>3, <4>1, FramesJoin DEF Whole
      <4> QED BY <1>5, <3>1, <4>2 DEF Passed
    <3>2. CASE d # t
      BY <1>2, <1>5, <3>2 DEF Sound, Passed
    <3> QED BY <3>1, <3>2
  <2> QED BY <1>1, <2>1, <2>2 DEF Sound
<1>6. ASSUME NEW t \in Clients, Refused(c, dst, t)
      PROVE  Sound(Out(d)', In(d)', client'[d] # "gone")
  <2> DEFINE s == IF t = c THEN Beyond(Out(c), 2) ELSE Out(t)
  <2>1. PICK m \in 0..Len(s) : Out(t)' = First(s, m)
    BY <1>6 DEF Refused
  <2>2. s \in Seq(Half) /\ InPairs(s)
    BY <1>2, <1>3, OutLine DEF Sound
  <2> HIDE DEF s
  <2>3. Whole(In(d)')
    BY <1>2, <1>6 DEF Sound, Refused
  <2>4. InPairs(Out(d)') /\ (client[d] # "gone" => Complete(Out(d)'))
    <3>1. CASE d = t
      <4>1. InPairs(Out(t)')
        BY <2>1, <2>2, FramesFirst
      <4> QED BY <1>6, <3>1, <4>1 DEF Refused
    <3>2. CASE d # t /\ d = c
      BY <1>2, <1>3, <1>6, <3>2 DEF Sound, Refused
    <3>3. CASE d # t /\ d # c
      BY <1>2, <1>6, <3>3 DEF Sound, Refused
    <3> QED BY <3>1, <3>2, <3>3
  <2> QED BY <1>1, <2>3, <2>4 DEF Sound
<1>7. Dropped(c, dst) \/ \E t \in Clients : Passed(c, dst, t) \/ Refused(c, dst, t)
  BY RoutePacketMoves
<1> QED BY <1>4, <1>5, <1>6, <1>7

(* Every step keeps the lines whole. *)
LEMMA FrameStep ==
  ASSUME Waiting = Clients
  PROVE  TypeInv /\ LoopInv /\ FrameInv /\ [Next]_vars => FrameInv'
<1> SUFFICES ASSUME TypeInv, LoopInv, FrameInv, [Next]_vars PROVE FrameInv'
  OBVIOUS
<1>0. \A d \in Clients : Sound(Out(d), In(d), client[d] # "gone")
  BY DEF FrameInv
<1>1. ASSUME NEW c \in Clients, Connect(c) PROVE FrameInv'
  <2> SUFFICES ASSUME NEW d \in Clients
               PROVE  Sound(Out(d)', In(d)', client'[d] # "gone")
    BY DEF FrameInv
  <2>1. Still(d) /\ (client'[d] # "gone" => client[d] # "gone")
    BY <1>1, ConnectMoves
  <2> QED BY <1>0, <2>1, StillSound
<1>2. ASSUME NEW c \in Clients, client[c] \in {"greeting", "up"}, GoneClient(c)
      PROVE  FrameInv'
  <2> SUFFICES ASSUME NEW d \in Clients
               PROVE  Sound(Out(d)', In(d)', client'[d] # "gone")
    BY DEF FrameInv
  <2>1. /\ \A e \in Clients \ {c} : Still(e)
        /\ In(c)' = <<>>
        /\ {e \in Clients : client'[e] # "gone"} = {e \in Clients : client[e] # "gone"} \ {c}
    BY <1>2, GoneClientMoves
  <2>2. PICK m \in 0..Len(Out(c)) : Out(c)' = First(Out(c), m)
    BY <1>2, GoneClientMoves
  <2>3. CASE d = c
    <3>1. InPairs(Out(c)')
      BY <1>0, <2>2, OutLine, FramesFirst DEF Sound
    <3>2. client'[c] = "gone"
      BY <2>1
    <3> QED BY <2>1, <2>3, <3>1, <3>2, FramesEmpty DEF Sound
  <2>4. CASE d # c
    BY <1>0, <2>1, <2>4, StillSound
  <2> QED BY <2>3, <2>4
<1>3. ASSUME NEW c \in Clients, ReadReply(c) PROVE FrameInv'
  <2>1. CASE Head(down[c]).half = "ok"
    <3> SUFFICES ASSUME NEW d \in Clients
                 PROVE  Sound(Out(d)', In(d)', client'[d] # "gone")
      BY DEF FrameInv
    <3>1. Still(d) /\ (client'[d] # "gone" => client[d] # "gone")
      BY <1>3, <2>1, ReadReplyMoves
    <3> QED BY <1>0, <3>1, StillSound
  <2>2. CASE Head(down[c]).half # "ok"
    BY <1>2, <1>3, <2>2 DEF ReadReply
  <2> QED BY <2>1, <2>2
<1>4. ASSUME NEW c \in Clients, NEW dst \in Pids, SendPacket(c, dst) PROVE FrameInv'
  <2> SUFFICES ASSUME NEW d \in Clients
               PROVE  Sound(Out(d)', In(d)', client'[d] # "gone")
    BY DEF FrameInv
  <2> DEFINE packet == [src |-> c, dst |-> dst, n |-> sent + 1]
  <2>1. /\ \A e \in Clients \ {c} : Still(e)
        /\ In(c)' = In(c)
        /\ Out(c)' = Join(Out(c), Halves(packet))
        /\ packet \in Packet
        /\ client[c] = "up" /\ client' = client
    BY <1>4, SendPacketMoves
  <2> HIDE DEF packet
  <2>2. CASE d = c
    <3>1. Out(c) \in Seq(Half) /\ Halves(packet) \in Seq(Half) /\ Whole(Halves(packet))
      BY <2>1, OutLine, HalvesProperties, FramesHalves
    <3>2. InPairs(Out(c)) /\ Complete(Out(c)) /\ Whole(In(c))
      BY <1>0, <2>1 DEF Sound
    <3>3. InPairs(Out(c)') /\ Complete(Out(c)')
      BY <2>1, <3>1, <3>2, FramesJoin DEF Whole
    <3> QED BY <2>1, <2>2, <3>2, <3>3 DEF Sound
  <2>3. CASE d # c
    BY <1>0, <2>1, <2>3, StillSound
  <2> QED BY <2>2, <2>3
<1>5. ASSUME NEW c \in Clients, SendMore(c) PROVE FrameInv'
  BY <1>5, SendMoreMoves, QuietSound DEF Quiet, SendMore
<1>6. ASSUME NEW c \in Clients, Receive(c) PROVE FrameInv'
  <2> SUFFICES ASSUME NEW d \in Clients
               PROVE  Sound(Out(d)', In(d)', client'[d] # "gone")
    BY DEF FrameInv
  <2>1. /\ \A e \in Clients \ {c} : Still(e)
        /\ Out(c)' = Out(c) /\ client' = client
    BY <1>6, ReceiveMoves
  <2>2. PICK n \in 0..Len(Frames(In(c))) : 2 * n <= Len(In(c)) /\ In(c)' = Beyond(In(c), 2 * n)
    BY <1>6, ReceiveMoves
  <2>3. CASE d = c
    <3>1. In(c) \in Seq(Half) /\ InPairs(In(c)) /\ Complete(In(c))
      BY <1>0, InLine DEF Sound, Whole
    <3>2. n \in Nat
      BY <3>1, FramesType
    <3>3. InPairs(In(c)') /\ Complete(In(c)')
      BY <2>2, <3>1, <3>2, FramesBeyond
    <3> QED BY <1>0, <2>1, <2>3, <3>3 DEF Sound, Whole
  <2>4. CASE d # c
    BY <1>0, <2>1, <2>4, StillSound
  <2> QED BY <2>3, <2>4
<1>7. CASE Select
  BY <1>7, UntouchedStill, QuietSound DEF Select, Quiet, clientVars
<1>8. ASSUME NEW c \in Clients, Accept(c) PROVE FrameInv'
  BY <1>8, AcceptMoves, QuietSound
<1>9. ASSUME NEW c \in Clients, HandleWritable(c) PROVE FrameInv'
  BY <1>9, HandleWritableMoves, QuietSound, DetachingSound
<1>10. ASSUME NEW c \in Clients, HandleReadable(c) PROVE FrameInv'
  BY <1>10, HandleReadableMoves, QuietSound, DetachingSound
<1>11. ASSUME NEW c \in Clients, HandleHandshake(c) PROVE FrameInv'
  <2> SUFFICES ASSUME NEW d \in Clients
               PROVE  Sound(Out(d)', In(d)', client'[d] # "gone")
    BY DEF FrameInv
  <2>1. Still(d) /\ client' = client
    BY <1>11, HandleHandshakeMoves DEF Quiet
  <2> QED BY <1>0, <2>1, StillSound
<1>12. ASSUME NEW c \in Clients, RoutePacket(c) PROVE FrameInv'
  BY <1>12, RouteSound
<1>13. ASSUME NEW c \in Clients, DoneReading(c) PROVE FrameInv'
  <2> SUFFICES ASSUME NEW d \in Clients
               PROVE  Sound(Out(d)', In(d)', client'[d] # "gone")
    BY DEF FrameInv
  <2>1. /\ \A e \in Clients \ {c} : Still(e)
        /\ In(c)' = In(c) /\ client' = client
        /\ Out(c)' = Out(c) \/ Out(c)' = <<>>
    BY <1>13, DoneReadingMoves
  <2>2. CASE d = c
    BY <1>0, <2>1, <2>2, FramesEmpty DEF Sound, Whole
  <2>3. CASE d # c
    BY <1>0, <2>1, <2>3, StillSound
  <2> QED BY <2>2, <2>3
<1>14. CASE UNCHANGED vars
  BY <1>14, UntouchedStill, QuietSound DEF vars, clientVars, Quiet
<1> QED
  BY <1>1, <1>2, <1>3, <1>4, <1>5, <1>6, <1>7, <1>8, <1>9, <1>10, <1>11, <1>12,
     <1>13, <1>14 DEF Next, Loop, Leave

LEMMA FrameInvariant ==
  ASSUME Waiting = Clients
  PROVE  Spec => [](TypeInv /\ LoopInv /\ FrameInv)
<1>1. Init => FrameInv
  BY FrameInit
<1>2. TypeInv /\ LoopInv /\ FrameInv /\ [Next]_vars => FrameInv'
  BY FrameStep
<1> QED BY <1>1, <1>2, TypeInvariant, PTL DEF Spec

(* Streams are cut into whole packets wherever they are read, however the  *)
(* kernel splits them, as long as send_packet waits for room, as the       *)
(* devices' does: a client that leaves in the middle of a packet, a        *)
(* partial write or a partial read never puts two packets out of step.     *)
THEOREM FramedCorrect ==
  ASSUME Waiting = Clients
  PROVE  Spec => []Framed
<1>1. TypeInv /\ FrameInv => Framed
  <2> SUFFICES ASSUME TypeInv, FrameInv, NEW c \in Clients
               PROVE  /\ WellFramed(Upstream(c))
                      /\ client[c] = "gone" \/ WellFramed(Downstream(c))
    BY DEF Framed
  <2>1. InPairs(Out(c)) /\ InPairs(In(c))
    BY DEF FrameInv, Sound, Whole
  <2> QED BY <2>1, LineFrames
<1> QED BY <1>1, FrameInvariant, PTL

-----------------------------------------------------------------------------
(* The crossbar is a Switch.  Its state, in terms of the lines.            *)

Here == {c \in Clients : client[c] # "gone"}
Sub == [c \in Clients |-> Frames(Out(c))]
Que == [c \in Clients |-> Frames(In(c))]

Abstract == INSTANCE Switch WITH present <- Here, submitted <- Sub, queue <- Que

(* These are the mappings that ImplementsSwitch names.                     *)
Agrees ==
  /\ Here = {c \in Clients : client[c] # "gone"}
  /\ Sub = [c \in Clients |-> Frames(Upstream(c))]
  /\ Que = [c \in Clients |-> IF client[c] = "gone" THEN <<>> ELSE Frames(Downstream(c))]

LEMMA Mapped == TypeInv => Agrees
<1> SUFFICES ASSUME TypeInv PROVE Agrees
  OBVIOUS
<1>1. \A c \in Clients : Frames(Upstream(c)) = Frames(Out(c))
  BY LineFrames
<1>2. ASSUME NEW c \in Clients
      PROVE  Frames(In(c)) = IF client[c] = "gone" THEN <<>> ELSE Frames(Downstream(c))
  <2>1. CASE client[c] = "gone"
    BY <2>1, FramesEmpty DEF In
  <2>2. CASE client[c] # "gone"
    BY <2>2, LineFrames
  <2> QED BY <2>1, <2>2
<1> QED BY <1>1, <1>2 DEF Here, Sub, Que, Agrees

LEMMA MappedNext == TypeInv' => Agrees'
BY Mapped, PTL

(* A change of one client's part of a mapping.                             *)
LEMMA Updating ==
  ASSUME NEW f, NEW g, f = [d \in Clients |-> f[d]], g = [d \in Clients |-> g[d]],
         NEW c \in Clients, \A d \in Clients \ {c} : g[d] = f[d]
  PROVE  g = [f EXCEPT ![c] = g[c]]
OBVIOUS

LEMMA Parts ==
  /\ Sub = [d \in Clients |-> Sub[d]] /\ Sub' = [d \in Clients |-> Sub'[d]]
  /\ Que = [d \in Clients |-> Que[d]] /\ Que' = [d \in Clients |-> Que'[d]]
  /\ \A d \in Clients : /\ Sub[d] = Frames(Out(d)) /\ Sub'[d] = Frames(Out(d)')
                        /\ Que[d] = Frames(In(d)) /\ Que'[d] = Frames(In(d)')
BY DEF Sub, Que

LEMMA StillParts ==
  ASSUME NEW d \in Clients, Still(d)
  PROVE  Sub'[d] = Sub[d] /\ Que'[d] = Que[d]
BY Parts DEF Still

LEMMA FramesPrefix ==
  ASSUME NEW s \in Seq(Half), NEW m \in 0..Len(s)
  PROVE  IsPrefix(Frames(First(s, m)), Frames(s))
<1> DEFINE f == Frames(s)
           g == Frames(First(s, m))
<1>1. PICK n \in 0..Len(f) : g = SubSeq(f, 1, n)
  BY FramesFirst
<1>2. f \in Seq(Packet) /\ Len(f) \in Nat
  BY FramesType
<1> HIDE DEF f, g
<1>3. g \in Seq(Packet) /\ Len(g) = n
  BY <1>1, <1>2, Cutting DEF First
<1>4. SubSeq(g, 1, Len(g)) = g
  BY <1>3, SubSeqFull
<1> QED BY <1>1, <1>2, <1>3, <1>4 DEF IsPrefix, f, g

-----------------------------------------------------------------------------
(* Each step does what a step of the Switch does, or nothing it can tell.  *)

LEMMA Unseen ==
  ASSUME \A d \in Clients : Still(d), UNCHANGED <<sent, got, table>>, Here' = Here
  PROVE  UNCHANGED Abstract!vars
<1>1. Sub' = Sub
  <2>1. \A d \in Clients : Sub'[d] = Sub[d]
    BY StillParts
  <2> QED BY <2>1, Parts
<1>2. Que' = Que
  <2>1. \A d \in Clients : Que'[d] = Que[d]
    BY StillParts
  <2> QED BY <2>1, Parts
<1> QED BY <1>1, <1>2 DEF Abstract!vars

LEMMA LeaveRefines ==
  ASSUME TypeInv, NEW c \in Clients, client[c] \in {"greeting", "up"}, GoneClient(c)
  PROVE  Abstract!Leave(c)
<1>1. /\ \A d \in Clients \ {c} : Still(d)
      /\ In(c)' = <<>>
      /\ UNCHANGED <<sent, got, table>>
      /\ Here' = Here \ {c}
  BY GoneClientMoves DEF Here
<1>2. PICK m \in 0..Len(Out(c)) : Out(c)' = First(Out(c), m)
  BY GoneClientMoves
<1>3. PICK n \in 0..Len(Frames(Out(c))) :
        Frames(First(Out(c), m)) = SubSeq(Frames(Out(c)), 1, n)
  BY OutLine, FramesFirst
<1>4. Sub'[c] = SubSeq(Sub[c], 1, n) /\ n \in 0..Len(Sub[c])
  BY <1>2, <1>3, Parts
<1>5. \A d \in Clients \ {c} : Sub'[d] = Sub[d] /\ Que'[d] = Que[d]
  BY <1>1, StillParts
<1>6. Sub' = [Sub EXCEPT ![c] = SubSeq(Sub[c], 1, n)]
  BY <1>4, <1>5, Parts, Updating
<1>7. Que'[c] = <<>>
  BY <1>1, Parts, FramesEmpty
<1>8. Que' = [Que EXCEPT ![c] = <<>>]
  BY <1>5, <1>7, Parts, Updating
<1>9. c \in Here
  BY DEF Here
<1> QED BY <1>1, <1>4, <1>6, <1>8, <1>9 DEF Abstract!Leave

LEMMA SubmitRefines ==
  ASSUME TypeInv, FrameInv, Waiting = Clients, NEW c \in Clients, NEW dst \in Pids,
         SendPacket(c, dst)
  PROVE  Abstract!Submit(c, dst)
<1> DEFINE packet == [src |-> c, dst |-> dst, n |-> sent + 1]
<1>1. /\ \A d \in Clients \ {c} : Still(d)
      /\ In(c)' = In(c)
      /\ Out(c)' = Join(Out(c), Halves(packet))
      /\ packet \in Packet
      /\ client[c] = "up" /\ sent < MaxPackets /\ sent' = sent + 1
      /\ UNCHANGED <<client, got, table>>
  BY SendPacketMoves
<1> HIDE DEF packet
<1>2. Complete(Out(c)) /\ Out(c) \in Seq(Half)
  BY <1>1, OutLine DEF FrameInv, Sound
<1>3. Frames(Out(c)') = Append(Frames(Out(c)), packet)
  <2>1. Frames(Out(c)') = Frames(Out(c)) \o <<packet>>
    BY <1>1, <1>2, FramesJoin, FramesHalves, HalvesProperties
  <2>2. Frames(Out(c)) \in Seq(Packet)
    BY <1>2, FramesType
  <2>3. \A f \in Seq(Packet) : f \o <<packet>> = Append(f, packet)
    BY <1>1, AppendIsConcat
  <2> QED BY <2>1, <2>2, <2>3
<1>4. \A d \in Clients \ {c} : Sub'[d] = Sub[d] /\ Que'[d] = Que[d]
  BY <1>1, StillParts
<1>5. Sub' = [Sub EXCEPT ![c] = Append(Sub[c], packet)]
  <2>1. Sub'[c] = Append(Sub[c], packet)
    BY <1>3, Parts
  <2> QED BY <1>4, <2>1, Parts, Updating
<1>6. Que' = Que
  <2>1. Que'[c] = Que[c]
    BY <1>1, Parts
  <2>2. \A d \in Clients : Que'[d] = Que[d]
    BY <1>4, <2>1
  <2> QED BY <2>2, Parts
<1>7. Here' = Here /\ c \in Here
  BY <1>1 DEF Here
<1> QED BY <1>1, <1>5, <1>6, <1>7 DEF Abstract!Submit, packet

LEMMA ReceiveRefines ==
  ASSUME TypeInv, NEW c \in Clients, Receive(c)
  PROVE  Abstract!Receive(c) \/ UNCHANGED Abstract!vars
<1>1. /\ \A d \in Clients \ {c} : Still(d)
      /\ Out(c)' = Out(c)
      /\ UNCHANGED <<client, sent, table>>
  BY ReceiveMoves
<1>2. PICK n \in 0..Len(Frames(In(c))) :
        /\ 2 * n <= Len(In(c))
        /\ In(c)' = Beyond(In(c), 2 * n)
        /\ got' = [got EXCEPT ![c] = @ \o SubSeq(Frames(In(c)), 1, n)]
        /\ n = 0 => got' = got
  BY ReceiveMoves
<1>3. /\ In(c) \in Seq(Half) /\ Frames(In(c)) \in Seq(Packet)
      /\ Len(Frames(In(c))) \in Nat /\ n \in Nat
  BY InLine, FramesType
<1>4. Frames(In(c)') = SubSeq(Frames(In(c)), n + 1, Len(Frames(In(c))))
  BY <1>2, <1>3, FramesBeyond
<1>5. \A d \in Clients \ {c} : Sub'[d] = Sub[d] /\ Que'[d] = Que[d]
  BY <1>1, StillParts
<1>6. Sub' = Sub
  <2>1. Sub'[c] = Sub[c]
    BY <1>1, Parts
  <2>2. \A d \in Clients : Sub'[d] = Sub[d]
    BY <1>5, <2>1
  <2> QED BY <2>2, Parts
<1>7. Que' = [Que EXCEPT ![c] = SubSeq(Que[c], n + 1, Len(Que[c]))]
  <2>1. Que'[c] = SubSeq(Que[c], n + 1, Len(Que[c]))
    BY <1>4, Parts
  <2> QED BY <1>5, <2>1, Parts, Updating
<1>8. Here' = Here
  BY <1>1 DEF Here
<1>9. CASE n = 0
  <2>1. Frames(In(c)') = Frames(In(c))
    <3>1. n + 1 = 1
      BY <1>9
    <3> QED BY <1>3, <1>4, <3>1, SubSeqFull
  <2>2. \A d \in Clients : Que'[d] = Que[d]
    BY <1>5, <2>1, Parts
  <2>3. Que' = Que
    BY <2>2, Parts
  <2> QED BY <1>1, <1>2, <1>6, <1>8, <1>9, <2>3 DEF Abstract!vars
<1>10. CASE n # 0
  <2>1. n \in 1..Len(Que[c]) /\ Frames(In(c)) = Que[c]
    BY <1>2, <1>3, <1>10, Parts
  <2>2. got' = [got EXCEPT ![c] = @ \o SubSeq(Que[c], 1, n)]
    BY <1>2, <2>1
  <2> QED BY <1>1, <1>6, <1>7, <1>8, <2>1, <2>2 DEF Abstract!Receive
<1> QED BY <1>9, <1>10

LEMMA DetachRefines ==
  ASSUME TypeInv, NEW c \in Clients, Detaching(c)
  PROVE  Abstract!Detach(c)
<1>1. /\ client[c] = "gone"
      /\ \A d \in Clients \ {c} : Still(d)
      /\ In(c)' = In(c)
      /\ table' = Restrict(table, {p \in DOMAIN table : table[p] # c})
      /\ UNCHANGED <<client, sent, got>>
  BY DEF Detaching
<1>2. PICK m \in 0..Len(Out(c)) : Out(c)' = First(Out(c), m)
  BY DEF Detaching
<1>3. IsPrefix(Sub'[c], Sub[c])
  BY <1>2, OutLine, FramesPrefix, Parts
<1>4. \A d \in Clients \ {c} : Sub'[d] = Sub[d] /\ Que'[d] = Que[d]
  BY <1>1, StillParts
<1>5. Que' = Que
  <2>1. Que'[c] = Que[c]
    BY <1>1, Parts
  <2>2. \A d \in Clients : Que'[d] = Que[d]
    BY <1>4, <2>1
  <2> QED BY <2>2, Parts
<1>6. Here' = Here /\ c \notin Here
  BY <1>1 DEF Here
<1>7. table' = Restrict(table, {p \in DOMAIN table : table[p] \notin {c}})
  <2>1. {p \in DOMAIN table : table[p] \notin {c}} = {p \in DOMAIN table : table[p] # c}
    OBVIOUS
  <2> QED BY <1>1, <2>1
<1>8. DOMAIN Sub' = Clients
  BY Parts
<1>9. \A d \in Clients : IF d \in {c} THEN IsPrefix(Sub'[d], Sub[d]) ELSE Sub'[d] = Sub[d]
  BY <1>3, <1>4
<1>10. Abstract!Detached({c}, Sub)
  BY <1>7, <1>8, <1>9
  DEF Abstract!Detached, Abstract!Restrict, Restrict, Abstract!IsPrefix, IsPrefix
<1> QED BY <1>1, <1>5, <1>6, <1>10 DEF Abstract!Detach

LEMMA AttachRefines ==
  ASSUME TypeInv, LoopInv, NEW c \in Clients, HandleHandshake(c)
  PROVE  \/ UNCHANGED Abstract!vars
         \/ pid[c] \in Pids /\ Abstract!Attach(c, pid[c])
<1>1. CASE Quiet
  BY <1>1, Unseen DEF Quiet, Here
<1>2. CASE /\ \A d \in Clients : Still(d)
           /\ UNCHANGED <<client, sent, got>>
           /\ pid[c] \in Pids \ DOMAIN table /\ c \notin Range(table)
           /\ table' = [x \in DOMAIN table \cup {pid[c]} |->
                          IF x = pid[c] THEN c ELSE table[x]]
  <2>1. Sub' = Sub
    <3>1. \A d \in Clients : Sub'[d] = Sub[d]
      BY <1>2, StillParts
    <3> QED BY <3>1, Parts
  <2>2. Que' = Que
    <3>1. \A d \in Clients : Que'[d] = Que[d]
      BY <1>2, StillParts
    <3> QED BY <3>1, Parts
  <2>3. Here' = Here
    BY <1>2 DEF Here
  <2> QED BY <1>2, <2>1, <2>2, <2>3 DEF Abstract!Attach, Abstract!Range, Range
<1> QED BY <1>1, <1>2, HandleHandshakeMoves

LEMMA RouteRefines ==
  ASSUME TypeInv, LoopInv, FrameInv, NEW c \in Clients, RoutePacket(c)
  PROVE  Abstract!Route(c)
<1> DEFINE dst == Head(buf[c]).packet.dst
           packet == Head(Sub[c])
           holders == {table[p] : p \in DOMAIN table \cap {packet.dst}}
           left == [Sub EXCEPT ![c] = Tail(Sub[c])]
<1>1. /\ UNCHANGED <<client, sent, got>>
      /\ Out(c) \in Seq(Half) /\ Len(Out(c)) >= 2 /\ Head(Out(c)) = Head(buf[c])
  BY RoutePacketMoves
<1>2. InPairs(Out(c))
  BY DEF FrameInv, Sound
<1>3. /\ Sub[c] # <<>> /\ packet = Head(buf[c]).packet
      /\ packet \in Packet
      /\ First(Out(c), 2) = Halves(packet)
      /\ Frames(Beyond(Out(c), 2)) = Tail(Sub[c])
      /\ Beyond(Out(c), 2) \in Seq(Half)
  BY <1>1, <1>2, FramesFront, Parts
<1>4. left[c] = Tail(Sub[c]) /\ \A d \in Clients \ {c} : left[d] = Sub[d]
  BY Parts
<1>5. Here' = Here
  BY <1>1 DEF Here
<1>6. table = [p \in DOMAIN table |-> table[p]]
  BY DEF LoopInv, LoopTypes
<1>7. packet.dst = dst
  BY <1>3
<1> HIDE DEF packet, left
<1>8. ASSUME NEW D \in SUBSET (holders \ Here),
             Que' = [d \in Clients |-> IF d \in holders \cap Here
                                         THEN Append(Que[d], packet) ELSE Que[d]],
             table' = Restrict(table, {p \in DOMAIN table : table[p] \notin D}),
             \A d \in Clients : IF d \in D THEN IsPrefix(Sub'[d], left[d])
                                           ELSE Sub'[d] = left[d]
      PROVE  Abstract!Route(c)
  <2>1. DOMAIN Sub' = Clients
    BY Parts
  <2>2. Abstract!Detached(D, left)
    BY <1>8, <2>1
    DEF Abstract!Detached, Abstract!Restrict, Restrict, Abstract!IsPrefix, IsPrefix
  <2>3. \E E \in SUBSET (holders \ Here) : Abstract!Detached(E, left)
    BY <2>2
  <2>4. UNCHANGED <<Here, sent, got>>
    BY <1>1, <1>5
  <2> HIDE DEF holders
  <2>5. /\ Sub[c] # <<>>
        /\ Que' = [d \in Clients |-> IF d \in holders \cap Here
                                       THEN Append(Que[d], packet) ELSE Que[d]]
        /\ \E E \in SUBSET (holders \ Here) : Abstract!Detached(E, left)
        /\ UNCHANGED <<Here, sent, got>>
    BY <1>3, <1>8, <2>3, <2>4
  <2> QED BY <2>5 DEF Abstract!Route, holders, packet, left
<1>9. ASSUME table' = table
      PROVE  table' = Restrict(table, {p \in DOMAIN table : table[p] \notin {}})
  <2>1. {p \in DOMAIN table : table[p] \notin {}} = DOMAIN table
    OBVIOUS
  <2> QED BY <1>6, <1>9, <2>1 DEF Restrict
<1>10. CASE Dropped(c, dst)
  <2>1. holders = {}
    BY <1>7, <1>10 DEF Dropped
  <2>2. ASSUME NEW d \in Clients PROVE Que'[d] = Que[d]
    BY <1>10, Parts, StillParts DEF Dropped
  <2>3. Que' = [d \in Clients |-> IF d \in holders \cap Here
                                    THEN Append(Que[d], packet) ELSE Que[d]]
    <3> HIDE DEF holders
    <3> QED BY <2>1, <2>2, Parts
  <2>4. \A d \in Clients : Sub'[d] = left[d]
    BY <1>3, <1>4, <1>10, Parts, StillParts DEF Dropped
  <2>5. table' = Restrict(table, {p \in DOMAIN table : table[p] \notin {}})
    BY <1>9, <1>10 DEF Dropped
  <2>6. {} \in SUBSET (holders \ Here)
    OBVIOUS
  <2> HIDE DEF holders
  <2> QED BY <1>8, <2>3, <2>4, <2>5, <2>6
<1>11. ASSUME NEW t \in Clients, Passed(c, dst, t) PROVE Abstract!Route(c)
  <2>1. holders = {t}
    BY <1>7, <1>11 DEF Passed
  <2>2. t \in Here
    BY <1>11 DEF Passed, Here
  <2>3. Que'[t] = Append(Que[t], packet)
    <3>1. In(t) \in Seq(Half) /\ Complete(In(t))
      BY InLine DEF FrameInv, Sound, Whole
    <3>2. In(t)' = Join(In(t), Halves(packet))
      BY <1>3, <1>11 DEF Passed
    <3>3. Frames(In(t)') = Frames(In(t)) \o <<packet>>
      <4> DEFINE h == Halves(packet)
      <4>1. h \in Seq(Half) /\ Frames(h) = <<packet>>
        BY <1>3, FramesHalves, HalvesProperties
      <4> HIDE DEF h
      <4>2. Frames(Join(In(t), h)) = Frames(In(t)) \o Frames(h)
        BY <3>1, <4>1, FramesJoin
      <4> QED BY <3>2, <4>1, <4>2 DEF h
    <3>4. Frames(In(t)) \in Seq(Packet)
      BY <3>1, FramesType
    <3>5. \A f \in Seq(Packet) : f \o <<packet>> = Append(f, packet)
      BY <1>3, AppendIsConcat
    <3> QED BY <3>3, <3>4, <3>5, Parts
  <2>4. \A d \in Clients \ {t} : Que'[d] = Que[d]
    BY <1>11, Parts DEF Passed
  <2>5. Que' = [d \in Clients |-> IF d \in holders \cap Here
                                    THEN Append(Que[d], packet) ELSE Que[d]]
    <3> HIDE DEF holders
    <3>1. \A d \in Clients : Que'[d] = IF d \in holders \cap Here
                                         THEN Append(Que[d], packet) ELSE Que[d]
      BY <2>1, <2>2, <2>3, <2>4
    <3> QED BY <3>1, Parts
  <2>6. ASSUME NEW d \in Clients PROVE Sub'[d] = left[d]
    <3>1. CASE d = c
      BY <1>3, <1>4, <1>11, <3>1, Parts DEF Passed
    <3>2. CASE d # c
      BY <1>4, <1>11, <3>2, Parts DEF Passed
    <3> QED BY <3>1, <3>2
  <2>7. table' = Restrict(table, {p \in DOMAIN table : table[p] \notin {}})
    BY <1>9, <1>11 DEF Passed
  <2>8. {} \in SUBSET (holders \ Here)
    OBVIOUS
  <2> HIDE DEF holders
  <2> QED BY <1>8, <2>5, <2>6, <2>7, <2>8
<1>12. ASSUME NEW t \in Clients, Refused(c, dst, t) PROVE Abstract!Route(c)
  <2>1. holders = {t}
    BY <1>7, <1>12 DEF Refused
  <2>2. t \notin Here
    BY <1>12 DEF Refused, Here
  <2>3. \A d \in Clients : Que'[d] = Que[d]
    BY <1>12, Parts DEF Refused
  <2>4. Que' = [d \in Clients |-> IF d \in holders \cap Here
                                    THEN Append(Que[d], packet) ELSE Que[d]]
    <3> HIDE DEF holders
    <3> QED BY <2>1, <2>2, <2>3, Parts
  <2>5. IsPrefix(Sub'[t], left[t])
    <3> DEFINE s == IF t = c THEN Beyond(Out(c), 2) ELSE Out(t)
    <3>1. PICK m \in 0..Len(s) : Out(t)' = First(s, m)
      BY <1>12 DEF Refused
    <3>2. s \in Seq(Half) /\ Frames(s) = left[t]
      <4>1. CASE t = c
        BY <1>3, <1>4, <4>1
      <4>2. CASE t # c
        BY <1>4, <4>2, OutLine, Parts
      <4> QED BY <4>1, <4>2
    <3> HIDE DEF s
    <3>3. IsPrefix(Frames(First(s, m)), Frames(s))
      BY <3>2, FramesPrefix
    <3> QED BY <3>1, <3>2, <3>3, Parts
  <2>6. \A d \in Clients : IF d \in {t} THEN IsPrefix(Sub'[d], left[d])
                                        ELSE Sub'[d] = left[d]
    <3> SUFFICES ASSUME NEW d \in Clients, d # t PROVE Sub'[d] = left[d]
      BY <2>5
    <3>1. CASE d = c
      BY <1>3, <1>4, <1>12, <3>1, Parts DEF Refused
    <3>2. CASE d # c
      BY <1>4, <1>12, <3>2, Parts DEF Refused
    <3> QED BY <3>1, <3>2
  <2>7. table' = Restrict(table, {p \in DOMAIN table : table[p] \notin {t}})
    <3>1. {p \in DOMAIN table : table[p] \notin {t}} = {p \in DOMAIN table : table[p] # t}
      OBVIOUS
    <3> QED BY <1>12, <3>1 DEF Refused
  <2>8. {t} \in SUBSET (holders \ Here)
    BY <2>1, <2>2
  <2> HIDE DEF holders
  <2> QED BY <1>8, <2>4, <2>6, <2>7, <2>8
<1>13. Dropped(c, dst) \/ \E t \in Clients : Passed(c, dst, t) \/ Refused(c, dst, t)
  BY RoutePacketMoves
<1> QED BY <1>10, <1>11, <1>12, <1>13

(* The half packet that may be dropped is not a packet. *)
LEMMA DoneReadingRefines ==
  ASSUME TypeInv, FrameInv, NEW c \in Clients, DoneReading(c)
  PROVE  UNCHANGED Abstract!vars
<1>1. /\ \A d \in Clients \ {c} : Still(d)
      /\ In(c)' = In(c)
      /\ UNCHANGED <<client, sent, got, table>>
      /\ \/ Out(c)' = Out(c)
         \/ Out(c)' = <<>> /\ Out(c) \in Seq(Half) /\ ~PacketReady(Out(c))
  BY DoneReadingMoves
<1>2. Frames(Out(c)') = Frames(Out(c))
  <2>1. CASE Out(c)' = Out(c)
    BY <2>1
  <2>2. CASE Out(c)' = <<>> /\ Out(c) \in Seq(Half) /\ ~PacketReady(Out(c))
    <3>1. InPairs(Out(c))
      BY DEF FrameInv, Sound
    <3>2. ~(Len(Out(c)) >= 2)
      BY <2>2, <3>1, FirstHalves DEF PacketReady
    <3>3. /\ Frames(Out(c)) \in Seq(Packet) /\ Len(Frames(Out(c))) \in Nat
          /\ 2 * Len(Frames(Out(c))) = Len(Out(c)) \/ 2 * Len(Frames(Out(c))) + 1 = Len(Out(c))
          /\ Len(Out(c)) \in Nat
      BY <2>2, FramesType, LenProperties
    <3>4. Len(Frames(Out(c))) = 0
      BY <3>2, <3>3
    <3>5. Frames(Out(c)) = <<>>
      BY <3>3, <3>4, EmptySeq
    <3> QED BY <2>2, <3>5, FramesEmpty
  <2> QED BY <1>1, <2>1, <2>2
<1>3. \A d \in Clients : Sub'[d] = Sub[d] /\ Que'[d] = Que[d]
  BY <1>1, <1>2, Parts, StillParts
<1>4. Sub' = Sub /\ Que' = Que
  BY <1>3, Parts
<1> QED BY <1>1, <1>4 DEF Abstract!vars, Here

LEMMA SwitchInit == TypeInv /\ Init => Abstract!Init
<1> SUFFICES ASSUME Init PROVE Abstract!Init
  OBVIOUS
<1>1. \A c \in Clients : Out(c) = <<>> /\ In(c) = <<>>
  BY DEF Init, Out, In
<1>2. Sub = [c \in Clients |-> <<>>] /\ Que = [c \in Clients |-> <<>>]
  BY <1>1, FramesEmpty DEF Sub, Que
<1>3. Here = Clients
  BY DEF Init, Here
<1>4. table = [p \in {} |-> p]
  BY DEF Init
<1> QED BY <1>2, <1>3, <1>4 DEF Init, Abstract!Init

LEMMA SwitchStep ==
  ASSUME Waiting = Clients
  PROVE  TypeInv /\ LoopInv /\ FrameInv /\ [Next]_vars => [Abstract!Next]_(Abstract!vars)
<1> SUFFICES ASSUME TypeInv, LoopInv, FrameInv, [Next]_vars
             PROVE  Abstract!Next \/ UNCHANGED Abstract!vars
  OBVIOUS
<1> DEFINE Goal == Abstract!Next \/ UNCHANGED Abstract!vars
<1>1. ASSUME NEW c \in Clients, Connect(c) PROVE Goal
  BY <1>1, ConnectMoves, Unseen DEF Here
<1>2. ASSUME NEW c \in Clients, client[c] \in {"greeting", "up"}, GoneClient(c)
      PROVE  Goal
  BY <1>2, LeaveRefines DEF Abstract!Next
<1>3. ASSUME NEW c \in Clients, ReadReply(c) PROVE Goal
  <2>1. CASE Head(down[c]).half = "ok"
    BY <1>3, <2>1, ReadReplyMoves, Unseen DEF Here
  <2>2. CASE Head(down[c]).half # "ok"
    BY <1>2, <1>3, <2>2 DEF ReadReply
  <2> QED BY <2>1, <2>2
<1>4. ASSUME NEW c \in Clients, NEW dst \in Pids, SendPacket(c, dst) PROVE Goal
  BY <1>4, SubmitRefines DEF Abstract!Next
<1>5. ASSUME NEW c \in Clients, SendMore(c) PROVE Goal
  BY <1>5, SendMoreMoves, Unseen DEF Here
<1>6. ASSUME NEW c \in Clients, Receive(c) PROVE Goal
  BY <1>6, ReceiveRefines DEF Abstract!Next
<1>7. ASSUME Quiet PROVE Goal
  BY <1>7, Unseen DEF Quiet, Here
<1>8. ASSUME NEW c \in Clients, Detaching(c) PROVE Goal
  BY <1>8, DetachRefines DEF Abstract!Next
<1>9. CASE Select
  BY <1>7, <1>9, UntouchedStill DEF Select, Quiet, clientVars
<1>10. ASSUME NEW c \in Clients, Accept(c) PROVE Goal
  BY <1>7, <1>10, AcceptMoves
<1>11. ASSUME NEW c \in Clients, HandleWritable(c) PROVE Goal
  BY <1>7, <1>8, <1>11, HandleWritableMoves
<1>12. ASSUME NEW c \in Clients, HandleReadable(c) PROVE Goal
  BY <1>7, <1>8, <1>12, HandleReadableMoves
<1>13. ASSUME NEW c \in Clients, HandleHandshake(c) PROVE Goal
  BY <1>13, AttachRefines DEF Abstract!Next
<1>14. ASSUME NEW c \in Clients, RoutePacket(c) PROVE Goal
  BY <1>14, RouteRefines DEF Abstract!Next
<1>15. ASSUME NEW c \in Clients, DoneReading(c) PROVE Goal
  BY <1>15, DoneReadingRefines
<1>16. CASE UNCHANGED vars
  BY <1>7, <1>16, UntouchedStill DEF vars, clientVars, Quiet
<1> QED
  BY <1>1, <1>2, <1>3, <1>4, <1>5, <1>6, <1>9, <1>10, <1>11, <1>12, <1>13, <1>14,
     <1>15, <1>16 DEF Next, Loop, Leave
(* With the mappings that ImplementsSwitch names, a step is the same step. *)
LEMMA SameInit == Agrees /\ Abstract!Init => Promise!Init
BY DEF Agrees, Abstract!Init, Promise!Init

LEMMA SameDetached ==
  ASSUME Agrees, Agrees', NEW D, NEW s, Abstract!Detached(D, s)
  PROVE  Promise!Detached(D, s)
BY DEF Agrees, Abstract!Detached, Promise!Detached, Abstract!Restrict, Promise!Restrict,
       Abstract!IsPrefix, Promise!IsPrefix

LEMMA SameStep ==
  ASSUME Agrees, Agrees', [Abstract!Next]_(Abstract!vars)
  PROVE  [Promise!Next]_(Promise!vars)
<1> USE DEF Agrees
<1>1. ASSUME NEW c \in Clients, NEW p \in Pids, Abstract!Attach(c, p)
      PROVE  Promise!Attach(c, p)
  BY <1>1 DEF Abstract!Attach, Promise!Attach, Abstract!Range, Promise!Range
<1>2. ASSUME NEW c \in Clients, NEW p \in Pids, Abstract!Submit(c, p)
      PROVE  Promise!Submit(c, p)
  BY <1>2 DEF Abstract!Submit, Promise!Submit
<1>3. ASSUME NEW c \in Clients, Abstract!Route(c) PROVE Promise!Route(c)
  BY <1>3, SameDetached DEF Abstract!Route, Promise!Route
<1>4. ASSUME NEW c \in Clients, Abstract!Receive(c) PROVE Promise!Receive(c)
  BY <1>4 DEF Abstract!Receive, Promise!Receive
<1>5. ASSUME NEW c \in Clients, Abstract!Leave(c) PROVE Promise!Leave(c)
  BY <1>5 DEF Abstract!Leave, Promise!Leave
<1>6. ASSUME NEW c \in Clients, Abstract!Detach(c) PROVE Promise!Detach(c)
  BY <1>6, SameDetached DEF Abstract!Detach, Promise!Detach
<1>7. CASE UNCHANGED Abstract!vars
  BY <1>7 DEF Abstract!vars, Promise!vars
<1> QED BY <1>1, <1>2, <1>3, <1>4, <1>5, <1>6, <1>7 DEF Abstract!Next, Promise!Next

(* As long as every client waits for room with what it sends, as the       *)
(* devices do, the crossbar is a switch: packets from one client to one    *)
(* processor number arrive whole, in order, at most once, and none is lost *)
(* between clients that stay.                                              *)
THEOREM SwitchCorrect ==
  ASSUME Waiting = Clients
  PROVE  Spec => ImplementsSwitch
<1>1. TypeInv /\ Init => Promise!Init
  BY SwitchInit, Mapped, SameInit
<1>2. TypeInv /\ TypeInv' /\ LoopInv /\ FrameInv /\ [Next]_vars
        => [Promise!Next]_(Promise!vars)
  <2> SUFFICES ASSUME TypeInv, TypeInv', LoopInv, FrameInv, [Next]_vars
               PROVE  [Promise!Next]_(Promise!vars)
    OBVIOUS
  <2>1. Agrees /\ Agrees'
    BY Mapped, MappedNext
  <2> QED BY <2>1, SwitchStep, SameStep
<1> QED BY <1>1, <1>2, FrameInvariant, PTL DEF Spec, ImplementsSwitch, Promise!Spec
=============================================================================

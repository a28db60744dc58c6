---------------------------- MODULE HostFsProofs ----------------------------
(***************************************************************************)
(* Proofs about HostFs for any programs and processors, any requests, any  *)
(* limit of open files and any bounds.                                     *)
(***************************************************************************)
EXTENDS HostFs, SequenceTheorems, FiniteSetTheorems, TLAPS

-----------------------------------------------------------------------------
(* Tables: functions from some members of D to R.                          *)
Partial(D, R) == UNION {[X -> R] : X \in SUBSET D}

LEMMA PartialIs ==
  ASSUME NEW D, NEW R, NEW f \in Partial(D, R)
  PROVE  /\ DOMAIN f \in SUBSET D /\ f \in [DOMAIN f -> R]
         /\ \A x \in DOMAIN f : x \in D /\ f[x] \in R
BY DEF Partial

LEMMA PartialMade ==
  ASSUME NEW D, NEW R, NEW X \in SUBSET D, NEW f \in [X -> R]
  PROVE  f \in Partial(D, R)
BY DEF Partial

LEMMA PartialEmpty ==
  ASSUME NEW D, NEW R
  PROVE  Empty \in Partial(D, R) /\ DOMAIN Empty = {}
<1>1. Empty \in [{} -> R] /\ DOMAIN Empty = {}
  BY DEF Empty
<1> QED BY <1>1, PartialMade

LEMMA PartialWith ==
  ASSUME NEW D, NEW R, NEW f \in Partial(D, R), NEW x \in D, NEW v \in R
  PROVE  /\ With(f, x, v) \in Partial(D, R)
         /\ \A y : y \in DOMAIN With(f, x, v) <=> y \in DOMAIN f \/ y = x
         /\ With(f, x, v)[x] = v
         /\ \A y \in DOMAIN f : y # x => With(f, x, v)[y] = f[y]
<1>1. DOMAIN f \cup {x} \in SUBSET D /\ With(f, x, v) \in [DOMAIN f \cup {x} -> R]
  BY PartialIs DEF With
<1>2. With(f, x, v) \in Partial(D, R)
  BY <1>1, PartialMade
<1> QED BY <1>1, <1>2 DEF With

LEMMA PartialWithout ==
  ASSUME NEW D, NEW R, NEW f \in Partial(D, R), NEW X
  PROVE  /\ Without(f, X) \in Partial(D, R)
         /\ \A y : y \in DOMAIN Without(f, X) <=> y \in DOMAIN f /\ y \notin X
         /\ \A y \in DOMAIN Without(f, X) : Without(f, X)[y] = f[y]
<1>1. DOMAIN f \ X \in SUBSET D /\ Without(f, X) \in [DOMAIN f \ X -> R]
  BY PartialIs DEF Without
<1>2. Without(f, X) \in Partial(D, R)
  BY <1>1, PartialMade
<1> QED BY <1>1, <1>2 DEF Without

LEMMA PartialExcept ==
  ASSUME NEW D, NEW R, NEW f \in Partial(D, R), NEW x \in DOMAIN f, NEW v \in R
  PROVE  [f EXCEPT ![x] = v] \in Partial(D, R)
<1>1. DOMAIN f \in SUBSET D /\ [f EXCEPT ![x] = v] \in [DOMAIN f -> R]
  BY PartialIs
<1> QED BY <1>1, PartialMade

(* Sequences that grow and shrink at their ends.                           *)
LEMMA SeqParts ==
  ASSUME NEW S, NEW q \in Seq(S)
  PROVE  /\ Len(q) \in Nat
         /\ \A i \in 1 .. Len(q) : q[i] \in S
         /\ \A m \in S : /\ Append(q, m) \in Seq(S) /\ Len(Append(q, m)) = Len(q) + 1
                         /\ \A i \in 1 .. Len(q) : Append(q, m)[i] = q[i]
                         /\ Append(q, m)[Len(q) + 1] = m
         /\ q # <<>> => /\ Len(q) >= 1 /\ Head(q) = q[1] /\ Head(q) \in S
                        /\ Tail(q) \in Seq(S) /\ Len(Tail(q)) = Len(q) - 1
                        /\ \A i \in 1 .. Len(q) - 1 : Tail(q)[i] = q[i + 1]
         /\ \A i \in 1 .. Len(q), v \in S : [q EXCEPT ![i] = v] \in Seq(S)
BY LenProperties, ElementOfSeq, AppendProperties, HeadTailProperties, ExceptSeq, EmptySeq

-----------------------------------------------------------------------------
(* The files of the host.                                                  *)
Entries(h) == \A n \in Names : h.entry[n] \in Nat => h.entry[n] <= Len(h.data)
HostOk(h) == h \in FileSystem /\ Len(h.data) <= MaxFiles /\ Entries(h)

(* What a call leaves: the files are files, and none of them goes away.    *)
Grown(h, g) == HostOk(g) /\ Len(g.data) >= Len(h.data)

LEMMA FirstOk == HostOk(FirstHost)
BY HostAssumption DEF HostOk, Entries

LEMMA HostParts ==
  ASSUME NEW h, HostOk(h)
  PROVE  /\ h.entry \in [Names -> 1 .. MaxFiles \cup {NoEntry, Dir}]
         /\ h.data \in Seq(Seq(Blocks)) /\ Len(h.data) \in 0 .. MaxFiles
         /\ h = [entry |-> h.entry, data |-> h.data]
         /\ \A n \in Names : h.entry[n] \in 1 .. Len(h.data) \cup {NoEntry, Dir}
         /\ \A f \in 1 .. Len(h.data) : h.data[f] \in Seq(Blocks)
<1>1. /\ h.entry \in [Names -> 1 .. MaxFiles \cup {NoEntry, Dir}]
      /\ h.data \in Seq(Seq(Blocks)) /\ Len(h.data) <= MaxFiles
      /\ h = [entry |-> h.entry, data |-> h.data]
  BY DEF HostOk, FileSystem
<1>2. Len(h.data) \in Nat /\ \A f \in 1 .. Len(h.data) : h.data[f] \in Seq(Blocks)
  BY <1>1, SeqParts
<1>3. ASSUME NEW n \in Names
      PROVE  h.entry[n] \in 1 .. Len(h.data) \cup {NoEntry, Dir}
  <2>1. CASE h.entry[n] \in {NoEntry, Dir}
    BY <2>1
  <2>2. CASE h.entry[n] \notin {NoEntry, Dir}
    <3>1. h.entry[n] \in 1 .. MaxFiles /\ MaxFiles \in Nat
      BY <1>1, <2>2, HostAssumption
    <3>2. h.entry[n] <= Len(h.data)
      BY <3>1 DEF HostOk, Entries
    <3> QED BY <1>2, <3>1, <3>2
  <2> QED BY <2>1, <2>2
<1> QED BY <1>1, <1>2, <1>3, HostAssumption

LEMMA HostMade ==
  ASSUME NEW e \in [Names -> 1 .. MaxFiles \cup {NoEntry, Dir}],
         NEW d \in Seq(Seq(Blocks)), Len(d) <= MaxFiles,
         \A n \in Names : e[n] \in 1 .. Len(d) \cup {NoEntry, Dir}
  PROVE  HostOk([entry |-> e, data |-> d])
<1>1. Len(d) \in Nat
  BY SeqParts
<1> QED BY <1>1, HostAssumption DEF HostOk, Entries, FileSystem

LEMMA OpenedOk ==
  ASSUME NEW h, HostOk(h), NEW n \in Names, NEW flags \in Flags,
         OpenError(h, n, flags) = "OK"
  PROVE  /\ Grown(h, Opened(h, n, flags))
         /\ Opened(h, n, flags).entry[n] \in 1 .. Len(Opened(h, n, flags).data) \cup {Dir}
<1> DEFINE w == WithFile(h, n)
           o == Opened(h, n, flags)
<1> SUFFICES Grown(h, o) /\ o.entry[n] \in 1 .. Len(o.data) \cup {Dir}
  OBVIOUS
<1>1. /\ h.entry \in [Names -> 1 .. MaxFiles \cup {NoEntry, Dir}]
      /\ h.data \in Seq(Seq(Blocks)) /\ Len(h.data) \in 0 .. MaxFiles
      /\ h = [entry |-> h.entry, data |-> h.data]
      /\ \A x \in Names : h.entry[x] \in 1 .. Len(h.data) \cup {NoEntry, Dir}
      /\ MaxFiles \in Nat /\ NoEntry # Dir /\ NoEntry \notin Nat /\ Dir \notin Nat
  BY HostParts, HostAssumption
<1>2. HostOk(w) /\ Len(w.data) >= Len(h.data) /\ w.entry[n] \in 1 .. Len(w.data) \cup {Dir}
  <2>1. CASE h.entry[n] # NoEntry
    BY <1>1, <2>1 DEF WithFile
  <2>2. CASE h.entry[n] = NoEntry
    <3> DEFINE e == [h.entry EXCEPT ![n] = Len(h.data) + 1]
               d == Append(h.data, <<>>)
    <3>1. w = [entry |-> e, data |-> d]
      BY <2>2 DEF WithFile
    <3>2. Len(h.data) # MaxFiles
      BY <2>2 DEF OpenError
    <3>3. d \in Seq(Seq(Blocks)) /\ Len(d) = Len(h.data) + 1
      BY <1>1, SeqParts, EmptySeq
    <3>4. /\ e \in [Names -> 1 .. MaxFiles \cup {NoEntry, Dir}] /\ e[n] = Len(d)
          /\ \A x \in Names : e[x] \in 1 .. Len(d) \cup {NoEntry, Dir}
      BY <1>1, <3>2, <3>3
    <3> HIDE DEF e, d
    <3>5. HostOk([entry |-> e, data |-> d]) /\ Len(d) \in Nat /\ Len(d) >= 1
      BY <1>1, <3>2, <3>3, <3>4, HostMade
    <3> QED BY <1>1, <3>1, <3>3, <3>4, <3>5
  <2> QED BY <2>1, <2>2
<1> HIDE DEF w
<1>3. o = w \/ (w.entry[n] \in 1 .. Len(w.data) /\ o = [w EXCEPT !.data[w.entry[n]] = <<>>])
  BY <1>2 DEF Opened, w
<1>4. CASE o = w
  BY <1>2, <1>4 DEF Grown
<1>5. CASE w.entry[n] \in 1 .. Len(w.data) /\ o = [w EXCEPT !.data[w.entry[n]] = <<>>]
  <2>1. /\ w.entry \in [Names -> 1 .. MaxFiles \cup {NoEntry, Dir}]
        /\ w.data \in Seq(Seq(Blocks)) /\ Len(w.data) \in 0 .. MaxFiles
        /\ w = [entry |-> w.entry, data |-> w.data]
        /\ \A x \in Names : w.entry[x] \in 1 .. Len(w.data) \cup {NoEntry, Dir}
    BY <1>2, HostParts
  <2> DEFINE d == [w.data EXCEPT ![w.entry[n]] = <<>>]
  <2>2. d \in Seq(Seq(Blocks)) /\ Len(d) = Len(w.data)
    BY <1>5, <2>1, ExceptSeq, EmptySeq
  <2>3. o = [entry |-> w.entry, data |-> d]
    BY <1>5, <2>1
  <2> HIDE DEF d
  <2>4. HostOk(o)
    BY <2>1, <2>2, <2>3, HostMade, HostAssumption
  <2> HIDE DEF o
  <2> QED BY <1>1, <1>2, <1>5, <2>1, <2>2, <2>3, <2>4 DEF Grown
<1> HIDE DEF o
<1> QED BY <1>3, <1>4, <1>5 DEF o

LEMMA NamesOk ==
  ASSUME NEW h, HostOk(h), NEW n \in Names
  PROVE  /\ Grown(h, WithDir(h, n)) /\ WithDir(h, n).data = h.data
         /\ Grown(h, Unlinked(h, n)) /\ Unlinked(h, n).data = h.data
<1>1. /\ h.entry \in [Names -> 1 .. MaxFiles \cup {NoEntry, Dir}]
      /\ h.data \in Seq(Seq(Blocks)) /\ Len(h.data) \in 0 .. MaxFiles
      /\ h = [entry |-> h.entry, data |-> h.data]
      /\ \A x \in Names : h.entry[x] \in 1 .. Len(h.data) \cup {NoEntry, Dir}
  BY HostParts
<1>2. ASSUME NEW v \in {NoEntry, Dir}
      PROVE  Grown(h, [h EXCEPT !.entry[n] = v]) /\ [h EXCEPT !.entry[n] = v].data = h.data
  <2> DEFINE e == [h.entry EXCEPT ![n] = v]
  <2>1. /\ e \in [Names -> 1 .. MaxFiles \cup {NoEntry, Dir}]
        /\ \A x \in Names : e[x] \in 1 .. Len(h.data) \cup {NoEntry, Dir}
    BY <1>1
  <2>2. [h EXCEPT !.entry[n] = v] = [entry |-> e, data |-> h.data]
    <3>1. h.entry \in [Names -> 1 .. MaxFiles \cup {NoEntry, Dir}]
      BY <1>1
    <3>2. \A x : x = [entry |-> h.entry, data |-> h.data] =>
                   [x EXCEPT !.entry[n] = v] = [entry |-> e, data |-> h.data]
      BY <3>1
    <3> QED BY <1>1, <3>2
  <2> HIDE DEF e
  <2>3. HostOk([entry |-> e, data |-> h.data])
    BY <1>1, <2>1, HostMade, HostAssumption
  <2> QED BY <1>1, <2>2, <2>3 DEF Grown
<1> QED BY <1>2 DEF WithDir, Unlinked

LEMMA WrittenOk ==
  ASSUME NEW h, HostOk(h), NEW f \in 1 .. Len(h.data), NEW pos \in Nat, NEW b \in Blocks
  PROVE  Grown(h, Written(h, f, pos, b))
<1>1. /\ h.entry \in [Names -> 1 .. MaxFiles \cup {NoEntry, Dir}]
      /\ h.data \in Seq(Seq(Blocks)) /\ Len(h.data) \in 0 .. MaxFiles
      /\ h = [entry |-> h.entry, data |-> h.data]
      /\ \A x \in Names : h.entry[x] \in 1 .. Len(h.data) \cup {NoEntry, Dir}
      /\ h.data[f] \in Seq(Blocks)
  BY HostParts
<1> DEFINE old == h.data[f]
           len == IF pos < Len(old) THEN Len(old) ELSE pos + 1
           new == [i \in 1 .. len |-> IF i = pos + 1 THEN b
                                      ELSE IF i <= Len(old) THEN old[i] ELSE Hole]
           d == [h.data EXCEPT ![f] = new]
<1>2. Len(old) \in Nat /\ len \in Nat /\ \A i \in 1 .. Len(old) : old[i] \in Blocks
  BY <1>1, SeqParts
<1>3. new \in [1 .. len -> Blocks]
  BY <1>2, HostAssumption
<1>4. new \in Seq(Blocks)
  BY <1>2, <1>3, SeqDef
<1>5. Written(h, f, pos, b) = [entry |-> h.entry, data |-> d]
  <2> HIDE DEF new
  <2>1. Written(h, f, pos, b) = [h EXCEPT !.data[f] = new]
    BY DEF Written, new
  <2> DEFINE g == [entry |-> h.entry, data |-> h.data]
  <2>2. [g EXCEPT !.data[f] = new] = [entry |-> h.entry, data |-> d]
    OBVIOUS
  <2>3. h = g
    BY <1>1
  <2> HIDE DEF g
  <2> QED BY <2>1, <2>2, <2>3
<1> HIDE DEF new
<1>6. d \in Seq(Seq(Blocks)) /\ Len(d) = Len(h.data)
  BY <1>1, <1>4, ExceptSeq
<1> HIDE DEF d
<1>7. HostOk([entry |-> h.entry, data |-> d])
  <2>1. Len(d) <= MaxFiles /\ \A n \in Names : h.entry[n] \in 1 .. Len(d) \cup {NoEntry, Dir}
    BY <1>1, <1>6, HostAssumption
  <2> QED BY <1>1, <1>6, <2>1, HostMade
<1> QED BY <1>1, <1>5, <1>6, <1>7 DEF Grown

-----------------------------------------------------------------------------
(* Packets, and which way they go.                                         *)
Kinds == {"sub", "unsub", "req", "bytes", "landed", "fetch", "land", "reply"}
Codes == {"OK", "BADF", "INVAL", "NOENT", "ACCES", "IO", "NOMEM", "EXIST"}

(* From a processor to the service, to a processor, to a mailbox.          *)
Up(c) ==
  {m \in Packet : /\ Home[m.by] = c /\ m.t \in {"sub", "unsub", "req", "bytes", "landed"}
                  /\ m.t \in {"sub", "unsub", "req"} => m.id = None
                  /\ m.t = "req" \/ (m.t = "bytes" /\ m.ok) => m.r \in Requests}
Down(c) ==
  {m \in Packet : /\ Home[m.by] = c /\ m.t \in {"fetch", "land", "reply"}
                  /\ m.t = "reply" => m.id = None}
Mail(p) == {m \in Packet : m.by = p /\ m.t = "reply" /\ m.id = None}

LEMMA PacketParts ==
  ASSUME NEW m \in Packet
  PROVE  /\ m.t \in Kinds /\ m.by \in Programs /\ m.r \in Requests \cup {None}
         /\ m.id \in TransIds \cup {None} /\ m.ok \in BOOLEAN /\ m.code \in Codes
         /\ m.n \in Nat /\ m.block \in Chunk
BY DEF Packet, Kinds, Codes

LEMMA PacketMade ==
  ASSUME NEW p \in Programs
  PROVE  /\ FromProgram("sub", p, None) \in Up(Home[p])
         /\ FromProgram("sub", p, None).t = "sub" /\ FromProgram("sub", p, None).by = p
         /\ FromProgram("unsub", p, None) \in Up(Home[p])
         /\ FromProgram("unsub", p, None).t = "unsub" /\ FromProgram("unsub", p, None).by = p
         /\ \A r \in Requests : /\ FromProgram("req", p, r) \in Up(Home[p])
                                /\ FromProgram("req", p, r).t = "req"
                                /\ FromProgram("req", p, r).by = p
                                /\ FromProgram("req", p, r).r = r
         /\ \A code \in Codes, n \in Nat :
              /\ ReplyTo(p, code, n) \in Down(Home[p])
              /\ ReplyTo(p, code, n).t = "reply" /\ ReplyTo(p, code, n).by = p
              /\ ReplyTo(p, code, n).code = code /\ ReplyTo(p, code, n).n = n
         /\ Fetch(p) \in Down(Home[p]) /\ Fetch(p).t = "fetch" /\ Fetch(p).by = p
         /\ \A b \in Chunk : /\ LandBlock(p, b) \in Down(Home[p])
                             /\ LandBlock(p, b).t = "land" /\ LandBlock(p, b).by = p
                             /\ LandBlock(p, b).block = b
<1>1. Nothing \in Chunk
  BY DEF Nothing, Chunk
<1>2. \A t \in {"sub", "unsub"} : LET m == FromProgram(t, p, None)
                               IN  m \in Up(Home[p]) /\ m.t = t /\ m.by = p
  BY <1>1 DEF Up, FromProgram, NoPacket, Packet
<1>3. \A r \in Requests : LET m == FromProgram("req", p, r)
                         IN  m \in Up(Home[p]) /\ m.t = "req" /\ m.by = p /\ m.r = r
  BY <1>1 DEF Up, FromProgram, NoPacket, Packet
<1>4. \A code \in Codes, n \in Nat :
        LET m == ReplyTo(p, code, n)
        IN  m \in Down(Home[p]) /\ m.t = "reply" /\ m.by = p /\ m.code = code /\ m.n = n
  BY <1>1 DEF Down, ReplyTo, NoPacket, Packet, Codes
<1>5. Fetch(p) \in Down(Home[p]) /\ Fetch(p).t = "fetch" /\ Fetch(p).by = p
  BY <1>1 DEF Down, Fetch, NoPacket, Packet
<1>6. \A b \in Chunk : LET m == LandBlock(p, b)
                      IN  m \in Down(Home[p]) /\ m.t = "land" /\ m.by = p /\ m.block = b
  BY DEF Down, LandBlock, NoPacket, Packet
<1> QED BY <1>2, <1>3, <1>4, <1>5, <1>6

(* What a processor makes of a request of the service.                     *)
Turned(m, t) == [m EXCEPT !.t = t]
Failed(m, t) == [m EXCEPT !.t = t, !.ok = FALSE]
Filled(m, t, r) == [m EXCEPT !.t = t, !.r = r]

LEMMA PacketTurned ==
  ASSUME NEW c, NEW m \in Down(c), NEW t \in {"bytes", "landed"}
  PROVE  /\ /\ Failed(m, t) \in Up(c) /\ Failed(m, t).t = t /\ Failed(m, t).by = m.by
            /\ Failed(m, t).id = m.id /\ Failed(m, t).block = m.block /\ Failed(m, t).ok = FALSE
         /\ t = "landed" =>
              /\ Turned(m, t) \in Up(c) /\ Turned(m, t).t = t /\ Turned(m, t).by = m.by
              /\ Turned(m, t).id = m.id /\ Turned(m, t).block = m.block
<1>1. m \in Packet /\ Home[m.by] = c
  BY DEF Down
<1>2. \A x \in Packet : /\ x.t = t /\ x.by = m.by /\ (t = "bytes" /\ x.ok => x.r \in Requests)
                       => x \in Up(c)
  BY <1>1 DEF Up
<1>3. /\ Failed(m, t) \in Packet /\ Failed(m, t).t = t /\ Failed(m, t).by = m.by
      /\ Failed(m, t).id = m.id /\ Failed(m, t).block = m.block /\ Failed(m, t).ok = FALSE
  BY <1>1 DEF Packet, Failed
<1>4. /\ Turned(m, t) \in Packet /\ Turned(m, t).t = t /\ Turned(m, t).by = m.by
      /\ Turned(m, t).id = m.id /\ Turned(m, t).block = m.block
  BY <1>1 DEF Packet, Turned
<1> QED BY <1>2, <1>3, <1>4

LEMMA PacketFilled ==
  ASSUME NEW c, NEW m \in Down(c), NEW r \in Requests
  PROVE  LET n == Filled(m, "bytes", r)
         IN  /\ n \in Up(c) /\ n.t = "bytes" /\ n.by = m.by /\ n.id = m.id /\ n.r = r
             /\ n.block = m.block
<1>1. m \in Packet /\ Home[m.by] = c
  BY DEF Down
<1>2. LET n == Filled(m, "bytes", r)
      IN  /\ n \in Packet /\ n.t = "bytes" /\ n.by = m.by /\ n.id = m.id /\ n.r = r
          /\ n.block = m.block
  BY <1>1 DEF Packet, Filled
<1>3. \A x \in Packet : x.t = "bytes" /\ x.by = m.by /\ x.r \in Requests => x \in Up(c)
  BY <1>1 DEF Up
<1> QED BY <1>2, <1>3

LEMMA PacketNumbered ==
  ASSUME NEW c, NEW m \in Down(c), m.t # "reply", NEW t \in TransIds
  PROVE  LET n == [m EXCEPT !.id = t]
         IN  /\ n \in Down(c) /\ n.t = m.t /\ n.by = m.by /\ n.id = t /\ n.block = m.block
BY DEF Down, Packet

-----------------------------------------------------------------------------
(* The parts of the type invariant, some of them stronger than TypeOK has  *)
(* them: the tables are functions, and descriptors stand for files there   *)
(* are.                                                                    *)
Session == [box : Programs, files : Partial(Nat, Open), next : Nat]

ProgOk ==
  /\ prog \in [Programs -> {"new", "run", "wait", "dead"}]
  /\ call \in [Programs -> Requests \cup {None}]
  /\ buf \in [Programs -> Chunk]
  /\ calls \in Nat /\ inits \in Nat
MailOk == mbox \in [Programs -> Seq(Packet)] /\ \A p \in Programs : mbox[p] \in Seq(Mail(p))
UpOk == toFs \in [Cpus -> Seq(Packet)] /\ \A c \in Cpus : toFs[c] \in Seq(Up(c))
DownOk == toCpu \in [Cpus -> Seq(Packet)] /\ \A c \in Cpus : toCpu[c] \in Seq(Down(c))
SessOk ==
  /\ sess \in Seq(Session)
  /\ sessions \in [Programs -> 1 .. Len(sess) \cup {None}]
PendOk == pending \in Partial(TransIds, Deferred)
DescOk ==
  /\ desc \in Partial(Descs, Desc) /\ HostOk(host)
  /\ \A d \in DOMAIN desc : desc[d].file \in Nat => desc[d].file <= Len(host.data)
TypeInv == ProgOk /\ MailOk /\ UpOk /\ DownOk /\ SessOk /\ PendOk /\ DescOk

LEMMA QueueSubsets ==
  /\ \A c : Up(c) \subseteq Packet /\ Down(c) \subseteq Packet
  /\ \A p : Mail(p) \subseteq Packet
BY DEF Up, Down, Mail

LEMMA SeqLarger ==
  ASSUME NEW S, NEW R, S \subseteq R, NEW q \in Seq(S)
  PROVE  q \in Seq(R)
<1>1. Len(q) \in Nat /\ q \in [1 .. Len(q) -> S]
  BY LenProperties
<1>2. q \in [1 .. Len(q) -> R]
  BY <1>1
<1> QED BY <1>1, <1>2, SeqDef

LEMMA UpSet ==
  ASSUME UpOk, NEW c \in Cpus, NEW q \in Seq(Up(c)), toFs' = [toFs EXCEPT ![c] = q]
  PROVE  UpOk'
<1>1. q \in Seq(Packet)
  BY SeqLarger, QueueSubsets
<1> QED BY <1>1 DEF UpOk

LEMMA DownSet ==
  ASSUME DownOk, NEW c \in Cpus, NEW q \in Seq(Down(c)), toCpu' = [toCpu EXCEPT ![c] = q]
  PROVE  DownOk'
<1>1. q \in Seq(Packet)
  BY SeqLarger, QueueSubsets
<1> QED BY <1>1 DEF DownOk

LEMMA MailSet ==
  ASSUME MailOk, NEW p \in Programs, NEW q \in Seq(Mail(p)), mbox' = [mbox EXCEPT ![p] = q]
  PROVE  MailOk'
<1>1. q \in Seq(Packet)
  BY SeqLarger, QueueSubsets
<1> QED BY <1>1 DEF MailOk

LEMMA SendFsOk ==
  ASSUME UpOk, NEW p \in Programs, NEW m \in Up(Home[p]), SendFs(p, m)
  PROVE  UpOk'
<1>1. Home[p] \in Cpus /\ toFs[Home[p]] \in Seq(Up(Home[p]))
  BY ProgramsAssumption DEF UpOk
<1>2. Append(toFs[Home[p]], m) \in Seq(Up(Home[p]))
  BY <1>1, SeqParts
<1> QED BY <1>1, <1>2, UpSet DEF SendFs

LEMMA SendCpuOk ==
  ASSUME DownOk, NEW p \in Programs, NEW m \in Down(Home[p]), SendCpu(p, m)
  PROVE  DownOk'
<1>1. Home[p] \in Cpus /\ toCpu[Home[p]] \in Seq(Down(Home[p]))
  BY ProgramsAssumption DEF DownOk
<1>2. Append(toCpu[Home[p]], m) \in Seq(Down(Home[p]))
  BY <1>1, SeqParts
<1> QED BY <1>1, <1>2, DownSet DEF SendCpu

LEMMA ProgramTypes ==
  ASSUME TypeInv, NEW p \in Programs, HfInit(p) \/ Leave(p) \/ HfCall(p) \/ HfWait(p) \/ Die(p)
  PROVE  TypeInv'
<1> USE DEF TypeInv
<1>1. UNCHANGED <<toCpu, fsVars>>
  BY DEF HfInit, Leave, HfCall, HfWait, Die
<1>2. DownOk' /\ SessOk' /\ PendOk' /\ DescOk'
  BY <1>1 DEF DownOk, SessOk, PendOk, DescOk, Deferred, fsVars
<1>3. CASE HfInit(p)
  <2>1. UpOk'
    BY <1>3, PacketMade, SendFsOk DEF HfInit
  <2> QED BY <1>2, <1>3, <2>1 DEF HfInit, ProgOk, MailOk
<1>4. CASE Leave(p)
  <2>1. UpOk'
    BY <1>4, PacketMade, SendFsOk DEF Leave
  <2> QED BY <1>2, <1>4, <2>1 DEF Leave, ProgOk, MailOk
<1>5. CASE HfCall(p)
  <2>1. PICK r \in Asks[p] : call' = [call EXCEPT ![p] = r] /\ SendFs(p, FromProgram("req", p, r))
    BY <1>5 DEF HfCall
  <2>2. r \in Requests
    BY ProgramsAssumption
  <2>3. UpOk'
    BY <2>1, <2>2, PacketMade, SendFsOk
  <2>4. Nothing \in Chunk
    BY DEF Nothing, Chunk
  <2> QED BY <1>2, <1>5, <2>1, <2>2, <2>3, <2>4 DEF HfCall, ProgOk, MailOk
<1>6. CASE HfWait(p)
  <2>1. mbox[p] \in Seq(Mail(p)) /\ mbox[p] # <<>>
    BY <1>6 DEF HfWait, MailOk
  <2>2. Tail(mbox[p]) \in Seq(Mail(p))
    BY <2>1, SeqParts
  <2>3. MailOk'
    BY <1>6, <2>2, MailSet DEF HfWait
  <2> QED BY <1>2, <1>6, <2>3 DEF HfWait, ProgOk, UpOk
<1>7. CASE Die(p)
  <2>1. MailOk'
    BY <1>7, MailSet, EmptySeq DEF Die
  <2> QED BY <1>2, <1>7, <2>1 DEF Die, ProgOk, UpOk
<1> QED BY <1>3, <1>4, <1>5, <1>6, <1>7

LEMMA CpuTypes ==
  ASSUME TypeInv, NEW c \in Cpus, CpuEnds(c) \/ CpuStarts(c)
  PROVE  TypeInv'
<1> USE DEF TypeInv
<1>1. UNCHANGED <<mbox, calls, inits, fsVars>>
  BY DEF CpuEnds, CpuStarts, progVars
<1>2. MailOk' /\ SessOk' /\ PendOk' /\ DescOk'
  BY <1>1 DEF MailOk, SessOk, PendOk, DescOk, Deferred, fsVars
<1>3. CASE CpuEnds(c)
  <2>1. DownOk'
    BY <1>3, DownSet, EmptySeq DEF CpuEnds
  <2>2. UpOk'
    BY <1>3, UpSet, EmptySeq DEF CpuEnds, UpOk
  <2> QED BY <1>2, <1>3, <2>1, <2>2 DEF CpuEnds, progVars, ProgOk
<1>4. CASE CpuStarts(c)
  <2>1. Nothing \in Chunk
    BY DEF Nothing, Chunk
  <2>2. ProgOk'
    BY <1>1, <1>4, <2>1 DEF CpuStarts, ProgOk
  <2> QED BY <1>2, <1>4, <2>2 DEF CpuStarts, UpOk, DownOk
<1> QED BY <1>3, <1>4

(* What a processor does with the next thing that reaches it.              *)
Delivers(c, m) ==
  /\ m.t = "reply"
  /\ mbox' = IF prog[m.by] \in {"run", "wait"}
               THEN [mbox EXCEPT ![m.by] = Append(@, m)] ELSE mbox
  /\ UNCHANGED <<buf, toFs>>
Fetches(m) ==
  /\ m.t = "fetch"
  /\ \/ call[m.by] # None /\ SendFs(m.by, Filled(m, "bytes", call[m.by]))
     \/ SendFs(m.by, Failed(m, "bytes"))
  /\ UNCHANGED <<buf, mbox>>
Lands(m) ==
  /\ m.t = "land"
  /\ \/ SendFs(m.by, Turned(m, "landed")) /\ buf' = [buf EXCEPT ![m.by] = m.block]
     \/ SendFs(m.by, Failed(m, "landed")) /\ UNCHANGED buf
  /\ UNCHANGED mbox

LEMMA AnswerIs ==
  ASSUME NEW c \in Cpus, Answer(c)
  PROVE  /\ toCpu[c] # <<>> /\ toCpu' = [toCpu EXCEPT ![c] = Tail(toCpu[c])]
         /\ UNCHANGED <<prog, call, calls, inits, fsVars>>
         /\ LET m == Head(toCpu[c]) IN Delivers(c, m) \/ Fetches(m) \/ Lands(m)
<1> DEFINE m == Head(toCpu[c])
<1>1. Delivers(c, m) \/ Fetches(m) \/ Lands(m)
  <2>1. CASE m.t = "reply"
    <3>1. /\ mbox' = IF prog[m.by] \in {"run", "wait"}
                        THEN [mbox EXCEPT ![m.by] = Append(@, m)] ELSE mbox
          /\ UNCHANGED <<buf, toFs>>
      BY <2>1, ZenonT(30) DEF Answer
    <3> QED BY <2>1, <3>1, Zenon DEF Delivers
  <2>2. CASE m.t = "fetch"
    BY <2>2 DEF Answer, Fetches, Filled, Failed
  <2>3. CASE m.t = "land"
    BY <2>3 DEF Answer, Lands, Turned, Failed
  <2> QED BY <2>1, <2>2, <2>3 DEF Answer
<1> QED BY <1>1 DEF Answer

LEMMA AnswerTypes ==
  ASSUME TypeInv, NEW c \in Cpus, Answer(c)
  PROVE  TypeInv'
<1> USE DEF TypeInv
<1>1. PICK m : m = Head(toCpu[c]) /\ (Delivers(c, m) \/ Fetches(m) \/ Lands(m))
  BY AnswerIs
<1>2. /\ toCpu[c] # <<>> /\ toCpu' = [toCpu EXCEPT ![c] = Tail(toCpu[c])]
      /\ UNCHANGED <<prog, call, calls, inits, fsVars>>
  BY AnswerIs
<1>3. toCpu[c] \in Seq(Down(c))
  BY DEF DownOk
<1>4. m \in Down(c) /\ Tail(toCpu[c]) \in Seq(Down(c))
  BY <1>1, <1>2, <1>3, SeqParts
<1>5. DownOk'
  BY <1>2, <1>4, DownSet
<1>6. SessOk' /\ PendOk' /\ DescOk'
  BY <1>2 DEF SessOk, PendOk, DescOk, Deferred, fsVars
<1>7. m \in Packet /\ m.by \in Programs /\ Home[m.by] = c /\ m.block \in Chunk
  BY <1>4, PacketParts DEF Down
<1>8. CASE Delivers(c, m)
  <2>1. CASE prog[m.by] \in {"run", "wait"}
    <3>1. mbox' = [mbox EXCEPT ![m.by] = Append(mbox[m.by], m)]
      BY <1>8, <2>1 DEF Delivers
    <3>2. m \in Mail(m.by)
      BY <1>4, <1>7, <1>8 DEF Mail, Delivers, Down
    <3>3. Append(mbox[m.by], m) \in Seq(Mail(m.by))
      BY <1>7, <3>2, SeqParts DEF MailOk
    <3>4. MailOk'
      BY <1>7, <3>1, <3>3, MailSet
    <3> QED BY <1>2, <1>5, <1>6, <1>8, <3>4 DEF Delivers, ProgOk, UpOk
  <2>2. CASE prog[m.by] \notin {"run", "wait"}
    <3>1. mbox' = mbox
      BY <1>8, <2>2 DEF Delivers
    <3> QED BY <1>2, <1>5, <1>6, <1>8, <3>1 DEF Delivers, ProgOk, UpOk, MailOk
  <2> QED BY <2>1, <2>2
<1>9. CASE Fetches(m)
  <2>1. call[m.by] \in Requests \cup {None}
    BY <1>7 DEF ProgOk
  <2>2. CASE call[m.by] # None /\ SendFs(m.by, Filled(m, "bytes", call[m.by]))
    <3>1. UpOk'
      BY <1>4, <1>7, <2>1, <2>2, PacketFilled, SendFsOk
    <3> QED BY <1>2, <1>5, <1>6, <1>9, <3>1 DEF Fetches, ProgOk, MailOk
  <2>3. CASE SendFs(m.by, Failed(m, "bytes"))
    <3>1. UpOk'
      BY <1>4, <1>7, <2>3, PacketTurned, SendFsOk
    <3> QED BY <1>2, <1>5, <1>6, <1>9, <3>1 DEF Fetches, ProgOk, MailOk
  <2> QED BY <1>9, <2>2, <2>3 DEF Fetches
<1>10. CASE Lands(m)
  <2>1. UpOk'
    <3>1. CASE SendFs(m.by, Turned(m, "landed"))
      BY <1>4, <1>7, <3>1, PacketTurned, SendFsOk
    <3>2. CASE SendFs(m.by, Failed(m, "landed"))
      BY <1>4, <1>7, <3>2, PacketTurned, SendFsOk
    <3> QED BY <1>10, <3>1, <3>2 DEF Lands
  <2>2. ProgOk'
    BY <1>2, <1>7, <1>10 DEF Lands, ProgOk
  <2> QED BY <1>5, <1>6, <1>10, <2>1, <2>2 DEF Lands, MailOk
<1> QED BY <1>1, <1>8, <1>9, <1>10

-----------------------------------------------------------------------------
(* What the service does to its tables.                                    *)
FsOk == SessOk /\ PendOk /\ DescOk

(* A session with other files.                                             *)
WithFiles(z, s, f, n) == [z EXCEPT ![s] = [box |-> z[s].box, files |-> f, next |-> n]]
FileAt(z, s, fd, pos) ==
  WithFiles(z, s, [z[s].files EXCEPT ![fd] = [host |-> z[s].files[fd].host,
                                              names |-> z[s].files[fd].names, pos |-> pos]],
            z[s].next)

(* The forms in which the service writes that.                             *)
SetFiles(z, s, f) == [z EXCEPT ![s].files = f]
AddTo(z, s, x, v) == [z EXCEPT ![s].files = With(@, x, v), ![s].next = @ + 1]
Bump(z, s, fd) == [z EXCEPT ![s].files[fd].pos = @ + 1]
Advance(f, d) == [f EXCEPT ![d].pos = @ + 1]

LEMMA SessionParts ==
  ASSUME NEW z \in Seq(Session), NEW s \in 1 .. Len(z)
  PROVE  /\ z[s] = [box |-> z[s].box, files |-> z[s].files, next |-> z[s].next]
         /\ z[s].box \in Programs /\ z[s].files \in Partial(Nat, Open) /\ z[s].next \in Nat
         /\ \A fd \in DOMAIN z[s].files :
              /\ fd \in Nat /\ z[s].files[fd] \in Open
              /\ z[s].files[fd].host \in Descs \cup {None}
              /\ z[s].files[fd].names \in SUBSET Names /\ z[s].files[fd].pos \in Nat
              /\ z[s].files[fd] = [host |-> z[s].files[fd].host, names |-> z[s].files[fd].names,
                                   pos |-> z[s].files[fd].pos]
<1>1. z[s] \in Session
  BY SeqParts
<1>2. z[s].files \in Partial(Nat, Open)
  BY <1>1 DEF Session
<1>3. \A fd \in DOMAIN z[s].files : fd \in Nat /\ z[s].files[fd] \in Open
  BY <1>2, PartialIs
<1> QED BY <1>1, <1>3 DEF Session, Open

LEMMA WithFilesIs ==
  ASSUME NEW z \in Seq(Session), NEW s \in 1 .. Len(z), NEW f \in Partial(Nat, Open), NEW n \in Nat
  PROVE  /\ WithFiles(z, s, f, n) \in Seq(Session)
         /\ Len(WithFiles(z, s, f, n)) = Len(z)
         /\ WithFiles(z, s, f, n)[s].box = z[s].box
         /\ WithFiles(z, s, f, n)[s].files = f
         /\ WithFiles(z, s, f, n)[s].next = n
         /\ \A y \in 1 .. Len(z) : y # s => WithFiles(z, s, f, n)[y] = z[y]
<1> DEFINE v == [box |-> z[s].box, files |-> f, next |-> n]
<1>1. v \in Session /\ v.box = z[s].box /\ v.files = f /\ v.next = n
  BY SessionParts DEF Session
<1>2. WithFiles(z, s, f, n) = [z EXCEPT ![s] = v]
  BY DEF WithFiles
<1> HIDE DEF v
<1>3. [z EXCEPT ![s] = v] \in Seq(Session) /\ Len([z EXCEPT ![s] = v]) = Len(z)
  BY <1>1, ExceptSeq
<1>4. [z EXCEPT ![s] = v][s] = v /\ \A y \in 1 .. Len(z) : y # s => [z EXCEPT ![s] = v][y] = z[y]
  BY ExceptSeq
<1> QED BY <1>1, <1>2, <1>3, <1>4

LEMMA FilesForms ==
  ASSUME NEW z \in Seq(Session), NEW s \in 1 .. Len(z)
  PROVE  /\ \A f : SetFiles(z, s, f) = WithFiles(z, s, f, z[s].next)
         /\ \A x, v : AddTo(z, s, x, v) = WithFiles(z, s, With(z[s].files, x, v), z[s].next + 1)
<1>1. z[s] = [box |-> z[s].box, files |-> z[s].files, next |-> z[s].next]
  BY SessionParts
<1>2. s \in DOMAIN z
  BY LenProperties
<1>3. ASSUME NEW f PROVE [z EXCEPT ![s].files = f] = WithFiles(z, s, f, z[s].next)
  <2>1. \A b, g, n : [[box |-> b, files |-> g, next |-> n] EXCEPT !.files = f]
                       = [box |-> b, files |-> f, next |-> n]
    OBVIOUS
  <2>2. [z EXCEPT ![s].files = f] = [z EXCEPT ![s] = [z[s] EXCEPT !.files = f]]
    OBVIOUS
  <2>3. [z[s] EXCEPT !.files = f] = [box |-> z[s].box, files |-> f, next |-> z[s].next]
    BY <1>1, <2>1
  <2> QED BY <2>2, <2>3 DEF WithFiles
<1>4. ASSUME NEW x, NEW v
      PROVE  [z EXCEPT ![s].files = With(@, x, v), ![s].next = @ + 1]
               = WithFiles(z, s, With(z[s].files, x, v), z[s].next + 1)
  <2> DEFINE w == With(z[s].files, x, v)
             y == [z EXCEPT ![s].files = w]
  <2>1. [z EXCEPT ![s].files = With(@, x, v), ![s].next = @ + 1] = [y EXCEPT ![s].next = @ + 1]
    OBVIOUS
  <2>2. y = WithFiles(z, s, w, z[s].next)
    BY <1>3
  <2>3. y[s] = [box |-> z[s].box, files |-> w, next |-> z[s].next]
    BY <1>2, <2>2 DEF WithFiles
  <2> HIDE DEF w, y
  <2>4. \A b, g, n : [[box |-> b, files |-> g, next |-> n] EXCEPT !.next = @ + 1]
                       = [box |-> b, files |-> g, next |-> n + 1]
    OBVIOUS
  <2>5. [y EXCEPT ![s].next = @ + 1] = [y EXCEPT ![s] = [y[s] EXCEPT !.next = @ + 1]]
    OBVIOUS
  <2>6. [y EXCEPT ![s] = [box |-> z[s].box, files |-> w, next |-> z[s].next + 1]]
          = WithFiles(z, s, w, z[s].next + 1)
    BY <2>2 DEF WithFiles
  <2>7. [y[s] EXCEPT !.next = @ + 1] = [box |-> z[s].box, files |-> w, next |-> z[s].next + 1]
    BY <2>3, <2>4
  <2>8. [z EXCEPT ![s].files = With(@, x, v), ![s].next = @ + 1]
          = WithFiles(z, s, w, z[s].next + 1)
    BY <2>1, <2>5, <2>6, <2>7
  <2> QED BY <2>8 DEF w
<1>5. \A f : SetFiles(z, s, f) = WithFiles(z, s, f, z[s].next)
  BY <1>3 DEF SetFiles
<1>6. \A x, v : AddTo(z, s, x, v) = WithFiles(z, s, With(z[s].files, x, v), z[s].next + 1)
  BY <1>4 DEF AddTo
<1> QED BY <1>5, <1>6

LEMMA PosForm ==
  ASSUME NEW z \in Seq(Session), NEW s \in 1 .. Len(z), NEW fd \in DOMAIN z[s].files
  PROVE  Bump(z, s, fd) = FileAt(z, s, fd, z[s].files[fd].pos + 1)
<1> DEFINE o == z[s].files[fd]
           v == [host |-> o.host, names |-> o.names, pos |-> o.pos + 1]
           f == [z[s].files EXCEPT ![fd] = v]
<1>1. z[s] = [box |-> z[s].box, files |-> z[s].files, next |-> z[s].next]
  BY SessionParts
<1>2. o = [host |-> o.host, names |-> o.names, pos |-> o.pos]
  BY SessionParts
<1>3. [o EXCEPT !.pos = @ + 1] = v
  <2>1. \A h, n, k : [[host |-> h, names |-> n, pos |-> k] EXCEPT !.pos = @ + 1]
                       = [host |-> h, names |-> n, pos |-> k + 1]
    OBVIOUS
  <2> HIDE DEF o
  <2> QED BY <1>2, <2>1 DEF v
<1>4. [z[s] EXCEPT !.files[fd].pos = @ + 1]
        = [z[s] EXCEPT !.files = [z[s].files EXCEPT ![fd] = [o EXCEPT !.pos = @ + 1]]]
  OBVIOUS
<1>5. [z EXCEPT ![s].files[fd].pos = @ + 1]
        = [z EXCEPT ![s] = [z[s] EXCEPT !.files[fd].pos = @ + 1]]
  OBVIOUS
<1>6. [z[s] EXCEPT !.files = f] = [box |-> z[s].box, files |-> f, next |-> z[s].next]
  <2>1. \A b, g, n, w : [[box |-> b, files |-> g, next |-> n] EXCEPT !.files = w]
                          = [box |-> b, files |-> w, next |-> n]
    OBVIOUS
  <2> HIDE DEF f
  <2> QED BY <1>1, <2>1
<1>7. [z EXCEPT ![s].files[fd].pos = @ + 1]
        = [z EXCEPT ![s] = [box |-> z[s].box, files |-> f, next |-> z[s].next]]
  <2> HIDE DEF v
  <2> QED BY <1>3, <1>4, <1>5, <1>6
<1> QED BY <1>7 DEF Bump, FileAt, WithFiles

LEMMA DescForm ==
  ASSUME NEW f \in Partial(Descs, Desc), NEW d \in DOMAIN f
  PROVE  /\ d \in Descs /\ f[d].file \in 1 .. MaxFiles \cup {Dir} /\ f[d].mode \in 0 .. 2
         /\ f[d].pos \in Nat
         /\ Advance(f, d) \in Partial(Descs, Desc) /\ DOMAIN Advance(f, d) = DOMAIN f
         /\ \A e \in DOMAIN f : e # d => Advance(f, d)[e] = f[e]
         /\ Advance(f, d)[d].file = f[d].file /\ Advance(f, d)[d].mode = f[d].mode
         /\ Advance(f, d)[d].pos = f[d].pos + 1
<1>1. d \in Descs /\ f[d] \in Desc
  BY PartialIs
<1>2. f[d] = [file |-> f[d].file, mode |-> f[d].mode, pos |-> f[d].pos]
  BY <1>1 DEF Desc
<1>3. [f[d] EXCEPT !.pos = @ + 1] = [file |-> f[d].file, mode |-> f[d].mode, pos |-> f[d].pos + 1]
  <2>1. \A a, b, k : [[file |-> a, mode |-> b, pos |-> k] EXCEPT !.pos = @ + 1]
                       = [file |-> a, mode |-> b, pos |-> k + 1]
    OBVIOUS
  <2> QED BY <1>2, <2>1
<1>4. [f EXCEPT ![d].pos = @ + 1] = [f EXCEPT ![d] = [f[d] EXCEPT !.pos = @ + 1]]
  OBVIOUS
<1> DEFINE v == [file |-> f[d].file, mode |-> f[d].mode, pos |-> f[d].pos + 1]
<1>5. Advance(f, d) = [f EXCEPT ![d] = v]
  BY <1>3, <1>4 DEF Advance
<1>6. v \in Desc /\ v.file = f[d].file /\ v.mode = f[d].mode /\ v.pos = f[d].pos + 1
  BY <1>1 DEF Desc
<1> HIDE DEF v
<1>7. [f EXCEPT ![d] = v] \in Partial(Descs, Desc)
  BY <1>6, PartialExcept
<1>8. /\ Advance(f, d)[d] = v /\ DOMAIN Advance(f, d) = DOMAIN f
      /\ \A e \in DOMAIN f : e # d => Advance(f, d)[e] = f[e]
  BY <1>5
<1> QED BY <1>1, <1>5, <1>6, <1>7, <1>8 DEF Desc

LEMMA RequestParts ==
  ASSUME NEW r \in Requests
  PROVE  /\ r.op \in PathOps \cup FdOps /\ r.name \in Names /\ r.flags \in Flags /\ r.fd \in Nat
         /\ r.arg \in {"good", "null", "readonly"} /\ r # None
BY ProgramsAssumption DEF Request

LEMMA ReplyOk ==
  ASSUME DownOk, SessOk, NEW s \in 1 .. Len(sess), NEW code \in Codes, NEW n \in Nat,
         Reply(s, code, n)
  PROVE  DownOk'
<1>1. sess[s].box \in Programs
  BY SessionParts DEF SessOk
<1> QED BY <1>1, PacketMade, SendCpuOk DEF Reply

LEMMA RefuseOk ==
  ASSUME TypeInv, NEW s \in 1 .. Len(sess), NEW code \in Codes, Refuse(s, code)
  PROVE  DownOk' /\ FsOk'
<1>1. Reply(s, code, 0) /\ UNCHANGED fsVars
  BY DEF Refuse
<1>2. DownOk'
  BY <1>1, ReplyOk DEF TypeInv
<1> QED BY <1>1, <1>2 DEF TypeInv, FsOk, SessOk, PendOk, DescOk, Deferred, fsVars

LEMMA PendGrows ==
  ASSUME pending' \in Partial(TransIds, Deferred), Len(sess) \in Nat, Len(sess') \in Nat,
         Len(sess') >= Len(sess)
  PROVE  PendOk'
<1>1. \A x \in Deferred : x \in Deferred'
  BY DEF Deferred
<1>2. PICK X \in SUBSET TransIds : pending' \in [X -> Deferred]
  BY DEF Partial
<1>3. pending' \in [X -> Deferred']
  BY <1>1, <1>2
<1> QED BY <1>3, PartialMade DEF PendOk, Partial

LEMMA DeferOk ==
  ASSUME DownOk, PendOk, NEW s \in 1 .. Len(sess), NEW p \in Programs, NEW r \in Requests,
         NEW m \in Down(Home[p]), m.t # "reply", Defer(s, p, r, m)
  PROVE  DownOk' /\ pending' \in Partial(TransIds, Deferred)
<1> DEFINE v == [op |-> r.op, s |-> s, fd |-> r.fd, flags |-> r.flags]
<1>1. PICK t \in TransIds : pending' = With(pending, t, v) /\ SendCpu(p, [m EXCEPT !.id = t])
  BY DEF Defer
<1>2. v \in Deferred
  BY RequestParts DEF Deferred
<1> HIDE DEF v
<1>3. pending' \in Partial(TransIds, Deferred)
  BY <1>1, <1>2, PartialWith DEF PendOk
<1>4. [m EXCEPT !.id = t] \in Down(Home[p])
  BY PacketNumbered
<1> QED BY <1>1, <1>3, <1>4, SendCpuOk

LEMMA SubscribeOk ==
  ASSUME TypeInv, NEW p \in Programs, Subscribe(p)
  PROVE  DownOk' /\ FsOk'
<1> DEFINE z == [box |-> p, files |-> Empty, next |-> 0]
<1>1. z \in Session
  BY PartialEmpty DEF Session
<1>2. /\ sess' = Append(sess, z) /\ sessions' = [sessions EXCEPT ![p] = Len(sess) + 1]
      /\ UNCHANGED <<pending, desc, host, toCpu>>
  BY DEF Subscribe
<1>3. sess \in Seq(Session) /\ sessions \in [Programs -> 1 .. Len(sess) \cup {None}]
  BY DEF TypeInv, SessOk
<1> HIDE DEF z
<1>4. sess' \in Seq(Session) /\ Len(sess') = Len(sess) + 1 /\ Len(sess) \in Nat
  BY <1>1, <1>2, <1>3, SeqParts
<1>5. SessOk'
  BY <1>2, <1>3, <1>4 DEF SessOk
<1>6. PendOk'
  BY <1>2, <1>4, PendGrows DEF TypeInv, PendOk
<1> QED BY <1>2, <1>5, <1>6 DEF TypeInv, FsOk, DescOk, DownOk

LEMMA UnsubscribeOk ==
  ASSUME TypeInv, NEW p \in Programs, Unsubscribe(p)
  PROVE  DownOk' /\ FsOk'
<1>1. /\ sess' = sess /\ pending' = pending /\ host' = host /\ toCpu' = toCpu
      /\ sessions' \in [Programs -> 1 .. Len(sess) \cup {None}]
  BY DEF Unsubscribe, TypeInv, SessOk
<1>2. PICK X : desc' = Without(desc, X)
  BY DEF Unsubscribe
<1>0. desc \in Partial(Descs, Desc)
  BY DEF TypeInv, DescOk
<1>3. /\ desc' \in Partial(Descs, Desc)
      /\ \A d \in DOMAIN desc' : d \in DOMAIN desc /\ desc'[d] = desc[d]
  BY <1>0, <1>2, PartialWithout
<1>4. DescOk'
  BY <1>1, <1>3 DEF TypeInv, DescOk
<1> QED BY <1>1, <1>4 DEF TypeInv, FsOk, SessOk, PendOk, Deferred, DownOk

LEMMA OpenAskedOk ==
  ASSUME TypeInv, NEW s \in 1 .. Len(sess), NEW p \in Programs, NEW r \in Requests,
         DoOpen(s, p, r) \/ DoPathOp(s, p, r) \/ DoWrite(s, p, r)
  PROVE  DownOk' /\ FsOk'
<1>1. CASE \E code \in Codes : Refuse(s, code)
  BY <1>1, RefuseOk
<1>2. CASE Defer(s, p, r, Fetch(p)) /\ UNCHANGED <<sessions, sess, desc, host>>
  <2>1. DownOk' /\ pending' \in Partial(TransIds, Deferred)
    BY <1>2, PacketMade, DeferOk DEF TypeInv
  <2>2. Len(sess) \in Nat
    BY SeqParts DEF TypeInv, SessOk
  <2>3. PendOk'
    BY <1>2, <2>1, <2>2, PendGrows
  <2> QED BY <1>2, <2>1, <2>3 DEF TypeInv, FsOk, SessOk, DescOk
<1> QED BY <1>1, <1>2 DEF DoOpen, DoPathOp, DoWrite, Codes

LEMMA CloseOk ==
  ASSUME TypeInv, NEW s \in 1 .. Len(sess), NEW r \in Requests, DoClose(s, r)
  PROVE  DownOk' /\ FsOk'
<1>1. CASE Refuse(s, "BADF")
  BY <1>1, RefuseOk DEF Codes
<1>2. CASE /\ r.fd \in DOMAIN sess[s].files
           /\ sess' = SetFiles(sess, s, Without(sess[s].files, {r.fd}))
           /\ desc' = Without(desc, {sess[s].files[r.fd].host})
           /\ \E code \in {"OK", "IO"} : Reply(s, code, 0)
           /\ UNCHANGED <<sessions, pending, host>>
  <2>1. DownOk'
    BY <1>2, ReplyOk DEF TypeInv, Codes
  <2>2. sess \in Seq(Session) /\ sessions \in [Programs -> 1 .. Len(sess) \cup {None}]
    BY DEF TypeInv, SessOk
  <2>3. Without(sess[s].files, {r.fd}) \in Partial(Nat, Open) /\ sess[s].next \in Nat
    <3>1. sess[s].files \in Partial(Nat, Open) /\ sess[s].next \in Nat
      BY <2>2, SessionParts
    <3> QED BY <3>1, PartialWithout
  <2>4. sess' \in Seq(Session) /\ Len(sess') = Len(sess) /\ Len(sess) \in Nat
    BY <1>2, <2>2, <2>3, FilesForms, WithFilesIs, SeqParts
  <2>5. PendOk'
    BY <1>2, <2>4, PendGrows DEF TypeInv, PendOk
  <2>6. desc \in Partial(Descs, Desc)
    BY DEF TypeInv, DescOk
  <2>7. /\ desc' \in Partial(Descs, Desc) /\ \A d \in DOMAIN desc' : d \in DOMAIN desc
        /\ \A d \in DOMAIN desc' : desc'[d] = desc[d]
    BY <1>2, <2>6, PartialWithout
  <2>8. DescOk'
    BY <1>2, <2>7 DEF TypeInv, DescOk
  <2> QED BY <1>2, <2>1, <2>2, <2>4, <2>5, <2>8 DEF FsOk, SessOk
<1> QED BY <1>1, <1>2 DEF DoClose, SetFiles

(* A descriptor moves on.                                                  *)
LEMMA MovedOk ==
  ASSUME DescOk, NEW d \in DOMAIN desc, NEW g, Grown(host, g),
         desc' = Advance(desc, d), host' = g
  PROVE  DescOk'
<1>1. desc \in Partial(Descs, Desc)
  BY DEF DescOk
<1>2. /\ desc' \in Partial(Descs, Desc) /\ DOMAIN desc' = DOMAIN desc
      /\ \A e \in DOMAIN desc : desc'[e].file = desc[e].file
  BY <1>1, DescForm
<1>3. ASSUME NEW e \in DOMAIN desc', desc'[e].file \in Nat
      PROVE  desc'[e].file <= Len(host'.data)
  <2>1. e \in DOMAIN desc /\ desc'[e].file = desc[e].file
    BY <1>2
  <2>2. desc[e].file <= Len(host.data)
    BY <1>3, <2>1 DEF DescOk
  <2>3. Len(host.data) \in Nat /\ Len(host'.data) \in Nat /\ Len(host'.data) >= Len(host.data)
    BY HostParts DEF Grown, DescOk
  <2> QED BY <1>3, <2>1, <2>2, <2>3
<1> QED BY <1>2, <1>3 DEF DescOk, Grown

LEMMA GrownSame ==
  ASSUME HostOk(host)
  PROVE  Grown(host, host)
BY HostParts DEF Grown

LEMMA FileParts ==
  ASSUME DescOk, NEW d, IsFile(d)
  PROVE  /\ d \in DOMAIN desc /\ d \in Descs
         /\ desc[d].file \in 1 .. Len(host.data) /\ desc[d].pos \in Nat
         /\ host.data[desc[d].file] \in Seq(Blocks)
<1>1. desc \in Partial(Descs, Desc)
  BY DEF DescOk
<1>2. d \in DOMAIN desc /\ desc[d].file \in Nat
  BY DEF IsFile
<1>3. d \in Descs /\ desc[d].file \in 1 .. MaxFiles /\ desc[d].pos \in Nat
  BY <1>1, <1>2, DescForm, HostAssumption
<1>4. Len(host.data) \in Nat /\ MaxFiles \in Nat
  BY HostParts, HostAssumption DEF DescOk
<1>5. desc[d].file \in 1 .. Len(host.data)
  BY <1>2, <1>3, <1>4 DEF DescOk
<1> QED BY <1>2, <1>3, <1>5, HostParts DEF DescOk

LEMMA BlockOk ==
  ASSUME TypeInv, NEW s \in 1 .. Len(sess), NEW fd \in DOMAIN sess[s].files,
         CanRead(sess[s].files[fd]), ~AllRead(sess[s].files[fd])
  PROVE  BlockOf(sess[s].files[fd]) \in Chunk
<1> DEFINE of == sess[s].files[fd]
<1>1. of.names \in SUBSET Names
  BY SessionParts DEF TypeInv, SessOk
<1>2. CASE IsDir(of)
  BY <1>1, <1>2 DEF BlockOf, Chunk
<1>3. CASE ~IsDir(of)
  <2>1. IsFile(of.host)
    BY <1>3 DEF CanRead
  <2> DEFINE q == host.data[desc[of.host].file]
             n == desc[of.host].pos
  <2>2. n \in Nat /\ q \in Seq(Blocks)
    BY <2>1, FileParts DEF TypeInv
  <2>3. ~(n >= Len(q))
    BY <1>3 DEF AllRead, AtEnd
  <2>4. q[n + 1] \in Blocks
    <3> HIDE DEF q, n
    <3>1. Len(q) \in Nat /\ \A i \in 1 .. Len(q) : q[i] \in Blocks
      BY <2>2, SeqParts
    <3> QED BY <2>2, <2>3, <3>1
  <2>5. BlockOf(of) = {q[n + 1]}
    BY <1>3 DEF BlockOf, BlockAt
  <2> HIDE DEF q, n
  <2> QED BY <2>4, <2>5 DEF Chunk
<1> QED BY <1>2, <1>3

LEMMA ReadOk ==
  ASSUME TypeInv, NEW s \in 1 .. Len(sess), NEW p \in Programs, NEW r \in Requests,
         DoRead(s, p, r)
  PROVE  DownOk' /\ FsOk'
<1> DEFINE of == sess[s].files[r.fd]
<1>1. CASE \E code \in Codes : Refuse(s, code)
  BY <1>1, RefuseOk
<1>2. CASE /\ r.fd \in DOMAIN sess[s].files /\ CanRead(of) /\ ~AllRead(of)
           /\ TakeBlock(s, r.fd) /\ Defer(s, p, r, LandBlock(p, BlockOf(of)))
           /\ UNCHANGED <<sessions, host>>
  <2>1. BlockOf(of) \in Chunk
    BY <1>2, BlockOk
  <2>2. DownOk' /\ pending' \in Partial(TransIds, Deferred)
    <3>1. LandBlock(p, BlockOf(of)) \in Down(Home[p]) /\ LandBlock(p, BlockOf(of)).t # "reply"
      BY <2>1, PacketMade
    <3> QED BY <1>2, <3>1, DeferOk DEF TypeInv
  <2>3. sess \in Seq(Session) /\ sessions \in [Programs -> 1 .. Len(sess) \cup {None}]
    BY DEF TypeInv, SessOk
  <2>4. CASE /\ sess' = Bump(sess, s, r.fd) /\ UNCHANGED desc
    <3> DEFINE v == [host |-> of.host, names |-> of.names, pos |-> of.pos + 1]
               f == [sess[s].files EXCEPT ![r.fd] = v]
    <3>0. /\ of.host \in Descs \cup {None} /\ of.names \in SUBSET Names /\ of.pos \in Nat
          /\ sess[s].files \in Partial(Nat, Open) /\ sess[s].next \in Nat
      BY <1>2, <2>3, SessionParts
    <3>1. v \in Open
      BY <3>0 DEF Open
    <3>2. sess' = WithFiles(sess, s, f, sess[s].next)
      BY <1>2, <2>3, <2>4, PosForm DEF FileAt
    <3> HIDE DEF v
    <3>3. f \in Partial(Nat, Open)
      BY <1>2, <3>0, <3>1, PartialExcept
    <3> HIDE DEF f
    <3>4. sess' \in Seq(Session) /\ Len(sess') = Len(sess) /\ Len(sess) \in Nat
      BY <2>3, <3>0, <3>2, <3>3, WithFilesIs, SeqParts
    <3>5. PendOk'
      BY <2>2, <3>4, PendGrows
    <3> QED BY <1>2, <2>2, <2>3, <2>4, <3>4, <3>5 DEF TypeInv, FsOk, SessOk, DescOk
  <2>5. CASE ~IsDir(of) /\ desc' = Advance(desc, of.host) /\ UNCHANGED sess
    <3>1. IsFile(of.host)
      BY <1>2, <2>5 DEF CanRead
    <3>2. of.host \in DOMAIN desc /\ DescOk /\ Grown(host, host)
      BY <3>1, GrownSame DEF TypeInv, DescOk, IsFile
    <3> HIDE DEF of
    <3>3. DescOk'
      BY <1>2, <2>5, <3>2, MovedOk
    <3>4. Len(sess) \in Nat
      BY <2>3, SeqParts
    <3>5. PendOk'
      BY <2>2, <2>5, <3>4, PendGrows
    <3> QED BY <1>2, <2>2, <2>3, <2>5, <3>3, <3>5 DEF FsOk, SessOk
  <2> QED BY <1>2, <2>4, <2>5 DEF TakeBlock, Bump, Advance
<1> QED BY <1>1, <1>2 DEF DoRead, Codes

LEMMA DispatchOk ==
  ASSUME TypeInv, NEW s \in 1 .. Len(sess), NEW p \in Programs, NEW r \in Requests,
         Dispatch(s, p, r)
  PROVE  DownOk' /\ FsOk'
BY OpenAskedOk, CloseOk, ReadOk DEF Dispatch

(* The answers of the processors.                                          *)
LEMMA PendingParts ==
  ASSUME PendOk, NEW t \in DOMAIN pending
  PROVE  /\ t \in TransIds
         /\ pending[t].op \in PathOps \cup FdOps /\ pending[t].s \in 1 .. Len(sess)
         /\ pending[t].fd \in Nat /\ pending[t].flags \in Flags
<1>1. t \in TransIds /\ pending[t] \in Deferred
  BY PartialIs DEF PendOk
<1> QED BY <1>1 DEF Deferred

LEMMA AddOk ==
  ASSUME SessOk, NEW s \in 1 .. Len(sess), NEW of \in Open, AddFile(s, of), UNCHANGED sessions
  PROVE  /\ SessOk' /\ Len(sess') = Len(sess)
         /\ sess' = WithFiles(sess, s, With(sess[s].files, sess[s].next, of), sess[s].next + 1)
         /\ sess'[s].box = sess[s].box
         /\ sess'[s].files = With(sess[s].files, sess[s].next, of)
         /\ sess'[s].next = sess[s].next + 1
         /\ \A y \in 1 .. Len(sess) : y # s => sess'[y] = sess[y]
<1>1. sess \in Seq(Session) /\ sessions \in [Programs -> 1 .. Len(sess) \cup {None}]
  BY DEF SessOk
<1>2. sess[s].files \in Partial(Nat, Open) /\ sess[s].next \in Nat
  BY <1>1, SessionParts
<1>3. sess' = AddTo(sess, s, sess[s].next, of)
  BY DEF AddFile, AddTo
<1>4. sess' = WithFiles(sess, s, With(sess[s].files, sess[s].next, of), sess[s].next + 1)
  BY <1>1, <1>3, FilesForms
<1>5. With(sess[s].files, sess[s].next, of) \in Partial(Nat, Open) /\ sess[s].next + 1 \in Nat
  <2>1. \A f \in Partial(Nat, Open), x \in Nat : With(f, x, of) \in Partial(Nat, Open)
    BY PartialWith
  <2> QED BY <1>2, <2>1
<1>6. /\ sess' \in Seq(Session) /\ Len(sess') = Len(sess)
      /\ sess'[s].box = sess[s].box
      /\ sess'[s].files = With(sess[s].files, sess[s].next, of)
      /\ sess'[s].next = sess[s].next + 1
      /\ \A y \in 1 .. Len(sess) : y # s => sess'[y] = sess[y]
  BY <1>1, <1>4, <1>5, WithFilesIs
<1> QED BY <1>1, <1>4, <1>6 DEF SessOk

LEMMA FlagsParts ==
  ASSUME NEW flags \in Flags
  PROVE  flags.mode \in 0 .. 3 /\ flags.creat \in BOOLEAN /\ flags.trunc \in BOOLEAN
BY DEF Flags

(* What an open that succeeds does.                                        *)
Opens(s, n, flags) ==
  /\ n \notin Jailed /\ flags.mode # 3 /\ OpenError(host, n, flags) = "OK"
  /\ host' = Opened(host, n, flags)
  /\ \E d \in Descs :
       /\ NewDesc(d)
       /\ desc' = With(desc, d, [file |-> host'.entry[n], mode |-> flags.mode, pos |-> 0])
       /\ AddFile(s, [host |-> d, names |-> {}, pos |-> 0])
  /\ Reply(s, "OK", sess[s].next)

LEMMA OpenFileIs ==
  ASSUME NEW s, NEW n, NEW flags, OpenFile(s, n, flags)
  PROVE  \/ /\ \E code \in {"ACCES", "INVAL", "IO", "NOENT"} :
                 /\ Reply(s, code, 0)
                 /\ code = "ACCES" => n \in Jailed
                 /\ code = "INVAL" => flags.mode = 3
                 /\ code = "NOENT" => OpenError(host, n, flags) = "NOENT"
            /\ UNCHANGED <<sess, desc, host>>
         \/ Opens(s, n, flags)
<1> DEFINE code == IF n \in Jailed THEN "ACCES" ELSE IF flags.mode = 3 THEN "INVAL"
                   ELSE IF Descs \subseteq DOMAIN desc THEN "IO" ELSE OpenError(host, n, flags)
<1>1. OpenError(host, n, flags) \in {"OK", "IO", "NOENT"}
  BY DEF OpenError
<1>2. CASE code # "OK"
  <2>1. Reply(s, code, 0) /\ UNCHANGED <<sess, desc, host>>
    BY <1>2, ZenonT(30) DEF OpenFile
  <2>2. /\ code \in {"ACCES", "INVAL", "IO", "NOENT"}
        /\ code = "ACCES" => n \in Jailed
        /\ code = "INVAL" => flags.mode = 3
        /\ code = "NOENT" => OpenError(host, n, flags) = "NOENT"
    BY <1>1, <1>2
  <2> HIDE DEF code
  <2> QED BY <2>1, <2>2
<1>3. CASE code = "OK"
  <2>1. n \notin Jailed /\ flags.mode # 3 /\ OpenError(host, n, flags) = "OK"
    BY <1>3
  <2>2. /\ host' = Opened(host, n, flags)
        /\ \E d \in Descs :
             /\ NewDesc(d)
             /\ desc' = With(desc, d, [file |-> host'.entry[n], mode |-> flags.mode, pos |-> 0])
             /\ AddFile(s, [host |-> d, names |-> {}, pos |-> 0])
        /\ Reply(s, "OK", sess[s].next)
    BY <1>3, ZenonT(30) DEF OpenFile
  <2> QED BY <2>1, <2>2 DEF Opens
<1> QED BY <1>2, <1>3

LEMMA OpenFileOk ==
  ASSUME TypeInv, NEW s \in 1 .. Len(sess), NEW n \in Names, NEW flags \in Flags,
         OpenFile(s, n, flags), UNCHANGED sessions
  PROVE  DownOk' /\ SessOk' /\ DescOk' /\ Len(sess') = Len(sess)
<1>0. sess[s].next \in Nat
  BY SessionParts DEF TypeInv, SessOk
<1>1. CASE (\E code \in Codes : Reply(s, code, 0)) /\ UNCHANGED <<sess, desc, host>>
  <2>1. DownOk'
    BY <1>1, ReplyOk DEF TypeInv
  <2> QED BY <1>1, <2>1 DEF TypeInv, SessOk, DescOk
<1>2. CASE Opens(s, n, flags)
  <2>1. DownOk'
    BY <1>0, <1>2, ReplyOk DEF TypeInv, Codes, Opens
  <2> DEFINE h == Opened(host, n, flags)
  <2>2. host' = h /\ Grown(host, h) /\ h.entry[n] \in 1 .. Len(h.data) \cup {Dir}
    BY <1>2, OpenedOk DEF Opens, TypeInv, DescOk
  <2> HIDE DEF h
  <2>3. PICK d \in Descs :
          /\ desc' = With(desc, d, [file |-> h.entry[n], mode |-> flags.mode, pos |-> 0])
          /\ AddFile(s, [host |-> d, names |-> {}, pos |-> 0])
    BY <1>2, <2>2 DEF Opens
  <2>4. [host |-> d, names |-> {}, pos |-> 0] \in Open
    BY DEF Open
  <2>5. SessOk' /\ Len(sess') = Len(sess)
    BY <2>3, <2>4, AddOk DEF TypeInv
  <2>6. /\ HostOk(h) /\ Len(h.data) \in 0 .. MaxFiles /\ Len(host.data) \in Nat
        /\ Len(h.data) >= Len(host.data)
    BY <2>2, HostParts DEF Grown, TypeInv, DescOk
  <2> DEFINE v == [file |-> h.entry[n], mode |-> flags.mode, pos |-> 0]
  <2>7. v \in Desc /\ v.file = h.entry[n]
    <3>1. h.entry[n] \in 1 .. MaxFiles \cup {Dir} /\ flags.mode \in 0 .. 2
      BY <1>2, <2>2, <2>6, FlagsParts, HostAssumption DEF Opens
    <3> QED BY <3>1 DEF Desc
  <2> HIDE DEF v
  <2>8. desc \in Partial(Descs, Desc)
    BY DEF TypeInv, DescOk
  <2>9. desc' = With(desc, d, v)
    BY <2>3 DEF v
  <2>10. /\ desc' \in Partial(Descs, Desc) /\ desc'[d] = v
         /\ \A e \in DOMAIN desc' : e = d \/ e \in DOMAIN desc
         /\ \A e \in DOMAIN desc : e # d => desc'[e] = desc[e]
    BY <2>7, <2>8, <2>9, PartialWith
  <2>11. ASSUME NEW e \in DOMAIN desc', desc'[e].file \in Nat
         PROVE  desc'[e].file <= Len(h.data)
    <3>1. CASE e = d
      <4>1. desc'[e].file = h.entry[n]
        BY <2>7, <2>10, <3>1
      <4>2. Dir \notin Nat
        BY HostAssumption
      <4> QED BY <2>2, <2>6, <2>11, <4>1, <4>2
    <3>2. CASE e # d
      <4>1. e \in DOMAIN desc /\ desc'[e] = desc[e]
        BY <2>10, <3>2
      <4>2. desc[e].file <= Len(host.data)
        BY <2>11, <4>1 DEF TypeInv, DescOk
      <4> QED BY <2>6, <2>11, <4>1, <4>2
    <3> QED BY <3>1, <3>2
  <2>12. DescOk'
    BY <2>2, <2>6, <2>10, <2>11 DEF DescOk
  <2> QED BY <2>1, <2>5, <2>12
<1> QED BY <1>1, <1>2, OpenFileIs DEF Codes

LEMMA OpenDirOk ==
  ASSUME TypeInv, NEW s \in 1 .. Len(sess), NEW n \in Names, OpenDir(s, n), UNCHANGED sessions
  PROVE  DownOk' /\ SessOk' /\ DescOk' /\ Len(sess') = Len(sess)
<1>0. sess[s].next \in Nat
  BY SessionParts DEF TypeInv, SessOk
<1>1. UNCHANGED <<desc, host>> /\ DescOk'
  BY DEF OpenDir, TypeInv, DescOk
<1>2. \/ (\E code \in Codes : Reply(s, code, 0)) /\ UNCHANGED sess
      \/ /\ AddFile(s, [host |-> None, names |-> Listing(host, n), pos |-> 0])
         /\ Reply(s, "OK", sess[s].next)
  BY DEF OpenDir, ListError, Codes
<1>3. CASE (\E code \in Codes : Reply(s, code, 0)) /\ UNCHANGED sess
  <2>1. DownOk'
    BY <1>3, ReplyOk DEF TypeInv
  <2> QED BY <1>1, <1>3, <2>1 DEF TypeInv, SessOk
<1>4. CASE /\ AddFile(s, [host |-> None, names |-> Listing(host, n), pos |-> 0])
           /\ Reply(s, "OK", sess[s].next)
  <2>1. DownOk'
    BY <1>0, <1>4, ReplyOk DEF TypeInv, Codes
  <2>2. [host |-> None, names |-> Listing(host, n), pos |-> 0] \in Open
    BY DEF Open, Listing
  <2> QED BY <1>1, <1>4, <2>1, <2>2, AddOk DEF TypeInv
<1> QED BY <1>2, <1>3, <1>4

(* The files of the host change, the descriptors do not.                   *)
LEMMA HostOnlyOk ==
  ASSUME DescOk, Grown(host, host'), UNCHANGED desc
  PROVE  DescOk'
<1>1. Len(host.data) \in Nat /\ Len(host'.data) \in Nat /\ HostOk(host')
  BY HostParts DEF DescOk, Grown
<1>2. ASSUME NEW d \in DOMAIN desc', desc'[d].file \in Nat
      PROVE  desc'[d].file <= Len(host'.data)
  BY <1>1, <1>2 DEF DescOk, Grown
<1> QED BY <1>1, <1>2 DEF DescOk

LEMMA NamePathOk ==
  ASSUME TypeInv, NEW s \in 1 .. Len(sess), NEW n \in Names, MkdirPath(s, n) \/ UnlinkPath(s, n),
         UNCHANGED sessions
  PROVE  DownOk' /\ SessOk' /\ DescOk' /\ Len(sess') = Len(sess)
<1>1. UNCHANGED <<sess, desc>> /\ \E code \in Codes : Reply(s, code, 0)
  BY DEF MkdirPath, UnlinkPath, MkdirError, UnlinkError, Codes
<1>2. DownOk'
  BY <1>1, ReplyOk DEF TypeInv
<1>3. host' = host \/ host' = WithDir(host, n) \/ host' = Unlinked(host, n)
  BY DEF MkdirPath, UnlinkPath
<1>4. Grown(host, host')
  <2>1. HostOk(host)
    BY DEF TypeInv, DescOk
  <2> QED BY <1>3, <2>1, GrownSame, NamesOk
<1>5. DescOk'
  BY <1>1, <1>4, HostOnlyOk DEF TypeInv
<1> QED BY <1>1, <1>2, <1>5 DEF TypeInv, SessOk

(* What a write that succeeds does.                                        *)
Writes(s, fd, b) ==
  LET d == sess[s].files[fd].host IN
  /\ fd \in DOMAIN sess[s].files
  /\ IsFile(d) /\ Writable(desc[d].mode)
  /\ host' = Written(host, desc[d].file, desc[d].pos, b)
  /\ desc' = Advance(desc, d)
  /\ Reply(s, "OK", 1)

LEMMA WriteFileIs ==
  ASSUME NEW s, NEW fd, NEW b, WriteFile(s, fd, b)
  PROVE  /\ UNCHANGED sess
         /\ \/ fd \notin DOMAIN sess[s].files /\ Reply(s, "BADF", 0) /\ UNCHANGED <<desc, host>>
            \/ Reply(s, "IO", 0) /\ UNCHANGED <<desc, host>>
            \/ Writes(s, fd, b)
BY DEF WriteFile, Writes, Advance

LEMMA WriteFileOk ==
  ASSUME TypeInv, NEW s \in 1 .. Len(sess), NEW fd, NEW b \in Blocks, WriteFile(s, fd, b),
         UNCHANGED sessions
  PROVE  DownOk' /\ SessOk' /\ DescOk' /\ Len(sess') = Len(sess)
<1>1. UNCHANGED sess /\ SessOk'
  BY WriteFileIs DEF TypeInv, SessOk
<1>2. CASE (\E code \in Codes : Reply(s, code, 0)) /\ UNCHANGED <<desc, host>>
  <2>1. DownOk'
    BY <1>2, ReplyOk DEF TypeInv
  <2> QED BY <1>1, <1>2, <2>1 DEF TypeInv, DescOk
<1>3. CASE Writes(s, fd, b)
  <2> DEFINE d == sess[s].files[fd].host
  <2>1. /\ IsFile(d) /\ host' = Written(host, desc[d].file, desc[d].pos, b)
        /\ desc' = Advance(desc, d) /\ Reply(s, "OK", 1)
    BY <1>3 DEF Writes
  <2> HIDE DEF d
  <2>2. DownOk'
    BY <2>1, ReplyOk DEF TypeInv, Codes
  <2>3. d \in DOMAIN desc /\ desc[d].file \in 1 .. Len(host.data) /\ desc[d].pos \in Nat
    BY <2>1, FileParts DEF TypeInv
  <2>4. Grown(host, host')
    BY <2>1, <2>3, WrittenOk DEF TypeInv, DescOk
  <2>5. DescOk'
    BY <2>1, <2>3, <2>4, MovedOk DEF TypeInv
  <2> QED BY <1>1, <2>2, <2>5
<1> QED BY <1>1, <1>2, <1>3, WriteFileIs DEF Codes

(* The parts of an answer to a fetch.                                      *)
Resumes(s, pr, m) ==
  \/ ~m.ok /\ Reply(s, "IO", 0) /\ UNCHANGED <<sess, desc, host>>
  \/ m.ok /\ pr.op = "open" /\ OpenFile(s, m.r.name, pr.flags)
  \/ m.ok /\ pr.op = "opendir" /\ OpenDir(s, m.r.name)
  \/ m.ok /\ pr.op = "mkdir" /\ MkdirPath(s, m.r.name)
  \/ m.ok /\ pr.op = "unlink" /\ UnlinkPath(s, m.r.name)
  \/ m.ok /\ pr.op = "write" /\ WriteFile(s, pr.fd, m.by)
  \/ m.ok /\ pr.op = "read" /\ UNCHANGED <<sess, desc, host, toCpu>>

LEMMA ReadRespIs ==
  ASSUME NEW m, HandleReadResp(m), m.id \in DOMAIN pending
  PROVE  /\ pending' = Without(pending, {m.id}) /\ UNCHANGED sessions
         /\ Resumes(pending[m.id].s, pending[m.id], m)
BY DEF HandleReadResp, Resumes

LEMMA ReadRespOk ==
  ASSUME TypeInv, NEW c, NEW m \in Up(c), HandleReadResp(m)
  PROVE  DownOk' /\ FsOk'
<1>1. CASE m.id \notin DOMAIN pending
  <2>1. UNCHANGED <<fsVars, toCpu>>
    BY <1>1 DEF HandleReadResp
  <2> QED BY <2>1 DEF TypeInv, FsOk, SessOk, PendOk, DescOk, Deferred, DownOk, fsVars
<1>2. CASE m.id \in DOMAIN pending
  <2>1. PICK s, pr : s = pending[m.id].s /\ pr = pending[m.id]
    OBVIOUS
  <2>2. s \in 1 .. Len(sess) /\ pr.flags \in Flags
    BY <1>2, <2>1, PendingParts DEF TypeInv
  <2>3. pending' = Without(pending, {m.id}) /\ UNCHANGED sessions /\ Resumes(s, pr, m)
    BY <1>2, <2>1, ReadRespIs
  <2>4. m.t = "bytes" /\ m \in Packet /\ (m.ok => m.r \in Requests)
    BY DEF HandleReadResp, Up
  <2>5. m.by \in Blocks /\ (m.ok => m.r.name \in Names)
    BY <2>4, PacketParts, RequestParts, ProgramsAssumption
  <2>6. DownOk' /\ SessOk' /\ DescOk' /\ Len(sess') = Len(sess)
    <3>1. CASE ~m.ok /\ Reply(s, "IO", 0) /\ UNCHANGED <<sess, desc, host>>
      <4>1. DownOk'
        BY <2>2, <3>1, ReplyOk DEF TypeInv, Codes
      <4> QED BY <2>3, <3>1, <4>1 DEF TypeInv, SessOk, DescOk
    <3>2. CASE m.ok /\ OpenFile(s, m.r.name, pr.flags)
      BY <2>2, <2>3, <2>5, <3>2, OpenFileOk
    <3>3. CASE m.ok /\ OpenDir(s, m.r.name)
      BY <2>2, <2>3, <2>5, <3>3, OpenDirOk
    <3>4. CASE m.ok /\ (MkdirPath(s, m.r.name) \/ UnlinkPath(s, m.r.name))
      BY <2>2, <2>3, <2>5, <3>4, NamePathOk
    <3>5. CASE m.ok /\ WriteFile(s, pr.fd, m.by)
      BY <2>2, <2>3, <2>5, <3>5, WriteFileOk
    <3>6. CASE UNCHANGED <<sess, desc, host, toCpu>>
      BY <2>3, <3>6 DEF TypeInv, SessOk, DescOk, DownOk
    <3> QED BY <2>3, <3>1, <3>2, <3>3, <3>4, <3>5, <3>6 DEF Resumes
  <2>7. pending' \in Partial(TransIds, Deferred)
    BY <2>3, PartialWithout DEF TypeInv, PendOk
  <2>8. Len(sess) \in Nat
    BY SeqParts DEF TypeInv, SessOk
  <2>9. PendOk'
    BY <2>6, <2>7, <2>8, PendGrows
  <2> QED BY <2>6, <2>9 DEF FsOk
<1> QED BY <1>1, <1>2

LEMMA WriteRespOk ==
  ASSUME TypeInv, NEW m, HandleWriteResp(m)
  PROVE  DownOk' /\ FsOk'
<1>1. CASE m.id \notin DOMAIN pending
  <2>1. UNCHANGED <<fsVars, toCpu>>
    BY <1>1 DEF HandleWriteResp
  <2> QED BY <2>1 DEF TypeInv, FsOk, SessOk, PendOk, DescOk, Deferred, DownOk, fsVars
<1>2. CASE m.id \in DOMAIN pending
  <2>1. PICK s : s = pending[m.id].s
    OBVIOUS
  <2>2. s \in 1 .. Len(sess)
    BY <1>2, <2>1, PendingParts DEF TypeInv
  <2>3. /\ pending' = Without(pending, {m.id}) /\ UNCHANGED <<sessions, sess, desc, host>>
        /\ Reply(s, "OK", 1) \/ Reply(s, "IO", 0) \/ UNCHANGED toCpu
    BY <1>2, <2>1 DEF HandleWriteResp
  <2>4. DownOk'
    BY <2>2, <2>3, ReplyOk DEF TypeInv, DownOk, Codes
  <2>5. pending' \in Partial(TransIds, Deferred)
    BY <2>3, PartialWithout DEF TypeInv, PendOk
  <2>6. Len(sess) \in Nat
    BY SeqParts DEF TypeInv, SessOk
  <2>7. PendOk'
    BY <2>3, <2>5, <2>6, PendGrows
  <2> QED BY <2>3, <2>4, <2>7 DEF TypeInv, FsOk, SessOk, DescOk
<1> QED BY <1>1, <1>2

LEMMA SessionsForOk ==
  ASSUME SessOk, NEW p \in Programs, NEW s \in SessionsFor(p)
  PROVE  s \in 1 .. Len(sess)
BY DEF SessOk, SessionsFor

LEMMA PacketTypes ==
  ASSUME TypeInv, NEW c \in Cpus, HandlePacket(c)
  PROVE  TypeInv'
<1>1. PICK m : m = Head(toFs[c])
  OBVIOUS
<1>2. /\ toFs[c] # <<>> /\ toFs' = [toFs EXCEPT ![c] = Tail(toFs[c])] /\ UNCHANGED progVars
      /\ HandleSend(m) \/ HandleReadResp(m) \/ HandleWriteResp(m)
  BY <1>1 DEF HandlePacket
<1>3. toFs[c] \in Seq(Up(c))
  BY DEF TypeInv, UpOk
<1>4. m \in Up(c) /\ Tail(toFs[c]) \in Seq(Up(c))
  BY <1>1, <1>2, <1>3, SeqParts
<1>5. UpOk'
  BY <1>2, <1>4, UpSet DEF TypeInv
<1>6. m.by \in Programs /\ (m.t = "req" => m.r \in Requests)
  BY <1>4, PacketParts DEF Up
<1>7. DownOk' /\ FsOk'
  <2>1. CASE HandleSend(m)
    <3>1. CASE UNCHANGED <<fsVars, toCpu>>
      BY <3>1 DEF TypeInv, FsOk, SessOk, PendOk, DescOk, Deferred, DownOk, fsVars
    <3>2. CASE m.t = "req" /\ \E s \in SessionsFor(m.by) : Dispatch(s, m.by, m.r)
      BY <1>6, <3>2, SessionsForOk, DispatchOk DEF TypeInv
    <3> QED BY <1>6, <2>1, <3>1, <3>2, SubscribeOk, UnsubscribeOk DEF HandleSend
  <2>2. CASE HandleReadResp(m)
    BY <1>4, <2>2, ReadRespOk
  <2>3. CASE HandleWriteResp(m)
    BY <2>3, WriteRespOk
  <2> QED BY <1>2, <2>1, <2>2, <2>3
<1>8. ProgOk' /\ MailOk'
  BY <1>2 DEF TypeInv, ProgOk, MailOk, progVars
<1> QED BY <1>5, <1>7, <1>8 DEF TypeInv, FsOk

-----------------------------------------------------------------------------
LEMMA TypeFirst == Init => TypeInv
<1> SUFFICES ASSUME Init PROVE TypeInv
  OBVIOUS
<1>1. Nothing \in Chunk
  BY DEF Nothing, Chunk
<1>2. ProgOk
  BY <1>1 DEF Init, ProgOk
<1>3. MailOk /\ UpOk /\ DownOk
  BY EmptySeq DEF Init, MailOk, UpOk, DownOk
<1>4. SessOk
  BY EmptySeq DEF Init, SessOk
<1>5. PendOk
  BY PartialEmpty DEF Init, PendOk
<1>6. DescOk
  <2>1. desc \in Partial(Descs, Desc) /\ DOMAIN desc = {} /\ host = FirstHost
    BY PartialEmpty DEF Init
  <2> QED BY <2>1, FirstOk DEF DescOk
<1> QED BY <1>2, <1>3, <1>4, <1>5, <1>6 DEF TypeInv

LEMMA TypeStep == TypeInv /\ [Next]_vars => TypeInv'
<1> SUFFICES ASSUME TypeInv, [Next]_vars PROVE TypeInv'
  OBVIOUS
<1>1. CASE UNCHANGED vars
  BY <1>1 DEF vars, TypeInv, ProgOk, MailOk, UpOk, DownOk, SessOk, PendOk, DescOk, Deferred
<1>2. CASE Next
  BY <1>2, ProgramTypes, CpuTypes, AnswerTypes, PacketTypes DEF Next
<1> QED BY <1>1, <1>2

-----------------------------------------------------------------------------
(* Where a program's packets are in a queue, and whether it has a session  *)
(* when the first n packets of the queue have been handled.                *)
OwnCall(m, p) == m.by = p /\ m.t \notin {"sub", "unsub"}
OwnSub(m, p) == m.by = p /\ m.t = "sub"
Free(q, p) == \A k \in 1 .. Len(q) : ~OwnCall(q[k], p)
Sole(q, p, i) == i \in 1 .. Len(q) /\ \A k \in 1 .. Len(q) : OwnCall(q[k], p) <=> k = i

Member(q, p, n, has) ==
  \/ has /\ \A k \in 1 .. n : q[k].t # "unsub"
  \/ \E j \in 1 .. n : OwnSub(q[j], p) /\ \A k \in j .. n : q[k].t # "unsub"
Quiet(q, p, n) == \A k \in n + 1 .. Len(q) : q[k].t # "unsub" /\ ~OwnSub(q[k], p)
Settled(q, p, n, has) == Member(q, p, n, has) /\ Quiet(q, p, n)

(* A queue changes as far as a program does not notice.                    *)
KeepsUp(u, v, p, has, now) ==
  /\ Free(u, p) => Free(v, p)
  /\ \A i : Sole(u, p, i) =>
       \E j : /\ Sole(v, p, j) /\ v[j] = u[i]
              /\ Settled(u, p, i, has) => Settled(v, p, j, now)
  /\ Settled(u, p, 0, has) => Settled(v, p, 0, now)
  /\ Member(u, p, Len(u), has) => Member(v, p, Len(v), now)
KeepsDown(u, v, p) ==
  /\ Free(u, p) => Free(v, p)
  /\ \A i : Sole(u, p, i) => \E j : Sole(v, p, j) /\ v[j] = u[i]

LEMMA QueueSame ==
  ASSUME NEW u, NEW p, NEW has \in BOOLEAN
  PROVE  KeepsUp(u, u, p, has, has) /\ KeepsDown(u, u, p)
BY DEF KeepsUp, KeepsDown

LEMMA QueueAppend ==
  ASSUME NEW S, NEW u \in Seq(S), NEW m \in S, NEW p, ~OwnCall(m, p)
  PROVE  /\ Free(u, p) => Free(Append(u, m), p)
         /\ \A i : Sole(u, p, i) => Sole(Append(u, m), p, i) /\ Append(u, m)[i] = u[i]
<1> DEFINE v == Append(u, m)
<1>1. /\ Len(u) \in Nat /\ Len(v) = Len(u) + 1
      /\ \A i \in 1 .. Len(u) : v[i] = u[i]
      /\ v[Len(u) + 1] = m
  BY SeqParts
<1> HIDE DEF v
<1>2. Free(u, p) => Free(v, p)
  BY <1>1 DEF Free
<1>3. \A i : Sole(u, p, i) => Sole(v, p, i) /\ v[i] = u[i]
  BY <1>1 DEF Sole
<1> QED BY <1>2, <1>3 DEF v

LEMMA QueueAppendOwn ==
  ASSUME NEW S, NEW u \in Seq(S), NEW m \in S, NEW p, OwnCall(m, p), Free(u, p)
  PROVE  /\ Sole(Append(u, m), p, Len(u) + 1) /\ Append(u, m)[Len(u) + 1] = m
<1> DEFINE v == Append(u, m)
<1>1. /\ Len(u) \in Nat /\ Len(v) = Len(u) + 1
      /\ \A i \in 1 .. Len(u) : v[i] = u[i]
      /\ v[Len(u) + 1] = m
  BY SeqParts
<1> HIDE DEF v
<1>2. Sole(v, p, Len(u) + 1)
  BY <1>1 DEF Free, Sole
<1> QED BY <1>1, <1>2 DEF v

LEMMA QueueTail ==
  ASSUME NEW S, NEW u \in Seq(S), u # <<>>, NEW p, ~OwnCall(u[1], p)
  PROVE  /\ Free(u, p) => Free(Tail(u), p)
         /\ \A i : Sole(u, p, i) => i > 1 /\ Sole(Tail(u), p, i - 1) /\ Tail(u)[i - 1] = u[i]
<1> DEFINE v == Tail(u)
<1>1. /\ Len(u) \in Nat /\ Len(u) >= 1 /\ Len(v) = Len(u) - 1
      /\ \A i \in 1 .. Len(u) - 1 : v[i] = u[i + 1]
  BY SeqParts
<1> HIDE DEF v
<1>2. Free(u, p) => Free(v, p)
  BY <1>1 DEF Free
<1>3. ASSUME NEW i, Sole(u, p, i)
      PROVE  i > 1 /\ Sole(v, p, i - 1) /\ v[i - 1] = u[i]
  <2>1. i \in 1 .. Len(u) /\ i # 1
    BY <1>1, <1>3 DEF Sole
  <2>2. ASSUME NEW k \in 1 .. Len(v) PROVE OwnCall(v[k], p) <=> k = i - 1
    BY <1>1, <1>3, <2>1 DEF Sole
  <2>3. v[i - 1] = u[i] /\ i - 1 \in 1 .. Len(v)
    BY <1>1, <2>1
  <2> QED BY <1>1, <2>1, <2>2, <2>3 DEF Sole
<1> QED BY <1>2, <1>3 DEF v

LEMMA QueueTailOwn ==
  ASSUME NEW S, NEW u \in Seq(S), u # <<>>, NEW p, OwnCall(u[1], p), NEW i, Sole(u, p, i)
  PROVE  i = 1 /\ Free(Tail(u), p)
<1> DEFINE v == Tail(u)
<1>1. /\ Len(u) \in Nat /\ Len(u) >= 1 /\ Len(v) = Len(u) - 1
      /\ \A k \in 1 .. Len(u) - 1 : v[k] = u[k + 1]
  BY SeqParts
<1> HIDE DEF v
<1>2. i = 1
  BY <1>1 DEF Sole
<1>3. Free(v, p)
  <2> SUFFICES ASSUME NEW k \in 1 .. Len(v) PROVE ~OwnCall(v[k], p)
    BY DEF Free
  <2>1. k + 1 \in 1 .. Len(u) /\ k + 1 # 1 /\ v[k] = u[k + 1]
    BY <1>1
  <2> QED BY <1>2, <2>1 DEF Sole
<1> QED BY <1>2, <1>3 DEF v

LEMMA MemberAppend ==
  ASSUME NEW S, NEW u \in Seq(S), NEW m \in S, NEW p, NEW has \in BOOLEAN, m.t # "unsub"
  PROVE  /\ \A n \in 0 .. Len(u) : Member(u, p, n, has) => Member(Append(u, m), p, n, has)
         /\ Member(u, p, Len(u), has) => Member(Append(u, m), p, Len(u) + 1, has)
         /\ ~OwnSub(m, p) => \A n \in 0 .. Len(u) : Quiet(u, p, n) => Quiet(Append(u, m), p, n)
<1> DEFINE v == Append(u, m)
<1>1. /\ Len(u) \in Nat /\ Len(v) = Len(u) + 1
      /\ \A i \in 1 .. Len(u) : v[i] = u[i]
      /\ v[Len(u) + 1] = m
  BY SeqParts
<1> HIDE DEF v
<1>2. ASSUME NEW n \in 0 .. Len(u), Member(u, p, n, has) PROVE Member(v, p, n, has)
  <2>1. CASE has /\ \A k \in 1 .. n : u[k].t # "unsub"
    BY <1>1, <2>1 DEF Member
  <2>2. CASE \E j \in 1 .. n : OwnSub(u[j], p) /\ \A k \in j .. n : u[k].t # "unsub"
    <3>1. PICK j \in 1 .. n : OwnSub(u[j], p) /\ \A k \in j .. n : u[k].t # "unsub"
      BY <2>2
    <3>2. OwnSub(v[j], p) /\ \A k \in j .. n : v[k].t # "unsub"
      BY <1>1, <3>1
    <3> QED BY <3>2 DEF Member
  <2> QED BY <1>2, <2>1, <2>2 DEF Member
<1>3. ASSUME Member(u, p, Len(u), has) PROVE Member(v, p, Len(u) + 1, has)
  <2>1. CASE has /\ \A k \in 1 .. Len(u) : u[k].t # "unsub"
    BY <1>1, <2>1 DEF Member
  <2>2. CASE \E j \in 1 .. Len(u) : OwnSub(u[j], p) /\ \A k \in j .. Len(u) : u[k].t # "unsub"
    <3>1. PICK j \in 1 .. Len(u) : OwnSub(u[j], p) /\ \A k \in j .. Len(u) : u[k].t # "unsub"
      BY <2>2
    <3>2. OwnSub(v[j], p) /\ (\A k \in j .. Len(u) + 1 : v[k].t # "unsub") /\ j \in 1 .. Len(u) + 1
      BY <1>1, <3>1
    <3> QED BY <3>2 DEF Member
  <2> QED BY <1>3, <2>1, <2>2 DEF Member
<1>4. ASSUME ~OwnSub(m, p), NEW n \in 0 .. Len(u), Quiet(u, p, n) PROVE Quiet(v, p, n)
  BY <1>1, <1>4 DEF Quiet
<1> QED BY <1>2, <1>3, <1>4 DEF v

(* The head of the queue is handled.                                       *)
Noted(m, p, has, now) ==
  /\ OwnSub(m, p) => now
  /\ ~OwnSub(m, p) /\ m.t # "unsub" => now = has

LEMMA MemberTail ==
  ASSUME NEW S, NEW u \in Seq(S), u # <<>>, NEW p, NEW has \in BOOLEAN, NEW now \in BOOLEAN,
         Noted(u[1], p, has, now)
  PROVE  /\ \A n \in 1 .. Len(u) : Member(u, p, n, has) => Member(Tail(u), p, n - 1, now)
         /\ \A n \in 1 .. Len(u) : Quiet(u, p, n) => Quiet(Tail(u), p, n - 1)
         /\ Quiet(u, p, 0) => Quiet(Tail(u), p, 0) /\ now = has
<1> DEFINE v == Tail(u)
<1>1. /\ Len(u) \in Nat /\ Len(u) >= 1 /\ Len(v) = Len(u) - 1
      /\ \A i \in 1 .. Len(u) - 1 : v[i] = u[i + 1]
  BY SeqParts
<1> HIDE DEF v
<1>2. ASSUME NEW n \in 1 .. Len(u), Member(u, p, n, has) PROVE Member(v, p, n - 1, now)
  <2>1. CASE has /\ \A k \in 1 .. n : u[k].t # "unsub"
    <3>1. \A k \in 1 .. n - 1 : v[k].t # "unsub"
      <4> TAKE k \in 1 .. n - 1
      <4>1. v[k] = u[k + 1] /\ k + 1 \in 1 .. n
        BY <1>1
      <4> QED BY <2>1, <4>1
    <3>2. u[1].t # "unsub"
      BY <2>1
    <3>3. now
      BY <2>1, <3>2 DEF Noted
    <3> QED BY <3>1, <3>3 DEF Member
  <2>2. CASE \E j \in 1 .. n : OwnSub(u[j], p) /\ \A k \in j .. n : u[k].t # "unsub"
    <3>1. PICK j \in 1 .. n : OwnSub(u[j], p) /\ \A k \in j .. n : u[k].t # "unsub"
      BY <2>2
    <3>2. CASE j = 1
      <4>1. \A k \in 1 .. n - 1 : v[k].t # "unsub"
        <5> TAKE k \in 1 .. n - 1
        <5>1. v[k] = u[k + 1] /\ k + 1 \in j .. n
          BY <1>1, <3>2
        <5> QED BY <3>1, <5>1
      <4>2. now
        BY <3>1, <3>2 DEF Noted
      <4> QED BY <4>1, <4>2 DEF Member
    <3>3. CASE j # 1
      <4>1. j - 1 \in 1 .. n - 1 /\ v[j - 1] = u[j]
        BY <1>1, <3>3
      <4>2. \A k \in j - 1 .. n - 1 : v[k].t # "unsub"
        <5> TAKE k \in j - 1 .. n - 1
        <5>1. v[k] = u[k + 1] /\ k + 1 \in j .. n
          BY <1>1, <4>1
        <5> QED BY <3>1, <5>1
      <4> QED BY <3>1, <4>1, <4>2 DEF Member
    <3> QED BY <3>2, <3>3
  <2> QED BY <1>2, <2>1, <2>2 DEF Member
<1>3. ASSUME NEW n \in 1 .. Len(u), Quiet(u, p, n) PROVE Quiet(v, p, n - 1)
  <2> SUFFICES ASSUME NEW k \in n .. Len(v) PROVE v[k].t # "unsub" /\ ~OwnSub(v[k], p)
    BY DEF Quiet
  <2>1. v[k] = u[k + 1] /\ k + 1 \in n + 1 .. Len(u)
    BY <1>1
  <2> QED BY <1>3, <2>1 DEF Quiet
<1>4. ASSUME Quiet(u, p, 0) PROVE Quiet(v, p, 0) /\ now = has
  <2>1. \A k \in 1 .. Len(u) : u[k].t # "unsub" /\ ~OwnSub(u[k], p)
    BY <1>4 DEF Quiet
  <2>2. ASSUME NEW k \in 1 .. Len(v) PROVE v[k].t # "unsub" /\ ~OwnSub(v[k], p)
    <3>1. v[k] = u[k + 1] /\ k + 1 \in 1 .. Len(u)
      BY <1>1
    <3> QED BY <2>1, <3>1
  <2>3. now = has
    BY <1>1, <2>1 DEF Noted
  <2> QED BY <2>2, <2>3 DEF Quiet
<1> QED BY <1>2, <1>3, <1>4 DEF v

LEMMA MemberNone ==
  ASSUME NEW q, NEW p, NEW has \in BOOLEAN
  PROVE  Member(q, p, 0, has) <=> has
<1>1. 1 .. 0 = {}
  OBVIOUS
<1> QED BY <1>1, Zenon DEF Member

LEMMA KeepsAppend ==
  ASSUME NEW S, NEW u \in Seq(S), NEW m \in S, NEW p, NEW has \in BOOLEAN, ~OwnCall(m, p)
  PROVE  /\ KeepsDown(u, Append(u, m), p)
         /\ m.t # "unsub" /\ ~OwnSub(m, p) => KeepsUp(u, Append(u, m), p, has, has)
<1> DEFINE v == Append(u, m)
<1>1. /\ Free(u, p) => Free(v, p)
      /\ \A i : Sole(u, p, i) => Sole(v, p, i) /\ v[i] = u[i]
      /\ Len(u) \in Nat /\ Len(v) = Len(u) + 1
  <2>1. Len(u) \in Nat /\ Len(v) = Len(u) + 1
    BY SeqParts
  <2> QED BY <2>1, QueueAppend
<1>2. KeepsDown(u, v, p)
  <2> HIDE DEF v
  <2> QED BY <1>1 DEF KeepsDown
<1>3. ASSUME m.t # "unsub", ~OwnSub(m, p) PROVE KeepsUp(u, v, p, has, has)
  <2>1. /\ \A n \in 0 .. Len(u) : Member(u, p, n, has) => Member(v, p, n, has)
        /\ Member(u, p, Len(u), has) => Member(v, p, Len(u) + 1, has)
        /\ \A n \in 0 .. Len(u) : Quiet(u, p, n) => Quiet(v, p, n)
    BY <1>3, MemberAppend
  <2> HIDE DEF v
  <2>2. \A n \in 0 .. Len(u) : Settled(u, p, n, has) => Settled(v, p, n, has)
    BY <2>1 DEF Settled
  <2>3. \A i : Sole(u, p, i) => i \in 0 .. Len(u)
    BY <1>1 DEF Sole
  <2> QED BY <1>1, <2>1, <2>2, <2>3 DEF KeepsUp
<1> QED BY <1>2, <1>3

LEMMA KeepsTail ==
  ASSUME NEW S, NEW u \in Seq(S), u # <<>>, NEW p, NEW has \in BOOLEAN, NEW now \in BOOLEAN,
         ~OwnCall(u[1], p)
  PROVE  /\ KeepsDown(u, Tail(u), p)
         /\ Noted(u[1], p, has, now) => KeepsUp(u, Tail(u), p, has, now)
<1> DEFINE v == Tail(u)
<1>1. /\ Free(u, p) => Free(v, p)
      /\ \A i : Sole(u, p, i) => i > 1 /\ Sole(v, p, i - 1) /\ v[i - 1] = u[i]
      /\ Len(u) \in Nat /\ Len(u) >= 1 /\ Len(v) = Len(u) - 1
  <2>1. Len(u) \in Nat /\ Len(u) >= 1 /\ Len(v) = Len(u) - 1
    BY SeqParts
  <2> QED BY <2>1, QueueTail
<1>2. KeepsDown(u, v, p)
  <2> HIDE DEF v
  <2> QED BY <1>1 DEF KeepsDown
<1>3. ASSUME Noted(u[1], p, has, now)
      PROVE  KeepsUp(u, v, p, has, now)
  <2>1. /\ \A n \in 1 .. Len(u) : Member(u, p, n, has) => Member(v, p, n - 1, now)
        /\ \A n \in 1 .. Len(u) : Quiet(u, p, n) => Quiet(v, p, n - 1)
        /\ Quiet(u, p, 0) => Quiet(v, p, 0) /\ now = has
    BY <1>3, MemberTail
  <2> HIDE DEF v
  <2>2. \A n \in 1 .. Len(u) : Settled(u, p, n, has) => Settled(v, p, n - 1, now)
    BY <2>1 DEF Settled
  <2>3. \A i : Sole(u, p, i) => i \in 1 .. Len(u)
    BY DEF Sole
  <2>4. Settled(u, p, 0, has) => Settled(v, p, 0, now)
    BY <2>1, MemberNone DEF Settled
  <2>5. Member(u, p, Len(u), has) => Member(v, p, Len(v), now)
    BY <1>1, <2>1
  <2> QED BY <1>1, <2>2, <2>3, <2>4, <2>5 DEF KeepsUp
<1> QED BY <1>2, <1>3

-----------------------------------------------------------------------------
(* Where a call can be: with the program, on its way to the service, with  *)
(* the processor, or answered.  What was put aside for it is the program's *)
(* own, for the session the program has.                                   *)
Fs(p) == toFs[Home[p]]
Cpu(p) == toCpu[Home[p]]
Has(p) == sessions[p] # None

PutAside(p, m) ==
  /\ m.id \in DOMAIN pending
  /\ pending[m.id] = [op |-> call[p].op, s |-> sessions[p], fd |-> call[p].fd,
                      flags |-> call[p].flags]
  /\ call[p].op \in {"open", "opendir"} =>
       Cardinality(DOMAIN sess[sessions[p]].files) < MaxFds
  /\ call[p].arg # "null"
Proper(p, m) ==
  /\ call[p] # None
  /\ m.t = "req" => m.r = call[p]
  /\ m.t \in {"fetch", "bytes"} => PutAside(p, m) /\ call[p].op \notin {"read", "close"}
  /\ m.t \in {"land", "landed"} => PutAside(p, m) /\ call[p].op = "read"
  /\ m.t = "bytes" /\ m.ok => m.r = call[p]
  /\ m.t = "landed" /\ m.ok => buf[p] = m.block

Idle(p) ==
  /\ Free(Fs(p), p) /\ Free(Cpu(p), p) /\ mbox[p] = <<>>
  /\ prog[p] # "wait"
  /\ prog[p] = "run" => Member(Fs(p), p, Len(Fs(p)), Has(p))
AskedAt(p, i) ==
  /\ Sole(Fs(p), p, i) /\ Proper(p, Fs(p)[i])
  /\ Settled(Fs(p), p, IF Fs(p)[i].t = "req" THEN i ELSE 0, Has(p))
Asked(p) ==
  /\ Free(Cpu(p), p) /\ mbox[p] = <<>> /\ prog[p] \in {"wait", "dead"}
  /\ \E i : AskedAt(p, i)
Served(p) ==
  /\ Free(Fs(p), p) /\ mbox[p] = <<>> /\ prog[p] \in {"wait", "dead"}
  /\ Settled(Fs(p), p, 0, Has(p))
  /\ \E i : Sole(Cpu(p), p, i) /\ Proper(p, Cpu(p)[i])
Told(p) ==
  /\ Free(Fs(p), p) /\ Free(Cpu(p), p) /\ prog[p] = "wait"
  /\ Len(mbox[p]) = 1 /\ Proper(p, mbox[p][1])
  /\ Settled(Fs(p), p, 0, Has(p))
Situation(p) == Idle(p) \/ Asked(p) \/ Served(p) \/ Told(p)

(* The sessions in use are their programs' own, none has more files than   *)
(* the limit, and their descriptors are open, each for one of them.        *)
SessInv ==
  /\ \A p \in Programs : Has(p) => sess[sessions[p]].box = p
  /\ \A s \in 1 .. Len(sess) : /\ IsFiniteSet(DOMAIN sess[s].files)
                               /\ Cardinality(DOMAIN sess[s].files) <= MaxFds
Held(p, fd, d) ==
  Has(p) /\ fd \in DOMAIN sess[sessions[p]].files /\ d = sess[sessions[p]].files[fd].host
DescInv ==
  \A p, q \in Programs, fd, g \in Nat, d \in Descs :
    Held(p, fd, d) => d \in DOMAIN desc /\ (Held(q, g, d) => p = q /\ fd = g)
CallInv == \A p \in Programs : Situation(p)
Inv == TypeInv /\ SessInv /\ DescInv /\ CallInv

(* A step that a program does not notice.                                  *)
OnQueues(m, c) ==
  \/ \E i \in 1 .. Len(toFs[c]) : toFs[c][i] = m
  \/ \E i \in 1 .. Len(toCpu[c]) : toCpu[c][i] = m
Stays(p) ==
  /\ KeepsUp(Fs(p), Fs(p)', p, Has(p), Has(p)')
  /\ KeepsDown(Cpu(p), Cpu(p)', p)
  /\ mbox'[p] = mbox[p] /\ prog'[p] = prog[p] /\ call'[p] = call[p] /\ buf'[p] = buf[p]
  /\ \A m : /\ OwnCall(m, p) /\ OnQueues(m, Home[p])
            /\ Settled(Fs(p), p, 0, Has(p)) /\ PutAside(p, m)
            => PutAside(p, m)'

LEMMA ProperStays ==
  ASSUME NEW p, NEW m, Proper(p, m), call'[p] = call[p], buf'[p] = buf[p],
         PutAside(p, m) => PutAside(p, m)'
  PROVE  Proper(p, m)'
BY DEF Proper

(* Which packets can be where.                                             *)
LEMMA UpKinds ==
  ASSUME UpOk, NEW p \in Programs, NEW i \in 1 .. Len(Fs(p))
  PROVE  /\ Fs(p)[i] \in Up(Home[p])
         /\ OwnCall(Fs(p)[i], p) => Fs(p)[i].t \in {"req", "bytes", "landed"}
<1>1. Fs(p) \in Seq(Up(Home[p]))
  BY ProgramsAssumption DEF Fs, UpOk
<1>2. Fs(p)[i] \in Up(Home[p])
  BY <1>1, SeqParts
<1> QED BY <1>2 DEF Up, OwnCall

LEMMA DownKinds ==
  ASSUME DownOk, NEW p \in Programs, NEW i \in 1 .. Len(Cpu(p))
  PROVE  /\ Cpu(p)[i] \in Down(Home[p])
         /\ Cpu(p)[i].t \in {"fetch", "land", "reply"}
<1>1. Cpu(p) \in Seq(Down(Home[p]))
  BY ProgramsAssumption DEF Cpu, DownOk
<1>2. Cpu(p)[i] \in Down(Home[p])
  BY <1>1, SeqParts
<1> QED BY <1>2 DEF Down

LEMMA SituationStays ==
  ASSUME TypeInv, NEW p \in Programs, Situation(p), Stays(p)
  PROVE  Situation(p)'
<1>1. /\ Free(Fs(p), p) => Free(Fs(p)', p)
      /\ \A i : Sole(Fs(p), p, i) =>
           \E j : /\ Sole(Fs(p)', p, j) /\ Fs(p)'[j] = Fs(p)[i]
                  /\ Settled(Fs(p), p, i, Has(p)) => Settled(Fs(p)', p, j, Has(p)')
      /\ Settled(Fs(p), p, 0, Has(p)) => Settled(Fs(p)', p, 0, Has(p)')
      /\ Member(Fs(p), p, Len(Fs(p)), Has(p)) => Member(Fs(p)', p, Len(Fs(p)'), Has(p)')
  BY DEF Stays, KeepsUp
<1>2. /\ Free(Cpu(p), p) => Free(Cpu(p)', p)
      /\ \A i : Sole(Cpu(p), p, i) => \E j : Sole(Cpu(p)', p, j) /\ Cpu(p)'[j] = Cpu(p)[i]
  BY DEF Stays, KeepsDown
<1>3. /\ mbox'[p] = mbox[p] /\ prog'[p] = prog[p] /\ call'[p] = call[p] /\ buf'[p] = buf[p]
      /\ \A m : /\ OwnCall(m, p) /\ OnQueues(m, Home[p])
                /\ Settled(Fs(p), p, 0, Has(p)) /\ PutAside(p, m)
                => PutAside(p, m)'
  BY DEF Stays
<1>4. CASE Idle(p)
  <2>1. Idle(p)'
    BY <1>1, <1>2, <1>3, <1>4 DEF Idle
  <2> QED BY <2>1 DEF Situation
<1>5. CASE Asked(p)
  <2>1. PICK i : AskedAt(p, i)
    BY <1>5 DEF Asked
  <2>2. PICK m : m = Fs(p)[i]
    OBVIOUS
  <2>3. Sole(Fs(p), p, i) /\ Proper(p, m)
    BY <2>1, <2>2 DEF AskedAt
  <2>4. PICK j : /\ Sole(Fs(p)', p, j) /\ Fs(p)'[j] = m
                 /\ Settled(Fs(p), p, i, Has(p)) => Settled(Fs(p)', p, j, Has(p)')
    BY <1>1, <2>2, <2>3
  <2>5. i \in 1 .. Len(Fs(p)) /\ OwnCall(m, p) /\ OnQueues(m, Home[p])
    BY <2>2, <2>3 DEF Sole, OnQueues, Fs
  <2>6. CASE m.t = "req"
    <3>1. Settled(Fs(p)', p, j, Has(p)')
      BY <2>1, <2>2, <2>4, <2>6 DEF AskedAt
    <3>2. Proper(p, m)'
      BY <1>3, <2>3, <2>6 DEF Proper
    <3>3. AskedAt(p, j)'
      BY <2>4, <2>6, <3>1, <3>2 DEF AskedAt
    <3> QED BY <1>2, <1>3, <1>5, <3>3 DEF Situation, Asked
  <2>7. CASE m.t # "req"
    <3>1. Settled(Fs(p), p, 0, Has(p))
      BY <2>1, <2>2, <2>7 DEF AskedAt
    <3>2. Proper(p, m)'
      BY <1>3, <2>3, <2>5, <3>1, ProperStays
    <3>3. AskedAt(p, j)'
      BY <1>1, <2>4, <2>7, <3>1, <3>2 DEF AskedAt
    <3> QED BY <1>2, <1>3, <1>5, <3>3 DEF Situation, Asked
  <2> QED BY <2>6, <2>7
<1>6. CASE Served(p)
  <2>1. PICK i : Sole(Cpu(p), p, i) /\ Proper(p, Cpu(p)[i])
    BY <1>6 DEF Served
  <2>2. PICK m : m = Cpu(p)[i]
    OBVIOUS
  <2>3. PICK j : Sole(Cpu(p)', p, j) /\ Cpu(p)'[j] = m
    BY <1>2, <2>1, <2>2
  <2>4. i \in 1 .. Len(Cpu(p)) /\ OwnCall(m, p) /\ OnQueues(m, Home[p])
    BY <2>1, <2>2 DEF Sole, OnQueues, Cpu
  <2>5. Settled(Fs(p), p, 0, Has(p))
    BY <1>6 DEF Served
  <2>6. Proper(p, m)'
    BY <1>3, <2>1, <2>2, <2>4, <2>5, ProperStays
  <2>7. Sole(Cpu(p), p, j)' /\ Proper(p, Cpu(p)[j])'
    BY <2>3, <2>6
  <2>8. /\ Free(Fs(p), p)' /\ mbox'[p] = <<>> /\ prog'[p] \in {"wait", "dead"}
        /\ Settled(Fs(p), p, 0, Has(p))'
    BY <1>1, <1>3, <1>6 DEF Served
  <2> QED BY <2>7, <2>8 DEF Situation, Served
<1>7. CASE Told(p)
  <2>1. mbox[p] \in Seq(Mail(p)) /\ Len(mbox[p]) = 1
    BY <1>7 DEF TypeInv, MailOk, Told
  <2>2. mbox[p][1].t = "reply"
    <3>1. mbox[p][1] \in Mail(p)
      BY <2>1, SeqParts
    <3> QED BY <3>1 DEF Mail
  <2>3. Proper(p, mbox[p][1])'
    BY <1>3, <1>7, <2>2 DEF Told, Proper
  <2>4. /\ Free(Fs(p), p)' /\ Free(Cpu(p), p)' /\ prog'[p] = "wait" /\ Len(mbox'[p]) = 1
        /\ Settled(Fs(p), p, 0, Has(p))'
    BY <1>1, <1>2, <1>3, <1>7 DEF Told
  <2> QED BY <2>3, <2>4 DEF Situation, Told
<1> QED BY <1>4, <1>5, <1>6, <1>7 DEF Situation

-----------------------------------------------------------------------------
(* What others send passes a program by.                                   *)
LEMMA HomeOk ==
  ASSUME TypeInv, NEW p \in Programs
  PROVE  /\ Home[p] \in Cpus /\ Fs(p) \in Seq(Up(Home[p])) /\ Cpu(p) \in Seq(Down(Home[p]))
         /\ Len(Fs(p)) \in Nat /\ Len(Cpu(p)) \in Nat
<1>1. Home[p] \in Cpus /\ Fs(p) \in Seq(Up(Home[p])) /\ Cpu(p) \in Seq(Down(Home[p]))
  BY ProgramsAssumption DEF TypeInv, UpOk, DownOk, Fs, Cpu
<1> QED BY <1>1, SeqParts

LEMMA SentFs ==
  ASSUME TypeInv, NEW p \in Programs, NEW m, SendFs(p, m)
  PROVE  /\ Fs(p)' = Append(Fs(p), m)
         /\ \A q \in Programs : Home[q] # Home[p] => Fs(q)' = Fs(q)
         /\ \A q \in Programs : Home[q] = Home[p] => Fs(q)' = Append(Fs(q), m)
BY ProgramsAssumption DEF TypeInv, UpOk, SendFs, Fs

LEMMA SentCpu ==
  ASSUME TypeInv, NEW p \in Programs, NEW m, SendCpu(p, m)
  PROVE  /\ Cpu(p)' = Append(Cpu(p), m)
         /\ \A q \in Programs : Home[q] # Home[p] => Cpu(q)' = Cpu(q)
         /\ \A q \in Programs : Home[q] = Home[p] => Cpu(q)' = Append(Cpu(q), m)
BY ProgramsAssumption DEF TypeInv, DownOk, SendCpu, Cpu

LEMMA SameQueues ==
  ASSUME NEW q
  PROVE  /\ Fs(q)' = Fs(q) /\ Has(q)' = Has(q) => KeepsUp(Fs(q), Fs(q)', q, Has(q), Has(q)')
         /\ Cpu(q)' = Cpu(q) => KeepsDown(Cpu(q), Cpu(q)', q)
<1>1. PICK has \in BOOLEAN : has = Has(q)
  BY DEF Has
<1>2. KeepsUp(Fs(q), Fs(q), q, has, has) /\ KeepsDown(Cpu(q), Cpu(q), q)
  BY QueueSame
<1> QED BY <1>1, <1>2

LEMMA UpPasses ==
  ASSUME TypeInv, NEW p \in Programs, NEW m \in Up(Home[p]), m.by = p, m.t # "unsub", SendFs(p, m),
         NEW q \in Programs, q # p, sessions' = sessions
  PROVE  KeepsUp(Fs(q), Fs(q)', q, Has(q), Has(q)')
<1>1. Has(q)' = Has(q)
  BY DEF Has
<1>2. CASE Home[q] # Home[p]
  BY <1>1, <1>2, SentFs, SameQueues
<1>3. CASE Home[q] = Home[p]
  <2>1. Fs(q)' = Append(Fs(q), m) /\ Fs(q) \in Seq(Up(Home[p]))
    BY <1>3, SentFs, HomeOk
  <2>2. ~OwnCall(m, q) /\ ~OwnSub(m, q)
    BY DEF OwnCall, OwnSub
  <2>3. PICK u : u = Fs(q) /\ u \in Seq(Up(Home[p]))
    BY <2>1
  <2>4. PICK has \in BOOLEAN : has = Has(q)
    BY DEF Has
  <2>5. KeepsUp(u, Append(u, m), q, has, has)
    BY <2>2, <2>3, KeepsAppend
  <2> QED BY <1>1, <2>1, <2>3, <2>4, <2>5
<1> QED BY <1>2, <1>3

LEMMA DownPasses ==
  ASSUME TypeInv, NEW p \in Programs, NEW m \in Down(Home[p]), m.by = p, SendCpu(p, m),
         NEW q \in Programs, q # p
  PROVE  KeepsDown(Cpu(q), Cpu(q)', q)
<1>1. CASE Home[q] # Home[p]
  BY <1>1, SentCpu, SameQueues
<1>2. CASE Home[q] = Home[p]
  <2>1. Cpu(q)' = Append(Cpu(q), m) /\ Cpu(q) \in Seq(Down(Home[p]))
    BY <1>2, SentCpu, HomeOk
  <2>2. ~OwnCall(m, q)
    BY DEF OwnCall
  <2>3. PICK u : u = Cpu(q) /\ u \in Seq(Down(Home[p]))
    BY <2>1
  <2>4. KeepsDown(u, Append(u, m), q)
    BY <2>2, <2>3, KeepsAppend
  <2> QED BY <2>1, <2>3, <2>4
<1> QED BY <1>1, <1>2

LEMMA PutAsideSame ==
  ASSUME NEW p, NEW m, call'[p] = call[p], UNCHANGED <<sessions, sess, pending>>
  PROVE  PutAside(p, m) => PutAside(p, m)'
BY DEF PutAside

LEMMA InitCalls ==
  ASSUME TypeInv, CallInv, NEW p \in Programs, HfInit(p)
  PROVE  CallInv'
<1> SUFFICES ASSUME NEW q \in Programs PROVE Situation(q)'
  BY DEF CallInv
<1>0. UNCHANGED <<call, buf, mbox, sessions, sess, pending, toCpu>> /\ Situation(q)
  BY DEF HfInit, fsVars, CallInv
<1>1. PICK m : m = FromProgram("sub", p, None)
  OBVIOUS
<1>2. m \in Up(Home[p]) /\ m.t = "sub" /\ m.by = p /\ SendFs(p, m)
  BY <1>1, PacketMade DEF HfInit
<1>3. CASE q # p
  <2>1. KeepsUp(Fs(q), Fs(q)', q, Has(q), Has(q)')
    BY <1>0, <1>2, <1>3, UpPasses
  <2>2. KeepsDown(Cpu(q), Cpu(q)', q)
    BY <1>0, SameQueues DEF Cpu
  <2>3. prog'[q] = prog[q]
    BY <1>3 DEF HfInit, TypeInv, ProgOk
  <2>4. \A n : PutAside(q, n) => PutAside(q, n)'
    BY <1>0, PutAsideSame
  <2>5. Stays(q)
    BY <1>0, <2>1, <2>2, <2>3, <2>4 DEF Stays
  <2> QED BY <1>0, <2>5, SituationStays
<1>4. CASE q = p
  <2>1. prog[p] = "new" /\ prog'[p] = "run"
    BY DEF HfInit, TypeInv, ProgOk
  <2>2. Idle(p)
    BY <1>0, <1>4, <2>1 DEF Situation, Asked, Served, Told
  <2>3. PICK u : u = Fs(p) /\ u \in Seq(Up(Home[p]))
    BY HomeOk
  <2>4. Fs(p)' = Append(u, m) /\ ~OwnCall(m, p) /\ OwnSub(m, p)
    BY <1>2, <2>3, SentFs DEF OwnCall, OwnSub
  <2>5. Free(Append(u, m), p)
    BY <1>2, <2>2, <2>3, <2>4, QueueAppend DEF Idle
  <2>6. Member(Append(u, m), p, Len(Append(u, m)), Has(p)')
    <3>1. Len(u) \in Nat /\ Len(Append(u, m)) = Len(u) + 1 /\ Append(u, m)[Len(u) + 1] = m
      BY <1>2, <2>3, SeqParts
    <3> DEFINE n == Len(u) + 1
    <3>2. n \in 1 .. n /\ \A k \in n .. n : k = n
      BY <3>1
    <3> QED BY <1>2, <2>4, <3>1, <3>2 DEF Member
  <2>7. Free(Cpu(p)', p) /\ mbox'[p] = <<>>
    BY <1>0, <2>2 DEF Idle, Cpu
  <2>8. Idle(p)'
    BY <2>1, <2>4, <2>5, <2>6, <2>7 DEF Idle
  <2> QED BY <1>4, <2>8 DEF Situation
<1> QED BY <1>3, <1>4

LEMMA CallCalls ==
  ASSUME TypeInv, CallInv, NEW p \in Programs, HfCall(p)
  PROVE  CallInv'
<1> SUFFICES ASSUME NEW q \in Programs PROVE Situation(q)'
  BY DEF CallInv
<1>0. UNCHANGED <<mbox, sessions, sess, pending, toCpu>> /\ Situation(q)
  BY DEF HfCall, fsVars, CallInv
<1>1. PICK r \in Asks[p] : call' = [call EXCEPT ![p] = r] /\ SendFs(p, FromProgram("req", p, r))
  BY DEF HfCall
<1>2. PICK m : m = FromProgram("req", p, r)
  OBVIOUS
<1>3. r \in Requests
  BY ProgramsAssumption
<1>4. m \in Up(Home[p]) /\ m.t = "req" /\ m.by = p /\ m.r = r /\ SendFs(p, m)
  BY <1>1, <1>2, <1>3, PacketMade
<1>5. CASE q # p
  <2>1. KeepsUp(Fs(q), Fs(q)', q, Has(q), Has(q)')
    BY <1>0, <1>4, <1>5, UpPasses
  <2>2. KeepsDown(Cpu(q), Cpu(q)', q)
    BY <1>0, SameQueues DEF Cpu
  <2>3. prog'[q] = prog[q] /\ call'[q] = call[q] /\ buf'[q] = buf[q]
    BY <1>1, <1>5 DEF HfCall, TypeInv, ProgOk
  <2>4. \A n : PutAside(q, n) => PutAside(q, n)'
    BY <1>0, <2>3, PutAsideSame
  <2>5. Stays(q)
    BY <1>0, <2>1, <2>2, <2>3, <2>4 DEF Stays
  <2> QED BY <1>0, <2>5, SituationStays
<1>6. CASE q = p
  <2>1. prog[p] = "run" /\ prog'[p] = "wait" /\ call'[p] = r
    BY <1>1 DEF HfCall, TypeInv, ProgOk
  <2>2. Idle(p)
    BY <1>0, <1>6, <2>1 DEF Situation, Asked, Served, Told
  <2>3. PICK u : u = Fs(p) /\ u \in Seq(Up(Home[p]))
    BY HomeOk
  <2>4. Fs(p)' = Append(u, m) /\ OwnCall(m, p) /\ Has(p)' = Has(p)
    BY <1>0, <1>4, <2>3, SentFs DEF OwnCall, Has
  <2>5. Sole(Append(u, m), p, Len(u) + 1) /\ Append(u, m)[Len(u) + 1] = m
    BY <1>4, <2>2, <2>3, <2>4, QueueAppendOwn DEF Idle
  <2>6. Settled(Append(u, m), p, Len(u) + 1, Has(p))
    <3>1. PICK has \in BOOLEAN : has = Has(p)
      BY DEF Has
    <3>2. Member(Append(u, m), p, Len(u) + 1, has)
      BY <1>4, <2>1, <2>2, <2>3, <3>1, MemberAppend DEF Idle
    <3>3. Len(u) \in Nat /\ Len(Append(u, m)) = Len(u) + 1
      BY <1>4, <2>3, SeqParts
    <3>4. Quiet(Append(u, m), p, Len(u) + 1)
      BY <3>3 DEF Quiet
    <3> QED BY <3>1, <3>2, <3>4 DEF Settled
  <2>7. Proper(p, m)'
    BY <1>3, <1>4, <2>1, RequestParts DEF Proper
  <2>8. AskedAt(p, Len(u) + 1)'
    BY <1>4, <2>4, <2>5, <2>6, <2>7 DEF AskedAt
  <2>9. Free(Cpu(p)', p) /\ mbox'[p] = <<>>
    BY <1>0, <2>2 DEF Idle, Cpu
  <2> QED BY <1>6, <2>1, <2>8, <2>9 DEF Situation, Asked
<1> QED BY <1>5, <1>6

(* Nothing of a program but what it does itself changes.                   *)
LEMMA QueuesStay ==
  ASSUME NEW q \in Programs, CallInv, TypeInv, Fs(q)' = Fs(q), Cpu(q)' = Cpu(q),
         UNCHANGED <<sessions, sess, pending>>,
         mbox'[q] = mbox[q], prog'[q] = prog[q], call'[q] = call[q], buf'[q] = buf[q]
  PROVE  Situation(q)'
<1>1. KeepsUp(Fs(q), Fs(q)', q, Has(q), Has(q)') /\ KeepsDown(Cpu(q), Cpu(q)', q)
  BY SameQueues DEF Has
<1>2. \A n : PutAside(q, n) => PutAside(q, n)'
  BY PutAsideSame
<1>3. Stays(q)
  BY <1>1, <1>2 DEF Stays
<1> QED BY <1>3, SituationStays DEF CallInv

LEMMA WaitCalls ==
  ASSUME TypeInv, CallInv, NEW p \in Programs, HfWait(p)
  PROVE  CallInv'
<1> SUFFICES ASSUME NEW q \in Programs PROVE Situation(q)'
  BY DEF CallInv
<1>0. UNCHANGED <<call, buf, toFs, toCpu, sessions, sess, pending>> /\ Situation(q)
  BY DEF HfWait, fsVars, CallInv
<1>1. CASE q # p
  <2>1. prog'[q] = prog[q] /\ mbox'[q] = mbox[q]
    BY <1>1 DEF HfWait, TypeInv, ProgOk, MailOk
  <2>2. Fs(q)' = Fs(q) /\ Cpu(q)' = Cpu(q) /\ call'[q] = call[q] /\ buf'[q] = buf[q]
    BY <1>0 DEF Fs, Cpu
  <2> QED BY <1>0, <2>1, <2>2, QueuesStay
<1>2. CASE q = p
  <2>1. prog[p] = "wait" /\ mbox[p] # <<>> /\ prog'[p] = "run" /\ mbox'[p] = Tail(mbox[p])
    BY DEF HfWait, TypeInv, ProgOk, MailOk
  <2>2. Told(p)
    BY <1>0, <1>2, <2>1 DEF Situation, Idle, Asked, Served
  <2>3. mbox'[p] = <<>>
    <3>1. mbox[p] \in Seq(Mail(p)) /\ Len(mbox[p]) = 1
      BY <2>2 DEF Told, TypeInv, MailOk
    <3>2. Tail(mbox[p]) \in Seq(Mail(p)) /\ Len(Tail(mbox[p])) = 0
      BY <2>1, <3>1, SeqParts
    <3> QED BY <2>1, <3>2, EmptySeq
  <2>4. Member(Fs(p), p, Len(Fs(p)), Has(p))
    <3>1. PICK has \in BOOLEAN : has = Has(p)
      BY DEF Has
    <3>2. has /\ Quiet(Fs(p), p, 0)
      BY <2>2, <3>1, MemberNone DEF Told, Settled
    <3>3. \A k \in 1 .. Len(Fs(p)) : Fs(p)[k].t # "unsub"
      BY <3>2 DEF Quiet
    <3> QED BY <3>1, <3>2, <3>3 DEF Member
  <2>5. Free(Fs(p)', p) /\ Free(Cpu(p)', p) /\ Fs(p)' = Fs(p) /\ Has(p)' = Has(p)
    BY <1>0, <2>2 DEF Told, Fs, Cpu, Has
  <2>6. Idle(p)'
    BY <2>1, <2>3, <2>4, <2>5 DEF Idle
  <2> QED BY <1>2, <2>6 DEF Situation
<1> QED BY <1>1, <1>2

LEMMA DieCalls ==
  ASSUME TypeInv, CallInv, NEW p \in Programs, Die(p)
  PROVE  CallInv'
<1> SUFFICES ASSUME NEW q \in Programs PROVE Situation(q)'
  BY DEF CallInv
<1>0. UNCHANGED <<call, buf, toFs, toCpu, sessions, sess, pending>> /\ Situation(q)
  BY DEF Die, fsVars, CallInv
<1>1. CASE q # p
  <2>1. prog'[q] = prog[q] /\ mbox'[q] = mbox[q]
    BY <1>1 DEF Die, TypeInv, ProgOk, MailOk
  <2>2. Fs(q)' = Fs(q) /\ Cpu(q)' = Cpu(q) /\ call'[q] = call[q] /\ buf'[q] = buf[q]
    BY <1>0 DEF Fs, Cpu
  <2> QED BY <1>0, <2>1, <2>2, QueuesStay
<1>2. CASE q = p
  <2>1. prog'[p] = "dead" /\ mbox'[p] = <<>>
    BY DEF Die, TypeInv, ProgOk, MailOk
  <2>2. Fs(p)' = Fs(p) /\ Cpu(p)' = Cpu(p) /\ Has(p)' = Has(p)
    BY <1>0 DEF Fs, Cpu, Has
  <2>3. CASE Idle(p) \/ Told(p)
    <3>1. Idle(p)'
      BY <2>1, <2>2, <2>3 DEF Idle, Told
    <3> QED BY <1>2, <3>1 DEF Situation
  <2>4. \A m : Proper(p, m) => Proper(p, m)'
    BY <1>0 DEF Proper, PutAside
  <2>5. CASE Asked(p)
    <3>1. PICK i : AskedAt(p, i)
      BY <2>5 DEF Asked
    <3>2. PICK m : m = Fs(p)[i] /\ Proper(p, m)
      BY <3>1 DEF AskedAt
    <3>3. AskedAt(p, i)'
      BY <2>2, <2>4, <3>1, <3>2 DEF AskedAt
    <3>4. Asked(p)'
      BY <2>1, <2>2, <2>5, <3>3 DEF Asked
    <3> QED BY <1>2, <3>4 DEF Situation
  <2>6. CASE Served(p)
    <3>1. PICK i : Sole(Cpu(p), p, i) /\ Proper(p, Cpu(p)[i])
      BY <2>6 DEF Served
    <3>2. PICK m : m = Cpu(p)[i] /\ Proper(p, m)
      BY <3>1
    <3>3. Sole(Cpu(p), p, i)' /\ Proper(p, Cpu(p)[i])'
      BY <2>2, <2>4, <3>1, <3>2
    <3>4. Served(p)'
      BY <2>1, <2>2, <2>6, <3>3 DEF Served
    <3> QED BY <1>2, <3>4 DEF Situation
  <2> QED BY <1>0, <1>2, <2>3, <2>5, <2>6 DEF Situation
<1> QED BY <1>1, <1>2

(* A program whose packets are nowhere, and that does nothing.             *)
LEMMA AloneIdle ==
  ASSUME TypeInv, CallInv, NEW q \in Programs, prog[q] \in {"new", "dead"}, OnWire(q) = {}
  PROVE  Idle(q)
<1>1. \A i \in 1 .. Len(Fs(q)) : ~OwnCall(Fs(q)[i], q)
  <2> SUFFICES ASSUME NEW i \in 1 .. Len(Fs(q)), OwnCall(Fs(q)[i], q) PROVE FALSE
    OBVIOUS
  <2>1. i \in DOMAIN toFs[Home[q]]
    BY HomeOk, LenProperties DEF Fs
  <2>2. Fs(q)[i] \in OnWire(q)
    BY <2>1 DEF OnWire, Members, OwnCall, Fs
  <2> QED BY <2>2
<1>2. \A i \in 1 .. Len(Cpu(q)) : ~OwnCall(Cpu(q)[i], q)
  <2> SUFFICES ASSUME NEW i \in 1 .. Len(Cpu(q)), OwnCall(Cpu(q)[i], q) PROVE FALSE
    OBVIOUS
  <2>1. i \in DOMAIN toCpu[Home[q]]
    BY HomeOk, LenProperties DEF Cpu
  <2>2. Cpu(q)[i] \in OnWire(q)
    BY <2>1 DEF OnWire, Members, OwnCall, Cpu
  <2> QED BY <2>2
<1>3. ~Asked(q)
  BY <1>1 DEF Asked, AskedAt, Sole
<1>4. ~Served(q)
  BY <1>2 DEF Served, Sole
<1> QED BY <1>3, <1>4 DEF CallInv, Situation, Told

LEMMA LeaveCalls ==
  ASSUME TypeInv, CallInv, ~LeaveShared, NEW p \in Programs, Leave(p)
  PROVE  CallInv'
<1> SUFFICES ASSUME NEW q \in Programs PROVE Situation(q)'
  BY DEF CallInv
<1>0. UNCHANGED <<call, buf, mbox, toCpu, sessions, sess, pending>> /\ Situation(q)
  BY DEF Leave, fsVars, CallInv
<1>1. PICK m : m = FromProgram("unsub", p, None)
  OBVIOUS
<1>2. m \in Up(Home[p]) /\ m.t = "unsub" /\ m.by = p /\ SendFs(p, m)
  BY <1>1, PacketMade DEF Leave
<1>3. prog[p] = "run" /\ prog'[p] = "new" /\ (q # p => prog'[q] = prog[q])
  BY DEF Leave, TypeInv, ProgOk
<1>4. CASE Home[q] # Home[p]
  <2>1. Fs(q)' = Fs(q) /\ Cpu(q)' = Cpu(q) /\ q # p
    BY <1>0, <1>2, <1>4, SentFs DEF Cpu
  <2> QED BY <1>0, <1>3, <2>1, QueuesStay
<1>5. CASE Home[q] = Home[p]
  <2>1. Idle(q)
    <3>1. CASE q = p
      BY <1>0, <1>3, <3>1 DEF Situation, Asked, Served, Told
    <3>2. CASE q # p
      <4>1. prog[q] \in {"new", "dead"} /\ OnWire(q) = {}
        BY <1>5, <3>2 DEF Leave, Alone
      <4> QED BY <4>1, AloneIdle
    <3> QED BY <3>1, <3>2
  <2>2. prog'[q] \notin {"wait", "run"}
    <3>1. CASE q = p
      BY <1>3, <3>1
    <3>2. CASE q # p
      BY <1>3, <1>5, <3>2 DEF Leave, Alone
    <3> QED BY <3>1, <3>2
  <2>3. PICK u : u = Fs(q) /\ u \in Seq(Up(Home[p])) /\ Fs(q)' = Append(u, m)
    BY <1>2, <1>5, HomeOk, SentFs
  <2>4. ~OwnCall(m, q)
    BY <1>2 DEF OwnCall
  <2>5. Free(Append(u, m), q)
    BY <1>2, <2>1, <2>3, <2>4, QueueAppend DEF Idle
  <2>6. Idle(q)'
    BY <1>0, <2>1, <2>2, <2>3, <2>5 DEF Idle, Cpu
  <2> QED BY <2>6 DEF Situation
<1> QED BY <1>4, <1>5

LEMMA CpuCalls ==
  ASSUME TypeInv, CallInv, ~EarlyReset, NEW c \in Cpus, CpuEnds(c) \/ CpuStarts(c)
  PROVE  CallInv'
<1> SUFFICES ASSUME NEW q \in Programs PROVE Situation(q)'
  BY DEF CallInv
<1>0. UNCHANGED <<mbox, sessions, sess, pending>> /\ Situation(q)
  BY DEF CpuEnds, CpuStarts, fsVars, progVars, CallInv
<1>1. CASE Home[q] # c
  <2>1. Fs(q)' = Fs(q) /\ Cpu(q)' = Cpu(q)
    BY <1>1, HomeOk DEF CpuEnds, CpuStarts, Fs, Cpu, TypeInv, UpOk, DownOk
  <2>2. prog'[q] = prog[q] /\ call'[q] = call[q] /\ buf'[q] = buf[q]
    BY <1>1 DEF CpuEnds, CpuStarts, progVars
  <2> QED BY <1>0, <2>1, <2>2, QueuesStay
<1>2. CASE Home[q] = c
  <2>1. prog[q] \in {"new", "dead"}
    BY <1>2 DEF CpuEnds, CpuStarts, Gone
  <2>2. mbox[q] = <<>>
    BY <1>0, <2>1 DEF Situation, Idle, Asked, Served, Told
  <2>3. Free(<<>>, q)
    BY DEF Free
  <2>4. CASE CpuEnds(c)
    <3>1. UNCHANGED <<prog, call, buf, mbox>> /\ Cpu(q)' = <<>> /\ (Fs(q)' = Fs(q) \/ Fs(q)' = <<>>)
      BY <1>2, <2>4, HomeOk DEF CpuEnds, progVars, Fs, Cpu, TypeInv, UpOk, DownOk
    <3>2. CASE Free(Fs(q), q) \/ Fs(q)' = <<>>
      <4>1. Idle(q)'
        BY <2>1, <2>2, <2>3, <3>1, <3>2 DEF Idle
      <4> QED BY <4>1 DEF Situation
    <3>3. CASE ~Free(Fs(q), q) /\ Fs(q)' = Fs(q)
      <4>1. Asked(q)
        BY <1>0, <3>3 DEF Situation, Idle, Served, Told
      <4>2. PICK i : AskedAt(q, i)
        BY <4>1 DEF Asked
      <4>3. \A m : Proper(q, m) => Proper(q, m)'
        BY <1>0, <3>1 DEF Proper, PutAside
      <4>4. PICK m : m = Fs(q)[i] /\ Proper(q, m)
        BY <4>2 DEF AskedAt
      <4>5. AskedAt(q, i)'
        BY <1>0, <3>3, <4>2, <4>3, <4>4 DEF AskedAt, Has
      <4>6. Asked(q)'
        BY <2>2, <2>3, <3>1, <4>1, <4>5 DEF Asked
      <4> QED BY <4>6 DEF Situation
    <3> QED BY <3>1, <3>2, <3>3
  <2>5. CASE CpuStarts(c)
    <3>1. Fs(q)' = <<>> /\ Cpu(q)' = <<>> /\ prog'[q] = "new"
      BY <1>2, <2>5 DEF CpuStarts, Fs, Cpu
    <3>2. Idle(q)'
      BY <1>0, <2>2, <2>3, <3>1 DEF Idle
    <3> QED BY <3>2 DEF Situation
  <2> QED BY <2>4, <2>5
<1> QED BY <1>1, <1>2

LEMMA HeadServed ==
  ASSUME TypeInv, CallInv, NEW c \in Cpus, toCpu[c] # <<>>, NEW m, m = Head(toCpu[c])
  PROVE  /\ m \in Down(c) /\ m.by \in Programs /\ Home[m.by] = c /\ OwnCall(m, m.by)
         /\ m = Cpu(m.by)[1] /\ 1 \in 1 .. Len(Cpu(m.by)) /\ Cpu(m.by) # <<>>
         /\ Served(m.by) /\ Proper(m.by, m) /\ Free(Tail(Cpu(m.by)), m.by)
<1>1. toCpu[c] \in Seq(Down(c))
  BY DEF TypeInv, DownOk
<1>2. m = toCpu[c][1] /\ m \in Down(c) /\ Len(toCpu[c]) >= 1 /\ Len(toCpu[c]) \in Nat
  BY <1>1, SeqParts
<1>3. m \in Packet /\ Home[m.by] = c /\ OwnCall(m, m.by)
  BY <1>2 DEF Down, OwnCall
<1>4. PICK p \in Programs : p = m.by
  BY <1>3, PacketParts
<1>5. Cpu(p) = toCpu[c] /\ Situation(p)
  BY <1>3, <1>4 DEF Cpu, CallInv
<1>6. ~Free(Cpu(p), p)
  BY <1>2, <1>3, <1>4, <1>5 DEF Free
<1>7. Served(p)
  BY <1>5, <1>6 DEF Situation, Idle, Asked, Told
<1>8. PICK i : Sole(Cpu(p), p, i) /\ Proper(p, Cpu(p)[i])
  BY <1>7 DEF Served
<1>9. i = 1 /\ Free(Tail(Cpu(p)), p)
  BY <1>1, <1>2, <1>3, <1>4, <1>5, <1>8, QueueTailOwn
<1> QED BY <1>2, <1>3, <1>4, <1>5, <1>7, <1>8, <1>9

LEMMA TailedCpu ==
  ASSUME TypeInv, NEW c \in Cpus, toCpu[c] # <<>>, toCpu' = [toCpu EXCEPT ![c] = Tail(toCpu[c])]
  PROVE  /\ \A q \in Programs : Home[q] = c => Cpu(q)' = Tail(Cpu(q))
         /\ \A q \in Programs : Home[q] = c /\ ~OwnCall(Cpu(q)[1], q)
              => KeepsDown(Cpu(q), Cpu(q)', q)
         /\ \A q \in Programs : Home[q] # c => Cpu(q)' = Cpu(q)
<1>1. toCpu[c] \in Seq(Down(c)) /\ toCpu'[c] = Tail(toCpu[c])
      /\ \A d \in Cpus : d # c => toCpu'[d] = toCpu[d]
  BY DEF TypeInv, DownOk
<1>2. ASSUME NEW q \in Programs, Home[q] = c, ~OwnCall(Cpu(q)[1], q)
      PROVE  KeepsDown(Cpu(q), Cpu(q)', q)
  <2>1. PICK u : u = toCpu[c] /\ u \in Seq(Down(c)) /\ u # <<>>
    BY <1>1
  <2>2. ~OwnCall(u[1], q)
    BY <1>2, <2>1 DEF Cpu
  <2>3. KeepsDown(u, Tail(u), q)
    BY <2>1, <2>2, KeepsTail
  <2> QED BY <1>1, <1>2, <2>1, <2>3 DEF Cpu
<1> QED BY <1>1, <1>2, HomeOk DEF Cpu

(* What goes back to the service, if anything.                             *)
SendsBack(c, p, m) ==
  \E n \in Up(c) :
     /\ SendFs(p, n) /\ n.by = p /\ mbox' = mbox /\ m.t # "reply"
     /\ n.t = IF m.t = "fetch" THEN "bytes" ELSE "landed"
     /\ n.id = m.id /\ n.block = m.block
     /\ n.t = "bytes" /\ n.ok => n.r = call[p]
     /\ n.t = "bytes" => buf' = buf
     /\ n.t = "landed" => \/ n.ok = FALSE /\ buf' = buf
                          \/ buf' = [buf EXCEPT ![p] = m.block]

LEMMA AnswerSends ==
  ASSUME TypeInv, NEW c \in Cpus, NEW m \in Down(c), NEW p \in Programs, p = m.by,
         Fetches(m) \/ Lands(m)
  PROVE  SendsBack(c, p, m)
<1>1. CASE Fetches(m)
  <2>1. call[p] \in Requests \cup {None}
    BY DEF TypeInv, ProgOk
  <2>2. CASE call[p] # None /\ SendFs(p, Filled(m, "bytes", call[p]))
    <3>0. PICK r \in Requests : r = call[p]
      BY <2>1, <2>2
    <3>1. PICK n : n = Filled(m, "bytes", r)
      OBVIOUS
    <3>2. /\ n \in Up(c) /\ n.t = "bytes" /\ n.by = m.by /\ n.id = m.id /\ n.r = r
          /\ n.block = m.block
      BY <3>1, PacketFilled
    <3> QED BY <1>1, <2>2, <3>0, <3>1, <3>2 DEF Fetches, SendsBack
  <2>3. CASE SendFs(p, Failed(m, "bytes"))
    <3>1. PICK n : n = Failed(m, "bytes")
      OBVIOUS
    <3>2. /\ n \in Up(c) /\ n.t = "bytes" /\ n.by = p /\ n.id = m.id /\ n.ok = FALSE
          /\ n.block = m.block
      BY <3>1, PacketTurned
    <3> QED BY <1>1, <2>3, <3>1, <3>2 DEF Fetches, SendsBack
  <2> QED BY <1>1, <2>2, <2>3 DEF Fetches
<1>2. CASE Lands(m)
  <2>1. CASE SendFs(p, Turned(m, "landed")) /\ buf' = [buf EXCEPT ![p] = m.block]
    <3>1. PICK n : n = Turned(m, "landed")
      OBVIOUS
    <3>2. n \in Up(c) /\ n.t = "landed" /\ n.by = p /\ n.id = m.id /\ n.block = m.block
      BY <3>1, PacketTurned
    <3> QED BY <1>2, <2>1, <3>1, <3>2 DEF Lands, SendsBack
  <2>2. CASE SendFs(p, Failed(m, "landed")) /\ UNCHANGED buf
    <3>1. PICK n : n = Failed(m, "landed")
      OBVIOUS
    <3>2. /\ n \in Up(c) /\ n.t = "landed" /\ n.by = p /\ n.id = m.id /\ n.ok = FALSE
          /\ n.block = m.block
      BY <3>1, PacketTurned
    <3> QED BY <1>2, <2>2, <3>1, <3>2 DEF Lands, SendsBack
  <2> QED BY <1>2, <2>1, <2>2 DEF Lands
<1> QED BY <1>1, <1>2

LEMMA AnswerCalls ==
  ASSUME TypeInv, CallInv, NEW c \in Cpus, Answer(c)
  PROVE  CallInv'
<1> SUFFICES ASSUME NEW q \in Programs PROVE Situation(q)'
  BY DEF CallInv
<1>1. PICK m : m = Head(toCpu[c]) /\ (Delivers(c, m) \/ Fetches(m) \/ Lands(m))
  BY AnswerIs
<1>2. /\ toCpu[c] # <<>> /\ toCpu' = [toCpu EXCEPT ![c] = Tail(toCpu[c])]
      /\ UNCHANGED <<prog, call, sessions, sess, pending>>
  BY AnswerIs DEF fsVars
<1>3. PICK p \in Programs : p = m.by
  BY <1>1, <1>2, HeadServed
<1>4. /\ m \in Down(c) /\ Home[p] = c /\ OwnCall(m, p) /\ m = Cpu(p)[1]
      /\ Served(p) /\ Proper(p, m) /\ Free(Tail(Cpu(p)), p)
  BY <1>1, <1>2, <1>3, HeadServed
<1>5. PutAside(q, m) => PutAside(q, m)'
  BY <1>2 DEF PutAside
<1>6. Delivers(c, m) \/ SendsBack(c, p, m)
  BY <1>1, <1>3, <1>4, AnswerSends
<1>7. CASE q # p
  <2>1. KeepsDown(Cpu(q), Cpu(q)', q)
    <3>1. Home[q] = c => ~OwnCall(Cpu(q)[1], q)
      BY <1>3, <1>4, <1>7 DEF Cpu, OwnCall
    <3> QED BY <1>2, <3>1, TailedCpu, SameQueues
  <2>2. KeepsUp(Fs(q), Fs(q)', q, Has(q), Has(q)')
    <3>1. CASE Delivers(c, m)
      BY <1>2, <3>1, SameQueues DEF Delivers, Fs, Has
    <3>2. CASE ~Delivers(c, m)
      <4>1. PICK n \in Up(c) : /\ SendFs(p, n) /\ n.by = p /\ m.t # "reply"
                               /\ n.t = IF m.t = "fetch" THEN "bytes" ELSE "landed"
        BY <1>6, <3>2 DEF SendsBack
      <4> QED BY <1>2, <1>4, <1>7, <4>1, UpPasses
    <3> QED BY <3>1, <3>2
  <2>3. mbox'[q] = mbox[q] /\ buf'[q] = buf[q] /\ prog'[q] = prog[q] /\ call'[q] = call[q]
    BY <1>2, <1>3, <1>6, <1>7 DEF Delivers, SendsBack, TypeInv, ProgOk, MailOk
  <2>4. \A n : PutAside(q, n) => PutAside(q, n)'
    BY <1>2, <2>3, PutAsideSame
  <2>5. Stays(q)
    BY <2>1, <2>2, <2>3, <2>4 DEF Stays
  <2> QED BY <2>5, SituationStays DEF CallInv
<1>8. CASE q = p
  <2>1. /\ Free(Fs(p), p) /\ mbox[p] = <<>> /\ prog[p] \in {"wait", "dead"}
        /\ Settled(Fs(p), p, 0, Has(p))
    BY <1>4 DEF Served
  <2>2. Cpu(p)' = Tail(Cpu(p)) /\ Has(p)' = Has(p) /\ prog'[p] = prog[p] /\ call'[p] = call[p]
    BY <1>2, <1>4, TailedCpu DEF Has
  <2>3. CASE Delivers(c, m)
    <3>1. Fs(p)' = Fs(p) /\ m.t = "reply"
      BY <2>3 DEF Delivers, Fs
    <3>2. CASE prog[p] = "wait"
      <4>1. mbox' = [mbox EXCEPT ![p] = Append(mbox[p], m)]
        BY <1>3, <2>3, <3>2 DEF Delivers
      <4>2. mbox'[p] = <<m>>
        BY <2>1, <4>1 DEF TypeInv, MailOk
      <4>3. Proper(p, m)'
        BY <1>4, <2>2, <3>1 DEF Proper
      <4>4. Told(p)'
        BY <1>4, <2>1, <2>2, <3>1, <3>2, <4>2, <4>3 DEF Told
      <4> QED BY <1>8, <4>4 DEF Situation
    <3>3. CASE prog[p] = "dead"
      <4>1. mbox' = mbox
        BY <1>3, <2>3, <3>3 DEF Delivers
      <4>2. Idle(p)'
        BY <1>4, <2>1, <2>2, <3>1, <3>3, <4>1 DEF Idle
      <4> QED BY <1>8, <4>2 DEF Situation
    <3> QED BY <2>1, <3>2, <3>3
  <2>4. CASE ~Delivers(c, m)
    <3>1. PICK n \in Up(c) :
            /\ SendFs(p, n) /\ n.by = p /\ mbox' = mbox /\ m.t # "reply"
            /\ n.t = IF m.t = "fetch" THEN "bytes" ELSE "landed"
            /\ n.id = m.id /\ n.block = m.block
            /\ n.t = "bytes" /\ n.ok => n.r = call[p]
            /\ n.t = "bytes" => buf' = buf
            /\ n.t = "landed" => \/ n.ok = FALSE /\ buf' = buf
                                 \/ buf' = [buf EXCEPT ![p] = m.block]
      BY <1>6, <2>4, Zenon DEF SendsBack
    <3>2. PICK u : u = Fs(p) /\ u \in Seq(Up(c)) /\ Fs(p)' = Append(u, n)
      BY <1>4, <3>1, HomeOk, SentFs
    <3>3. OwnCall(n, p) /\ n.t \in {"bytes", "landed"}
      BY <3>1 DEF OwnCall
    <3>4. Sole(Append(u, n), p, Len(u) + 1) /\ Append(u, n)[Len(u) + 1] = n
      BY <2>1, <3>2, <3>3, QueueAppendOwn
    <3>5. Settled(Append(u, n), p, 0, Has(p))
      <4>1. PICK has \in BOOLEAN : has = Has(p)
        BY DEF Has
      <4>2. Member(u, p, 0, has) /\ Quiet(u, p, 0)
        BY <2>1, <3>2, <4>1 DEF Settled
      <4>3. ~OwnSub(n, p) /\ n.t # "unsub" /\ 0 \in 0 .. Len(u)
        BY <3>2, <3>3, HomeOk DEF OwnSub
      <4>4. Member(Append(u, n), p, 0, has) /\ Quiet(Append(u, n), p, 0)
        BY <3>2, <4>2, <4>3, MemberAppend
      <4> QED BY <4>1, <4>4 DEF Settled
    <3>6. Proper(p, n)'
      <4>1. m.t \in {"fetch", "land"}
        BY <1>4, <3>1 DEF Down
      <4>2. PutAside(p, m) /\ (PutAside(p, m) => PutAside(p, n)')
        BY <1>2, <1>4, <3>1, <4>1 DEF PutAside, Proper
      <4>3. n.t = "landed" /\ n.ok => buf'[p] = n.block
        BY <3>1 DEF TypeInv, ProgOk
      <4>4. call[p] # None /\ (m.t = "fetch" => call[p].op \notin {"read", "close"})
            /\ (m.t = "land" => call[p].op = "read")
        BY <1>4 DEF Proper
      <4> QED BY <2>2, <3>1, <4>1, <4>2, <4>3, <4>4 DEF Proper
    <3>7. AskedAt(p, Len(u) + 1)'
      BY <2>2, <3>2, <3>3, <3>4, <3>5, <3>6 DEF AskedAt
    <3>8. Asked(p)'
      BY <1>4, <2>1, <2>2, <3>1, <3>7 DEF Asked
    <3> QED BY <1>8, <3>8 DEF Situation
  <2> QED BY <2>3, <2>4
<1> QED BY <1>7, <1>8

-----------------------------------------------------------------------------
(* The service takes the next packet of a processor.  If it belongs to a   *)
(* call, the program has the session the call is for.                      *)
LEMMA HeadAsked ==
  ASSUME TypeInv, CallInv, NEW c \in Cpus, toFs[c] # <<>>, NEW m, m = Head(toFs[c])
  PROVE  /\ m \in Up(c) /\ m.by \in Programs /\ Home[m.by] = c
         /\ m = Fs(m.by)[1] /\ Fs(m.by) # <<>> /\ 1 \in 1 .. Len(Fs(m.by))
         /\ m.t \notin {"sub", "unsub"} =>
              /\ OwnCall(m, m.by) /\ Asked(m.by) /\ Proper(m.by, m) /\ Has(m.by)
              /\ Free(Tail(Fs(m.by)), m.by) /\ Settled(Tail(Fs(m.by)), m.by, 0, Has(m.by))
<1>1. toFs[c] \in Seq(Up(c))
  BY DEF TypeInv, UpOk
<1>2. m = toFs[c][1] /\ m \in Up(c) /\ Len(toFs[c]) >= 1 /\ Len(toFs[c]) \in Nat
  BY <1>1, SeqParts
<1>3. m \in Packet /\ Home[m.by] = c
  BY <1>2 DEF Up
<1>4. PICK p \in Programs : p = m.by
  BY <1>3, PacketParts
<1>5. PICK u : u = Fs(p) /\ u = toFs[c] /\ u \in Seq(Up(c)) /\ u # <<>> /\ m = u[1] /\ Situation(p)
  BY <1>1, <1>2, <1>3, <1>4 DEF Fs, CallInv
<1>6. ASSUME m.t \notin {"sub", "unsub"}
      PROVE  /\ OwnCall(m, p) /\ Asked(p) /\ Proper(p, m) /\ Has(p)
             /\ Free(Tail(u), p) /\ Settled(Tail(u), p, 0, Has(p))
  <2>1. OwnCall(m, p)
    BY <1>4, <1>6 DEF OwnCall
  <2>2. ~Free(Fs(p), p)
    BY <1>2, <1>5, <2>1 DEF Free
  <2>3. Asked(p)
    BY <1>5, <2>2 DEF Situation, Idle, Served, Told
  <2>4. PICK i : AskedAt(p, i)
    BY <2>3 DEF Asked
  <2>5. Sole(u, p, i)
    BY <1>5, <2>4 DEF AskedAt
  <2>6. i = 1 /\ Free(Tail(u), p)
    BY <1>5, <2>1, <2>5, QueueTailOwn
  <2>7. Proper(p, m) /\ Settled(u, p, IF m.t = "req" THEN 1 ELSE 0, Has(p))
    BY <1>5, <2>4, <2>6 DEF AskedAt
  <2>8. PICK has \in BOOLEAN : has = Has(p)
    BY DEF Has
  <2>9. ~OwnSub(u[1], p) /\ u[1].t # "unsub"
    BY <1>5, <1>6 DEF OwnSub
  <2>10. Noted(u[1], p, has, has)
    BY <2>9 DEF Noted
  <2>11. /\ \A n \in 1 .. Len(u) : Quiet(u, p, n) => Quiet(Tail(u), p, n - 1)
         /\ Quiet(u, p, 0) => Quiet(Tail(u), p, 0)
    BY <1>5, <2>10, MemberTail
  <2>12. has /\ Quiet(Tail(u), p, 0)
    <3>1. CASE m.t = "req"
      <4>1. Member(u, p, 1, has) /\ Quiet(u, p, 1)
        BY <2>7, <2>8, <3>1 DEF Settled
      <4>2. \A j \in 1 .. 1 : j = 1
        OBVIOUS
      <4>3. has
        BY <2>9, <4>1, <4>2 DEF Member
      <4>4. 1 \in 1 .. Len(u) /\ 1 - 1 = 0
        BY <1>2, <1>5
      <4>5. Quiet(Tail(u), p, 1 - 1)
        BY <2>11, <4>1, <4>4
      <4>6. Quiet(Tail(u), p, 0)
        BY <4>4, <4>5
      <4> QED BY <4>3, <4>6
    <3>2. CASE m.t # "req"
      <4>1. Member(u, p, 0, has) /\ Quiet(u, p, 0)
        BY <2>7, <2>8, <3>2 DEF Settled
      <4> QED BY <2>11, <4>1, MemberNone
    <3> QED BY <3>1, <3>2
  <2>13. Settled(Tail(u), p, 0, has)
    BY <2>12, MemberNone DEF Settled
  <2> QED BY <2>1, <2>3, <2>6, <2>7, <2>8, <2>12, <2>13
<1>7. m.t \notin {"sub", "unsub"} =>
        /\ OwnCall(m, p) /\ Asked(p) /\ Proper(p, m) /\ Has(p)
        /\ Free(Tail(Fs(p)), p) /\ Settled(Tail(Fs(p)), p, 0, Has(p))
  BY <1>5, <1>6, Zenon
<1>8. m = Fs(p)[1] /\ Fs(p) # <<>> /\ 1 \in 1 .. Len(Fs(p))
  BY <1>2, <1>5
<1> QED BY <1>2, <1>3, <1>4, <1>7, <1>8, Zenon

LEMMA TailedFs ==
  ASSUME TypeInv, NEW c \in Cpus, toFs[c] # <<>>, toFs' = [toFs EXCEPT ![c] = Tail(toFs[c])]
  PROVE  /\ \A q \in Programs : Home[q] = c => Fs(q)' = Tail(Fs(q))
         /\ \A q \in Programs :
              Home[q] = c /\ ~OwnCall(Fs(q)[1], q) /\ Noted(Fs(q)[1], q, Has(q), Has(q)')
              => KeepsUp(Fs(q), Fs(q)', q, Has(q), Has(q)')
         /\ \A q \in Programs : Home[q] # c => Fs(q)' = Fs(q)
<1>1. toFs[c] \in Seq(Up(c)) /\ toFs'[c] = Tail(toFs[c])
      /\ \A d \in Cpus : d # c => toFs'[d] = toFs[d]
  BY DEF TypeInv, UpOk
<1>2. ASSUME NEW q \in Programs, Home[q] = c, ~OwnCall(Fs(q)[1], q),
             Noted(Fs(q)[1], q, Has(q), Has(q)')
      PROVE  KeepsUp(Fs(q), Fs(q)', q, Has(q), Has(q)')
  <2>1. PICK u : u = toFs[c] /\ u \in Seq(Up(c)) /\ u # <<>>
    BY <1>1
  <2>2. PICK has \in BOOLEAN : has = Has(q)
    BY DEF Has
  <2>3. PICK now \in BOOLEAN : now = Has(q)'
    BY DEF Has
  <2>4. ~OwnCall(u[1], q) /\ Noted(u[1], q, has, now)
    BY <1>2, <2>1, <2>2, <2>3 DEF Fs
  <2>5. KeepsUp(u, Tail(u), q, has, now)
    BY <2>1, <2>4, KeepsTail
  <2> QED BY <1>1, <1>2, <2>1, <2>2, <2>3, <2>5 DEF Fs
<1> QED BY <1>1, <1>2, HomeOk DEF Fs

(* It serves a call: a packet to the caller, and for the others nothing.   *)
ServedFrom(c, p, m) ==
  /\ toFs[c] # <<>> /\ m = Head(toFs[c]) /\ m.by = p /\ m.t \notin {"sub", "unsub"}
  /\ toFs' = [toFs EXCEPT ![c] = Tail(toFs[c])]
  /\ UNCHANGED <<progVars, sessions>>
Spares(p) ==
  \A q \in Programs \ {p} : \A x :
    /\ OwnCall(x, q) /\ OnQueues(x, Home[q]) /\ Settled(Fs(q), q, 0, Has(q)) /\ PutAside(q, x)
    => PutAside(q, x)'

LEMMA ServeCalls ==
  ASSUME TypeInv, CallInv, NEW c \in Cpus, NEW p \in Programs, NEW m, ServedFrom(c, p, m),
         NEW n \in Down(c), n.by = p, SendCpu(p, n), Proper(p, n)', Spares(p)
  PROVE  CallInv'
<1> SUFFICES ASSUME NEW q \in Programs PROVE Situation(q)'
  BY DEF CallInv
<1>0. UNCHANGED <<prog, call, buf, mbox, sessions>>
  BY DEF ServedFrom, progVars
<1>1. /\ Home[p] = c /\ m = Fs(p)[1] /\ OwnCall(m, p) /\ Asked(p)
      /\ Free(Tail(Fs(p)), p) /\ Settled(Tail(Fs(p)), p, 0, Has(p))
  BY HeadAsked DEF ServedFrom
<1>2. toFs[c] # <<>> /\ toFs' = [toFs EXCEPT ![c] = Tail(toFs[c])]
  BY DEF ServedFrom
<1>3. CASE q # p
  <2>1. KeepsUp(Fs(q), Fs(q)', q, Has(q), Has(q)')
    <3>1. Has(q)' = Has(q)
      BY <1>0 DEF Has
    <3>2. CASE Home[q] = c
      <4>1. Fs(q)[1] = m /\ ~OwnCall(m, q)
        BY <1>1, <1>3, <3>2 DEF Fs, OwnCall
      <4>2. Noted(m, q, Has(q), Has(q)')
        BY <1>1, <3>1 DEF Noted, OwnSub, OwnCall
      <4> QED BY <1>2, <3>2, <4>1, <4>2, TailedFs
    <3>3. CASE Home[q] # c
      <4>1. Fs(q)' = Fs(q)
        BY <1>2, <3>3, TailedFs
      <4> QED BY <3>1, <4>1, SameQueues
    <3> QED BY <3>2, <3>3
  <2>2. KeepsDown(Cpu(q), Cpu(q)', q)
    BY <1>1, <1>3, DownPasses
  <2>3. mbox'[q] = mbox[q] /\ prog'[q] = prog[q] /\ call'[q] = call[q] /\ buf'[q] = buf[q]
    BY <1>0
  <2>4. Stays(q)
    BY <1>3, <2>1, <2>2, <2>3 DEF Stays, Spares
  <2> QED BY <2>4, SituationStays DEF CallInv
<1>4. CASE q = p
  <2>1. Fs(p)' = Tail(Fs(p)) /\ Has(p)' = Has(p)
    BY <1>0, <1>1, <1>2, TailedFs DEF Has
  <2>2. Free(Cpu(p), p) /\ mbox'[p] = <<>> /\ prog'[p] \in {"wait", "dead"}
    BY <1>0, <1>1 DEF Asked
  <2>3. OwnCall(n, p)
    BY DEF Down, OwnCall
  <2>4. PICK u : u = Cpu(p) /\ u \in Seq(Down(c)) /\ Cpu(p)' = Append(u, n)
    BY <1>1, HomeOk, SentCpu
  <2>5. Sole(Append(u, n), p, Len(u) + 1) /\ Append(u, n)[Len(u) + 1] = n
    BY <2>2, <2>3, <2>4, QueueAppendOwn
  <2>6. Served(p)'
    BY <1>1, <2>1, <2>2, <2>4, <2>5 DEF Served
  <2> QED BY <1>4, <2>6 DEF Situation
<1> QED BY <1>3, <1>4

-----------------------------------------------------------------------------
(* What the service sends for a call, and what it does to the requests it  *)
(* has put aside.                                                          *)
LEMMA ReplySent ==
  ASSUME NEW p \in Programs, NEW s, sess[s].box = p, NEW code \in Codes, NEW k \in Nat,
         Reply(s, code, k)
  PROVE  \E n \in Down(Home[p]) : /\ n.by = p /\ n.t = "reply" /\ n.code = code /\ n.n = k
                                  /\ SendCpu(p, n)
BY PacketMade DEF Reply

Entry(s, r) == [op |-> r.op, s |-> s, fd |-> r.fd, flags |-> r.flags]

LEMMA DeferSent ==
  ASSUME ~Reuse, NEW p \in Programs, NEW s, NEW r, NEW m \in Down(Home[p]), m.t # "reply",
         Defer(s, p, r, m)
  PROVE  \E n \in Down(Home[p]) :
           /\ n.by = m.by /\ n.t = m.t /\ n.block = m.block
           /\ n.id \in TransIds /\ n.id \notin IdsOnWire
           /\ pending' = With(pending, n.id, Entry(s, r)) /\ SendCpu(p, n)
<1>1. PICK t \in TransIds : /\ t \notin IdsOnWire
                            /\ pending' = With(pending, t, Entry(s, r))
                            /\ SendCpu(p, [m EXCEPT !.id = t])
  BY DEF Defer, Entry
<1>2. PICK n : n = [m EXCEPT !.id = t]
  OBVIOUS
<1>3. n \in Down(Home[p]) /\ n.t = m.t /\ n.by = m.by /\ n.id = t /\ n.block = m.block
  BY <1>2, PacketNumbered
<1> QED BY <1>1, <1>2, <1>3

(* Only the caller's entry and its session change.                         *)
Aside(p, m) ==
  \/ pending' = pending
  \/ \E t \in TransIds, v \in Deferred : t \notin IdsOnWire /\ pending' = With(pending, t, v)
  \/ m.t \in {"bytes", "landed"} /\ pending' = Without(pending, {m.id})
Within(s) == \A y \in 1 .. Len(sess) : y # s => sess'[y] = sess[y]

LEMMA SparesOthers ==
  ASSUME TypeInv, SessInv, NEW p \in Programs, NEW m, Has(p), Proper(p, m), Aside(p, m),
         Within(sessions[p]), UNCHANGED <<call, sessions>>
  PROVE  Spares(p)
<1> SUFFICES ASSUME NEW q \in Programs \ {p}, NEW x,
                    OwnCall(x, q), OnQueues(x, Home[q]), Settled(Fs(q), q, 0, Has(q)),
                    PutAside(q, x)
             PROVE  PutAside(q, x)'
  BY DEF Spares
<1>1. Has(q)
  <2>1. PICK has \in BOOLEAN : has = Has(q)
    BY DEF Has
  <2> QED BY <2>1, MemberNone DEF Settled
<1>2. sessions[q] \in 1 .. Len(sess) /\ sessions[q] # sessions[p]
  BY <1>1 DEF Has, TypeInv, SessOk, SessInv
<1>3. sess'[sessions[q]] = sess[sessions[q]]
  BY <1>2 DEF Within
<1>4. x.id \in DOMAIN pending /\ pending[x.id].s = sessions[q]
  BY DEF PutAside
<1>5. x.id \in IdsOnWire
  <2>1. Home[q] \in Cpus /\ Len(toFs[Home[q]]) \in Nat /\ Len(toCpu[Home[q]]) \in Nat
    BY HomeOk DEF Fs, Cpu
  <2>2. x \in Members(toFs[Home[q]]) \cup Members(toCpu[Home[q]])
    <3>1. /\ DOMAIN toFs[Home[q]] = 1 .. Len(toFs[Home[q]])
          /\ DOMAIN toCpu[Home[q]] = 1 .. Len(toCpu[Home[q]])
      BY <2>1, LenProperties DEF TypeInv, UpOk, DownOk
    <3> QED BY <3>1 DEF OnQueues, Members
  <2> QED BY <2>1, <2>2 DEF IdsOnWire
<1>6. pending \in Partial(TransIds, Deferred)
  BY DEF TypeInv, PendOk
<1>7. x.id \in DOMAIN pending' /\ pending'[x.id] = pending[x.id]
  <2>1. CASE pending' = pending
    BY <1>4, <2>1
  <2>2. CASE \E t \in TransIds, v \in Deferred :
               t \notin IdsOnWire /\ pending' = With(pending, t, v)
    <3>1. PICK t \in TransIds, v \in Deferred :
                 t \notin IdsOnWire /\ pending' = With(pending, t, v)
      BY <2>2
    <3>2. x.id # t
      BY <1>5, <3>1
    <3> QED BY <1>4, <1>6, <3>1, <3>2, PartialWith
  <2>3. CASE m.t \in {"bytes", "landed"} /\ pending' = Without(pending, {m.id})
    <3>1. pending[m.id].s = sessions[p]
      BY <2>3 DEF Proper, PutAside
    <3>2. x.id # m.id
      BY <1>2, <1>4, <3>1
    <3> QED BY <1>4, <1>6, <2>3, <3>2, PartialWithout
  <2> QED BY <2>1, <2>2, <2>3 DEF Aside
<1> QED BY <1>3, <1>7 DEF PutAside

LEMMA OwnSession ==
  ASSUME TypeInv, SessInv, CallInv, NEW c \in Cpus, NEW p \in Programs, NEW m,
         ServedFrom(c, p, m)
  PROVE  /\ m \in Up(c) /\ Home[p] = c /\ Proper(p, m) /\ Has(p) /\ Asked(p)
         /\ sessions[p] \in 1 .. Len(sess) /\ sess[sessions[p]].box = p
         /\ call[p] \in Requests /\ call[p] # None
<1>1. m \in Up(c) /\ Home[p] = c /\ Proper(p, m) /\ Has(p) /\ Asked(p)
  BY HeadAsked DEF ServedFrom
<1>2. sessions[p] \in 1 .. Len(sess) /\ sess[sessions[p]].box = p
  BY <1>1 DEF Has, SessInv, TypeInv, SessOk
<1>3. call[p] \in Requests /\ call[p] # None
  BY <1>1 DEF Proper, TypeInv, ProgOk
<1> QED BY <1>1, <1>2, <1>3

LEMMA ReplyCalls ==
  ASSUME TypeInv, SessInv, CallInv, NEW c \in Cpus, NEW p \in Programs, NEW m,
         ServedFrom(c, p, m), NEW code \in Codes, NEW k \in Nat, Reply(sessions[p], code, k),
         Aside(p, m), Within(sessions[p])
  PROVE  CallInv'
<1>1. Home[p] = c /\ Has(p) /\ Proper(p, m) /\ sess[sessions[p]].box = p
  BY OwnSession
<1>2. PICK n \in Down(c) : n.by = p /\ n.t = "reply" /\ SendCpu(p, n)
  BY <1>1, ReplySent
<1>3. UNCHANGED <<call, sessions>>
  BY DEF ServedFrom, progVars
<1>4. Spares(p)
  BY <1>1, <1>3, SparesOthers
<1>5. Proper(p, n)'
  BY <1>1, <1>2, <1>3 DEF Proper
<1> QED BY <1>2, <1>4, <1>5, ServeCalls

LEMMA DeferCalls ==
  ASSUME ~Reuse, TypeInv, SessInv, CallInv, NEW c \in Cpus, NEW p \in Programs, NEW m,
         ServedFrom(c, p, m), NEW x \in Down(Home[p]), x.by = p, x.t \in {"fetch", "land"},
         Defer(sessions[p], p, call[p], x), Within(sessions[p]), call[p].arg # "null",
         IF x.t = "land" THEN call[p].op = "read" ELSE call[p].op \notin {"read", "close"},
         call[p].op \in {"open", "opendir"} =>
           Cardinality(DOMAIN sess'[sessions[p]].files) < MaxFds
  PROVE  CallInv'
<1>1. /\ Home[p] = c /\ Has(p) /\ Proper(p, m) /\ sess[sessions[p]].box = p
      /\ sessions[p] \in 1 .. Len(sess) /\ call[p] \in Requests /\ call[p] # None
  BY OwnSession
<1>2. PICK n \in Down(c) :
           /\ n.by = p /\ n.t = x.t
           /\ n.id \in TransIds /\ n.id \notin IdsOnWire
           /\ pending' = With(pending, n.id, Entry(sessions[p], call[p])) /\ SendCpu(p, n)
  BY <1>1, DeferSent
<1>3. UNCHANGED <<call, buf, sessions>>
  BY DEF ServedFrom, progVars
<1>4. Entry(sessions[p], call[p]) \in Deferred
  BY <1>1, RequestParts DEF Entry, Deferred
<1>5. Spares(p)
  <2>1. Aside(p, m)
    BY <1>2, <1>4 DEF Aside
  <2> QED BY <1>1, <1>3, <2>1, SparesOthers
<1>6. PutAside(p, n)'
  <2>1. n.id \in DOMAIN pending' /\ pending'[n.id] = Entry(sessions[p], call[p])
    BY <1>2, <1>4, PartialWith DEF TypeInv, PendOk
  <2> QED BY <1>3, <2>1 DEF PutAside, Entry
<1>7. Proper(p, n)'
  BY <1>1, <1>2, <1>3, <1>6 DEF Proper
<1> QED BY <1>2, <1>5, <1>7, ServeCalls

LEMMA NoteCalls ==
  ASSUME TypeInv, CallInv, NEW c \in Cpus, NEW m, m = Head(toFs[c]), toFs[c] # <<>>,
         toFs' = [toFs EXCEPT ![c] = Tail(toFs[c])], UNCHANGED progVars,
         \/ m.t = "sub" /\ Subscribe(m.by)
         \/ m.t = "unsub" /\ Unsubscribe(m.by)
  PROVE  CallInv'
<1> SUFFICES ASSUME NEW q \in Programs PROVE Situation(q)'
  BY DEF CallInv
<1>0. UNCHANGED <<prog, call, buf, mbox, toCpu, pending>>
  BY DEF progVars, Subscribe, Unsubscribe
<1>1. m.by \in Programs /\ Home[m.by] = c /\ m = toFs[c][1]
  BY HeadAsked DEF Fs
<1>2. KeepsUp(Fs(q), Fs(q)', q, Has(q), Has(q)')
  <2>1. CASE Home[q] = c
    <3>1. Fs(q)[1] = m /\ ~OwnCall(m, q)
      BY <1>1, <2>1 DEF Fs, OwnCall
    <3>2. Noted(m, q, Has(q), Has(q)')
      <4>1. CASE m.t = "sub" /\ m.by = q
        <5>1. Len(sess) \in Nat /\ None \notin Nat
          BY SeqParts, ProgramsAssumption DEF TypeInv, SessOk
        <5>2. sessions'[q] = Len(sess) + 1
          BY <4>1 DEF Subscribe, TypeInv, SessOk
        <5>3. Has(q)'
          BY <5>1, <5>2 DEF Has
        <5> QED BY <4>1, <5>3 DEF Noted, OwnSub
      <4>2. CASE m.t = "sub" /\ m.by # q
        <5>1. sessions'[q] = sessions[q]
          BY <4>2 DEF Subscribe, TypeInv, SessOk
        <5> QED BY <4>2, <5>1 DEF Noted, OwnSub, Has
      <4>3. CASE m.t = "unsub"
        BY <4>3 DEF Noted, OwnSub
      <4> QED BY <4>1, <4>2, <4>3
    <3> QED BY <2>1, <3>1, <3>2, TailedFs
  <2>2. CASE Home[q] # c
    <3>1. Fs(q)' = Fs(q)
      BY <2>2, TailedFs
    <3>2. Has(q)' = Has(q)
      BY <1>1, <2>2 DEF Subscribe, Unsubscribe, Has, TypeInv, SessOk
    <3> QED BY <3>1, <3>2, SameQueues
  <2> QED BY <2>1, <2>2
<1>3. KeepsDown(Cpu(q), Cpu(q)', q)
  BY <1>0, SameQueues DEF Cpu
<1>4. ASSUME NEW x, Settled(Fs(q), q, 0, Has(q)), PutAside(q, x)
      PROVE  PutAside(q, x)'
  <2>1. Has(q) /\ Quiet(Fs(q), q, 0)
    <3>1. PICK has \in BOOLEAN : has = Has(q)
      BY DEF Has
    <3> QED BY <1>4, <3>1, MemberNone DEF Settled
  <2>2. Home[q] = c => m.t # "unsub" /\ m.by # q
    <3>1. Home[q] = c => 1 \in 0 + 1 .. Len(Fs(q)) /\ Fs(q)[1] = m
      BY <1>1, HeadAsked DEF Fs
    <3>2. Home[q] = c => m.t # "unsub" /\ ~OwnSub(m, q)
      BY <2>1, <3>1 DEF Quiet
    <3> QED BY <3>2 DEF OwnSub
  <2>3. sessions[q] \in 1 .. Len(sess)
    BY <2>1 DEF Has, TypeInv, SessOk
  <2>4. sessions'[q] = sessions[q]
    BY <1>1, <2>2 DEF Subscribe, Unsubscribe, TypeInv, SessOk
  <2>5. sess'[sessions[q]] = sess[sessions[q]]
    <3>1. CASE Subscribe(m.by)
      <4>1. [box |-> m.by, files |-> Empty, next |-> 0] \in Session
        BY <1>1, PartialEmpty DEF Session
      <4> QED BY <2>3, <3>1, <4>1, SeqParts DEF Subscribe, TypeInv, SessOk
    <3>2. CASE Unsubscribe(m.by)
      BY <3>2 DEF Unsubscribe
    <3> QED BY <3>1, <3>2
  <2> QED BY <1>0, <1>4, <2>4, <2>5 DEF PutAside
<1>5. Stays(q)
  BY <1>0, <1>2, <1>3, <1>4 DEF Stays
<1> QED BY <1>5, SituationStays DEF CallInv

-----------------------------------------------------------------------------
(* What becomes of the sessions and their descriptors.                     *)
LEMMA HeldIs ==
  ASSUME TypeInv, SessInv, NEW p \in Programs, NEW q \in Programs, Has(p), Has(q), q # p
  PROVE  /\ sessions[p] \in 1 .. Len(sess) /\ sessions[q] \in 1 .. Len(sess)
         /\ sessions[q] # sessions[p]
BY DEF Has, TypeInv, SessOk, SessInv

LEMMA DescOwned ==
  ASSUME DescInv, NEW p \in Programs, NEW q \in Programs, NEW fd \in Nat, NEW g \in Nat,
         NEW d \in Descs, Held(p, fd, d), Held(q, g, d)
  PROVE  d \in DOMAIN desc /\ p = q /\ fd = g
BY DEF DescInv

LEMMA DescKept ==
  ASSUME DescInv,
         \A q \in Programs, g \in Nat, d \in Descs :
           Held(q, g, d)' => Held(q, g, d) /\ d \in DOMAIN desc'
  PROVE  DescInv'
BY DEF DescInv

(* Nothing is opened or closed: positions move at most.                    *)
Alike(z, y) ==
  /\ y.box = z.box /\ DOMAIN y.files = DOMAIN z.files
  /\ \A fd \in DOMAIN z.files : y.files[fd].host = z.files[fd].host

LEMMA MovedInv ==
  ASSUME TypeInv, SessInv, DescInv, UNCHANGED sessions, Len(sess') = Len(sess),
         \A s \in 1 .. Len(sess) : Alike(sess[s], sess'[s]),
         DOMAIN desc' = DOMAIN desc
  PROVE  SessInv' /\ DescInv'
<1>1. \A p \in Programs : Has(p) => sessions[p] \in 1 .. Len(sess)
  BY DEF Has, TypeInv, SessOk
<1>2. SessInv'
  BY <1>1 DEF SessInv, Alike, Has
<1>3. ASSUME NEW q \in Programs, NEW g \in Nat, NEW d \in Descs, Held(q, g, d)'
      PROVE  Held(q, g, d)
  <2>1. Has(q) /\ g \in DOMAIN sess'[sessions[q]].files
        /\ d = sess'[sessions[q]].files[g].host
    BY <1>3 DEF Held, Has
  <2>2. Alike(sess[sessions[q]], sess'[sessions[q]])
    BY <1>1, <2>1
  <2> QED BY <2>1, <2>2 DEF Held, Alike
<1>4. ASSUME NEW q \in Programs, NEW g \in Nat, NEW d \in Descs, Held(q, g, d)
      PROVE  d \in DOMAIN desc'
  BY <1>4, DescOwned
<1>5. DescInv'
  BY <1>3, <1>4, DescKept
<1> QED BY <1>2, <1>5

LEMMA SameInv ==
  ASSUME TypeInv, SessInv, DescInv, UNCHANGED <<sessions, sess>>, DOMAIN desc' = DOMAIN desc
  PROVE  SessInv' /\ DescInv'
<1>1. \A s \in 1 .. Len(sess) : Alike(sess[s], sess'[s])
  BY DEF Alike
<1> QED BY <1>1, MovedInv

LEMMA SubscribeInv ==
  ASSUME TypeInv, SessInv, DescInv, NEW p \in Programs, Subscribe(p)
  PROVE  SessInv' /\ DescInv'
<1> DEFINE z == [box |-> p, files |-> Empty, next |-> 0]
<1>1. z \in Session /\ z.box = p /\ DOMAIN z.files = {}
  BY PartialEmpty DEF Session
<1>2. sess' = Append(sess, z) /\ desc' = desc /\ sess \in Seq(Session)
      /\ sessions' = [sessions EXCEPT ![p] = Len(sess) + 1]
  BY DEF Subscribe, TypeInv, SessOk
<1> HIDE DEF z
<1>3. /\ Len(sess) \in Nat /\ Len(sess') = Len(sess) + 1 /\ sess'[Len(sess) + 1] = z
      /\ \A y \in 1 .. Len(sess) : sess'[y] = sess[y]
  BY <1>1, <1>2, SeqParts
<1>4. sessions'[p] = Len(sess) + 1 /\ \A q \in Programs : q # p => sessions'[q] = sessions[q]
  BY <1>2 DEF TypeInv, SessOk
<1>5. \A q \in Programs : Has(q) => sessions[q] \in 1 .. Len(sess)
  BY DEF Has, TypeInv, SessOk
<1>6. SessInv'
  <2>1. ASSUME NEW q \in Programs, Has(q)' PROVE sess'[sessions'[q]].box = q
    <3>1. CASE q = p
      BY <1>1, <1>3, <1>4, <3>1
    <3>2. CASE q # p
      <4>1. Has(q) /\ sessions'[q] = sessions[q]
        BY <1>4, <2>1, <3>2 DEF Has
      <4> QED BY <1>3, <1>5, <4>1 DEF SessInv
    <3> QED BY <3>1, <3>2
  <2>2. IsFiniteSet({}) /\ Cardinality({}) = 0
    BY FS_EmptySet
  <2>3. ASSUME NEW y \in 1 .. Len(sess')
        PROVE  IsFiniteSet(DOMAIN sess'[y].files) /\ Cardinality(DOMAIN sess'[y].files) <= MaxFds
    <3>1. CASE y = Len(sess) + 1
      <4>1. DOMAIN sess'[y].files = {}
        BY <1>1, <1>3, <3>1
      <4> QED BY <2>2, <4>1, ServiceAssumption
    <3>2. CASE y # Len(sess) + 1
      <4>1. y \in 1 .. Len(sess) /\ sess'[y] = sess[y]
        BY <1>3, <2>3, <3>2
      <4> QED BY <4>1 DEF SessInv
    <3> QED BY <3>1, <3>2
  <2> QED BY <2>1, <2>3 DEF SessInv
<1>7. ASSUME NEW q \in Programs, NEW g \in Nat, NEW d \in Descs, Held(q, g, d)'
      PROVE  Held(q, g, d)
  <2>1. q # p
    BY <1>1, <1>3, <1>4, <1>7 DEF Held
  <2>2. Has(q) /\ sessions'[q] = sessions[q]
    BY <1>4, <1>7, <2>1 DEF Held, Has
  <2> QED BY <1>3, <1>5, <1>7, <2>2 DEF Held
<1>8. \A q \in Programs, g \in Nat, d \in Descs : Held(q, g, d) => d \in DOMAIN desc'
  BY <1>2, DescOwned
<1>9. DescInv'
  BY <1>7, <1>8, DescKept
<1> QED BY <1>6, <1>9

LEMMA UnsubscribeInv ==
  ASSUME TypeInv, SessInv, DescInv, NEW p \in Programs, Unsubscribe(p)
  PROVE  SessInv' /\ DescInv'
<1> DEFINE gone == {q \in Programs : Home[q] = Home[p] /\ sessions[q] # None}
           X == UNION {HostDescs(sessions[q]) : q \in gone}
<1>1. /\ sessions' = [q \in Programs |-> IF q \in gone THEN None ELSE sessions[q]]
      /\ desc' = Without(desc, X) /\ sess' = sess
  BY DEF Unsubscribe
<1>2. \A z \in gone : z \in Programs /\ Has(z)
  BY DEF Has
<1>3. ASSUME NEW d \in X PROVE \E z \in gone : d \in HostDescs(sessions[z])
  OBVIOUS
<1> HIDE DEF gone, X
<1>4. \A q \in Programs : Has(q)' => Has(q) /\ q \notin gone /\ sessions'[q] = sessions[q]
  BY <1>1 DEF Has
<1>5. SessInv'
  BY <1>1, <1>4 DEF SessInv
<1>6. ASSUME NEW q \in Programs, NEW g \in Nat, NEW d \in Descs, Held(q, g, d)'
      PROVE  Held(q, g, d) /\ d \in DOMAIN desc'
  <2>1. Held(q, g, d) /\ q \notin gone
    BY <1>1, <1>4, <1>6 DEF Held
  <2>2. d \notin X
    <3> SUFFICES ASSUME d \in X PROVE FALSE
      OBVIOUS
    <3>1. PICK z \in gone : d \in HostDescs(sessions[z])
      BY <1>3
    <3>2. PICK fd \in DOMAIN sess[sessions[z]].files : d = sess[sessions[z]].files[fd].host
      BY <3>1 DEF HostDescs
    <3>3. z \in Programs /\ Held(z, fd, d)
      BY <1>2, <3>1, <3>2 DEF Held
    <3>4. fd \in Nat
      <4>1. sess \in Seq(Session) /\ sessions[z] \in 1 .. Len(sess)
        BY <3>3 DEF Held, Has, TypeInv, SessOk
      <4> QED BY <3>2, <4>1, SessionParts
    <3> QED BY <2>1, <3>1, <3>3, <3>4, DescOwned
  <2>3. d \in DOMAIN desc
    BY <2>1, DescOwned
  <2>4. desc \in Partial(Descs, Desc)
    BY DEF TypeInv, DescOk
  <2> QED BY <1>1, <2>1, <2>2, <2>3, <2>4, PartialWithout
<1>7. DescInv'
  BY <1>6, DescKept
<1> QED BY <1>5, <1>7

(* A file is closed.                                                       *)
Closes(s, fd) ==
  /\ fd \in DOMAIN sess[s].files
  /\ sess' = SetFiles(sess, s, Without(sess[s].files, {fd}))
  /\ desc' = Without(desc, {sess[s].files[fd].host})
  /\ UNCHANGED <<pending, host>>

LEMMA CloseIs ==
  ASSUME TypeInv, NEW s \in 1 .. Len(sess), NEW fd, Closes(s, fd)
  PROVE  /\ Len(sess') = Len(sess) /\ Within(s)
         /\ sess'[s].box = sess[s].box /\ sess'[s].next = sess[s].next
         /\ \A g : g \in DOMAIN sess'[s].files <=> g \in DOMAIN sess[s].files /\ g # fd
         /\ \A g \in DOMAIN sess'[s].files : sess'[s].files[g] = sess[s].files[g]
         /\ \A d : d \in DOMAIN desc' <=> d \in DOMAIN desc /\ d # sess[s].files[fd].host
         /\ \A d \in DOMAIN desc' : desc'[d] = desc[d]
<1>1. sess \in Seq(Session) /\ sess[s].files \in Partial(Nat, Open) /\ sess[s].next \in Nat
  BY SessionParts DEF TypeInv, SessOk
<1>2. PICK f : f = Without(sess[s].files, {fd})
  OBVIOUS
<1>3. /\ f \in Partial(Nat, Open)
      /\ \A g : g \in DOMAIN f <=> g \in DOMAIN sess[s].files /\ g # fd
      /\ \A g \in DOMAIN f : f[g] = sess[s].files[g]
  BY <1>1, <1>2, PartialWithout
<1>4. sess' = WithFiles(sess, s, f, sess[s].next)
  BY <1>1, <1>2, FilesForms DEF Closes
<1>5. /\ Len(sess') = Len(sess) /\ Within(s)
      /\ sess'[s].box = sess[s].box /\ sess'[s].next = sess[s].next /\ sess'[s].files = f
  BY <1>1, <1>3, <1>4, WithFilesIs DEF Within
<1>6. desc \in Partial(Descs, Desc) /\ desc' = Without(desc, {sess[s].files[fd].host})
  BY DEF Closes, TypeInv, DescOk
<1>7. /\ \A d : d \in DOMAIN desc' <=> d \in DOMAIN desc /\ d # sess[s].files[fd].host
      /\ \A d \in DOMAIN desc' : desc'[d] = desc[d]
  BY <1>6, PartialWithout
<1> QED BY <1>3, <1>5, <1>7

LEMMA CloseInv ==
  ASSUME TypeInv, SessInv, DescInv, NEW p \in Programs, Has(p), NEW fd,
         Closes(sessions[p], fd), UNCHANGED sessions
  PROVE  SessInv' /\ DescInv'
<1>1. PICK s \in 1 .. Len(sess) : s = sessions[p]
  BY DEF Has, TypeInv, SessOk
<1>2. /\ Len(sess') = Len(sess) /\ Within(s) /\ sess'[s].box = sess[s].box
      /\ \A g : g \in DOMAIN sess'[s].files <=> g \in DOMAIN sess[s].files /\ g # fd
      /\ \A g \in DOMAIN sess'[s].files : sess'[s].files[g] = sess[s].files[g]
      /\ \A d : d \in DOMAIN desc' <=> d \in DOMAIN desc /\ d # sess[s].files[fd].host
  BY <1>1, CloseIs
<1>3. fd \in DOMAIN sess[s].files /\ fd \in Nat
  <2>1. sess \in Seq(Session) /\ fd \in DOMAIN sess[s].files
    BY <1>1 DEF Closes, TypeInv, SessOk
  <2> QED BY <2>1, SessionParts
<1>4. SessInv'
  <2>1. \A q \in Programs : Has(q)' => sess'[sessions'[q]].box = q
    BY <1>1, <1>2, HeldIs DEF SessInv, Has, Within, TypeInv, SessOk
  <2>2. IsFiniteSet(DOMAIN sess[s].files) /\ Cardinality(DOMAIN sess[s].files) <= MaxFds
    BY DEF SessInv
  <2>3. DOMAIN sess'[s].files \subseteq DOMAIN sess[s].files
    BY <1>2
  <2>4. IsFiniteSet(DOMAIN sess'[s].files)
        /\ Cardinality(DOMAIN sess'[s].files) <= Cardinality(DOMAIN sess[s].files)
    BY <2>2, <2>3, FS_Subset
  <2>5. /\ Cardinality(DOMAIN sess[s].files) \in Nat /\ Cardinality(DOMAIN sess'[s].files) \in Nat
        /\ MaxFds \in Nat
    BY <2>2, <2>4, FS_CardinalityType, ServiceAssumption
  <2>6. ASSUME NEW y \in 1 .. Len(sess')
        PROVE  IsFiniteSet(DOMAIN sess'[y].files) /\ Cardinality(DOMAIN sess'[y].files) <= MaxFds
    <3>1. CASE y = s
      BY <2>2, <2>4, <2>5, <3>1
    <3>2. CASE y # s
      BY <1>2, <3>2 DEF SessInv, Within
    <3> QED BY <3>1, <3>2
  <2> QED BY <2>1, <2>6 DEF SessInv
<1>5. ASSUME NEW q \in Programs, NEW g \in Nat, NEW d \in Descs, Held(q, g, d)'
      PROVE  Held(q, g, d) /\ d \in DOMAIN desc'
  <2>0. Has(q) /\ sessions[q] \in 1 .. Len(sess) /\ g \in DOMAIN sess'[sessions[q]].files
        /\ d = sess'[sessions[q]].files[g].host
    BY <1>5 DEF Held, Has, TypeInv, SessOk
  <2>1. Held(q, g, d) /\ (q = p => g # fd)
    <3>1. CASE q = p
      BY <1>1, <1>2, <2>0, <3>1 DEF Held
    <3>2. CASE q # p
      <4>1. sess'[sessions[q]] = sess[sessions[q]]
        BY <1>1, <1>2, <2>0, <3>2, HeldIs DEF Within
      <4> QED BY <2>0, <3>2, <4>1 DEF Held
    <3> QED BY <3>1, <3>2
  <2>2. d # sess[s].files[fd].host
    <3> SUFFICES ASSUME d = sess[s].files[fd].host PROVE FALSE
      OBVIOUS
    <3>1. Held(p, fd, d)
      BY <1>1, <1>3 DEF Held
    <3> QED BY <1>3, <2>1, <3>1, DescOwned
  <2>3. d \in DOMAIN desc
    BY <2>1, DescOwned
  <2> QED BY <1>2, <2>1, <2>2, <2>3
<1>6. DescInv'
  BY <1>5, DescKept
<1> QED BY <1>4, <1>6

(* A file is opened under a number of the session.                         *)
LEMMA OpenInv ==
  ASSUME TypeInv, SessInv, DescInv, NEW p \in Programs, Has(p), NEW of \in Open,
         AddFile(sessions[p], of), UNCHANGED sessions,
         Cardinality(DOMAIN sess[sessions[p]].files) < MaxFds,
         \/ of.host = None /\ desc' = desc
         \/ \E d \in Descs : \E v : of.host = d /\ d \notin DOMAIN desc /\ desc' = With(desc, d, v)
  PROVE  SessInv' /\ DescInv' /\ Within(sessions[p])
<1>1. PICK s \in 1 .. Len(sess) : s = sessions[p]
  BY DEF Has, TypeInv, SessOk
<1>0. sess \in Seq(Session) /\ sess[s].files \in Partial(Nat, Open) /\ sess[s].next \in Nat
  BY SessionParts DEF TypeInv, SessOk
<1>2. PICK n \in Nat : n = sess[s].next
  BY <1>0
<1>3. /\ Len(sess') = Len(sess) /\ sess'[s].box = sess[s].box
      /\ sess'[s].files = With(sess[s].files, n, of)
      /\ \A y \in 1 .. Len(sess) : y # s => sess'[y] = sess[y]
  BY <1>1, <1>2, AddOk DEF TypeInv
<1>4. /\ \A g : g \in DOMAIN sess'[s].files <=> g \in DOMAIN sess[s].files \/ g = n
      /\ sess'[s].files[n] = of
      /\ \A g \in DOMAIN sess[s].files : g # n => sess'[s].files[g] = sess[s].files[g]
  <2>1. PICK f : f = sess[s].files /\ f \in Partial(Nat, Open)
    BY <1>0
  <2>2. PICK v : v = With(f, n, of)
    OBVIOUS
  <2>3. /\ \A g : g \in DOMAIN v <=> g \in DOMAIN f \/ g = n
        /\ v[n] = of /\ \A g \in DOMAIN f : g # n => v[g] = f[g]
    BY <2>2 DEF With
  <2>4. sess'[s].files = v
    BY <1>3, <2>1, <2>2
  <2> QED BY <2>1, <2>3, <2>4
<1>5. SessInv'
  <2>1. \A q \in Programs : Has(q)' => sess'[sessions'[q]].box = q
    BY <1>1, <1>3, HeldIs DEF SessInv, Has, TypeInv, SessOk
  <2>2. IsFiniteSet(DOMAIN sess[s].files) /\ Cardinality(DOMAIN sess[s].files) < MaxFds
    BY <1>1 DEF SessInv
  <2>3. DOMAIN sess'[s].files = DOMAIN sess[s].files \cup {n}
    BY <1>4
  <2>4. /\ IsFiniteSet(DOMAIN sess'[s].files)
        /\ \/ Cardinality(DOMAIN sess'[s].files) = Cardinality(DOMAIN sess[s].files)
           \/ Cardinality(DOMAIN sess'[s].files) = Cardinality(DOMAIN sess[s].files) + 1
    BY <2>2, <2>3, FS_AddElement
  <2>5. Cardinality(DOMAIN sess[s].files) \in Nat /\ MaxFds \in Nat
    BY <2>2, FS_CardinalityType, ServiceAssumption
  <2>6. ASSUME NEW y \in 1 .. Len(sess')
        PROVE  IsFiniteSet(DOMAIN sess'[y].files) /\ Cardinality(DOMAIN sess'[y].files) <= MaxFds
    <3>1. CASE y = s
      BY <2>2, <2>4, <2>5, <3>1
    <3>2. CASE y # s
      BY <1>3, <3>2 DEF SessInv
    <3> QED BY <3>1, <3>2
  <2> QED BY <2>1, <2>6 DEF SessInv
<1>7. /\ \A d \in DOMAIN desc : d \in DOMAIN desc'
      /\ of.host \in Descs => of.host \in DOMAIN desc' /\ of.host \notin DOMAIN desc
  <2>1. CASE of.host = None /\ desc' = desc
    <3>1. None \notin Descs
      BY ServiceAssumption, ProgramsAssumption
    <3> QED BY <2>1, <3>1
  <2>2. CASE \E d \in Descs : \E v : of.host = d /\ d \notin DOMAIN desc /\ desc' = With(desc, d, v)
    <3>1. PICK d \in Descs : of.host = d /\ d \notin DOMAIN desc /\ \E v : desc' = With(desc, d, v)
      BY <2>2
    <3>2. \A e : e \in DOMAIN desc' <=> e \in DOMAIN desc \/ e = d
      BY <3>1 DEF With
    <3> QED BY <3>1, <3>2
  <2> QED BY <2>1, <2>2
<1>8. ASSUME NEW q \in Programs, NEW g \in Nat, NEW d \in Descs, Held(q, g, d)'
      PROVE  Held(q, g, d) \/ (q = p /\ g = n /\ d = of.host)
  <2>0. Has(q) /\ sessions[q] \in 1 .. Len(sess) /\ g \in DOMAIN sess'[sessions[q]].files
        /\ d = sess'[sessions[q]].files[g].host
    BY <1>8 DEF Held, Has, TypeInv, SessOk
  <2>1. CASE q = p
    BY <1>1, <1>4, <2>0, <2>1 DEF Held
  <2>2. CASE q # p
    <3>1. sess'[sessions[q]] = sess[sessions[q]]
      BY <1>1, <1>3, <2>0, <2>2, HeldIs
    <3> QED BY <2>0, <2>2, <3>1 DEF Held
  <2> QED BY <2>1, <2>2
<1>9. ASSUME NEW q \in Programs, NEW z \in Programs, NEW g \in Nat, NEW k \in Nat, NEW d \in Descs,
             Held(q, g, d)'
      PROVE  d \in DOMAIN desc' /\ (Held(z, k, d)' => q = z /\ g = k)
  <2>1. CASE Held(q, g, d)
    <3>1. d \in DOMAIN desc /\ d # of.host
      BY <1>7, <2>1, DescOwned
    <3>2. Held(z, k, d)' => Held(z, k, d)
      BY <1>8, <3>1
    <3> QED BY <1>7, <2>1, <3>1, <3>2, DescOwned
  <2>2. CASE q = p /\ g = n /\ d = of.host
    <3>1. d \in DOMAIN desc' /\ d \notin DOMAIN desc
      BY <1>7, <2>2
    <3>2. ~Held(z, k, d)
      BY <3>1, DescOwned
    <3> QED BY <1>8, <2>2, <3>1, <3>2
  <2>3. Held(q, g, d) \/ (q = p /\ g = n /\ d = of.host)
    BY <1>8, <1>9
  <2> QED BY <2>1, <2>2, <2>3
<1>10. DescInv'
  BY <1>9 DEF DescInv
<1> QED BY <1>1, <1>3, <1>5, <1>10 DEF Within

(* A block is taken from a file or from a listing.                         *)
Takes(s, fd) ==
  LET of == sess[s].files[fd] IN
  /\ fd \in DOMAIN sess[s].files /\ CanRead(of) /\ ~AllRead(of)
  /\ TakeBlock(s, fd) /\ UNCHANGED host

LEMMA TakeIs ==
  ASSUME TypeInv, NEW s \in 1 .. Len(sess), NEW fd, Takes(s, fd)
  PROVE  /\ Len(sess') = Len(sess) /\ DOMAIN desc' = DOMAIN desc /\ fd \in DOMAIN sess[s].files
         /\ Within(s) /\ Alike(sess[s], sess'[s]) /\ sess'[s].next = sess[s].next
         /\ \/ /\ IsDir(sess[s].files[fd]) /\ desc' = desc
               /\ sess'[s].files[fd].pos = sess[s].files[fd].pos + 1
               /\ sess'[s].files[fd].names = sess[s].files[fd].names
               /\ \A g \in DOMAIN sess[s].files : g # fd => sess'[s].files[g] = sess[s].files[g]
            \/ /\ ~IsDir(sess[s].files[fd]) /\ sess' = sess /\ IsFile(sess[s].files[fd].host)
               /\ desc' = Advance(desc, sess[s].files[fd].host)
<1>1. sess \in Seq(Session) /\ fd \in DOMAIN sess[s].files
  BY DEF TypeInv, SessOk, Takes
<1>2. CASE IsDir(sess[s].files[fd]) /\ sess' = Bump(sess, s, fd) /\ desc' = desc
  <2>1. PICK of : of = sess[s].files[fd]
    OBVIOUS
  <2> DEFINE v == [host |-> of.host, names |-> of.names, pos |-> of.pos + 1]
  <2>2. PICK f : f = [sess[s].files EXCEPT ![fd] = v]
    OBVIOUS
  <2>3. /\ of.host \in Descs \cup {None} /\ of.names \in SUBSET Names /\ of.pos \in Nat
        /\ sess[s].files \in Partial(Nat, Open) /\ sess[s].next \in Nat
    BY <1>1, <2>1, SessionParts
  <2>4. v \in Open /\ v.host = of.host /\ v.names = of.names /\ v.pos = of.pos + 1
    BY <2>3 DEF Open
  <2>5. sess' = WithFiles(sess, s, f, sess[s].next)
    BY <1>1, <1>2, <2>1, <2>2, PosForm DEF FileAt
  <2> HIDE DEF v
  <2>6. f \in Partial(Nat, Open)
    BY <1>1, <2>2, <2>3, <2>4, PartialExcept
  <2>7. /\ Len(sess') = Len(sess) /\ sess'[s].box = sess[s].box /\ sess'[s].files = f
        /\ sess'[s].next = sess[s].next /\ Within(s)
    <3>1. sess \in Seq(Session) /\ sess[s].next \in Nat
      BY <1>1, <2>3
    <3> QED BY <2>5, <2>6, <3>1, WithFilesIs DEF Within
  <2>8. /\ DOMAIN f = DOMAIN sess[s].files /\ f[fd] = v
        /\ \A g \in DOMAIN sess[s].files : g # fd => f[g] = sess[s].files[g]
    BY <1>1, <2>2
  <2>9. Alike(sess[s], sess'[s])
    BY <2>1, <2>4, <2>7, <2>8 DEF Alike
  <2> QED BY <1>1, <1>2, <2>1, <2>4, <2>7, <2>8, <2>9
<1>3. CASE ~IsDir(sess[s].files[fd]) /\ desc' = Advance(desc, sess[s].files[fd].host)
           /\ sess' = sess
  <2>1. IsFile(sess[s].files[fd].host)
    BY <1>3 DEF Takes, CanRead
  <2>2. sess[s].files[fd].host \in DOMAIN desc /\ desc \in Partial(Descs, Desc)
    BY <2>1 DEF IsFile, TypeInv, DescOk
  <2>3. DOMAIN desc' = DOMAIN desc
    BY <1>3, <2>2, DescForm
  <2> QED BY <1>1, <1>3, <2>1, <2>3 DEF Alike, Within
<1>4. TakeBlock(s, fd)
  BY DEF Takes
<1> QED BY <1>2, <1>3, <1>4 DEF TakeBlock, Bump, Advance

LEMMA TakeInv ==
  ASSUME TypeInv, SessInv, DescInv, NEW s \in 1 .. Len(sess), NEW fd, Takes(s, fd),
         UNCHANGED sessions
  PROVE  SessInv' /\ DescInv' /\ Within(s)
<1>1. /\ Len(sess') = Len(sess) /\ DOMAIN desc' = DOMAIN desc /\ Alike(sess[s], sess'[s])
      /\ Within(s)
  BY TakeIs
<1>2. \A y \in 1 .. Len(sess) : Alike(sess[y], sess'[y])
  BY <1>1 DEF Alike, Within
<1> QED BY <1>1, <1>2, MovedInv

(* What becomes of a request when it comes: an answer at once, a close, or *)
(* it is put aside.                                                        *)
Reason(s, r, code) ==
  /\ code \in {"OK", "INVAL", "NOMEM", "BADF", "ACCES", "IO"}
  /\ code = "INVAL" => r.op # "close" /\ r.arg = "null"
  /\ code = "NOMEM" => /\ r.op \in {"open", "opendir"}
                       /\ Cardinality(DOMAIN sess[s].files) >= MaxFds
  /\ code = "BADF" => r.op \in FdOps /\ r.fd \notin DOMAIN sess[s].files
  /\ code = "ACCES" => r.op = "read" /\ r.arg = "readonly"
  /\ code = "OK" => /\ r.op = "read" /\ r.arg = "good" /\ r.fd \in DOMAIN sess[s].files
                    /\ CanRead(sess[s].files[r.fd]) /\ AllRead(sess[s].files[r.fd])
Fetching(s, r) ==
  /\ r.arg # "null" /\ r.op \notin {"read", "close"}
  /\ r.op \in {"open", "opendir"} => Cardinality(DOMAIN sess[s].files) < MaxFds
  /\ UNCHANGED <<sess, desc, host>>

LEMMA DispatchIs ==
  ASSUME NEW s, NEW p, NEW r \in Requests, Dispatch(s, p, r)
  PROVE  \/ \E code : Reason(s, r, code) /\ Refuse(s, code)
         \/ Fetching(s, r) /\ Defer(s, p, r, Fetch(p))
         \/ /\ r.op = "close" /\ Closes(s, r.fd)
            /\ \E code \in {"OK", "IO"} :
                 /\ Reply(s, code, 0)
                 /\ code = "IO" => /\ sess[s].files[r.fd].host # None
                                   /\ sess[s].files[r.fd].host \notin DOMAIN desc
         \/ /\ r.op = "read" /\ r.arg = "good" /\ Takes(s, r.fd)
            /\ Defer(s, p, r, LandBlock(p, BlockOf(sess[s].files[r.fd])))
<1>1. CASE r.op \in {"open", "opendir"} /\ DoOpen(s, p, r)
  BY <1>1 DEF DoOpen, Reason, Fetching
<1>2. CASE r.op \in {"mkdir", "unlink"} /\ DoPathOp(s, p, r)
  BY <1>2 DEF DoPathOp, Reason, Fetching
<1>3. CASE r.op = "close" /\ DoClose(s, r)
  <2>1. CASE r.fd \notin DOMAIN sess[s].files /\ Refuse(s, "BADF")
    BY <1>3, <2>1 DEF Reason, FdOps
  <2>2. CASE r.fd \in DOMAIN sess[s].files
    <3> DEFINE of == sess[s].files[r.fd]
    <3>1. /\ sess' = SetFiles(sess, s, Without(sess[s].files, {r.fd}))
          /\ desc' = Without(desc, {of.host})
          /\ Reply(s, IF IsDir(of) \/ of.host \in DOMAIN desc THEN "OK" ELSE "IO", 0)
          /\ UNCHANGED <<pending, host>>
      BY <1>3, <2>2, Zenon DEF DoClose, SetFiles
    <3>2. Closes(s, r.fd)
      BY <2>2, <3>1 DEF Closes
    <3>3. \E code \in {"OK", "IO"} : /\ Reply(s, code, 0)
                                     /\ code = "IO" => of.host # None /\ of.host \notin DOMAIN desc
      <4>1. CASE IsDir(of) \/ of.host \in DOMAIN desc
        BY <3>1, <4>1
      <4>2. CASE ~IsDir(of) /\ of.host \notin DOMAIN desc
        BY <3>1, <4>2 DEF IsDir
      <4> QED BY <4>1, <4>2
    <3> QED BY <1>3, <3>2, <3>3
  <2> QED BY <1>3, <2>1, <2>2 DEF DoClose
<1>4. CASE r.op = "read" /\ DoRead(s, p, r)
  BY <1>4 DEF DoRead, Reason, Takes, FdOps
<1>5. CASE r.op = "write" /\ DoWrite(s, p, r)
  BY <1>5 DEF DoWrite, Reason, Fetching, FdOps
<1> QED BY <1>1, <1>2, <1>3, <1>4, <1>5 DEF Dispatch

-----------------------------------------------------------------------------
(* The service keeps the invariant.                                        *)
LEMMA SessionsForOwn ==
  ASSUME NEW p, Has(p), NEW s \in SessionsFor(p)
  PROVE  s = sessions[p]
BY DEF SessionsFor, Has

LEMMA ReqInv ==
  ASSUME ~Reuse, TypeInv, SessInv, DescInv, CallInv, NEW c \in Cpus, NEW p \in Programs, NEW m,
         ServedFrom(c, p, m), m.t = "req", NEW s, s = sessions[p], NEW r, r = call[p],
         Dispatch(s, p, r)
  PROVE  SessInv' /\ DescInv' /\ CallInv'
<1>1. /\ Home[p] = c /\ Has(p) /\ Proper(p, m) /\ sess[s].box = p /\ s \in 1 .. Len(sess)
      /\ r \in Requests /\ UNCHANGED <<call, sessions>>
  BY OwnSession DEF ServedFrom, progVars
<1>2. CASE \E code : Reason(s, r, code) /\ Refuse(s, code)
  <2>1. PICK code : Reason(s, r, code) /\ Refuse(s, code)
    BY <1>2
  <2>2. code \in Codes /\ Reply(s, code, 0) /\ UNCHANGED <<sess, desc, pending>>
    BY <2>1 DEF Reason, Refuse, Codes, fsVars
  <2>3. Aside(p, m) /\ Within(s)
    BY <2>2 DEF Aside, Within
  <2>4. CallInv'
    BY <2>2, <2>3, ReplyCalls
  <2> QED BY <1>1, <2>2, <2>4, SameInv
<1>3. CASE Fetching(s, r) /\ Defer(s, p, r, Fetch(p))
  <2>1. /\ Fetch(p) \in Down(Home[p]) /\ Fetch(p).by = p /\ Fetch(p).t = "fetch"
    BY PacketMade
  <2>2. /\ r.arg # "null" /\ r.op \notin {"read", "close"} /\ UNCHANGED <<sess, desc>>
        /\ r.op \in {"open", "opendir"} => Cardinality(DOMAIN sess'[s].files) < MaxFds
    BY <1>3 DEF Fetching
  <2>3. Within(s)
    BY <2>2 DEF Within
  <2>4. CallInv'
    BY <1>3, <2>1, <2>2, <2>3, DeferCalls
  <2> QED BY <1>1, <2>2, <2>4, SameInv
<1>4. CASE r.op = "close" /\ Closes(s, r.fd) /\ \E code \in {"OK", "IO"} : Reply(s, code, 0)
  <2>1. PICK code \in Codes : Reply(s, code, 0)
    BY <1>4 DEF Codes
  <2>2. Aside(p, m) /\ Within(s)
    BY <1>1, <1>4, CloseIs DEF Closes, Aside
  <2>3. CallInv'
    BY <2>1, <2>2, ReplyCalls
  <2> QED BY <1>1, <1>4, <2>3, CloseInv
<1>5. CASE /\ r.op = "read" /\ r.arg = "good" /\ Takes(s, r.fd)
           /\ Defer(s, p, r, LandBlock(p, BlockOf(sess[s].files[r.fd])))
  <2>1. BlockOf(sess[s].files[r.fd]) \in Chunk
    BY <1>1, <1>5, BlockOk DEF Takes
  <2>2. PICK x : x = LandBlock(p, BlockOf(sess[s].files[r.fd]))
    OBVIOUS
  <2>3. x \in Down(Home[p]) /\ x.by = p /\ x.t = "land"
    BY <2>1, <2>2, PacketMade
  <2>4. SessInv' /\ DescInv' /\ Within(s)
    BY <1>1, <1>5, TakeInv
  <2>5. CallInv'
    BY <1>5, <2>2, <2>3, <2>4, DeferCalls
  <2> QED BY <2>4, <2>5
<1> QED BY <1>1, <1>2, <1>3, <1>4, <1>5, DispatchIs

(* What was put aside when the answer comes.                               *)
LEMMA AsideIs ==
  ASSUME TypeInv, SessInv, CallInv, NEW c \in Cpus, NEW p \in Programs, NEW m,
         ServedFrom(c, p, m), m.t \in {"bytes", "landed"}
  PROVE  /\ m.id \in DOMAIN pending /\ pending[m.id].op = call[p].op
         /\ pending[m.id].s = sessions[p] /\ pending[m.id].fd = call[p].fd
         /\ pending[m.id].flags = call[p].flags
         /\ call[p].op \in {"open", "opendir"} =>
              Cardinality(DOMAIN sess[sessions[p]].files) < MaxFds
         /\ call[p].arg # "null"
         /\ m.t = "bytes" => call[p].op \notin {"read", "close"} /\ (m.ok => m.r = call[p])
         /\ m.t = "landed" => call[p].op = "read" /\ (m.ok => buf[p] = m.block)
<1>1. Proper(p, m)
  BY OwnSession
<1>2. PutAside(p, m)
  BY <1>1 DEF Proper
<1> QED BY <1>1, <1>2 DEF Proper, PutAside

(* Answers that change no session.                                         *)
LEMMA AnsweredInv ==
  ASSUME TypeInv, SessInv, DescInv, CallInv, NEW c \in Cpus, NEW p \in Programs, NEW m,
         ServedFrom(c, p, m), m.t \in {"bytes", "landed"}, pending' = Without(pending, {m.id}),
         NEW code \in Codes, NEW k \in Nat, Reply(sessions[p], code, k), sess' = sess,
         DOMAIN desc' = DOMAIN desc
  PROVE  SessInv' /\ DescInv' /\ CallInv'
<1>1. Aside(p, m) /\ Within(sessions[p]) /\ sessions' = sessions
  BY DEF Aside, Within, ServedFrom
<1>2. CallInv'
  BY <1>1, ReplyCalls
<1> QED BY <1>1, <1>2, SameInv

LEMMA OpenFileInv ==
  ASSUME TypeInv, SessInv, DescInv, CallInv, NEW c \in Cpus, NEW p \in Programs, NEW m,
         ServedFrom(c, p, m), m.t = "bytes", pending' = Without(pending, {m.id}),
         NEW n, NEW flags, call[p].op = "open", OpenFile(sessions[p], n, flags)
  PROVE  SessInv' /\ DescInv' /\ CallInv'
<1>0. PICK s \in 1 .. Len(sess) : s = sessions[p]
  BY OwnSession
<1>1. CASE \E code \in {"ACCES", "INVAL", "IO", "NOENT"} :
             Reply(sessions[p], code, 0) /\ UNCHANGED <<sess, desc, host>>
  <2>1. PICK code \in Codes : Reply(sessions[p], code, 0) /\ UNCHANGED <<sess, desc, host>>
    BY <1>1 DEF Codes
  <2> QED BY <2>1, AnsweredInv
<1>2. CASE Opens(sessions[p], n, flags)
  <2>1. PICK d \in Descs : /\ d \notin DOMAIN desc /\ \E v : desc' = With(desc, d, v)
                           /\ AddFile(sessions[p], [host |-> d, names |-> {}, pos |-> 0])
    BY <1>2, Zenon DEF Opens, NewDesc
  <2>2. Reply(sessions[p], "OK", sess[s].next)
    BY <1>0, <1>2 DEF Opens
  <2>3. sess[s].next \in Nat
    BY SessionParts DEF TypeInv, SessOk
  <2>4. PICK of \in Open : of.host = d /\ AddFile(sessions[p], of)
    BY <2>1 DEF Open
  <2>5. Cardinality(DOMAIN sess[sessions[p]].files) < MaxFds /\ Has(p)
    BY AsideIs, OwnSession
  <2>6. UNCHANGED sessions
    BY DEF ServedFrom
  <2>7. SessInv' /\ DescInv' /\ Within(sessions[p])
    BY <2>1, <2>4, <2>5, <2>6, OpenInv
  <2>8. Aside(p, m)
    BY DEF Aside
  <2>9. CallInv'
    BY <2>2, <2>3, <2>7, <2>8, ReplyCalls DEF Codes
  <2> QED BY <2>7, <2>9
<1> QED BY <1>1, <1>2, OpenFileIs

LEMMA OpenDirInv ==
  ASSUME TypeInv, SessInv, DescInv, CallInv, NEW c \in Cpus, NEW p \in Programs, NEW m,
         ServedFrom(c, p, m), m.t = "bytes", pending' = Without(pending, {m.id}),
         NEW n \in Names, call[p].op = "opendir", OpenDir(sessions[p], n)
  PROVE  SessInv' /\ DescInv' /\ CallInv'
<1>0. PICK s \in 1 .. Len(sess) : s = sessions[p]
  BY OwnSession
<1>1. CASE \E code \in Codes : Reply(sessions[p], code, 0) /\ UNCHANGED <<sess, desc>>
  BY <1>1, AnsweredInv
<1>2. CASE /\ AddFile(sessions[p], [host |-> None, names |-> Listing(host, n), pos |-> 0])
           /\ Reply(sessions[p], "OK", sess[sessions[p]].next) /\ UNCHANGED desc
  <2>1. sess[s].next \in Nat
    BY SessionParts DEF TypeInv, SessOk
  <2>2. Listing(host, n) \in SUBSET Names
    BY DEF Listing
  <2>3. PICK of \in Open : of.host = None /\ AddFile(sessions[p], of)
    BY <1>2, <2>2 DEF Open
  <2>4. Cardinality(DOMAIN sess[sessions[p]].files) < MaxFds /\ Has(p)
    BY AsideIs, OwnSession
  <2>5. UNCHANGED sessions
    BY DEF ServedFrom
  <2>6. SessInv' /\ DescInv' /\ Within(sessions[p])
    BY <1>2, <2>3, <2>4, <2>5, OpenInv
  <2>7. Aside(p, m)
    BY DEF Aside
  <2>8. CallInv'
    BY <1>0, <1>2, <2>1, <2>6, <2>7, ReplyCalls DEF Codes
  <2> QED BY <2>6, <2>8
<1> QED BY <1>1, <1>2 DEF OpenDir, ListError, Codes

LEMMA BytesInv ==
  ASSUME TypeInv, SessInv, DescInv, CallInv, NEW c \in Cpus, NEW p \in Programs, NEW m,
         ServedFrom(c, p, m), HandleReadResp(m)
  PROVE  SessInv' /\ DescInv' /\ CallInv'
<1>1. m.t = "bytes" /\ m \in Up(c) /\ m.by = p
  BY OwnSession DEF HandleReadResp, ServedFrom
<1>2. PICK s \in 1 .. Len(sess), pr \in Deferred : s = sessions[p] /\ pr = pending[m.id]
  BY <1>1, AsideIs, OwnSession, PartialIs DEF TypeInv, PendOk
<1>3. /\ m.id \in DOMAIN pending /\ pr.op = call[p].op /\ pr.s = s
      /\ call[p].op \notin {"read", "close"} /\ (m.ok => m.r.name \in Names)
  <2>1. /\ m.id \in DOMAIN pending /\ pr.op = call[p].op /\ pr.s = s
        /\ call[p].op \notin {"read", "close"} /\ (m.ok => m.r = call[p])
    BY <1>1, <1>2, AsideIs
  <2> QED BY <2>1, OwnSession, RequestParts
<1>4. pending' = Without(pending, {m.id}) /\ Resumes(s, pr, m)
  BY <1>2, <1>3, ReadRespIs
<1>5. CASE \E code \in Codes, k \in Nat : /\ Reply(s, code, k) /\ sess' = sess
                                        /\ DOMAIN desc' = DOMAIN desc
  BY <1>1, <1>2, <1>4, <1>5, AnsweredInv
<1>6. CASE OpenFile(s, m.r.name, pr.flags) /\ pr.op = "open"
  BY <1>1, <1>2, <1>3, <1>4, <1>6, OpenFileInv
<1>7. CASE OpenDir(s, m.r.name) /\ m.ok /\ pr.op = "opendir"
  BY <1>1, <1>2, <1>3, <1>4, <1>7, OpenDirInv
<1>8. CASE m.ok /\ (MkdirPath(s, m.r.name) \/ UnlinkPath(s, m.r.name))
  BY <1>5, <1>8 DEF MkdirPath, UnlinkPath, MkdirError, UnlinkError, Codes
<1>9. CASE m.ok /\ WriteFile(s, pr.fd, m.by)
  <2>1. sess' = sess
    BY <1>9, WriteFileIs
  <2>2. CASE (Reply(s, "BADF", 0) \/ Reply(s, "IO", 0)) /\ UNCHANGED <<desc, host>>
    BY <1>5, <2>1, <2>2 DEF Codes
  <2>3. CASE Writes(s, pr.fd, m.by)
    <3>1. PICK d : d \in DOMAIN desc /\ desc' = Advance(desc, d) /\ Reply(s, "OK", 1)
      BY <2>3 DEF Writes, IsFile
    <3>2. DOMAIN desc' = DOMAIN desc
      BY <3>1, DescForm DEF TypeInv, DescOk
    <3> QED BY <1>5, <2>1, <3>1, <3>2 DEF Codes
  <2> QED BY <1>9, <2>2, <2>3, WriteFileIs
<1>10. CASE ~m.ok /\ Reply(s, "IO", 0) /\ UNCHANGED <<sess, desc, host>>
  BY <1>5, <1>10 DEF Codes
<1> QED BY <1>3, <1>4, <1>6, <1>7, <1>8, <1>9, <1>10 DEF Resumes

LEMMA LandedInv ==
  ASSUME TypeInv, SessInv, DescInv, CallInv, NEW c \in Cpus, NEW p \in Programs, NEW m,
         ServedFrom(c, p, m), HandleWriteResp(m)
  PROVE  SessInv' /\ DescInv' /\ CallInv'
<1>1. m.t = "landed"
  BY DEF HandleWriteResp
<1>2. m.id \in DOMAIN pending /\ pending[m.id].op = "read" /\ pending[m.id].s = sessions[p]
  BY <1>1, AsideIs
<1>3. /\ pending' = Without(pending, {m.id}) /\ UNCHANGED <<sess, desc>>
      /\ Reply(sessions[p], "OK", 1) \/ Reply(sessions[p], "IO", 0)
  BY <1>2 DEF HandleWriteResp
<1> QED BY <1>1, <1>3, AnsweredInv DEF Codes

LEMMA PacketInv ==
  ASSUME ~Reuse, Inv, NEW c \in Cpus, HandlePacket(c)
  PROVE  SessInv' /\ DescInv' /\ CallInv'
<1> USE DEF Inv
<1>1. PICK m : m = Head(toFs[c])
  OBVIOUS
<1>2. /\ toFs[c] # <<>> /\ toFs' = [toFs EXCEPT ![c] = Tail(toFs[c])] /\ UNCHANGED progVars
      /\ HandleSend(m) \/ HandleReadResp(m) \/ HandleWriteResp(m)
  BY <1>1 DEF HandlePacket
<1>3. PICK p \in Programs : p = m.by
  BY <1>1, <1>2, HeadAsked
<1>4. CASE \/ m.t = "sub" /\ Subscribe(m.by)
           \/ m.t = "unsub" /\ Unsubscribe(m.by)
  BY <1>1, <1>2, <1>3, <1>4, NoteCalls, SubscribeInv, UnsubscribeInv
<1>5. CASE m.t = "req" /\ HandleSend(m)
  <2>1. Has(p) /\ Proper(p, m)
    BY <1>1, <1>2, <1>3, <1>5, HeadAsked
  <2>2. m.r = call[p]
    BY <1>5, <2>1 DEF Proper
  <2>3. SessionsFor(p) # {}
    BY <2>1 DEF SessionsFor, Has
  <2>4. PICK s \in SessionsFor(p) : Dispatch(s, p, m.r)
    BY <1>3, <1>5, <2>3 DEF HandleSend
  <2>5. s = sessions[p]
    BY <2>1, SessionsForOwn
  <2>6. sessions' = sessions
    BY <2>4 DEF Dispatch, DoOpen, DoPathOp, DoClose, DoRead, DoWrite, Refuse, fsVars
  <2>7. ServedFrom(c, p, m)
    BY <1>1, <1>2, <1>3, <1>5, <2>6 DEF ServedFrom
  <2> QED BY <1>5, <2>2, <2>4, <2>5, <2>7, ReqInv
<1>6. CASE HandleReadResp(m) \/ HandleWriteResp(m)
  <2>1. m.t \in {"bytes", "landed"} /\ sessions' = sessions
    BY <1>6 DEF HandleReadResp, HandleWriteResp, fsVars
  <2>2. ServedFrom(c, p, m)
    BY <1>1, <1>2, <1>3, <2>1 DEF ServedFrom
  <2> QED BY <1>6, <2>2, BytesInv, LandedInv
<1> QED BY <1>2, <1>4, <1>5, <1>6 DEF HandleSend

-----------------------------------------------------------------------------
LEMMA InvFirst == Init => Inv
<1> SUFFICES ASSUME Init PROVE Inv
  OBVIOUS
<1>1. TypeInv
  BY TypeFirst
<1>2. \A p \in Programs : ~Has(p)
  BY DEF Init, Has
<1>3. Len(sess) = 0
  BY EmptySeq DEF Init
<1>4. SessInv
  BY <1>2, <1>3 DEF SessInv
<1>5. DescInv
  BY <1>2 DEF DescInv, Held
<1>6. CallInv
  <2> SUFFICES ASSUME NEW p \in Programs PROVE Idle(p)
    BY DEF CallInv, Situation
  <2>1. Fs(p) = <<>> /\ Cpu(p) = <<>> /\ mbox[p] = <<>> /\ prog[p] = "new"
    BY ProgramsAssumption DEF Init, Fs, Cpu
  <2>2. Free(<<>>, p)
    BY DEF Free
  <2> QED BY <2>1, <2>2 DEF Idle
<1> QED BY <1>1, <1>4, <1>5, <1>6 DEF Inv

LEMMA InvStep ==
  ASSUME ~Reuse, ~EarlyReset, ~LeaveShared
  PROVE  Inv /\ [Next]_vars => Inv'
<1> SUFFICES ASSUME Inv, [Next]_vars PROVE Inv'
  OBVIOUS
<1>0. TypeInv /\ SessInv /\ DescInv /\ CallInv
  BY DEF Inv
<1>1. TypeInv'
  BY <1>0, TypeStep
<1>2. CASE UNCHANGED vars
  <2>1. SessInv' /\ DescInv'
    BY <1>0, <1>2, SameInv DEF vars
  <2>2. ASSUME NEW q \in Programs PROVE Situation(q)'
    BY <1>0, <1>2, QueuesStay DEF vars, Fs, Cpu
  <2> QED BY <1>1, <2>1, <2>2 DEF Inv, CallInv
<1>3. CASE \E p \in Programs : HfInit(p) \/ Leave(p) \/ HfCall(p) \/ HfWait(p) \/ Die(p)
  <2>1. UNCHANGED fsVars
    BY <1>3 DEF HfInit, Leave, HfCall, HfWait, Die
  <2>2. SessInv' /\ DescInv'
    BY <1>0, <2>1, SameInv DEF fsVars
  <2>3. CallInv'
    BY <1>0, <1>3, InitCalls, LeaveCalls, CallCalls, WaitCalls, DieCalls
  <2> QED BY <1>1, <2>2, <2>3 DEF Inv
<1>4. CASE \E c \in Cpus : CpuEnds(c) \/ CpuStarts(c) \/ Answer(c)
  <2>1. UNCHANGED fsVars
    BY <1>4, AnswerIs DEF CpuEnds, CpuStarts
  <2>2. SessInv' /\ DescInv'
    BY <1>0, <2>1, SameInv DEF fsVars
  <2>3. CallInv'
    BY <1>0, <1>4, CpuCalls, AnswerCalls
  <2> QED BY <1>1, <2>2, <2>3 DEF Inv
<1>5. CASE \E c \in Cpus : HandlePacket(c)
  BY <1>1, <1>5, PacketInv DEF Inv
<1> QED BY <1>2, <1>3, <1>4, <1>5 DEF Next

-----------------------------------------------------------------------------
(* What the invariant says of the packets that bear an id.                 *)
LEMMA UpWire ==
  ASSUME Inv, NEW c \in Cpus, NEW i \in DOMAIN toFs[c], NEW m, m = toFs[c][i], m.id # None
  PROVE  /\ m.by \in Programs /\ Home[m.by] = c /\ Has(m.by) /\ PutAside(m.by, m)
         /\ Asked(m.by) /\ Sole(toFs[c], m.by, i) /\ m.t \in {"bytes", "landed"}
         /\ m.t = "landed" <=> call[m.by].op = "read"
<1>1. toFs[c] \in Seq(Up(c))
  BY DEF Inv, TypeInv, UpOk
<1>2. i \in 1 .. Len(toFs[c]) /\ m \in Up(c)
  BY <1>1, LenProperties, SeqParts
<1>3. m \in Packet /\ Home[m.by] = c /\ m.t \in {"bytes", "landed"}
  BY <1>2 DEF Up
<1>4. PICK p \in Programs : p = m.by
  BY <1>3, PacketParts
<1>5. Fs(p) = toFs[c] /\ OwnCall(m, p)
  BY <1>3, <1>4 DEF Fs, OwnCall
<1>6. ~Free(Fs(p), p)
  BY <1>2, <1>5 DEF Free
<1>7. Asked(p)
  BY <1>6 DEF Inv, CallInv, Situation, Idle, Served, Told
<1>8. PICK j : AskedAt(p, j)
  BY <1>7 DEF Asked
<1>9. Sole(Fs(p), p, j)
  BY <1>8 DEF AskedAt
<1>10. i = j
  BY <1>2, <1>5, <1>9 DEF Sole
<1>11. Proper(p, m) /\ Settled(Fs(p), p, 0, Has(p))
  BY <1>3, <1>5, <1>8, <1>10 DEF AskedAt
<1>12. Has(p)
  <2>1. PICK has \in BOOLEAN : has = Has(p)
    BY DEF Has
  <2> QED BY <1>11, <2>1, MemberNone DEF Settled
<1>13. PutAside(p, m) /\ (m.t = "landed" <=> call[p].op = "read")
  BY <1>3, <1>11 DEF Proper
<1> QED BY <1>3, <1>4, <1>5, <1>7, <1>9, <1>10, <1>12, <1>13

LEMMA DownWire ==
  ASSUME Inv, NEW c \in Cpus, NEW i \in DOMAIN toCpu[c], NEW m, m = toCpu[c][i], m.id # None
  PROVE  /\ m.by \in Programs /\ Home[m.by] = c /\ Has(m.by) /\ PutAside(m.by, m)
         /\ Served(m.by) /\ Sole(toCpu[c], m.by, i) /\ m.t \in {"fetch", "land"}
         /\ m.t = "land" <=> call[m.by].op = "read"
<1>1. toCpu[c] \in Seq(Down(c))
  BY DEF Inv, TypeInv, DownOk
<1>2. i \in 1 .. Len(toCpu[c]) /\ m \in Down(c)
  BY <1>1, LenProperties, SeqParts
<1>3. m \in Packet /\ Home[m.by] = c /\ m.t \in {"fetch", "land"}
  BY <1>2 DEF Down
<1>4. PICK p \in Programs : p = m.by
  BY <1>3, PacketParts
<1>5. Cpu(p) = toCpu[c] /\ OwnCall(m, p)
  BY <1>3, <1>4 DEF Cpu, OwnCall
<1>6. ~Free(Cpu(p), p)
  BY <1>2, <1>5 DEF Free
<1>7. Served(p)
  BY <1>6 DEF Inv, CallInv, Situation, Idle, Asked, Told
<1>8. PICK j : Sole(Cpu(p), p, j) /\ Proper(p, Cpu(p)[j])
  BY <1>7 DEF Served
<1>9. i = j
  BY <1>2, <1>5, <1>8 DEF Sole
<1>10. Proper(p, m) /\ Settled(Fs(p), p, 0, Has(p))
  BY <1>5, <1>7, <1>8, <1>9 DEF Served
<1>11. Has(p)
  <2>1. PICK has \in BOOLEAN : has = Has(p)
    BY DEF Has
  <2> QED BY <1>10, <2>1, MemberNone DEF Settled
<1>12. PutAside(p, m) /\ (m.t = "land" <=> call[p].op = "read")
  BY <1>3, <1>10 DEF Proper
<1> QED BY <1>3, <1>4, <1>5, <1>7, <1>8, <1>9, <1>11, <1>12

(* The processes the packets with an id belong to.                         *)
LEMMA SamePending ==
  ASSUME Inv, NEW p \in Programs, NEW q \in Programs, NEW m, NEW n,
         Has(p), Has(q), PutAside(p, m), PutAside(q, n), m.id = n.id
  PROVE  p = q
<1>1. sessions[p] = sessions[q]
  BY DEF PutAside
<1>2. sess[sessions[p]].box = p /\ sess[sessions[q]].box = q
  BY DEF Inv, SessInv
<1> QED BY <1>1, <1>2

LEMMA InUseOwned ==
  ASSUME Inv, NEW s \in InUse
  PROVE  \E p \in Programs : Has(p) /\ s = sessions[p]
<1>1. CASE \E t \in DOMAIN pending \cap IdsOnWire : s = pending[t].s
  <2>1. PICK t \in DOMAIN pending \cap IdsOnWire : s = pending[t].s
    BY <1>1
  <2>2. t # None
    BY <2>1, PendingParts, ServiceAssumption DEF Inv, TypeInv
  <2>5. PICK c \in Cpus : \E m \in Members(toFs[c]) \cup Members(toCpu[c]) : m.id = t
    BY <2>1 DEF IdsOnWire
  <2>3. PICK m \in Members(toFs[c]) \cup Members(toCpu[c]) : m.id = t
    BY <2>5
  <2>4. m.by \in Programs /\ Has(m.by) /\ PutAside(m.by, m)
    <3>1. CASE m \in Members(toFs[c])
      <4>1. PICK i \in DOMAIN toFs[c] : m = toFs[c][i]
        BY <3>1 DEF Members
      <4> QED BY <2>2, <2>3, <4>1, UpWire
    <3>2. CASE m \in Members(toCpu[c])
      <4>1. PICK i \in DOMAIN toCpu[c] : m = toCpu[c][i]
        BY <3>2 DEF Members
      <4> QED BY <2>2, <2>3, <4>1, DownWire
    <3> QED BY <3>1, <3>2
  <2> QED BY <2>1, <2>3, <2>4 DEF PutAside
<1>2. CASE \E p \in Programs : Has(p) /\ s = sessions[p]
  BY <1>2
<1> QED BY <1>1, <1>2 DEF InUse, Has

LEMMA OwnDescriptorHolds == Inv => OwnDescriptor
<1> SUFFICES ASSUME Inv, NEW s \in InUse, NEW z \in InUse, NEW fd \in DOMAIN sess[s].files,
                    NEW g \in DOMAIN sess[z].files, sess[s].files[fd].host # None
             PROVE  /\ sess[s].files[fd].host \in DOMAIN desc
                    /\ sess[s].files[fd].host = sess[z].files[g].host => s = z /\ fd = g
  BY DEF OwnDescriptor
<1>1. PICK p \in Programs : Has(p) /\ s = sessions[p]
  BY InUseOwned
<1>2. PICK q \in Programs : Has(q) /\ z = sessions[q]
  BY InUseOwned
<1>3. s \in 1 .. Len(sess) /\ z \in 1 .. Len(sess) /\ sess \in Seq(Session) /\ DescInv
  BY <1>1, <1>2 DEF Has, Inv, TypeInv, SessOk
<1>4. fd \in Nat /\ g \in Nat /\ sess[s].files[fd].host \in Descs
  BY <1>3, SessionParts
<1>5. Held(p, fd, sess[s].files[fd].host)
  BY <1>1 DEF Held
<1>6. sess[s].files[fd].host = sess[z].files[g].host => Held(q, g, sess[s].files[fd].host)
  BY <1>2 DEF Held
<1> QED BY <1>1, <1>2, <1>3, <1>4, <1>5, <1>6, DescOwned


-----------------------------------------------------------------------------
(* Answers find their requests.                                            *)
LEMMA CountNone ==
  ASSUME NEW q, NEW t, \A i \in DOMAIN q : q[i].id # t
  PROVE  Count(q, t) = 0
<1>1. {i \in DOMAIN q : q[i].id = t} = {}
  OBVIOUS
<1> QED BY <1>1, FS_EmptySet DEF Count

LEMMA CountOne ==
  ASSUME NEW q, NEW t, NEW k \in DOMAIN q, \A i \in DOMAIN q : q[i].id = t <=> i = k
  PROVE  Count(q, t) = 1
<1>1. {i \in DOMAIN q : q[i].id = t} = {k}
  OBVIOUS
<1> QED BY <1>1, FS_Singleton DEF Count

(* Where a program has a packet it has it once, and no other packet bears  *)
(* its id.                                                                 *)
LEMMA UpOnce ==
  ASSUME Inv, NEW c \in Cpus, NEW i \in DOMAIN toFs[c], toFs[c][i].id # None, NEW d \in Cpus
  PROVE  /\ \A j \in DOMAIN toFs[d] : toFs[d][j].id = toFs[c][i].id <=> d = c /\ j = i
         /\ \A j \in DOMAIN toCpu[d] : toCpu[d][j].id # toFs[c][i].id
<1>1. PICK m : m = toFs[c][i]
  OBVIOUS
<1>2. PICK p \in Programs : p = m.by
  BY <1>1, UpWire
<1>3. Home[p] = c /\ Has(p) /\ PutAside(p, m) /\ Asked(p) /\ Sole(toFs[c], p, i)
  BY <1>1, <1>2, UpWire
<1>4. toFs[c] \in Seq(Up(c)) /\ toCpu[c] \in Seq(Down(c)) /\ Home \in [Programs -> Cpus]
  BY ProgramsAssumption DEF Inv, TypeInv, UpOk, DownOk
<1>5. ASSUME NEW j \in DOMAIN toFs[d], toFs[d][j].id = m.id
      PROVE  d = c /\ j = i
  <2>1. PICK n : n = toFs[d][j]
    OBVIOUS
  <2>2. PICK q \in Programs : q = n.by
    BY <1>1, <1>5, <2>1, UpWire
  <2>3. Home[q] = d /\ Has(q) /\ PutAside(q, n) /\ Sole(toFs[d], q, j)
    BY <1>1, <1>5, <2>1, <2>2, UpWire
  <2>4. q = p
    BY <1>3, <1>5, <2>1, <2>3, SamePending
  <2>5. d = c
    BY <1>3, <2>3, <2>4
  <2>6. j \in 1 .. Len(toFs[c]) /\ OwnCall(toFs[c][j], p)
    BY <2>3, <2>4, <2>5 DEF Sole
  <2> QED BY <1>3, <2>5, <2>6 DEF Sole
<1>6. ASSUME NEW j \in DOMAIN toCpu[d], toCpu[d][j].id = m.id
      PROVE  FALSE
  <2>1. PICK n : n = toCpu[d][j]
    OBVIOUS
  <2>2. PICK q \in Programs : q = n.by
    BY <1>1, <1>6, <2>1, DownWire
  <2>3. Home[q] = d /\ Has(q) /\ PutAside(q, n) /\ Sole(toCpu[d], q, j)
    BY <1>1, <1>6, <2>1, <2>2, DownWire
  <2>4. q = p
    BY <1>3, <1>6, <2>1, <2>3, SamePending
  <2>5. Sole(Cpu(p), p, j)
    BY <1>3, <2>3, <2>4 DEF Cpu
  <2> QED BY <1>3, <2>5 DEF Asked, Free, Sole
<1> QED BY <1>1, <1>5, <1>6

LEMMA DownOnce ==
  ASSUME Inv, NEW c \in Cpus, NEW i \in DOMAIN toCpu[c], toCpu[c][i].id # None, NEW d \in Cpus
  PROVE  /\ \A j \in DOMAIN toCpu[d] : toCpu[d][j].id = toCpu[c][i].id <=> d = c /\ j = i
         /\ \A j \in DOMAIN toFs[d] : toFs[d][j].id # toCpu[c][i].id
<1>1. PICK m : m = toCpu[c][i]
  OBVIOUS
<1>2. PICK p \in Programs : p = m.by
  BY <1>1, DownWire
<1>3. Home[p] = c /\ Has(p) /\ PutAside(p, m) /\ Served(p) /\ Sole(toCpu[c], p, i)
  BY <1>1, <1>2, DownWire
<1>5. ASSUME NEW j \in DOMAIN toCpu[d], toCpu[d][j].id = m.id
      PROVE  d = c /\ j = i
  <2>1. PICK n : n = toCpu[d][j]
    OBVIOUS
  <2>2. PICK q \in Programs : q = n.by
    BY <1>1, <1>5, <2>1, DownWire
  <2>3. Home[q] = d /\ Has(q) /\ PutAside(q, n) /\ Sole(toCpu[d], q, j)
    BY <1>1, <1>5, <2>1, <2>2, DownWire
  <2>4. q = p
    BY <1>3, <1>5, <2>1, <2>3, SamePending
  <2>5. d = c
    BY <1>3, <2>3, <2>4
  <2>6. j \in 1 .. Len(toCpu[c]) /\ OwnCall(toCpu[c][j], p)
    BY <2>3, <2>4, <2>5 DEF Sole
  <2> QED BY <1>3, <2>5, <2>6 DEF Sole
<1>6. ASSUME NEW j \in DOMAIN toFs[d], toFs[d][j].id = m.id
      PROVE  FALSE
  <2>1. PICK n : n = toFs[d][j]
    OBVIOUS
  <2>2. PICK q \in Programs : q = n.by
    BY <1>1, <1>6, <2>1, UpWire
  <2>3. Home[q] = d /\ Has(q) /\ PutAside(q, n) /\ Sole(toFs[d], q, j)
    BY <1>1, <1>6, <2>1, <2>2, UpWire
  <2>4. q = p
    BY <1>3, <1>6, <2>1, <2>3, SamePending
  <2>5. Sole(Fs(p), p, j)
    BY <1>3, <2>3, <2>4 DEF Fs
  <2> QED BY <1>3, <2>5 DEF Served, Free, Sole
<1> QED BY <1>1, <1>5, <1>6

LEMMA PendingOf ==
  ASSUME Inv, NEW p \in Programs, NEW m, Has(p), PutAside(p, m)
  PROVE  /\ m.id \in DOMAIN pending /\ pending[m.id].op = call[p].op
         /\ sess[pending[m.id].s].box = p
<1>1. m.id \in DOMAIN pending /\ pending[m.id].op = call[p].op /\ pending[m.id].s = sessions[p]
  BY DEF PutAside
<1> QED BY <1>1 DEF Inv, SessInv

LEMMA MatchedHolds == Inv => Matched
<1> SUFFICES ASSUME Inv PROVE Matched
  OBVIOUS
<1>1. ASSUME NEW c \in Cpus, NEW i \in DOMAIN toFs[c], NEW m, m = toFs[c][i], m.id # None
      PROVE  /\ m.id \in DOMAIN pending
             /\ Home[sess[pending[m.id].s].box] = c
             /\ m.t \in {"land", "landed"} <=> pending[m.id].op = "read"
             /\ \A d \in Cpus \ {c} : Count(toFs[d], m.id) + Count(toCpu[d], m.id) = 0
             /\ Count(toFs[c], m.id) + Count(toCpu[c], m.id) = 1
  <2>1. PICK p \in Programs : p = m.by
    BY <1>1, UpWire
  <2>2. /\ Home[p] = c /\ Has(p) /\ PutAside(p, m) /\ m.t \in {"bytes", "landed"}
        /\ m.t = "landed" <=> call[p].op = "read"
    BY <1>1, <2>1, UpWire
  <2>3. /\ m.id \in DOMAIN pending /\ pending[m.id].op = call[p].op
        /\ sess[pending[m.id].s].box = p
    BY <2>2, PendingOf
  <2>4. ASSUME NEW d \in Cpus \ {c} PROVE Count(toFs[d], m.id) = 0 /\ Count(toCpu[d], m.id) = 0
    BY <1>1, UpOnce, CountNone
  <2>5. Count(toFs[c], m.id) = 1 /\ Count(toCpu[c], m.id) = 0
    BY <1>1, UpOnce, CountNone, CountOne
  <2> QED BY <2>2, <2>3, <2>4, <2>5
<1>2. ASSUME NEW c \in Cpus, NEW i \in DOMAIN toCpu[c], NEW m, m = toCpu[c][i], m.id # None
      PROVE  /\ m.id \in DOMAIN pending
             /\ Home[sess[pending[m.id].s].box] = c
             /\ m.t \in {"land", "landed"} <=> pending[m.id].op = "read"
             /\ \A d \in Cpus \ {c} : Count(toFs[d], m.id) + Count(toCpu[d], m.id) = 0
             /\ Count(toFs[c], m.id) + Count(toCpu[c], m.id) = 1
  <2>1. PICK p \in Programs : p = m.by
    BY <1>2, DownWire
  <2>2. /\ Home[p] = c /\ Has(p) /\ PutAside(p, m) /\ m.t \in {"fetch", "land"}
        /\ m.t = "land" <=> call[p].op = "read"
    BY <1>2, <2>1, DownWire
  <2>3. /\ m.id \in DOMAIN pending /\ pending[m.id].op = call[p].op
        /\ sess[pending[m.id].s].box = p
    BY <2>2, PendingOf
  <2>4. ASSUME NEW d \in Cpus \ {c} PROVE Count(toFs[d], m.id) = 0 /\ Count(toCpu[d], m.id) = 0
    BY <1>2, DownOnce, CountNone
  <2>5. Count(toCpu[c], m.id) = 1 /\ Count(toFs[c], m.id) = 0
    BY <1>2, DownOnce, CountNone, CountOne
  <2> QED BY <2>2, <2>3, <2>4, <2>5
<1> SUFFICES ASSUME NEW c \in Cpus, NEW q \in {toFs[c], toCpu[c]}, NEW i \in DOMAIN q,
                    q[i].id # None
             PROVE  /\ q[i].id \in DOMAIN pending
                    /\ Home[sess[pending[q[i].id].s].box] = c
                    /\ q[i].t \in {"land", "landed"} <=> pending[q[i].id].op = "read"
                    /\ \A d \in Cpus \ {c} : Count(toFs[d], q[i].id) + Count(toCpu[d], q[i].id) = 0
                    /\ Count(toFs[c], q[i].id) + Count(toCpu[c], q[i].id) = 1
  BY DEF Matched
<1>3. PICK m : m = q[i]
  OBVIOUS
<1>4. CASE q = toFs[c]
  BY <1>1, <1>3, <1>4
<1>5. CASE q = toCpu[c]
  BY <1>2, <1>3, <1>5
<1> QED BY <1>4, <1>5

(* The packet of a call, wherever it is.                                   *)
LEMMA WireUp ==
  ASSUME Inv, NEW p \in Programs, NEW i, Sole(Fs(p), p, i), Free(Cpu(p), p), mbox[p] = <<>>
  PROVE  OnWire(p) = {Fs(p)[i]}
<1>1. /\ Fs(p) = toFs[Home[p]] /\ Cpu(p) = toCpu[Home[p]]
      /\ DOMAIN Fs(p) = 1 .. Len(Fs(p)) /\ DOMAIN Cpu(p) = 1 .. Len(Cpu(p))
      /\ DOMAIN mbox[p] = {}
  BY HomeOk, LenProperties, EmptySeq DEF Fs, Cpu, Inv
<1>2. \A m : m \in OnWire(p) <=>
        /\ OwnCall(m, p)
        /\ m \in Members(mbox[p]) \/ m \in Members(Cpu(p)) \/ m \in Members(Fs(p))
  BY <1>1 DEF OnWire, OwnCall
<1>3. \A m : m \notin Members(mbox[p])
  BY <1>1 DEF Members
<1>4. \A m \in Members(Cpu(p)) : ~OwnCall(m, p)
  BY <1>1 DEF Members, Free
<1>5. \A m : m \in Members(Fs(p)) /\ OwnCall(m, p) <=> m = Fs(p)[i]
  BY <1>1 DEF Members, Sole
<1> QED BY <1>2, <1>3, <1>4, <1>5

LEMMA WireDown ==
  ASSUME Inv, NEW p \in Programs, NEW i, Sole(Cpu(p), p, i), Free(Fs(p), p), mbox[p] = <<>>
  PROVE  OnWire(p) = {Cpu(p)[i]}
<1>1. /\ Fs(p) = toFs[Home[p]] /\ Cpu(p) = toCpu[Home[p]]
      /\ DOMAIN Fs(p) = 1 .. Len(Fs(p)) /\ DOMAIN Cpu(p) = 1 .. Len(Cpu(p))
      /\ DOMAIN mbox[p] = {}
  BY HomeOk, LenProperties, EmptySeq DEF Fs, Cpu, Inv
<1>2. \A m : m \in OnWire(p) <=>
        /\ OwnCall(m, p)
        /\ m \in Members(mbox[p]) \/ m \in Members(Cpu(p)) \/ m \in Members(Fs(p))
  BY <1>1 DEF OnWire, OwnCall
<1>3. \A m : m \notin Members(mbox[p])
  BY <1>1 DEF Members
<1>4. \A m \in Members(Fs(p)) : ~OwnCall(m, p)
  BY <1>1 DEF Members, Free
<1>5. \A m : m \in Members(Cpu(p)) /\ OwnCall(m, p) <=> m = Cpu(p)[i]
  BY <1>1 DEF Members, Sole
<1> QED BY <1>2, <1>3, <1>4, <1>5

LEMMA WireTold ==
  ASSUME Inv, NEW p \in Programs, Told(p)
  PROVE  OnWire(p) = {mbox[p][1]} /\ mbox[p][1].t = "reply"
<1>1. /\ Fs(p) = toFs[Home[p]] /\ Cpu(p) = toCpu[Home[p]]
      /\ DOMAIN Fs(p) = 1 .. Len(Fs(p)) /\ DOMAIN Cpu(p) = 1 .. Len(Cpu(p))
  BY HomeOk, LenProperties DEF Fs, Cpu, Inv
<1>0. mbox[p] \in Seq(Mail(p)) /\ Len(mbox[p]) = 1
  BY DEF Told, Inv, TypeInv, MailOk
<1>6. mbox[p][1] \in Mail(p) /\ DOMAIN mbox[p] = {1}
  BY <1>0, SeqParts, LenProperties
<1>7. mbox[p][1].t = "reply" /\ OwnCall(mbox[p][1], p)
  BY <1>6 DEF Mail, OwnCall
<1>2. \A m : m \in OnWire(p) <=>
        /\ OwnCall(m, p)
        /\ m \in Members(mbox[p]) \/ m \in Members(Cpu(p)) \/ m \in Members(Fs(p))
  BY <1>1 DEF OnWire, OwnCall
<1>3. \A m \in Members(Cpu(p)) : ~OwnCall(m, p)
  BY <1>1 DEF Members, Free, Told
<1>4. \A m \in Members(Fs(p)) : ~OwnCall(m, p)
  BY <1>1 DEF Members, Free, Told
<1>5. \A m : m \in Members(mbox[p]) <=> m = mbox[p][1]
  BY <1>6 DEF Members
<1> QED BY <1>2, <1>3, <1>4, <1>5, <1>7

LEMMA WireIdle ==
  ASSUME Inv, NEW p \in Programs, Idle(p)
  PROVE  OnWire(p) = {}
<1>1. /\ Fs(p) = toFs[Home[p]] /\ Cpu(p) = toCpu[Home[p]]
      /\ DOMAIN Fs(p) = 1 .. Len(Fs(p)) /\ DOMAIN Cpu(p) = 1 .. Len(Cpu(p))
      /\ DOMAIN mbox[p] = {}
  BY HomeOk, LenProperties, EmptySeq DEF Fs, Cpu, Inv, Idle
<1>2. \A m : m \in OnWire(p) <=>
        /\ OwnCall(m, p)
        /\ m \in Members(mbox[p]) \/ m \in Members(Cpu(p)) \/ m \in Members(Fs(p))
  BY <1>1 DEF OnWire, OwnCall
<1>3. \A m : m \notin Members(mbox[p])
  BY <1>1 DEF Members
<1>4. \A m \in Members(Fs(p)) \cup Members(Cpu(p)) : ~OwnCall(m, p)
  BY <1>1 DEF Members, Free, Idle
<1> QED BY <1>2, <1>3, <1>4

LEMMA OnePlaceHolds == Inv => OnePlace
<1> SUFFICES ASSUME Inv, NEW p \in Programs, prog[p] = "wait"
             PROVE  Cardinality(OnWire(p)) = 1
  BY DEF OnePlace
<1>1. CASE Asked(p)
  <2>1. PICK i : Sole(Fs(p), p, i)
    BY <1>1 DEF Asked, AskedAt
  <2>2. Free(Cpu(p), p) /\ mbox[p] = <<>>
    BY <1>1 DEF Asked
  <2>3. OnWire(p) = {Fs(p)[i]}
    BY <2>1, <2>2, WireUp
  <2> QED BY <2>3, FS_Singleton
<1>2. CASE Served(p)
  <2>1. PICK i : Sole(Cpu(p), p, i)
    BY <1>2 DEF Served
  <2>2. Free(Fs(p), p) /\ mbox[p] = <<>>
    BY <1>2 DEF Served
  <2>3. OnWire(p) = {Cpu(p)[i]}
    BY <2>1, <2>2, WireDown
  <2> QED BY <2>3, FS_Singleton
<1>3. CASE Told(p)
  BY <1>3, WireTold, FS_Singleton
<1> QED BY <1>1, <1>2, <1>3 DEF Inv, CallInv, Situation, Idle

LEMMA TypesHold == Inv => TypeOK
<1> SUFFICES ASSUME Inv PROVE TypeOK
  OBVIOUS
<1> USE DEF Inv, TypeInv
<1>1. sess \in Seq(Session) /\ DOMAIN sess = 1 .. Len(sess)
  BY LenProperties DEF SessOk
<1>2. \A s \in DOMAIN sess :
        /\ sess[s].box \in Programs /\ sess[s].next \in Nat
        /\ Cardinality(DOMAIN sess[s].files) <= MaxFds
        /\ \A fd \in DOMAIN sess[s].files : fd \in Nat /\ sess[s].files[fd] \in Open
  BY <1>1, SessionParts DEF SessInv
<1>3. \A t \in DOMAIN pending : t \in TransIds /\ pending[t] \in Deferred
  BY PartialIs DEF PendOk
<1>4. \A d \in DOMAIN desc : d \in Descs /\ desc[d] \in Desc
  BY PartialIs DEF DescOk
<1>5. host.entry \in [Names -> 1 .. MaxFiles \cup {NoEntry, Dir}] /\ Len(host.data) <= MaxFiles
  BY HostParts DEF DescOk, HostOk
<1> QED BY <1>2, <1>3, <1>4, <1>5 DEF TypeOK, ProgOk, MailOk, UpOk, DownOk, SessOk

LEMMA InvHolds == ASSUME ~Reuse, ~EarlyReset, ~LeaveShared PROVE Spec => []Inv
<1>1. Inv /\ [Next]_vars => Inv'
  BY InvStep
<1> QED BY InvFirst, <1>1, PTL DEF Spec

(* Every variable keeps its type, and no session gets more open files than *)
(* the limit of hostfsd although it looks before the path is there: a      *)
(* mailbox has one call at a time.                                         *)
THEOREM TypeCorrect == ASSUME ~Reuse, ~EarlyReset, ~LeaveShared PROVE Spec => []TypeOK
BY InvHolds, TypesHold, PTL

(* No two open files share a descriptor of the host, and none has one that *)
(* is closed: neither those of sessions in use nor those of a request that *)
(* was put aside and whose answer is on its way.                           *)
THEOREM DescriptorsOwned ==
  ASSUME ~Reuse, ~EarlyReset, ~LeaveShared PROVE Spec => []OwnDescriptor
BY InvHolds, OwnDescriptorHolds, PTL

(* An answer finds the request it answers, and a call is in one place.     *)
THEOREM AnswersCorrect ==
  ASSUME ~Reuse, ~EarlyReset, ~LeaveShared PROVE Spec => []AnswersFindRequest
<1>1. Inv => AnswersFindRequest
  BY MatchedHolds, OnePlaceHolds DEF AnswersFindRequest
<1> QED BY InvHolds, <1>1, PTL

-----------------------------------------------------------------------------
(* The refinement.  What a state shows of a program: its open files and    *)
(* the call it is in.                                                      *)
FileIs(of, d) ==
  [file |-> IF IsDir(of) THEN Root ELSE d[of.host].file,
   mode |-> IF IsDir(of) THEN ReadOnly ELSE d[of.host].mode,
   pos |-> IF IsDir(of) THEN of.pos ELSE d[of.host].pos,
   names |-> of.names]
FilesIn(files, d) == [fd \in DOMAIN files |-> FileIs(files[fd], d)]
Shown(ph, r, code, fd, block) ==
  [ph |-> ph, r |-> r, code |-> code, fd |-> fd, block |-> block]
OutOfCall == Shown("out", None, "OK", 0, Nothing)
Telling(r, m, b) ==
  Shown("decided", r, m.code, IF r.op \in {"open", "opendir"} THEN m.n ELSE 0,
        IF r.op = "read" /\ m.n = 1 THEN b ELSE Nothing)
Shows(r, m, b) ==
  IF m.t \in {"land", "landed"} THEN Shown("taken", r, "OK", 0, m.block)
  ELSE IF m.t = "reply" THEN Telling(r, m, b)
  ELSE Shown("called", r, "OK", 0, Nothing)
Look(state, wire, r, b) ==
  IF state \in {"new", "run"} \/ wire = {} THEN OutOfCall
  ELSE Shows(r, CHOOSE m \in wire : TRUE, b)

(* The forms in which calls go on.                                         *)
Busy(x, r) == [x EXCEPT !.r = r, !.ph = "called"]
Taken(x, block) == [x EXCEPT !.ph = "taken", !.block = block]
Decided(x, code, fd, block) ==
  [x EXCEPT !.ph = "decided", !.code = code, !.fd = fd, !.block = block]

LEMMA ShownMore ==
  ASSUME NEW ph, NEW r, NEW code, NEW fd, NEW block, NEW x, x = Shown(ph, r, code, fd, block),
         NEW r1, NEW code1, NEW fd1, NEW block1
  PROVE  /\ Busy(x, r1) = Shown("called", r1, code, fd, block)
         /\ Taken(x, block1) = Shown("taken", r, code, fd, block1)
         /\ Decided(x, code1, fd1, block1) = Shown("decided", r, code1, fd1, block1)
<1> DEFINE Ph(y, v) == [y EXCEPT !.ph = v]
           R(y, v) == [y EXCEPT !.r = v]
           C(y, v) == [y EXCEPT !.code = v]
           F(y, v) == [y EXCEPT !.fd = v]
           B(y, v) == [y EXCEPT !.block = v]
<1>1. /\ Busy(x, r1) = Ph(R(x, r1), "called")
      /\ Taken(x, block1) = B(Ph(x, "taken"), block1)
      /\ Decided(x, code1, fd1, block1) = B(F(C(Ph(x, "decided"), code1), fd1), block1)
  BY Zenon DEF Busy, Taken, Decided
<1>2. \A h, q, c, n, b, v :
        /\ Ph(Shown(h, q, c, n, b), v) = Shown(v, q, c, n, b)
        /\ R(Shown(h, q, c, n, b), v) = Shown(h, v, c, n, b)
        /\ C(Shown(h, q, c, n, b), v) = Shown(h, q, v, n, b)
        /\ F(Shown(h, q, c, n, b), v) = Shown(h, q, c, v, b)
        /\ B(Shown(h, q, c, n, b), v) = Shown(h, q, c, n, v)
  BY DEF Shown
<1> HIDE DEF Ph, R, C, F, B
<1> QED BY <1>1, <1>2

LEMMA TableIs ==
  ASSUME NEW p
  PROVE  /\ TableNow(p) = IF ~Known(p) THEN Empty ELSE FilesIn(sess[sessions[p]].files, desc)
         /\ NextFdNow(p) = IF ~Known(p) THEN 0 ELSE sess[sessions[p]].next
BY DEF TableNow, NextFdNow, FileNow, FilesIn, FileIs

LEMMA CallIs ==
  ASSUME NEW p
  PROVE  CallNow(p) = Look(prog[p], OnWire(p), call[p], buf[p])
<1> DEFINE wire == OnWire(p)
           m == CHOOSE x \in wire : TRUE
           out == [ph |-> "out", r |-> None, code |-> "OK", fd |-> 0, block |-> Nothing]
           busy == Busy(out, call[p])
           f == IF call[p].op \in {"open", "opendir"} THEN m.n ELSE 0
           b == IF call[p].op = "read" /\ m.n = 1 THEN buf[p] ELSE Nothing
<1>1. out = OutOfCall /\ out = Shown("out", None, "OK", 0, Nothing)
  BY DEF OutOfCall, Shown
<1>2. CallNow(p) =
        IF prog[p] \in {"new", "run"} \/ wire = {} THEN out
        ELSE CASE m.t \in {"land", "landed"} -> Taken(busy, m.block)
               [] m.t = "reply" -> Decided(busy, m.code, f, b)
               [] OTHER -> busy
  BY DEF CallNow, Busy, Taken, Decided
<1>3. Telling(call[p], m, buf[p]) = Shown("decided", call[p], m.code, f, b)
  BY DEF Telling
<1> HIDE DEF busy, out, f, b, m, wire
<1>4. busy = Shown("called", call[p], "OK", 0, Nothing)
  BY <1>1, ShownMore DEF busy
<1>5. /\ Taken(busy, m.block) = Shown("taken", call[p], "OK", 0, m.block)
      /\ Decided(busy, m.code, f, b) = Shown("decided", call[p], m.code, f, b)
  BY <1>4, ShownMore
<1>6. CallNow(p) =
        IF prog[p] \in {"new", "run"} \/ wire = {} THEN OutOfCall
        ELSE CASE m.t \in {"land", "landed"} -> Shown("taken", call[p], "OK", 0, m.block)
               [] m.t = "reply" -> Telling(call[p], m, buf[p])
               [] OTHER -> Shown("called", call[p], "OK", 0, Nothing)
  BY <1>1, <1>2, <1>3, <1>4, <1>5
<1> QED BY <1>6 DEF Look, Shows, m, wire

LEMMA LookOne ==
  ASSUME NEW m, NEW state \in {"wait", "dead"}, NEW r, NEW b
  PROVE  Look(state, {m}, r, b) = Shows(r, m, b)
<1>1. (CHOOSE x \in {m} : TRUE) = m
  OBVIOUS
<1> QED BY <1>1 DEF Look

LEMMA LookNone ==
  ASSUME NEW state, NEW r, NEW b, NEW w, state \in {"new", "run"} \/ w = {}
  PROVE  Look(state, w, r, b) = OutOfCall
BY DEF Look

(* A program's packets in a queue, and whether it is about to subscribe.   *)
Mine(p, u) == {m \in Members(u) : OwnCall(m, p)}
Subbed(p, u) == \E i \in DOMAIN u : OwnSub(u[i], p)

Seen ==
  \A p \in Programs :
    /\ CallNow(p) = Look(prog[p], OnWire(p), call[p], buf[p])
    /\ OnWire(p) = Mine(p, mbox[p]) \cup Mine(p, Cpu(p)) \cup Mine(p, Fs(p))
    /\ Known(p) <=> /\ prog[p] # "new" /\ ~Subbed(p, Fs(p)) /\ Has(p)
                    /\ prog[p] = "dead" => OnWire(p) # {}
    /\ TableNow(p) = IF ~Known(p) THEN Empty ELSE FilesIn(sess[sessions[p]].files, desc)
    /\ NextFdNow(p) = IF ~Known(p) THEN 0 ELSE sess[sessions[p]].next

LEMMA SeenNow == Seen
<1> SUFFICES ASSUME NEW p \in Programs
             PROVE  /\ CallNow(p) = Look(prog[p], OnWire(p), call[p], buf[p])
                    /\ OnWire(p) = Mine(p, mbox[p]) \cup Mine(p, Cpu(p)) \cup Mine(p, Fs(p))
                    /\ Known(p) <=> /\ prog[p] # "new" /\ ~Subbed(p, Fs(p)) /\ Has(p)
                                    /\ prog[p] = "dead" => OnWire(p) # {}
                    /\ TableNow(p) = IF ~Known(p) THEN Empty
                                     ELSE FilesIn(sess[sessions[p]].files, desc)
                    /\ NextFdNow(p) = IF ~Known(p) THEN 0 ELSE sess[sessions[p]].next
  BY DEF Seen
<1>1. OnWire(p) = Mine(p, mbox[p]) \cup Mine(p, Cpu(p)) \cup Mine(p, Fs(p))
  BY DEF OnWire, Mine, OwnCall, Cpu, Fs
<1>2. Before(p) <=> prog[p] = "new" \/ Subbed(p, Fs(p))
  BY DEF Before, Subbed, OwnSub, Fs
<1>3. Known(p) <=> ~Before(p) /\ Has(p) /\ (prog[p] = "dead" => OnWire(p) # {})
  BY DEF Known, Has
<1> QED BY <1>1, <1>2, <1>3, CallIs, TableIs

LEMMA SeenNext == Seen'
BY SeenNow, PTL

LEMMA MineQueues ==
  ASSUME NEW S, NEW u \in Seq(S), NEW p
  PROVE  /\ Free(u, p) <=> Mine(p, u) = {}
         /\ \A m \in S : /\ ~OwnCall(m, p) => Mine(p, Append(u, m)) = Mine(p, u)
                         /\ OwnCall(m, p) => Mine(p, Append(u, m)) = Mine(p, u) \cup {m}
                         /\ ~OwnSub(m, p) => (Subbed(p, Append(u, m)) <=> Subbed(p, u))
                         /\ OwnSub(m, p) => Subbed(p, Append(u, m))
<1>1. Len(u) \in Nat /\ DOMAIN u = 1 .. Len(u)
  BY LenProperties
<1>2. Free(u, p) <=> Mine(p, u) = {}
  BY <1>1 DEF Free, Mine, Members
<1>3. ASSUME NEW m \in S
      PROVE  /\ Members(Append(u, m)) = Members(u) \cup {m}
             /\ Subbed(p, Append(u, m)) <=> Subbed(p, u) \/ OwnSub(m, p)
  <2> DEFINE v == Append(u, m)
  <2>1. /\ v \in Seq(S) /\ Len(v) = Len(u) + 1
        /\ \A i \in 1 .. Len(u) : v[i] = u[i]
        /\ v[Len(u) + 1] = m
    BY AppendProperties, <1>1
  <2>2. DOMAIN v = 1 .. Len(u) + 1
    BY <2>1, LenProperties
  <2> HIDE DEF v
  <2>3. Members(v) = Members(u) \cup {m}
    BY <1>1, <2>1, <2>2 DEF Members
  <2>4. Subbed(p, v) <=> Subbed(p, u) \/ OwnSub(m, p)
    <3>1. ASSUME NEW i \in 1 .. Len(v), OwnSub(v[i], p)
          PROVE  Subbed(p, u) \/ OwnSub(m, p)
      <4>1. i \in 1 .. Len(u) \/ i = Len(u) + 1
        BY <1>1, <2>1
      <4> QED BY <2>1, <3>1, <4>1 DEF Subbed
    <3>2. ASSUME NEW i \in 1 .. Len(u), OwnSub(u[i], p) PROVE Subbed(p, v)
      <4>1. i \in 1 .. Len(v) /\ v[i] = u[i]
        BY <1>1, <2>1
      <4> QED BY <3>2, <4>1 DEF Subbed
    <3>3. ASSUME OwnSub(m, p) PROVE Subbed(p, v)
      <4>1. Len(u) + 1 \in 1 .. Len(v)
        BY <1>1, <2>1
      <4> QED BY <2>1, <3>3, <4>1 DEF Subbed
    <3> QED BY <3>1, <3>2, <3>3 DEF Subbed
  <2> QED BY <2>3, <2>4 DEF v
<1>4. ASSUME NEW m \in S
      PROVE  /\ ~OwnCall(m, p) => Mine(p, Append(u, m)) = Mine(p, u)
             /\ OwnCall(m, p) => Mine(p, Append(u, m)) = Mine(p, u) \cup {m}
  BY <1>3 DEF Mine
<1> QED BY <1>2, <1>3, <1>4

LEMMA MineTail ==
  ASSUME NEW S, NEW u \in Seq(S), u # <<>>, NEW p
  PROVE  /\ ~OwnCall(u[1], p) => Mine(p, Tail(u)) = Mine(p, u)
         /\ ~OwnSub(u[1], p) => (Subbed(p, Tail(u)) <=> Subbed(p, u))
         /\ OwnSub(u[1], p) => Subbed(p, u)
         /\ Subbed(p, Tail(u)) => Subbed(p, u)
<1> DEFINE v == Tail(u)
<1>1. /\ Len(u) \in Nat /\ Len(u) >= 1 /\ DOMAIN u = 1 .. Len(u) /\ v \in Seq(S)
      /\ Len(v) = Len(u) - 1 /\ \A i \in 1 .. Len(u) - 1 : v[i] = u[i + 1]
  BY SeqParts, LenProperties
<1>2. DOMAIN v = 1 .. Len(u) - 1
  BY <1>1, LenProperties
<1> HIDE DEF v
<1>3. ASSUME NEW k \in 1 .. Len(u), k # 1 PROVE k - 1 \in 1 .. Len(v) /\ v[k - 1] = u[k]
  <2>1. k - 1 \in 1 .. Len(u) - 1 /\ (k - 1) + 1 = k
    BY <1>1, <1>3
  <2> QED BY <1>1, <2>1
<1>4. ASSUME NEW k \in 1 .. Len(v) PROVE k + 1 \in 1 .. Len(u) /\ v[k] = u[k + 1]
  BY <1>1
<1>5. Members(u) = Members(v) \cup {u[1]}
  <2>1. \A x \in Members(u) : x \in Members(v) \/ x = u[1]
    BY <1>1, <1>2, <1>3 DEF Members
  <2>2. \A x \in Members(v) : x \in Members(u)
    BY <1>1, <1>2, <1>4 DEF Members
  <2>3. u[1] \in Members(u)
    BY <1>1 DEF Members
  <2> QED BY <2>1, <2>2, <2>3
<1>6. ~OwnCall(u[1], p) => Mine(p, v) = Mine(p, u)
  BY <1>5 DEF Mine
<1>7. Subbed(p, v) => Subbed(p, u)
  BY <1>1, <1>2, <1>4 DEF Subbed
<1>8. ~OwnSub(u[1], p) /\ Subbed(p, u) => Subbed(p, v)
  BY <1>1, <1>2, <1>3 DEF Subbed
<1>9. OwnSub(u[1], p) => Subbed(p, u)
  <2>1. 1 \in 1 .. Len(u)
    BY <1>1
  <2> QED BY <2>1 DEF Subbed
<1> QED BY <1>6, <1>7, <1>8, <1>9 DEF v

(* A program whose view does not change.                                   *)
Unseen(q) ==
  /\ TableNow(q)' = TableNow(q) /\ NextFdNow(q)' = NextFdNow(q) /\ CallNow(q)' = CallNow(q)
SameFiles(q) ==
  /\ sessions'[q] = sessions[q] /\ sess'[sessions[q]] = sess[sessions[q]]
  /\ FilesIn(sess[sessions[q]].files, desc') = FilesIn(sess[sessions[q]].files, desc)

LEMMA UnseenIs ==
  ASSUME NEW q \in Programs, prog'[q] = prog[q], call'[q] = call[q], buf'[q] = buf[q],
         OnWire(q)' = OnWire(q), Known(q)' <=> Known(q), Known(q) => SameFiles(q)
  PROVE  Unseen(q)
<1>1. CallNow(q)' = CallNow(q)
  <2>1. CallNow(q) = Look(prog[q], OnWire(q), call[q], buf[q])
    BY SeenNow DEF Seen
  <2>2. CallNow(q)' = Look(prog'[q], OnWire(q)', call'[q], buf'[q])
    BY SeenNext DEF Seen
  <2> QED BY <2>1, <2>2
<1>2. /\ TableNow(q) = IF ~Known(q) THEN Empty ELSE FilesIn(sess[sessions[q]].files, desc)
      /\ NextFdNow(q) = IF ~Known(q) THEN 0 ELSE sess[sessions[q]].next
  BY SeenNow DEF Seen
<1>3. /\ TableNow(q)' = IF ~Known(q)' THEN Empty ELSE FilesIn(sess'[sessions'[q]].files, desc')
      /\ NextFdNow(q)' = IF ~Known(q)' THEN 0 ELSE sess'[sessions'[q]].next
  BY SeenNext DEF Seen
<1>4. CASE Known(q)
  BY <1>1, <1>2, <1>3, <1>4 DEF Unseen, SameFiles
<1>5. CASE ~Known(q)
  BY <1>1, <1>2, <1>3, <1>5 DEF Unseen
<1> QED BY <1>4, <1>5

LEMMA FilesSame ==
  ASSUME NEW files, NEW d, NEW e,
         \A fd \in DOMAIN files : files[fd].host # None => e[files[fd].host] = d[files[fd].host]
  PROVE  FilesIn(files, e) = FilesIn(files, d)
<1>1. ASSUME NEW fd \in DOMAIN files PROVE FileIs(files[fd], e) = FileIs(files[fd], d)
  BY DEF FileIs, IsDir
<1> QED BY <1>1 DEF FilesIn

(* Only descriptors of one program are touched.                            *)
OnlyOwn(p) ==
  \A e \in DOMAIN desc :
    (e \in DOMAIN desc' /\ desc'[e] = desc[e]) \/ \E fd \in Nat : Held(p, fd, e)

LEMMA OthersFiles ==
  ASSUME TypeInv, SessInv, DescInv, NEW p \in Programs, NEW q \in Programs, q # p, Has(p), Has(q),
         UNCHANGED sessions, Within(sessions[p]), OnlyOwn(p)
  PROVE  SameFiles(q)
<1> DEFINE s == sessions[q]
           files == sess[s].files
<1>1. s \in 1 .. Len(sess) /\ s # sessions[p]
  BY HeldIs
<1>2. sess'[s] = sess[s]
  BY <1>1 DEF Within
<1>3. ASSUME NEW fd \in DOMAIN files, files[fd].host # None
      PROVE  desc'[files[fd].host] = desc[files[fd].host]
  <2>1. fd \in Nat /\ files[fd].host \in Descs
    BY <1>1, <1>3, SessionParts DEF TypeInv, SessOk
  <2> DEFINE d == files[fd].host
  <2>2. Held(q, fd, d)
    BY DEF Held
  <2>3. d \in DOMAIN desc
    BY <2>1, <2>2, DescOwned
  <2>4. ~\E g \in Nat : Held(p, g, d)
    BY <2>1, <2>2, DescOwned
  <2> QED BY <2>3, <2>4 DEF OnlyOwn
<1>4. FilesIn(files, desc') = FilesIn(files, desc)
  BY <1>3, FilesSame
<1> QED BY <1>2, <1>4 DEF SameFiles

LEMMA SameFilesSame ==
  ASSUME NEW q, sessions'[q] = sessions[q], sess'[sessions[q]] = sess[sessions[q]], desc' = desc
  PROVE  SameFiles(q)
BY DEF SameFiles

(* What a program has on the wire when its queues move.                    *)
LEMMA WireSame ==
  ASSUME NEW q \in Programs, Mine(q, mbox[q])' = Mine(q, mbox[q]),
         Mine(q, Cpu(q))' = Mine(q, Cpu(q)), Mine(q, Fs(q))' = Mine(q, Fs(q))
  PROVE  OnWire(q)' = OnWire(q)
<1>1. OnWire(q) = Mine(q, mbox[q]) \cup Mine(q, Cpu(q)) \cup Mine(q, Fs(q))
  BY SeenNow DEF Seen
<1>2. OnWire(q)' = Mine(q, mbox[q])' \cup Mine(q, Cpu(q))' \cup Mine(q, Fs(q))'
  BY SeenNext DEF Seen
<1> QED BY <1>1, <1>2

LEMMA KnownSame ==
  ASSUME NEW q \in Programs, prog'[q] = prog[q], OnWire(q)' = OnWire(q),
         Subbed(q, Fs(q))' <=> Subbed(q, Fs(q)), Has(q)' <=> Has(q)
  PROVE  Known(q)' <=> Known(q)
<1>1. Known(q) <=> /\ prog[q] # "new" /\ ~Subbed(q, Fs(q)) /\ Has(q)
                   /\ prog[q] = "dead" => OnWire(q) # {}
  BY SeenNow DEF Seen
<1>2. Known(q)' <=> /\ prog'[q] # "new" /\ ~Subbed(q, Fs(q))' /\ Has(q)'
                    /\ prog'[q] = "dead" => OnWire(q)' # {}
  BY SeenNext DEF Seen
<1> QED BY <1>1, <1>2

(* A program sends, another does not notice.                               *)
LEMMA SentPast ==
  ASSUME TypeInv, NEW p \in Programs, NEW m, m.by = p, SendFs(p, m), m \in Up(Home[p]),
         NEW q \in Programs, ~OwnCall(m, q), ~OwnSub(m, q)
  PROVE  Mine(q, Fs(q))' = Mine(q, Fs(q)) /\ (Subbed(q, Fs(q))' <=> Subbed(q, Fs(q)))
<1>1. Fs(q) \in Seq(Up(Home[q]))
  BY HomeOk
<1>2. CASE Home[q] = Home[p]
  <2>1. Fs(q)' = Append(Fs(q), m)
    BY <1>2, SentFs
  <2>2. /\ Mine(q, Append(Fs(q), m)) = Mine(q, Fs(q))
        /\ Subbed(q, Append(Fs(q), m)) <=> Subbed(q, Fs(q))
    BY <1>1, <1>2, MineQueues
  <2> QED BY <2>1, <2>2
<1>3. CASE Home[q] # Home[p]
  <2>1. Fs(q)' = Fs(q)
    BY <1>3, SentFs
  <2> QED BY <2>1
<1> QED BY <1>2, <1>3

LEMMA SentDownPast ==
  ASSUME TypeInv, NEW p \in Programs, NEW m \in Down(Home[p]), m.by = p, SendCpu(p, m),
         NEW q \in Programs, q # p
  PROVE  Mine(q, Cpu(q))' = Mine(q, Cpu(q))
<1>1. Cpu(q) \in Seq(Down(Home[q])) /\ ~OwnCall(m, q)
  BY HomeOk DEF OwnCall
<1>2. CASE Home[q] = Home[p]
  <2>1. Cpu(q)' = Append(Cpu(q), m)
    BY <1>2, SentCpu
  <2>2. Mine(q, Append(Cpu(q), m)) = Mine(q, Cpu(q))
    BY <1>1, <1>2, MineQueues
  <2> QED BY <2>1, <2>2
<1>3. CASE Home[q] # Home[p]
  <2>1. Cpu(q)' = Cpu(q)
    BY <1>3, SentCpu
  <2> QED BY <2>1
<1> QED BY <1>2, <1>3

LEMMA TakenUpPast ==
  ASSUME TypeInv, NEW c \in Cpus, toFs[c] # <<>>, toFs' = [toFs EXCEPT ![c] = Tail(toFs[c])],
         NEW q \in Programs, ~OwnCall(Head(toFs[c]), q), ~OwnSub(Head(toFs[c]), q)
  PROVE  Mine(q, Fs(q))' = Mine(q, Fs(q)) /\ (Subbed(q, Fs(q))' <=> Subbed(q, Fs(q)))
<1>1. Fs(q) \in Seq(Up(Home[q]))
  BY HomeOk
<1>2. CASE Home[q] = c
  <2>1. Fs(q)' = Tail(Fs(q)) /\ Fs(q) = toFs[c]
    BY <1>2, TailedFs DEF Fs
  <2>2. Head(Fs(q)) = Fs(q)[1]
    BY <1>1, <2>1, SeqParts
  <2>3. /\ Mine(q, Tail(Fs(q))) = Mine(q, Fs(q))
        /\ Subbed(q, Tail(Fs(q))) <=> Subbed(q, Fs(q))
    BY <1>1, <2>1, <2>2, MineTail
  <2> QED BY <2>1, <2>3
<1>3. CASE Home[q] # c
  <2>1. Fs(q)' = Fs(q)
    BY <1>3, TailedFs
  <2> QED BY <2>1
<1> QED BY <1>2, <1>3

LEMMA TakenDownPast ==
  ASSUME TypeInv, NEW c \in Cpus, toCpu[c] # <<>>, toCpu' = [toCpu EXCEPT ![c] = Tail(toCpu[c])],
         NEW q \in Programs, ~OwnCall(Head(toCpu[c]), q)
  PROVE  Mine(q, Cpu(q))' = Mine(q, Cpu(q))
<1>1. Cpu(q) \in Seq(Down(Home[q]))
  BY HomeOk
<1>2. CASE Home[q] = c
  <2>1. Cpu(q)' = Tail(Cpu(q)) /\ Cpu(q) = toCpu[c]
    BY <1>2, TailedCpu DEF Cpu
  <2>2. Head(Cpu(q)) = Cpu(q)[1]
    BY <1>1, <2>1, SeqParts
  <2>3. Mine(q, Tail(Cpu(q))) = Mine(q, Cpu(q))
    BY <1>1, <2>1, <2>2, MineTail
  <2> QED BY <2>1, <2>3
<1>3. CASE Home[q] # c
  <2>1. Cpu(q)' = Cpu(q)
    BY <1>3, TailedCpu
  <2> QED BY <2>1
<1> QED BY <1>2, <1>3

(* The service serves a call: the packet is replaced by another, and what  *)
(* others see of their files and calls is as it was.                       *)
LEMMA ServedWire ==
  ASSUME Inv, NEW c \in Cpus, NEW p \in Programs, NEW m, ServedFrom(c, p, m),
         NEW n \in Down(c), n.by = p, SendCpu(p, n)
  PROVE  /\ OnWire(p) = {m} /\ OnWire(p)' = {n} /\ Known(p) /\ Known(p)'
         /\ prog[p] \in {"wait", "dead"}
<1> USE DEF Inv
<1>1. /\ toFs[c] # <<>> /\ m = Head(toFs[c]) /\ m.by = p /\ m.t \notin {"sub", "unsub"}
      /\ toFs' = [toFs EXCEPT ![c] = Tail(toFs[c])]
      /\ UNCHANGED <<progVars, sessions>> /\ prog' = prog /\ mbox' = mbox
  BY DEF ServedFrom, progVars
<1>2. /\ m \in Up(c) /\ Home[p] = c /\ m = Fs(p)[1] /\ Fs(p) # <<>> /\ 1 \in 1 .. Len(Fs(p))
      /\ OwnCall(m, p) /\ Asked(p) /\ Has(p)
      /\ Free(Tail(Fs(p)), p) /\ Settled(Tail(Fs(p)), p, 0, Has(p))
  BY <1>1, HeadAsked
<1>3. Free(Cpu(p), p) /\ mbox[p] = <<>> /\ prog[p] \in {"wait", "dead"}
  BY <1>2 DEF Asked
<1>4. Sole(Fs(p), p, 1)
  BY <1>2 DEF Asked, AskedAt, Sole
<1>5. OnWire(p) = {m}
  BY <1>2, <1>3, <1>4, WireUp
<1>6. Fs(p) \in Seq(Up(c)) /\ Cpu(p) \in Seq(Down(c)) /\ mbox[p] \in Seq(Mail(p))
  BY <1>2, HomeOk DEF TypeInv, MailOk
<1>7. Fs(p)' = Tail(Fs(p)) /\ Cpu(p)' = Append(Cpu(p), n)
  BY <1>1, <1>2, TailedFs, SentCpu
<1>8. OwnCall(n, p)
  BY DEF OwnCall, Down
<1>9. /\ Mine(p, Tail(Fs(p))) = {}
      /\ Mine(p, Append(Cpu(p), n)) = {n}
      /\ Mine(p, mbox[p]) = {}
  <2>1. Tail(Fs(p)) \in Seq(Up(c))
    BY <1>2, <1>6, SeqParts
  <2>2. Mine(p, Tail(Fs(p))) = {}
    BY <1>2, <2>1, MineQueues
  <2>3. Mine(p, Append(Cpu(p), n)) = Mine(p, Cpu(p)) \cup {n} /\ Mine(p, Cpu(p)) = {}
    BY <1>3, <1>6, <1>8, MineQueues
  <2>4. Mine(p, mbox[p]) = {}
    BY <1>3, EmptySeq DEF Mine, Members
  <2> QED BY <2>2, <2>3, <2>4
<1>10. OnWire(p)' = {n}
  <2>1. OnWire(p)' = Mine(p, mbox'[p]) \cup Mine(p, Cpu(p)') \cup Mine(p, Fs(p)')
    BY SeenNext DEF Seen
  <2>2. /\ Mine(p, mbox'[p]) = {} /\ Mine(p, Cpu(p)') = {n} /\ Mine(p, Fs(p)') = {}
    BY <1>1, <1>7, <1>9
  <2> QED BY <2>1, <2>2
<1>11. ~Subbed(p, Tail(Fs(p))) /\ ~Subbed(p, Fs(p))
  <2>1. Tail(Fs(p)) \in Seq(Up(c)) /\ ~OwnSub(m, p)
    BY <1>1, <1>2, <1>6, SeqParts DEF OwnSub
  <2>2. DOMAIN Tail(Fs(p)) = 1 .. Len(Tail(Fs(p)))
    BY <2>1, LenProperties
  <2>3. ~Subbed(p, Tail(Fs(p)))
    BY <1>2, <2>2 DEF Settled, Quiet, Subbed
  <2> QED BY <1>2, <1>6, <2>1, <2>3, MineTail
<1>12. Known(p)
  BY <1>2, <1>3, <1>5, <1>11, SeenNow DEF Seen
<1>13. Known(p)'
  <2>1. ~Subbed(p, Fs(p))' /\ Has(p)' /\ prog'[p] # "new" /\ OnWire(p)' # {}
    BY <1>1, <1>2, <1>3, <1>7, <1>10, <1>11 DEF Has
  <2> QED BY <2>1, SeenNext DEF Seen
<1> QED BY <1>3, <1>5, <1>10, <1>12, <1>13

LEMMA ServedSelf ==
  ASSUME Inv, NEW c \in Cpus, NEW p \in Programs, NEW m, ServedFrom(c, p, m),
         NEW n \in Down(c), n.by = p, SendCpu(p, n)
  PROVE  /\ CallNow(p) = Shows(call[p], m, buf[p])
         /\ CallNow(p)' = Shows(call[p], n, buf[p])
         /\ TableNow(p) = FilesIn(sess[sessions[p]].files, desc)
         /\ NextFdNow(p) = sess[sessions[p]].next
         /\ TableNow(p)' = FilesIn(sess'[sessions[p]].files, desc')
         /\ NextFdNow(p)' = sess'[sessions[p]].next
<1>1. /\ OnWire(p) = {m} /\ OnWire(p)' = {n} /\ Known(p) /\ Known(p)'
      /\ prog[p] \in {"wait", "dead"}
  BY ServedWire
<1>2. prog' = prog /\ call' = call /\ buf' = buf /\ sessions' = sessions
  BY DEF ServedFrom, progVars
<1>3. CallNow(p) = Look(prog[p], {m}, call[p], buf[p])
  BY <1>1, SeenNow DEF Seen
<1>4. CallNow(p)' = Look(prog[p], {n}, call[p], buf[p])
  <2>1. CallNow(p)' = Look(prog'[p], OnWire(p)', call'[p], buf'[p])
    BY SeenNext DEF Seen
  <2> QED BY <1>1, <1>2, <2>1
<1>5. CallNow(p) = Shows(call[p], m, buf[p]) /\ CallNow(p)' = Shows(call[p], n, buf[p])
  BY <1>1, <1>3, <1>4, LookOne
<1>6. /\ TableNow(p) = FilesIn(sess[sessions[p]].files, desc)
      /\ NextFdNow(p) = sess[sessions[p]].next
  BY <1>1, SeenNow DEF Seen
<1>7. /\ TableNow(p)' = FilesIn(sess'[sessions'[p]].files, desc')
      /\ NextFdNow(p)' = sess'[sessions'[p]].next
  BY <1>1, SeenNext DEF Seen
<1> QED BY <1>2, <1>5, <1>6, <1>7

(* What the others see of a step of one program, or of the service for it. *)
Others(p) == \A q \in Programs : q # p => Unseen(q)

LEMMA ServedOthers ==
  ASSUME Inv, NEW c \in Cpus, NEW p \in Programs, NEW m, ServedFrom(c, p, m),
         NEW n \in Down(c), n.by = p, SendCpu(p, n), Within(sessions[p]), OnlyOwn(p)
  PROVE  Others(p)
<1> SUFFICES ASSUME NEW q \in Programs, q # p PROVE Unseen(q)
  BY DEF Others
<1> USE DEF Inv
<1>1. /\ toFs[c] # <<>> /\ m = Head(toFs[c]) /\ m.by = p
      /\ toFs' = [toFs EXCEPT ![c] = Tail(toFs[c])]
      /\ sessions' = sessions /\ prog' = prog /\ mbox' = mbox /\ call' = call /\ buf' = buf
  BY DEF ServedFrom, progVars
<1>2. Home[p] = c /\ Has(p)
  BY OwnSession
<1>3. ~OwnCall(m, q) /\ ~OwnSub(m, q)
  BY <1>1 DEF OwnCall, OwnSub
<1>4. Mine(q, Fs(q))' = Mine(q, Fs(q)) /\ (Subbed(q, Fs(q))' <=> Subbed(q, Fs(q)))
  BY <1>1, <1>3, TakenUpPast
<1>5. Mine(q, Cpu(q))' = Mine(q, Cpu(q))
  BY <1>2, SentDownPast
<1>6. OnWire(q)' = OnWire(q)
  BY <1>1, <1>4, <1>5, WireSame
<1>7. Has(q)' <=> Has(q)
  BY <1>1 DEF Has
<1>8. Known(q)' <=> Known(q)
  BY <1>1, <1>4, <1>6, <1>7, KnownSame
<1>9. Known(q) => SameFiles(q)
  <2>1. Known(q) => Has(q)
    BY SeenNow DEF Seen
  <2>2. Has(q) => SameFiles(q)
    BY <1>1, <1>2, OthersFiles
  <2> QED BY <2>1, <2>2
<1> QED BY <1>1, <1>6, <1>8, <1>9, UnseenIs

-----------------------------------------------------------------------------
(* The steps of HostFiles, as ImplementsFiles maps its variables.          *)
AbsTable == [p \in Programs |-> TableNow(p)]
AbsNext == [p \in Programs |-> NextFdNow(p)]
AbsCall == [p \in Programs |-> CallNow(p)]
AbsDead == {p \in Programs : prog[p] = "dead"}
View == INSTANCE HostFiles WITH
  table <- AbsTable, nextFd <- AbsNext, call <- AbsCall, dead <- AbsDead

(* Both have the files of the host from HostOs.                            *)
LEMMA SameHost ==
  /\ \A h, n, flags : /\ View!OpenError(h, n, flags) = OpenError(h, n, flags)
                      /\ View!Opened(h, n, flags) = Opened(h, n, flags)
  /\ \A h, n : /\ View!ListError(h, n) = ListError(h, n) /\ View!Listing(h, n) = Listing(h, n)
               /\ View!MkdirError(h, n) = MkdirError(h, n)
               /\ View!UnlinkError(h, n) = UnlinkError(h, n)
               /\ View!WithDir(h, n) = WithDir(h, n) /\ View!Unlinked(h, n) = Unlinked(h, n)
  /\ \A h, f, pos : /\ View!AtEnd(h, f, pos) = AtEnd(h, f, pos)
                    /\ View!BlockAt(h, f, pos) = BlockAt(h, f, pos)
  /\ \A h, f, pos, b : View!Written(h, f, pos, b) = Written(h, f, pos, b)
  /\ \A mode : /\ View!Readable(mode) <=> Readable(mode)
               /\ View!Writable(mode) <=> Writable(mode)
  /\ View!ReadOnly = ReadOnly
  /\ View!PathOps = PathOps /\ View!FdOps = FdOps
  /\ View!Empty = Empty /\ View!Nothing = Nothing /\ View!NoCall = OutOfCall
<1>1. /\ View!ReadOnly = ReadOnly /\ View!WriteOnly = WriteOnly /\ View!ReadWrite = ReadWrite
      /\ View!PathOps = PathOps /\ View!FdOps = FdOps
      /\ View!Empty = Empty /\ View!Nothing = Nothing
  BY Zenon DEF View!ReadOnly, ReadOnly, View!WriteOnly, WriteOnly, View!ReadWrite, ReadWrite,
    View!PathOps, PathOps, View!FdOps, FdOps, View!Empty, Empty, View!Nothing, Nothing
<1>2. View!NoCall = OutOfCall
  BY <1>1, Zenon DEF View!NoCall, OutOfCall, Shown
<1>3. \A mode : /\ View!Readable(mode) <=> Readable(mode)
                /\ View!Writable(mode) <=> Writable(mode)
  BY <1>1, Zenon DEF View!Readable, Readable, View!Writable, Writable
<1>4. \A h, n, flags : /\ View!OpenError(h, n, flags) = OpenError(h, n, flags)
                       /\ View!Opened(h, n, flags) = Opened(h, n, flags)
  <2>1. \A h, n, flags : View!OpenError(h, n, flags) = OpenError(h, n, flags)
    BY <1>1 DEF View!OpenError, OpenError
  <2>2. \A h, n : View!WithFile(h, n) = WithFile(h, n)
    BY Zenon DEF View!WithFile, WithFile
  <2>3. \A h, n, flags : View!Opened(h, n, flags) = Opened(h, n, flags)
    BY <2>2, Zenon DEF View!Opened, Opened
  <2> QED BY <2>1, <2>3, Zenon
<1>5. \A h, n : /\ View!ListError(h, n) = ListError(h, n) /\ View!Listing(h, n) = Listing(h, n)
                /\ View!MkdirError(h, n) = MkdirError(h, n)
                /\ View!UnlinkError(h, n) = UnlinkError(h, n)
                /\ View!WithDir(h, n) = WithDir(h, n) /\ View!Unlinked(h, n) = Unlinked(h, n)
  BY Zenon DEF View!ListError, ListError, View!Listing, Listing, View!MkdirError, MkdirError,
    View!UnlinkError, UnlinkError, View!WithDir, WithDir, View!Unlinked, Unlinked
<1>6. /\ \A h, f, pos : /\ View!AtEnd(h, f, pos) = AtEnd(h, f, pos)
                        /\ View!BlockAt(h, f, pos) = BlockAt(h, f, pos)
      /\ \A h, f, pos, b : View!Written(h, f, pos, b) = Written(h, f, pos, b)
  BY Zenon DEF View!AtEnd, AtEnd, View!BlockAt, BlockAt, View!Written, Written
<1> QED BY <1>1, <1>2, <1>3, <1>4, <1>5, <1>6, Zenon

(* A map of all programs in which one value changes.                       *)
LEMMA MapSet ==
  ASSUME NEW f, NEW g, f = [q \in Programs |-> f[q]], g = [q \in Programs |-> g[q]],
         NEW p \in Programs, \A q \in Programs : q # p => g[q] = f[q]
  PROVE  g = [f EXCEPT ![p] = g[p]] /\ (g[p] = f[p] => g = f)
<1>1. g = [f EXCEPT ![p] = g[p]]
  OBVIOUS
<1>2. ASSUME g[p] = f[p] PROVE g = f
  <2>1. \A q \in Programs : g[q] = f[q]
    BY <1>2
  <2> QED BY <2>1
<1> QED BY <1>1, <1>2

LEMMA AbsIs ==
  ASSUME NEW p \in Programs
  PROVE  /\ AbsTable[p] = TableNow(p) /\ AbsNext[p] = NextFdNow(p) /\ AbsCall[p] = CallNow(p)
         /\ AbsTable'[p] = TableNow(p)' /\ AbsNext'[p] = NextFdNow(p)' /\ AbsCall'[p] = CallNow(p)'
         /\ p \in AbsDead <=> prog[p] = "dead"
         /\ p \in AbsDead' <=> prog'[p] = "dead"
BY DEF AbsTable, AbsNext, AbsCall, AbsDead

LEMMA AbsMaps ==
  /\ AbsTable = [q \in Programs |-> AbsTable[q]] /\ AbsTable' = [q \in Programs |-> AbsTable'[q]]
  /\ AbsNext = [q \in Programs |-> AbsNext[q]] /\ AbsNext' = [q \in Programs |-> AbsNext'[q]]
  /\ AbsCall = [q \in Programs |-> AbsCall[q]] /\ AbsCall' = [q \in Programs |-> AbsCall'[q]]
BY DEF AbsTable, AbsNext, AbsCall

LEMMA AbsSets ==
  ASSUME NEW p \in Programs, Others(p)
  PROVE  /\ AbsTable' = [AbsTable EXCEPT ![p] = TableNow(p)']
         /\ AbsNext' = [AbsNext EXCEPT ![p] = NextFdNow(p)']
         /\ AbsCall' = [AbsCall EXCEPT ![p] = CallNow(p)']
         /\ TableNow(p)' = TableNow(p) => AbsTable' = AbsTable
         /\ NextFdNow(p)' = NextFdNow(p) => AbsNext' = AbsNext
         /\ CallNow(p)' = CallNow(p) => AbsCall' = AbsCall
<1>1. \A q \in Programs : q # p => /\ AbsTable'[q] = AbsTable[q] /\ AbsNext'[q] = AbsNext[q]
                                   /\ AbsCall'[q] = AbsCall[q]
  BY AbsIs DEF Others, Unseen
<1>2. /\ AbsTable' = [AbsTable EXCEPT ![p] = AbsTable'[p]]
      /\ AbsTable'[p] = AbsTable[p] => AbsTable' = AbsTable
  BY <1>1, AbsMaps, MapSet
<1>3. /\ AbsNext' = [AbsNext EXCEPT ![p] = AbsNext'[p]]
      /\ AbsNext'[p] = AbsNext[p] => AbsNext' = AbsNext
  BY <1>1, AbsMaps, MapSet
<1>4. /\ AbsCall' = [AbsCall EXCEPT ![p] = AbsCall'[p]]
      /\ AbsCall'[p] = AbsCall[p] => AbsCall' = AbsCall
  BY <1>1, AbsMaps, MapSet
<1>5. /\ AbsTable[p] = TableNow(p) /\ AbsNext[p] = NextFdNow(p) /\ AbsCall[p] = CallNow(p)
      /\ AbsTable'[p] = TableNow(p)' /\ AbsNext'[p] = NextFdNow(p)' /\ AbsCall'[p] = CallNow(p)'
  BY AbsIs
<1> QED BY <1>2, <1>3, <1>4, <1>5

(* Nothing of it can be seen.                                              *)
LEMMA ViewStutter ==
  ASSUME NEW p \in Programs, Others(p), Unseen(p), host' = host, AbsDead' = AbsDead
  PROVE  UNCHANGED View!vars
<1>1. AbsTable' = AbsTable /\ AbsNext' = AbsNext /\ AbsCall' = AbsCall
  BY AbsSets DEF Unseen
<1> QED BY <1>1 DEF View!vars

(* A call is decided.                                                      *)
DecideAt(f, p, code, fd, block) ==
  [f EXCEPT ![p].ph = "decided", ![p].code = code, ![p].fd = fd, ![p].block = block]
SetAt(f, p, v) == [f EXCEPT ![p] = v]
LEMMA DecideForm ==
  ASSUME NEW f, f = [q \in Programs |-> f[q]], NEW p \in Programs,
         NEW code, NEW fd, NEW block
  PROVE  DecideAt(f, p, code, fd, block) = SetAt(f, p, Decided(f[p], code, fd, block))
<1> DEFINE Ph(y, v) == [y EXCEPT !.ph = v]
           C(y, v) == [y EXCEPT !.code = v]
           F(y, v) == [y EXCEPT !.fd = v]
           B(y, v) == [y EXCEPT !.block = v]
           Set(g, v) == [g EXCEPT ![p] = v]
           PhAt(g, v) == [g EXCEPT ![p].ph = v]
           CAt(g, v) == [g EXCEPT ![p].code = v]
           FAt(g, v) == [g EXCEPT ![p].fd = v]
           BAt(g, v) == [g EXCEPT ![p].block = v]
<1>1. DecideAt(f, p, code, fd, block) = BAt(FAt(CAt(PhAt(f, "decided"), code), fd), block)
  BY Zenon DEF DecideAt
<1>2. Decided(f[p], code, fd, block) = B(F(C(Ph(f[p], "decided"), code), fd), block)
  BY Zenon DEF Decided
<1>3. \A g, v : /\ PhAt(g, v) = Set(g, Ph(g[p], v)) /\ CAt(g, v) = Set(g, C(g[p], v))
                /\ FAt(g, v) = Set(g, F(g[p], v)) /\ BAt(g, v) = Set(g, B(g[p], v))
  BY Zenon
<1> HIDE DEF Ph, C, F, B, PhAt, CAt, FAt, BAt
<1>4. \A v : Set(f, v)[p] = v /\ \A w : Set(Set(f, v), w) = Set(f, w)
  OBVIOUS
<1> HIDE DEF Set
<1>5. BAt(FAt(CAt(PhAt(f, "decided"), code), fd), block)
        = Set(f, B(F(C(Ph(f[p], "decided"), code), fd), block))
  BY <1>3, <1>4
<1>6. SetAt(f, p, Decided(f[p], code, fd, block)) = Set(f, Decided(f[p], code, fd, block))
  BY Zenon DEF Set, SetAt
<1> QED BY <1>1, <1>2, <1>5, <1>6, Zenon

LEMMA ViewDecides ==
  ASSUME NEW p \in Programs, Others(p), NEW ph, NEW r, NEW b,
         CallNow(p) = Shown(ph, r, "OK", 0, b),
         NEW code, NEW fd, NEW block, CallNow(p)' = Shown("decided", r, code, fd, block)
  PROVE  View!Decide(p, code, fd, block)
<1>1. AbsCall' = SetAt(AbsCall, p, CallNow(p)')
  BY AbsSets, Zenon DEF SetAt
<1>2. AbsCall[p] = Shown(ph, r, "OK", 0, b)
  BY AbsIs
<1>3. Decided(AbsCall[p], code, fd, block) = Shown("decided", r, code, fd, block)
  BY <1>2, ShownMore
<1>4. AbsCall = [q \in Programs |-> AbsCall[q]]
  BY AbsMaps, Zenon
<1>5. DecideAt(AbsCall, p, code, fd, block)
        = SetAt(AbsCall, p, Decided(AbsCall[p], code, fd, block))
  BY <1>4, DecideForm
<1>6. AbsCall' = DecideAt(AbsCall, p, code, fd, block)
  BY <1>1, <1>3, <1>5
<1> QED BY <1>6, Zenon DEF View!Decide, DecideAt

-----------------------------------------------------------------------------
(* The reasons a call may fail for, by the numbers of the caller's files.  *)
Because(D, r, e) ==
  \/ e = "IO"
  \/ e = "INVAL" /\ ((r.op # "close" /\ r.arg = "null") \/ (r.op = "open" /\ r.flags.mode = 3))
  \/ e = "ACCES" /\ ((r.op = "read" /\ r.arg = "readonly")
                     \/ (r.op \in PathOps /\ r.name \in Jailed))
  \/ e = "NOMEM" /\ r.op \in {"open", "opendir"} /\ Cardinality(D) >= MaxFds
  \/ e = "BADF" /\ r.op \in FdOps /\ r.fd \notin D
  \/ e \in {"NOENT", "EXIST", "INVAL"} /\ r.op \in PathOps /\ e = View!PathError(r)

LEMMA PathErrorIs ==
  ASSUME NEW r
  PROVE  /\ r.op = "open" => View!PathError(r) = OpenError(host, r.name, r.flags)
         /\ r.op = "opendir" => View!PathError(r) = ListError(host, r.name)
         /\ r.op = "mkdir" => View!PathError(r) = MkdirError(host, r.name)
         /\ r.op = "unlink" => View!PathError(r) = UnlinkError(host, r.name)
BY SameHost DEF View!PathError

LEMMA ErrorsAre ==
  ASSUME NEW p \in Programs, NEW r, NEW e, NEW D, D = DOMAIN TableNow(p)
  PROVE  e \in View!Errors(p, r) <=> Because(D, r, e)
<1>1. AbsTable[p] = TableNow(p) /\ View!PathOps = PathOps /\ View!FdOps = FdOps
  BY AbsIs, SameHost
<1>2. View!Cardinality(D) = Cardinality(D)
  BY SameHost, Zenon DEF View!Cardinality, Cardinality
<1> QED BY <1>1, <1>2 DEF View!Errors, Because

LEMMA FilesDomain ==
  ASSUME NEW files, NEW d
  PROVE  /\ DOMAIN FilesIn(files, d) = DOMAIN files
         /\ \A fd \in DOMAIN files : FilesIn(files, d)[fd] = FileIs(files[fd], d)
BY DEF FilesIn

LEMMA ShownParts ==
  ASSUME NEW ph, NEW r, NEW code, NEW fd, NEW block
  PROVE  /\ Shown(ph, r, code, fd, block).ph = ph /\ Shown(ph, r, code, fd, block).r = r
         /\ Shown(ph, r, code, fd, block).block = block
BY DEF Shown

(* The service fails a call.                                               *)
Calling(p, r) == CallNow(p) = Shown("called", r, "OK", 0, Nothing)
SameTable(p) == TableNow(p)' = TableNow(p) /\ NextFdNow(p)' = NextFdNow(p)
Decides(p, r, code, fd, block) == CallNow(p)' = Shown("decided", r, code, fd, block)
LEMMA ViewFail ==
  ASSUME NEW p \in Programs, Others(p), NEW r, Calling(p, r), NEW code,
         Decides(p, r, code, 0, Nothing), SameTable(p), host' = host, AbsDead' = AbsDead,
         NEW D, D = DOMAIN TableNow(p), Because(D, r, code)
  PROVE  View!Step(p)
<1>1. AbsCall[p] = Shown("called", r, "OK", 0, Nothing)
  BY AbsIs DEF Calling
<1>2. AbsCall[p].ph = "called" /\ AbsCall[p].r = r
  BY <1>1, ShownParts
<1>3. code \in View!Errors(p, r)
  BY ErrorsAre
<1>4. View!Decide(p, code, 0, Nothing)
  <2>1. CallNow(p) = Shown("called", r, "OK", 0, Nothing)
    BY DEF Calling
  <2>2. CallNow(p)' = Shown("decided", r, code, 0, Nothing)
    BY DEF Decides
  <2> QED BY <2>1, <2>2, ViewDecides
<1>5. AbsTable' = AbsTable /\ AbsNext' = AbsNext
  BY AbsSets DEF SameTable
<1>6. View!Nothing = Nothing
  BY SameHost
<1>7. View!Fail(p)
  BY <1>2, <1>3, <1>4, <1>5, <1>6 DEF View!Fail
<1> QED BY <1>2, <1>7 DEF View!Step

(* It carries a call out.                                                  *)
LEMMA ViewAct ==
  ASSUME NEW p \in Programs, NEW r, Calling(p, r), AbsDead' = AbsDead,
         NEW D, D = DOMAIN TableNow(p), \A e : Because(D, r, e) => e = "IO",
         r.op \in PathOps => View!PathError(r) = "OK",
         View!Path(p) \/ View!Close(p) \/ View!Read(p) \/ View!Write(p)
  PROVE  View!Step(p)
<1>1. AbsCall[p] = Shown("called", r, "OK", 0, Nothing)
  BY AbsIs DEF Calling
<1>2. AbsCall[p].ph = "called" /\ AbsCall[p].r = r
  BY <1>1, ShownParts
<1>3. View!Errors(p, r) = {"IO"}
  <2>1. \A e : e \in View!Errors(p, r) <=> Because(D, r, e)
    BY ErrorsAre
  <2>2. Because(D, r, "IO")
    BY DEF Because
  <2> QED BY <2>1, <2>2
<1>4. View!Sound(p, r)
  BY <1>3, SameHost DEF View!Sound
<1>5. View!Act(p)
  BY <1>2, <1>4, Zenon DEF View!Act
<1> QED BY <1>2, <1>5 DEF View!Step

-----------------------------------------------------------------------------
(* The steps of HostFiles that carry a call out.                           *)
LEMMA CallingIs ==
  ASSUME NEW p \in Programs, NEW r, Calling(p, r)
  PROVE  AbsCall[p].ph = "called" /\ AbsCall[p].r = r
<1>1. AbsCall[p] = Shown("called", r, "OK", 0, Nothing)
  BY AbsIs DEF Calling
<1> QED BY <1>1, ShownParts

LEMMA CallingDecides ==
  ASSUME NEW p \in Programs, Others(p), NEW r, Calling(p, r), NEW code, NEW fd, NEW block,
         Decides(p, r, code, fd, block)
  PROVE  View!Decide(p, code, fd, block)
<1>1. CallNow(p) = Shown("called", r, "OK", 0, Nothing)
  BY DEF Calling
<1>2. CallNow(p)' = Shown("decided", r, code, fd, block)
  BY DEF Decides
<1> QED BY <1>1, <1>2, ViewDecides

LEMMA SameTableIs ==
  ASSUME NEW p \in Programs, Others(p)
  PROVE  /\ TableNow(p)' = TableNow(p) => AbsTable' = AbsTable
         /\ NextFdNow(p)' = NextFdNow(p) => AbsNext' = AbsNext
         /\ AbsTable' = SetAt(AbsTable, p, TableNow(p)')
         /\ AbsNext' = SetAt(AbsNext, p, NextFdNow(p)')
         /\ AbsCall' = SetAt(AbsCall, p, CallNow(p)')
BY AbsSets, Zenon DEF SetAt

(* A file gets the next number.                                            *)
Gains(p, r, o) ==
  /\ Decides(p, r, "OK", NextFdNow(p), Nothing)
  /\ NextFdNow(p)' = NextFdNow(p) + 1
  /\ TableNow(p)' = With(TableNow(p), NextFdNow(p), o)
LEMMA ViewNew ==
  ASSUME NEW p \in Programs, Others(p), NEW r, Calling(p, r), NEW o, Gains(p, r, o)
  PROVE  View!NewFile(p, o)
<1>1. AbsTable[p] = TableNow(p) /\ AbsNext[p] = NextFdNow(p) /\ View!Nothing = Nothing
  BY AbsIs, SameHost
<1>2. AbsTable' = SetAt(AbsTable, p, With(AbsTable[p], AbsNext[p], o))
  BY <1>1, SameTableIs DEF Gains
<1>3. AbsNext' = SetAt(AbsNext, p, AbsNext[p] + 1)
  BY <1>1, SameTableIs DEF Gains
<1>4. View!Decide(p, "OK", AbsNext[p], View!Nothing)
  BY <1>1, CallingDecides DEF Gains
<1> QED BY <1>2, <1>3, <1>4, Zenon DEF View!NewFile, SetAt, With

FileAsNew(f, mode) == [file |-> f, mode |-> mode, pos |-> 0, names |-> {}]
ListAsNew(names) == [file |-> Root, mode |-> ReadOnly, pos |-> 0, names |-> names]
LEMMA ViewPath ==
  ASSUME NEW p \in Programs, Others(p), NEW r, Calling(p, r)
  PROVE  /\ /\ r.op = "open" /\ host' = Opened(host, r.name, r.flags)
            /\ Gains(p, r, FileAsNew(host'.entry[r.name], r.flags.mode))
            => View!Path(p)
         /\ /\ r.op = "opendir" /\ host' = host
            /\ Gains(p, r, ListAsNew(Listing(host, r.name)))
            => View!Path(p)
         /\ /\ r.op = "mkdir" /\ host' = WithDir(host, r.name)
            /\ Decides(p, r, "OK", 0, Nothing) /\ SameTable(p)
            => View!Path(p)
         /\ /\ r.op = "unlink" /\ host' = Unlinked(host, r.name)
            /\ Decides(p, r, "OK", 0, Nothing) /\ SameTable(p)
            => View!Path(p)
<1>1. AbsCall[p].r = r
  BY CallingIs
<1>2. /\ View!Opened(host, r.name, r.flags) = Opened(host, r.name, r.flags)
      /\ View!Listing(host, r.name) = Listing(host, r.name)
      /\ View!WithDir(host, r.name) = WithDir(host, r.name)
      /\ View!Unlinked(host, r.name) = Unlinked(host, r.name)
      /\ View!Nothing = Nothing /\ View!ReadOnly = ReadOnly
  BY SameHost, Zenon
<1>3. ASSUME r.op = "open", host' = Opened(host, r.name, r.flags),
             Gains(p, r, FileAsNew(host'.entry[r.name], r.flags.mode))
      PROVE  View!Path(p)
  <2>1. View!NewFile(p, FileAsNew(host'.entry[r.name], r.flags.mode))
    BY <1>3, ViewNew
  <2>2. FileAsNew(host'.entry[r.name], r.flags.mode)
          = View!OpenFile(host'.entry[r.name], r.flags.mode)
    BY Zenon DEF FileAsNew, View!OpenFile
  <2> QED BY <1>1, <1>2, <1>3, <2>1, <2>2 DEF View!Path
<1>4. ASSUME r.op = "opendir", host' = host, Gains(p, r, ListAsNew(Listing(host, r.name)))
      PROVE  View!Path(p)
  <2>1. View!NewFile(p, ListAsNew(Listing(host, r.name)))
    BY <1>4, ViewNew
  <2>2. ListAsNew(Listing(host, r.name)) = View!OpenDir(Listing(host, r.name))
    BY <1>2, Zenon DEF ListAsNew, View!OpenDir
  <2> QED BY <1>1, <1>2, <1>4, <2>1, <2>2 DEF View!Path
<1>5. ASSUME Decides(p, r, "OK", 0, Nothing), SameTable(p)
      PROVE  View!Decide(p, "OK", 0, Nothing) /\ AbsTable' = AbsTable /\ AbsNext' = AbsNext
  BY <1>5, CallingDecides, SameTableIs DEF SameTable
<1>6. ASSUME r.op = "mkdir", host' = WithDir(host, r.name),
             Decides(p, r, "OK", 0, Nothing), SameTable(p)
      PROVE  View!Path(p)
  BY <1>1, <1>2, <1>5, <1>6 DEF View!Path
<1>7. ASSUME r.op = "unlink", host' = Unlinked(host, r.name),
             Decides(p, r, "OK", 0, Nothing), SameTable(p)
      PROVE  View!Path(p)
  BY <1>1, <1>2, <1>5, <1>7 DEF View!Path
<1> QED BY <1>3, <1>4, <1>6, <1>7

LEMMA ViewClose ==
  ASSUME NEW p \in Programs, Others(p), NEW r, Calling(p, r), r.op = "close",
         Decides(p, r, "OK", 0, Nothing), NextFdNow(p)' = NextFdNow(p), host' = host,
         TableNow(p)' = Without(TableNow(p), {r.fd})
  PROVE  View!Close(p)
<1>1. AbsCall[p].r = r /\ View!Nothing = Nothing /\ AbsTable[p] = TableNow(p)
  BY CallingIs, SameHost, AbsIs
<1>2. View!Decide(p, "OK", 0, View!Nothing) /\ AbsNext' = AbsNext
  BY <1>1, CallingDecides, SameTableIs
<1>3. AbsTable' = SetAt(AbsTable, p, Without(AbsTable[p], {r.fd}))
  BY <1>1, SameTableIs
<1>4. AbsTable' = [AbsTable EXCEPT ![p] = [x \in DOMAIN AbsTable[p] \ {r.fd} |-> AbsTable[p][x]]]
  BY <1>3, Zenon DEF SetAt, Without
<1> QED BY <1>1, <1>2, <1>4 DEF View!Close

-----------------------------------------------------------------------------
(* Reads and writes.                                                       *)
TakeAt(f, p, block) == [f EXCEPT ![p].ph = "taken", ![p].block = block]
LEMMA TakeForm ==
  ASSUME NEW f, f = [q \in Programs |-> f[q]], NEW p \in Programs, NEW block
  PROVE  TakeAt(f, p, block) = SetAt(f, p, Taken(f[p], block))
<1> DEFINE Ph(y, v) == [y EXCEPT !.ph = v]
           B(y, v) == [y EXCEPT !.block = v]
           PhAt(g, v) == [g EXCEPT ![p].ph = v]
           BAt(g, v) == [g EXCEPT ![p].block = v]
<1>1. TakeAt(f, p, block) = BAt(PhAt(f, "taken"), block)
  BY Zenon DEF TakeAt
<1>2. Taken(f[p], block) = B(Ph(f[p], "taken"), block)
  BY Zenon DEF Taken
<1>3. \A g, v : PhAt(g, v) = SetAt(g, p, Ph(g[p], v)) /\ BAt(g, v) = SetAt(g, p, B(g[p], v))
  BY Zenon DEF SetAt
<1> HIDE DEF Ph, B, PhAt, BAt
<1>4. \A v : SetAt(f, p, v)[p] = v /\ \A w : SetAt(SetAt(f, p, v), p, w) = SetAt(f, p, w)
  BY DEF SetAt
<1>5. BAt(PhAt(f, "taken"), block) = SetAt(f, p, B(Ph(f[p], "taken"), block))
  BY <1>3, <1>4
<1> QED BY <1>1, <1>2, <1>5, Zenon

MoveAt(f, p, fd) == [f EXCEPT ![p][fd].pos = @ + 1]
Move(f, fd) == [f EXCEPT ![fd].pos = @ + 1]
LEMMA MoveForm ==
  ASSUME NEW f, NEW p
  PROVE  \A fd : MoveAt(f, p, fd) = SetAt(f, p, Move(f[p], fd))
BY Zenon DEF MoveAt, Move, SetAt

LEMMA ViewTake ==
  ASSUME NEW p \in Programs, Others(p), NEW r, Calling(p, r), r.op = "read",
         NEW o, o = TableNow(p)[r.fd], View!IsListing(o) \/ View!IsFile(o), View!Readable(o.mode),
         ~View!AllRead(o), CallNow(p)' = Shown("taken", r, "OK", 0, View!NextBlock(o)),
         TableNow(p)' = Move(TableNow(p), r.fd), NextFdNow(p)' = NextFdNow(p), host' = host
  PROVE  View!Read(p)
<1>1. AbsCall[p].r = r /\ AbsTable[p] = TableNow(p)
  BY CallingIs, AbsIs
<1>2. AbsTable' = SetAt(AbsTable, p, Move(AbsTable[p], r.fd)) /\ AbsNext' = AbsNext
  BY <1>1, SameTableIs
<1>3. AbsTable' = MoveAt(AbsTable, p, r.fd)
  BY <1>2, MoveForm
<1>4. AbsCall[p] = Shown("called", r, "OK", 0, Nothing)
  BY AbsIs DEF Calling
<1>5. Taken(AbsCall[p], View!NextBlock(o)) = Shown("taken", r, "OK", 0, View!NextBlock(o))
  BY <1>4, ShownMore
<1>6. AbsCall' = SetAt(AbsCall, p, Taken(AbsCall[p], View!NextBlock(o)))
  BY <1>5, SameTableIs
<1>7. AbsCall = [q \in Programs |-> AbsCall[q]]
  BY AbsMaps, Zenon
<1>8. AbsCall' = TakeAt(AbsCall, p, View!NextBlock(o))
  BY <1>6, <1>7, TakeForm
<1>9. /\ AbsCall' = [AbsCall EXCEPT ![p].ph = "taken", ![p].block = View!NextBlock(o)]
      /\ AbsTable' = [AbsTable EXCEPT ![p][r.fd].pos = @ + 1]
  BY <1>3, <1>8, Zenon DEF TakeAt, MoveAt
<1>10. AbsTable[p][AbsCall[p].r.fd] = o /\ AbsCall[p].r.fd = r.fd /\ AbsCall[p].r.op = "read"
  BY <1>1
<1> QED BY <1>2, <1>9, <1>10, Zenon DEF View!Read

LEMMA ViewReadAll ==
  ASSUME NEW p \in Programs, Others(p), NEW r, Calling(p, r), r.op = "read",
         NEW o, o = TableNow(p)[r.fd], View!IsListing(o) \/ View!IsFile(o), View!Readable(o.mode),
         View!AllRead(o), Decides(p, r, "OK", 0, Nothing), SameTable(p), host' = host
  PROVE  View!Read(p)
<1>1. AbsCall[p].r = r /\ AbsTable[p] = TableNow(p) /\ View!Nothing = Nothing
  BY CallingIs, AbsIs, SameHost
<1>2. /\ View!Decide(p, "OK", 0, View!Nothing) /\ AbsTable' = AbsTable /\ AbsNext' = AbsNext
  BY <1>1, CallingDecides, SameTableIs DEF SameTable
<1>3. AbsTable[p][AbsCall[p].r.fd] = o /\ AbsCall[p].r.op = "read"
  BY <1>1
<1> QED BY <1>2, <1>3, Zenon DEF View!Read

LEMMA ViewWrite ==
  ASSUME NEW p \in Programs, Others(p), NEW r, Calling(p, r), r.op = "write",
         NEW o, o = TableNow(p)[r.fd], View!IsFile(o), View!Writable(o.mode),
         host' = Written(host, o.file, o.pos, p), Decides(p, r, "OK", 0, Nothing),
         TableNow(p)' = Move(TableNow(p), r.fd), NextFdNow(p)' = NextFdNow(p)
  PROVE  View!Write(p)
<1>1. AbsCall[p].r = r /\ AbsTable[p] = TableNow(p) /\ View!Nothing = Nothing
  BY CallingIs, AbsIs, SameHost
<1>2. View!Decide(p, "OK", 0, View!Nothing) /\ AbsNext' = AbsNext
  BY <1>1, CallingDecides, SameTableIs
<1>3. AbsTable' = MoveAt(AbsTable, p, r.fd)
  BY <1>1, SameTableIs, MoveForm
<1>4. AbsTable' = [AbsTable EXCEPT ![p][r.fd].pos = @ + 1]
  BY <1>3, Zenon DEF MoveAt
<1>5. AbsTable[p][AbsCall[p].r.fd] = o /\ AbsCall[p].r.fd = r.fd /\ AbsCall[p].r.op = "write"
  BY <1>1
<1>6. host' = View!Written(host, o.file, o.pos, p)
  BY SameHost
<1> QED BY <1>2, <1>4, <1>5, <1>6, Zenon DEF View!Write

LEMMA ViewLand ==
  ASSUME NEW p \in Programs, Others(p), NEW r, NEW b,
         CallNow(p) = Shown("taken", r, "OK", 0, b),
         Decides(p, r, "OK", 0, b) \/ Decides(p, r, "IO", 0, Nothing),
         SameTable(p), host' = host, AbsDead' = AbsDead
  PROVE  View!Step(p)
<1>1. AbsCall[p] = Shown("taken", r, "OK", 0, b)
  BY AbsIs
<1>2. AbsCall[p].ph = "taken" /\ AbsCall[p].block = b
  BY <1>1, ShownParts
<1>3. \A code, block : Decides(p, r, code, 0, block) => View!Decide(p, code, 0, block)
  <2> SUFFICES ASSUME NEW code, NEW block, Decides(p, r, code, 0, block)
               PROVE  View!Decide(p, code, 0, block)
    OBVIOUS
  <2>1. CallNow(p)' = Shown("decided", r, code, 0, block)
    BY DEF Decides
  <2> QED BY <2>1, ViewDecides
<1>4. View!Nothing = Nothing /\ AbsTable' = AbsTable /\ AbsNext' = AbsNext
  BY SameTableIs, SameHost DEF SameTable
<1>5. View!Land(p)
  BY <1>2, <1>3, <1>4 DEF View!Land
<1> QED BY <1>2, <1>5 DEF View!Step

-----------------------------------------------------------------------------
(* What a step of the service shows of the caller.                         *)
SessFiles(p) == sess[sessions[p]].files
SeenCall(c, p, m) ==
  /\ Others(p) /\ AbsDead' = AbsDead
  /\ m.t \in {"req", "bytes"} => Calling(p, call[p])
  /\ m.t = "landed" => CallNow(p) = Shown("taken", call[p], "OK", 0, m.block)
  /\ TableNow(p) = FilesIn(sess[sessions[p]].files, desc)
  /\ NextFdNow(p) = sess[sessions[p]].next
  /\ TableNow(p)' = FilesIn(sess'[sessions[p]].files, desc')
  /\ NextFdNow(p)' = sess'[sessions[p]].next
LEMMA ServedView ==
  ASSUME Inv, NEW c \in Cpus, NEW p \in Programs, NEW m, ServedFrom(c, p, m),
         NEW n \in Down(c), n.by = p, SendCpu(p, n), Within(sessions[p]), OnlyOwn(p)
  PROVE  /\ SeenCall(c, p, m)
         /\ CallNow(p)' = Shows(call[p], n, buf[p])
<1>1. Others(p)
  BY ServedOthers
<1>2. /\ CallNow(p) = Shows(call[p], m, buf[p])
      /\ CallNow(p)' = Shows(call[p], n, buf[p])
      /\ TableNow(p) = FilesIn(sess[sessions[p]].files, desc)
      /\ NextFdNow(p) = sess[sessions[p]].next
      /\ TableNow(p)' = FilesIn(sess'[sessions[p]].files, desc')
      /\ NextFdNow(p)' = sess'[sessions[p]].next
  BY ServedSelf
<1>3. AbsDead' = AbsDead
  BY DEF AbsDead, ServedFrom, progVars
<1>4. m.t \in {"req", "bytes"} => Calling(p, call[p])
  BY <1>2 DEF Calling, Shows
<1>5. m.t = "landed" => CallNow(p) = Shown("taken", call[p], "OK", 0, m.block)
  BY <1>2 DEF Shows
<1> QED BY <1>1, <1>2, <1>3, <1>4, <1>5, Zenon DEF SeenCall

LEMMA ReplyView ==
  ASSUME Inv, NEW c \in Cpus, NEW p \in Programs, NEW m, ServedFrom(c, p, m),
         NEW code \in Codes, NEW k \in Nat, Reply(sessions[p], code, k),
         Within(sessions[p]), OnlyOwn(p)
  PROVE  /\ SeenCall(c, p, m)
         /\ call[p].op \in {"open", "opendir"} => Decides(p, call[p], code, k, Nothing)
         /\ call[p].op \notin {"open", "opendir"} /\ (call[p].op # "read" \/ k = 0) =>
              Decides(p, call[p], code, 0, Nothing)
         /\ call[p].op = "read" /\ k = 1 => Decides(p, call[p], code, 0, buf[p])
         /\ k = 0 => Decides(p, call[p], code, 0, Nothing)
<1>0. TypeInv /\ SessInv /\ CallInv
  BY DEF Inv
<1>1. sess[sessions[p]].box = p /\ Home[p] = c
  BY <1>0, OwnSession
<1>2. PICK n \in Down(Home[p]) : /\ n.by = p /\ n.t = "reply" /\ n.code = code /\ n.n = k
                                 /\ SendCpu(p, n)
  BY <1>1, ReplySent
<1>3. SeenCall(c, p, m) /\ CallNow(p)' = Shows(call[p], n, buf[p])
  BY <1>1, <1>2, ServedView
<1>4. CallNow(p)' = Shown("decided", call[p], code,
                          IF call[p].op \in {"open", "opendir"} THEN k ELSE 0,
                          IF call[p].op = "read" /\ k = 1 THEN buf[p] ELSE Nothing)
  BY <1>2, <1>3 DEF Shows, Telling
<1> QED BY <1>3, <1>4 DEF Decides

LEMMA DeferView ==
  ASSUME ~Reuse, Inv, NEW c \in Cpus, NEW p \in Programs, NEW m, ServedFrom(c, p, m),
         NEW x \in Down(Home[p]), x.by = p, x.t \in {"fetch", "land"},
         Defer(sessions[p], p, call[p], x), Within(sessions[p]), OnlyOwn(p)
  PROVE  /\ SeenCall(c, p, m)
         /\ x.t = "fetch" => CallNow(p)' = Shown("called", call[p], "OK", 0, Nothing)
         /\ x.t = "land" => CallNow(p)' = Shown("taken", call[p], "OK", 0, x.block)
<1>0. TypeInv /\ SessInv /\ CallInv
  BY DEF Inv
<1>1. Home[p] = c
  BY <1>0, OwnSession
<1>2. PICK n \in Down(Home[p]) : /\ n.by = x.by /\ n.t = x.t /\ n.block = x.block
                                 /\ SendCpu(p, n)
  BY DeferSent
<1>3. SeenCall(c, p, m) /\ CallNow(p)' = Shows(call[p], n, buf[p])
  BY <1>1, <1>2, ServedView
<1> QED BY <1>2, <1>3 DEF Shows

(* Files that the service leaves as they are.                              *)
LEMMA LeftAlone ==
  ASSUME UNCHANGED <<sess, desc>>, NEW p
  PROVE  Within(sessions[p]) /\ OnlyOwn(p)
BY DEF Within, OnlyOwn

LEMMA SeenSame ==
  ASSUME NEW c, NEW p, NEW m, SeenCall(c, p, m), UNCHANGED <<sess, desc>>
  PROVE  SameTable(p)
BY DEF SeenCall, SameTable

(* A file as HostFiles has it.                                             *)
LEMMA FileView ==
  ASSUME Inv, NEW p \in Programs, Has(p), NEW fd \in DOMAIN SessFiles(p),
         NEW of, of = SessFiles(p)[fd], NEW o, o = FileIs(of, desc)
  PROVE  /\ View!IsListing(o) <=> IsDir(of)
         /\ View!IsFile(o) <=> ~IsDir(of) /\ IsFile(of.host)
         /\ CanRead(of) <=> (View!IsListing(o) \/ View!IsFile(o)) /\ View!Readable(o.mode)
         /\ CanRead(of) => (AllRead(of) <=> View!AllRead(o))
         /\ CanRead(of) => BlockOf(of) = View!NextBlock(o)
         /\ ~IsDir(of) => of.host \in DOMAIN desc /\ of.host \in Descs /\ Held(p, fd, of.host)
<1>0. TypeInv /\ DescInv /\ SessOk /\ DescOk
  BY DEF Inv, TypeInv
<1>1. sessions[p] \in 1 .. Len(sess) /\ sess \in Seq(Session)
  BY <1>0 DEF SessOk, Has
<1>2. of.host \in Descs \cup {None} /\ fd \in Nat
  BY <1>1, SessionParts DEF SessFiles
<1>3. ASSUME ~IsDir(of)
      PROVE  of.host \in DOMAIN desc /\ of.host \in Descs /\ Held(p, fd, of.host)
  <2>1. of.host \in Descs
    BY <1>2, <1>3 DEF IsDir
  <2>2. Held(p, fd, of.host)
    BY DEF Held, SessFiles
  <2> QED BY <1>0, <1>2, <2>1, <2>2 DEF DescInv
<1>4. ~IsDir(of) => desc[of.host].file \in 1 .. MaxFiles \cup {Dir}
  BY <1>0, <1>3, DescForm DEF DescOk
<1>5. /\ o.file = IF IsDir(of) THEN Root ELSE desc[of.host].file
      /\ o.mode = IF IsDir(of) THEN ReadOnly ELSE desc[of.host].mode
      /\ o.pos = IF IsDir(of) THEN of.pos ELSE desc[of.host].pos
      /\ o.names = of.names
  BY DEF FileIs
<1>6. Root \notin Nat /\ Root # Dir /\ Dir \notin Nat /\ MaxFiles \in Nat
  BY HostAssumption
<1>7. View!IsListing(o) <=> IsDir(of)
  BY <1>4, <1>5, <1>6 DEF View!IsListing
<1>8. View!IsFile(o) <=> ~IsDir(of) /\ IsFile(of.host)
  BY <1>3, <1>4, <1>5, <1>6 DEF View!IsFile, IsFile
<1>9. View!Readable(o.mode) <=> IsDir(of) \/ Readable(desc[of.host].mode)
  BY <1>5, SameHost DEF Readable
<1>10. CanRead(of) <=> (View!IsListing(o) \/ View!IsFile(o)) /\ View!Readable(o.mode)
  BY <1>7, <1>8, <1>9 DEF CanRead
<1>11. CanRead(of) => (AllRead(of) <=> View!AllRead(o))
  <2>1. View!AtEnd(host, o.file, o.pos) <=> AtEnd(host, o.file, o.pos)
    BY SameHost
  <2> QED BY <1>5, <1>7, <1>8, <2>1 DEF CanRead, AllRead, View!AllRead
<1>12. CanRead(of) => BlockOf(of) = View!NextBlock(o)
  <2>1. View!BlockAt(host, o.file, o.pos) = BlockAt(host, o.file, o.pos)
    BY SameHost
  <2> QED BY <1>5, <1>7, <1>8, <2>1 DEF CanRead, BlockOf, View!NextBlock
<1> QED BY <1>3, <1>7, <1>8, <1>10, <1>11, <1>12

-----------------------------------------------------------------------------
(* What closing a file and moving in it show.                              *)
LEMMA FileIsSame ==
  ASSUME NEW of, NEW d, NEW e, IsDir(of) \/ e[of.host] = d[of.host]
  PROVE  FileIs(of, e) = FileIs(of, d)
BY DEF FileIs

LEMMA OwnNumbers ==
  ASSUME Inv, NEW p \in Programs, Has(p), NEW fd \in DOMAIN SessFiles(p)
  PROVE  fd \in Nat /\ Held(p, fd, SessFiles(p)[fd].host)
<1>1. sessions[p] \in 1 .. Len(sess) /\ sess \in Seq(Session)
  BY DEF Inv, TypeInv, SessOk, Has
<1>2. fd \in Nat
  BY <1>1, SessionParts DEF SessFiles
<1> QED BY <1>2 DEF Held, SessFiles

LEMMA OtherDesc ==
  ASSUME Inv, NEW p \in Programs, Has(p), NEW fd \in DOMAIN SessFiles(p),
         NEW g \in DOMAIN SessFiles(p), g # fd, ~IsDir(SessFiles(p)[g])
  PROVE  /\ SessFiles(p)[g].host \in DOMAIN desc
         /\ SessFiles(p)[g].host # SessFiles(p)[fd].host
<1>0. DescInv /\ SessOk
  BY DEF Inv, TypeInv
<1>1. SessFiles(p)[g].host \in DOMAIN desc /\ SessFiles(p)[g].host \in Descs
      /\ Held(p, g, SessFiles(p)[g].host)
  BY FileView
<1>2. fd \in Nat /\ g \in Nat
  BY OwnNumbers
<1>3. ASSUME SessFiles(p)[g].host = SessFiles(p)[fd].host PROVE FALSE
  <2>1. Held(p, fd, SessFiles(p)[g].host)
    BY <1>3 DEF Held, SessFiles
  <2> QED BY <1>0, <1>1, <1>2, <2>1, DescOwned
<1> QED BY <1>1, <1>3

LEMMA OwnIs ==
  ASSUME Inv, NEW p \in Programs, Has(p), NEW fd \in DOMAIN SessFiles(p),
         \A e \in DOMAIN desc : e # SessFiles(p)[fd].host =>
           e \in DOMAIN desc' /\ desc'[e] = desc[e]
  PROVE  OnlyOwn(p)
<1>1. fd \in Nat /\ Held(p, fd, SessFiles(p)[fd].host)
  BY OwnNumbers
<1> QED BY <1>1 DEF OnlyOwn

LEMMA ClosedTable ==
  ASSUME Inv, NEW p \in Programs, Has(p), NEW fd, Closes(sessions[p], fd)
  PROVE  /\ FilesIn(sess'[sessions[p]].files, desc')
              = Without(FilesIn(sess[sessions[p]].files, desc), {fd})
         /\ sess'[sessions[p]].next = sess[sessions[p]].next
         /\ Within(sessions[p]) /\ OnlyOwn(p)
<1> DEFINE s == sessions[p]
           f == sess[s].files
           g == sess'[s].files
<1>0. TypeInv /\ s \in 1 .. Len(sess)
  BY DEF Inv, TypeInv, SessOk, Has
<1>1. /\ Within(s) /\ sess'[s].next = sess[s].next
      /\ \A x : x \in DOMAIN g <=> x \in DOMAIN f /\ x # fd
      /\ \A x \in DOMAIN g : g[x] = f[x]
      /\ \A d : d \in DOMAIN desc' <=> d \in DOMAIN desc /\ d # f[fd].host
      /\ \A d \in DOMAIN desc' : desc'[d] = desc[d]
  BY <1>0, CloseIs
<1>2. fd \in DOMAIN SessFiles(p) /\ SessFiles(p) = f
  BY DEF Closes, SessFiles
<1>3. OnlyOwn(p)
  BY <1>1, <1>2, OwnIs
<1>4. \A x \in DOMAIN g : FileIs(g[x], desc') = FileIs(f[x], desc)
  <2> SUFFICES ASSUME NEW x \in DOMAIN g PROVE FileIs(g[x], desc') = FileIs(f[x], desc)
    OBVIOUS
  <2>1. x \in DOMAIN f /\ x # fd /\ g[x] = f[x]
    BY <1>1
  <2>2. IsDir(f[x]) \/ desc'[f[x].host] = desc[f[x].host]
    <3>1. ASSUME ~IsDir(f[x])
          PROVE  f[x].host \in DOMAIN desc /\ f[x].host # f[fd].host
      BY <1>2, <2>1, <3>1, OtherDesc
    <3> QED BY <1>1, <3>1
  <2> QED BY <2>1, <2>2, FileIsSame
<1>5. DOMAIN FilesIn(g, desc') = DOMAIN g /\ DOMAIN FilesIn(f, desc) = DOMAIN f
  BY FilesDomain
<1>6. FilesIn(g, desc') = Without(FilesIn(f, desc), {fd})
  <2>1. DOMAIN g = DOMAIN f \ {fd}
    BY <1>1
  <2>2. FilesIn(g, desc') = [x \in DOMAIN f \ {fd} |-> FileIs(g[x], desc')]
    BY <2>1, Zenon DEF FilesIn
  <2>3. Without(FilesIn(f, desc), {fd}) = [x \in DOMAIN f \ {fd} |-> FilesIn(f, desc)[x]]
    BY <1>5, Zenon DEF Without
  <2>4. \A x \in DOMAIN f \ {fd} : FilesIn(f, desc)[x] = FileIs(g[x], desc')
    BY <1>4, <2>1, FilesDomain
  <2> HIDE DEF f, g
  <2> QED BY <2>2, <2>3, <2>4
<1> QED BY <1>1, <1>3, <1>6

(* A position moves.                                                       *)
LEMMA MovedFile ==
  ASSUME NEW a, NEW b, NEW n, NEW names, NEW x,
         x = [file |-> a, mode |-> b, pos |-> n, names |-> names]
  PROVE  [x EXCEPT !.pos = @ + 1] = [file |-> a, mode |-> b, pos |-> n + 1, names |-> names]
OBVIOUS

FilePos(x) == [x EXCEPT !.pos = @ + 1]
LEMMA MoveIs ==
  ASSUME NEW f, NEW g, NEW d, NEW e, NEW fd \in DOMAIN f, DOMAIN g = DOMAIN f,
         \A x \in DOMAIN f : x # fd => FileIs(g[x], e) = FileIs(f[x], d),
         FileIs(g[fd], e) = FilePos(FileIs(f[fd], d))
  PROVE  FilesIn(g, e) = Move(FilesIn(f, d), fd)
<1> DEFINE F == FilesIn(f, d)
           G == FilesIn(g, e)
<1>1. /\ F = [x \in DOMAIN f |-> F[x]] /\ \A x \in DOMAIN f : F[x] = FileIs(f[x], d)
      /\ G = [x \in DOMAIN f |-> G[x]] /\ \A x \in DOMAIN f : G[x] = FileIs(g[x], e)
  BY DEF FilesIn
<1>2. Move(F, fd) = SetAt(F, fd, FilePos(F[fd]))
  BY Zenon DEF Move, SetAt, FilePos
<1> HIDE DEF F, G
<1>3. SetAt(F, fd, FilePos(F[fd])) = [x \in DOMAIN f |-> IF x = fd THEN FilePos(F[fd]) ELSE F[x]]
  <2>1. DOMAIN F = DOMAIN f
    BY <1>1
  <2> QED BY <1>1, <2>1 DEF SetAt
<1>4. G = SetAt(F, fd, FilePos(F[fd]))
  BY <1>1, <1>3
<1> QED BY <1>2, <1>4 DEF F, G

LEMMA AdvancedFile ==
  ASSUME Inv, NEW p \in Programs, Has(p), NEW fd \in DOMAIN SessFiles(p),
         ~IsDir(SessFiles(p)[fd]), UNCHANGED sess, desc' = Advance(desc, SessFiles(p)[fd].host)
  PROVE  /\ FilesIn(sess'[sessions[p]].files, desc')
              = Move(FilesIn(sess[sessions[p]].files, desc), fd)
         /\ Within(sessions[p]) /\ OnlyOwn(p)
<1> DEFINE f == SessFiles(p)
           h == f[fd].host
<1>1. f = sess[sessions[p]].files /\ f = sess'[sessions[p]].files
  BY DEF SessFiles
<1>2. h \in DOMAIN desc
  BY FileView
<1>3. /\ DOMAIN desc' = DOMAIN desc
      /\ \A e \in DOMAIN desc : e # h => desc'[e] = desc[e]
      /\ desc'[h].file = desc[h].file /\ desc'[h].mode = desc[h].mode
      /\ desc'[h].pos = desc[h].pos + 1
  BY <1>2, DescForm DEF Inv, TypeInv, DescOk
<1>4. OnlyOwn(p)
  BY <1>3, OwnIs
<1>5. \A x \in DOMAIN f : x # fd => FileIs(f[x], desc') = FileIs(f[x], desc)
  <2> SUFFICES ASSUME NEW x \in DOMAIN f, x # fd PROVE FileIs(f[x], desc') = FileIs(f[x], desc)
    OBVIOUS
  <2>1. ASSUME ~IsDir(f[x]) PROVE f[x].host \in DOMAIN desc /\ f[x].host # h
    BY <2>1, OtherDesc
  <2> QED BY <1>3, <2>1, FileIsSame
<1>6. FileIs(f[fd], desc') = FilePos(FileIs(f[fd], desc))
  BY <1>3, MovedFile DEF FileIs, FilePos
<1>7. FilesIn(f, desc') = Move(FilesIn(f, desc), fd)
  BY <1>5, <1>6, MoveIs
<1> QED BY <1>1, <1>4, <1>7 DEF Within

LEMMA TakenTable ==
  ASSUME Inv, NEW p \in Programs, Has(p), NEW fd, Takes(sessions[p], fd)
  PROVE  /\ FilesIn(sess'[sessions[p]].files, desc')
              = Move(FilesIn(sess[sessions[p]].files, desc), fd)
         /\ sess'[sessions[p]].next = sess[sessions[p]].next
         /\ Within(sessions[p]) /\ OnlyOwn(p)
<1> DEFINE s == sessions[p]
           f == sess[s].files
           g == sess'[s].files
<1>0. TypeInv /\ s \in 1 .. Len(sess)
  BY DEF Inv, TypeInv, SessOk, Has
<1>1. /\ fd \in DOMAIN f /\ Within(s) /\ Alike(sess[s], sess'[s])
      /\ sess'[s].next = sess[s].next
      /\ \/ /\ IsDir(f[fd]) /\ desc' = desc
            /\ g[fd].pos = f[fd].pos + 1 /\ g[fd].names = f[fd].names
            /\ \A x \in DOMAIN f : x # fd => g[x] = f[x]
         \/ ~IsDir(f[fd]) /\ sess' = sess /\ desc' = Advance(desc, f[fd].host)
  BY <1>0, TakeIs
<1>2. SessFiles(p) = f
  BY DEF SessFiles
<1>3. CASE ~IsDir(f[fd]) /\ sess' = sess /\ desc' = Advance(desc, f[fd].host)
  BY <1>1, <1>2, <1>3, AdvancedFile
<1>4. CASE /\ IsDir(f[fd]) /\ desc' = desc
           /\ g[fd].pos = f[fd].pos + 1 /\ g[fd].names = f[fd].names
           /\ \A x \in DOMAIN f : x # fd => g[x] = f[x]
  <2>1. DOMAIN g = DOMAIN f /\ g[fd].host = f[fd].host
    BY <1>1 DEF Alike
  <2>2. FileIs(g[fd], desc') = FilePos(FileIs(f[fd], desc))
    BY <1>4, <2>1, MovedFile DEF FileIs, FilePos, IsDir
  <2>3. \A x \in DOMAIN f : x # fd => FileIs(g[x], desc') = FileIs(f[x], desc)
    BY <1>4
  <2>4. FilesIn(g, desc') = Move(FilesIn(f, desc), fd)
    BY <1>1, <2>1, <2>2, <2>3, MoveIs
  <2>5. OnlyOwn(p)
    BY <1>4 DEF OnlyOwn
  <2> QED BY <1>1, <2>4, <2>5
<1> QED BY <1>1, <1>3, <1>4

-----------------------------------------------------------------------------
(* A request comes to the service.                                         *)
LEMMA ServedHas ==
  ASSUME Inv, NEW c \in Cpus, NEW p \in Programs, NEW m, ServedFrom(c, p, m)
  PROVE  /\ Has(p) /\ sessions[p] \in 1 .. Len(sess) /\ sess[sessions[p]].box = p /\ Home[p] = c
         /\ call[p] \in Requests /\ Proper(p, m) /\ TypeInv /\ SessInv /\ DescInv /\ CallInv
BY OwnSession DEF Inv

LEMMA RefusedView ==
  ASSUME Inv, NEW c \in Cpus, NEW p \in Programs, NEW m, ServedFrom(c, p, m), m.t = "req",
         NEW code, Reason(sessions[p], call[p], code), Refuse(sessions[p], code)
  PROVE  View!Step(p)
<1> DEFINE r == call[p]
           D == DOMAIN SessFiles(p)
<1>0. r \in Requests /\ Has(p)
  BY ServedHas
<1>1. /\ code \in Codes /\ Reply(sessions[p], code, 0)
      /\ UNCHANGED <<sess, desc>> /\ host' = host
  BY DEF Reason, Codes, Refuse, fsVars
<1>2. Within(sessions[p]) /\ OnlyOwn(p)
  BY <1>1, LeftAlone
<1>3. SeenCall(c, p, m) /\ Decides(p, r, code, 0, Nothing)
  BY <1>1, <1>2, ReplyView
<1>4. Calling(p, r) /\ Others(p) /\ AbsDead' = AbsDead
      /\ TableNow(p) = FilesIn(SessFiles(p), desc)
  BY <1>3 DEF SeenCall, SessFiles
<1>5. SameTable(p)
  BY <1>1, <1>3, SeenSame
<1>6. DOMAIN TableNow(p) = D
  BY <1>4, FilesDomain
<1>7. CASE code # "OK"
  <2>1. Because(D, r, code)
    BY <1>7 DEF Reason, Because, SessFiles
  <2> HIDE DEF D, r
  <2> QED BY <1>1, <1>3, <1>4, <1>5, <1>6, <2>1, ViewFail
<1>8. CASE code = "OK"
  <2>1. /\ r.op = "read" /\ r.arg = "good" /\ r.fd \in D
        /\ CanRead(SessFiles(p)[r.fd]) /\ AllRead(SessFiles(p)[r.fd])
    BY <1>8 DEF Reason, SessFiles
  <2>2. \A e : Because(D, r, e) => e = "IO"
    BY <2>1 DEF Because, PathOps
  <2>3. PICK o : o = FileIs(SessFiles(p)[r.fd], desc)
    OBVIOUS
  <2>4. /\ View!IsListing(o) \/ View!IsFile(o)
        /\ View!Readable(o.mode) /\ View!AllRead(o)
    BY <1>0, <2>1, <2>3, FileView
  <2>5. o = TableNow(p)[r.fd]
    BY <1>4, <2>1, <2>3, FilesDomain
  <2>6. Decides(p, r, "OK", 0, Nothing)
    BY <1>3, <1>8
  <2> HIDE DEF D, r
  <2>7. View!Read(p)
    BY <1>1, <1>4, <1>5, <2>1, <2>4, <2>5, <2>6, ViewReadAll
  <2>8. r.op \notin PathOps
    BY <2>1 DEF PathOps
  <2> QED BY <1>4, <1>6, <2>2, <2>7, <2>8, ViewAct
<1> QED BY <1>7, <1>8

LEMMA FetchedView ==
  ASSUME ~Reuse, Inv, NEW c \in Cpus, NEW p \in Programs, NEW m, ServedFrom(c, p, m), m.t = "req",
         Fetching(sessions[p], call[p]), Defer(sessions[p], p, call[p], Fetch(p))
  PROVE  UNCHANGED View!vars
<1>1. UNCHANGED <<sess, desc>> /\ host' = host
  BY DEF Fetching
<1>2. Within(sessions[p]) /\ OnlyOwn(p)
  BY <1>1, LeftAlone
<1>3. Fetch(p) \in Down(Home[p]) /\ Fetch(p).by = p /\ Fetch(p).t = "fetch"
  BY PacketMade
<1>4. SeenCall(c, p, m) /\ CallNow(p)' = Shown("called", call[p], "OK", 0, Nothing)
  BY <1>2, <1>3, DeferView
<1>5. SameTable(p)
  BY <1>1, <1>4, SeenSame
<1>6. Calling(p, call[p]) /\ Others(p) /\ AbsDead' = AbsDead
  BY <1>4 DEF SeenCall
<1>7. Unseen(p)
  BY <1>4, <1>5, <1>6 DEF Unseen, SameTable, Calling
<1> QED BY <1>1, <1>6, <1>7, ViewStutter

LEMMA ClosedView ==
  ASSUME Inv, NEW c \in Cpus, NEW p \in Programs, NEW m, ServedFrom(c, p, m), m.t = "req",
         call[p].op = "close", Closes(sessions[p], call[p].fd),
         NEW code \in {"OK", "IO"}, Reply(sessions[p], code, 0),
         code = "IO" => /\ SessFiles(p)[call[p].fd].host # None
                        /\ SessFiles(p)[call[p].fd].host \notin DOMAIN desc
  PROVE  View!Step(p)
<1> DEFINE r == call[p]
           D == DOMAIN SessFiles(p)
<1>0. r \in Requests /\ Has(p) /\ code \in Codes
  BY ServedHas DEF Codes
<1>1. /\ FilesIn(sess'[sessions[p]].files, desc')
           = Without(FilesIn(sess[sessions[p]].files, desc), {r.fd})
      /\ sess'[sessions[p]].next = sess[sessions[p]].next
      /\ Within(sessions[p]) /\ OnlyOwn(p)
  BY <1>0, ClosedTable
<1>2. SeenCall(c, p, m) /\ Decides(p, r, code, 0, Nothing)
  BY <1>0, <1>1, ReplyView
<1>3. /\ Calling(p, r) /\ Others(p) /\ AbsDead' = AbsDead
      /\ TableNow(p) = FilesIn(SessFiles(p), desc)
      /\ TableNow(p)' = Without(TableNow(p), {r.fd}) /\ NextFdNow(p)' = NextFdNow(p)
  BY <1>1, <1>2 DEF SeenCall, SessFiles
<1>4. r.fd \in D /\ host' = host
  BY DEF Closes, SessFiles
<1>5. code = "OK"
  BY <1>0, <1>4, FileView DEF IsDir
<1>6. DOMAIN TableNow(p) = D
  BY <1>3, FilesDomain
<1>7. (\A e : Because(D, r, e) => e = "IO") /\ r.op \notin PathOps
  BY <1>4 DEF Because, PathOps
<1>8. r.op = "close" /\ Decides(p, r, "OK", 0, Nothing)
  BY <1>2, <1>5
<1> HIDE DEF D, r
<1>9. View!Close(p)
  BY <1>3, <1>4, <1>8, ViewClose
<1> QED BY <1>3, <1>6, <1>7, <1>9, ViewAct

LEMMA TakenView ==
  ASSUME ~Reuse, Inv, NEW c \in Cpus, NEW p \in Programs, NEW m, ServedFrom(c, p, m), m.t = "req",
         call[p].op = "read", call[p].arg = "good", Takes(sessions[p], call[p].fd),
         Defer(sessions[p], p, call[p], LandBlock(p, BlockOf(SessFiles(p)[call[p].fd])))
  PROVE  View!Step(p)
<1> DEFINE r == call[p]
           D == DOMAIN SessFiles(p)
           of == SessFiles(p)[r.fd]
           x == LandBlock(p, BlockOf(of))
<1>0. r \in Requests /\ Has(p) /\ sessions[p] \in 1 .. Len(sess) /\ TypeInv
  BY ServedHas
<1>1. /\ FilesIn(sess'[sessions[p]].files, desc')
           = Move(FilesIn(sess[sessions[p]].files, desc), r.fd)
      /\ sess'[sessions[p]].next = sess[sessions[p]].next
      /\ Within(sessions[p]) /\ OnlyOwn(p)
  BY <1>0, TakenTable
<1>2. r.fd \in D /\ CanRead(of) /\ ~AllRead(of) /\ host' = host
  BY DEF Takes, SessFiles
<1>3. BlockOf(of) \in Chunk
  BY <1>0, <1>2, BlockOk DEF SessFiles
<1>4. x \in Down(Home[p]) /\ x.by = p /\ x.t = "land" /\ x.block = BlockOf(of)
  BY <1>3, PacketMade
<1>5. SeenCall(c, p, m) /\ CallNow(p)' = Shown("taken", r, "OK", 0, BlockOf(of))
  BY <1>1, <1>4, DeferView
<1>6. /\ Calling(p, r) /\ Others(p) /\ AbsDead' = AbsDead
      /\ TableNow(p) = FilesIn(SessFiles(p), desc)
      /\ TableNow(p)' = Move(TableNow(p), r.fd) /\ NextFdNow(p)' = NextFdNow(p)
  BY <1>1, <1>5 DEF SeenCall, SessFiles
<1>7. DOMAIN TableNow(p) = D
  BY <1>6, FilesDomain
<1>8. (\A e : Because(D, r, e) => e = "IO") /\ r.op \notin PathOps
  BY <1>2 DEF Because, PathOps
<1>9. PICK o : o = FileIs(of, desc)
  OBVIOUS
<1>10. /\ View!IsListing(o) \/ View!IsFile(o)
       /\ View!Readable(o.mode) /\ ~View!AllRead(o) /\ BlockOf(of) = View!NextBlock(o)
  BY <1>0, <1>2, <1>9, FileView
<1>11. o = TableNow(p)[r.fd]
  BY <1>2, <1>6, <1>9, FilesDomain
<1>12. r.op = "read" /\ CallNow(p)' = Shown("taken", r, "OK", 0, View!NextBlock(o))
  BY <1>5, <1>10
<1> HIDE DEF D, r, of, x
<1>13. View!Read(p)
  BY <1>2, <1>6, <1>10, <1>11, <1>12, ViewTake
<1> QED BY <1>6, <1>7, <1>8, <1>13, ViewAct

LEMMA ReqView ==
  ASSUME ~Reuse, Inv, NEW c \in Cpus, NEW p \in Programs, NEW m, ServedFrom(c, p, m), m.t = "req",
         Dispatch(sessions[p], p, call[p])
  PROVE  View!Step(p) \/ UNCHANGED View!vars
<1> DEFINE r == call[p]
           s == sessions[p]
<1>0. r \in Requests
  BY ServedHas
<1>1. \/ \E code : Reason(s, r, code) /\ Refuse(s, code)
      \/ Fetching(s, r) /\ Defer(s, p, r, Fetch(p))
      \/ /\ r.op = "close" /\ Closes(s, r.fd)
         /\ \E code \in {"OK", "IO"} :
              /\ Reply(s, code, 0)
              /\ code = "IO" => /\ sess[s].files[r.fd].host # None
                                /\ sess[s].files[r.fd].host \notin DOMAIN desc
      \/ /\ r.op = "read" /\ r.arg = "good" /\ Takes(s, r.fd)
         /\ Defer(s, p, r, LandBlock(p, BlockOf(sess[s].files[r.fd])))
  BY <1>0, DispatchIs
<1>2. SessFiles(p) = sess[s].files
  BY DEF SessFiles
<1>3. CASE \E code : Reason(s, r, code) /\ Refuse(s, code)
  BY <1>3, RefusedView
<1>4. CASE Fetching(s, r) /\ Defer(s, p, r, Fetch(p))
  BY <1>4, FetchedView
<1>5. CASE /\ r.op = "close" /\ Closes(s, r.fd)
           /\ \E code \in {"OK", "IO"} :
                /\ Reply(s, code, 0)
                /\ code = "IO" => /\ sess[s].files[r.fd].host # None
                                  /\ sess[s].files[r.fd].host \notin DOMAIN desc
  BY <1>2, <1>5, ClosedView
<1>6. CASE /\ r.op = "read" /\ r.arg = "good" /\ Takes(s, r.fd)
           /\ Defer(s, p, r, LandBlock(p, BlockOf(sess[s].files[r.fd])))
  BY <1>2, <1>6, TakenView
<1> QED BY <1>1, <1>3, <1>4, <1>5, <1>6

-----------------------------------------------------------------------------
(* The bytes a request waited for come.                                    *)
LEMMA FailedView ==
  ASSUME Inv, NEW c \in Cpus, NEW p \in Programs, NEW m, ServedFrom(c, p, m),
         m.t \in {"req", "bytes"}, NEW code \in Codes, Reply(sessions[p], code, 0),
         UNCHANGED <<sess, desc, host>>, Because(DOMAIN SessFiles(p), call[p], code)
  PROVE  View!Step(p)
<1>1. UNCHANGED <<sess, desc>> /\ host' = host
  OBVIOUS
<1>2. Within(sessions[p]) /\ OnlyOwn(p)
  BY <1>1, LeftAlone
<1>3. SeenCall(c, p, m) /\ Decides(p, call[p], code, 0, Nothing)
  BY <1>2, ReplyView
<1>4. Calling(p, call[p]) /\ Others(p) /\ AbsDead' = AbsDead
      /\ TableNow(p) = FilesIn(SessFiles(p), desc)
  BY <1>3 DEF SeenCall, SessFiles
<1>5. SameTable(p)
  BY <1>1, <1>3, SeenSame
<1>6. DOMAIN TableNow(p) = DOMAIN SessFiles(p)
  BY <1>4, FilesDomain
<1> QED BY <1>1, <1>3, <1>4, <1>5, <1>6, ViewFail

(* The path did.  Nothing speaks against an open or a name operation but   *)
(* what the host or the jail says.                                         *)
LEMMA PathSound ==
  ASSUME NEW D, NEW r, r.op \in PathOps, r.arg # "null",
         r.op \in {"open", "opendir"} => Cardinality(D) < MaxFds, Cardinality(D) \in Nat,
         MaxFds \in Nat,
         r.name \notin Jailed, r.op = "open" => r.flags.mode # 3, View!PathError(r) = "OK"
  PROVE  \A e : Because(D, r, e) => e = "IO"
BY DEF Because, PathOps, FdOps

LEMMA GrownTable ==
  ASSUME NEW f, NEW d, NEW e, NEW x, NEW of, NEW y, y = FileIs(of, e),
         \A fd \in DOMAIN f : FileIs(f[fd], e) = FileIs(f[fd], d)
  PROVE  FilesIn(With(f, x, of), e) = With(FilesIn(f, d), x, y)
<1>1. DOMAIN With(f, x, of) = DOMAIN f \cup {x}
  BY DEF With
<1>2. DOMAIN FilesIn(f, d) = DOMAIN f
  BY FilesDomain
<1>3. FilesIn(With(f, x, of), e) = [z \in DOMAIN f \cup {x} |-> FileIs(With(f, x, of)[z], e)]
  BY <1>1, Zenon DEF FilesIn
<1>4. With(FilesIn(f, d), x, y)
        = [z \in DOMAIN f \cup {x} |-> IF z = x THEN y ELSE FilesIn(f, d)[z]]
  BY <1>2, Zenon DEF With
<1>5. \A z \in DOMAIN f \cup {x} :
        FileIs(With(f, x, of)[z], e) = IF z = x THEN y ELSE FilesIn(f, d)[z]
  <2> SUFFICES ASSUME NEW z \in DOMAIN f \cup {x}
               PROVE  FileIs(With(f, x, of)[z], e) = IF z = x THEN y ELSE FilesIn(f, d)[z]
    OBVIOUS
  <2>1. With(f, x, of)[z] = IF z = x THEN of ELSE f[z]
    BY DEF With
  <2>2. z # x => FilesIn(f, d)[z] = FileIs(f[z], d)
    BY FilesDomain
  <2> QED BY <2>1, <2>2
<1> HIDE DEF With, FilesIn, FileIs
<1> QED BY <1>3, <1>4, <1>5

(* A session gets a file, and the host at most a descriptor more.          *)
LEMMA GainView ==
  ASSUME Inv, NEW c \in Cpus, NEW p \in Programs, NEW m, ServedFrom(c, p, m), m.t = "bytes",
         NEW of \in Open, AddFile(sessions[p], of),
         \A e \in DOMAIN desc : e \in DOMAIN desc' /\ desc'[e] = desc[e],
         NEW o, o = FileIs(of, desc'), Reply(sessions[p], "OK", sess[sessions[p]].next),
         call[p].op \in {"open", "opendir"}
  PROVE  Gains(p, call[p], o) /\ SeenCall(c, p, m)
<1> DEFINE s == sessions[p]
           f == sess[s].files
           x == sess[s].next
<1>0. Has(p) /\ s \in 1 .. Len(sess) /\ TypeInv /\ SessOk /\ UNCHANGED sessions
  BY ServedHas DEF TypeInv, ServedFrom
<1>1. /\ sess'[s].files = With(f, x, of) /\ sess'[s].next = x + 1
      /\ \A y \in 1 .. Len(sess) : y # s => sess'[y] = sess[y]
  BY <1>0, AddOk
<1>2. Within(s) /\ OnlyOwn(p)
  BY <1>1 DEF Within, OnlyOwn
<1>3. x \in Nat /\ "OK" \in Codes
  BY <1>0, SessionParts DEF SessOk, Codes
<1>4. SeenCall(c, p, m) /\ Decides(p, call[p], "OK", x, Nothing)
  BY <1>2, <1>3, ReplyView
<1>5. /\ TableNow(p) = FilesIn(f, desc) /\ NextFdNow(p) = x
      /\ TableNow(p)' = FilesIn(With(f, x, of), desc') /\ NextFdNow(p)' = x + 1
  BY <1>1, <1>4 DEF SeenCall
<1>6. \A fd \in DOMAIN f : FileIs(f[fd], desc') = FileIs(f[fd], desc)
  <2> SUFFICES ASSUME NEW fd \in DOMAIN f PROVE FileIs(f[fd], desc') = FileIs(f[fd], desc)
    OBVIOUS
  <2>1. f = SessFiles(p)
    BY DEF SessFiles
  <2>2. ~IsDir(f[fd]) => f[fd].host \in DOMAIN desc
    BY <1>0, <2>1, FileView
  <2> QED BY <2>2, FileIsSame
<1>7. FilesIn(With(f, x, of), desc') = With(FilesIn(f, desc), x, o)
  BY <1>6, GrownTable
<1> QED BY <1>4, <1>5, <1>7 DEF Gains

LEMMA OpenedView ==
  ASSUME Inv, NEW c \in Cpus, NEW p \in Programs, NEW m, ServedFrom(c, p, m), m.t = "bytes",
         NEW r, r = call[p], r.op = "open", r.arg # "null",
         Cardinality(DOMAIN SessFiles(p)) < MaxFds, Opens(sessions[p], r.name, r.flags)
  PROVE  View!Step(p)
<1>0. /\ Has(p) /\ r \in Requests /\ TypeInv /\ SessInv /\ DescOk /\ HostOk(host)
      /\ sessions[p] \in 1 .. Len(sess)
  BY ServedHas DEF TypeInv, DescOk
<1>1. PICK d \in Descs :
        /\ NewDesc(d)
        /\ desc' = With(desc, d, [file |-> host'.entry[r.name], mode |-> r.flags.mode, pos |-> 0])
        /\ AddFile(sessions[p], [host |-> d, names |-> {}, pos |-> 0])
  BY DEF Opens
<1>2. /\ r.name \notin Jailed /\ r.flags.mode # 3 /\ OpenError(host, r.name, r.flags) = "OK"
      /\ host' = Opened(host, r.name, r.flags)
      /\ Reply(sessions[p], "OK", sess[sessions[p]].next)
  BY DEF Opens
<1> DEFINE of == [host |-> d, names |-> {}, pos |-> 0]
           v == [file |-> host'.entry[r.name], mode |-> r.flags.mode, pos |-> 0]
<1>3. d \notin DOMAIN desc /\ d # None
  BY <1>1, ServiceAssumption, ProgramsAssumption DEF NewDesc
<1>4. of \in Open
  BY <1>1 DEF Open
<1>5. desc'[d] = v /\ \A e \in DOMAIN desc : e \in DOMAIN desc' /\ desc'[e] = desc[e]
  BY <1>1, <1>3 DEF With
<1>6. FileIs(of, desc') = FileAsNew(host'.entry[r.name], r.flags.mode)
  <2>1. of.host = d /\ of.names = {} /\ ~IsDir(of)
    BY <1>3 DEF IsDir
  <2>2. v.file = host'.entry[r.name] /\ v.mode = r.flags.mode /\ v.pos = 0
    OBVIOUS
  <2> HIDE DEF of, v
  <2>3. desc'[of.host] = v
    BY <1>5, <2>1
  <2> QED BY <2>1, <2>2, <2>3 DEF FileIs, FileAsNew
<1>7. PICK o : o = FileIs(of, desc')
  OBVIOUS
<1>8. AddFile(sessions[p], of)
  BY <1>1
<1> HIDE DEF of, v
<1>9. Gains(p, r, o) /\ SeenCall(c, p, m)
  BY <1>2, <1>4, <1>5, <1>7, <1>8, GainView
<1>10. /\ Calling(p, r) /\ Others(p) /\ AbsDead' = AbsDead
       /\ TableNow(p) = FilesIn(SessFiles(p), desc)
  BY <1>9 DEF SeenCall, SessFiles
<1>11. Gains(p, r, FileAsNew(host'.entry[r.name], r.flags.mode))
  BY <1>6, <1>7, <1>9
<1>12. View!Path(p)
  BY <1>2, <1>10, <1>11, ViewPath
<1>13. View!PathError(r) = "OK"
  BY <1>2, PathErrorIs
<1>14. DOMAIN TableNow(p) = DOMAIN SessFiles(p)
  BY <1>10, FilesDomain
<1>15. Cardinality(DOMAIN SessFiles(p)) \in Nat /\ MaxFds \in Nat
  BY <1>0, FS_CardinalityType, ServiceAssumption DEF SessInv, SessFiles
<1>16. \A e : Because(DOMAIN SessFiles(p), r, e) => e = "IO"
  BY <1>2, <1>13, <1>15, PathSound DEF PathOps
<1> QED BY <1>10, <1>12, <1>13, <1>14, <1>16, ViewAct

-----------------------------------------------------------------------------
LEMMA PathBecause ==
  ASSUME NEW D, NEW r, r.op \in PathOps, NEW code \in {"ACCES", "NOENT", "EXIST", "INVAL"},
         code = "ACCES" => r.name \in Jailed, code # "ACCES" => code = View!PathError(r)
  PROVE  Because(D, r, code)
BY DEF Because

LEMMA OpenDirView ==
  ASSUME Inv, NEW c \in Cpus, NEW p \in Programs, NEW m, ServedFrom(c, p, m), m.t = "bytes",
         NEW r, r = call[p], r.op = "opendir", r.arg # "null",
         Cardinality(DOMAIN SessFiles(p)) < MaxFds, OpenDir(sessions[p], r.name)
  PROVE  View!Step(p)
<1> DEFINE code == IF r.name \in Jailed THEN "ACCES" ELSE ListError(host, r.name)
           of == [host |-> None, names |-> Listing(host, r.name), pos |-> 0]
           D == DOMAIN SessFiles(p)
<1>0. /\ Has(p) /\ r \in Requests /\ TypeInv /\ SessInv /\ sessions[p] \in 1 .. Len(sess)
  BY ServedHas
<1>1. /\ \/ code # "OK" /\ Reply(sessions[p], code, 0) /\ UNCHANGED sess
         \/ /\ code = "OK" /\ AddFile(sessions[p], of)
            /\ Reply(sessions[p], "OK", sess[sessions[p]].next)
      /\ UNCHANGED <<desc, host>>
  BY DEF OpenDir
<1>2. View!PathError(r) = ListError(host, r.name) /\ r.op \in PathOps
  BY PathErrorIs DEF PathOps
<1>3. CASE code # "OK"
  <2>1. code \in {"ACCES", "NOENT", "INVAL"} /\ code \in Codes
    BY <1>3 DEF ListError, Codes
  <2>2. Because(D, r, code)
    <3>1. ListError(host, r.name) \in {"OK", "NOENT", "INVAL"}
      BY DEF ListError
    <3>2. code = "ACCES" => r.name \in Jailed
      BY <3>1
    <3>3. code # "ACCES" => code = View!PathError(r)
      BY <1>2
    <3> HIDE DEF code
    <3> QED BY <1>2, <2>1, <3>2, <3>3, PathBecause
  <2>3. Reply(sessions[p], code, 0) /\ UNCHANGED <<sess, desc, host>>
    BY <1>1, <1>3
  <2> HIDE DEF code
  <2> QED BY <2>1, <2>2, <2>3, FailedView
<1>4. CASE code = "OK"
  <2>1. AddFile(sessions[p], of) /\ Reply(sessions[p], "OK", sess[sessions[p]].next)
    BY <1>1, <1>4
  <2>2. r.name \notin Jailed /\ ListError(host, r.name) = "OK"
    BY <1>4
  <2>3. of \in Open
    <3>1. r.name \in Names /\ Listing(host, r.name) \in SUBSET Names
      BY <1>0, RequestParts DEF Listing
    <3> QED BY <3>1 DEF Open
  <2>4. FileIs(of, desc') = ListAsNew(Listing(host, r.name))
    BY DEF FileIs, IsDir, ListAsNew
  <2>5. \A e \in DOMAIN desc : e \in DOMAIN desc' /\ desc'[e] = desc[e]
    BY <1>1
  <2>6. PICK o : o = FileIs(of, desc')
    OBVIOUS
  <2> HIDE DEF of, D
  <2>7. Gains(p, r, o) /\ SeenCall(c, p, m)
    BY <2>1, <2>3, <2>5, <2>6, GainView
  <2>8. /\ Calling(p, r) /\ Others(p) /\ AbsDead' = AbsDead /\ host' = host
        /\ TableNow(p) = FilesIn(SessFiles(p), desc)
    BY <1>1, <2>7 DEF SeenCall, SessFiles
  <2>9. Gains(p, r, ListAsNew(Listing(host, r.name)))
    BY <2>4, <2>6, <2>7
  <2>10. View!Path(p)
    BY <2>8, <2>9, ViewPath
  <2>11. DOMAIN TableNow(p) = DOMAIN SessFiles(p)
    BY <2>8, FilesDomain
  <2>12. Cardinality(DOMAIN SessFiles(p)) \in Nat /\ MaxFds \in Nat
    BY <1>0, FS_CardinalityType, ServiceAssumption DEF SessInv, SessFiles
  <2>13. \A e : Because(DOMAIN SessFiles(p), r, e) => e = "IO"
    BY <1>2, <2>2, <2>12, PathSound
  <2>14. View!PathError(r) = "OK"
    BY <1>2, <2>2
  <2> QED BY <2>8, <2>10, <2>11, <2>13, <2>14, ViewAct
<1> QED BY <1>3, <1>4

(* A name is made or goes.                                                 *)
LEMMA NameView ==
  ASSUME Inv, NEW c \in Cpus, NEW p \in Programs, NEW m, ServedFrom(c, p, m), m.t = "bytes",
         NEW r, r = call[p], r.op \in {"mkdir", "unlink"}, r.arg # "null",
         IF r.op = "mkdir" THEN MkdirPath(sessions[p], r.name) ELSE UnlinkPath(sessions[p], r.name)
  PROVE  View!Step(p)
<1> DEFINE err == IF r.op = "mkdir" THEN MkdirError(host, r.name) ELSE UnlinkError(host, r.name)
           new == IF r.op = "mkdir" THEN WithDir(host, r.name) ELSE Unlinked(host, r.name)
           code == IF r.name \in Jailed THEN "ACCES" ELSE err
           D == DOMAIN SessFiles(p)
<1>0. Has(p) /\ r \in Requests /\ TypeInv /\ SessInv /\ sessions[p] \in 1 .. Len(sess)
  BY ServedHas
<1>1. /\ host' = IF code = "OK" THEN new ELSE host
      /\ Reply(sessions[p], code, 0) /\ UNCHANGED <<sess, desc>>
  BY DEF MkdirPath, UnlinkPath
<1>2. View!PathError(r) = err /\ r.op \in PathOps
  BY PathErrorIs DEF PathOps
<1>3. code \in {"OK", "ACCES", "EXIST", "NOENT"} /\ code \in Codes
  BY DEF MkdirError, UnlinkError, Codes
<1>4. CASE code # "OK"
  <2>1. Because(D, r, code)
    <3>1. err \in {"OK", "EXIST", "NOENT"}
      BY DEF MkdirError, UnlinkError
    <3>2. code = "ACCES" => r.name \in Jailed
      BY <3>1
    <3>3. code # "ACCES" => code = View!PathError(r)
      BY <1>2
    <3> HIDE DEF code, err
    <3> QED BY <1>2, <1>3, <1>4, <3>2, <3>3, PathBecause
  <2>2. Reply(sessions[p], code, 0) /\ UNCHANGED <<sess, desc, host>>
    BY <1>1, <1>4
  <2> HIDE DEF code
  <2> QED BY <1>3, <2>1, <2>2, FailedView
<1>5. CASE code = "OK"
  <2>1. r.name \notin Jailed /\ err = "OK" /\ host' = new
    BY <1>1, <1>5
  <2>2. Within(sessions[p]) /\ OnlyOwn(p)
    BY <1>1, LeftAlone
  <2>3. Reply(sessions[p], "OK", 0) /\ "OK" \in Codes
    BY <1>1, <1>3, <1>5
  <2>4. SeenCall(c, p, m) /\ Decides(p, r, "OK", 0, Nothing)
    BY <2>2, <2>3, ReplyView
  <2>5. /\ Calling(p, r) /\ Others(p) /\ AbsDead' = AbsDead
        /\ TableNow(p) = FilesIn(SessFiles(p), desc)
    BY <2>4 DEF SeenCall, SessFiles
  <2>6. SameTable(p)
    BY <1>1, <2>4, SeenSame
  <2>7. View!Path(p)
    BY <2>1, <2>4, <2>5, <2>6, ViewPath
  <2>8. DOMAIN TableNow(p) = DOMAIN SessFiles(p)
    BY <2>5, FilesDomain
  <2>9. Cardinality(DOMAIN SessFiles(p)) \in Nat /\ MaxFds \in Nat
    BY <1>0, FS_CardinalityType, ServiceAssumption DEF SessInv, SessFiles
  <2>10. View!PathError(r) = "OK"
    BY <1>2, <2>1
  <2>11. \A e : Because(DOMAIN SessFiles(p), r, e) => e = "IO"
    BY <1>2, <2>1, <2>9, <2>10, PathSound
  <2> QED BY <2>5, <2>7, <2>8, <2>10, <2>11, ViewAct
<1> QED BY <1>4, <1>5

LEMMA WrittenView ==
  ASSUME Inv, NEW c \in Cpus, NEW p \in Programs, NEW m, ServedFrom(c, p, m), m.t = "bytes",
         NEW r, r = call[p], r.op = "write", r.arg # "null", WriteFile(sessions[p], r.fd, p)
  PROVE  View!Step(p)
<1> DEFINE D == DOMAIN SessFiles(p)
<1>0. /\ Has(p) /\ r \in Requests /\ TypeInv /\ sessions[p] \in 1 .. Len(sess)
      /\ r.op \in FdOps /\ r.op \notin PathOps
  BY ServedHas DEF FdOps, PathOps
<1>1. /\ UNCHANGED sess
      /\ \/ r.fd \notin D /\ Reply(sessions[p], "BADF", 0) /\ UNCHANGED <<desc, host>>
         \/ Reply(sessions[p], "IO", 0) /\ UNCHANGED <<desc, host>>
         \/ Writes(sessions[p], r.fd, p)
  BY WriteFileIs DEF SessFiles
<1>2. "BADF" \in Codes /\ "IO" \in Codes /\ "OK" \in Codes
  BY DEF Codes
<1>3. CASE r.fd \notin D /\ Reply(sessions[p], "BADF", 0) /\ UNCHANGED <<desc, host>>
  <2>1. Because(D, r, "BADF")
    BY <1>0, <1>3 DEF Because
  <2> QED BY <1>1, <1>2, <1>3, <2>1, FailedView
<1>4. CASE Reply(sessions[p], "IO", 0) /\ UNCHANGED <<desc, host>>
  <2>1. Because(D, r, "IO")
    BY DEF Because
  <2> QED BY <1>1, <1>2, <1>4, <2>1, FailedView
<1>5. CASE Writes(sessions[p], r.fd, p)
  <2> DEFINE of == SessFiles(p)[r.fd]
  <2>1. /\ r.fd \in D /\ IsFile(of.host) /\ Writable(desc[of.host].mode)
        /\ host' = Written(host, desc[of.host].file, desc[of.host].pos, p)
        /\ desc' = Advance(desc, of.host) /\ Reply(sessions[p], "OK", 1)
    BY <1>5 DEF Writes, SessFiles
  <2>2. ~IsDir(of)
    <3> HIDE DEF of
    <3>1. DescOk
      BY <1>0 DEF TypeInv
    <3>2. of.host \in Descs
      BY <2>1, <3>1, FileParts
    <3>3. of.host \in Nat
      BY <3>2, ServiceAssumption
    <3> QED BY <3>3, ProgramsAssumption DEF IsDir
  <2>3. /\ FilesIn(sess'[sessions[p]].files, desc')
             = Move(FilesIn(sess[sessions[p]].files, desc), r.fd)
        /\ Within(sessions[p]) /\ OnlyOwn(p)
    BY <1>0, <1>1, <2>1, <2>2, AdvancedFile
  <2>4. SeenCall(c, p, m) /\ Decides(p, r, "OK", 0, Nothing)
    BY <1>2, <2>1, <2>3, ReplyView
  <2>5. /\ Calling(p, r) /\ Others(p) /\ AbsDead' = AbsDead
        /\ TableNow(p) = FilesIn(SessFiles(p), desc)
        /\ TableNow(p)' = Move(TableNow(p), r.fd) /\ NextFdNow(p)' = NextFdNow(p)
    BY <1>1, <2>3, <2>4 DEF SeenCall, SessFiles
  <2>6. PICK o : o = FileIs(of, desc)
    OBVIOUS
  <2>7. /\ o.file = desc[of.host].file /\ o.pos = desc[of.host].pos
        /\ o.mode = desc[of.host].mode
    BY <2>2, <2>6 DEF FileIs
  <2>8. View!IsFile(o) /\ View!Writable(o.mode)
    BY <1>0, <2>1, <2>2, <2>6, <2>7, FileView, SameHost
  <2>9. o = TableNow(p)[r.fd]
    BY <2>1, <2>5, <2>6, FilesDomain
  <2>10. host' = Written(host, o.file, o.pos, p)
    BY <2>1, <2>7
  <2> HIDE DEF of
  <2>11. View!Write(p)
    BY <2>4, <2>5, <2>8, <2>9, <2>10, ViewWrite
  <2>12. DOMAIN TableNow(p) = DOMAIN SessFiles(p)
    BY <2>5, FilesDomain
  <2>13. \A e : Because(D, r, e) => e = "IO"
    BY <1>0, <2>1 DEF Because
  <2> QED BY <1>0, <2>5, <2>11, <2>12, <2>13, ViewAct
<1> QED BY <1>1, <1>3, <1>4, <1>5

LEMMA BytesView ==
  ASSUME Inv, NEW c \in Cpus, NEW p \in Programs, NEW m, ServedFrom(c, p, m), HandleReadResp(m)
  PROVE  View!Step(p)
<1> DEFINE r == call[p]
           s == sessions[p]
           pr == pending[m.id]
<1>0. r \in Requests /\ TypeInv /\ SessInv /\ CallInv /\ m.by = p
  BY ServedHas DEF ServedFrom
<1>1. m.t = "bytes"
  BY DEF HandleReadResp
<1>2. /\ m.id \in DOMAIN pending /\ pr.op = r.op /\ pr.s = s /\ pr.fd = r.fd /\ pr.flags = r.flags
      /\ r.op \in {"open", "opendir"} => Cardinality(DOMAIN SessFiles(p)) < MaxFds
      /\ r.arg # "null" /\ r.op \notin {"read", "close"} /\ (m.ok => m.r = r)
  BY <1>0, <1>1, AsideIs DEF SessFiles
<1>3. Resumes(s, pr, m)
  BY <1>2, ReadRespIs
<1>4. \/ ~m.ok /\ Reply(s, "IO", 0) /\ UNCHANGED <<sess, desc, host>>
      \/ r.op = "open" /\ OpenFile(s, r.name, r.flags)
      \/ r.op = "opendir" /\ OpenDir(s, r.name)
      \/ r.op = "mkdir" /\ MkdirPath(s, r.name)
      \/ r.op = "unlink" /\ UnlinkPath(s, r.name)
      \/ r.op = "write" /\ WriteFile(s, r.fd, p)
  BY <1>0, <1>2, <1>3 DEF Resumes
<1>5. CASE ~m.ok /\ Reply(s, "IO", 0) /\ UNCHANGED <<sess, desc, host>>
  <2>1. Because(DOMAIN SessFiles(p), r, "IO") /\ "IO" \in Codes
    BY DEF Because, Codes
  <2> QED BY <1>1, <1>5, <2>1, FailedView
<1>6. CASE r.op = "open" /\ OpenFile(s, r.name, r.flags)
  <2>1. \/ /\ \E code \in {"ACCES", "INVAL", "IO", "NOENT"} :
                /\ Reply(s, code, 0)
                /\ code = "ACCES" => r.name \in Jailed
                /\ code = "INVAL" => r.flags.mode = 3
                /\ code = "NOENT" => OpenError(host, r.name, r.flags) = "NOENT"
           /\ UNCHANGED <<sess, desc, host>>
        \/ Opens(s, r.name, r.flags)
    BY <1>6, OpenFileIs
  <2>2. CASE Opens(s, r.name, r.flags)
    BY <1>1, <1>2, <1>6, <2>2, OpenedView
  <2>3. CASE /\ \E code \in {"ACCES", "INVAL", "IO", "NOENT"} :
                  /\ Reply(s, code, 0)
                  /\ code = "ACCES" => r.name \in Jailed
                  /\ code = "INVAL" => r.flags.mode = 3
                  /\ code = "NOENT" => OpenError(host, r.name, r.flags) = "NOENT"
             /\ UNCHANGED <<sess, desc, host>>
    <3>1. PICK code \in {"ACCES", "INVAL", "IO", "NOENT"} :
            /\ Reply(s, code, 0)
            /\ code = "ACCES" => r.name \in Jailed
            /\ code = "INVAL" => r.flags.mode = 3
            /\ code = "NOENT" => OpenError(host, r.name, r.flags) = "NOENT"
      BY <2>3
    <3>2. Because(DOMAIN SessFiles(p), r, code) /\ code \in Codes
      BY <1>6, <3>1, PathErrorIs DEF Because, PathOps, Codes
    <3> QED BY <1>1, <2>3, <3>1, <3>2, FailedView
  <2> QED BY <2>1, <2>2, <2>3
<1>7. CASE r.op = "opendir" /\ OpenDir(s, r.name)
  BY <1>1, <1>2, <1>7, OpenDirView
<1>8. CASE r.op = "mkdir" /\ MkdirPath(s, r.name)
  BY <1>1, <1>2, <1>8, NameView
<1>9. CASE r.op = "unlink" /\ UnlinkPath(s, r.name)
  BY <1>1, <1>2, <1>9, NameView
<1>10. CASE r.op = "write" /\ WriteFile(s, r.fd, p)
  BY <1>1, <1>2, <1>10, WrittenView
<1> QED BY <1>4, <1>5, <1>6, <1>7, <1>8, <1>9, <1>10

(* A block has landed or has not.                                          *)
LEMMA LandedView ==
  ASSUME Inv, NEW c \in Cpus, NEW p \in Programs, NEW m, ServedFrom(c, p, m), HandleWriteResp(m)
  PROVE  View!Step(p)
<1> DEFINE r == call[p]
           s == sessions[p]
<1>0. r \in Requests /\ TypeInv /\ SessInv /\ CallInv
  BY ServedHas
<1>1. m.t = "landed"
  BY DEF HandleWriteResp
<1>2. /\ m.id \in DOMAIN pending /\ pending[m.id].op = r.op /\ pending[m.id].s = s
      /\ r.op = "read" /\ (m.ok => buf[p] = m.block)
  BY <1>0, <1>1, AsideIs
<1>3. /\ IF m.ok THEN Reply(s, "OK", 1) ELSE Reply(s, "IO", 0)
      /\ UNCHANGED <<sess, desc>> /\ host' = host
  BY <1>2 DEF HandleWriteResp
<1>4. Within(s) /\ OnlyOwn(p)
  BY <1>3, LeftAlone
<1>5. /\ SeenCall(c, p, m)
      /\ m.ok => Decides(p, r, "OK", 0, m.block)
      /\ ~m.ok => Decides(p, r, "IO", 0, Nothing)
  <2>1. "OK" \in Codes /\ "IO" \in Codes
    BY DEF Codes
  <2>2. CASE m.ok
    BY <1>2, <1>3, <1>4, <2>1, <2>2, ReplyView
  <2>3. CASE ~m.ok
    BY <1>2, <1>3, <1>4, <2>1, <2>3, ReplyView
  <2> QED BY <2>2, <2>3
<1>6. /\ CallNow(p) = Shown("taken", r, "OK", 0, m.block)
      /\ Others(p) /\ AbsDead' = AbsDead
  BY <1>1, <1>5 DEF SeenCall
<1>7. SameTable(p)
  BY <1>3, <1>5, SeenSame
<1>8. Decides(p, r, "OK", 0, m.block) \/ Decides(p, r, "IO", 0, Nothing)
  BY <1>5
<1> QED BY <1>3, <1>6, <1>7, <1>8, ViewLand

-----------------------------------------------------------------------------
(* Subscriptions come to the service.                                      *)
LEMMA NotedWire ==
  ASSUME Inv, NEW c \in Cpus, NEW m, m = Head(toFs[c]), toFs[c] # <<>>, m.t \in {"sub", "unsub"},
         toFs' = [toFs EXCEPT ![c] = Tail(toFs[c])], UNCHANGED <<progVars, toCpu>>,
         NEW q \in Programs
  PROVE  /\ OnWire(q)' = OnWire(q)
         /\ ~OwnSub(m, q) => (Subbed(q, Fs(q))' <=> Subbed(q, Fs(q)))
<1>0. TypeInv /\ mbox' = mbox
  BY DEF Inv, progVars
<1>1. ~OwnCall(m, q)
  BY DEF OwnCall
<1>2. Mine(q, Fs(q))' = Mine(q, Fs(q))
  <2>1. CASE Home[q] = c
    <3>1. Fs(q)' = Tail(Fs(q))
      BY <1>0, <2>1, TailedFs
    <3>2. Fs(q) \in Seq(Up(c)) /\ Fs(q) = toFs[c]
      BY <1>0, <2>1, HomeOk DEF Fs
    <3>3. Fs(q) # <<>> /\ m = Fs(q)[1]
      BY <3>2, SeqParts
    <3>4. Mine(q, Tail(Fs(q))) = Mine(q, Fs(q))
      BY <1>1, <3>2, <3>3, MineTail
    <3>5. Mine(q, Fs(q))' = Mine(q, Fs(q)')
      BY DEF Mine, OwnCall, Members
    <3> QED BY <3>1, <3>4, <3>5
  <2>2. CASE Home[q] # c
    BY <1>0, <2>2, TailedFs DEF Mine
  <2> QED BY <2>1, <2>2
<1>3. Mine(q, Cpu(q))' = Mine(q, Cpu(q)) /\ Mine(q, mbox[q])' = Mine(q, mbox[q])
  BY <1>0 DEF Mine, Cpu
<1>4. OnWire(q)' = OnWire(q)
  BY <1>2, <1>3, WireSame
<1>5. ~OwnSub(m, q) => (Subbed(q, Fs(q))' <=> Subbed(q, Fs(q)))
  BY <1>0, <1>1, TakenUpPast
<1> QED BY <1>4, <1>5

LEMMA SubView ==
  ASSUME Inv, NEW c \in Cpus, NEW m, m = Head(toFs[c]), toFs[c] # <<>>, m.t = "sub",
         toFs' = [toFs EXCEPT ![c] = Tail(toFs[c])], UNCHANGED progVars, Subscribe(m.by)
  PROVE  UNCHANGED View!vars
<1> DEFINE p == m.by
<1>0. TypeInv /\ SessOk /\ sess \in Seq(Session) /\ Len(sess) \in Nat
  BY DEF Inv, TypeInv, SessOk
<1>1. /\ sess' = Append(sess, [box |-> p, files |-> Empty, next |-> 0])
      /\ sessions' = [sessions EXCEPT ![p] = Len(sess) + 1]
      /\ desc' = desc /\ host' = host /\ toCpu' = toCpu
      /\ prog' = prog /\ call' = call /\ buf' = buf
  BY DEF Subscribe, progVars
<1>2. p \in Programs /\ Home[p] = c /\ m = Fs(p)[1] /\ Fs(p) # <<>> /\ Fs(p) \in Seq(Up(c))
      /\ 1 \in DOMAIN Fs(p)
  BY <1>0, HeadAsked, HomeOk DEF Inv
<1>3. \A q \in Programs : OnWire(q)' = OnWire(q)
  BY <1>1, NotedWire
<1>4. ASSUME NEW q \in Programs, q # p PROVE Unseen(q)
  <2>1. ~OwnSub(m, q)
    BY <1>4 DEF OwnSub
  <2>2. Subbed(q, Fs(q))' <=> Subbed(q, Fs(q))
    BY <1>1, <2>1, NotedWire
  <2>3. sessions'[q] = sessions[q]
    BY <1>0, <1>1, <1>4 DEF SessOk
  <2>4. Known(q)' <=> Known(q)
    BY <1>1, <1>3, <2>2, <2>3, KnownSame DEF Has
  <2>5. ASSUME Known(q) PROVE SameFiles(q)
    <3>1. sessions[q] \in 1 .. Len(sess)
      BY <1>0, <2>5, SeenNow DEF Seen, Has, SessOk
    <3>2. sess'[sessions[q]] = sess[sessions[q]]
      BY <1>0, <1>1, <3>1
    <3> QED BY <1>1, <2>3, <3>2, SameFilesSame
  <2> QED BY <1>1, <1>3, <2>4, <2>5, UnseenIs
<1>5. Unseen(p)
  <2>1. Subbed(p, Fs(p))
    BY <1>2 DEF Subbed, OwnSub
  <2>2. TableNow(p) = Empty /\ NextFdNow(p) = 0
    BY <1>2, <2>1, SeenNow DEF Seen
  <2>3. sessions'[p] = Len(sess) + 1
    BY <1>0, <1>1, <1>2 DEF SessOk
  <2>4. sess'[sessions'[p]] = [box |-> p, files |-> Empty, next |-> 0]
    BY <1>0, <1>1, <2>3
  <2>5. FilesIn(sess'[sessions'[p]].files, desc') = Empty
    <3>1. \A d : FilesIn(Empty, d) = Empty
      BY DEF FilesIn, Empty
    <3> QED BY <2>4, <3>1
  <2>6. /\ TableNow(p)' = IF ~Known(p)' THEN Empty ELSE FilesIn(sess'[sessions'[p]].files, desc')
        /\ NextFdNow(p)' = IF ~Known(p)' THEN 0 ELSE sess'[sessions'[p]].next
    BY <1>2, SeenNext DEF Seen
  <2>7. TableNow(p)' = Empty /\ NextFdNow(p)' = 0
    BY <2>4, <2>5, <2>6
  <2>8. CallNow(p)' = CallNow(p)
    <3>1. CallNow(p) = Look(prog[p], OnWire(p), call[p], buf[p])
      BY <1>2, SeenNow DEF Seen
    <3>2. CallNow(p)' = Look(prog'[p], OnWire(p)', call'[p], buf'[p])
      BY <1>2, SeenNext DEF Seen
    <3> QED BY <1>1, <1>2, <1>3, <3>1, <3>2
  <2> QED BY <2>2, <2>7, <2>8 DEF Unseen
<1>6. AbsDead' = AbsDead
  BY <1>1 DEF AbsDead
<1>7. Others(p)
  BY <1>4 DEF Others
<1> QED BY <1>1, <1>2, <1>5, <1>6, <1>7, ViewStutter

(* When a program unsubscribes no other of its processor is to be seen.    *)
LEMMA UnsubUnknown ==
  ASSUME Inv, NEW q \in Programs, Fs(q) # <<>>, Fs(q)[1].t = "unsub"
  PROVE  ~Known(q)
<1> SUFFICES ASSUME Known(q) PROVE FALSE
  OBVIOUS
<1>0. TypeInv /\ Fs(q) \in Seq(Up(Home[q])) /\ Len(Fs(q)) \in Nat /\ Len(Fs(q)) >= 1
  BY HomeOk, SeqParts DEF Inv
<1>1. /\ prog[q] # "new" /\ ~Subbed(q, Fs(q)) /\ Has(q)
      /\ prog[q] = "dead" => OnWire(q) # {}
  BY SeenNow DEF Seen
<1>2. \A n \in 1 .. Len(Fs(q)) : ~Member(Fs(q), q, n, Has(q))
  BY <1>0, <1>1 DEF Member, Subbed
<1>3. ~Quiet(Fs(q), q, 0)
  BY <1>0 DEF Quiet
<1>4. Situation(q)
  BY DEF Inv, CallInv
<1>5. prog[q] \in {"new", "run", "wait", "dead"}
  BY <1>0 DEF TypeInv, ProgOk
<1>6. ~Idle(q)
  <2> SUFFICES ASSUME Idle(q) PROVE FALSE
    OBVIOUS
  <2>1. OnWire(q) = {}
    BY WireIdle
  <2>2. prog[q] # "wait" /\ (prog[q] = "run" => Member(Fs(q), q, Len(Fs(q)), Has(q)))
    BY DEF Idle
  <2>3. Len(Fs(q)) \in 1 .. Len(Fs(q))
    BY <1>0
  <2>4. ~Member(Fs(q), q, Len(Fs(q)), Has(q))
    BY <1>2, <2>3, Zenon
  <2>5. prog[q] = "run"
    BY <1>1, <1>5, <2>1, <2>2
  <2> QED BY <2>2, <2>4, <2>5, Zenon
<1>7. ~Asked(q)
  <2>1. ASSUME NEW i, AskedAt(q, i) PROVE FALSE
    <3>1. i \in 1 .. Len(Fs(q))
      BY <2>1 DEF AskedAt, Sole
    <3> QED BY <1>2, <1>3, <2>1, <3>1 DEF AskedAt, Settled
  <2> QED BY <2>1 DEF Asked
<1>8. ~Served(q) /\ ~Told(q)
  BY <1>3 DEF Served, Told, Settled
<1> QED BY <1>4, <1>6, <1>7, <1>8 DEF Situation

LEMMA UnsubView ==
  ASSUME Inv, NEW c \in Cpus, NEW m, m = Head(toFs[c]), toFs[c] # <<>>, m.t = "unsub",
         toFs' = [toFs EXCEPT ![c] = Tail(toFs[c])], UNCHANGED progVars, Unsubscribe(m.by)
  PROVE  UNCHANGED View!vars
<1> DEFINE p == m.by
           gone == {q \in Programs : Home[q] = Home[p] /\ sessions[q] # None}
           X == UNION {HostDescs(sessions[q]) : q \in gone}
<1>0. TypeInv /\ SessOk /\ DescInv /\ sess \in Seq(Session)
  BY DEF Inv, TypeInv, SessOk
<1>1. /\ sessions' = [q \in Programs |-> IF q \in gone THEN None ELSE sessions[q]]
      /\ desc' = Without(desc, X) /\ sess' = sess /\ host' = host /\ toCpu' = toCpu
      /\ prog' = prog /\ call' = call /\ buf' = buf
  BY DEF Unsubscribe, progVars
<1>2. p \in Programs /\ Home[p] = c /\ m = Fs(p)[1] /\ Fs(p) # <<>>
  BY <1>0, HeadAsked DEF Inv
<1>3. \A q \in gone : q \in Programs /\ Has(q) /\ Home[q] = c
  BY <1>2 DEF Has
<1>4. \A d \in X : \E z \in gone : d \in HostDescs(sessions[z])
  OBVIOUS
<1>5. \A q \in Programs : /\ Home[q] = c => sessions'[q] = None
                          /\ Home[q] # c => sessions'[q] = sessions[q]
  BY <1>1, <1>2
<1> HIDE DEF gone, X
<1>6. \A q \in Programs : /\ OnWire(q)' = OnWire(q)
                          /\ Subbed(q, Fs(q))' <=> Subbed(q, Fs(q))
  BY <1>1, NotedWire DEF OwnSub
<1>7. ASSUME NEW q \in Programs, Home[q] = c PROVE Unseen(q)
  <2>1. Fs(q) = Fs(p)
    BY <1>2, <1>7 DEF Fs
  <2>2. ~Known(q)
    BY <1>2, <2>1, UnsubUnknown
  <2>3. ~Known(q)'
    BY <1>5, <1>7, SeenNext DEF Seen, Has
  <2> QED BY <1>1, <1>6, <2>2, <2>3, UnseenIs
<1>8. ASSUME NEW q \in Programs, Home[q] # c PROVE Unseen(q)
  <2>1. sessions'[q] = sessions[q]
    BY <1>5, <1>8
  <2>2. Known(q)' <=> Known(q)
    BY <1>1, <1>6, <2>1, KnownSame DEF Has
  <2>3. ASSUME Known(q) PROVE SameFiles(q)
    <3>1. Has(q) /\ sessions[q] \in 1 .. Len(sess)
      BY <1>0, <2>3, SeenNow DEF Seen, Has, SessOk
    <3>2. ASSUME NEW fd \in DOMAIN SessFiles(q), SessFiles(q)[fd].host # None
          PROVE  desc'[SessFiles(q)[fd].host] = desc[SessFiles(q)[fd].host]
      <4>1. PICK d : d = SessFiles(q)[fd].host
        OBVIOUS
      <4>2. d \in DOMAIN desc /\ d \in Descs /\ Held(q, fd, d) /\ fd \in Nat
        BY <3>1, <3>2, <4>1, FileView, OwnNumbers DEF IsDir
      <4>3. d \notin X
        <5> SUFFICES ASSUME d \in X PROVE FALSE
          OBVIOUS
        <5>1. PICK z \in gone : d \in HostDescs(sessions[z])
          BY <1>4
        <5>2. z \in Programs /\ Has(z) /\ z # q
          BY <1>3, <1>8, <5>1
        <5>3. PICK g \in DOMAIN SessFiles(z) : d = SessFiles(z)[g].host
          BY <5>1 DEF HostDescs, SessFiles
        <5>4. g \in Nat /\ Held(z, g, d)
          BY <5>2, <5>3, OwnNumbers
        <5> QED BY <1>0, <4>2, <5>2, <5>4, DescOwned
      <4> QED BY <1>1, <4>1, <4>2, <4>3 DEF Without
    <3>3. FilesIn(SessFiles(q), desc') = FilesIn(SessFiles(q), desc)
      BY <3>2, FilesSame
    <3> QED BY <1>1, <2>1, <3>3 DEF SameFiles, SessFiles
  <2> QED BY <1>1, <1>6, <2>2, <2>3, UnseenIs
<1>9. Unseen(p) /\ Others(p)
  BY <1>2, <1>7, <1>8 DEF Others
<1>10. AbsDead' = AbsDead
  BY <1>1 DEF AbsDead
<1> QED BY <1>1, <1>2, <1>9, <1>10, ViewStutter

LEMMA PacketView ==
  ASSUME ~Reuse, Inv, NEW c \in Cpus, HandlePacket(c)
  PROVE  (\E p \in Programs : View!Step(p)) \/ UNCHANGED View!vars
<1>0. TypeInv /\ SessInv /\ CallInv
  BY DEF Inv
<1>1. PICK m : m = Head(toFs[c])
  OBVIOUS
<1>2. /\ toFs[c] # <<>> /\ toFs' = [toFs EXCEPT ![c] = Tail(toFs[c])] /\ UNCHANGED progVars
      /\ HandleSend(m) \/ HandleReadResp(m) \/ HandleWriteResp(m)
  BY <1>1 DEF HandlePacket
<1>3. PICK p \in Programs : p = m.by
  BY <1>0, <1>1, <1>2, HeadAsked
<1>4. CASE m.t = "sub" /\ Subscribe(m.by)
  BY <1>1, <1>2, <1>4, SubView
<1>5. CASE m.t = "unsub" /\ Unsubscribe(m.by)
  BY <1>1, <1>2, <1>5, UnsubView
<1>6. CASE m.t = "req" /\ HandleSend(m)
  <2>1. Has(p) /\ Proper(p, m)
    BY <1>0, <1>1, <1>2, <1>3, <1>6, HeadAsked
  <2>2. m.r = call[p]
    BY <1>6, <2>1 DEF Proper
  <2>3. SessionsFor(p) # {}
    BY <2>1 DEF SessionsFor, Has
  <2>4. PICK s \in SessionsFor(p) : Dispatch(s, p, m.r)
    BY <1>3, <1>6, <2>3 DEF HandleSend
  <2>5. s = sessions[p]
    BY <2>1, SessionsForOwn
  <2>6. sessions' = sessions
    BY <2>4 DEF Dispatch, DoOpen, DoPathOp, DoClose, DoRead, DoWrite, Refuse, fsVars
  <2>7. ServedFrom(c, p, m)
    BY <1>1, <1>2, <1>3, <1>6, <2>6 DEF ServedFrom
  <2> QED BY <1>6, <2>2, <2>4, <2>5, <2>7, ReqView
<1>7. CASE HandleReadResp(m) \/ HandleWriteResp(m)
  <2>1. m.t \in {"bytes", "landed"} /\ sessions' = sessions
    BY <1>7 DEF HandleReadResp, HandleWriteResp, fsVars
  <2>2. ServedFrom(c, p, m)
    BY <1>1, <1>2, <1>3, <2>1 DEF ServedFrom
  <2> QED BY <1>7, <2>2, BytesView, LandedView
<1> QED BY <1>2, <1>4, <1>5, <1>6, <1>7 DEF HandleSend

-----------------------------------------------------------------------------
(* Programs of which nothing is to be seen any more.                       *)
Forgotten(q) == TableNow(q)' = Empty /\ NextFdNow(q)' = 0 /\ CallNow(q)' = OutOfCall
LEMMA ForgottenIs ==
  ASSUME NEW q \in Programs, ~Known(q)', prog'[q] \in {"new", "run"} \/ OnWire(q)' = {}
  PROVE  Forgotten(q)
<1>1. /\ TableNow(q)' = Empty /\ NextFdNow(q)' = 0
      /\ CallNow(q)' = Look(prog'[q], OnWire(q)', call'[q], buf'[q])
  BY SeenNext DEF Seen
<1>2. Look(prog'[q], OnWire(q)', call'[q], buf'[q]) = OutOfCall
  BY LookNone
<1> QED BY <1>1, <1>2 DEF Forgotten

LEMMA ViewForget ==
  ASSUME NEW P \in SUBSET Programs, \A q \in P : Forgotten(q),
         \A q \in Programs \ P : Unseen(q), host' = host
  PROVE  View!Forget(P)
<1>1. View!NoCall = OutOfCall /\ View!Empty = Empty
  BY SameHost
<1>2. \A q \in Programs :
        /\ AbsCall'[q] = IF q \in P THEN OutOfCall ELSE AbsCall[q]
        /\ AbsTable'[q] = IF q \in P THEN Empty ELSE AbsTable[q]
        /\ AbsNext'[q] = IF q \in P THEN 0 ELSE AbsNext[q]
  <2> TAKE q \in Programs
  <2>1. /\ AbsTable[q] = TableNow(q) /\ AbsNext[q] = NextFdNow(q) /\ AbsCall[q] = CallNow(q)
        /\ AbsTable'[q] = TableNow(q)' /\ AbsNext'[q] = NextFdNow(q)'
        /\ AbsCall'[q] = CallNow(q)'
    BY AbsIs
  <2>2. CASE q \in P
    BY <2>1, <2>2 DEF Forgotten
  <2>3. CASE q \notin P
    BY <2>1, <2>3 DEF Unseen
  <2> QED BY <2>2, <2>3
<1>3. /\ AbsCall' = [q \in Programs |-> AbsCall'[q]]
      /\ AbsTable' = [q \in Programs |-> AbsTable'[q]]
      /\ AbsNext' = [q \in Programs |-> AbsNext'[q]]
  BY AbsMaps
<1>4. AbsCall' = [q \in Programs |-> IF q \in P THEN OutOfCall ELSE AbsCall[q]]
  BY <1>2, <1>3
<1>5. AbsTable' = [q \in Programs |-> IF q \in P THEN Empty ELSE AbsTable[q]]
  BY <1>2, <1>3
<1>6. AbsNext' = [q \in Programs |-> IF q \in P THEN 0 ELSE AbsNext[q]]
  BY <1>2, <1>3
<1> QED BY <1>1, <1>4, <1>5, <1>6 DEF View!Forget

LEMMA NobodySeen ==
  ASSUME \A q \in Programs : Unseen(q), host' = host, AbsDead' = AbsDead
  PROVE  UNCHANGED View!vars
<1>1. /\ AbsCall' = AbsCall /\ AbsTable' = AbsTable /\ AbsNext' = AbsNext
  BY DEF AbsCall, AbsTable, AbsNext, Unseen
<1> QED BY <1>1 DEF View!vars

(* A processor serves what reaches it.                                     *)
LEMMA AnswerOthers ==
  ASSUME Inv, NEW c \in Cpus, Answer(c), NEW m, m = Head(toCpu[c]),
         NEW q \in Programs, q # m.by
  PROVE  Unseen(q)
<1>0. TypeInv /\ CallInv
  BY DEF Inv
<1>1. /\ toCpu[c] # <<>> /\ toCpu' = [toCpu EXCEPT ![c] = Tail(toCpu[c])]
      /\ prog' = prog /\ call' = call /\ sessions' = sessions /\ sess' = sess /\ desc' = desc
      /\ Delivers(c, m) \/ Fetches(m) \/ Lands(m)
  BY AnswerIs DEF fsVars
<1>2. PICK p \in Programs : p = m.by
  BY <1>0, <1>1, HeadServed
<1>3. m \in Down(c) /\ Home[p] = c /\ ~OwnCall(m, q)
  BY <1>0, <1>1, <1>2, HeadServed DEF OwnCall
<1>4. Mine(q, Cpu(q))' = Mine(q, Cpu(q))
  BY <1>0, <1>1, <1>3, TakenDownPast
<1>5. Delivers(c, m) \/ SendsBack(c, p, m)
  BY <1>0, <1>1, <1>2, <1>3, AnswerSends
<1>6. mbox'[q] = mbox[q] /\ buf'[q] = buf[q]
  BY <1>0, <1>2, <1>5 DEF Delivers, SendsBack, TypeInv, ProgOk, MailOk
<1>7. Mine(q, Fs(q))' = Mine(q, Fs(q)) /\ (Subbed(q, Fs(q))' <=> Subbed(q, Fs(q)))
  <2>1. CASE Delivers(c, m)
    <3>1. toFs' = toFs
      BY <2>1 DEF Delivers
    <3> QED BY <3>1 DEF Mine, Subbed, Fs
  <2>2. CASE SendsBack(c, p, m)
    <3>1. PICK n \in Up(c) : SendFs(p, n) /\ n.by = p
      BY <2>2, Zenon DEF SendsBack
    <3>2. ~OwnCall(n, q) /\ ~OwnSub(n, q)
      BY <1>2, <3>1 DEF OwnCall, OwnSub
    <3> QED BY <1>0, <1>3, <3>1, <3>2, SentPast
  <2> QED BY <1>5, <2>1, <2>2
<1>8. Mine(q, mbox[q])' = Mine(q, mbox[q])
  BY <1>6 DEF Mine, Members, OwnCall
<1>9. OnWire(q)' = OnWire(q)
  BY <1>4, <1>7, <1>8, WireSame
<1>10. Known(q)' <=> Known(q)
  BY <1>1, <1>7, <1>9, KnownSame DEF Has
<1> QED BY <1>1, <1>6, <1>9, <1>10, SameFilesSame, UnseenIs

LEMMA AnswerView ==
  ASSUME ~Reuse, Inv, NEW c \in Cpus, Answer(c)
  PROVE  (\E p \in AbsDead : View!Lose({p})) \/ UNCHANGED View!vars
<1>0. TypeInv /\ CallInv
  BY DEF Inv
<1>1. PICK m : m = Head(toCpu[c])
  OBVIOUS
<1>2. /\ toCpu[c] # <<>> /\ toCpu' = [toCpu EXCEPT ![c] = Tail(toCpu[c])]
      /\ prog' = prog /\ call' = call /\ sessions' = sessions /\ sess' = sess /\ desc' = desc
      /\ host' = host
      /\ Delivers(c, m) \/ Fetches(m) \/ Lands(m)
  BY <1>1, AnswerIs DEF fsVars
<1>3. PICK p \in Programs : p = m.by
  BY <1>0, <1>1, <1>2, HeadServed
<1>4. /\ m \in Down(c) /\ Home[p] = c /\ OwnCall(m, p) /\ m = Cpu(p)[1] /\ Cpu(p) # <<>>
      /\ 1 \in 1 .. Len(Cpu(p)) /\ Served(p) /\ Proper(p, m) /\ Free(Tail(Cpu(p)), p)
  BY <1>0, <1>1, <1>2, <1>3, HeadServed
<1>5. Delivers(c, m) \/ SendsBack(c, p, m)
  BY <1>0, <1>2, <1>3, <1>4, AnswerSends
<1>6. /\ Free(Fs(p), p) /\ mbox[p] = <<>> /\ prog[p] \in {"wait", "dead"}
      /\ Settled(Fs(p), p, 0, Has(p))
      /\ Fs(p) \in Seq(Up(c)) /\ Cpu(p) \in Seq(Down(c)) /\ Tail(Cpu(p)) \in Seq(Down(c))
  BY <1>0, <1>4, HomeOk, SeqParts DEF Served
<1>7. Cpu(p)' = Tail(Cpu(p)) /\ Mine(p, Tail(Cpu(p))) = {} /\ Mine(p, Fs(p)) = {}
  <2>1. Cpu(p)' = Tail(Cpu(p))
    BY <1>0, <1>2, <1>4, TailedCpu
  <2>2. Mine(p, Tail(Cpu(p))) = {} /\ Mine(p, Fs(p)) = {}
    BY <1>4, <1>6, MineQueues
  <2> QED BY <2>1, <2>2
<1>8. OnWire(p) = {m}
  <2>1. PICK i : Sole(Cpu(p), p, i)
    BY <1>4 DEF Served
  <2>2. i = 1
    BY <1>4, <2>1 DEF Sole
  <2> QED BY <1>4, <1>6, <2>1, <2>2, WireDown
<1>9. ~Subbed(p, Fs(p)) /\ Has(p) /\ Known(p)
  <2>1. DOMAIN Fs(p) = 1 .. Len(Fs(p)) /\ Len(Fs(p)) \in Nat
    BY <1>6, LenProperties
  <2>2. ~Subbed(p, Fs(p))
    BY <1>6, <2>1 DEF Settled, Quiet, Subbed
  <2>3. PICK has \in BOOLEAN : has = Has(p)
    BY DEF Has
  <2>4. Has(p)
    BY <1>6, <2>3, MemberNone DEF Settled
  <2> QED BY <1>6, <1>8, <2>2, <2>4, SeenNow DEF Seen
<1>10. Others(p) /\ AbsDead' = AbsDead
  BY <1>1, <1>2, <1>3, AnswerOthers DEF Others, AbsDead
<1>11. OnWire(p)' = Mine(p, mbox'[p]) \cup Mine(p, Cpu(p)') \cup Mine(p, Fs(p)')
  BY SeenNext DEF Seen
<1>12. CASE Delivers(c, m)
  <2>1. Fs(p)' = Fs(p) /\ buf' = buf
    BY <1>12 DEF Delivers, Fs
  <2>2. CASE prog[p] = "wait"
    <3>1. mbox' = [mbox EXCEPT ![p] = Append(mbox[p], m)]
      BY <1>3, <1>12, <2>2 DEF Delivers
    <3>2. mbox'[p] = <<m>>
      <4>1. mbox'[p] = Append(mbox[p], m)
        BY <1>0, <3>1 DEF TypeInv, MailOk
      <4> QED BY <1>6, <4>1
    <3>3. Mine(p, <<m>>) = {m}
      <4>1. Members(<<m>>) = {m}
        BY DEF Members
      <4> QED BY <1>4, <4>1 DEF Mine
    <3>4. OnWire(p)' = OnWire(p)
      BY <1>7, <1>8, <1>11, <2>1, <3>2, <3>3
    <3>5. Known(p)' <=> Known(p)
      BY <1>2, <2>1, <3>4, KnownSame DEF Has, Subbed
    <3>6. Unseen(p)
      BY <1>2, <2>1, <3>4, <3>5, SameFilesSame, UnseenIs
    <3> QED BY <1>2, <1>10, <3>6, ViewStutter
  <2>3. CASE prog[p] = "dead"
    <3>1. mbox' = mbox
      BY <1>3, <1>12, <2>3 DEF Delivers
    <3>2. Mine(p, <<>>) = {}
      BY EmptySeq DEF Mine, Members
    <3>3. OnWire(p)' = {}
      BY <1>6, <1>7, <1>11, <2>1, <3>1, <3>2
    <3>4. ~Known(p)'
      BY <1>2, <2>3, <3>3, SeenNext DEF Seen
    <3>5. Forgotten(p)
      BY <3>3, <3>4, ForgottenIs
    <3>6. View!Forget({p})
      BY <1>2, <1>10, <3>5, ViewForget DEF Others
    <3>7. p \in AbsDead
      BY <2>3 DEF AbsDead
    <3> QED BY <1>10, <3>6, <3>7 DEF View!Lose
  <2> QED BY <1>6, <2>2, <2>3
<1>13. CASE SendsBack(c, p, m)
  <2>1. PICK n \in Up(c) :
          /\ SendFs(p, n) /\ n.by = p /\ mbox' = mbox /\ m.t # "reply"
          /\ n.t = IF m.t = "fetch" THEN "bytes" ELSE "landed"
          /\ n.id = m.id /\ n.block = m.block
    BY <1>13, Zenon DEF SendsBack
  <2>2. m.t \in {"fetch", "land"} /\ n.t \in {"bytes", "landed"} /\ OwnCall(n, p) /\ ~OwnSub(n, p)
    BY <1>4, <2>1 DEF Down, OwnCall, OwnSub
  <2>3. Fs(p)' = Append(Fs(p), n)
    BY <1>0, <2>1, SentFs
  <2>4. Mine(p, Append(Fs(p), n)) = {n} /\ ~Subbed(p, Append(Fs(p), n))
    <3>1. /\ Mine(p, Append(Fs(p), n)) = Mine(p, Fs(p)) \cup {n}
          /\ Subbed(p, Append(Fs(p), n)) <=> Subbed(p, Fs(p))
      BY <1>6, <2>2, MineQueues
    <3> QED BY <1>7, <1>9, <3>1
  <2>5. Mine(p, <<>>) = {}
    BY EmptySeq DEF Mine, Members
  <2>6. OnWire(p)' = {n}
    BY <1>6, <1>7, <1>11, <2>1, <2>3, <2>4, <2>5
  <2>7. ~Subbed(p, Fs(p))'
    BY <2>3, <2>4 DEF Subbed
  <2>8. Known(p)'
    BY <1>2, <1>6, <1>9, <2>6, <2>7, SeenNext DEF Seen, Has
  <2>9. CallNow(p)' = CallNow(p)
    <3>1. CallNow(p) = Shows(call[p], m, buf[p])
      <4>1. CallNow(p) = Look(prog[p], {m}, call[p], buf[p])
        BY <1>8, SeenNow DEF Seen
      <4>2. prog[p] \in {"wait", "dead"}
        BY <1>6
      <4> QED BY <4>1, <4>2, LookOne
    <3>2. CallNow(p)' = Shows(call[p], n, buf'[p])
      <4>1. CallNow(p)' = Look(prog'[p], OnWire(p)', call'[p], buf'[p])
        BY SeenNext DEF Seen
      <4>2. CallNow(p)' = Look(prog[p], {n}, call[p], buf'[p]) /\ prog[p] \in {"wait", "dead"}
        BY <1>2, <1>6, <2>6, <4>1
      <4> QED BY <4>2, LookOne
    <3>3. CASE m.t = "fetch"
      BY <2>1, <3>1, <3>2, <3>3 DEF Shows
    <3>4. CASE m.t = "land"
      BY <2>1, <3>1, <3>2, <3>4 DEF Shows
    <3> QED BY <2>2, <3>3, <3>4
  <2>10. TableNow(p)' = TableNow(p) /\ NextFdNow(p)' = NextFdNow(p)
    <3>1. /\ TableNow(p) = FilesIn(sess[sessions[p]].files, desc)
          /\ NextFdNow(p) = sess[sessions[p]].next
      BY <1>9, SeenNow DEF Seen
    <3>2. /\ TableNow(p)' = FilesIn(sess'[sessions'[p]].files, desc')
          /\ NextFdNow(p)' = sess'[sessions'[p]].next
      BY <2>8, SeenNext DEF Seen
    <3> QED BY <1>2, <3>1, <3>2
  <2>11. Unseen(p)
    BY <2>9, <2>10 DEF Unseen
  <2> QED BY <1>2, <1>10, <2>11, ViewStutter
<1> QED BY <1>5, <1>12, <1>13

-----------------------------------------------------------------------------
(* What the programs do.                                                   *)
ProgramSteps(p) == HfInit(p) \/ Leave(p) \/ HfCall(p) \/ HfWait(p) \/ Die(p)
LEMMA ProgramSends ==
  ASSUME TypeInv, NEW p \in Programs, ProgramSteps(p)
  PROVE  /\ toFs' = toFs \/ \E n \in Up(Home[p]) : SendFs(p, n) /\ n.by = p
         /\ toCpu' = toCpu /\ sessions' = sessions /\ sess' = sess /\ pending' = pending
         /\ desc' = desc /\ host' = host
         /\ \A q \in Programs : q # p => /\ prog'[q] = prog[q] /\ call'[q] = call[q]
                                         /\ buf'[q] = buf[q] /\ mbox'[q] = mbox[q]
<1>1. ProgOk /\ MailOk
  BY DEF TypeInv
<1>2. Asks[p] \subseteq Requests
  BY ProgramsAssumption
<1>3. toFs' = toFs \/ \E n \in Up(Home[p]) : SendFs(p, n) /\ n.by = p
  <2>1. CASE HfInit(p)
    BY <2>1, PacketMade DEF HfInit
  <2>2. CASE Leave(p)
    BY <2>2, PacketMade DEF Leave
  <2>3. CASE HfCall(p)
    BY <1>2, <2>3, PacketMade DEF HfCall
  <2>4. CASE HfWait(p) \/ Die(p)
    BY <2>4 DEF HfWait, Die
  <2> QED BY <2>1, <2>2, <2>3, <2>4 DEF ProgramSteps
<1>4. /\ toCpu' = toCpu /\ sessions' = sessions /\ sess' = sess /\ pending' = pending
      /\ desc' = desc /\ host' = host
  BY DEF ProgramSteps, HfInit, Leave, HfCall, HfWait, Die, fsVars
<1>5. ASSUME NEW q \in Programs, q # p
      PROVE  /\ prog'[q] = prog[q] /\ call'[q] = call[q]
             /\ buf'[q] = buf[q] /\ mbox'[q] = mbox[q]
  <2>1. CASE HfInit(p)
    BY <1>1, <1>5, <2>1 DEF HfInit, ProgOk
  <2>2. CASE Leave(p)
    BY <1>1, <1>5, <2>2 DEF Leave, ProgOk
  <2>3. CASE HfCall(p)
    BY <1>1, <1>5, <2>3 DEF HfCall, ProgOk
  <2>4. CASE HfWait(p)
    BY <1>1, <1>5, <2>4 DEF HfWait, ProgOk, MailOk
  <2>5. CASE Die(p)
    BY <1>1, <1>5, <2>5 DEF Die, ProgOk, MailOk
  <2> QED BY <2>1, <2>2, <2>3, <2>4, <2>5 DEF ProgramSteps
<1> QED BY <1>3, <1>4, <1>5

LEMMA ProgramOthers ==
  ASSUME Inv, NEW p \in Programs, ProgramSteps(p)
  PROVE  Others(p)
<1> SUFFICES ASSUME NEW q \in Programs, q # p PROVE Unseen(q)
  BY DEF Others
<1>0. TypeInv
  BY DEF Inv
<1>1. /\ toFs' = toFs \/ \E n \in Up(Home[p]) : SendFs(p, n) /\ n.by = p
      /\ toCpu' = toCpu /\ sessions' = sessions /\ sess' = sess /\ desc' = desc
      /\ prog'[q] = prog[q] /\ call'[q] = call[q] /\ buf'[q] = buf[q] /\ mbox'[q] = mbox[q]
  BY <1>0, ProgramSends
<1>2. Mine(q, Fs(q))' = Mine(q, Fs(q)) /\ (Subbed(q, Fs(q))' <=> Subbed(q, Fs(q)))
  <2>1. CASE toFs' = toFs
    BY <2>1 DEF Mine, Subbed, Fs
  <2>2. CASE toFs' # toFs
    <3>1. PICK n \in Up(Home[p]) : SendFs(p, n) /\ n.by = p
      BY <1>1, <2>2
    <3>2. ~OwnCall(n, q) /\ ~OwnSub(n, q)
      BY <3>1 DEF OwnCall, OwnSub
    <3> QED BY <1>0, <3>1, <3>2, SentPast
  <2> QED BY <2>1, <2>2
<1>3. Mine(q, Cpu(q))' = Mine(q, Cpu(q)) /\ Mine(q, mbox[q])' = Mine(q, mbox[q])
  BY <1>1 DEF Mine, Cpu, Members, OwnCall
<1>4. OnWire(q)' = OnWire(q)
  BY <1>2, <1>3, WireSame
<1>5. Known(q)' <=> Known(q)
  BY <1>1, <1>2, <1>4, KnownSame DEF Has
<1> QED BY <1>1, <1>4, <1>5, SameFilesSame, UnseenIs

(* Whether it has ended.                                                   *)
LEMMA DeadSame ==
  ASSUME NEW p \in Programs, \A q \in Programs : q # p => prog'[q] = prog[q]
  PROVE  /\ prog[p] # "dead" /\ prog'[p] # "dead" => AbsDead' = AbsDead
         /\ prog'[p] = "dead" => AbsDead' = AbsDead \cup {p}
<1>1. \A q \in Programs : /\ q \in AbsDead <=> prog[q] = "dead"
                          /\ q \in AbsDead' <=> prog'[q] = "dead"
  BY AbsIs
<1>2. AbsDead \subseteq Programs /\ AbsDead' \subseteq Programs
  BY DEF AbsDead
<1> QED BY <1>1, <1>2

(* A program that is in no call.                                           *)
LEMMA RunningIs ==
  ASSUME Inv, NEW p \in Programs, prog[p] = "run"
  PROVE  Idle(p) /\ OnWire(p) = {} /\ CallNow(p) = OutOfCall /\ AbsCall[p].ph = "out"
<1>1. Situation(p)
  BY DEF Inv, CallInv
<1>2. Idle(p)
  BY <1>1 DEF Situation, Asked, Served, Told
<1>3. OnWire(p) = {}
  BY <1>2, WireIdle
<1>4. CallNow(p) = OutOfCall
  <2>1. CallNow(p) = Look(prog[p], OnWire(p), call[p], buf[p])
    BY SeenNow DEF Seen
  <2> QED BY <2>1, LookNone
<1>5. AbsCall[p].ph = "out"
  <2>1. AbsCall[p] = Shown("out", None, "OK", 0, Nothing)
    BY <1>4, AbsIs DEF OutOfCall
  <2> QED BY <2>1, ShownParts
<1> QED BY <1>2, <1>3, <1>4, <1>5

LEMMA InitView ==
  ASSUME Inv, NEW p \in Programs, HfInit(p)
  PROVE  UNCHANGED View!vars
<1>0. TypeInv /\ ProgOk
  BY DEF Inv, TypeInv
<1>1. prog[p] = "new" /\ prog'[p] = "run" /\ SendFs(p, FromProgram("sub", p, None))
  BY <1>0 DEF HfInit, ProgOk
<1>2. /\ toCpu' = toCpu /\ host' = host
      /\ \A q \in Programs : q # p => prog'[q] = prog[q]
  BY <1>0, ProgramSends DEF ProgramSteps
<1>3. PICK n \in Up(Home[p]) : n = FromProgram("sub", p, None) /\ OwnSub(n, p)
  BY PacketMade DEF OwnSub
<1>4. Fs(p)' = Append(Fs(p), n) /\ Fs(p) \in Seq(Up(Home[p]))
  BY <1>0, <1>1, <1>3, SentFs, HomeOk
<1>5. Subbed(p, Fs(p))'
  <2>1. Subbed(p, Append(Fs(p), n))
    BY <1>3, <1>4, MineQueues
  <2> QED BY <1>4, <2>1 DEF Subbed
<1>6. ~Known(p)' /\ ~Known(p)
  BY <1>1, <1>5, SeenNow, SeenNext DEF Seen
<1>7. Forgotten(p)
  BY <1>1, <1>6, ForgottenIs
<1>8. TableNow(p) = Empty /\ NextFdNow(p) = 0 /\ CallNow(p) = OutOfCall
  <2>1. /\ TableNow(p) = Empty /\ NextFdNow(p) = 0
        /\ CallNow(p) = Look(prog[p], OnWire(p), call[p], buf[p])
    BY <1>6, SeenNow DEF Seen
  <2> QED BY <1>1, <2>1, LookNone
<1>9. Unseen(p) /\ Others(p) /\ AbsDead' = AbsDead
  BY <1>1, <1>2, <1>7, <1>8, ProgramOthers, DeadSame DEF Unseen, Forgotten, ProgramSteps
<1> QED BY <1>2, <1>9, ViewStutter

LEMMA LeaveView ==
  ASSUME Inv, NEW p \in Programs, Leave(p)
  PROVE  View!Step(p)
<1>0. TypeInv /\ ProgOk
  BY DEF Inv, TypeInv
<1>1. prog[p] = "run" /\ prog'[p] = "new"
  BY <1>0 DEF Leave, ProgOk
<1>2. host' = host /\ \A q \in Programs : q # p => prog'[q] = prog[q]
  BY <1>0, ProgramSends DEF ProgramSteps
<1>3. ~Known(p)'
  BY <1>1, SeenNext DEF Seen
<1>4. Forgotten(p) /\ Others(p) /\ AbsDead' = AbsDead
  BY <1>1, <1>2, <1>3, ForgottenIs, ProgramOthers, DeadSame DEF ProgramSteps
<1>5. View!Forget({p})
  BY <1>2, <1>4, ViewForget DEF Others
<1>6. AbsCall[p].ph = "out"
  BY <1>1, RunningIs
<1> QED BY <1>4, <1>5, <1>6 DEF View!Step, View!Leave

(* A program whose files stay and which is known as before.                *)
LEMMA SeenFiles ==
  ASSUME NEW q \in Programs, UNCHANGED <<sessions, sess, desc>>, Known(q)' <=> Known(q)
  PROVE  TableNow(q)' = TableNow(q) /\ NextFdNow(q)' = NextFdNow(q)
<1>1. /\ TableNow(q) = IF ~Known(q) THEN Empty ELSE FilesIn(sess[sessions[q]].files, desc)
      /\ NextFdNow(q) = IF ~Known(q) THEN 0 ELSE sess[sessions[q]].next
  BY SeenNow DEF Seen
<1>2. /\ TableNow(q)' = IF ~Known(q)' THEN Empty
                        ELSE FilesIn(sess'[sessions'[q]].files, desc')
      /\ NextFdNow(q)' = IF ~Known(q)' THEN 0 ELSE sess'[sessions'[q]].next
  BY SeenNext DEF Seen
<1>3. CASE Known(q)
  BY <1>1, <1>2, <1>3
<1>4. CASE ~Known(q)
  BY <1>1, <1>2, <1>4
<1> QED BY <1>3, <1>4

(* The beginning of a call, as HostFiles writes it.                        *)
CallForm(x, r) == [x EXCEPT !.ph = "called", !.r = r]
LEMMA CallFormIs ==
  ASSUME NEW r
  PROVE  CallForm(OutOfCall, r) = Shown("called", r, "OK", 0, Nothing)
<1> DEFINE Ph(y, v) == [y EXCEPT !.ph = v]
           R(y, v) == [y EXCEPT !.r = v]
<1>1. CallForm(OutOfCall, r) = R(Ph(OutOfCall, "called"), r)
  BY Zenon DEF CallForm
<1>2. \A h, q, c, n, b, v :
        /\ Ph(Shown(h, q, c, n, b), v) = Shown(v, q, c, n, b)
        /\ R(Shown(h, q, c, n, b), v) = Shown(h, v, c, n, b)
  BY DEF Shown
<1> HIDE DEF Ph, R
<1> QED BY <1>1, <1>2 DEF OutOfCall

LEMMA CallView ==
  ASSUME Inv, NEW p \in Programs, HfCall(p)
  PROVE  View!Step(p)
<1>0. TypeInv /\ ProgOk
  BY DEF Inv, TypeInv
<1>1. prog[p] = "run" /\ prog'[p] = "wait" /\ mbox' = mbox
  BY <1>0 DEF HfCall, ProgOk
<1>2. PICK r \in Asks[p] : call' = [call EXCEPT ![p] = r] /\ SendFs(p, FromProgram("req", p, r))
  BY DEF HfCall
<1>3. r \in Requests /\ call'[p] = r
  BY <1>0, <1>2, ProgramsAssumption DEF ProgOk
<1>4. /\ toCpu' = toCpu /\ sessions' = sessions /\ sess' = sess /\ desc' = desc /\ host' = host
      /\ \A q \in Programs : q # p => prog'[q] = prog[q]
  BY <1>0, ProgramSends DEF ProgramSteps
<1>5. Idle(p) /\ OnWire(p) = {} /\ CallNow(p) = OutOfCall /\ AbsCall[p].ph = "out"
  BY <1>1, RunningIs
<1>6. PICK n \in Up(Home[p]) : /\ n = FromProgram("req", p, r) /\ n.t = "req" /\ n.by = p
                               /\ OwnCall(n, p) /\ ~OwnSub(n, p)
  BY <1>3, PacketMade DEF OwnCall, OwnSub
<1>7. Fs(p)' = Append(Fs(p), n) /\ Fs(p) \in Seq(Up(Home[p])) /\ Cpu(p) \in Seq(Down(Home[p]))
  BY <1>0, <1>2, <1>6, SentFs, HomeOk
<1>8. OnWire(p)' = {n}
  <2>1. Mine(p, Append(Fs(p), n)) = {n}
    BY <1>5, <1>6, <1>7, MineQueues DEF Idle
  <2>2. Mine(p, Cpu(p)) = {} /\ Cpu(p)' = Cpu(p)
    BY <1>4, <1>5, <1>7, MineQueues DEF Idle, Cpu
  <2>3. Mine(p, mbox[p]) = {}
    BY <1>5, EmptySeq DEF Mine, Members, Idle
  <2>4. OnWire(p)' = Mine(p, mbox'[p]) \cup Mine(p, Cpu(p)') \cup Mine(p, Fs(p)')
    BY SeenNext DEF Seen
  <2> QED BY <1>1, <1>7, <2>1, <2>2, <2>3, <2>4
<1>9. CallNow(p)' = Shown("called", r, "OK", 0, Nothing)
  <2>1. CallNow(p)' = Look(prog'[p], OnWire(p)', call'[p], buf'[p])
    BY SeenNext DEF Seen
  <2>2. CallNow(p)' = Look("wait", {n}, r, buf'[p])
    BY <1>1, <1>3, <1>8, <2>1
  <2>3. CallNow(p)' = Shows(r, n, buf'[p])
    BY <2>2, LookOne
  <2> QED BY <1>6, <2>3 DEF Shows
<1>10. TableNow(p)' = TableNow(p) /\ NextFdNow(p)' = NextFdNow(p)
  <2>1. Subbed(p, Fs(p))' <=> Subbed(p, Fs(p))
    <3>1. Subbed(p, Append(Fs(p), n)) <=> Subbed(p, Fs(p))
      BY <1>6, <1>7, MineQueues
    <3> QED BY <1>7, <3>1 DEF Subbed
  <2>2. Known(p)' <=> Known(p)
    BY <1>1, <1>4, <2>1, SeenNow, SeenNext DEF Seen, Has
  <2> QED BY <1>4, <2>2, SeenFiles
<1>11. Others(p) /\ AbsDead' = AbsDead /\ p \notin AbsDead
  BY <1>1, <1>4, ProgramOthers, DeadSame, AbsIs DEF ProgramSteps
<1>12. AbsTable' = AbsTable /\ AbsNext' = AbsNext /\ AbsCall' = SetAt(AbsCall, p, CallNow(p)')
  BY <1>10, <1>11, SameTableIs
<1>13. CallNow(p)' = CallForm(View!NoCall, r)
  BY <1>9, CallFormIs, SameHost
<1>14. AbsCall' = [AbsCall EXCEPT ![p] = [View!NoCall EXCEPT !.ph = "called", !.r = r]]
  BY <1>12, <1>13, Zenon DEF SetAt, CallForm
<1>15. View!Call(p, r)
  BY <1>4, <1>11, <1>12, <1>14 DEF View!Call
<1> QED BY <1>3, <1>5, <1>15 DEF View!Step

LEMMA WaitView ==
  ASSUME Inv, NEW p \in Programs, HfWait(p)
  PROVE  View!Step(p)
<1>0. TypeInv /\ ProgOk
  BY DEF Inv, TypeInv
<1>1. prog[p] = "wait" /\ prog'[p] = "run" /\ mbox[p] # <<>> /\ toFs' = toFs
  BY <1>0 DEF HfWait, ProgOk
<1>2. /\ sessions' = sessions /\ sess' = sess /\ desc' = desc /\ host' = host
      /\ \A q \in Programs : q # p => prog'[q] = prog[q]
  BY <1>0, ProgramSends DEF ProgramSteps
<1>3. Told(p)
  <2>1. Situation(p)
    BY DEF Inv, CallInv
  <2> QED BY <1>1, <2>1 DEF Situation, Idle, Asked, Served
<1>4. PICK m : OnWire(p) = {m} /\ m.t = "reply"
  BY <1>3, WireTold
<1>5. AbsCall[p].ph = "decided"
  <2>1. CallNow(p) = Look("wait", {m}, call[p], buf[p])
    BY <1>1, <1>4, SeenNow DEF Seen
  <2>2. CallNow(p) = Telling(call[p], m, buf[p])
    BY <1>4, <2>1, LookOne DEF Shows
  <2>3. PICK fd, block : CallNow(p) = Shown("decided", call[p], m.code, fd, block)
    BY <2>2 DEF Telling
  <2>4. AbsCall[p] = Shown("decided", call[p], m.code, fd, block)
    BY <2>3, AbsIs
  <2> QED BY <2>4, ShownParts
<1>6. CallNow(p)' = OutOfCall
  <2>1. CallNow(p)' = Look(prog'[p], OnWire(p)', call'[p], buf'[p])
    BY SeenNext DEF Seen
  <2> QED BY <1>1, <2>1, LookNone
<1>7. TableNow(p)' = TableNow(p) /\ NextFdNow(p)' = NextFdNow(p)
  <2>1. Subbed(p, Fs(p))' <=> Subbed(p, Fs(p))
    BY <1>1 DEF Subbed, Fs
  <2>2. Known(p)' <=> Known(p)
    BY <1>1, <1>2, <2>1, SeenNow, SeenNext DEF Seen, Has
  <2> QED BY <1>2, <2>2, SeenFiles
<1>8. Others(p) /\ AbsDead' = AbsDead
  BY <1>1, <1>2, ProgramOthers, DeadSame DEF ProgramSteps
<1>9. AbsTable' = AbsTable /\ AbsNext' = AbsNext /\ AbsCall' = SetAt(AbsCall, p, CallNow(p)')
  BY <1>7, <1>8, SameTableIs
<1>10. AbsCall' = [AbsCall EXCEPT ![p] = View!NoCall]
  BY <1>6, <1>9, SameHost DEF SetAt
<1>11. View!Return(p)
  BY <1>2, <1>8, <1>9, <1>10 DEF View!Return
<1> QED BY <1>5, <1>11 DEF View!Step

LEMMA DieView ==
  ASSUME Inv, NEW p \in Programs, Die(p)
  PROVE  View!Die(p)
<1>0. TypeInv /\ ProgOk /\ MailOk
  BY DEF Inv, TypeInv
<1>1. /\ prog[p] \in {"run", "wait"} /\ prog'[p] = "dead" /\ mbox'[p] = <<>> /\ toFs' = toFs
      /\ call' = call /\ buf' = buf
  BY <1>0 DEF Die, ProgOk, MailOk
<1>2. /\ sessions' = sessions /\ sess' = sess /\ desc' = desc /\ host' = host /\ toCpu' = toCpu
      /\ \A q \in Programs : q # p => prog'[q] = prog[q]
  BY <1>0, ProgramSends DEF ProgramSteps
<1>3. Others(p) /\ AbsDead' = AbsDead \cup {p} /\ p \notin AbsDead
  BY <1>1, <1>2, ProgramOthers, DeadSame, AbsIs DEF ProgramSteps
<1>4. CASE OnWire(p)' = {}
  <2>1. ~Known(p)'
    BY <1>1, <1>4, SeenNext DEF Seen
  <2>2. Forgotten(p)
    BY <1>4, <2>1, ForgottenIs
  <2>3. View!Forget({p})
    BY <1>2, <1>3, <2>2, ViewForget DEF Others
  <2> QED BY <1>3, <2>3 DEF View!Die
<1>5. CASE OnWire(p)' # {}
  <2>1. /\ OnWire(p)' = Mine(p, mbox'[p]) \cup Mine(p, Cpu(p)') \cup Mine(p, Fs(p)')
        /\ OnWire(p) = Mine(p, mbox[p]) \cup Mine(p, Cpu(p)) \cup Mine(p, Fs(p))
    BY SeenNow, SeenNext DEF Seen
  <2>2. Cpu(p)' = Cpu(p) /\ Fs(p)' = Fs(p) /\ Mine(p, mbox'[p]) = {}
    BY <1>1, <1>2, EmptySeq DEF Cpu, Fs, Mine, Members
  <2>3. ~Told(p) /\ ~Idle(p)
    <3>1. Free(Fs(p), p) /\ Free(Cpu(p), p) => OnWire(p)' = {}
      <4>1. Fs(p) \in Seq(Up(Home[p])) /\ Cpu(p) \in Seq(Down(Home[p]))
        BY <1>0, HomeOk
      <4> QED BY <2>1, <2>2, <4>1, MineQueues
    <3> QED BY <1>5, <3>1 DEF Told, Idle
  <2>4. mbox[p] = <<>> /\ prog[p] = "wait"
    <3>1. Situation(p)
      BY DEF Inv, CallInv
    <3> QED BY <1>1, <2>3, <3>1 DEF Situation, Asked, Served
  <2>5. OnWire(p)' = OnWire(p)
    BY <1>1, <2>1, <2>2, <2>4
  <2>6. CallNow(p)' = CallNow(p)
    <3>1. /\ CallNow(p) = Look(prog[p], OnWire(p), call[p], buf[p])
          /\ CallNow(p)' = Look(prog'[p], OnWire(p)', call'[p], buf'[p])
      BY SeenNow, SeenNext DEF Seen
    <3>2. /\ CallNow(p) = Look("wait", OnWire(p), call[p], buf[p])
          /\ CallNow(p)' = Look("dead", OnWire(p), call[p], buf[p])
      BY <1>1, <2>4, <2>5, <3>1
    <3> QED BY <3>2 DEF Look
  <2>7. TableNow(p)' = TableNow(p) /\ NextFdNow(p)' = NextFdNow(p)
    <3>1. Subbed(p, Fs(p))' <=> Subbed(p, Fs(p))
      BY <2>2 DEF Subbed
    <3>2. Known(p)' <=> Known(p)
      BY <1>1, <1>2, <1>5, <2>4, <3>1, SeenNow, SeenNext DEF Seen, Has
    <3> QED BY <1>2, <3>2, SeenFiles
  <2>8. AbsTable' = AbsTable /\ AbsNext' = AbsNext /\ AbsCall' = AbsCall
    BY <1>3, <2>6, <2>7, AbsSets
  <2> QED BY <1>2, <1>3, <2>8 DEF View!Die
<1> QED BY <1>4, <1>5

-----------------------------------------------------------------------------
(* Processors that end and start.                                          *)
LEMMA NeverSeen ==
  ASSUME NEW q \in Programs, prog[q] = "new", prog'[q] = "new"
  PROVE  Unseen(q)
<1>1. ~Known(q) /\ ~Known(q)'
  BY SeenNow, SeenNext DEF Seen
<1>2. /\ TableNow(q) = Empty /\ NextFdNow(q) = 0
      /\ CallNow(q) = Look("new", OnWire(q), call[q], buf[q])
  BY <1>1, SeenNow DEF Seen
<1>3. CallNow(q) = OutOfCall
  BY <1>2, LookNone
<1>4. Forgotten(q)
  BY <1>1, ForgottenIs
<1> QED BY <1>2, <1>3, <1>4 DEF Unseen, Forgotten

LEMMA FarUnseen ==
  ASSUME NEW q \in Programs, UNCHANGED <<sessions, sess, desc>>, mbox'[q] = mbox[q],
         prog'[q] = prog[q], call'[q] = call[q], buf'[q] = buf[q],
         Fs(q)' = Fs(q), Cpu(q)' = Cpu(q)
  PROVE  Unseen(q)
<1>1. /\ Mine(q, mbox[q])' = Mine(q, mbox[q]) /\ Mine(q, Cpu(q))' = Mine(q, Cpu(q))
      /\ Mine(q, Fs(q))' = Mine(q, Fs(q))
  BY DEF Mine, Members, OwnCall
<1>2. OnWire(q)' = OnWire(q)
  BY <1>1, WireSame
<1>3. Subbed(q, Fs(q))' <=> Subbed(q, Fs(q))
  BY DEF Subbed
<1>4. Known(q)' <=> Known(q)
  BY <1>2, <1>3, KnownSame DEF Has
<1> QED BY <1>2, <1>4, SameFilesSame, UnseenIs

LEMMA EndView ==
  ASSUME Inv, NEW c \in Cpus, CpuEnds(c)
  PROVE  \E P \in SUBSET AbsDead : View!Lose(P)
<1>0. TypeInv /\ ProgOk /\ UpOk /\ DownOk
  BY DEF Inv, TypeInv
<1>1. /\ \A q \in Programs : Home[q] = c => prog[q] \in {"new", "dead"}
      /\ toCpu' = [toCpu EXCEPT ![c] = <<>>]
      /\ toFs' = toFs \/ toFs' = [toFs EXCEPT ![c] = <<>>]
      /\ prog' = prog /\ call' = call /\ buf' = buf /\ mbox' = mbox
      /\ sessions' = sessions /\ sess' = sess /\ desc' = desc /\ host' = host
  BY DEF CpuEnds, Gone, progVars, fsVars
<1>2. PICK P \in SUBSET Programs :
        P = {q \in Programs : Home[q] = c /\ prog[q] = "dead" /\ OnWire(q)' = {}}
  OBVIOUS
<1>3. ASSUME NEW q \in P PROVE Forgotten(q)
  <2>1. prog'[q] = "dead" /\ OnWire(q)' = {} /\ q \in Programs
    BY <1>1, <1>2, <1>3
  <2>2. ~Known(q)'
    BY <2>1, SeenNext DEF Seen
  <2> QED BY <2>1, <2>2, ForgottenIs
<1>4. ASSUME NEW q \in Programs \ P PROVE Unseen(q)
  <2>1. CASE Home[q] # c
    <3>1. Fs(q)' = Fs(q) /\ Cpu(q)' = Cpu(q)
      BY <1>0, <1>1, <2>1, HomeOk DEF Fs, Cpu, UpOk, DownOk
    <3> QED BY <1>1, <3>1, FarUnseen
  <2>2. CASE Home[q] = c /\ prog[q] = "new"
    BY <1>1, <2>2, NeverSeen
  <2>3. CASE Home[q] = c /\ prog[q] = "dead"
    <3>1. OnWire(q)' # {}
      BY <1>2, <1>4, <2>3
    <3>2. Situation(q) /\ mbox[q] = <<>>
      BY <2>3 DEF Inv, CallInv, Situation, Idle, Asked, Served, Told
    <3>3. Cpu(q)' = <<>> /\ Mine(q, <<>>) = {}
      BY <1>0, <1>1, <2>3, EmptySeq DEF Cpu, DownOk, Mine, Members
    <3>4. OnWire(q)' = Mine(q, mbox'[q]) \cup Mine(q, Cpu(q)') \cup Mine(q, Fs(q)')
      BY SeenNext DEF Seen
    <3>5. OnWire(q)' = Mine(q, Fs(q)')
      BY <1>1, <3>2, <3>3, <3>4
    <3>6. toFs' = toFs
      <4>1. toFs' = [toFs EXCEPT ![c] = <<>>] => Fs(q)' = <<>>
        BY <1>0, <2>3 DEF Fs, UpOk
      <4> QED BY <1>1, <3>1, <3>3, <3>5, <4>1
    <3>7. Fs(q)' = Fs(q) /\ Fs(q) \in Seq(Up(c)) /\ Cpu(q) \in Seq(Down(c))
      BY <1>0, <2>3, <3>6, HomeOk DEF Fs
    <3>8. ~Free(Fs(q), q)
      BY <3>1, <3>5, <3>7, MineQueues
    <3>9. Free(Cpu(q), q)
      BY <3>2, <3>8 DEF Situation, Idle, Asked, Served, Told
    <3>10. Mine(q, Cpu(q)) = {}
      BY <3>7, <3>9, MineQueues
    <3>11. OnWire(q)' = OnWire(q)
      <4>1. OnWire(q) = Mine(q, mbox[q]) \cup Mine(q, Cpu(q)) \cup Mine(q, Fs(q))
        BY SeenNow DEF Seen
      <4> QED BY <3>2, <3>3, <3>5, <3>7, <3>10, <4>1
    <3>12. Known(q)' <=> Known(q)
      BY <1>1, <3>7, <3>11, KnownSame DEF Has, Subbed
    <3> QED BY <1>1, <3>11, <3>12, SameFilesSame, UnseenIs
  <2> QED BY <1>1, <2>1, <2>2, <2>3
<1>5. View!Forget(P)
  BY <1>1, <1>3, <1>4, ViewForget
<1>6. P \subseteq AbsDead /\ AbsDead' = AbsDead
  BY <1>1, <1>2 DEF AbsDead
<1> QED BY <1>5, <1>6 DEF View!Lose

LEMMA StartView ==
  ASSUME ~EarlyReset, Inv, NEW c \in Cpus, CpuStarts(c)
  PROVE  \E P \in SUBSET AbsDead : View!Renew(P)
<1>0. TypeInv /\ ProgOk
  BY DEF Inv, TypeInv
<1>1. /\ \A q \in Programs : Home[q] = c => prog[q] \in {"new", "dead"}
      /\ toFs' = toFs /\ toCpu' = toCpu /\ mbox' = mbox
      /\ sessions' = sessions /\ sess' = sess /\ desc' = desc /\ host' = host
  BY DEF CpuStarts, Gone, fsVars
<1>2. \A q \in Programs :
        /\ Home[q] = c => prog'[q] = "new"
        /\ Home[q] # c => prog'[q] = prog[q] /\ call'[q] = call[q] /\ buf'[q] = buf[q]
  BY DEF CpuStarts
<1>3. PICK P \in SUBSET Programs : P = {q \in Programs : Home[q] = c /\ prog[q] = "dead"}
  OBVIOUS
<1>4. ASSUME NEW q \in P PROVE Forgotten(q)
  <2>1. q \in Programs /\ prog'[q] = "new"
    BY <1>2, <1>3, <1>4
  <2>2. ~Known(q)'
    BY <2>1, SeenNext DEF Seen
  <2> QED BY <2>1, <2>2, ForgottenIs
<1>5. ASSUME NEW q \in Programs \ P PROVE Unseen(q)
  <2>1. CASE Home[q] = c
    <3>1. prog[q] = "new" /\ prog'[q] = "new"
      BY <1>1, <1>2, <1>3, <1>5, <2>1
    <3> QED BY <3>1, NeverSeen
  <2>2. CASE Home[q] # c
    <3>1. Fs(q)' = Fs(q) /\ Cpu(q)' = Cpu(q)
      BY <1>1 DEF Fs, Cpu
    <3> QED BY <1>1, <1>2, <2>2, <3>1, FarUnseen
  <2> QED BY <2>1, <2>2
<1>6. View!Forget(P)
  BY <1>1, <1>4, <1>5, ViewForget
<1>7. P \subseteq AbsDead /\ AbsDead' = AbsDead \ P
  <2>1. P \subseteq AbsDead
    BY <1>3 DEF AbsDead
  <2>2. \A q \in Programs : /\ q \in AbsDead <=> prog[q] = "dead"
                            /\ q \in AbsDead' <=> prog'[q] = "dead"
    BY AbsIs
  <2>3. AbsDead \subseteq Programs /\ AbsDead' \subseteq Programs
    BY DEF AbsDead
  <2>4. \A q \in Programs : q \in AbsDead' <=> q \in AbsDead /\ q \notin P
    BY <1>2, <1>3, <2>2
  <2> QED BY <2>1, <2>3, <2>4
<1> QED BY <1>6, <1>7 DEF View!Renew

-----------------------------------------------------------------------------
LEMMA ViewInit == Init => View!Init
<1> SUFFICES ASSUME Init PROVE View!Init
  OBVIOUS
<1>1. View!NoCall = OutOfCall /\ View!Empty = Empty
  BY SameHost
<1>2. \A q \in Programs : prog[q] = "new"
  BY DEF Init
<1>3. ASSUME NEW q \in Programs
      PROVE  TableNow(q) = Empty /\ NextFdNow(q) = 0 /\ CallNow(q) = OutOfCall
  <2>1. /\ TableNow(q) = Empty /\ NextFdNow(q) = 0
        /\ CallNow(q) = Look("new", OnWire(q), call[q], buf[q])
    BY <1>2, SeenNow DEF Seen
  <2> QED BY <2>1, LookNone
<1>4. AbsTable = [q \in Programs |-> Empty] /\ AbsNext = [q \in Programs |-> 0]
  BY <1>3 DEF AbsTable, AbsNext
<1>5. AbsCall = [q \in Programs |-> OutOfCall]
  BY <1>3 DEF AbsCall
<1>6. AbsDead = {}
  BY <1>2 DEF AbsDead
<1>7. host = FirstHost
  BY DEF Init
<1> QED BY <1>1, <1>4, <1>5, <1>6, <1>7 DEF View!Init

LEMMA ViewStep ==
  ASSUME ~Reuse, ~EarlyReset
  PROVE  Inv /\ [Next]_vars => [View!Next]_(View!vars)
<1> SUFFICES ASSUME Inv, [Next]_vars PROVE [View!Next]_(View!vars)
  OBVIOUS
<1>1. CASE UNCHANGED vars
  <2>1. ASSUME NEW q \in Programs PROVE Unseen(q)
    BY <1>1, FarUnseen DEF vars, Fs, Cpu
  <2>2. host' = host /\ AbsDead' = AbsDead
    BY <1>1 DEF vars, AbsDead
  <2> QED BY <2>1, <2>2, NobodySeen
<1>2. ASSUME NEW p \in Programs, HfInit(p) \/ Leave(p) \/ HfCall(p) \/ HfWait(p) \/ Die(p)
      PROVE  [View!Next]_(View!vars)
  <2>1. CASE HfInit(p)
    BY <2>1, InitView
  <2>2. CASE Leave(p) \/ HfCall(p) \/ HfWait(p)
    <3>1. View!Step(p)
      BY <2>2, LeaveView, CallView, WaitView
    <3> QED BY <3>1 DEF View!Next
  <2>3. CASE Die(p)
    <3>1. View!Die(p)
      BY <2>3, DieView
    <3> QED BY <3>1 DEF View!Next
  <2> QED BY <1>2, <2>1, <2>2, <2>3
<1>3. ASSUME NEW c \in Cpus, CpuEnds(c) PROVE View!Next
  <2>1. PICK P \in SUBSET AbsDead : View!Lose(P)
    BY <1>3, EndView
  <2> QED BY <2>1 DEF View!Next
<1>4. ASSUME NEW c \in Cpus, CpuStarts(c) PROVE View!Next
  <2>1. PICK P \in SUBSET AbsDead : View!Renew(P)
    BY <1>4, StartView
  <2> QED BY <2>1 DEF View!Next
<1>5. ASSUME NEW c \in Cpus, Answer(c) PROVE [View!Next]_(View!vars)
  <2>1. (\E p \in AbsDead : View!Lose({p})) \/ UNCHANGED View!vars
    BY <1>5, AnswerView
  <2>2. ASSUME NEW p \in AbsDead, View!Lose({p}) PROVE View!Next
    <3>1. {p} \in SUBSET AbsDead
      OBVIOUS
    <3> QED BY <2>2, <3>1 DEF View!Next
  <2> QED BY <2>1, <2>2
<1>6. ASSUME NEW c \in Cpus, HandlePacket(c) PROVE [View!Next]_(View!vars)
  <2>1. (\E p \in Programs : View!Step(p)) \/ UNCHANGED View!vars
    BY <1>6, PacketView
  <2> QED BY <2>1 DEF View!Next
<1> QED BY <1>1, <1>2, <1>3, <1>4, <1>5, <1>6 DEF Next

(* The mappings are those that ImplementsFiles names.                      *)
LEMMA SamePromise ==
  /\ View!Init => Promise!Init
  /\ [View!Next]_(View!vars) => [Promise!Next]_(Promise!vars)
<1> USE DEF AbsTable, AbsNext, AbsCall, AbsDead
<1>1. View!Init => Promise!Init
  BY Zenon DEF View!Init, Promise!Init, View!Empty, Promise!Empty, View!NoCall, Promise!NoCall,
    View!Nothing, Promise!Nothing
<1>2. UNCHANGED View!vars => UNCHANGED Promise!vars
  BY Zenon DEF View!vars, Promise!vars
<1>3. ASSUME NEW p, NEW code, NEW fd, NEW b, View!Decide(p, code, fd, b)
      PROVE  Promise!Decide(p, code, fd, b)
  BY <1>3, Zenon DEF View!Decide, Promise!Decide
<1>4. View!PathOps = Promise!PathOps /\ View!FdOps = Promise!FdOps /\ View!Nothing = Promise!Nothing
      /\ View!Empty = Promise!Empty /\ View!NoCall = Promise!NoCall
  BY Zenon DEF View!PathOps, Promise!PathOps, View!FdOps, Promise!FdOps, View!Nothing,
    Promise!Nothing, View!Empty, Promise!Empty, View!NoCall, Promise!NoCall
<1>5. \A P : View!Forget(P) => Promise!Forget(P)
  BY <1>4, Zenon DEF View!Forget, Promise!Forget
<1>6. \A P : (View!Lose(P) => Promise!Lose(P)) /\ (View!Renew(P) => Promise!Renew(P))
  BY <1>5, Zenon DEF View!Lose, Promise!Lose, View!Renew, Promise!Renew
<1>7. \A p : (View!Die(p) => Promise!Die(p)) /\ (View!Leave(p) => Promise!Leave(p))
  BY <1>5, Zenon DEF View!Die, Promise!Die, View!Leave, Promise!Leave
<1>8. \A p, r : View!Call(p, r) => Promise!Call(p, r)
  BY Zenon DEF View!Call, Promise!Call, View!NoCall, Promise!NoCall, View!Nothing, Promise!Nothing
<1>9. \A p : (View!Return(p) => Promise!Return(p)) /\ (View!Land(p) => Promise!Land(p))
  <2>1. \A p : View!Return(p) => Promise!Return(p)
    BY <1>4, Zenon DEF View!Return, Promise!Return
  <2>2. \A p : View!Land(p) => Promise!Land(p)
    BY <1>3, <1>4, Zenon DEF View!Land, Promise!Land
  <2> QED BY <2>1, <2>2, Zenon
<1>10. \A r : View!PathError(r) = Promise!PathError(r)
  BY Zenon DEF View!PathError, Promise!PathError, View!OpenError, Promise!OpenError,
    View!ListError, Promise!ListError, View!MkdirError, Promise!MkdirError,
    View!UnlinkError, Promise!UnlinkError, View!ReadOnly, Promise!ReadOnly,
    View!WriteOnly, Promise!WriteOnly, View!ReadWrite, Promise!ReadWrite
<1>11. \A p, r : View!Errors(p, r) = Promise!Errors(p, r)
  BY Zenon DEF View!Errors, Promise!Errors, View!PathError, Promise!PathError,
    View!PathOps, Promise!PathOps, View!FdOps, Promise!FdOps, View!Cardinality, Promise!Cardinality,
    View!OpenError, Promise!OpenError, View!ListError, Promise!ListError,
    View!MkdirError, Promise!MkdirError, View!UnlinkError, Promise!UnlinkError,
    View!ReadOnly, Promise!ReadOnly, View!WriteOnly, Promise!WriteOnly,
    View!ReadWrite, Promise!ReadWrite
<1>12. \A p, r : View!Sound(p, r) => Promise!Sound(p, r)
  BY <1>4, <1>10, <1>11, Zenon DEF View!Sound, Promise!Sound
<1>13. \A p : View!Fail(p) => Promise!Fail(p)
  BY <1>3, <1>4, <1>11, Zenon DEF View!Fail, Promise!Fail
<1>14. \A p, o : View!NewFile(p, o) => Promise!NewFile(p, o)
  BY <1>3, <1>4, Zenon DEF View!NewFile, Promise!NewFile
<1>15. \A p : View!Path(p) => Promise!Path(p)
  <2>1. /\ \A h, n, flags : View!Opened(h, n, flags) = Promise!Opened(h, n, flags)
        /\ \A h, n : /\ View!Listing(h, n) = Promise!Listing(h, n)
                     /\ View!WithDir(h, n) = Promise!WithDir(h, n)
                     /\ View!Unlinked(h, n) = Promise!Unlinked(h, n)
        /\ \A f, mode : View!OpenFile(f, mode) = Promise!OpenFile(f, mode)
        /\ \A names : View!OpenDir(names) = Promise!OpenDir(names)
    BY Zenon DEF View!Opened, Promise!Opened, View!WithFile, Promise!WithFile, View!Listing,
      Promise!Listing, View!WithDir, Promise!WithDir, View!Unlinked, Promise!Unlinked,
      View!OpenFile, Promise!OpenFile, View!OpenDir, Promise!OpenDir,
      View!ReadOnly, Promise!ReadOnly
  <2> QED BY <1>3, <1>4, <1>14, <2>1, Zenon DEF View!Path, Promise!Path
<1>16. \A p : View!Close(p) => Promise!Close(p)
  BY <1>3, <1>4, Zenon DEF View!Close, Promise!Close
<1>17. /\ \A o : /\ View!IsListing(o) <=> Promise!IsListing(o)
                 /\ View!IsFile(o) <=> Promise!IsFile(o)
       /\ \A mode : /\ View!Readable(mode) <=> Promise!Readable(mode)
                    /\ View!Writable(mode) <=> Promise!Writable(mode)
  BY Zenon DEF View!IsListing, Promise!IsListing, View!IsFile, Promise!IsFile, View!Readable,
    Promise!Readable, View!Writable, Promise!Writable, View!ReadOnly, Promise!ReadOnly,
    View!WriteOnly, Promise!WriteOnly, View!ReadWrite, Promise!ReadWrite
<1>18. \A o : /\ View!AllRead(o) <=> Promise!AllRead(o)
              /\ View!NextBlock(o) = Promise!NextBlock(o)
  BY Zenon DEF View!AllRead, Promise!AllRead, View!NextBlock, Promise!NextBlock,
    View!AtEnd, Promise!AtEnd, View!BlockAt, Promise!BlockAt, View!IsListing, Promise!IsListing,
    View!IsFile, Promise!IsFile
<1>19. \A p : View!Read(p) => Promise!Read(p)
  BY <1>3, <1>4, <1>17, <1>18, Zenon DEF View!Read, Promise!Read
<1>20. \A p : View!Write(p) => Promise!Write(p)
  <2>1. \A h, f, pos, b : View!Written(h, f, pos, b) = Promise!Written(h, f, pos, b)
    BY Zenon DEF View!Written, Promise!Written
  <2> QED BY <1>3, <1>4, <1>17, <2>1, Zenon DEF View!Write, Promise!Write
<1>21. \A p : View!Act(p) => Promise!Act(p)
  BY <1>12, <1>15, <1>16, <1>19, <1>20, Zenon DEF View!Act, Promise!Act
<1>22. \A p : View!Step(p) => Promise!Step(p)
  BY <1>7, <1>8, <1>9, <1>13, <1>21, Zenon DEF View!Step, Promise!Step
<1> QED BY <1>1, <1>2, <1>6, <1>7, <1>22, Zenon DEF View!Next, Promise!Next

(* A call of a program takes effect at one moment, on the files of the     *)
(* host and on its own open files, and returns the result of that moment,  *)
(* or fails for a reason that holds then: hostfsd's sessions, requests put *)
(* aside and transfers implement HostFiles, also when programs are killed  *)
(* and processors end.                                                     *)
THEOREM FilesCorrect ==
  ASSUME ~Reuse, ~EarlyReset, ~LeaveShared PROVE Spec => ImplementsFiles
<1>1. Init => Inv /\ Promise!Init
  BY InvFirst, ViewInit, SamePromise
<1>2. Inv /\ [Next]_vars => Inv'
  BY InvStep
<1>3. Inv /\ [Next]_vars => [Promise!Next]_(Promise!vars)
  BY ViewStep, SamePromise
<1> QED BY <1>1, <1>2, <1>3, PTL DEF Spec, ImplementsFiles, Promise!Spec
=============================================================================

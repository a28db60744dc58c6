------------------------------ MODULE Crossbar ------------------------------
(***************************************************************************)
(* The crossbar process, tools/sim/oriscbar, and the socket end of its     *)
(* clients: simorisc's SocketCrossbar and the send_packet of the device    *)
(* programs.  The event loop is single-threaded; clients write, read and   *)
(* close their sockets between any two of its steps.                       *)
(*                                                                         *)
(* A stream is a sequence of halves: a packet is a head (length and        *)
(* header) followed by a tail (the rest), so that a partial write or read  *)
(* can end between them.  A greeting and its reply are one item each: they *)
(* are the first eight bytes on an empty socket.  The buffers that the     *)
(* kernel keeps per direction hold Room items.  Headers are complete (the  *)
(* crossbar drops packets below eight bytes).                              *)
(***************************************************************************)
EXTENDS Naturals, Sequences, FiniteSets, SequencesExt, Functions

CONSTANTS
  Clients,      \* client processes: each connects at most once
  NoClient,
  Pids,         \* processor numbers
  pid,          \* the number each of them asks for
  BadPid,       \* what take_handshake returns for a bad greeting
  Foreign,      \* clients that may greet wrongly: no program of this repository
  Waiting,      \* clients whose send_packet waits for room: the devices
  Room,         \* capacity of a kernel buffer
  MaxPackets    \* bound: packets sent by all clients together

ASSUME ClientsAssumption ==
  NoClient \notin Clients /\ Waiting \cup Foreign \subseteq Clients
ASSUME PidsAssumption == pid \in [Clients -> Pids] /\ BadPid \notin Pids
ASSUME RoomAssumption == Room \in Nat \ {0} /\ MaxPackets \in Nat

VARIABLES
  client,       \* state of the client process
  sent,         \* number of packets sent so far by all clients
  rest,         \* what a waiting send_packet has not written yet
  inbuf,        \* its recv_buf
  got,          \* packets it has received
  up, down,     \* kernel buffers, towards the crossbar and towards the client
  conn,         \* state of the Connection
  buf, outbuf,  \* Connection.buf and Connection.outbuf
  armed,        \* Connection.write_registered
  table,        \* Crossbar.connections
  readable, writable,   \* what remains of the batch that select returned
  routing,      \* whose packets handle_readable is taking from buf
  running       \* the event loop has not died of an exception

clientVars == <<client, sent, rest, inbuf, got>>
batch == <<readable, writable>>
vars == <<clientVars, up, down, conn, buf, outbuf, armed, table, batch, routing, running>>

-----------------------------------------------------------------------------
Packet == [src : Clients, dst : Pids, n : 1..MaxPackets]
Half == [half : {"head", "tail"}, packet : Packet]
Greeting == [half : {"hello"}, good : BOOLEAN]
Reply == [half : {"ok", "rejected"}]

Halves(packet) == <<[half |-> "head", packet |-> packet],
                    [half |-> "tail", packet |-> packet]>>

IsHalf(x) == x.half \in {"head", "tail"}

(* A stream without the greeting or the reply that may begin it.           *)
Data(s) == IF s # <<>> /\ ~IsHalf(Head(s)) THEN Tail(s) ELSE s

(* The complete packets in a stream.                                       *)
Frames(s) ==
  LET halves == Data(s)
  IN [k \in 1..(Len(halves) \div 2) |-> halves[2 * k - 1].packet]

Least(m, n) == IF m <= n THEN m ELSE n

First(s, n) == SubSeq(s, 1, n)
Beyond(s, n) == SubSeq(s, n + 1, Len(s))

(* How much of s a kernel buffer that holds pipe takes.                    *)
Fit(s, pipe) == Least(Len(s), Room - Len(pipe))

Init ==
  /\ client = [c \in Clients |-> "away"]
  /\ sent = 0
  /\ conn = [c \in Clients |-> "none"]
  /\ rest = [c \in Clients |-> <<>>] /\ inbuf = [c \in Clients |-> <<>>]
  /\ got = [c \in Clients |-> <<>>]
  /\ up = [c \in Clients |-> <<>>] /\ down = [c \in Clients |-> <<>>]
  /\ buf = [c \in Clients |-> <<>>] /\ outbuf = [c \in Clients |-> <<>>]
  /\ armed = [c \in Clients |-> FALSE]
  /\ table = [p \in {} |-> NoClient]
  /\ readable = {} /\ writable = {} /\ routing = NoClient
  /\ running = TRUE

-----------------------------------------------------------------------------
(* The clients.                                                            *)

(* A client connects and greets; a foreign program may greet wrongly.      *)
Connect(c) ==
  /\ client[c] = "away"
  /\ client' = [client EXCEPT ![c] = "greeting"]
  /\ \E good \in {TRUE, c \notin Foreign} : up' = [up EXCEPT ![c] = <<[half |-> "hello", good |-> good]>>]
  /\ UNCHANGED <<sent, rest, inbuf, got, down, conn, buf, outbuf, armed, table,
                 batch, routing, running>>

(* Closing a socket drops what was not written and not read.               *)
GoneClient(c) ==
  /\ client' = [client EXCEPT ![c] = "gone"]
  /\ rest' = [rest EXCEPT ![c] = <<>>] /\ inbuf' = [inbuf EXCEPT ![c] = <<>>]
  /\ down' = [down EXCEPT ![c] = <<>>]
  /\ UNCHANGED <<sent, got, up, conn, buf, outbuf, armed, table, batch, routing,
                 running>>

(* The client reads the reply to its greeting, and exits if rejected.      *)
ReadReply(c) ==
  /\ client[c] = "greeting" /\ down[c] # <<>>
  /\ IF Head(down[c]).half = "ok"
       THEN /\ client' = [client EXCEPT ![c] = "up"]
            /\ down' = [down EXCEPT ![c] = Tail(@)]
            /\ UNCHANGED <<sent, rest, inbuf, got, up, conn, buf, outbuf, armed,
                           table, batch, routing, running>>
       ELSE GoneClient(c)

(* A client exits or is killed; a device also when it waits too long.      *)
Leave(c) == client[c] \in {"greeting", "up"} /\ GoneClient(c)

(* send_packet.  A device waits until the kernel has taken all of it.      *)
(* simorisc calls sendall on the non-blocking socket: what does not fit at *)
(* once is lost.                                                           *)
SendPacket(c, dst) ==
  /\ client[c] = "up" /\ rest[c] = <<>>
  /\ sent < MaxPackets
  /\ sent' = sent + 1
  /\ LET halves == Halves([src |-> c, dst |-> dst, n |-> sent + 1])
         n == Fit(halves, up[c])
     IN /\ up' = [up EXCEPT ![c] = @ \o First(halves, n)]
        /\ rest' = [rest EXCEPT ![c] = IF c \in Waiting THEN Beyond(halves, n) ELSE <<>>]
  /\ UNCHANGED <<client, inbuf, got, down, conn, buf, outbuf, armed, table, batch,
                 routing, running>>

SendMore(c) ==
  LET n == Fit(rest[c], up[c])
  IN /\ n > 0
     /\ up' = [up EXCEPT ![c] = @ \o First(rest[c], n)]
     /\ rest' = [rest EXCEPT ![c] = Beyond(@, n)]
     /\ UNCHANGED <<client, sent, inbuf, got, down, conn, buf, outbuf, armed, table,
                    batch, routing, running>>

(* poll_incoming, and _pump of the devices; not while send_packet waits.   *)
Receive(c) ==
  /\ client[c] = "up" /\ rest[c] = <<>> /\ down[c] # <<>>
  /\ LET s == inbuf[c] \o down[c]
         n == Len(Frames(s))
     IN /\ got' = [got EXCEPT ![c] = @ \o Frames(s)]
        /\ inbuf' = [inbuf EXCEPT ![c] = Beyond(s, 2 * n)]
  /\ down' = [down EXCEPT ![c] = <<>>]
  /\ UNCHANGED <<client, sent, rest, up, conn, buf, outbuf, armed, table, batch,
                 routing, running>>

-----------------------------------------------------------------------------
(* The crossbar.                                                           *)

Accept(c) ==
  /\ conn[c] = "none" /\ client[c] # "away"
  /\ conn' = [conn EXCEPT ![c] = "pending"]
  /\ UNCHANGED <<clientVars, up, down, buf, outbuf, armed, table, batch, routing, running>>

Open == {c \in Clients : conn[c] \in {"pending", "open"}}

(* select: a socket is readable also at the end of the stream.             *)
Select ==
  /\ readable = {} /\ writable = {} /\ routing = NoClient
  /\ readable' = {c \in Open : up[c] # <<>> \/ client[c] = "gone"}
  /\ writable' = {c \in Open : armed[c] /\ (Len(down[c]) < Room \/ client[c] = "gone")}
  /\ readable' \cup writable' # {}
  /\ UNCHANGED <<clientVars, up, down, conn, buf, outbuf, armed, table, routing, running>>

(* close_connection.  A second call for the same connection makes          *)
(* selector.unregister raise an exception that nobody catches.  The        *)
(* buffers are dropped, save that handle_readable goes on with its own.    *)
CloseConnection(c) ==
  /\ IF conn[c] = "dead" THEN running' = FALSE ELSE UNCHANGED running
  /\ conn' = [conn EXCEPT ![c] = "dead"]
  /\ table' = Restrict(table, {p \in DOMAIN table : table[p] # c})
  /\ up' = [up EXCEPT ![c] = <<>>]
  /\ outbuf' = [outbuf EXCEPT ![c] = <<>>]
  /\ armed' = [armed EXCEPT ![c] = FALSE]

FlushUnarmed(c, out) ==  \* Mutant: interest is only ever switched off
  LET n == Fit(out, down[c])
  IN /\ down' = [down EXCEPT ![c] = @ \o First(out, n)]
     /\ outbuf' = [outbuf EXCEPT ![c] = Beyond(out, n)]
     /\ armed' = [armed EXCEPT ![c] = @ /\ n < Len(out)]
     /\ UNCHANGED <<conn, table, up, running>>

FlushOnce(c, out) ==  \* Mutant: what does not fit is dropped
  LET n == Fit(out, down[c])
  IN /\ down' = [down EXCEPT ![c] = @ \o First(out, n)]
     /\ outbuf' = [outbuf EXCEPT ![c] = <<>>]
     /\ UNCHANGED <<conn, table, up, running, armed>>

(* flush_outbound to a client that is there: the kernel takes what it has  *)
(* room for, and EVENT_WRITE stays armed while anything is left.           *)
Flush(c, out) ==
  LET n == Fit(out, down[c])
  IN /\ down' = [down EXCEPT ![c] = @ \o First(out, n)]
     /\ outbuf' = [outbuf EXCEPT ![c] = Beyond(out, n)]
     /\ armed' = [armed EXCEPT ![c] = n < Len(out)]
     /\ UNCHANGED <<conn, table, up, running>>

(* flush_outbound, and the close that follows when it fails.               *)
FlushOrClose(c, out) ==
  IF client[c] = "gone" THEN CloseConnection(c) /\ UNCHANGED down
                        ELSE Flush(c, out)

(* EVENT_WRITE.                                                            *)
HandleWritable(c) ==
  /\ routing = NoClient /\ c \in writable
  /\ writable' = writable \ {c}
  /\ IF conn[c] = "dead" THEN UNCHANGED <<up, down, conn, outbuf, armed, table, running>>
                         ELSE FlushOrClose(c, outbuf[c])
  /\ UNCHANGED <<clientVars, buf, readable, routing>>

ReadSome(c) ==
  /\ \E n \in 1..Len(up[c]) :
       /\ buf' = [buf EXCEPT ![c] = @ \o First(up[c], n)]
       /\ up' = [up EXCEPT ![c] = Beyond(@, n)]
  /\ routing' = c
  /\ UNCHANGED <<conn, outbuf, armed, table, running>>

HandleStale(c) ==  \* Mutant: conn.dead is not looked at
  /\ routing = NoClient /\ c \in readable \ writable
  /\ readable' = readable \ {c}
  /\ IF up[c] # <<>> THEN ReadSome(c)
                     ELSE CloseConnection(c) /\ UNCHANGED <<buf, routing>>
  /\ UNCHANGED <<clientVars, down, writable>>

(* EVENT_READ: skipped for a connection closed earlier in the batch.       *)
HandleReadable(c) ==
  /\ routing = NoClient /\ c \in readable \ writable
  /\ readable' = readable \ {c}
  /\ IF conn[c] = "dead"
       THEN UNCHANGED <<up, conn, buf, outbuf, armed, table, routing, running>>
     ELSE IF up[c] # <<>> THEN ReadSome(c)
                          ELSE /\ CloseConnection(c)
                               /\ buf' = [buf EXCEPT ![c] = <<>>]
                               /\ UNCHANGED routing
  /\ UNCHANGED <<clientVars, down, writable>>

(* The reply goes straight into the empty socket; errors are ignored.      *)
WriteReply(c, status) ==
  down' = IF client[c] = "gone" THEN down
          ELSE [down EXCEPT ![c] = Append(@, [half |-> status])]

TakeHandshake(c) == IF Head(buf[c]).good THEN pid[c] ELSE BadPid

Admit(c, p) ==
  /\ conn' = [conn EXCEPT ![c] = "open"]
  /\ table' = [x \in DOMAIN table \cup {p} |-> IF x = p THEN c ELSE table[x]]
  /\ WriteReply(c, "ok")
  /\ buf' = [buf EXCEPT ![c] = Tail(@)]
  /\ UNCHANGED <<up, outbuf, armed, routing, running>>

Reject(c) ==
  /\ CloseConnection(c)
  /\ WriteReply(c, "rejected")
  /\ buf' = [buf EXCEPT ![c] = <<>>]
  /\ routing' = NoClient

HandshakeAnyMagic(c) ==  \* Mutant: the return value -1 is not checked
  /\ routing = c /\ conn[c] = "pending"
  /\ IF TakeHandshake(c) \in DOMAIN table THEN Reject(c)
                                          ELSE Admit(c, TakeHandshake(c))
  /\ UNCHANGED <<clientVars, batch>>

HandshakeTwice(c) ==  \* Mutant: a newcomer takes the number over
  /\ routing = c /\ conn[c] = "pending"
  /\ IF TakeHandshake(c) = BadPid THEN Reject(c) ELSE Admit(c, TakeHandshake(c))
  /\ UNCHANGED <<clientVars, batch>>

HandleHandshake(c) ==
  /\ routing = c /\ conn[c] = "pending"
  /\ IF TakeHandshake(c) = BadPid \/ TakeHandshake(c) \in DOMAIN table
       THEN Reject(c) ELSE Admit(c, TakeHandshake(c))
  /\ UNCHANGED <<clientVars, batch>>

(* write_packet appends to what is queued.                                 *)
WritePacketFirst(t, halves) ==  \* Mutant: ahead of what is queued
  FlushOrClose(t, halves \o outbuf[t])

WritePacket(t, halves) == FlushOrClose(t, outbuf[t] \o halves)

(* take_packet has a packet.  What follows a packet that lost its tail has *)
(* a meaningless length: the crossbar is taken to wait for it.             *)
PacketReady(s) == Len(s) >= 2 /\ Head(s).half = "head"

(* One turn of the loop in handle_readable: a complete packet goes to the  *)
(* connection that its header names, if any.  c may have been closed by a  *)
(* packet to itself and is still emptied.                                  *)
RoutePacket(c) ==
  /\ routing = c /\ conn[c] # "pending"
  /\ PacketReady(buf[c])
  /\ buf' = [buf EXCEPT ![c] = Beyond(@, 2)]
  /\ LET dst == Head(buf[c]).packet.dst
     IN IF dst \in DOMAIN table
          THEN WritePacket(table[dst], First(buf[c], 2))
          ELSE UNCHANGED <<up, down, conn, outbuf, armed, table, running>>
  /\ UNCHANGED <<clientVars, batch, routing>>

(* No complete packet is left.                                             *)
DoneReading(c) ==
  /\ routing = c /\ conn[c] # "pending"
  /\ ~PacketReady(buf[c])
  /\ routing' = NoClient
  /\ buf' = [buf EXCEPT ![c] = IF conn[c] = "dead" THEN <<>> ELSE @]
  /\ UNCHANGED <<clientVars, up, down, conn, outbuf, armed, table, batch, running>>

-----------------------------------------------------------------------------
Loop ==
  /\ running
  /\ \/ Select
     \/ \E c \in Clients :
          \/ Accept(c) \/ HandleWritable(c) \/ HandleReadable(c)
          \/ HandleHandshake(c) \/ RoutePacket(c) \/ DoneReading(c)

Next ==
  \/ Loop
  \/ \E c \in Clients :
       \/ Connect(c) \/ ReadReply(c) \/ Leave(c)
       \/ \E dst \in Pids : SendPacket(c, dst)
       \/ SendMore(c) \/ Receive(c)

Spec == Init /\ [][Next]_vars

(* The event loop runs; a client that is there reads its socket and goes   *)
(* on with a send that waits for room.                                     *)
Fairness ==
  /\ WF_vars(Loop)
  /\ \A c \in Clients : WF_vars(ReadReply(c) \/ SendMore(c) \/ Receive(c))

FairSpec == Spec /\ Fairness

-----------------------------------------------------------------------------
(* Every variable holds a value of its type, and no kernel buffer          *)
(* overflows.                                                              *)
TypeOK ==
  /\ client \in [Clients -> {"away", "greeting", "up", "gone"}]
  /\ sent \in 0..MaxPackets
  /\ conn \in [Clients -> {"none", "pending", "open", "dead"}]
  /\ rest \in [Clients -> Seq(Half)] /\ inbuf \in [Clients -> Seq(Half)]
  /\ got \in [Clients -> Seq(Packet)]
  /\ up \in [Clients -> Seq(Half \cup Greeting)]
  /\ down \in [Clients -> Seq(Half \cup Reply)]
  /\ \A c \in Clients : Len(up[c]) <= Room /\ Len(down[c]) <= Room
  /\ buf \in [Clients -> Seq(Half \cup Greeting)]
  /\ outbuf \in [Clients -> Seq(Half)]
  /\ armed \in [Clients -> BOOLEAN]
  /\ DOMAIN table \subseteq Pids /\ Range(table) \subseteq Clients
  /\ readable \subseteq Clients /\ writable \subseteq Clients
  /\ routing \in Clients \cup {NoClient}
  /\ running \in BOOLEAN

(* connections lists exactly the connections that have been greeted and    *)
(* not closed, each under the number it was told is its own.               *)
TableExact ==
  \A c \in Clients :
    conn[c] = "open" <=> pid[c] \in DOMAIN table /\ table[pid[c]] = c

(* No connection is closed twice, which would take the crossbar down.      *)
NeverDies == running

(* Numbers, connections and the loop that serves them stay in step.        *)
Connected == TableExact /\ NeverDies

Upstream(c) == buf[c] \o up[c] \o rest[c]
Downstream(c) == inbuf[c] \o down[c] \o outbuf[c]

(* A stream is cut into whole packets, as long as somebody reads it.       *)
WellFramed(s) ==
  LET halves == Data(s)
  IN \A k \in 1..Len(halves) :
       IF k % 2 = 1 THEN halves[k].half = "head"
                    ELSE /\ halves[k].half = "tail"
                         /\ halves[k].packet = halves[k - 1].packet
Framed == \A c \in Clients : /\ WellFramed(Upstream(c))
                             /\ client[c] = "gone" \/ WellFramed(Downstream(c))

(* The crossbar is a Switch: packets arrive in order, once and whole, and  *)
(* none is lost between clients that stay.                                 *)
Promise == INSTANCE Switch WITH
  present <- {c \in Clients : client[c] # "gone"},
  submitted <- [c \in Clients |-> Frames(Upstream(c))],
  queue <- [c \in Clients |-> IF client[c] = "gone" THEN <<>> ELSE Frames(Downstream(c))]
ImplementsSwitch == Promise!Spec

(* Packets do not get stuck: again and again (clients send finitely many)  *)
(* all have been switched, and received by the clients that are there.     *)
InFlight(c) == \/ Frames(Upstream(c)) # <<>>
               \/ client[c] # "gone" /\ Frames(Downstream(c)) # <<>>
AllArrive == []<>(\A c \in Clients : ~InFlight(c))
=============================================================================

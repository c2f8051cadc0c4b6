--------------------------- MODULE PacketWriter ---------------------------
(***************************************************************************)
(* Sending on a stream connection: write and handleWrite of                *)
(* src/app/src/connection/tcp_connection.cpp (serial_connection.cpp has a  *)
(* second copy of them), called by the window's Send button.               *)
(*                                                                         *)
(* async_write_some writes a part of a packet; handleWrite sends the rest  *)
(* with another async_write_some.  Sends overlap: the kernel serves the    *)
(* operations of a socket in order, one part each, and whatever is left of *)
(* a packet lines up again behind those that came later.  The connection's *)
(* life is reduced to its sessions, which begin and end at any time.       *)
(***************************************************************************)
EXTENDS Naturals, Sequences, SequencesExt

CONSTANTS
  MaxPackets,    \* bound: packets sent
  Size,          \* bytes of a packet
  MaxSessions    \* bound: sessions of the connection

ASSUME WriterAssumption == MaxPackets \in Nat /\ Size \in Nat \ {0} /\ MaxSessions \in Nat

Packet  == 1..MaxPackets
Session == 1..MaxSessions
Bytes   == [k \in 1..Size |-> k]   \* a packet: its bytes, numbered

VARIABLES
  gui,       \* "idle" or "write": between isConnected() and async_write_some
  up,        \* is the socket connected?
  session,   \* sessions begun
  sent,      \* packets sent
  queue,     \* async_write_some operations of the socket: what they write
  done,      \* completions waiting for handleWrite: what was written, and how much
  wire,      \* history: the bytes of each packet that left, with their session
  failed,    \* history: packets whose write failed
  crossed    \* history: packets with a part written but not handled at a disconnect

vars == <<gui, up, session, sent, queue, done, wire, failed, crossed>>

Init ==
  /\ gui = "idle"
  /\ up = FALSE /\ session = 0 /\ sent = 0
  /\ queue = <<>> /\ done = <<>>
  /\ wire = [p \in Packet |-> <<>>] /\ failed = {} /\ crossed = {}

\* An operation on a packet's buffer, and its completion with n bytes written.
Operation(p, buffer) == [packet |-> p, buffer |-> buffer]
Completed(op, n)     == [packet |-> op.packet, buffer |-> op.buffer, n |-> n, error |-> FALSE]
Failed(op)           == [packet |-> op.packet, buffer |-> op.buffer, n |-> 0, error |-> TRUE]

\* async_write_some(buffer): refused, through a queued error, by a socket that is
\* not connected.
AsyncWriteSome(p, buffer, rest) ==
  \/ up  /\ queue' = Append(queue, Operation(p, buffer)) /\ done' = rest
  \/ ~up /\ queue' = queue /\ done' = Append(rest, Failed(Operation(p, buffer)))

-----------------------------------------------------------------------------
(***************************************************************************)
(* The gui thread.                                                         *)
(***************************************************************************)

\* drawConnectionRawInput: Send is enabled by isConnected().
PressSend ==
  /\ gui = "idle" /\ up
  /\ sent < MaxPackets
  /\ gui' = "write"
  /\ UNCHANGED <<up, session, sent, queue, done, wire, failed, crossed>>

\* Tcp::write: a buffer of its own for each packet.
Write ==
  /\ gui = "write"
  /\ sent' = sent + 1
  /\ AsyncWriteSome(sent', Bytes, done)
  /\ gui' = "idle"
  /\ UNCHANGED <<up, session, wire, failed, crossed>>

-----------------------------------------------------------------------------
(***************************************************************************)
(* The kernel and the connection's sessions.                               *)
(***************************************************************************)

\* The socket takes a part of the first operation's buffer.
Transfer ==
  /\ up /\ queue # <<>>
  /\ LET op == Head(queue)
     IN \E n \in 1..Len(op.buffer) :
          /\ wire' = [wire EXCEPT ![op.packet] =
                         @ \o [k \in 1..n |-> [byte |-> op.buffer[k], session |-> session]]]
          /\ done' = Append(done, Completed(op, n))
  /\ queue' = Tail(queue)
  /\ UNCHANGED <<gui, up, session, sent, failed, crossed>>

\* The first operation fails: the peer has reset the connection.
Break ==
  /\ up /\ queue # <<>>
  /\ done' = Append(done, Failed(Head(queue)))
  /\ queue' = Tail(queue)
  /\ UNCHANGED <<gui, up, session, sent, wire, failed, crossed>>

\* handleConnect
Connect ==
  /\ ~up
  /\ session < MaxSessions
  /\ up' = TRUE /\ session' = session + 1
  /\ UNCHANGED <<gui, sent, queue, done, wire, failed, crossed>>

Partial(d) == ~d.error /\ d.n < Len(d.buffer)

\* disconnect(): socket_.close() aborts the operations.
Disconnect ==
  /\ up
  /\ up' = FALSE
  /\ done' = done \o [k \in 1..Len(queue) |-> Failed(queue[k])]
  /\ queue' = <<>>
  /\ crossed' = crossed \cup {d.packet : d \in {e \in ToSet(done) : Partial(e)}}
  /\ UNCHANGED <<gui, session, sent, wire, failed>>

-----------------------------------------------------------------------------
(***************************************************************************)
(* The io thread: handleWrite.                                             *)
(***************************************************************************)

\* Mutant: a write that failed is tried again.
HandleWriteRetries ==
  /\ done # <<>>
  /\ LET d == Head(done)
         rest == SubSeq(d.buffer, d.n + 1, Len(d.buffer))
     IN IF rest # <<>> THEN AsyncWriteSome(d.packet, rest, Tail(done))
                       ELSE done' = Tail(done) /\ queue' = queue
  /\ failed' = failed
  /\ UNCHANGED <<gui, up, session, sent, wire, crossed>>

\* Mutant: the rest of the buffer is sent without erasing what was written.
HandleWriteKeepsBuffer ==
  /\ done # <<>>
  /\ LET d == Head(done)
     IN IF Partial(d) THEN AsyncWriteSome(d.packet, d.buffer, Tail(done)) /\ failed' = failed
        ELSE /\ done' = Tail(done) /\ queue' = queue
             /\ failed' = IF d.error THEN failed \cup {d.packet} ELSE failed
  /\ UNCHANGED <<gui, up, session, sent, wire, crossed>>

\* Mutant: an error is reported, and the rest is sent all the same.
HandleWriteGoesOn ==
  /\ done # <<>>
  /\ LET d == Head(done)
         rest == SubSeq(d.buffer, d.n + 1, Len(d.buffer))
     IN /\ IF rest # <<>> THEN AsyncWriteSome(d.packet, rest, Tail(done))
                          ELSE done' = Tail(done) /\ queue' = queue
        /\ failed' = IF d.error THEN failed \cup {d.packet} ELSE failed
  /\ UNCHANGED <<gui, up, session, sent, wire, crossed>>

\* The rest of a partial write is written next; an error ends the packet.
HandleWrite ==
  /\ done # <<>>
  /\ LET d == Head(done)
     IN \/ /\ Partial(d)
           /\ AsyncWriteSome(d.packet, SubSeq(d.buffer, d.n + 1, Len(d.buffer)), Tail(done))
           /\ failed' = failed
        \/ /\ ~Partial(d)
           /\ done' = Tail(done) /\ queue' = queue
           /\ failed' = IF d.error THEN failed \cup {d.packet} ELSE failed
  /\ UNCHANGED <<gui, up, session, sent, wire, crossed>>

GuiStep == PressSend \/ Write
Network == Transfer \/ Break \/ Connect \/ Disconnect

Next == GuiStep \/ Network \/ HandleWrite

Spec == Init /\ [][Next]_vars

\* The io thread runs; whether the socket takes bytes is left open.
FairSpec == Spec /\ WF_vars(HandleWrite)

-----------------------------------------------------------------------------
\* What is left of a packet of which w bytes have been written.
Rest(w) == [k \in 1..(Size - w) |-> w + k]
Buffer  == {Rest(w) : w \in 0..(Size - 1)}

\* Every variable keeps its type; an operation writes the rest of its packet.
TypeOK ==
  /\ gui \in {"idle", "write"} /\ up \in BOOLEAN
  /\ session \in 0..MaxSessions /\ sent \in 0..MaxPackets
  /\ queue \in Seq([packet : Packet, buffer : Buffer])
  /\ done \in Seq([packet : Packet, buffer : Buffer, n : 0..Size, error : BOOLEAN])
  /\ wire \in [Packet -> Seq([byte : 1..Size, session : Session])]
  /\ failed \subseteq Packet /\ crossed \subseteq Packet

-----------------------------------------------------------------------------
\* An operation or a completion of packet p is under way.
UnderWay(p) ==
  \/ \E i \in DOMAIN queue : queue[i].packet = p
  \/ \E i \in DOMAIN done : done[i].packet = p

(***************************************************************************)
(* Whatever the sends overlap with, the bytes of each packet leave in      *)
(* order and once, and a packet that is neither under way nor failed has   *)
(* left whole.                                                             *)
(***************************************************************************)
PacketInOrder ==
  \A p \in Packet :
    /\ \A k \in DOMAIN wire[p] : wire[p][k].byte = k
    /\ p <= sent /\ p \notin failed /\ ~UnderWay(p) => Len(wire[p]) = Size

(***************************************************************************)
(* A packet leaves within one session, except that the rest of a write     *)
(* completed in part before a disconnect follows in the next session.      *)
(***************************************************************************)
OneSession ==
  \A p \in Packet \ crossed : \A j, k \in DOMAIN wire[p] : wire[p][j].session = wire[p][k].session

(***************************************************************************)
(* A closed connection lets go of its buffers: handleWrite holds it        *)
(* through shared_from_this.                                               *)
(***************************************************************************)
WritesEnd == ~up ~> up \/ (queue = <<>> /\ done = <<>>)

Stream == INSTANCE PacketStream WITH
  offered  <- sent,
  out      <- [p \in Packet |-> [k \in DOMAIN wire[p] |-> wire[p][k].byte]],
  reported <- failed

(***************************************************************************)
(* Every step of the writer is one of the abstract stream or leaves it     *)
(* alone: handleWrite reports a packet only while bytes of it are missing, *)
(* and from then on nothing of it leaves, in this session or a later one.  *)
(***************************************************************************)
ImplementsPacketStream == Stream!Spec

-----------------------------------------------------------------------------
(***************************************************************************)
(* The inductive invariant behind the four: a packet is in one place at a *)
(* time, with just the bytes that have not left.                           *)
(***************************************************************************)

\* No packet has two operations or completions.
Single ==
  /\ \A i, j \in DOMAIN queue : queue[i].packet = queue[j].packet => i = j
  /\ \A i, j \in DOMAIN done : done[i].packet = done[j].packet => i = j
  /\ \A i \in DOMAIN queue, j \in DOMAIN done : queue[i].packet # done[j].packet

\* A buffer begins where the bytes that left end, or ended before the part of
\* them that its completion tells of; a packet that fails is not whole.
Rests ==
  /\ \A i \in DOMAIN queue :
       LET w == Len(wire[queue[i].packet]) IN w < Size /\ queue[i].buffer = Rest(w)
  /\ \A i \in DOMAIN done : ~done[i].error =>
       LET w == Len(wire[done[i].packet])
       IN  done[i].n \in 1..w /\ done[i].buffer = Rest(w - done[i].n)
  /\ \A i \in DOMAIN done : done[i].error => Len(wire[done[i].packet]) < Size

\* The packets sent so far, those that are not, and those that failed.
Written ==
  /\ \A p \in Packet : /\ Len(wire[p]) <= Size
                       /\ p > sent => wire[p] = <<>> /\ ~UnderWay(p)
  /\ \A p \in failed : p <= sent /\ ~UnderWay(p)
  /\ PacketInOrder
  /\ gui = "write" => sent < MaxPackets

\* More bytes of packet p will leave, unless a write of it fails.
Continues(p) ==
  \/ \E i \in DOMAIN queue : queue[i].packet = p
  \/ \E i \in DOMAIN done : done[i].packet = p /\ Partial(done[i])

\* What began in this session and continues does so in this session.
Sessions ==
  /\ up => session \in Session
  /\ ~up => queue = <<>>
  /\ OneSession
  /\ \A p \in Packet \ crossed :
       Continues(p) => up /\ \A k \in DOMAIN wire[p] : wire[p][k].session = session

IInv == Single /\ Rests /\ Written /\ Sessions
=============================================================================

------------------------- MODULE PacketWriterProofs -------------------------
(***************************************************************************)
(* Sending on a stream connection: the bytes of a packet leave in order,   *)
(* once, and in one session, as PacketStream promises, for any number of   *)
(* packets, bytes and sessions.                                            *)
(***************************************************************************)
EXTENDS PacketWriter, TLAPS

Op   == [packet : Packet, buffer : Buffer]
Done == [packet : Packet, buffer : Buffer, n : 0..Size, error : BOOLEAN]
Byte == [byte : 1..Size, session : Session]

-----------------------------------------------------------------------------
\* Sequences of anything: what the operators on them do, index by index.
LEMMA Appended ==
  ASSUME NEW S, NEW s \in Seq(S), NEW e \in S
  PROVE  /\ Append(s, e) \in Seq(S)
         /\ DOMAIN Append(s, e) = 1..(Len(s) + 1)
         /\ \A i \in 1..Len(s) : Append(s, e)[i] = s[i]
         /\ Append(s, e)[Len(s) + 1] = e
  OBVIOUS

LEMMA Tailed ==
  ASSUME NEW S, NEW s \in Seq(S), s # <<>>
  PROVE  /\ Tail(s) \in Seq(S)
         /\ Len(s) \in Nat \ {0} /\ Len(Tail(s)) = Len(s) - 1
         /\ DOMAIN Tail(s) = 1..(Len(s) - 1)
         /\ \A i \in 1..(Len(s) - 1) : Tail(s)[i] = s[i + 1]
         /\ Head(s) = s[1] /\ s[1] \in S
  OBVIOUS

LEMMA Joined ==
  ASSUME NEW S, NEW s \in Seq(S), NEW n \in Nat, NEW f, f \in [1..n -> S]
  PROVE  /\ s \o f \in Seq(S)
         /\ Len(s \o f) = Len(s) + n
         /\ DOMAIN (s \o f) = 1..(Len(s) + n)
         /\ \A i \in 1..Len(s) : (s \o f)[i] = s[i]
         /\ \A i \in 1..n : (s \o f)[Len(s) + i] = f[i]
<1>1. f \in Seq(S) /\ Len(f) = n
  OBVIOUS
<1> QED
  BY <1>1

\* What is left of a packet, and what is left of that.
LEMMA RestElements ==
  ASSUME NEW w \in 0..Size
  PROVE  /\ Rest(w) \in Seq(1..Size)
         /\ Len(Rest(w)) = Size - w
         /\ \A k \in 1..(Size - w) : Rest(w)[k] = w + k
<1>1. Size \in Nat /\ Size - w \in Nat
  BY WriterAssumption
<1>2. Rest(w) \in [1..(Size - w) -> 1..Size]
  BY <1>1 DEF Rest
<1> QED
  BY <1>1, <1>2 DEF Rest

LEMMA RestOfRest ==
  ASSUME NEW w \in 0..Size, NEW n \in 0..(Size - w)
  PROVE  SubSeq(Rest(w), n + 1, Len(Rest(w))) = Rest(w + n)
<1>1. Size \in Nat /\ w + n \in 0..Size /\ w \in Nat /\ n \in Nat
  BY WriterAssumption
<1>2. SubSeq(Rest(w), n + 1, Size - w) = [i \in 1..(Size - w - n) |-> Rest(w)[i + n]]
  BY <1>1, RestElements
<1>3. \A i \in 1..(Size - w - n) : Rest(w)[i + n] = (w + n) + i
  BY <1>1, RestElements
<1>4. Rest(w + n) = [i \in 1..(Size - w - n) |-> (w + n) + i]
  BY <1>1 DEF Rest
<1> QED
  BY <1>2, <1>3, <1>4, RestElements

\* A buffer is the rest of its packet; how much of it was written.
LEMMA BufferElements ==
  ASSUME NEW b \in Buffer
  PROVE  \E w \in 0..(Size - 1) : b = Rest(w) /\ Len(b) = Size - w
<1>1. PICK w \in 0..(Size - 1) : b = Rest(w)
  BY DEF Buffer
<1>2. w \in 0..Size
  BY WriterAssumption
<1> QED
  BY <1>1, <1>2, RestElements

\* All of a packet is a buffer.
LEMMA BytesIsRest == Bytes = Rest(0) /\ Bytes \in Buffer /\ Len(Bytes) = Size
<1>1. Bytes = Rest(0) /\ 0 \in 0..(Size - 1)
  BY WriterAssumption DEF Bytes, Rest
<1> QED
  BY <1>1, WriterAssumption, RestElements DEF Buffer

-----------------------------------------------------------------------------
\* What the socket does with a write: it lines up, or fails at once.
LEMMA AsyncWriteSomeStep ==
  ASSUME TypeOK, NEW p \in Packet, NEW b \in Buffer, NEW rest \in Seq(Done),
         AsyncWriteSome(p, b, rest)
  PROVE  /\ up => queue' = Append(queue, [packet |-> p, buffer |-> b]) /\ done' = rest
         /\ ~up => /\ queue' = queue
                   /\ done' = Append(rest, [packet |-> p, buffer |-> b, n |-> 0, error |-> TRUE])
         /\ queue' \in Seq(Op) /\ done' \in Seq(Done)
<1>1. [packet |-> p, buffer |-> b] \in Op
  BY DEF Op
<1>2. [packet |-> p, buffer |-> b, n |-> 0, error |-> TRUE] \in Done
  BY WriterAssumption DEF Done
<1>3. queue \in Seq(Op) /\ Append(queue, [packet |-> p, buffer |-> b]) \in Seq(Op)
  BY <1>1, Appended DEF TypeOK, Op
<1>4. Append(rest, [packet |-> p, buffer |-> b, n |-> 0, error |-> TRUE]) \in Seq(Done)
  BY <1>2, Appended
<1>5. CASE up /\ queue' = Append(queue, [packet |-> p, buffer |-> b]) /\ done' = rest
  BY <1>3, <1>5
<1>6. CASE /\ ~up /\ queue' = queue
           /\ done' = Append(rest, [packet |-> p, buffer |-> b, n |-> 0, error |-> TRUE])
  BY <1>3, <1>4, <1>6
<1> QED
  BY <1>5, <1>6 DEF AsyncWriteSome, Operation, Failed

\* The head of done: what handleWrite is told, and what it sends next.
LEMMA HandledFacts ==
  ASSUME TypeOK, Rests, done # <<>>, NEW d, d = Head(done)
  PROVE  /\ d = done[1] /\ 1 \in DOMAIN done /\ d \in Done
         /\ Len(wire[d.packet]) <= Size =>
              /\ Partial(d) =>
                   LET w == Len(wire[d.packet])
                       rest == SubSeq(d.buffer, d.n + 1, Len(d.buffer))
                   IN  w \in 0..(Size - 1) /\ rest = Rest(w) /\ rest \in Buffer
              /\ ~d.error /\ ~Partial(d) => Len(wire[d.packet]) = Size
<1>0. done \in Seq(Done)
  BY DEF TypeOK, Done
<1>1. d = done[1] /\ d \in Done /\ 1 \in DOMAIN done
  BY <1>0, Tailed
<1>2. d.packet \in Packet /\ d.buffer \in Buffer /\ d.n \in 0..Size /\ d.error \in BOOLEAN
  BY <1>1 DEF Done
<1> DEFINE w == Len(wire[d.packet])
<1>3. w \in Nat
  BY <1>2 DEF TypeOK
<1>4. ASSUME ~d.error
      PROVE  d.n \in 1..w /\ d.buffer = Rest(w - d.n)
  BY <1>1, <1>4 DEF Rests
<1>5. ASSUME ~d.error, w <= Size
      PROVE  w - d.n \in 0..Size /\ d.n \in 1..w /\ Len(d.buffer) = Size - (w - d.n)
  <2>1. w - d.n \in 0..Size
    BY <1>3, <1>4, <1>5, WriterAssumption
  <2> QED
    BY <1>4, <1>5, <2>1, RestElements
<1>6. ASSUME Partial(d), w <= Size
      PROVE  /\ w \in 0..(Size - 1)
             /\ SubSeq(d.buffer, d.n + 1, Len(d.buffer)) = Rest(w)
             /\ Rest(w) \in Buffer
  <2>1. ~d.error /\ d.n < Len(d.buffer)
    BY <1>6 DEF Partial
  <2>2. w \in 0..(Size - 1)
    BY <1>3, <1>5, <1>6, <2>1, WriterAssumption
  <2>3. SubSeq(Rest(w - d.n), d.n + 1, Len(Rest(w - d.n))) = Rest((w - d.n) + d.n)
    <3>1. d.n \in 0..(Size - (w - d.n))
      BY <1>3, <1>5, <1>6, <2>1, WriterAssumption
    <3> QED
      BY <1>5, <1>6, <2>1, <3>1, RestOfRest
  <2>4. (w - d.n) + d.n = w
    BY <1>3, <1>5, <1>6, <2>1
  <2> QED
    BY <1>4, <2>1, <2>2, <2>3, <2>4 DEF Buffer
<1>7. ASSUME ~d.error, ~Partial(d), w <= Size
      PROVE  w = Size
  BY <1>3, <1>5, <1>7, <1>2, WriterAssumption DEF Partial
<1> HIDE DEF w
<1> QED
  BY <1>1, <1>6, <1>7 DEF w

-----------------------------------------------------------------------------
\* Failed packets stay over.
LEMMA StaysOver ==
  ASSUME TypeOK, IInv, UNCHANGED <<sent, failed>>,
         \A q \in Packet : UnderWay(q)' => UnderWay(q)
  PROVE  \A q \in failed' : q <= sent' /\ ~UnderWay(q)'
  BY DEF TypeOK, IInv, Written

\* The types, spelled out.
LEMMA Types ==
  ASSUME TypeOK
  PROVE  /\ queue \in Seq(Op) /\ done \in Seq(Done)
         /\ Len(queue) \in Nat /\ DOMAIN queue = 1..Len(queue)
         /\ Len(done) \in Nat /\ DOMAIN done = 1..Len(done)
         /\ \A i \in DOMAIN queue : queue[i] \in Op
         /\ \A i \in DOMAIN done : done[i] \in Done
         /\ \A p \in Packet : /\ wire[p] \in Seq(Byte)
                              /\ Len(wire[p]) \in Nat /\ DOMAIN wire[p] = 1..Len(wire[p])
<1>1. queue \in Seq(Op) /\ done \in Seq(Done) /\ wire \in [Packet -> Seq(Byte)]
  BY DEF TypeOK, Op, Done, Byte
<1> QED
  BY <1>1

\* Where an operation that lines up, or one that is done, is seen.
LEMMA QueueGrows ==
  ASSUME TypeOK, NEW op \in Op, queue' = Append(queue, op), done' = done
  PROVE  /\ DOMAIN queue' = 1..(Len(queue) + 1)
         /\ \A i \in 1..Len(queue) : queue'[i] = queue[i]
         /\ queue'[Len(queue) + 1] = op
         /\ \A q \in Packet : UnderWay(q)' <=> UnderWay(q) \/ q = op.packet
         /\ \A q \in Packet : Continues(q)' <=> Continues(q) \/ q = op.packet
<1>1. /\ DOMAIN queue' = 1..(Len(queue) + 1)
      /\ \A i \in 1..Len(queue) : queue'[i] = queue[i]
      /\ queue'[Len(queue) + 1] = op
  BY Types, Appended
<1>2. DOMAIN queue = 1..Len(queue) /\ Len(queue) \in Nat
  BY Types
<1>3. \A q \in Packet : (\E i \in DOMAIN queue' : queue'[i].packet = q)
                        <=> (\E i \in DOMAIN queue : queue[i].packet = q) \/ q = op.packet
  BY <1>1, <1>2
<1> QED
  BY <1>1, <1>3 DEF UnderWay, Continues, Partial

LEMMA DoneGrows ==
  ASSUME TypeOK, NEW d \in Done, done' = Append(done, d)
  PROVE  /\ DOMAIN done' = 1..(Len(done) + 1)
         /\ \A i \in 1..Len(done) : done'[i] = done[i]
         /\ done'[Len(done) + 1] = d
         /\ \A q \in Packet : (\E i \in DOMAIN done' : done'[i].packet = q)
                              <=> (\E i \in DOMAIN done : done[i].packet = q) \/ q = d.packet
         /\ \A q \in Packet : (\E i \in DOMAIN done' : done'[i].packet = q /\ Partial(done'[i]))
                              <=> \/ \E i \in DOMAIN done : done[i].packet = q /\ Partial(done[i])
                                  \/ q = d.packet /\ Partial(d)
<1>1. /\ DOMAIN done' = 1..(Len(done) + 1)
      /\ \A i \in 1..Len(done) : done'[i] = done[i]
      /\ done'[Len(done) + 1] = d
  BY Types, Appended
<1>2. DOMAIN done = 1..Len(done) /\ Len(done) \in Nat
  BY Types
<1> QED
  BY <1>1, <1>2

\* write(): a new packet lines up whole, or fails at once.
LEMMA WriteStep ==
  ASSUME TypeOK, IInv, Write
  PROVE  TypeOK' /\ IInv'
<1> DEFINE p == sent + 1
<1>1. /\ p \in Packet /\ p > sent /\ sent \in 0..MaxPackets /\ p \in 0..MaxPackets
      /\ wire[p] = <<>> /\ ~UnderWay(p)
      /\ \A q \in failed : q \in Packet /\ q <= p /\ q # p /\ ~UnderWay(q)
  <2>1. p \in Packet /\ p > sent /\ p \in 0..MaxPackets /\ sent \in 0..MaxPackets
    BY WriterAssumption DEF Write, IInv, Written, TypeOK, Packet
  <2>2. \A q \in failed : q \in Nat /\ q \in Packet /\ q <= sent /\ ~UnderWay(q)
    BY DEF IInv, Written, TypeOK, Packet
  <2>3. \A q \in failed : q <= p /\ q # p
    BY <2>1, <2>2, WriterAssumption
  <2> QED
    BY <2>1, <2>2, <2>3 DEF IInv, Written, TypeOK
<1>2. /\ gui' = "idle" /\ sent' = p
      /\ UNCHANGED <<up, session, wire, failed, crossed>>
  BY DEF Write
<1>3. Bytes \in Buffer /\ Bytes = Rest(0) /\ done \in Seq(Done)
  BY BytesIsRest, Types
<1>4. AsyncWriteSome(p, Bytes, done)
  BY <1>2 DEF Write
<1>5. /\ up => queue' = Append(queue, [packet |-> p, buffer |-> Bytes]) /\ done' = done
      /\ ~up => /\ queue' = queue
                /\ done' = Append(done, [packet |-> p, buffer |-> Bytes, n |-> 0, error |-> TRUE])
      /\ queue' \in Seq(Op) /\ done' \in Seq(Done)
  BY <1>1, <1>3, <1>4, AsyncWriteSomeStep
<1>6. TypeOK'
  BY <1>1, <1>2, <1>5 DEF TypeOK, Op, Done
<1>7. ASSUME up PROVE IInv'
  <2> DEFINE op == [packet |-> p, buffer |-> Bytes]
  <2>1. op \in Op /\ op.packet = p /\ op.buffer = Rest(0) /\ queue' = Append(queue, op) /\ done' = done
    BY <1>1, <1>3, <1>5, <1>7 DEF Op
  <2> HIDE DEF op
  <2>2. /\ DOMAIN queue' = 1..(Len(queue) + 1)
        /\ \A i \in 1..Len(queue) : queue'[i] = queue[i]
        /\ queue'[Len(queue) + 1] = op
        /\ \A q \in Packet : UnderWay(q)' <=> UnderWay(q) \/ q = p
        /\ \A q \in Packet : Continues(q)' <=> Continues(q) \/ q = p
    BY <2>1, QueueGrows
  <2>3. Single'
    BY <1>1, <2>1, <2>2, Types DEF IInv, Single, UnderWay
  <2>4. Rests'
    BY <1>1, <1>2, <2>1, <2>2, Types, WriterAssumption DEF IInv, Rests
  <2>5. Written'
    <3>1. \A q \in failed' : q <= sent' /\ ~UnderWay(q)'
      BY <1>1, <1>2, <2>2
    <3> QED
      BY <1>1, <1>2, <2>2, <3>1 DEF IInv, Written, PacketInOrder, Packet
  <2>6. Sessions'
    BY <1>1, <1>2, <1>7, <2>2 DEF IInv, Sessions, OneSession
  <2> QED
    BY <2>3, <2>4, <2>5, <2>6 DEF IInv
<1>8. ASSUME ~up PROVE IInv'
  <2> DEFINE d == [packet |-> p, buffer |-> Bytes, n |-> 0, error |-> TRUE]
  <2>1. d \in Done /\ d.packet = p /\ d.error /\ queue' = queue /\ done' = Append(done, d)
    BY <1>1, <1>3, <1>5, <1>8, WriterAssumption DEF Done
  <2> HIDE DEF d
  <2>2. /\ DOMAIN done' = 1..(Len(done) + 1)
        /\ \A i \in 1..Len(done) : done'[i] = done[i]
        /\ done'[Len(done) + 1] = d
        /\ \A q \in Packet : UnderWay(q)' <=> UnderWay(q) \/ q = p
        /\ \A q \in Packet : Continues(q)' <=> Continues(q)
    BY <2>1, DoneGrows DEF UnderWay, Continues, Partial
  <2>3. Single'
    BY <1>1, <2>1, <2>2, Types DEF IInv, Single, UnderWay
  <2>4. Rests'
    BY <1>1, <1>2, <2>1, <2>2, Types, WriterAssumption DEF IInv, Rests
  <2>5. Written'
    <3>1. \A q \in failed' : q <= sent' /\ ~UnderWay(q)'
      BY <1>1, <1>2, <2>2
    <3> QED
      BY <1>1, <1>2, <2>2, <3>1 DEF IInv, Written, PacketInOrder, Packet
  <2>6. Sessions'
    BY <1>2, <1>8, <2>1, <2>2 DEF IInv, Sessions, OneSession
  <2> QED
    BY <2>3, <2>4, <2>5, <2>6 DEF IInv
<1> QED
  BY <1>6, <1>7, <1>8

\* The first operation leaves the queue.
LEMMA QueueShrinks ==
  ASSUME TypeOK, Single, queue # <<>>, queue' = Tail(queue)
  PROVE  /\ Head(queue) = queue[1] /\ 1 \in DOMAIN queue /\ queue[1] \in Op
         /\ queue' \in Seq(Op) /\ DOMAIN queue' = 1..(Len(queue) - 1)
         /\ \A i \in DOMAIN queue' : i + 1 \in DOMAIN queue /\ queue'[i] = queue[i + 1]
         /\ \A i \in DOMAIN queue' : queue'[i].packet # queue[1].packet
         /\ \A q \in Packet : (\E i \in DOMAIN queue' : queue'[i].packet = q)
                              <=> (\E i \in DOMAIN queue : queue[i].packet = q) /\ q # queue[1].packet
<1>1. /\ queue \in Seq(Op) /\ DOMAIN queue = 1..Len(queue) /\ Len(queue) \in Nat \ {0}
      /\ queue' \in Seq(Op) /\ DOMAIN queue' = 1..(Len(queue) - 1)
      /\ \A i \in 1..(Len(queue) - 1) : queue'[i] = queue[i + 1]
      /\ Head(queue) = queue[1] /\ queue[1] \in Op
  BY Types, Tailed
<1>2. \A i \in DOMAIN queue' : i + 1 \in DOMAIN queue /\ i + 1 # 1 /\ queue'[i] = queue[i + 1]
  BY <1>1
<1>3. \A i \in DOMAIN queue : i # 1 => i - 1 \in DOMAIN queue' /\ queue'[i - 1] = queue[i]
  BY <1>1
<1>4. \A i \in DOMAIN queue' : queue'[i].packet # queue[1].packet
  BY <1>1, <1>2 DEF Single
<1>5. 1 \in DOMAIN queue
  BY <1>1
<1>6. ASSUME NEW q \in Packet
      PROVE  (\E i \in DOMAIN queue' : queue'[i].packet = q)
             <=> (\E i \in DOMAIN queue : queue[i].packet = q) /\ q # queue[1].packet
  <2>1. ASSUME NEW i \in DOMAIN queue', queue'[i].packet = q
        PROVE  (\E j \in DOMAIN queue : queue[j].packet = q) /\ q # queue[1].packet
    BY <1>2, <1>4, <2>1
  <2>2. ASSUME NEW i \in DOMAIN queue, queue[i].packet = q, q # queue[1].packet
        PROVE  \E j \in DOMAIN queue' : queue'[j].packet = q
    BY <1>3, <2>2
  <2> QED
    BY <2>1, <2>2
<1> QED
  BY <1>1, <1>2, <1>4, <1>5, <1>6

\* The first completion leaves the io thread's queue.
LEMMA DoneShrinks ==
  ASSUME TypeOK, Single, done # <<>>
  PROVE  LET rest == Tail(done) IN
         /\ rest \in Seq(Done) /\ DOMAIN rest = 1..(Len(done) - 1) /\ Len(rest) = Len(done) - 1
         /\ \A i \in DOMAIN rest : i + 1 \in DOMAIN done /\ rest[i] = done[i + 1]
         /\ \A i \in DOMAIN rest : rest[i].packet # done[1].packet
         /\ \A q \in Packet : (\E i \in DOMAIN rest : rest[i].packet = q)
                              <=> (\E i \in DOMAIN done : done[i].packet = q) /\ q # done[1].packet
         /\ \A q \in Packet : (\E i \in DOMAIN rest : rest[i].packet = q /\ Partial(rest[i]))
                              <=> /\ \E i \in DOMAIN done : done[i].packet = q /\ Partial(done[i])
                                  /\ q # done[1].packet
<1> DEFINE rest == Tail(done)
<1>1. /\ done \in Seq(Done) /\ DOMAIN done = 1..Len(done) /\ Len(done) \in Nat \ {0}
      /\ rest \in Seq(Done) /\ DOMAIN rest = 1..(Len(done) - 1) /\ Len(rest) = Len(done) - 1
      /\ \A i \in 1..(Len(done) - 1) : rest[i] = done[i + 1]
  BY Types, Tailed
<1> HIDE DEF rest
<1>2. \A i \in DOMAIN rest : i + 1 \in DOMAIN done /\ i + 1 # 1 /\ rest[i] = done[i + 1]
  BY <1>1
<1>3. \A i \in DOMAIN done : i # 1 => i - 1 \in DOMAIN rest /\ rest[i - 1] = done[i]
  BY <1>1
<1>4. 1 \in DOMAIN done
  BY <1>1
<1>5. \A i \in DOMAIN rest : rest[i].packet # done[1].packet
  BY <1>2, <1>4 DEF Single
<1>6. \A q \in Packet : (\E i \in DOMAIN rest : rest[i].packet = q)
                        <=> (\E i \in DOMAIN done : done[i].packet = q) /\ q # done[1].packet
  BY <1>2, <1>3, <1>5
<1>7. \A q \in Packet : (\E i \in DOMAIN rest : rest[i].packet = q /\ Partial(rest[i]))
                        <=> /\ \E i \in DOMAIN done : done[i].packet = q /\ Partial(done[i])
                            /\ q # done[1].packet
  BY <1>2, <1>3, <1>5, <1>4 DEF Single
<1> QED
  BY <1>1, <1>2, <1>5, <1>6, <1>7 DEF rest

\* The first operation is done, with n bytes or with an error: what this changes
\* of where packets are.
LEMMA Moves ==
  ASSUME TypeOK, Single, queue # <<>>, queue' = Tail(queue),
         NEW d \in Done, d.packet = queue[1].packet, done' = Append(done, d)
  PROVE  /\ queue' \in Seq(Op) /\ done' \in Seq(Done)
         /\ Single'
         /\ \A q \in Packet : UnderWay(q)' <=> UnderWay(q)
         /\ \A q \in Packet : Continues(q)' => Continues(q)
         /\ Continues(d.packet)' => Partial(d)
<1>1. /\ 1 \in DOMAIN queue /\ queue' \in Seq(Op)
      /\ \A i \in DOMAIN queue' : i + 1 \in DOMAIN queue /\ queue'[i] = queue[i + 1]
      /\ \A i \in DOMAIN queue' : queue'[i].packet # queue[1].packet
      /\ \A q \in Packet : (\E i \in DOMAIN queue' : queue'[i].packet = q)
                           <=> (\E i \in DOMAIN queue : queue[i].packet = q) /\ q # queue[1].packet
      /\ DOMAIN queue' \subseteq Nat
  BY QueueShrinks
<1>2. done' \in Seq(Done)
  BY Types, Appended
<1>3. /\ DOMAIN done' = 1..(Len(done) + 1) /\ DOMAIN done = 1..Len(done) /\ Len(done) \in Nat
      /\ \A i \in 1..Len(done) : done'[i] = done[i]
      /\ done'[Len(done) + 1] = d
      /\ \A q \in Packet : (\E i \in DOMAIN done' : done'[i].packet = q)
                           <=> (\E i \in DOMAIN done : done[i].packet = q) \/ q = d.packet
      /\ \A q \in Packet : (\E i \in DOMAIN done' : done'[i].packet = q /\ Partial(done'[i]))
                           <=> \/ \E i \in DOMAIN done : done[i].packet = q /\ Partial(done[i])
                               \/ q = d.packet /\ Partial(d)
  BY DoneGrows, Types
<1>4. \A i \in DOMAIN done : done[i].packet # d.packet
  BY <1>1 DEF Single
<1>5. Single'
  <2>1. \A i, j \in DOMAIN queue' : queue'[i].packet = queue'[j].packet => i = j
    BY <1>1 DEF Single
  <2>2. \A i, j \in DOMAIN done' : done'[i].packet = done'[j].packet => i = j
    BY <1>3, <1>4 DEF Single
  <2>3. \A i \in DOMAIN queue', j \in DOMAIN done' : queue'[i].packet # done'[j].packet
    BY <1>1, <1>3 DEF Single
  <2> QED
    BY <2>1, <2>2, <2>3 DEF Single
<1>6. \A q \in Packet : UnderWay(q)' <=> UnderWay(q)
  BY <1>1, <1>3 DEF UnderWay
<1>7. \A q \in Packet : Continues(q)' => Continues(q)
  BY <1>1, <1>3 DEF Continues
<1>8. Continues(d.packet)' => Partial(d)
  <2>1. d.packet \in Packet
    BY DEF Done
  <2> QED
    BY <1>1, <1>3, <1>4, <2>1 DEF Continues
<1> QED
  BY <1>1, <1>2, <1>5, <1>6, <1>7, <1>8

\* The kernel takes a part of the first operation: the next bytes of its packet.
LEMMA TransferStep ==
  ASSUME TypeOK, IInv, Transfer
  PROVE  TypeOK' /\ IInv'
<1> DEFINE op == queue[1]
           p  == op.packet
           w  == Len(wire[p])
<1>1. /\ up /\ queue # <<>> /\ queue' = Tail(queue) /\ Head(queue) = op
      /\ UNCHANGED <<gui, up, session, sent, failed, crossed>>
      /\ 1 \in DOMAIN queue /\ op \in Op
  BY QueueShrinks DEF Transfer, IInv
<1>2. p \in Packet /\ op.buffer \in Buffer /\ wire[p] \in Seq(Byte) /\ w \in Nat /\ DOMAIN wire[p] = 1..w
  BY <1>1, Types DEF Op
<1>3. w \in 0..(Size - 1) /\ op.buffer = Rest(w) /\ session \in Session
  BY <1>1, <1>2, WriterAssumption DEF IInv, Rests, Sessions
<1>4. Len(op.buffer) = Size - w /\ \A k \in 1..(Size - w) : op.buffer[k] = w + k
  <2>1. w \in 0..Size
    BY <1>3, WriterAssumption
  <2> HIDE DEF w
  <2> QED
    BY <1>3, <2>1, RestElements
<1> DEFINE part(n) == [k \in 1..n |-> [byte |-> op.buffer[k], session |-> session]]
<1>5. PICK n \in 1..Len(op.buffer) :
        /\ wire' = [wire EXCEPT ![p] = @ \o part(n)]
        /\ done' = Append(done, Completed(op, n))
  BY <1>1 DEF Transfer
<1> DEFINE d == Completed(op, n)
<1>6. d \in Done /\ d.packet = p /\ d.buffer = op.buffer /\ d.n = n /\ ~d.error /\ n \in 1..(Size - w)
  <2>1. d = [packet |-> op.packet, buffer |-> op.buffer, n |-> n, error |-> FALSE]
    BY DEF Completed
  <2>2. n \in 1..(Size - w)
    BY <1>4, <1>5
  <2>3. n \in 0..Size
    BY <1>2, <2>2, WriterAssumption
  <2> QED
    BY <1>2, <2>1, <2>2, <2>3 DEF Done
<1>7. part(n) \in [1..n -> Byte]
  <2>1. \A k \in 1..n : op.buffer[k] \in 1..Size
    <3>1. w \in Nat /\ Size \in Nat /\ n \in 1..(Size - w)
      BY <1>2, <1>6, WriterAssumption
    <3>2. \A k \in 1..n : k \in 1..(Size - w) /\ w + k \in 1..Size
      BY <3>1
    <3> QED
      BY <1>4, <3>2
  <2> QED
    BY <1>3, <2>1 DEF Byte
<1>8. /\ wire'[p] \in Seq(Byte) /\ Len(wire'[p]) = w + n /\ DOMAIN wire'[p] = 1..(w + n)
      /\ \A k \in 1..w : wire'[p][k] = wire[p][k]
      /\ \A k \in 1..n : wire'[p][w + k] = [byte |-> w + k, session |-> session]
  <2>1. wire'[p] = wire[p] \o part(n)
    BY <1>2, <1>5 DEF TypeOK
  <2>2. n \in Nat
    BY <1>6
  <2>3. \A k \in 1..n : part(n)[k] = [byte |-> w + k, session |-> session]
    <3>1. \A k \in 1..n : k \in 1..(Size - w)
      BY <1>2, <1>6, <2>2, WriterAssumption
    <3>2. \A k \in 1..n : op.buffer[k] = w + k
      BY <1>4, <3>1
    <3> QED
      BY <3>2
  <2> HIDE DEF part, op, p, w
  <2>4. w = Len(wire[p])
    BY DEF w
  <2> QED
    BY <1>2, <1>7, <2>1, <2>2, <2>3, <2>4, Joined
<1>9. \A q \in Packet : q # p => wire'[q] = wire[q]
  BY <1>5 DEF TypeOK
<1>10. wire' \in [Packet -> Seq(Byte)]
  BY <1>2, <1>5, <1>8 DEF TypeOK, Byte
<1> HIDE DEF part, d
<1>11. /\ queue' \in Seq(Op) /\ done' \in Seq(Done) /\ Single'
       /\ \A q \in Packet : UnderWay(q)' <=> UnderWay(q)
       /\ \A q \in Packet : Continues(q)' => Continues(q)
  BY <1>1, <1>5, <1>6, Moves DEF IInv, d
<1>12. TypeOK'
  BY <1>1, <1>10, <1>11 DEF TypeOK, Op, Done, Byte
<1>13. /\ \A i \in DOMAIN queue' : /\ i + 1 \in DOMAIN queue /\ queue'[i] = queue[i + 1]
                                   /\ queue'[i].packet # p /\ queue'[i] \in Op
       /\ DOMAIN done' = 1..(Len(done) + 1) /\ DOMAIN done = 1..Len(done) /\ Len(done) \in Nat
       /\ \A i \in 1..Len(done) : done'[i] = done[i] /\ done[i] \in Done
       /\ done'[Len(done) + 1] = d
  BY <1>1, <1>5, <1>6, QueueShrinks, DoneGrows, Types DEF IInv, d
<1>14. \A i \in DOMAIN done : done[i].packet # p
  BY <1>1 DEF IInv, Single
<1>15. Rests'
  <2>1. \A i \in DOMAIN queue' :
          Len(wire'[queue'[i].packet]) < Size /\ queue'[i].buffer = Rest(Len(wire'[queue'[i].packet]))
    BY <1>9, <1>13 DEF IInv, Rests, Op
  <2>2. \A i \in DOMAIN done : ~done[i].error =>
          /\ done[i].n \in 1..Len(wire'[done[i].packet])
          /\ done[i].buffer = Rest(Len(wire'[done[i].packet]) - done[i].n)
    BY <1>9, <1>13, <1>14 DEF IInv, Rests, Done
  <2>4. \A i \in DOMAIN done : done[i].error => Len(wire'[done[i].packet]) < Size
    BY <1>9, <1>13, <1>14 DEF IInv, Rests, Done
  <2>3. d.n \in 1..Len(wire'[d.packet]) /\ d.buffer = Rest(Len(wire'[d.packet]) - d.n)
    <3>1. n \in 1..(w + n) /\ (w + n) - n = w
      BY <1>2, <1>6
    <3> QED
      BY <1>3, <1>6, <1>8, <3>1 DEF d
  <2>5. ~d.error
    BY <1>6
  <2>6. \A i \in DOMAIN done' : i \in DOMAIN done \/ i = Len(done) + 1
    BY <1>13
  <2>7. \A i \in DOMAIN done' : ~done'[i].error =>
          /\ done'[i].n \in 1..Len(wire'[done'[i].packet])
          /\ done'[i].buffer = Rest(Len(wire'[done'[i].packet]) - done'[i].n)
    BY <1>13, <2>2, <2>3, <2>6
  <2>8. \A i \in DOMAIN done' : done'[i].error => Len(wire'[done'[i].packet]) < Size
    BY <1>13, <2>4, <2>5, <2>6
  <2> HIDE DEF op, p, w
  <2> QED
    BY <2>1, <2>7, <2>8 DEF Rests
<1>16. UnderWay(p)
  BY <1>1 DEF UnderWay
<1>17. Written'
  <2>1. \A q \in Packet : Len(wire'[q]) <= Size /\ (q > sent => wire'[q] = <<>> /\ ~UnderWay(q)')
    <3>1. Len(wire'[p]) <= Size /\ p <= sent
      <4>1. Len(wire'[p]) = w + n /\ w + n <= Size
        BY <1>2, <1>6, <1>8, WriterAssumption
      <4>2. ~(p > sent)
        BY <1>2, <1>16 DEF IInv, Written
      <4>3. sent \in Nat /\ p \in Nat
        BY <1>2, WriterAssumption DEF TypeOK, Packet
      <4> HIDE DEF p, w
      <4> QED
        BY <4>1, <4>2, <4>3
    <3>2. p \in Nat /\ sent \in Nat
      BY <1>2, WriterAssumption DEF TypeOK, Packet
    <3>3. ASSUME NEW q \in Packet, q # p
          PROVE  Len(wire'[q]) <= Size /\ (q > sent => wire'[q] = <<>> /\ ~UnderWay(q)')
      BY <1>9, <1>11, <3>3 DEF IInv, Written
    <3> HIDE DEF op, p, w
    <3> QED
      BY <3>1, <3>2, <3>3
  <2>2. \A k \in DOMAIN wire'[p] : wire'[p][k].byte = k
    <3> SUFFICES ASSUME NEW k \in 1..(w + n) PROVE wire'[p][k].byte = k
      BY <1>8
    <3>1. CASE k \in 1..w
      BY <1>2, <1>8, <3>1 DEF IInv, Written, PacketInOrder
    <3>2. CASE k \notin 1..w
      <4>1. k - w \in 1..n /\ w + (k - w) = k
        <5>1. w \in Nat /\ n \in Nat
          BY <1>2, <1>6
        <5> HIDE DEF op, p, w
        <5> QED
          BY <3>2, <5>1
      <4>2. wire'[p][w + (k - w)] = [byte |-> w + (k - w), session |-> session]
        BY <1>8, <4>1
      <4> QED
        BY <4>1, <4>2
    <3> QED
      BY <3>1, <3>2
  <2>3. PacketInOrder'
    BY <1>1, <1>9, <1>11, <1>16, <2>2 DEF IInv, Written, PacketInOrder
  <2>4. \A q \in failed' : q <= sent' /\ ~UnderWay(q)'
    BY <1>1, <1>11, StaysOver
  <2> HIDE DEF op, p, w
  <2> QED
    BY <1>1, <2>1, <2>3, <2>4 DEF IInv, Written
<1>18. Sessions'
  <2>1. Continues(p) /\ (p \notin crossed => \A k \in DOMAIN wire[p] : wire[p][k].session = session)
    BY <1>1, <1>2 DEF IInv, Sessions, Continues
  <2>2. p \notin crossed => \A k \in DOMAIN wire'[p] : wire'[p][k].session = session
    <3> SUFFICES ASSUME p \notin crossed, NEW k \in 1..(w + n)
                 PROVE  wire'[p][k].session = session
      BY <1>8
    <3>1. CASE k \in 1..w
      BY <1>2, <1>8, <2>1, <3>1
    <3>2. CASE k \notin 1..w
      <4>1. k - w \in 1..n /\ w + (k - w) = k
        <5>1. w \in Nat /\ n \in Nat
          BY <1>2, <1>6
        <5> HIDE DEF op, p, w
        <5> QED
          BY <3>2, <5>1
      <4>2. wire'[p][w + (k - w)] = [byte |-> w + (k - w), session |-> session]
        BY <1>8, <4>1
      <4> QED
        BY <4>1, <4>2
    <3> QED
      BY <3>1, <3>2
  <2>3. OneSession'
    BY <1>1, <1>9, <2>2 DEF IInv, Sessions, OneSession
  <2>4. \A q \in Packet \ crossed :
          Continues(q)' => up /\ \A k \in DOMAIN wire'[q] : wire'[q][k].session = session
    <3> SUFFICES ASSUME NEW q \in Packet \ crossed, Continues(q)'
                 PROVE  \A k \in DOMAIN wire'[q] : wire'[q][k].session = session
      BY <1>1
    <3>1. CASE q = p
      BY <2>2, <3>1
    <3>2. CASE q # p
      <4>1. \A k \in DOMAIN wire[q] : wire[q][k].session = session
        BY <1>11 DEF IInv, Sessions
      <4> QED
        BY <1>9, <3>2, <4>1
    <3> QED
      BY <3>1, <3>2
  <2> HIDE DEF op, p, w
  <2> QED
    BY <1>1, <1>3, <2>3, <2>4 DEF Sessions
<1> QED
  BY <1>11, <1>12, <1>15, <1>17, <1>18 DEF IInv

\* A broken connection: the first operation fails, and its packet ends there.
LEMMA BreakStep ==
  ASSUME TypeOK, IInv, Break
  PROVE  TypeOK' /\ IInv'
<1> DEFINE op == queue[1]
           d  == Failed(op)
<1>1. /\ up /\ queue # <<>> /\ queue' = Tail(queue) /\ Head(queue) = op /\ done' = Append(done, d)
      /\ UNCHANGED <<gui, up, session, sent, wire, failed, crossed>>
      /\ 1 \in DOMAIN queue /\ op \in Op
      /\ \A i \in DOMAIN queue' : i + 1 \in DOMAIN queue /\ queue'[i] = queue[i + 1]
  BY QueueShrinks DEF Break, IInv
<1>2. d \in Done /\ d.packet = op.packet /\ d.error
  BY <1>1, WriterAssumption DEF Failed, Done, Op
<1> HIDE DEF d
<1>3. /\ queue' \in Seq(Op) /\ done' \in Seq(Done) /\ Single'
      /\ \A q \in Packet : UnderWay(q)' <=> UnderWay(q)
      /\ \A q \in Packet : Continues(q)' => Continues(q)
  BY <1>1, <1>2, Moves DEF IInv
<1>4. TypeOK'
  BY <1>1, <1>3 DEF TypeOK, Op, Done
<1>5. Rests'
  <2>1. /\ DOMAIN done' = 1..(Len(done) + 1) /\ DOMAIN done = 1..Len(done) /\ Len(done) \in Nat
        /\ \A i \in 1..Len(done) : done'[i] = done[i]
        /\ done'[Len(done) + 1] = d
    BY <1>1, <1>2, DoneGrows, Types
  <2> QED
    BY <1>1, <1>2, <2>1 DEF IInv, Rests
<1>6. Written'
  BY <1>1, <1>3, StaysOver DEF IInv, Written, PacketInOrder
<1>7. Sessions'
  BY <1>1, <1>3 DEF IInv, Sessions, OneSession
<1> QED
  BY <1>3, <1>4, <1>5, <1>6, <1>7 DEF IInv

\* disconnect(): every operation fails; a part not handled yet is crossed.
LEMMA DisconnectStep ==
  ASSUME TypeOK, IInv, Disconnect
  PROVE  TypeOK' /\ IInv'
<1> DEFINE f == [k \in 1..Len(queue) |-> Failed(queue[k])]
<1>1. /\ up' = FALSE /\ queue' = <<>> /\ done' = done \o f
      /\ UNCHANGED <<gui, session, sent, wire, failed>>
      /\ crossed' = crossed \cup {e.packet : e \in {e \in ToSet(done) : Partial(e)}}
  BY DEF Disconnect
<1>2. /\ \A k \in DOMAIN queue : /\ f[k] \in Done /\ f[k].packet = queue[k].packet
                                 /\ f[k].error /\ ~Partial(f[k])
      /\ f \in [1..Len(queue) -> Done]
  BY Types, WriterAssumption DEF Failed, Done, Op, Partial
<1> HIDE DEF f
<1>3. /\ done' \in Seq(Done) /\ DOMAIN done' = 1..(Len(done) + Len(queue))
      /\ Len(done) \in Nat /\ Len(queue) \in Nat
      /\ DOMAIN done = 1..Len(done) /\ DOMAIN queue = 1..Len(queue)
      /\ \A i \in 1..Len(done) : done'[i] = done[i]
      /\ \A i \in 1..Len(queue) : done'[Len(done) + i] = f[i]
  <2>1. /\ done \in Seq(Done) /\ Len(done) \in Nat /\ Len(queue) \in Nat
        /\ DOMAIN done = 1..Len(done) /\ DOMAIN queue = 1..Len(queue)
    BY Types
  <2>2. f \in [1..Len(queue) -> Done] /\ done' = done \o f
    BY <1>1, <1>2
  <2>3. /\ done \o f \in Seq(Done) /\ DOMAIN (done \o f) = 1..(Len(done) + Len(queue))
        /\ \A i \in 1..Len(done) : (done \o f)[i] = done[i]
        /\ \A i \in 1..Len(queue) : (done \o f)[Len(done) + i] = f[i]
    <3>1. f \in Seq(Done) /\ Len(f) = Len(queue)
      BY <2>1, <2>2
    <3> QED
      BY <2>1, <3>1
  <2> QED
    BY <2>1, <2>2, <2>3
<1>4. \A i \in DOMAIN done' : \/ i \in DOMAIN done /\ done'[i] = done[i]
                              \/ i - Len(done) \in DOMAIN queue /\ done'[i] = f[i - Len(done)]
  <2> SUFFICES ASSUME NEW i \in 1..(Len(done) + Len(queue)), i \notin DOMAIN done
               PROVE  i - Len(done) \in DOMAIN queue /\ done'[i] = f[i - Len(done)]
    BY <1>3
  <2>1. i - Len(done) \in 1..Len(queue) /\ Len(done) + (i - Len(done)) = i
    BY <1>3
  <2>2. done'[Len(done) + (i - Len(done))] = f[i - Len(done)]
    BY <1>3, <2>1
  <2> QED
    BY <1>3, <2>1, <2>2
<1>5. \A q \in Packet : UnderWay(q)' <=> UnderWay(q)
  <2>1. ASSUME NEW q \in Packet, UnderWay(q)' PROVE UnderWay(q)
    <3>1. DOMAIN queue' = {}
      BY <1>1
    <3>2. PICK i \in DOMAIN done' : done'[i].packet = q
      BY <2>1, <3>1 DEF UnderWay
    <3> QED
      BY <1>2, <1>4, <3>2 DEF UnderWay
  <2>2. ASSUME NEW q \in Packet, UnderWay(q) PROVE UnderWay(q)'
    <3>1. CASE \E i \in DOMAIN done : done[i].packet = q
      BY <1>3, <3>1 DEF UnderWay
    <3>2. CASE \E i \in DOMAIN queue : queue[i].packet = q
      <4>1. PICK i \in DOMAIN queue : queue[i].packet = q
        BY <3>2
      <4>2. Len(done) + i \in DOMAIN done' /\ done'[Len(done) + i].packet = q
        BY <1>2, <1>3, <4>1
      <4> QED
        BY <4>2 DEF UnderWay
    <3> QED
      BY <2>2, <3>1, <3>2 DEF UnderWay
  <2> QED
    BY <2>1, <2>2
<1>6. \A q \in Packet : Continues(q)' => q \in crossed'
  <2> SUFFICES ASSUME NEW q \in Packet, Continues(q)' PROVE q \in crossed'
    OBVIOUS
  <2>1. PICK i \in DOMAIN done' : done'[i].packet = q /\ Partial(done'[i])
    BY <1>1 DEF Continues
  <2>2. i \in DOMAIN done /\ done'[i] = done[i]
    BY <1>2, <1>4, <2>1
  <2>3. done[i] \in ToSet(done)
    BY <2>2 DEF ToSet
  <2> QED
    BY <1>1, <2>1, <2>2, <2>3
<1>7. TypeOK'
  <2>1. \A e \in ToSet(done) : e.packet \in Packet
    BY Types DEF ToSet, Done
  <2>2. crossed' \subseteq Packet
    BY <1>1, <2>1 DEF TypeOK
  <2>3. queue' \in Seq(Op)
    BY <1>1
  <2> QED
    BY <1>1, <1>3, <2>2, <2>3 DEF TypeOK, Op, Done
<1>8. Single'
  <2>1. \A i, j \in DOMAIN done' : done'[i].packet = done'[j].packet => i = j
    <3> SUFFICES ASSUME NEW i \in DOMAIN done', NEW j \in DOMAIN done',
                        done'[i].packet = done'[j].packet
                 PROVE  i = j
      OBVIOUS
    <3>1. CASE i \in DOMAIN done /\ j \in DOMAIN done
      BY <1>3, <3>1 DEF IInv, Single
    <3>2. CASE i \notin DOMAIN done /\ j \notin DOMAIN done
      <4>1. i - Len(done) = j - Len(done)
        BY <1>2, <1>4, <3>2 DEF IInv, Single
      <4> QED
        BY <1>3, <4>1
    <3>3. CASE i \in DOMAIN done /\ j \notin DOMAIN done
      BY <1>2, <1>3, <1>4, <3>3 DEF IInv, Single
    <3>4. CASE i \notin DOMAIN done /\ j \in DOMAIN done
      BY <1>2, <1>3, <1>4, <3>4 DEF IInv, Single
    <3> QED
      BY <3>1, <3>2, <3>3, <3>4
  <2> QED
    BY <1>1, <2>1 DEF Single
<1>9. Rests'
  <2>1. DOMAIN queue' = {} /\ wire' = wire
    BY <1>1
  <2>2. \A i \in DOMAIN done' : ~done'[i].error =>
          /\ done'[i].n \in 1..Len(wire[done'[i].packet])
          /\ done'[i].buffer = Rest(Len(wire[done'[i].packet]) - done'[i].n)
    BY <1>2, <1>4 DEF IInv, Rests
  <2>3. \A i \in DOMAIN done' : done'[i].error => Len(wire[done'[i].packet]) < Size
    BY <1>2, <1>4 DEF IInv, Rests
  <2> QED
    BY <2>1, <2>2, <2>3 DEF Rests
<1>10. Written'
  BY <1>1, <1>5, StaysOver DEF IInv, Written, PacketInOrder
<1>11. Sessions'
  BY <1>1, <1>6 DEF IInv, Sessions, OneSession
<1> QED
  BY <1>7, <1>8, <1>9, <1>10, <1>11 DEF IInv

\* handleWrite: the rest of a part written lines up, or fails; anything else ends
\* the packet.
LEMMA HandleWriteStep ==
  ASSUME TypeOK, IInv, HandleWrite
  PROVE  TypeOK' /\ IInv'
<1> DEFINE d == done[1]
           p == d.packet
           w == Len(wire[p])
           rest == SubSeq(d.buffer, d.n + 1, Len(d.buffer))
           left == Tail(done)
<1>1. done # <<>> /\ Head(done) = d /\ UNCHANGED <<gui, up, session, sent, wire, crossed>>
  BY Tailed, Types DEF HandleWrite
<1>2. /\ 1 \in DOMAIN done /\ d \in Done /\ p \in Packet /\ w \in Nat /\ w <= Size
      /\ Partial(d) => w \in 0..(Size - 1) /\ rest = Rest(w) /\ rest \in Buffer
      /\ ~d.error /\ ~Partial(d) => w = Size
  <2>1. d = done[1] /\ 1 \in DOMAIN done /\ d \in Done
    BY <1>1, HandledFacts DEF IInv
  <2>2. p \in Packet
    BY <2>1 DEF Done
  <2>3. w \in Nat /\ w <= Size
    BY <2>2, Types DEF IInv, Written
  <2> QED
    BY <1>1, <2>1, <2>2, <2>3, HandledFacts DEF IInv
<1>3. /\ left \in Seq(Done) /\ DOMAIN left = 1..(Len(done) - 1) /\ Len(left) = Len(done) - 1
      /\ \A i \in DOMAIN left : i + 1 \in DOMAIN done /\ left[i] = done[i + 1]
      /\ \A i \in DOMAIN left : left[i].packet # p
      /\ \A q \in Packet : (\E i \in DOMAIN left : left[i].packet = q)
                           <=> (\E i \in DOMAIN done : done[i].packet = q) /\ q # p
      /\ \A q \in Packet : (\E i \in DOMAIN left : left[i].packet = q /\ Partial(left[i]))
                           <=> (\E i \in DOMAIN done : done[i].packet = q /\ Partial(done[i])) /\ q # p
  BY <1>1, DoneShrinks DEF IInv
<1>4. /\ DOMAIN queue = 1..Len(queue) /\ Len(queue) \in Nat /\ Len(done) \in Nat \ {0}
      /\ \A i \in DOMAIN queue : queue[i].packet # p
  BY <1>1, <1>2, Types DEF IInv, Single
<1> HIDE DEF left, rest
<1>5. CASE Partial(d) /\ up
  <2> DEFINE op == [packet |-> p, buffer |-> rest]
  <2>1. /\ queue' = Append(queue, op) /\ done' = left /\ failed' = failed
        /\ queue' \in Seq(Op) /\ done' \in Seq(Done)
    <3>1. AsyncWriteSome(p, rest, left) /\ failed' = failed
      BY <1>1, <1>5 DEF HandleWrite, rest, left
    <3>2. p \in Packet /\ rest \in Buffer /\ left \in Seq(Done)
      BY <1>2, <1>3, <1>5
    <3> HIDE DEF d, p
    <3> QED
      BY <1>5, <3>1, <3>2, AsyncWriteSomeStep
  <2>2. op \in Op /\ op.packet = p /\ op.buffer = Rest(w)
    BY <1>2, <1>5 DEF Op
  <2> HIDE DEF op
  <2>3. /\ DOMAIN queue' = 1..(Len(queue) + 1)
        /\ \A i \in 1..Len(queue) : queue'[i] = queue[i]
        /\ queue'[Len(queue) + 1] = op
    BY <2>1, <2>2, Appended, Types
  <2>4. /\ \A q \in Packet : UnderWay(q)' <=> UnderWay(q)
        /\ \A q \in Packet : Continues(q)' => Continues(q)
    <3>1. \A q \in Packet : (\E i \in DOMAIN queue' : queue'[i].packet = q)
                            <=> (\E i \in DOMAIN queue : queue[i].packet = q) \/ q = p
      BY <1>4, <2>2, <2>3
    <3>2. (\E i \in DOMAIN done : done[i].packet = p) /\ (\E i \in DOMAIN done : done[i].packet = p /\ Partial(done[i]))
      BY <1>2, <1>5
    <3>3. ASSUME NEW q \in Packet PROVE UnderWay(q)' <=> UnderWay(q)
      <4>1. UnderWay(q)' <=> \/ \E i \in DOMAIN queue' : queue'[i].packet = q
                             \/ \E i \in DOMAIN left : left[i].packet = q
        BY <2>1 DEF UnderWay
      <4> HIDE DEF d, p
      <4> QED
        BY <1>3, <3>1, <3>2, <4>1 DEF UnderWay
    <3>4. ASSUME NEW q \in Packet, Continues(q)' PROVE Continues(q)
      <4>1. \/ \E i \in DOMAIN queue' : queue'[i].packet = q
            \/ \E i \in DOMAIN left : left[i].packet = q /\ Partial(left[i])
        BY <2>1, <3>4 DEF Continues
      <4> QED
        BY <1>3, <3>1, <3>2, <4>1 DEF Continues
    <3> QED
      BY <3>3, <3>4
  <2>5. TypeOK'
    BY <1>1, <2>1 DEF TypeOK, Op, Done
  <2>6. Single'
    BY <1>3, <1>4, <2>1, <2>2, <2>3 DEF IInv, Single
  <2>7. Rests'
    <3>1. \A i \in DOMAIN queue : Len(wire[queue[i].packet]) < Size /\ queue[i].buffer = Rest(Len(wire[queue[i].packet]))
      BY DEF IInv, Rests
    <3>2. w < Size
      BY <1>2, <1>5, WriterAssumption
    <3>3. \A i \in DOMAIN queue' :
            Len(wire[queue'[i].packet]) < Size /\ queue'[i].buffer = Rest(Len(wire[queue'[i].packet]))
      <4> SUFFICES ASSUME NEW i \in DOMAIN queue'
                   PROVE  Len(wire[queue'[i].packet]) < Size /\ queue'[i].buffer = Rest(Len(wire[queue'[i].packet]))
        OBVIOUS
      <4>1. CASE i \in DOMAIN queue
        BY <1>4, <2>3, <3>1, <4>1
      <4>2. CASE i = Len(queue) + 1
        BY <2>2, <2>3, <3>2, <4>2
      <4> QED
        BY <1>4, <2>3, <4>1, <4>2
    <3>4. \A i \in DOMAIN left : ~left[i].error =>
            /\ left[i].n \in 1..Len(wire[left[i].packet])
            /\ left[i].buffer = Rest(Len(wire[left[i].packet]) - left[i].n)
      BY <1>3 DEF IInv, Rests
    <3>5. \A i \in DOMAIN left : left[i].error => Len(wire[left[i].packet]) < Size
      BY <1>3 DEF IInv, Rests
    <3> QED
      BY <1>1, <2>1, <3>3, <3>4, <3>5 DEF Rests
  <2>8. Written'
    BY <1>1, <2>1, <2>4, StaysOver DEF IInv, Written, PacketInOrder
  <2>9. Sessions'
    BY <1>1, <1>5, <2>4 DEF IInv, Sessions, OneSession
  <2> QED
    BY <2>5, <2>6, <2>7, <2>8, <2>9 DEF IInv
<1>6. CASE Partial(d) /\ ~up
  <2> DEFINE c == [packet |-> p, buffer |-> rest, n |-> 0, error |-> TRUE]
  <2>1. /\ queue' = queue /\ done' = Append(left, c) /\ failed' = failed
        /\ queue' \in Seq(Op) /\ done' \in Seq(Done)
    <3>1. AsyncWriteSome(p, rest, left) /\ failed' = failed
      BY <1>1, <1>6 DEF HandleWrite, rest, left
    <3>2. p \in Packet /\ rest \in Buffer /\ left \in Seq(Done)
      BY <1>2, <1>3, <1>6
    <3> HIDE DEF d, p
    <3> QED
      BY <1>6, <3>1, <3>2, AsyncWriteSomeStep
  <2>2. c \in Done /\ c.packet = p /\ c.error /\ ~Partial(c)
    BY <1>2, <1>6, WriterAssumption DEF Done, Partial
  <2> HIDE DEF c
  <2>3. /\ DOMAIN done' = 1..Len(done)
        /\ \A i \in DOMAIN left : done'[i] = left[i]
        /\ done'[Len(done)] = c
    BY <1>3, <1>4, <2>1, <2>2, Appended
  <2>4. \A i \in DOMAIN done' : (i \in DOMAIN left /\ done'[i] = left[i]) \/ (i = Len(done) /\ done'[i] = c)
    BY <1>3, <1>4, <2>3
  <2>5. /\ \A q \in Packet : UnderWay(q)' <=> UnderWay(q)
        /\ \A q \in Packet : Continues(q)' => Continues(q)
    <3>1. Len(done) \in DOMAIN done' /\ DOMAIN left \subseteq DOMAIN done'
      BY <1>3, <1>4, <2>3
    <3>2. \A q \in Packet : (\E i \in DOMAIN done' : done'[i].packet = q)
                            <=> (\E i \in DOMAIN left : left[i].packet = q) \/ q = p
      BY <2>2, <2>3, <2>4, <3>1
    <3>3. \A q \in Packet : (\E i \in DOMAIN done' : done'[i].packet = q /\ Partial(done'[i]))
                            => \E i \in DOMAIN left : left[i].packet = q /\ Partial(left[i])
      BY <2>2, <2>4
    <3>4. \A q \in Packet : UnderWay(q)' <=> UnderWay(q)
      BY <1>2, <1>3, <2>1, <3>2 DEF UnderWay
    <3>5. \A q \in Packet : Continues(q)' => Continues(q)
      BY <1>3, <2>1, <3>3 DEF Continues
    <3> QED
      BY <3>4, <3>5
  <2>6. TypeOK'
    BY <1>1, <2>1 DEF TypeOK, Op, Done
  <2>7. Single'
    <3>1. \A i, j \in DOMAIN left : left[i].packet = left[j].packet => i = j
      BY <1>3, <1>4 DEF IInv, Single
    <3>2. \A i \in DOMAIN queue, j \in DOMAIN left : queue[i].packet # left[j].packet
      BY <1>3 DEF IInv, Single
    <3> QED
      BY <1>3, <1>4, <2>1, <2>2, <2>4, <3>1, <3>2 DEF IInv, Single
  <2>8. Rests'
    <3>1. \A i \in DOMAIN left : ~left[i].error =>
            /\ left[i].n \in 1..Len(wire[left[i].packet])
            /\ left[i].buffer = Rest(Len(wire[left[i].packet]) - left[i].n)
      BY <1>3 DEF IInv, Rests
    <3>2. \A i \in DOMAIN left : left[i].error => Len(wire[left[i].packet]) < Size
      BY <1>3 DEF IInv, Rests
    <3>3. Len(wire[c.packet]) < Size
      BY <1>2, <1>6, <2>2, WriterAssumption
    <3>4. \A i \in DOMAIN done' : ~done'[i].error =>
            /\ done'[i].n \in 1..Len(wire[done'[i].packet])
            /\ done'[i].buffer = Rest(Len(wire[done'[i].packet]) - done'[i].n)
      BY <2>2, <2>4, <3>1
    <3>5. \A i \in DOMAIN done' : done'[i].error => Len(wire[done'[i].packet]) < Size
      BY <2>4, <3>2, <3>3
    <3> QED
      BY <1>1, <2>1, <3>4, <3>5 DEF IInv, Rests
  <2>9. Written'
    BY <1>1, <2>1, <2>5, StaysOver DEF IInv, Written, PacketInOrder
  <2>10. Sessions'
    BY <1>1, <1>6, <2>1, <2>5 DEF IInv, Sessions, OneSession
  <2> QED
    BY <2>6, <2>7, <2>8, <2>9, <2>10 DEF IInv
<1>7. CASE ~Partial(d)
  <2>1. /\ queue' = queue /\ done' = left
        /\ failed' = IF d.error THEN failed \cup {p} ELSE failed
    BY <1>1, <1>7 DEF HandleWrite, left
  <2>2. /\ \A q \in Packet : UnderWay(q)' <=> UnderWay(q) /\ q # p
        /\ \A q \in Packet : Continues(q)' => Continues(q)
    BY <1>3, <1>4, <2>1 DEF UnderWay, Continues
  <2>3. TypeOK'
    BY <1>1, <1>2, <1>3, <2>1 DEF TypeOK, Op, Done
  <2>4. Single'
    BY <1>3, <1>4, <2>1 DEF IInv, Single
  <2>5. Rests'
    BY <1>1, <1>3, <2>1 DEF IInv, Rests
  <2>6. d.error => p \in failed'
    BY <2>1
  <2>7. failed \subseteq failed'
    BY <2>1
  <2>8. Written'
    <3>1. \A q \in failed' : q <= sent' /\ ~UnderWay(q)'
      <4>1. UnderWay(p) /\ p \in Nat /\ sent \in Nat
        BY <1>2, WriterAssumption DEF UnderWay, TypeOK, Packet
      <4>2. p <= sent
        BY <1>2, <4>1 DEF IInv, Written
      <4>3. \A q \in failed' : q \in failed \/ q = p
        BY <2>1
      <4>4. \A q \in failed : q \in Packet /\ q <= sent /\ ~UnderWay(q)
        BY DEF TypeOK, IInv, Written
      <4> HIDE DEF p, d
      <4> QED
        BY <1>1, <1>2, <2>2, <4>2, <4>3, <4>4
    <3> QED
      BY <1>1, <1>2, <1>7, <2>2, <2>6, <2>7, <3>1 DEF IInv, Written, PacketInOrder
  <2>9. Sessions'
    BY <1>1, <2>1, <2>2 DEF IInv, Sessions, OneSession
  <2> QED
    BY <2>3, <2>4, <2>5, <2>8, <2>9 DEF IInv
<1> QED
  BY <1>5, <1>6, <1>7

-----------------------------------------------------------------------------
LEMMA Inductive == Spec => [](TypeOK /\ IInv)
<1>1. Init => TypeOK /\ IInv
  <2> SUFFICES ASSUME Init PROVE TypeOK /\ IInv
    OBVIOUS
  <2>1. TypeOK
    <3>1. up \in BOOLEAN /\ gui \in {"idle", "write"}
      BY DEF Init
    <3>3. session \in 0..MaxSessions /\ sent \in 0..MaxPackets
      BY WriterAssumption DEF Init
    <3>2. /\ queue \in Seq(Op) /\ done \in Seq(Done)
          /\ wire \in [Packet -> Seq(Byte)] /\ failed \subseteq Packet /\ crossed \subseteq Packet
      BY DEF Init
    <3> QED
      BY <3>1, <3>2, <3>3 DEF TypeOK, Op, Done, Byte
  <2>2. DOMAIN queue = {} /\ DOMAIN done = {}
    BY DEF Init
  <2>3. Single /\ Rests
    BY <2>2 DEF Single, Rests
  <2>4. Written
    BY <2>2, WriterAssumption DEF Init, Written, PacketInOrder, UnderWay, Packet
  <2>5. Sessions
    BY <2>2 DEF Init, Sessions, OneSession, Continues
  <2> QED
    BY <2>1, <2>3, <2>4, <2>5 DEF IInv
<1>2. TypeOK /\ IInv /\ [Next]_vars => TypeOK' /\ IInv'
  <2> SUFFICES ASSUME TypeOK, IInv, [Next]_vars PROVE TypeOK' /\ IInv'
    OBVIOUS
  <2>1. CASE PressSend \/ Connect \/ UNCHANGED vars
    <3>1. UNCHANGED <<queue, done, wire, failed, sent, crossed>>
      BY <2>1 DEF PressSend, Connect, vars
    <3>2. TypeOK' /\ (gui' = "write" => sent < MaxPackets)
      <4>1. up' \in BOOLEAN
        BY <2>1 DEF TypeOK, PressSend, Connect, vars
      <4>2. session' \in 0..MaxSessions
        <5>1. session \in 0..MaxSessions
          BY DEF TypeOK
        <5> QED
          BY <2>1, <5>1, WriterAssumption DEF PressSend, Connect, vars
      <4>3. gui' \in {"idle", "write"}
        BY <2>1 DEF TypeOK, PressSend, Connect, vars
      <4>4. gui' = "write" => sent < MaxPackets
        BY <2>1 DEF IInv, Written, PressSend, Connect, vars
      <4> QED
        BY <3>1, <4>1, <4>2, <4>3, <4>4 DEF TypeOK
    <3>3. Single' /\ Rests' /\ Written'
      BY <3>1, <3>2 DEF IInv, Single, Rests, Written, PacketInOrder, UnderWay
    <3>4. (up' => session' \in Session) /\ (~up' => queue' = <<>>)
      BY <2>1, WriterAssumption DEF TypeOK, IInv, Sessions, PressSend, Connect, vars, Session
    <3>5. Sessions'
      BY <2>1, <3>1, <3>4 DEF IInv, Sessions, OneSession, Continues, PressSend, Connect, vars
    <3> QED
      BY <3>2, <3>3, <3>5 DEF IInv
  <2> QED
    BY <2>1, WriteStep, TransferStep, BreakStep, DisconnectStep, HandleWriteStep
    DEF Next, GuiStep, Network
<1> QED
  BY <1>1, <1>2, PTL DEF Spec

\* Every variable keeps its type; an operation writes the rest of its packet.
THEOREM TypeCorrect == Spec => []TypeOK
  BY Inductive, PTL

\* handleWrite: whatever the sends overlap with, the bytes of each packet leave in
\* order and once, and a packet neither under way nor failed has left whole.
THEOREM PacketInOrderHolds == Spec => []PacketInOrder
<1>1. IInv => PacketInOrder
  BY DEF IInv, Written
<1> QED
  BY <1>1, Inductive, PTL

\* A packet leaves within one session, unless disconnect() came between a partial
\* write and its handler.
THEOREM OneSessionHolds == Spec => []OneSession
<1>1. IInv => OneSession
  BY DEF IInv, Sessions
<1> QED
  BY <1>1, Inductive, PTL

-----------------------------------------------------------------------------
\* What left of the packets, as the abstract stream sees it.
Out == [p \in Packet |-> [k \in DOMAIN wire[p] |-> wire[p][k].byte]]

\* The bytes that left of a packet are a beginning of it.
LEMMA OutIsPrefix ==
  ASSUME TypeOK, IInv
  PROVE  \A p \in Packet : Out[p] = Stream!Prefix(Len(wire[p])) /\ Len(Out[p]) = Len(wire[p])
<1> SUFFICES ASSUME NEW p \in Packet
             PROVE  Out[p] = Stream!Prefix(Len(wire[p])) /\ Len(Out[p]) = Len(wire[p])
  OBVIOUS
<1>1. DOMAIN wire[p] = 1..Len(wire[p]) /\ Len(wire[p]) \in Nat
  BY Types
<1>2. \A k \in DOMAIN wire[p] : wire[p][k].byte = k
  BY DEF IInv, Written, PacketInOrder
<1>3. Out[p] = [k \in 1..Len(wire[p]) |-> k]
  BY <1>1, <1>2 DEF Out
<1>4. Len([k \in 1..Len(wire[p]) |-> k]) = Len(wire[p])
  BY <1>1
<1> QED
  BY <1>3, <1>4 DEF Stream!Prefix

\* A packet under way has been sent, and has not failed.
LEMMA UnderWayIsOpen ==
  ASSUME TypeOK, IInv, NEW p \in Packet, UnderWay(p)
  PROVE  p <= sent /\ p \notin failed
<1>1. p \in Nat /\ sent \in Nat
  BY WriterAssumption DEF TypeOK, Packet
<1> QED
  BY <1>1 DEF IInv, Written

\* The socket takes a part: more of one unfinished packet leaves.
LEMMA TransferEmits ==
  ASSUME TypeOK, IInv, Transfer
  PROVE  \E p \in Packet : Stream!Emit(p)
<1>0. PICK p \in Packet : p = queue[1].packet
  BY QueueShrinks DEF Transfer, IInv, Op
<1>1. /\ Head(queue) = queue[1] /\ 1 \in DOMAIN queue /\ queue[1].buffer \in Buffer
      /\ UNCHANGED <<sent, failed>>
  BY QueueShrinks DEF Transfer, IInv, Op
<1>2. TypeOK' /\ IInv'
  BY TransferStep
<1>3. p <= sent /\ p \notin failed /\ Len(wire[p]) < Size
  BY <1>0, <1>1, UnderWayIsOpen DEF UnderWay, IInv, Rests
<1>4. wire[p] \in Seq(Byte) /\ Len(wire[p]) \in Nat
  BY Types
<1> DEFINE bytes(n) == [k \in 1..n |-> [byte |-> queue[1].buffer[k], session |-> session]]
<1>5. PICK n \in 1..Len(queue[1].buffer) : wire' = [wire EXCEPT ![p] = @ \o bytes(n)]
  <2>1. PICK n \in 1..Len(queue[1].buffer) :
          wire' = [wire EXCEPT ![queue[1].packet] = @ \o bytes(n)]
    BY <1>1 DEF Transfer
  <2> HIDE DEF bytes
  <2> QED
    BY <1>0, <2>1
<1>6. n \in Nat \ {0}
  <2>1. Len(queue[1].buffer) \in Nat
    BY <1>1, BufferElements
  <2> QED
    BY <2>1
<1>7. /\ \A q \in Packet : q # p => wire'[q] = wire[q]
      /\ Len(wire'[p]) = Len(wire[p]) + n
  <2>1. wire'[p] = wire[p] \o bytes(n)
    BY <1>1, <1>5 DEF TypeOK
  <2>2. Len(bytes(n)) = n /\ DOMAIN bytes(n) = 1..n
    BY <1>6
  <2>3. bytes(n) \in Seq({bytes(n)[k] : k \in 1..n})
    BY <1>6, <2>2
  <2>4. Len(wire[p] \o bytes(n)) = Len(wire[p]) + n
    <3> HIDE DEF bytes
    <3>1. \A u, v : u \in Seq(Byte) /\ v \in Seq({bytes(n)[k] : k \in 1..n})
                     => Len(u \o v) = Len(u) + Len(v)
      OBVIOUS
    <3> QED
      BY <1>4, <2>2, <2>3, <3>1
  <2> QED
    BY <1>1, <1>5, <2>1, <2>4 DEF TypeOK
<1> HIDE DEF bytes
<1> DEFINE m == Len(wire'[p])
<1>8. m \in (Len(Out[p]) + 1)..Size
  <2>1. m <= Size /\ m \in Nat
    BY <1>1, <1>2, <1>4, <1>6, <1>7 DEF IInv, Written
  <2> QED
    BY <1>1, <1>4, <1>6, <1>7, <2>1, OutIsPrefix, WriterAssumption
<1>9. Out' = [Out EXCEPT ![p] = Stream!Prefix(m)]
  <2>1. Out'[p] = Stream!Prefix(m)
    <3>1. DOMAIN wire'[p] = 1..m
      BY <1>1, <1>2 DEF TypeOK
    <3>2. \A k \in DOMAIN wire'[p] : wire'[p][k].byte = k
      BY <1>1, <1>2 DEF IInv, Written, PacketInOrder
    <3>3. Out'[p] = [k \in DOMAIN wire'[p] |-> wire'[p][k].byte]
      BY <1>1 DEF Out
    <3> HIDE DEF m
    <3> QED
      BY <3>1, <3>2, <3>3 DEF Stream!Prefix
  <2>2. \A q \in Packet : q # p => Out'[q] = Out[q]
    BY <1>7 DEF Out
  <2> QED
    BY <1>1, <2>1, <2>2 DEF Out
<1>10. Stream!Emit(p)
  <2>1. Len(Out[p]) < Size
    BY <1>1, <1>3, OutIsPrefix
  <2> HIDE DEF m
  <2> QED
    BY <1>1, <1>3, <1>8, <1>9, <2>1 DEF Stream!Emit, Stream!Unfinished, Out
<1> QED
  BY <1>10

\* handleWrite: an error is the report of an unfinished packet, anything else is
\* not seen.
LEMMA HandleWriteReports ==
  ASSUME TypeOK, IInv, HandleWrite
  PROVE  (\E p \in Packet : Stream!Report(p)) \/ UNCHANGED <<sent, wire, failed>>
<1> DEFINE d == done[1]
           p == d.packet
<1>1. done # <<>> /\ Head(done) = d /\ 1 \in DOMAIN done /\ p \in Packet /\ UNCHANGED <<sent, wire>>
  <2>1. done # <<>> /\ Head(done) = d /\ 1 \in DOMAIN done /\ UNCHANGED <<sent, wire>>
    BY Tailed, Types DEF HandleWrite
  <2> QED
    BY <2>1, Types DEF Done
<1>2. CASE failed' = failed
  BY <1>1, <1>2
<1>3. CASE d.error /\ failed' = failed \cup {p}
  <2>1. p <= sent /\ p \notin failed /\ Len(wire[p]) < Size
    BY <1>1, <1>3, UnderWayIsOpen DEF UnderWay, IInv, Rests
  <2>2. Len(Out[p]) < Size /\ Out' = Out
    BY <1>1, <2>1, OutIsPrefix DEF Out
  <2> HIDE DEF p, d
  <2>3. Stream!Report(p)
    BY <1>1, <1>3, <2>1, <2>2 DEF Stream!Report, Stream!Unfinished, Out
  <2> QED
    BY <1>1, <2>3
<1> QED
  BY <1>1, <1>2, <1>3 DEF HandleWrite

\* Sending implements the abstract stream: a packet leaves from its beginning on,
\* is reported only while bytes of it are missing, and is over with that.
THEOREM Implements == Spec => ImplementsPacketStream
<1>1. Init => Stream!Init
  BY DEF Init, Stream!Init, Stream!Packet, Packet
<1>2. TypeOK /\ IInv /\ [Next]_vars => [Stream!Next]_Stream!vars
  <2> SUFFICES ASSUME TypeOK, IInv, [Next]_vars PROVE [Stream!Next]_Stream!vars
    OBVIOUS
  <2>1. CASE Write
    BY <2>1 DEF Write, IInv, Written, Stream!Next, Stream!Offer
  <2>2. CASE Transfer
    BY <2>2, TransferEmits DEF Stream!Next, Stream!Packet, Packet
  <2>3. CASE HandleWrite
    BY <2>3, HandleWriteReports DEF Stream!Next, Stream!vars, Stream!Packet, Packet
  <2>4. CASE PressSend \/ Break \/ Connect \/ Disconnect \/ UNCHANGED vars
    BY <2>4 DEF PressSend, Break, Connect, Disconnect, vars, Stream!vars
  <2> QED
    BY <2>1, <2>2, <2>3, <2>4 DEF Next, GuiStep, Network
<1> QED
  BY <1>1, <1>2, Inductive, PTL DEF Spec, ImplementsPacketStream, Stream!Spec

=============================================================================

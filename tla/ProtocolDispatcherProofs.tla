---------------------- MODULE ProtocolDispatcherProofs ----------------------
(***************************************************************************)
(* What DynamicProtocolDispatcher hands to any number of protocols, over   *)
(* any stream of framed messages in any calls of appendData: whole         *)
(* messages in order, and all of them while the calls keep them apart.     *)
(***************************************************************************)
EXTENDS ProtocolDispatcher, TLAPS, WellFoundedInduction

\* A set of numbers has a least one.
LEMMA LeastNatural ==
  ASSUME NEW T \in SUBSET Nat, T # {}
  PROVE  \E m \in T : \A n \in T : m <= n
<1> DEFINE R == OpToRel(<, Nat)
<1>1. IsWellFoundedOn(R, Nat)
  BY NatLessThanWellFounded
<1>2. R = {ss \in Nat \X Nat : ss[1] < ss[2]}
  BY DEF OpToRel
<1> HIDE DEF R
<1>3. PICK m \in T : \A n \in T : <<n, m>> \notin R
  BY <1>1, WFMin
<1>4. ASSUME NEW n \in T PROVE m <= n
  <2>1. <<n, m>> \in Nat \X Nat
    OBVIOUS
  <2>2. ~(<<n, m>>[1] < <<n, m>>[2])
    BY <1>2, <1>3, <2>1
  <2> QED
    BY <2>2
<1> QED
  BY <1>4

\* Min is the least element.
LEMMA MinFacts ==
  ASSUME NEW T \in SUBSET Nat, T # {}
  PROVE  Min(T) \in T /\ \A n \in T : Min(T) <= n
  BY LeastNatural DEF Min

\* Sequences of anything: what the operators on them do, index by index.
LEMMA Appended ==
  ASSUME NEW S, NEW s \in Seq(S), NEW e \in S
  PROVE  /\ Append(s, e) \in Seq(S)
         /\ Len(s) \in Nat /\ Len(Append(s, e)) = Len(s) + 1
         /\ DOMAIN s = 1..Len(s) /\ DOMAIN Append(s, e) = 1..(Len(s) + 1)
         /\ \A i \in 1..Len(s) : Append(s, e)[i] = s[i]
         /\ Append(s, e)[Len(s) + 1] = e
  OBVIOUS

LEMMA Joined ==
  ASSUME NEW S, NEW s \in Seq(S), NEW u \in Seq(S)
  PROVE  /\ s \o u \in Seq(S)
         /\ Len(s) \in Nat /\ Len(u) \in Nat /\ Len(s \o u) = Len(s) + Len(u)
         /\ DOMAIN s = 1..Len(s) /\ DOMAIN u = 1..Len(u) /\ DOMAIN (s \o u) = 1..(Len(s) + Len(u))
         /\ \A i \in 1..Len(s) : (s \o u)[i] = s[i]
         /\ \A i \in 1..Len(u) : (s \o u)[Len(s) + i] = u[i]
  OBVIOUS

LEMMA FrontErased ==
  ASSUME NEW S, NEW s \in Seq(S), NEW k \in 1..Len(s)
  PROVE  /\ SubSeq(s, k + 1, Len(s)) \in Seq(S)
         /\ Len(s) \in Nat /\ Len(SubSeq(s, k + 1, Len(s))) = Len(s) - k
         /\ DOMAIN SubSeq(s, k + 1, Len(s)) = 1..(Len(s) - k)
         /\ \A i \in 1..(Len(s) - k) : k + i \in 1..Len(s) /\ SubSeq(s, k + 1, Len(s))[i] = s[k + i]
  OBVIOUS

-----------------------------------------------------------------------------
\* The bytes held, one by one.
LEMMA Bytes ==
  ASSUME TypeOK, Stream
  PROVE  /\ Len(data) \in Nat /\ DOMAIN data = 1..Len(data)
         /\ Len(incoming) \in Nat /\ DOMAIN incoming = 1..Len(incoming)
         /\ Gone \in Nat /\ received \in Nat /\ received = Gone + Len(data) + Len(incoming)
         /\ \A i \in DOMAIN data : data[i] \in Byte /\ i \in Nat /\ data[i].at = Gone + i
         /\ \A i \in DOMAIN incoming : incoming[i] \in Byte /\ i \in Nat /\ incoming[i].at = Gone + Len(data) + i
<1>1. Len(data) \in Nat /\ DOMAIN data = 1..Len(data) /\ \A i \in DOMAIN data : data[i] \in Byte
  BY DEF TypeOK
<1>2. Len(incoming) \in Nat /\ DOMAIN incoming = 1..Len(incoming) /\ \A i \in DOMAIN incoming : incoming[i] \in Byte
  BY DEF TypeOK
<1>3. received \in Nat
  BY BytesAssumption DEF TypeOK
<1>4. received = Gone + Len(data) + Len(incoming)
  BY <1>1, <1>2, <1>3 DEF Gone
<1> HIDE DEF Gone
<1> QED
  BY <1>1, <1>2, <1>3, <1>4 DEF Stream

\* Numbers of messages.
LEMMA MessageType ==
  ASSUME TypeOK
  PROVE  \A m \in complete : m \in Message /\ m.of \in Protocol /\ m.first \in Nat /\ m.last \in Nat
  BY DEF TypeOK, Message

\* A message whose end is among the appended bytes is there whole.
LEMMA HeldWhole ==
  ASSUME TypeOK, Stream, Frames, NEW m \in complete, Gone < m.last, m.last <= Gone + Len(data)
  PROVE  LET h == m.first - Gone
             l == m.last - Gone
         IN  /\ h \in DOMAIN data /\ l \in DOMAIN data /\ h < l
             /\ data[h].of = m.of /\ data[h].part = "head" /\ data[h].at = m.first
             /\ data[l].of = m.of /\ data[l].part = "tail" /\ data[l].at = m.last
             /\ l \in Tails(m.of)
<1> DEFINE h == m.first - Gone
           l == m.last - Gone
<1>1. m.first \in Nat /\ m.last \in Nat /\ m.first < m.last /\ m.first > Gone
  BY MessageType, Bytes DEF Frames
<1>2. h \in DOMAIN data /\ l \in DOMAIN data /\ h < l /\ data[h].at = m.first /\ data[l].at = m.last /\ h \in 1..l
  <2>1. /\ Gone \in Nat /\ Len(data) \in Nat /\ DOMAIN data = 1..Len(data)
        /\ \A k \in DOMAIN data : data[k].at = Gone + k
    BY Bytes
  <2> HIDE DEF Gone
  <2>2. h \in 1..l /\ h < l /\ l \in 1..Len(data) /\ h \in 1..Len(data) /\ Gone + h = m.first /\ Gone + l = m.last
    BY <1>1, <2>1
  <2> HIDE DEF h, l
  <2> QED
    BY <2>1, <2>2
<1>3. Framed(data[h]) /\ Framed(data[l])
  BY <1>2 DEF Stream
<1>4. data[h].of = m.of /\ data[h].part = "head" /\ data[l].of = m.of /\ data[l].part = "tail"
  BY <1>2, <1>3 DEF Framed
<1> HIDE DEF h, l
<1>5. l \in Tails(m.of)
  BY <1>2, <1>4 DEF Tails
<1> QED
  BY <1>2, <1>4, <1>5 DEF h, l

\* A tail among the appended bytes ends a message that its protocol finds.
LEMMA TailFound ==
  ASSUME TypeOK, Stream, Frames, NEW j \in DOMAIN data, data[j].part = "tail"
  PROVE  /\ data[j].of \in Protocol /\ j \in Tails(data[j].of) /\ Finds(data[j].of)
         /\ \E m \in complete : m.of = data[j].of /\ m.last = data[j].at
<1>1. PICK m \in complete : m.of = data[j].of /\ m.last = data[j].at
  BY DEF Stream, Framed
<1>2. j \in Nat /\ Gone \in Nat /\ m.last = Gone + j /\ j \in 1..Len(data) /\ Len(data) \in Nat
  BY <1>1, Bytes
<1>3. m.last - Gone = j /\ Gone < m.last /\ m.last <= Gone + Len(data)
  <2> HIDE DEF Gone
  <2> QED
    BY <1>2
<1>4. j \in Tails(m.of)
  BY <1>3, HeldWhole
<1> QED
  BY <1>1, <1>4, MessageType DEF Finds

\* What a protocol finds is one of the messages, whole.
LEMMA FoundWhole ==
  ASSUME TypeOK, Stream, Frames, NEW p \in Protocol, Finds(p)
  PROVE  LET i == First(p)
             j == Min(Tails(p))
         IN  /\ i \in DOMAIN data /\ j \in DOMAIN data /\ i < j
             /\ data[j].part = "tail" /\ data[j].of = p
             /\ data[i].at = Gone + i /\ data[j].at = Gone + j
             /\ [of |-> p, first |-> data[i].at, last |-> data[j].at] \in complete
             /\ \A k \in Tails(p) : j <= k
<1> DEFINE H == {i \in DOMAIN data : data[i].of = p /\ data[i].part = "head"}
           i == First(p)
           j == Min(Tails(p))
<1>0. DOMAIN data \subseteq Nat
  BY Bytes
<1>1. j \in Tails(p) /\ \A k \in Tails(p) : j <= k
  <2>1. Tails(p) \in SUBSET Nat
    BY <1>0 DEF Tails
  <2> QED
    BY <2>1, MinFacts DEF Finds
<1>2. j \in DOMAIN data /\ data[j].of = p /\ data[j].part = "tail"
      /\ \E k \in 1..j : data[k].of = p /\ data[k].part = "head"
  BY <1>1 DEF Tails
<1>3. i \in H /\ \A k \in H : i <= k
  <2>1. H # {}
    <3>1. PICK k \in 1..j : data[k].of = p /\ data[k].part = "head"
      BY <1>2
    <3>2. k \in DOMAIN data
      BY <1>2, <3>1, Bytes
    <3> HIDE DEF i, j
    <3> QED
      BY <3>1, <3>2
  <2>2. H \in SUBSET Nat
    BY <1>0
  <2> QED
    BY <2>1, <2>2, MinFacts DEF First
<1>4. i <= j
  <2>1. PICK k \in 1..j : data[k].of = p /\ data[k].part = "head"
    BY <1>2
  <2>2. k \in H /\ k <= j
    BY <1>2, <2>1, Bytes
  <2> QED
    BY <1>0, <1>2, <1>3, <2>2
<1> HIDE DEF i, j
<1>5. i \in DOMAIN data /\ data[i].of = p /\ data[i].part = "head"
  BY <1>3
<1>6. data[i].at = Gone + i /\ data[j].at = Gone + j /\ i \in Nat /\ j \in Nat /\ Gone \in Nat
      /\ i \in 1..Len(data) /\ j \in 1..Len(data) /\ Len(data) \in Nat
  BY <1>2, <1>5, Bytes
<1>7. PICK m \in complete : m.of = p /\ m.last = data[j].at
  BY <1>2, TailFound
<1>8. m \in Message /\ m.first \in Nat /\ m.first < m.last /\ m.first > Gone
  BY <1>6, <1>7, MessageType DEF Frames
<1>9. ~(open.of # 0 /\ open.first = data[i].at)
  <2>1. ASSUME open.of # 0, open.first = data[i].at PROVE FALSE
    <3>1. m.last < open.first
      BY <2>1 DEF Frames
    <3> QED
      BY <1>4, <1>6, <1>7, <2>1, <3>1
  <2> QED
    BY <2>1
<1>10. PICK n \in complete : n.of = p /\ n.first = data[i].at
  BY <1>5, <1>9 DEF Stream, Framed
<1>11. n \in Message /\ n.last \in Nat /\ n.first < n.last
  BY MessageType DEF Frames
<1>12. i <= m.first - Gone
  <2>1. m.first - Gone \in H
    BY <1>6, <1>7, HeldWhole
  <2> QED
    BY <1>3, <2>1
<1>13. ~(m.last < n.first) /\ ~(n.last < m.first)
  <2>1. ~(m.last < n.first)
    BY <1>4, <1>6, <1>7, <1>10
  <2>2. ASSUME n.last < m.first PROVE FALSE
    <3>1. n.last - Gone \in Tails(n.of)
      BY <1>6, <1>7, <1>8, <1>10, <1>11, <2>2, HeldWhole
    <3>2. j <= n.last - Gone
      BY <1>1, <1>10, <3>1
    <3> QED
      BY <1>6, <1>7, <1>8, <1>11, <2>2, <3>2
  <2> QED
    BY <2>1, <2>2
<1>14. m = n
  BY <1>13 DEF Frames
<1>15. m = [of |-> p, first |-> data[i].at, last |-> data[j].at]
  BY <1>7, <1>8, <1>10, <1>14 DEF Message
<1>16. i < j
  BY <1>6, <1>7, <1>8, <1>10, <1>14
<1> QED
  BY <1>1, <1>2, <1>5, <1>6, <1>15, <1>16 DEF i, j

-----------------------------------------------------------------------------
\* A byte that comes in leaves the bytes held framed, and is framed itself.
LEMMA ReceiveStep ==
  ASSUME TypeOK, IInv, Receive
  PROVE  TypeOK' /\ IInv'
<1>1. /\ pc = 0 /\ received < MaxBytes /\ received' = received + 1
      /\ UNCHANGED <<registered, active, data, pc, prev, taken, crowded, unattended>>
  BY DEF Receive, dispatcher, history
<1>2. PICK b \in [of : Protocol \cup {0}, part : Part, at : {received'}] :
        /\ incoming' = Append(incoming, b)
        /\ \/ /\ b.part = "other" /\ b.of = 0
              /\ UNCHANGED <<open, complete>>
           \/ /\ b.part = "head" /\ b.of # 0 /\ open.of = 0
              /\ open' = [of |-> b.of, first |-> b.at]
              /\ UNCHANGED complete
           \/ /\ b.part = "tail" /\ b.of # 0 /\ open.of = b.of
              /\ open' = [of |-> 0, first |-> 0]
              /\ complete' = complete \cup {[of |-> b.of, first |-> open.first, last |-> b.at]}
  BY DEF Receive
<1>3. b \in Byte /\ b.at = received + 1 /\ received \in Nat /\ b.of \in Protocol \cup {0}
  BY <1>1, <1>2, BytesAssumption DEF TypeOK, Byte
<1>4. /\ DOMAIN incoming' = 1..(Len(incoming) + 1) /\ Len(incoming') = Len(incoming) + 1
      /\ \A i \in 1..Len(incoming) : incoming'[i] = incoming[i]
      /\ incoming'[Len(incoming) + 1] = b /\ incoming' \in Seq(Byte)
  BY <1>2, <1>3, Appended DEF TypeOK
<1>5. Gone' = Gone
  BY <1>1, <1>3, <1>4, Bytes DEF IInv, Gone
<1> DEFINE new == [of |-> b.of, first |-> open.first, last |-> b.at]
<1>6. /\ b.part = "tail" => new \in Message /\ new \in complete'
      /\ \A m \in complete' : m \in complete \/ (m = new /\ b.part = "tail")
      /\ complete \subseteq complete'
  BY <1>2, <1>3 DEF TypeOK, Message
<1>7. \A m \in complete : m.first \in Nat /\ m.last \in Nat /\ m.last <= received /\ m.first < m.last
  BY MessageType DEF IInv, Frames
<1>8. open.first \in Nat /\ (open.of # 0 => Gone < open.first /\ open.first <= received)
  BY DEF TypeOK, IInv, Frames
<1>9. TypeOK'
  <2>1. open' \in [of : Protocol \cup {0}, first : Nat]
    BY <1>2, <1>3 DEF TypeOK
  <2>2. complete' \subseteq Message
    BY <1>6 DEF TypeOK
  <2> QED
    BY <1>1, <1>3, <1>4, <2>1, <2>2, BytesAssumption DEF TypeOK
<1>10. Stream'
  <2>1. ASSUME NEW x \in Byte, Framed(x), x.at <= received PROVE Framed(x)'
    <3>1. x.at \in Nat
      BY DEF Byte
    <3>2. x.at # b.at
      BY <1>3, <2>1, <3>1
    <3>3. CASE b.part = "other" /\ UNCHANGED <<open, complete>>
      BY <2>1, <3>3 DEF Framed
    <3>4. CASE b.part = "head" /\ open.of = 0 /\ open' = [of |-> b.of, first |-> b.at] /\ UNCHANGED complete
      BY <2>1, <3>2, <3>4 DEF Framed
    <3>5. CASE /\ b.part = "tail" /\ b.of # 0 /\ open.of = b.of /\ open' = [of |-> 0, first |-> 0]
               /\ complete' = complete \cup {new}
      <4>1. new \in complete' /\ new.of = open.of /\ new.first = open.first /\ new.last # x.at
        BY <3>2, <3>5
      <4>2. x.part = "tail" => \E m \in complete' : m.of = x.of /\ m.last = x.at
        BY <2>1, <3>5 DEF Framed
      <4>3. x.part = "head" => \E m \in complete' : m.of = x.of /\ m.first = x.at
        BY <2>1, <3>5, <4>1 DEF Framed
      <4>4. ASSUME NEW m \in complete'
            PROVE  /\ x.at = m.first => x.part = "head" /\ x.of = m.of
                   /\ x.at = m.last => x.part = "tail" /\ x.of = m.of
        <5>1. CASE m \in complete
          BY <2>1, <5>1 DEF Framed
        <5>2. CASE m = new
          BY <2>1, <3>5, <4>1, <5>2 DEF Framed
        <5> QED
          BY <3>5, <5>1, <5>2
      <4>5. open'.of = 0
        BY <3>5
      <4> HIDE DEF new
      <4> QED
        BY <4>2, <4>3, <4>4, <4>5 DEF Framed
    <3> QED
      BY <1>2, <3>3, <3>4, <3>5
  <2>2. Framed(b)'
    <3>1. \A m \in complete : b.at # m.first /\ b.at # m.last
      BY <1>3, <1>7
    <3>2. open.of # 0 => b.at # open.first
      BY <1>3, <1>8
    <3>3. CASE b.part = "other" /\ UNCHANGED <<open, complete>>
      BY <3>1, <3>2, <3>3 DEF Framed
    <3>4. CASE b.part = "head" /\ b.of # 0 /\ open' = [of |-> b.of, first |-> b.at] /\ UNCHANGED complete
      BY <3>1, <3>4 DEF Framed
    <3>5. CASE /\ b.part = "tail" /\ b.of # 0 /\ open.of = b.of /\ open' = [of |-> 0, first |-> 0]
               /\ complete' = complete \cup {new}
      <4>1. new \in complete' /\ new.of = b.of /\ new.last = b.at /\ new.first # b.at
        BY <3>2, <3>5
      <4>2. ASSUME NEW m \in complete'
            PROVE  b.at # m.first /\ (b.at = m.last => b.of = m.of)
        BY <3>1, <3>5, <4>1
      <4>3. open'.of = 0
        BY <3>5
      <4> HIDE DEF new
      <4> QED
        BY <3>5, <4>1, <4>2, <4>3 DEF Framed
    <3> QED
      BY <1>2, <3>3, <3>4, <3>5
  <2>3. ASSUME NEW i \in DOMAIN data PROVE data'[i].at = Gone' + i /\ Framed(data[i])'
    BY <1>1, <1>5, <2>1, Bytes DEF IInv, Stream
  <2>4. ASSUME NEW i \in 1..Len(incoming)
        PROVE  incoming'[i].at = Gone' + Len(data) + i /\ Framed(incoming[i])'
    BY <1>4, <1>5, <2>1, Bytes DEF IInv, Stream
  <2>5. b.at = Gone' + Len(data) + Len(incoming) + 1 /\ Len(incoming) \in Nat /\ Gone \in Nat
    BY <1>3, <1>5, Bytes DEF IInv
  <2> HIDE DEF Gone
  <2> QED
    <3>1. \A i \in DOMAIN data' : data'[i].at = Gone' + i /\ Framed(data[i])'
      BY <1>1, <2>3
    <3>2. \A i \in DOMAIN incoming' : incoming'[i].at = Gone' + Len(data') + i /\ Framed(incoming[i])'
      <4> SUFFICES ASSUME NEW i \in DOMAIN incoming'
                   PROVE  incoming'[i].at = Gone' + Len(data') + i /\ Framed(incoming[i])'
        OBVIOUS
      <4>1. CASE i \in 1..Len(incoming)
        BY <1>1, <1>4, <2>4, <4>1
      <4>2. CASE i = Len(incoming) + 1
        BY <1>1, <1>4, <1>5, <2>2, <2>5, <4>2
      <4> QED
        BY <1>4, <2>5, <4>1, <4>2
    <3> QED
      BY <1>5, <2>5, <3>1, <3>2 DEF Stream
<1>11. Frames'
  <2>1. ASSUME NEW m \in complete'
        PROVE  /\ 0 < m.first /\ m.first < m.last /\ m.last <= received'
               /\ m.last <= Gone' \/ m.first > Gone'
    BY <1>1, <1>2, <1>3, <1>5, <1>6, <1>7, <1>8, Bytes DEF IInv, Frames
  <2>2. ASSUME NEW m \in complete', NEW n \in complete'
        PROVE  m = n \/ m.last < n.first \/ n.last < m.first
    BY <1>2, <1>6 DEF IInv, Frames
  <2>3. open'.of # 0 => /\ Gone' < open'.first /\ open'.first <= received'
                        /\ \A m \in complete' : m.last < open'.first
    BY <1>1, <1>2, <1>3, <1>5, <1>7, <1>8, Bytes DEF IInv, Frames
  <2> QED
    BY <2>1, <2>2, <2>3 DEF Frames
<1>12. Handed'
  BY <1>1, <1>5, <1>6 DEF IInv, Handed, HandedInOrder
<1>13. Round'
  BY <1>1 DEF Round
<1>14. Attended'
  BY <1>1, <1>2, <1>5, <1>6, <1>8 DEF IInv, Attended
<1> QED
  BY <1>9, <1>10, <1>11, <1>12, <1>13, <1>14 DEF IInv

\* Protocols come and are turned on and off between two calls only.
LEMMA OwnerStep ==
  ASSUME TypeOK, IInv, AddProtocol \/ \E p \in Protocol : SetState(p)
  PROVE  TypeOK' /\ IInv'
<1>1. pc = 0 /\ UNCHANGED <<dispatcher, sender, history>>
  BY DEF AddProtocol, SetState
<1>2. registered' \in 0..MaxProtocols /\ active' \subseteq 1..registered'
  <2>1. CASE AddProtocol
    BY <2>1, ProtocolsAssumption DEF AddProtocol, TypeOK
  <2>2. ASSUME NEW p \in Protocol, SetState(p) PROVE registered' = registered /\ active' \subseteq 1..registered
    BY <2>2, ProtocolsAssumption DEF SetState, TypeOK, Protocol
  <2> QED
    BY <2>1, <2>2 DEF TypeOK
<1>3. pc' \in 0..(registered' + 1)
  <2>1. pc' = 0
    BY <1>1 DEF dispatcher
  <2>2. registered' \in Nat
    BY <1>2, ProtocolsAssumption
  <2>3. \A n \in Nat : 0 \in 0..(n + 1)
    OBVIOUS
  <2> QED
    BY <2>1, <2>2, <2>3
<1> USE <1>1 DEF dispatcher, sender, history
<1>4. Stream' /\ Frames'
  BY DEF IInv, Stream, Frames, Framed, Gone
<1>5. Handed' /\ Round' /\ Attended'
  BY DEF IInv, Handed, HandedInOrder, Round, Attended, Gone
<1>6. TypeOK'
  BY <1>2, <1>3 DEF TypeOK
<1> QED
  BY <1>4, <1>5, <1>6 DEF IInv

\* appendData: what came in is appended, and the first round begins.
LEMMA AppendDataStep ==
  ASSUME TypeOK, IInv, AppendData
  PROVE  TypeOK' /\ IInv'
<1>1. /\ pc = 0 /\ data' = data \o incoming /\ prev' = Len(data') /\ pc' = 1 /\ incoming' = <<>>
      /\ UNCHANGED <<registered, active, taken, open, received, complete>>
      /\ crowded' = (crowded \/ \E b, c \in ToSet(incoming) :
                                  b.part = "tail" /\ c.part = "tail" /\ b.of # c.of)
      /\ unattended' = (unattended \/ \E b \in ToSet(data') : b.of \notin active \cup {0})
  BY DEF AppendData
<1>2. /\ data' \in Seq(Byte) /\ Len(data') = Len(data) + Len(incoming)
      /\ Len(data) \in Nat /\ Len(incoming) \in Nat
      /\ DOMAIN data = 1..Len(data) /\ DOMAIN incoming = 1..Len(incoming)
      /\ DOMAIN data' = 1..(Len(data) + Len(incoming))
      /\ \A i \in 1..Len(data) : data'[i] = data[i]
      /\ \A i \in 1..Len(incoming) : data'[Len(data) + i] = incoming[i]
  BY <1>1, Joined DEF TypeOK
<1>3. \A i \in DOMAIN data' : \/ i \in DOMAIN data /\ data'[i] = data[i]
                              \/ /\ i - Len(data) \in DOMAIN incoming
                                 /\ data'[i] = incoming[i - Len(data)]
  <2> SUFFICES ASSUME NEW i \in DOMAIN data'
               PROVE  \/ i \in DOMAIN data /\ data'[i] = data[i]
                      \/ /\ i - Len(data) \in DOMAIN incoming
                         /\ data'[i] = incoming[i - Len(data)]
    OBVIOUS
  <2>1. CASE i <= Len(data)
    BY <1>2, <2>1
  <2>2. CASE i > Len(data)
    <3>1. i - Len(data) \in 1..Len(incoming) /\ Len(data) + (i - Len(data)) = i
      BY <1>2, <2>2
    <3> QED
      BY <1>2, <3>1
  <2> QED
    BY <1>2, <2>1, <2>2
<1>4. Len(incoming') = 0 /\ DOMAIN incoming' = {} /\ incoming' \in Seq(Byte)
  BY <1>1
<1>5. Gone' = Gone /\ Gone \in Nat
  BY <1>1, <1>2, <1>4, Bytes DEF IInv, Gone
<1>6. TypeOK'
  BY <1>1, <1>2, <1>4 DEF TypeOK
<1>7. Stream'
  <2>1. ASSUME NEW i \in DOMAIN data' PROVE data'[i].at = Gone' + i /\ Framed(data'[i])
    <3>1. CASE i \in DOMAIN data /\ data'[i] = data[i]
      BY <1>5, <3>1 DEF IInv, Stream
    <3>2. CASE i - Len(data) \in DOMAIN incoming /\ data'[i] = incoming[i - Len(data)]
      <4>1. data'[i].at = Gone + Len(data) + (i - Len(data)) /\ Framed(data'[i])
        BY <3>2 DEF IInv, Stream
      <4> HIDE DEF Gone
      <4> QED
        BY <1>2, <1>5, <4>1
    <3> QED
      BY <1>3, <3>1, <3>2
  <2> QED
    BY <1>1, <1>4, <1>5, <2>1 DEF Stream, Framed
<1>8. Frames' /\ Handed'
  BY <1>1, <1>5 DEF IInv, Frames, Handed, HandedInOrder
<1>9. Round'
  BY <1>1, <1>2 DEF TypeOK, Round
<1>10. Attended'
  <2> SUFFICES ASSUME ~crowded', ~unattended' PROVE Attended'
    BY DEF Attended
  <2>1. /\ ~crowded /\ ~unattended
        /\ \A b, c \in ToSet(incoming) : b.part = "tail" /\ c.part = "tail" => b.of = c.of
        /\ \A b \in ToSet(data') : b.of \in active \cup {0}
    BY <1>1
  <2>2. /\ \A m \in complete : m \in ToSet(taken) \/ m.first > Gone
        /\ \A i \in DOMAIN data : data[i].part # "tail"
    BY <1>1, <2>1 DEF IInv, Attended
  <2>3. \A i \in DOMAIN data' : data'[i] \in ToSet(data') /\ data'[i].of \in active \cup {0}
    BY <2>1 DEF ToSet
  <2>4. \A i \in DOMAIN data' : data'[i].part = "tail" => data'[i] \in ToSet(incoming)
    BY <1>3, <2>2 DEF ToSet
  <2> QED
    BY <1>1, <1>5, <2>1, <2>2, <2>3, <2>4 DEF Attended
<1> QED
  BY <1>6, <1>7, <1>8, <1>9, <1>10 DEF IInv

\* processProtocol: the protocol asked takes its first message, and everything up
\* to its end goes.
LEMMA TakesStep ==
  ASSUME TypeOK, IInv, NEW p \in Protocol, ProcessProtocol(p), p \in active, Finds(p)
  PROVE  TypeOK' /\ IInv'
<1> DEFINE i == First(p)
           j == Min(Tails(p))
           m == [of |-> p, first |-> data[i].at, last |-> data[j].at]
<1>1. /\ pc = p /\ p <= registered /\ pc' = p + 1
      /\ data' = SubSeq(data, j + 1, Len(data)) /\ taken' = Append(taken, m)
      /\ UNCHANGED <<registered, active, prev, incoming, open, received, complete, crowded, unattended>>
  BY DEF ProcessProtocol, sender, history
<1>2. /\ i \in DOMAIN data /\ j \in DOMAIN data /\ i < j /\ m \in complete
      /\ m.of = p /\ m.first = Gone + i /\ m.last = Gone + j
      /\ data[j].part = "tail" /\ data[j].of = p /\ \A k \in Tails(p) : j <= k
  BY FoundWhole DEF IInv
<1> HIDE DEF i, j, m
<1>3. i \in Nat /\ j \in Nat /\ j \in 1..Len(data) /\ Len(data) \in Nat /\ Gone \in Nat
  BY <1>2, Bytes DEF IInv
<1>4. /\ data' \in Seq(Byte) /\ Len(data') = Len(data) - j /\ DOMAIN data' = 1..(Len(data) - j)
      /\ \A k \in DOMAIN data' : j + k \in DOMAIN data /\ data'[k] = data[j + k]
  <2>1. data \in Seq(Byte)
    BY DEF TypeOK
  <2> QED
    BY <1>1, <1>3, <2>1, FrontErased
<1>5. Gone' = m.last /\ Gone' = Gone + j
  <2>1. received = Gone + Len(data) + Len(incoming) /\ Len(incoming) \in Nat
    BY Bytes DEF IInv
  <2>2. Gone' = received - (Len(data) - j) - Len(incoming)
    BY <1>1, <1>4 DEF Gone
  <2> HIDE DEF Gone
  <2> QED
    BY <1>2, <1>3, <2>1, <2>2
<1>6. /\ taken' \in Seq(Message) /\ Len(taken) \in Nat
      /\ DOMAIN taken = 1..Len(taken) /\ DOMAIN taken' = 1..(Len(taken) + 1)
      /\ \A k \in 1..Len(taken) : taken'[k] = taken[k]
      /\ taken'[Len(taken) + 1] = m
  <2>1. taken \in Seq(Message) /\ m \in Message
    BY <1>2, MessageType DEF TypeOK
  <2> QED
    BY <1>1, <2>1, Appended
<1>7. \A n \in complete : n.first \in Nat /\ n.last \in Nat /\ n.first < n.last /\ (n.last <= Gone \/ n.first > Gone)
  BY MessageType DEF IInv, Frames
<1>8. TypeOK'
  <2>1. pc' \in 0..(registered' + 1)
    BY <1>1, ProtocolsAssumption DEF TypeOK, Protocol
  <2> QED
    BY <1>1, <1>4, <1>6, <2>1 DEF TypeOK
<1>9. Stream'
  <2>1. ASSUME NEW k \in DOMAIN data' PROVE data'[k].at = Gone' + k /\ Framed(data[k])'
    <3>1. j + k \in DOMAIN data /\ data'[k] = data[j + k] /\ k \in Nat
      BY <1>4
    <3>2. data[j + k].at = Gone + (j + k) /\ Framed(data[j + k])
      BY <3>1 DEF IInv, Stream
    <3>3. data'[k].at = Gone' + k
      <4> HIDE DEF Gone
      <4> QED
        BY <1>3, <1>5, <3>1, <3>2
    <3>4. Framed(data[k])'
      BY <1>1, <3>1, <3>2 DEF Framed
    <3> QED
      BY <3>3, <3>4
  <2>2. ASSUME NEW k \in DOMAIN incoming' PROVE incoming'[k].at = Gone' + Len(data') + k /\ Framed(incoming[k])'
    <3>1. incoming[k].at = Gone + Len(data) + k /\ Framed(incoming[k]) /\ k \in Nat
      BY <1>1, <2>2, Bytes DEF IInv, Stream
    <3>2. Gone' + Len(data') = Gone + Len(data)
      BY <1>3, <1>4, <1>5
    <3>3. Framed(incoming[k])'
      BY <1>1, <3>1 DEF Framed
    <3> QED
      BY <1>1, <3>1, <3>2, <3>3
  <2>3. Gone' \in Nat
    BY <1>3, <1>5
  <2> QED
    BY <2>1, <2>2, <2>3 DEF Stream
<1>10. Frames'
  <2>1. ASSUME NEW n \in complete PROVE n.last <= Gone' \/ n.first > Gone'
    BY <1>2, <1>5, <1>7 DEF IInv, Frames
  <2>2. open.of # 0 => Gone' < open.first
    BY <1>2, <1>5 DEF IInv, Frames
  <2> QED
    BY <1>1, <2>1, <2>2 DEF IInv, Frames
<1>11. Handed'
  <2>1. \A k \in DOMAIN taken : taken[k] \in complete /\ taken[k].last <= Gone /\ taken[k].last \in Nat
    BY MessageType DEF IInv, Handed, HandedInOrder
  <2>2. \A k \in DOMAIN taken' : taken'[k] \in complete' /\ taken'[k].last <= Gone'
    <3>1. \A k \in DOMAIN taken' : k \in 1..Len(taken) \/ k = Len(taken) + 1
      BY <1>6
    <3>2. \A k \in 1..Len(taken) : taken[k].last <= Gone'
      <4> HIDE DEF Gone
      <4> QED
        BY <1>3, <1>5, <1>6, <2>1
    <3>3. m.last <= Gone'
      BY <1>2, <1>3, <1>5
    <3> QED
      BY <1>1, <1>2, <1>6, <2>1, <3>1, <3>2, <3>3
  <2>3. ASSUME NEW k \in DOMAIN taken', k > 1 PROVE taken'[k - 1].last < taken'[k].first
    <3>1. CASE k \in DOMAIN taken
      <4>1. k - 1 \in DOMAIN taken /\ taken'[k - 1] = taken[k - 1] /\ taken'[k] = taken[k]
        BY <1>6, <2>3, <3>1
      <4> QED
        BY <2>3, <3>1, <4>1 DEF IInv, Handed, HandedInOrder
    <3>2. CASE k = Len(taken) + 1
      <4>1. k - 1 \in DOMAIN taken /\ taken'[k - 1] = taken[k - 1] /\ taken'[k] = m
        BY <1>6, <2>3, <3>2
      <4> QED
        BY <1>2, <1>3, <2>1, <4>1
    <3> QED
      BY <1>6, <3>1, <3>2
  <2> QED
    BY <2>2, <2>3 DEF Handed, HandedInOrder
<1>12. Round'
  <2>1. p \in Nat /\ p # 0
    BY ProtocolsAssumption DEF Protocol
  <2>2. Len(data) <= prev /\ prev \in Nat
    BY <1>1, <2>1 DEF IInv, Round, TypeOK
  <2>3. Len(data') < prev' /\ Len(data') \in Nat /\ prev' \in Nat
    BY <1>1, <1>3, <1>4, <2>2
  <2> QED
    BY <2>3 DEF Round
<1>13. Attended'
  <2> SUFFICES ASSUME ~crowded, ~unattended PROVE Attended'
    BY <1>1 DEF Attended
  <2>0. pc # 0 /\ pc' # 0
    BY <1>1, ProtocolsAssumption DEF Protocol
  <2>1. /\ \A n \in complete : n \in ToSet(taken) \/ n.first > Gone
        /\ \A k \in DOMAIN data : data[k].of \in active \cup {0}
        /\ \A k, l \in DOMAIN data :
             data[k].part = "tail" /\ data[l].part = "tail" => data[k].of = data[l].of
    BY <2>0 DEF IInv, Attended
  <2>2. ASSUME NEW n \in complete PROVE n \in ToSet(taken') \/ n.first > Gone'
    <3>1. CASE n \in ToSet(taken)
      BY <1>6, <3>1 DEF ToSet
    <3>2. CASE n = m
      BY <1>6, <3>2 DEF ToSet
    <3>3. CASE n.first > Gone /\ m.last < n.first
      BY <1>5, <3>3
    <3>4. CASE n.first > Gone /\ n.last < m.first
      <4>1. n.last - Gone \in DOMAIN data /\ data[n.last - Gone].part = "tail"
            /\ data[n.last - Gone].of = n.of /\ n.last - Gone \in Tails(n.of)
        <5>1. Gone < n.last /\ n.last <= Gone + Len(data)
          <6> HIDE DEF Gone
          <6> QED
            BY <1>2, <1>3, <1>7, <3>4
        <5> QED
          BY <5>1, HeldWhole DEF IInv
      <4>2. n.of = p
        BY <1>2, <2>1, <4>1
      <4>3. j <= n.last - Gone
        BY <1>2, <4>1, <4>2
      <4> HIDE DEF Gone
      <4> QED
        BY <1>2, <1>3, <1>7, <3>4, <4>3
    <3> QED
      BY <1>2, <2>1, <3>1, <3>2, <3>3, <3>4 DEF IInv, Frames
  <2>3. /\ \A k \in DOMAIN data' : data'[k].of \in active \cup {0}
        /\ \A k, l \in DOMAIN data' :
             data'[k].part = "tail" /\ data'[l].part = "tail" => data'[k].of = data'[l].of
    BY <1>4, <2>1
  <2> QED
    BY <1>1, <2>0, <2>2, <2>3 DEF Attended
<1> QED
  BY <1>8, <1>9, <1>10, <1>11, <1>12, <1>13 DEF IInv

\* processProtocol: a protocol that is off or finds nothing is passed over.
LEMMA PassesStep ==
  ASSUME TypeOK, IInv, NEW p \in Protocol, ProcessProtocol(p), ~(p \in active /\ Finds(p))
  PROVE  TypeOK' /\ IInv'
<1>1. /\ pc = p /\ p <= registered /\ pc' = p + 1
      /\ UNCHANGED <<registered, active, prev, data, taken, incoming, open, received, complete, crowded, unattended>>
  BY DEF ProcessProtocol, sender, history
<1>2. p \in Nat /\ p # 0
  BY ProtocolsAssumption DEF Protocol
<1>3. TypeOK'
  <2>1. pc' \in 0..(registered' + 1)
    BY <1>1, ProtocolsAssumption DEF TypeOK, Protocol
  <2> QED
    BY <1>1, <2>1 DEF TypeOK
<1>4. Stream' /\ Frames' /\ Handed'
  BY <1>1 DEF IInv, Stream, Frames, Framed, Gone, Handed, HandedInOrder
<1>5. Round'
  <2>1. \A q \in active : q < p + 1 => q < p \/ q = p
    BY <1>2, ProtocolsAssumption DEF TypeOK
  <2>2. Len(data) <= prev /\ (Len(data) = prev => \A q \in active : q < p => ~Finds(q))
    BY <1>1, <1>2 DEF IInv, Round
  <2> QED
    BY <1>1, <2>1, <2>2 DEF Round, Finds, Tails
<1>6. Attended'
  BY <1>1, <1>2 DEF IInv, Attended, Gone
<1> QED
  BY <1>3, <1>4, <1>5, <1>6 DEF IInv

\* A call that ends after a round without a find leaves no end of a message.
LEMMA RoundEndsStep ==
  ASSUME TypeOK, IInv, RoundEnds
  PROVE  TypeOK' /\ IInv'
<1>1. /\ pc = registered + 1 /\ pc' = IF Len(data) = prev \/ data = <<>> THEN 0 ELSE 1
      /\ prev' = Len(data)
      /\ UNCHANGED <<registered, active, data, taken, incoming, open, received, complete, crowded, unattended>>
  BY DEF RoundEnds, sender, history
<1>2. registered \in Nat /\ Len(data) \in Nat /\ DOMAIN data = 1..Len(data)
  BY ProtocolsAssumption, Bytes DEF TypeOK, IInv
<1>3. TypeOK'
  BY <1>1, <1>2 DEF TypeOK
<1>4. Stream' /\ Frames' /\ Handed'
  BY <1>1 DEF IInv, Stream, Frames, Framed, Gone, Handed, HandedInOrder
<1>5. Round'
  <2>1. \A q \in active : ~(q < 1)
    BY <1>2 DEF TypeOK
  <2> QED
    BY <1>1, <1>2, <2>1 DEF Round
<1>6. Attended'
  <2> SUFFICES ASSUME ~crowded, ~unattended PROVE Attended'
    BY <1>1 DEF Attended
  <2>1. pc # 0
    BY <1>1, <1>2
  <2>2. ASSUME NEW k \in DOMAIN data, data[k].part = "tail" PROVE pc' # 0
    <3>1. data # <<>>
      BY <1>2
    <3>2. ASSUME Len(data) = prev PROVE FALSE
      <4>1. data[k].of \in Protocol /\ Finds(data[k].of)
        BY <2>2, TailFound DEF IInv
      <4>2. data[k].of \in active
        BY <2>1, <4>1, ProtocolsAssumption DEF IInv, Attended, Protocol
      <4>3. data[k].of < pc
        <5>1. \A q \in active : q < registered + 1
          BY <1>2 DEF TypeOK
        <5> QED
          BY <1>1, <4>2, <5>1
      <4> QED
        BY <2>1, <3>2, <4>1, <4>2, <4>3 DEF IInv, Round
    <3> QED
      BY <1>1, <3>1, <3>2
  <2> QED
    BY <1>1, <2>1, <2>2 DEF IInv, Attended, Gone
<1> QED
  BY <1>3, <1>4, <1>5, <1>6 DEF IInv

-----------------------------------------------------------------------------
LEMMA Inductive == Spec => [](TypeOK /\ IInv)
<1>1. Init => TypeOK /\ IInv
  <2> SUFFICES ASSUME Init PROVE TypeOK /\ IInv
    OBVIOUS
  <2>1. Len(data) = 0 /\ Len(incoming) = 0 /\ Gone = 0 /\ DOMAIN data = {} /\ DOMAIN incoming = {} /\ DOMAIN taken = {}
    <3>1. Len(data) = 0 /\ Len(incoming) = 0 /\ received = 0
      BY DEF Init
    <3>2. DOMAIN data = {} /\ DOMAIN incoming = {} /\ DOMAIN taken = {}
      BY DEF Init
    <3> QED
      BY <3>1, <3>2 DEF Gone
  <2>2. TypeOK
    <3>1. data \in Seq(Byte) /\ incoming \in Seq(Byte) /\ taken \in Seq(Message)
      BY DEF Init
    <3>2. open \in [of : Protocol \cup {0}, first : Nat]
      BY DEF Init
    <3>3. registered \in 0..MaxProtocols /\ received \in 0..MaxBytes /\ pc \in 0..(registered + 1)
      BY ProtocolsAssumption, BytesAssumption DEF Init
    <3> QED
      BY <3>1, <3>2, <3>3 DEF Init, TypeOK
  <2>3. Stream /\ Frames /\ Handed /\ Round /\ Attended
    BY <2>1 DEF Init, Stream, Frames, Handed, HandedInOrder, Round, Attended
  <2> QED
    BY <2>2, <2>3 DEF IInv
<1>2. TypeOK /\ IInv /\ [Next]_vars => TypeOK' /\ IInv'
  <2> SUFFICES ASSUME TypeOK, IInv, [Next]_vars
               PROVE  TypeOK' /\ IInv'
    OBVIOUS
  <2>1. CASE UNCHANGED vars
    <3> USE <2>1 DEF vars, dispatcher, sender, history
    <3>1. TypeOK'
      BY DEF TypeOK
    <3>2. Stream' /\ Frames' /\ Handed'
      BY DEF IInv, Stream, Frames, Framed, Gone, Handed, HandedInOrder
    <3>3. Round'
      BY DEF IInv, Round, Finds, Tails
    <3>4. Attended'
      BY DEF IInv, Attended, Gone
    <3> QED
      BY <3>1, <3>2, <3>3, <3>4 DEF IInv
  <2>2. ASSUME NEW p \in Protocol, ProcessProtocol(p) PROVE TypeOK' /\ IInv'
    BY <2>2, TakesStep, PassesStep
  <2> QED
    BY <2>1, <2>2, ReceiveStep, OwnerStep, AppendDataStep, RoundEndsStep DEF Next, ProcessAllData
<1> QED
  BY <1>1, <1>2, PTL DEF Spec

\* Every variable of the dispatcher and its sender keeps its type, and a protocol
\* is on only when it is registered; for any number of protocols and bytes.
THEOREM TypeCorrect == Spec => []TypeOK
  BY Inductive, PTL

\* appendData, processAllData: protocols get whole messages of their own, in the
\* order they were received, none twice and none after a later one.
THEOREM HandedInOrderHolds == Spec => []HandedInOrder
<1>1. IInv => HandedInOrder
  BY DEF IInv, Handed
<1> QED
  BY <1>1, Inductive, PTL

\* A message is neither lost nor torn, unless one call brought the ends of messages
\* of two protocols, or a protocol was not there for bytes of its own.
THEOREM LossNeedsCrowdHolds == Spec => []LossNeedsCrowd
<1>1. TypeOK /\ IInv => LossNeedsCrowd
  <2> SUFFICES ASSUME TypeOK, IInv, ~crowded, ~unattended, NEW m \in complete, m \notin ToSet(taken)
               PROVE  \E b \in ToSet(data \o incoming) : b.at = m.first
    BY DEF LossNeedsCrowd, Kept
  <2> DEFINE buffer == data \o incoming
             x == m.first - Gone
  <2>1. m.first \in Nat /\ m.first > Gone /\ m.first <= received
    <3>1. m.first > Gone
      BY DEF IInv, Attended
    <3>2. m.first \in Nat /\ m.last \in Nat /\ m.first < m.last /\ m.last <= received /\ received \in Nat
      BY MessageType, Bytes DEF IInv, Frames
    <3> HIDE DEF Gone
    <3> QED
      BY <3>1, <3>2
  <2>2. x \in 1..(Len(data) + Len(incoming)) /\ Gone + x = m.first
    BY <2>1, Bytes DEF IInv
  <2>3. /\ DOMAIN buffer = 1..(Len(data) + Len(incoming))
        /\ \A i \in 1..Len(data) : buffer[i] = data[i]
        /\ \A i \in 1..Len(incoming) : buffer[Len(data) + i] = incoming[i]
    BY Joined DEF TypeOK
  <2>4. buffer[x].at = m.first
    <3> HIDE DEF x, buffer
    <3>1. CASE x \in DOMAIN data
      BY <2>2, <2>3, <3>1, Bytes DEF IInv
    <3>2. CASE x \notin DOMAIN data
      <4>1. x - Len(data) \in DOMAIN incoming /\ Len(data) + (x - Len(data)) = x
        BY <2>2, <3>2, Bytes DEF IInv
      <4>2. incoming[x - Len(data)].at = Gone + Len(data) + (x - Len(data))
        BY <4>1, Bytes DEF IInv
      <4>3. buffer[x] = incoming[x - Len(data)]
        BY <2>3, <4>1, Bytes DEF IInv
      <4> QED
        BY <2>2, <4>1, <4>2, <4>3, Bytes DEF IInv
    <3> QED
      BY <3>1, <3>2
  <2> HIDE DEF x, buffer
  <2>5. buffer[x] \in ToSet(buffer)
    BY <2>2, <2>3 DEF ToSet
  <2> QED
    BY <2>4, <2>5 DEF buffer
<1> QED
  BY <1>1, Inductive, PTL
=============================================================================

------------------------ MODULE ProtocolDispatcher ------------------------
(***************************************************************************)
(* DynamicProtocolDispatcher: received bytes are appended to one buffer,   *)
(* and the protocols are asked in the order of their registration, round   *)
(* after round, to take one message each off its front.                    *)
(*                                                                         *)
(* A protocol finds its first head and the first tail after it; what lies  *)
(* before the head is dumped.  The sender frames its messages: it begins   *)
(* one only when the last one is complete.                                 *)
(***************************************************************************)
EXTENDS Integers, Sequences, FiniteSets, SequencesExt, FiniteSetsExt

CONSTANTS
  MaxProtocols,   \* protocols registered
  MaxBytes        \* bytes received; bounds the state space

ASSUME ProtocolsAssumption == MaxProtocols \in Nat \ {0}
ASSUME BytesAssumption == MaxBytes \in Nat

VARIABLES
  data,         \* data_
  registered,   \* protocols_.size()
  active,       \* the protocols whose isActive() holds
  pc,           \* 0, or the protocol processAllData is at
  prev,         \* prev_end - prev_begin
  taken,        \* the messages protocols took, in order
  incoming,     \* bytes received and not appended yet
  open,         \* the message the sender is at: its protocol (or 0) and head
  received,     \* number of bytes received
  complete,     \* history: the messages received whole
  crowded,      \* history: one call brought the ends of two protocols' messages
  unattended    \* history: a protocol was not there for bytes of its own

dispatcher == <<data, pc, prev, taken>>
sender     == <<incoming, open, received, complete>>
history    == <<crowded, unattended>>
vars       == <<registered, active, dispatcher, sender, history>>

Protocol == 1..MaxProtocols
Part     == {"head", "tail", "other"}
Byte     == [of : Protocol \cup {0}, part : Part, at : Nat]
Message  == [of : Protocol, first : Nat, last : Nat]

Init ==
  /\ data = <<>> /\ registered = 0 /\ active = {} /\ pc = 0 /\ prev = 0 /\ taken = <<>>
  /\ incoming = <<>> /\ open = [of |-> 0, first |-> 0] /\ received = 0 /\ complete = {}
  /\ crowded = FALSE /\ unattended = FALSE

-----------------------------------------------------------------------------
\* One more byte from the sender: outside the frames, a head, or a tail.
Receive ==
  /\ pc = 0 /\ received < MaxBytes
  /\ received' = received + 1
  /\ \E b \in [of : Protocol \cup {0}, part : Part, at : {received'}] :
       /\ incoming' = Append(incoming, b)
       /\ \/ /\ b.part = "other" /\ b.of = 0
             /\ UNCHANGED <<open, complete>>
          \/ /\ b.part = "head" /\ b.of # 0 /\ open.of = 0
             /\ open' = [of |-> b.of, first |-> b.at]
             /\ UNCHANGED complete
          \/ /\ b.part = "tail" /\ b.of # 0 /\ open.of = b.of
             /\ open' = [of |-> 0, first |-> 0]
             /\ complete' = complete \cup {[of |-> b.of, first |-> open.first, last |-> b.at]}
  /\ UNCHANGED <<registered, active, dispatcher, history>>

\* protocols_.push_back; the new protocol may be active or not.
AddProtocol ==
  /\ pc = 0 /\ registered < MaxProtocols
  /\ registered' = registered + 1
  /\ active' \in {active, active \cup {registered'}}
  /\ UNCHANGED <<dispatcher, sender, history>>

\* The owner of a protocol turns it on or off.
SetState(p) ==
  /\ pc = 0 /\ p <= registered
  /\ active' = IF p \in active THEN active \ {p} ELSE active \cup {p}
  /\ UNCHANGED <<registered, dispatcher, sender, history>>

\* appendData up to the loop of processAllData.
AppendData ==
  /\ pc = 0 /\ incoming # <<>>
  /\ data' = data \o incoming
  /\ prev' = Len(data')
  /\ pc' = 1
  /\ incoming' = <<>>
  /\ crowded' = (crowded \/ \E b, c \in ToSet(incoming) :
                              b.part = "tail" /\ c.part = "tail" /\ b.of # c.of)
  /\ unattended' = (unattended \/ \E b \in ToSet(data') : b.of \notin active \cup {0})
  /\ UNCHANGED <<registered, active, taken, open, received, complete>>

\* consumeOneMessage: the ends of the messages p finds, by their index.
Tails(p) ==
  {j \in DOMAIN data : /\ data[j].of = p /\ data[j].part = "tail"
                       /\ \E i \in 1..j : data[i].of = p /\ data[i].part = "head"}

\* The index of the head of the message p finds.
First(p) == Min({i \in DOMAIN data : data[i].of = p /\ data[i].part = "head"})

Finds(p) == Tails(p) # {}

\* Mutant: erase(consumed.first, consumed.second).
ProcessProtocolKeepsFront(p) ==
  /\ pc = p /\ p <= registered
  /\ pc' = p + 1
  /\ IF p \in active /\ Finds(p)
     THEN LET first == First(p)
              last  == Min(Tails(p))
          IN  /\ data' = SubSeq(data, 1, first - 1) \o SubSeq(data, last + 1, Len(data))
              /\ taken' = Append(taken, [of |-> p, first |-> data[first].at, last |-> data[last].at])
     ELSE UNCHANGED <<data, taken>>
  /\ UNCHANGED <<registered, active, prev, sender, history>>

\* Mutant: data_.clear().
ProcessProtocolClears(p) ==
  /\ pc = p /\ p <= registered
  /\ pc' = p + 1
  /\ IF p \in active /\ Finds(p)
     THEN LET first == First(p)
              last  == Min(Tails(p))
          IN  /\ data' = <<>>
              /\ taken' = Append(taken, [of |-> p, first |-> data[first].at, last |-> data[last].at])
     ELSE UNCHANGED <<data, taken>>
  /\ UNCHANGED <<registered, active, prev, sender, history>>

\* processProtocol: an active protocol takes one message, and everything up to
\* its end is erased.
ProcessProtocol(p) ==
  /\ pc = p /\ p <= registered
  /\ pc' = p + 1
  /\ IF p \in active /\ Finds(p)
     THEN LET first == First(p)
              last  == Min(Tails(p))
          IN  /\ data' = SubSeq(data, last + 1, Len(data))
              /\ taken' = Append(taken, [of |-> p, first |-> data[first].at, last |-> data[last].at])
     ELSE UNCHANGED <<data, taken>>
  /\ UNCHANGED <<registered, active, prev, sender, history>>

\* Mutant: one round only.
RoundEndsLoop ==
  /\ pc = registered + 1
  /\ pc' = 0
  /\ prev' = Len(data)
  /\ UNCHANGED <<registered, active, data, taken, sender, history>>

\* The end of a round: another one, unless nothing was erased or nothing is
\* left.  (Erasing from the front moves the end of the vector only.)
RoundEnds ==
  /\ pc = registered + 1
  /\ pc' = IF Len(data) = prev \/ data = <<>> THEN 0 ELSE 1
  /\ prev' = Len(data)
  /\ UNCHANGED <<registered, active, data, taken, sender, history>>

ProcessAllData == (\E p \in Protocol : ProcessProtocol(p)) \/ RoundEnds

Next ==
  \/ Receive \/ AddProtocol \/ (\E p \in Protocol : SetState(p))
  \/ AppendData \/ ProcessAllData

Spec == Init /\ [][Next]_vars

\* A call of appendData runs on.
FairSpec == Spec /\ WF_vars(ProcessAllData)

-----------------------------------------------------------------------------
(***************************************************************************)
(* Protocols get whole messages of their own, in the order they were       *)
(* received, whoever takes them: none twice, none after a later one.       *)
(***************************************************************************)
HandedInOrder ==
  \A j \in DOMAIN taken :
    /\ taken[j] \in complete
    /\ j > 1 => taken[j - 1].last < taken[j].first

(***************************************************************************)
(* A message is neither lost nor torn, unless one call brought the ends of *)
(* messages of two protocols (the one asked first then dumps the other's), *)
(* or a protocol was inactive or not registered for bytes of its own.      *)
(***************************************************************************)
Kept(m) == m \in ToSet(taken) \/ \E b \in ToSet(data \o incoming) : b.at = m.first

LossNeedsCrowd == (\E m \in complete : ~Kept(m)) => crowded \/ unattended

(***************************************************************************)
(* appendData returns, and leaves nothing that an active protocol could    *)
(* take.                                                                   *)
(***************************************************************************)
ReturnsSettled == pc # 0 ~> (pc = 0 /\ \A p \in active : ~Finds(p))

-----------------------------------------------------------------------------
\* Every variable keeps its type; a protocol is on only when it is registered.
TypeOK ==
  /\ registered \in 0..MaxProtocols /\ active \subseteq 1..registered
  /\ pc \in 0..(registered + 1) /\ prev \in Nat /\ received \in 0..MaxBytes
  /\ data \in Seq(Byte) /\ incoming \in Seq(Byte) /\ taken \in Seq(Message)
  /\ open \in [of : Protocol \cup {0}, first : Nat] /\ complete \subseteq Message
  /\ crowded \in BOOLEAN /\ unattended \in BOOLEAN

(***************************************************************************)
(* The inductive invariant behind HandedInOrder and LossNeedsCrowd: the    *)
(* bytes held are the last ones received, and they begin between frames.   *)
(***************************************************************************)

\* The bytes that are no longer held.
Gone == received - Len(data) - Len(incoming)

\* A byte plays the part that the frames give it.
Framed(b) ==
  /\ b.part = "tail" => \E m \in complete : m.of = b.of /\ m.last = b.at
  /\ b.part = "head" => \/ open.of # 0 /\ open.of = b.of /\ open.first = b.at
                        \/ \E m \in complete : m.of = b.of /\ m.first = b.at
  /\ \A m \in complete : /\ b.at = m.first => b.part = "head" /\ b.of = m.of
                         /\ b.at = m.last => b.part = "tail" /\ b.of = m.of
  /\ open.of # 0 /\ b.at = open.first => b.part = "head" /\ b.of = open.of

\* The bytes held are consecutive and framed.
Stream ==
  /\ Gone \in Nat
  /\ \A i \in DOMAIN data : data[i].at = Gone + i /\ Framed(data[i])
  /\ \A i \in DOMAIN incoming : incoming[i].at = Gone + Len(data) + i /\ Framed(incoming[i])

\* Frames follow one another, and none is cut where the bytes held begin.
Frames ==
  /\ \A m \in complete : /\ 0 < m.first /\ m.first < m.last /\ m.last <= received
                         /\ m.last <= Gone \/ m.first > Gone
  /\ \A m, n \in complete : m = n \/ m.last < n.first \/ n.last < m.first
  /\ open.of # 0 => /\ Gone < open.first /\ open.first <= received
                    /\ \A m \in complete : m.last < open.first

\* What protocols took is gone.
Handed == HandedInOrder /\ \A j \in DOMAIN taken : taken[j].last <= Gone

\* A round that has erased nothing so far: the protocols asked found nothing.
Round ==
  pc # 0 => /\ Len(data) <= prev
            /\ Len(data) = prev => \A p \in active : p < pc => ~Finds(p)

\* While all is attended and not crowded, a call works on the messages of one
\* protocol, and leaves no whole message behind.
Attended ==
  crowded \/ unattended \/
    /\ \A m \in complete : m \in ToSet(taken) \/ m.first > Gone
    /\ \A i \in DOMAIN data : data[i].part = "tail" => pc # 0
    /\ pc # 0 => /\ \A i \in DOMAIN data : data[i].of \in active \cup {0}
                 /\ \A i, k \in DOMAIN data :
                      data[i].part = "tail" /\ data[k].part = "tail" => data[i].of = data[k].of

IInv == Stream /\ Frames /\ Handed /\ Round /\ Attended
=============================================================================

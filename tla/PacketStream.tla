--------------------------- MODULE PacketStream ---------------------------
(***************************************************************************)
(* What sending promises to the window: the bytes that left of a packet    *)
(* are a beginning of it, whatever else is being sent; and a packet is     *)
(* reported failed at most once, only while bytes of it are missing, and   *)
(* sends nothing afterwards.                                               *)
(***************************************************************************)
EXTENDS Naturals, Sequences

CONSTANTS MaxPackets, Size

VARIABLES
  offered,   \* packets handed to write()
  out,       \* what left of each packet
  reported   \* packets reported failed

vars == <<offered, out, reported>>

Packet    == 1..MaxPackets
Prefix(n) == [k \in 1..n |-> k]   \* the first n bytes of a packet

Init == offered = 0 /\ out = [p \in Packet |-> <<>>] /\ reported = {}

Offer ==
  /\ offered < MaxPackets
  /\ offered' = offered + 1
  /\ UNCHANGED <<out, reported>>

\* A packet is unfinished from write() on, until it has left or failed.
Unfinished(p) == p <= offered /\ p \notin reported /\ Len(out[p]) < Size

Emit(p) ==
  /\ Unfinished(p)
  /\ \E n \in (Len(out[p]) + 1)..Size : out' = [out EXCEPT ![p] = Prefix(n)]
  /\ UNCHANGED <<offered, reported>>

Report(p) ==
  /\ Unfinished(p)
  /\ reported' = reported \cup {p}
  /\ UNCHANGED <<offered, out>>

Next == Offer \/ \E p \in Packet : Emit(p) \/ Report(p)

Spec == Init /\ [][Next]_vars
=============================================================================

--------------------- MODULE ThroughputHistogramProofs ---------------------
(***************************************************************************)
(* For every window size: the ring indices stay in range, the two rings    *)
(* move together and implement the sliding window, what is drawn while     *)
(* they change lies within the limits but for the points that changed, and *)
(* a sum that fits an int is averaged exactly.                             *)
(***************************************************************************)
EXTENDS ThroughputHistogram, TLAPS, WellFoundedInduction

IsSequence(d) == \E S : d \in Seq(S)

\* A ring of points of any kind: RingOK without the type of the points.
Ring(b) ==
  /\ b \in [data : {b.data}, prev_offset : Int, offset : Nat]
  /\ IsSequence(b.data)
  /\ Len(b.data) <= MaxSize
  /\ b.prev_offset = -1 => b.offset = 0
  /\ b.prev_offset # -1 => /\ Len(b.data) = MaxSize
                           /\ b.prev_offset \in 0..(MaxSize - 1)
                           /\ b.offset = IF b.prev_offset = MaxSize - 1 THEN 0
                                                                        ELSE b.prev_offset + 1

\* The inductive invariant: Lockstep needs the shape of both rings, and of the
\* points of the first.
HInv ==
  /\ io \in {"idle", "average", "limits"}
  /\ Ring(data_sizes) /\ Ring(avg_data_sizes) /\ Ring(Caught)
  /\ data_sizes.data \in Seq(Point)
  /\ io # "idle" => Len(data_sizes.data) > 0
  /\ Lockstep

\* The index of the next slot, without the modulus.
LEMMA NextSlot ==
  ASSUME NEW o \in 0..(MaxSize - 1)
  PROVE  (o + 1) % MaxSize = IF o = MaxSize - 1 THEN 0 ELSE o + 1
<1>1. MaxSize \in Nat \ {0} /\ o \in Nat
  BY SizeAssumption
<1>2. CASE o = MaxSize - 1
  BY <1>1, <1>2
<1>3. CASE o # MaxSize - 1
  BY <1>1, <1>3
<1> QED
  BY <1>2, <1>3

\* Appending to a sequence of anything.
LEMMA AppendElements ==
  ASSUME NEW d, IsSequence(d), NEW p
  PROVE  /\ IsSequence(Append(d, p))
         /\ Len(d) \in Nat
         /\ Len(Append(d, p)) = Len(d) + 1
         /\ \A i \in 1..Len(d) : Append(d, p)[i] = d[i]
         /\ Append(d, p)[Len(d) + 1] = p
<1>1. PICK S : d \in Seq(S)
  BY DEF IsSequence
<1>2. d \in Seq(S \cup {p}) /\ p \in S \cup {p}
  BY <1>1
<1>3. Append(d, p) \in Seq(S \cup {p})
  BY <1>2
<1> QED
  BY <1>2, <1>3 DEF IsSequence

\* Overwriting an element of a sequence of anything.
LEMMA ExceptElements ==
  ASSUME NEW d, IsSequence(d), NEW k \in 1..Len(d), NEW p
  PROVE  /\ IsSequence([d EXCEPT ![k] = p])
         /\ Len([d EXCEPT ![k] = p]) = Len(d)
         /\ \A i \in 1..Len(d) : [d EXCEPT ![k] = p][i] = IF i = k THEN p ELSE d[i]
<1>1. PICK S : d \in Seq(S)
  BY DEF IsSequence
<1>2. d \in Seq(S \cup {p}) /\ p \in S \cup {p}
  BY <1>1
<1>3. [d EXCEPT ![k] = p] \in Seq(S \cup {p}) /\ Len([d EXCEPT ![k] = p]) = Len(d)
  BY <1>2
<1>4. \A i \in 1..Len(d) : [d EXCEPT ![k] = p][i] = IF i = k THEN p ELSE d[i]
  BY <1>2
<1> QED
  BY <1>3, <1>4 DEF IsSequence

\* addPoint on a ring that still grows.
LEMMA AddPointGrows ==
  ASSUME NEW b, Ring(b), NEW p, Len(b.data) < MaxSize
  PROVE  LET c == AddPoint(b, p) IN
         /\ Ring(c)
         /\ c.data = Append(b.data, p)
         /\ c.prev_offset = b.prev_offset /\ c.offset = b.offset
<1> DEFINE c == AddPoint(b, p)
<1>1. c = [data |-> Append(b.data, p), prev_offset |-> b.prev_offset, offset |-> b.offset]
  BY DEF AddPoint, Ring
<1>2. b.prev_offset = -1 /\ b.offset = 0
  BY SizeAssumption DEF Ring
<1>3. IsSequence(c.data) /\ Len(c.data) <= MaxSize
  BY <1>1, AppendElements, SizeAssumption DEF Ring
<1> QED
  BY <1>1, <1>2, <1>3 DEF Ring

\* addPoint on a full ring.
LEMMA AddPointWraps ==
  ASSUME NEW b, Ring(b), NEW p, ~(Len(b.data) < MaxSize)
  PROVE  LET c == AddPoint(b, p) IN
         /\ Ring(c)
         /\ Len(b.data) = MaxSize /\ b.offset \in 0..(MaxSize - 1)
         /\ c.data = [b.data EXCEPT ![b.offset + 1] = p]
         /\ c.prev_offset = b.offset
         /\ c.offset = IF b.offset = MaxSize - 1 THEN 0 ELSE b.offset + 1
<1> DEFINE c == AddPoint(b, p)
<1>0. MaxSize \in Nat \ {0}
  BY SizeAssumption
<1>1. c = [data |-> [b.data EXCEPT ![b.offset + 1] = p],
           prev_offset |-> b.offset, offset |-> (b.offset + 1) % MaxSize]
  BY DEF AddPoint
<1>2. Len(b.data) \in Nat
  BY DEF Ring, IsSequence
<1>3. Len(b.data) = MaxSize /\ b.offset \in 0..(MaxSize - 1)
  BY <1>0, <1>2 DEF Ring
<1>4. c.offset = IF b.offset = MaxSize - 1 THEN 0 ELSE b.offset + 1
  BY <1>1, <1>3, NextSlot
<1>5. IsSequence(c.data) /\ Len(c.data) = MaxSize
  <2>1. b.offset + 1 \in 1..Len(b.data) /\ IsSequence(b.data)
    BY <1>0, <1>3 DEF Ring
  <2>2. /\ IsSequence([b.data EXCEPT ![b.offset + 1] = p])
        /\ Len([b.data EXCEPT ![b.offset + 1] = p]) = Len(b.data)
    BY <2>1, ExceptElements
  <2>3. c.data = [b.data EXCEPT ![b.offset + 1] = p]
    BY <1>1
  <2> QED
    BY <1>3, <2>2, <2>3
<1>6. c.offset \in Nat /\ c.prev_offset \in Int /\ c.prev_offset # -1
  BY <1>0, <1>1, <1>3, <1>4
<1>7. c \in [data : {c.data}, prev_offset : Int, offset : Nat]
  BY <1>1, <1>6
<1> HIDE DEF c
<1>8. Ring(c)
  BY <1>0, <1>3, <1>4, <1>5, <1>6, <1>7, <1>1 DEF Ring
<1> QED
  BY <1>1, <1>3, <1>4, <1>8 DEF c

-----------------------------------------------------------------------------
\* Slots are positions of data, and the newest point is the last one shown.
LEMMA SlotNewest ==
  ASSUME NEW b, Ring(b), NEW i \in 1..Len(b.data)
  PROVE  /\ Slot(b, i) \in 1..Len(b.data)
         /\ Newest(b) \in 1..Len(b.data)
         /\ Slot(b, i) = Newest(b) <=> i = Len(b.data)
<1>1. MaxSize \in Nat \ {0} /\ Len(b.data) \in Nat /\ b.offset \in Nat /\ b.prev_offset \in Int
  BY SizeAssumption DEF Ring, IsSequence
<1>2. CASE b.prev_offset = -1
  BY <1>1, <1>2 DEF Ring, Slot, Newest
<1>3. CASE b.prev_offset # -1
  BY <1>1, <1>3 DEF Ring, Slot, Newest
<1> QED
  BY <1>2, <1>3

\* The point that addPoint adds is the newest, and all others stay.
LEMMA NewestAdded ==
  ASSUME NEW b, Ring(b), NEW p
  PROVE  LET c == AddPoint(b, p) IN
         /\ Ring(c) /\ Len(c.data) > 0
         /\ Newest(c) \in 1..Len(c.data)
         /\ c.data[Newest(c)] = p
         /\ Len(b.data) <= Len(c.data)
         /\ \A i \in 1..Len(c.data) : i # Newest(c) => i \in 1..Len(b.data) /\ c.data[i] = b.data[i]
<1> DEFINE c == AddPoint(b, p)
<1>0. Len(b.data) \in Nat /\ IsSequence(b.data) /\ MaxSize \in Nat \ {0}
  BY SizeAssumption DEF Ring, IsSequence
<1>1. CASE Len(b.data) < MaxSize
  <2>1. Ring(c) /\ c.data = Append(b.data, p) /\ c.prev_offset = b.prev_offset
    BY <1>1, AddPointGrows
  <2>2. b.prev_offset = -1
    BY <1>0, <1>1 DEF Ring
  <2>3. /\ Len(c.data) = Len(b.data) + 1 /\ c.data[Len(b.data) + 1] = p
        /\ \A i \in 1..Len(b.data) : c.data[i] = b.data[i]
    BY <1>0, <2>1, AppendElements
  <2> HIDE DEF c
  <2>4. Newest(c) = Len(b.data) + 1
    BY <2>1, <2>2, <2>3 DEF Newest
  <2> QED
    BY <1>0, <2>1, <2>3, <2>4 DEF c
<1>2. CASE ~(Len(b.data) < MaxSize)
  <2>1. /\ Ring(c) /\ c.data = [b.data EXCEPT ![b.offset + 1] = p] /\ c.prev_offset = b.offset
        /\ Len(b.data) = MaxSize /\ b.offset \in 0..(MaxSize - 1)
    BY <1>2, AddPointWraps
  <2>2. b.offset + 1 \in 1..Len(b.data)
    BY <1>0, <2>1
  <2>3. /\ Len(c.data) = Len(b.data)
        /\ \A i \in 1..Len(b.data) : c.data[i] = IF i = b.offset + 1 THEN p ELSE b.data[i]
    BY <1>0, <2>1, <2>2, ExceptElements
  <2> HIDE DEF c
  <2>4. Newest(c) = b.offset + 1
    BY <1>0, <2>1 DEF Newest
  <2> QED
    BY <1>0, <2>1, <2>2, <2>3, <2>4 DEF c
<1> QED
  BY <1>1, <1>2

\* Two points of the same time are added alike, as far as times go.
LEMMA AddedAlike ==
  ASSUME NEW b, Ring(b), NEW p, NEW q, p.x = q.x
  PROVE  LET c == AddPoint(b, p)
             e == AddPoint(b, q) IN
         /\ Len(c.data) = Len(e.data)
         /\ c.offset = e.offset /\ c.prev_offset = e.prev_offset
         /\ \A i \in 1..Len(c.data) : c.data[i].x = e.data[i].x
<1> DEFINE c == AddPoint(b, p)
           e == AddPoint(b, q)
<1>0. Len(b.data) \in Nat /\ IsSequence(b.data) /\ MaxSize \in Nat \ {0}
  BY SizeAssumption DEF Ring, IsSequence
<1>1. CASE Len(b.data) < MaxSize
  <2>1. /\ c.data = Append(b.data, p) /\ c.prev_offset = b.prev_offset /\ c.offset = b.offset
        /\ e.data = Append(b.data, q) /\ e.prev_offset = b.prev_offset /\ e.offset = b.offset
    BY <1>1, AddPointGrows
  <2>2. /\ Len(c.data) = Len(b.data) + 1 /\ c.data[Len(b.data) + 1] = p
        /\ Len(e.data) = Len(b.data) + 1 /\ e.data[Len(b.data) + 1] = q
        /\ \A i \in 1..Len(b.data) : c.data[i] = b.data[i] /\ e.data[i] = b.data[i]
    BY <1>0, <2>1, AppendElements
  <2> HIDE DEF c, e
  <2>3. \A i \in 1..(Len(b.data) + 1) : i \in 1..Len(b.data) \/ i = Len(b.data) + 1
    BY <1>0
  <2> QED
    BY <2>1, <2>2, <2>3 DEF c, e
<1>2. CASE ~(Len(b.data) < MaxSize)
  <2>1. /\ c.data = [b.data EXCEPT ![b.offset + 1] = p] /\ c.prev_offset = b.offset
        /\ c.offset = IF b.offset = MaxSize - 1 THEN 0 ELSE b.offset + 1
        /\ Len(b.data) = MaxSize /\ b.offset \in 0..(MaxSize - 1)
    BY <1>2, AddPointWraps
  <2>2. /\ e.data = [b.data EXCEPT ![b.offset + 1] = q] /\ e.prev_offset = b.offset
        /\ e.offset = IF b.offset = MaxSize - 1 THEN 0 ELSE b.offset + 1
    BY <1>2, AddPointWraps
  <2>3. b.offset + 1 \in 1..Len(b.data)
    BY <1>0, <2>1
  <2>4. /\ Len(c.data) = Len(b.data)
        /\ \A i \in 1..Len(b.data) : c.data[i] = IF i = b.offset + 1 THEN p ELSE b.data[i]
    BY <1>0, <2>1, <2>3, ExceptElements
  <2>5. /\ Len(e.data) = Len(b.data)
        /\ \A i \in 1..Len(b.data) : e.data[i] = IF i = b.offset + 1 THEN q ELSE b.data[i]
    BY <1>0, <2>2, <2>3, ExceptElements
  <2> HIDE DEF c, e
  <2>6. \A i \in 1..Len(c.data) : c.data[i].x = e.data[i].x
    BY <2>4, <2>5
  <2> QED
    BY <2>1, <2>2, <2>4, <2>5, <2>6 DEF c, e
<1> QED
  BY <1>1, <1>2

\* Append as a function.
LEMMA AppendIsFunction ==
  ASSUME NEW S, NEW s \in Seq(S), NEW e \in S
  PROVE  Append(s, e) = [i \in 1..(Len(s) + 1) |-> IF i <= Len(s) THEN s[i] ELSE e]
<1> DEFINE f == [i \in 1..(Len(s) + 1) |-> IF i <= Len(s) THEN s[i] ELSE e]
           a == Append(s, e)
<1>1. Len(s) \in Nat /\ s \in [1..Len(s) -> S]
  OBVIOUS
<1>2. a \in Seq(S) /\ Len(a) = Len(s) + 1
  OBVIOUS
<1>3. a \in [1..(Len(s) + 1) -> S]
  <2> HIDE DEF a
  <2> QED
    BY <1>1, <1>2
<1>4. f \in [1..(Len(s) + 1) -> S]
  BY <1>1
<1>5. \A i \in 1..(Len(s) + 1) : a[i] = f[i]
  BY <1>1
<1> HIDE DEF a, f
<1>6. a = f
  BY <1>3, <1>4, <1>5
<1> QED
  BY <1>6 DEF a, f

\* What SlidingWindow's Slide does to a sequence of anything.
LEMMA SlideElements ==
  ASSUME NEW s, IsSequence(s), NEW e, Len(s) <= MaxSize
  PROVE  /\ Len(s) < MaxSize =>
              SW!Slide(s, e) = [i \in 1..(Len(s) + 1) |-> IF i <= Len(s) THEN s[i] ELSE e]
         /\ Len(s) = MaxSize =>
              SW!Slide(s, e) = [i \in 1..MaxSize |-> IF i < MaxSize THEN s[i + 1] ELSE e]
<1>0. MaxSize \in Nat \ {0}
  BY SizeAssumption
<1>1. PICK S : s \in Seq(S)
  BY DEF IsSequence
<1>2. s \in Seq(S \cup {e}) /\ e \in S \cup {e}
  BY <1>1
<1>3. Len(s) < MaxSize =>
        SW!Slide(s, e) = [i \in 1..(Len(s) + 1) |-> IF i <= Len(s) THEN s[i] ELSE e]
  BY <1>0, <1>2, AppendIsFunction DEF SW!Slide
<1>4. ASSUME Len(s) = MaxSize
      PROVE  SW!Slide(s, e) = [i \in 1..MaxSize |-> IF i < MaxSize THEN s[i + 1] ELSE e]
  <2>1. Tail(s) \in Seq(S \cup {e}) /\ Len(Tail(s)) = MaxSize - 1
        /\ \A i \in 1..(MaxSize - 1) : Tail(s)[i] = s[i + 1]
    BY <1>0, <1>2, <1>4
  <2>2. SW!Slide(s, e) = Append(Tail(s), e)
    BY <1>0, <1>4 DEF SW!Slide
  <2>3. Append(Tail(s), e) = [i \in 1..MaxSize |-> IF i < MaxSize THEN Tail(s)[i] ELSE e]
    <3> DEFINE u == Tail(s)
    <3>1. u \in Seq(S \cup {e}) /\ e \in S \cup {e} /\ Len(u) = MaxSize - 1
      BY <1>2, <2>1
    <3> HIDE DEF u
    <3>2. Append(u, e) = [i \in 1..(Len(u) + 1) |-> IF i <= Len(u) THEN u[i] ELSE e]
      BY <3>1, AppendIsFunction
    <3>3. Append(u, e) = [i \in 1..MaxSize |-> IF i < MaxSize THEN u[i] ELSE e]
      BY <1>0, <3>1, <3>2
    <3> QED
      BY <3>3 DEF u
  <2> QED
    BY <1>0, <2>1, <2>2, <2>3
<1> QED
  BY <1>3, <1>4

\* The ring shown after addPoint: Slide, on the points or on any function of them.
LEMMA UnrolledSlides ==
  ASSUME NEW b, Ring(b), NEW p
  PROVE  LET c == AddPoint(b, p) IN
         /\ Len(b.data) < MaxSize =>
              /\ Len(c.data) = Len(b.data) + 1
              /\ \A i \in 1..Len(c.data) :
                   Unrolled(c)[i] = IF i <= Len(b.data) THEN Unrolled(b)[i] ELSE p
         /\ Len(b.data) = MaxSize =>
              /\ Len(c.data) = MaxSize
              /\ \A i \in 1..MaxSize :
                   Unrolled(c)[i] = IF i < MaxSize THEN Unrolled(b)[i + 1] ELSE p
<1> DEFINE c == AddPoint(b, p)
<1>0. MaxSize \in Nat \ {0} /\ Len(b.data) \in Nat /\ b.offset \in Nat /\ Len(b.data) <= MaxSize
  BY SizeAssumption DEF Ring, IsSequence
<1>1. ASSUME Len(b.data) < MaxSize
      PROVE  /\ Len(c.data) = Len(b.data) + 1
             /\ \A i \in 1..Len(c.data) :
                   Unrolled(c)[i] = IF i <= Len(b.data) THEN Unrolled(b)[i] ELSE p
  <2>1. c.data = Append(b.data, p) /\ c.offset = b.offset
    BY <1>1, AddPointGrows
  <2>2. b.offset = 0
    BY <1>0, <1>1 DEF Ring
  <2>3. /\ Len(Append(b.data, p)) = Len(b.data) + 1
        /\ \A i \in 1..Len(b.data) : Append(b.data, p)[i] = b.data[i]
        /\ Append(b.data, p)[Len(b.data) + 1] = p
    BY AppendElements DEF Ring
  <2> HIDE DEF c
  <2> QED
    BY <1>0, <2>1, <2>2, <2>3 DEF Unrolled, Slot
<1>2. ASSUME Len(b.data) = MaxSize
      PROVE  /\ Len(c.data) = MaxSize
             /\ \A i \in 1..MaxSize :
                   Unrolled(c)[i] = IF i < MaxSize THEN Unrolled(b)[i + 1] ELSE p
  <2>1. /\ b.offset \in 0..(MaxSize - 1)
        /\ c.data = [b.data EXCEPT ![b.offset + 1] = p]
        /\ c.offset = IF b.offset = MaxSize - 1 THEN 0 ELSE b.offset + 1
    BY <1>0, <1>2, AddPointWraps
  <2>2. b.offset + 1 \in 1..Len(b.data) /\ IsSequence(b.data)
    BY <1>0, <1>2, <2>1 DEF Ring
  <2>3. /\ Len([b.data EXCEPT ![b.offset + 1] = p]) = Len(b.data)
        /\ \A i \in 1..Len(b.data) :
             [b.data EXCEPT ![b.offset + 1] = p][i] = IF i = b.offset + 1 THEN p ELSE b.data[i]
    BY <2>2, ExceptElements
  <2> HIDE DEF c
  <2>4. Len(c.data) = MaxSize
        /\ \A i \in 1..MaxSize : c.data[i] = IF i = b.offset + 1 THEN p ELSE b.data[i]
    BY <1>2, <2>1, <2>3
  <2>5. ASSUME NEW i \in 1..MaxSize
        PROVE  Unrolled(c)[i] = IF i < MaxSize THEN Unrolled(b)[i + 1] ELSE p
    <3>1. Unrolled(c)[i] = c.data[Slot(c, i)]
      BY <2>4 DEF Unrolled, Slot
    <3>2. i < MaxSize => Unrolled(b)[i + 1] = b.data[Slot(b, i + 1)]
      BY <1>0, <1>2 DEF Unrolled, Slot
    <3>3. CASE i < MaxSize
      <4>1. Slot(c, i) = Slot(b, i + 1) /\ Slot(c, i) \in 1..MaxSize /\ Slot(c, i) # b.offset + 1
        <5>1. CASE b.offset = MaxSize - 1
          BY <1>0, <1>2, <2>1, <2>4, <3>3, <5>1 DEF Slot
        <5>2. CASE b.offset # MaxSize - 1
          <6>1. Slot(c, i) = IF b.offset + 1 + i <= MaxSize THEN b.offset + 1 + i
                                                            ELSE b.offset + 1 + i - MaxSize
            BY <2>1, <2>4, <5>2 DEF Slot
          <6>2. Slot(b, i + 1) = IF b.offset + (i + 1) <= MaxSize THEN b.offset + (i + 1)
                                                                  ELSE b.offset + (i + 1) - MaxSize
            BY <1>2 DEF Slot
          <6>3. b.offset \in Nat /\ i \in Nat /\ b.offset < MaxSize - 1 /\ i >= 1
            BY <1>0, <2>1, <5>2
          <6> QED
            BY <1>0, <3>3, <6>1, <6>2, <6>3
        <5> QED
          BY <5>1, <5>2
      <4> QED
        BY <2>4, <3>1, <3>2, <3>3, <4>1
    <3>4. CASE i = MaxSize
      <4>1. Slot(c, i) = b.offset + 1
        BY <1>0, <1>2, <2>1, <2>4, <3>4 DEF Slot
      <4> QED
        BY <1>0, <2>1, <2>4, <3>1, <3>4, <4>1
    <3> QED
      BY <1>0, <3>3, <3>4
  <2> QED
    BY <2>4, <2>5
<1> QED
  BY <1>1, <1>2

-----------------------------------------------------------------------------
\* A ring shown from its oldest point is a sequence as long as the ring.
LEMMA UnrolledSequence ==
  ASSUME NEW b, Ring(b), NEW S, b.data \in Seq(S)
  PROVE  Unrolled(b) \in Seq(S) /\ Len(Unrolled(b)) = Len(b.data)
<1> DEFINE n == Len(b.data)
           u == Unrolled(b)
<1>1. n \in Nat
  OBVIOUS
<1>2. u = [i \in 1..n |-> b.data[Slot(b, i)]]
  BY DEF Unrolled, Slot
<1>3. \A i \in 1..n : b.data[Slot(b, i)] \in S
  BY SlotNewest
<1> HIDE DEF n, u
<1>4. u \in [1..n -> S]
  BY <1>2, <1>3
<1>5. u \in Seq(S) /\ Len(u) = n
  BY <1>1, <1>4
<1> QED
  BY <1>5 DEF n, u

LEMMA HInvInit == Init => HInv
<1> SUFFICES ASSUME Init PROVE HInv
  OBVIOUS
<1>1. data_sizes = EmptyBuffer /\ avg_data_sizes = EmptyBuffer
  BY DEF Init
<1>2. <<>> \in Seq(Point) /\ IsSequence(<<>>) /\ Len(<<>>) = 0
  BY DEF IsSequence
<1>3. Ring(EmptyBuffer)
  BY <1>2, SizeAssumption DEF Ring, EmptyBuffer
<1> QED
  BY <1>1, <1>2, <1>3 DEF Init, HInv, Lockstep, EmptyBuffer, Caught

\* addToHisto on the newest point: only its bytes change.
LEMMA MergeStep ==
  ASSUME HInv, NEW x \in Clock, NEW y \in Chunk, CountBytes(x, y), Merges(data_sizes, x)
  PROVE  HInv' /\ SW!Accumulate(y) /\ Unrolled(data_sizes)[Len(Unrolled(data_sizes))].x = x
<1> DEFINE d == data_sizes.data
           n == Len(d)
           k == Newest(data_sizes)
           q == [x |-> d[k].x, y |-> d[k].y + y]
<1>0. y \in Nat /\ x \in Nat
  BY InputAssumption
<1>1. n \in Nat /\ n > 0 /\ Ring(data_sizes) /\ d \in Seq(Point) /\ d[k].x = x
  BY DEF HInv, Merges
<1>2. k \in 1..n /\ \A i \in 1..n : Slot(data_sizes, i) \in 1..n /\ (Slot(data_sizes, i) = k <=> i = n)
  BY <1>1, SlotNewest
<1>3. d[k] \in Point /\ q \in Point
  <2> HIDE DEF k
  <2>1. d[k] \in Point
    BY <1>1, <1>2
  <2> QED
    BY <1>0, <2>1 DEF Point
<1>4. /\ data_sizes' = [data_sizes EXCEPT !.data[k].y = @ + y]
      /\ io' = "limits" /\ avg_data_sizes' = avg_data_sizes /\ Caught' = Caught
  BY DEF CountBytes, Count, AddToHisto, Caught
<1>5. [d[k] EXCEPT !.y = @ + y] = q
  BY <1>3 DEF Point
<1>6. /\ data_sizes'.data = [d EXCEPT ![k] = q]
      /\ data_sizes'.prev_offset = data_sizes.prev_offset /\ data_sizes'.offset = data_sizes.offset
      /\ data_sizes' \in [data : {data_sizes'.data}, prev_offset : Int, offset : Nat]
  BY <1>1, <1>4, <1>5 DEF Ring
<1> HIDE DEF k
<1>7. /\ data_sizes'.data \in Seq(Point) /\ Len(data_sizes'.data) = n
      /\ \A i \in 1..n : data_sizes'.data[i] = IF i = k THEN q ELSE d[i]
  BY <1>1, <1>2, <1>3, <1>6
<1>8. Ring(data_sizes')
  BY <1>1, <1>6, <1>7 DEF Ring, IsSequence
<1>9. HInv'
  BY <1>2, <1>1, <1>4, <1>6, <1>7, <1>8 DEF HInv, Lockstep
<1>10. Unrolled(data_sizes) \in Seq(Point) /\ Len(Unrolled(data_sizes)) = n
  BY <1>1, UnrolledSequence
<1>11. Unrolled(data_sizes)[n] = d[k]
  BY <1>1, <1>2 DEF Unrolled, Slot
<1>12. Unrolled(data_sizes') = [Unrolled(data_sizes) EXCEPT ![n].y = @ + y]
  <2>1. [Unrolled(data_sizes)[n] EXCEPT !.y = @ + y] = q
    BY <1>5, <1>11
  <2>2. Unrolled(data_sizes') = [i \in 1..n |-> data_sizes'.data[Slot(data_sizes, i)]]
    BY <1>6, <1>7 DEF Unrolled, Slot
  <2>3. \A i \in 1..n : data_sizes'.data[Slot(data_sizes, i)] = IF i = n THEN q ELSE d[Slot(data_sizes, i)]
    BY <1>2, <1>7
  <2>4. Unrolled(data_sizes) = [i \in 1..n |-> d[Slot(data_sizes, i)]]
    BY DEF Unrolled, Slot
  <2> HIDE DEF q, n, d
  <2>5. Unrolled(data_sizes') = [i \in 1..n |-> IF i = n THEN q ELSE d[Slot(data_sizes, i)]]
    BY <2>2, <2>3, Zenon
  <2>6. [Unrolled(data_sizes) EXCEPT ![n].y = @ + y]
          = [i \in 1..n |-> IF i = n THEN [Unrolled(data_sizes)[n] EXCEPT !.y = @ + y]
                                     ELSE Unrolled(data_sizes)[i]]
    BY <2>4
  <2>7. \A i \in 1..n : Unrolled(data_sizes)[i] = d[Slot(data_sizes, i)]
    BY <2>4
  <2> QED
    BY <2>1, <2>5, <2>6, <2>7
<1>13. Unrolled(data_sizes) # <<>>
  BY <1>1, <1>10
<1>14. Times(Caught)' = Times(Caught)
  BY <1>4 DEF Times, Slot
<1> QED
  BY <1>1, <1>4, <1>9, <1>10, <1>11, <1>12, <1>13, <1>14 DEF SW!Accumulate

\* A new point enters both rings at the same slot.
LEMMA NewPointStep ==
  ASSUME HInv, NEW x \in Clock, NEW y \in Chunk, CountBytes(x, y), ~Merges(data_sizes, x)
  PROVE  HInv' /\ SW!Advance(x, y)
<1> DEFINE b == data_sizes
           a == Caught
           d == b.data
           n == Len(d)
           p == [x |-> x, y |-> y]
<1>0. x \in Nat /\ y \in Nat /\ p \in Point /\ MaxSize \in Nat \ {0}
  BY InputAssumption, SizeAssumption DEF Point
<1>1. /\ Ring(b) /\ Ring(a) /\ d \in Seq(Point) /\ n \in Nat /\ n <= MaxSize
      /\ Len(a.data) = n /\ a.offset = b.offset /\ a.prev_offset = b.prev_offset
      /\ \A i \in 1..n : a.data[i].x = d[i].x
  BY DEF HInv, Lockstep, Ring
<1>2. b' = AddPoint(b, p) /\ a' = AddPoint(a, p) /\ io' = "average" /\ Ring(avg_data_sizes')
      /\ b'.data[Newest(b')] = p /\ Len(b'.data) > 0
  <2>1. b' = AddPoint(b, p) /\ io' = "average" /\ io = "idle" /\ avg_data_sizes' = avg_data_sizes
    BY DEF CountBytes, Count, AddToHisto
  <2>2. b'.data[Newest(b')] = p /\ Len(b'.data) > 0
    BY <1>1, <2>1, NewestAdded
  <2>3. a = avg_data_sizes /\ a' = AddPoint(avg_data_sizes', b'.data[Newest(b')])
    BY <2>1 DEF Caught
  <2> QED
    BY <2>1, <2>2, <2>3 DEF HInv
<1> DEFINE r == p
<1> HIDE DEF a
<1>3. HInv'
  <2>1. CASE n < MaxSize
    <3>1. /\ Ring(b') /\ b'.data = Append(d, p)
          /\ b'.prev_offset = b.prev_offset /\ b'.offset = b.offset
      BY <1>1, <1>2, <2>1, AddPointGrows
    <3>2. /\ Ring(a') /\ a'.data = Append(a.data, r)
          /\ a'.prev_offset = a.prev_offset /\ a'.offset = a.offset
      BY <1>1, <1>2, <2>1, AddPointGrows
    <3>3. b'.data \in Seq(Point) /\ Len(b'.data) = n + 1
          /\ \A i \in 1..(n + 1) : b'.data[i] = IF i <= n THEN d[i] ELSE p
      BY <1>0, <1>1, <3>1
    <3>4. Len(a'.data) = n + 1 /\ \A i \in 1..(n + 1) : a'.data[i] = IF i <= n THEN a.data[i] ELSE r
      <4>1. /\ Len(Append(a.data, r)) = Len(a.data) + 1
            /\ \A i \in 1..Len(a.data) : Append(a.data, r)[i] = a.data[i]
            /\ Append(a.data, r)[Len(a.data) + 1] = r
        BY <1>1, AppendElements DEF Ring
      <4> QED
        BY <1>1, <3>2, <4>1
    <3>5. ASSUME NEW i \in 1..(n + 1) PROVE a'.data[i].x = b'.data[i].x
      <4>1. CASE i <= n
        <5>1. i \in 1..n
          BY <1>1, <4>1
        <5>2. a'.data[i] = a.data[i] /\ b'.data[i] = d[i]
          BY <3>3, <3>4, <4>1
        <5> QED
          BY <1>1, <5>1, <5>2
      <4>2. CASE ~(i <= n)
        <5>1. a'.data[i] = p /\ b'.data[i] = p
          BY <3>3, <3>4, <4>2
        <5> QED
          BY <5>1
      <4> QED
        BY <4>1, <4>2
    <3> QED
      BY <1>1, <1>2, <3>1, <3>2, <3>3, <3>4, <3>5 DEF HInv, Lockstep, a
  <2>2. CASE ~(n < MaxSize)
    <3>1. /\ Ring(b') /\ n = MaxSize /\ b.offset \in 0..(MaxSize - 1)
          /\ b'.data = [d EXCEPT ![b.offset + 1] = p] /\ b'.prev_offset = b.offset
          /\ b'.offset = IF b.offset = MaxSize - 1 THEN 0 ELSE b.offset + 1
      BY <1>1, <1>2, <2>2, AddPointWraps
    <3>2. /\ Ring(a') /\ a'.data = [a.data EXCEPT ![a.offset + 1] = r] /\ a'.prev_offset = a.offset
          /\ a'.offset = IF a.offset = MaxSize - 1 THEN 0 ELSE a.offset + 1
      BY <1>1, <1>2, <2>2, AddPointWraps
    <3>3. b'.data \in Seq(Point) /\ Len(b'.data) = n
          /\ \A i \in 1..n : b'.data[i] = IF i = b.offset + 1 THEN p ELSE d[i]
      BY <1>0, <1>1, <3>1
    <3>4. Len(a'.data) = n /\ \A i \in 1..n : a'.data[i] = IF i = b.offset + 1 THEN r ELSE a.data[i]
      <4>1. a.offset + 1 \in 1..Len(a.data) /\ IsSequence(a.data)
        BY <1>0, <1>1, <3>1 DEF Ring
      <4>2. /\ Len([a.data EXCEPT ![a.offset + 1] = r]) = Len(a.data)
            /\ \A i \in 1..Len(a.data) :
                 [a.data EXCEPT ![a.offset + 1] = r][i] = IF i = a.offset + 1 THEN r ELSE a.data[i]
        BY <4>1, ExceptElements
      <4> QED
        BY <1>1, <3>2, <4>2
    <3>5. \A i \in 1..n : a'.data[i].x = b'.data[i].x
      BY <1>1, <3>3, <3>4
    <3> QED
      BY <1>1, <1>2, <3>1, <3>2, <3>3, <3>4, <3>5 DEF HInv, Lockstep, a
  <2> QED
    BY <2>1, <2>2
<1>4. Unrolled(b) \in Seq(Point) /\ Len(Unrolled(b)) = n
  BY <1>1, UnrolledSequence
<1>5. Unrolled(b) = <<>> \/ Unrolled(b)[Len(Unrolled(b))].x # x
  <2>1. CASE n = 0
    BY <1>4, <2>1
  <2>2. CASE n # 0
    <3>1. n \in 1..n
      BY <1>1, <2>2
    <3>2. Unrolled(b)[n] = d[Slot(b, n)] /\ Slot(b, n) = Newest(b)
      BY <1>1, <3>1, SlotNewest DEF Unrolled, Slot
    <3>3. d[Newest(b)].x # x
      BY <1>1, <2>2 DEF Merges
    <3> QED
      BY <1>4, <3>2, <3>3
  <2> QED
    BY <2>1, <2>2
<1>6. Unrolled(b') = SW!Slide(Unrolled(b), p)
  <2>1. IsSequence(Unrolled(b)) /\ DOMAIN Unrolled(b') = 1..Len(b'.data)
    BY <1>4 DEF IsSequence, Unrolled
  <2>2. CASE n < MaxSize
    <3>1. /\ Len(b'.data) = n + 1
          /\ \A i \in 1..(n + 1) : Unrolled(b')[i] = IF i <= n THEN Unrolled(b)[i] ELSE p
      BY <1>1, <1>2, <2>2, UnrolledSlides
    <3>2. SW!Slide(Unrolled(b), p) = [i \in 1..(n + 1) |-> IF i <= n THEN Unrolled(b)[i] ELSE p]
      <4> DEFINE u == Unrolled(b)
      <4>1. IsSequence(u) /\ Len(u) = n /\ Len(u) < MaxSize /\ Len(u) <= MaxSize
        BY <1>1, <1>4, <2>1, <2>2
      <4> HIDE DEF u
      <4>2. SW!Slide(u, p) = [i \in 1..(Len(u) + 1) |-> IF i <= Len(u) THEN u[i] ELSE p]
        BY <4>1, SlideElements
      <4>3. SW!Slide(u, p) = [i \in 1..(n + 1) |-> IF i <= n THEN u[i] ELSE p]
        BY <4>1, <4>2
      <4> QED
        BY <4>3 DEF u
    <3>3. Unrolled(b') = [i \in 1..(n + 1) |-> Unrolled(b')[i]]
      BY <3>1 DEF Unrolled
    <3> QED
      BY <3>1, <3>2, <3>3
  <2>3. CASE n = MaxSize
    <3>1. /\ Len(b'.data) = MaxSize
          /\ \A i \in 1..MaxSize : Unrolled(b')[i] = IF i < MaxSize THEN Unrolled(b)[i + 1] ELSE p
      BY <1>1, <1>2, <2>3, UnrolledSlides
    <3>2. SW!Slide(Unrolled(b), p) = [i \in 1..MaxSize |-> IF i < MaxSize THEN Unrolled(b)[i + 1] ELSE p]
      BY <1>1, <1>4, <2>1, <2>3, SlideElements
    <3>3. Unrolled(b') = [i \in 1..MaxSize |-> Unrolled(b')[i]]
      BY <3>1 DEF Unrolled
    <3> QED
      BY <3>1, <3>2, <3>3
  <2> QED
    BY <1>0, <1>1, <2>2, <2>3
<1>7. [i \in 1..Len(a'.data) |-> Unrolled(a')[i].x]
        = SW!Slide([i \in 1..Len(a.data) |-> Unrolled(a)[i].x], x)
  <2> DEFINE w == [i \in 1..n |-> Unrolled(a)[i].x]
             S == {Unrolled(a)[i].x : i \in 1..n}
  <2>1. IsSequence(w) /\ Len(w) = n
    <3>1. w \in [1..n -> S]
      OBVIOUS
    <3> HIDE DEF w, S
    <3>2. w \in Seq(S) /\ Len(w) = n
      BY <1>1, <3>1
    <3> QED
      BY <3>2 DEF IsSequence
  <2>2. CASE n < MaxSize
    <3>1. /\ Len(a'.data) = n + 1
          /\ \A i \in 1..(n + 1) : Unrolled(a')[i] = IF i <= n THEN Unrolled(a)[i] ELSE r
      BY <1>1, <1>2, <2>2, UnrolledSlides
    <3>2. SW!Slide(w, x) = [i \in 1..(n + 1) |-> IF i <= n THEN w[i] ELSE x]
      <4> HIDE DEF w
      <4>1. IsSequence(w) /\ Len(w) = n /\ Len(w) < MaxSize /\ Len(w) <= MaxSize
        BY <1>1, <2>1, <2>2
      <4>2. SW!Slide(w, x) = [i \in 1..(Len(w) + 1) |-> IF i <= Len(w) THEN w[i] ELSE x]
        BY <4>1, SlideElements
      <4> QED
        BY <4>1, <4>2
    <3>3. \A i \in 1..(n + 1) : Unrolled(a')[i].x = IF i <= n THEN w[i] ELSE x
      BY <1>1, <3>1
    <3> QED
      BY <1>1, <3>1, <3>2, <3>3
  <2>3. CASE n = MaxSize
    <3>1. /\ Len(a'.data) = MaxSize
          /\ \A i \in 1..MaxSize : Unrolled(a')[i] = IF i < MaxSize THEN Unrolled(a)[i + 1] ELSE r
      BY <1>1, <1>2, <2>3, UnrolledSlides
    <3>2. SW!Slide(w, x) = [i \in 1..MaxSize |-> IF i < MaxSize THEN w[i + 1] ELSE x]
      <4> HIDE DEF w
      <4> QED
        BY <1>1, <2>1, <2>3, SlideElements
    <3>3. \A i \in 1..MaxSize : Unrolled(a')[i].x = IF i < MaxSize THEN w[i + 1] ELSE x
      BY <1>0, <2>3, <3>1
    <3> QED
      BY <1>1, <3>1, <3>2, <3>3
  <2> QED
    BY <1>0, <1>1, <2>2, <2>3
<1>8. Times(a') = SW!Slide(Times(a), x)
  <2>1. Times(a) = [i \in 1..Len(a.data) |-> Unrolled(a)[i].x]
    BY DEF Times, Unrolled
  <2>2. Times(a') = [i \in 1..Len(a'.data) |-> Unrolled(a')[i].x]
    BY DEF Times, Unrolled
  <2> QED
    BY <1>7, <2>1, <2>2
<1> QED
  BY <1>3, <1>5, <1>6, <1>8 DEF SW!Advance, a

\* The average is added in the slot that waits for it.
LEMMA AverageStep ==
  ASSUME HInv, AddAverage
  PROVE  HInv' /\ data_sizes' = data_sizes /\ Times(Caught)' = Times(Caught)
<1> DEFINE a == avg_data_sizes
           q == data_sizes.data[Newest(data_sizes)]
           p == [x |-> q.x, y |-> Average(data_sizes.data)]
           c == AddPoint(a, q)
           e == AddPoint(a, p)
<1>1. /\ data_sizes' = data_sizes /\ io' = "limits" /\ avg_data_sizes' = e
      /\ Caught = c /\ Caught' = avg_data_sizes'
  BY DEF AddAverage, Averaged, Caught
<1>2. Ring(a) /\ Ring(c) /\ Lockstep
  BY <1>1 DEF HInv
<1>3. Ring(e) /\ p.x = q.x
  <2>1. p.x = q.x
    OBVIOUS
  <2> HIDE DEF p
  <2> QED
    BY <1>2, <2>1, NewestAdded
<1> HIDE DEF p, q
<1>4. /\ Len(e.data) = Len(c.data) /\ e.offset = c.offset /\ e.prev_offset = c.prev_offset
      /\ \A i \in 1..Len(c.data) : e.data[i].x = c.data[i].x
  BY <1>2, <1>3, AddedAlike
<1> HIDE DEF c, e, a
<1>5. Lockstep'
  BY <1>1, <1>2, <1>4 DEF Lockstep
<1>6. Times(e) = Times(c)
  <2>1. \A i \in 1..Len(c.data) : Slot(e, i) = Slot(c, i) /\ Slot(c, i) \in 1..Len(c.data)
    BY <1>2, <1>4, SlotNewest DEF Slot
  <2> QED
    BY <1>4, <2>1 DEF Times
<1>7. HInv'
  BY <1>1, <1>3, <1>5 DEF HInv, AddAverage
<1> QED
  BY <1>1, <1>6, <1>7

\* Setting the limits and drawing change no ring.
LEMMA RingsStay ==
  ASSUME HInv, SetLimits \/ GuiStep \/ UNCHANGED vars
  PROVE  HInv' /\ data_sizes' = data_sizes /\ Caught' = Caught
<1>1. /\ UNCHANGED <<data_sizes, avg_data_sizes>>
      /\ io' = io \/ (io = "limits" /\ io' = "idle")
  BY DEF SetLimits, GuiStep, BeginDraw, ReadLimit, ReadPoint, ReadOther, ReadAverage, EndDraw, shared, vars
<1>2. Caught' = Caught
  BY <1>1 DEF Caught
<1> QED
  BY <1>1, <1>2 DEF HInv, Lockstep

\* The indices of both rings stay in range, and the rings move in lockstep.
THEOREM HInvHolds == Spec => []HInv
<1>1. ASSUME HInv, [Next]_vars PROVE HInv'
  <2>1. ASSUME NEW x \in Clock, NEW y \in Chunk, CountBytes(x, y) PROVE HInv'
    BY <1>1, <2>1, MergeStep, NewPointStep
  <2> QED
    BY <1>1, <2>1, AverageStep, RingsStay DEF Next, IoStep
<1> QED
  BY <1>1, HInvInit, PTL DEF Spec

\* Both curves of the plot have the same times, slot by slot.
THEOREM LockstepHolds == Spec => []Lockstep
<1>1. HInv => Lockstep
  BY DEF HInv
<1> QED
  BY <1>1, HInvHolds, PTL

\* The two rings implement the window of the last MaxSize seconds.
THEOREM Implements == Spec => ImplementsSlidingWindow
<1>1. Init => SW!Init
  <2> SUFFICES ASSUME Init PROVE Unrolled(data_sizes) = <<>> /\ Times(Caught) = <<>>
    BY DEF SW!Init
  <2> QED
    BY DEF Init, EmptyBuffer, Unrolled, Times, Caught
<1>2. ASSUME HInv, [Next]_vars
      PROVE  [SW!Next]_<<Unrolled(data_sizes), Times(Caught)>>
  <2>1. ASSUME NEW x \in Clock, NEW y \in Chunk, CountBytes(x, y) PROVE SW!Next
    BY <1>2, <2>1, MergeStep, NewPointStep DEF SW!Next
  <2>2. CASE AddAverage
    <3>1. data_sizes' = data_sizes /\ Times(Caught)' = Times(Caught)
      BY <1>2, <2>2, AverageStep
    <3> QED
      BY <3>1 DEF Unrolled, Slot
  <2>3. CASE SetLimits \/ GuiStep \/ UNCHANGED vars
    <3>1. data_sizes' = data_sizes /\ Caught' = Caught
      BY <1>2, <2>3, RingsStay
    <3> QED
      BY <3>1 DEF Unrolled, Times, Slot
  <2> QED
    BY <1>2, <2>1, <2>2, <2>3 DEF Next, IoStep
<1> QED
  BY <1>1, <1>2, HInvHolds, PTL DEF Spec, ImplementsSlidingWindow, SW!Spec

-----------------------------------------------------------------------------
\* Sets of naturals have a least element.
LEMMA LeastNatural ==
  ASSUME NEW T \in SUBSET Nat, T # {}
  PROVE  \E m \in T : \A n \in T : m <= n
<1> DEFINE R == OpToRel(<, Nat)
<1>1. IsWellFoundedOn(R, Nat)
  BY NatLessThanWellFounded
<1>2. R = {ss \in Nat \X Nat : ss[1] < ss[2]}
  BY DEF OpToRel
<1> HIDE DEF R
<1>3. PICK m \in T : \A n \in T : <<n, m>> \notin R
  BY <1>1, WFMin
<1>4. ASSUME NEW n \in T PROVE m <= n
  <2>1. <<n, m>> \in Nat \X Nat
    OBVIOUS
  <2>2. ~(<<n, m>>[1] < <<n, m>>[2])
    BY <1>2, <1>3, <2>1
  <2> QED
    BY <2>2
<1> QED
  BY <1>4

\* Finitely many naturals have a bound: the least number of them without one
\* would be one more than a number of them with one.
LEMMA SequenceBounded ==
  ASSUME NEW n \in Nat, NEW f, \A i \in 1..n : f[i] \in Nat
  PROVE  \E u \in Nat : \A i \in 1..n : f[i] <= u
<1> DEFINE Bound(k, u) == \A i \in 1..k : f[i] <= u
           T == {k \in 0..n : \A u \in Nat : ~Bound(k, u)}
<1>1. SUFFICES ASSUME n \in T PROVE FALSE
  OBVIOUS
<1>2. Bound(0, 0)
  OBVIOUS
<1> HIDE DEF Bound
<1>3. T \in SUBSET Nat /\ T # {}
  BY <1>1
<1> HIDE DEF T
<1>4. PICK m \in T : \A k \in T : m <= k
  BY <1>3, LeastNatural
<1> USE DEF T
<1>5. m \in 0..n /\ \A u \in Nat : ~Bound(m, u)
  BY <1>4
<1>6. m # 0
  BY <1>5, <1>2
<1>7. m - 1 \in 0..n /\ m - 1 \notin T
  <2>1. m - 1 \in 0..n /\ ~(m <= m - 1)
    BY <1>5, <1>6
  <2> HIDE DEF T
  <2> QED
    BY <2>1, <1>4
<1>8. PICK u \in Nat : Bound(m - 1, u)
  BY <1>7
<1> USE DEF Bound
<1>9. f[m] \in Nat
  BY <1>5, <1>6
<1>10. CASE f[m] <= u
  <2>1. Bound(m, u)
    <3> SUFFICES ASSUME NEW i \in 1..m PROVE f[i] <= u
      OBVIOUS
    <3>1. i = m \/ i \in 1..(m - 1)
      BY <1>5
    <3> QED
      BY <1>8, <1>10, <3>1
  <2> QED
    BY <1>5, <2>1
<1>11. CASE ~(f[m] <= u)
  <2>1. Bound(m, f[m])
    <3> SUFFICES ASSUME NEW i \in 1..m PROVE f[i] <= f[m]
      OBVIOUS
    <3>1. CASE i = m
      BY <1>9, <3>1
    <3>2. CASE i \in 1..(m - 1)
      <4>1. f[i] <= u /\ f[i] \in Nat
        BY <1>5, <1>8, <3>2
      <4> QED
        BY <1>9, <1>11, <4>1
    <3> QED
      BY <1>5, <3>1, <3>2
  <2> QED
    BY <1>5, <1>9, <2>1
<1> QED
  BY <1>10, <1>11

\* Min and Max are what they say, of sets of naturals with a bound.
LEMMA MinMax ==
  ASSUME NEW S \in SUBSET Nat, S # {}, NEW u \in Nat, \A s \in S : s <= u
  PROVE  /\ Min(S) \in S /\ \A s \in S : Min(S) <= s
         /\ Max(S) \in S /\ \A s \in S : s <= Max(S)
<1>1. \E x \in S : \A y \in S : x <= y
  BY LeastNatural
<1>2. \E x \in S : \A y \in S : x >= y
  <2> DEFINE B == {b \in Nat : \A s \in S : s <= b}
  <2>1. PICK b \in B : \A c \in B : b <= c
    <3>1. B \in SUBSET Nat /\ u \in B
      OBVIOUS
    <3> HIDE DEF B
    <3> QED
      BY <3>1, LeastNatural
  <2>2. ASSUME b \notin S PROVE FALSE
    <3>1. PICK s \in S : TRUE
      OBVIOUS
    <3>2. \A t \in S : t <= b - 1
      BY <2>1, <2>2
    <3>3. b - 1 \in B
      BY <2>1, <3>1, <3>2
    <3> QED
      BY <2>1, <3>3
  <2> QED
    BY <2>1, <2>2
<1>3. Min(S) \in S /\ \A s \in S : Min(S) <= s
  BY <1>1 DEF Min
<1>4. Max(S) \in S /\ \A s \in S : Max(S) >= s
  BY <1>2 DEF Max
<1> QED
  BY <1>3, <1>4
-----------------------------------------------------------------------------
\* One addition of accumulate(): the sum of the first i points.
Addition(data, sum, i) == IF i = 0 THEN 0 ELSE sum[i - 1] + data[i].y

\* accumulate() runs to the end of the points.
LEMMA AccumulateRuns ==
  ASSUME NEW data, NEW n \in Nat
  PROVE  \E sum : sum = [i \in 0..n |-> Addition(data, sum, i)]
<1> DEFINE Runs(m) == \E sum : sum = [i \in 0..m |-> Addition(data, sum, i)]
           T == {m \in Nat : ~Runs(m)}
<1>1. Runs(0)
  <2> DEFINE s == [i \in 0..0 |-> 0]
  <2>1. s = [i \in 0..0 |-> Addition(data, s, i)]
    BY DEF Addition
  <2> QED
    BY <2>1
<1>2. ASSUME NEW m \in Nat, Runs(m) PROVE Runs(m + 1)
  <2>1. PICK sum : sum = [i \in 0..m |-> Addition(data, sum, i)]
    BY <1>2
  <2> DEFINE s == [i \in 0..(m + 1) |-> IF i <= m THEN sum[i] ELSE Addition(data, sum, m + 1)]
  <2>2. \A i \in 0..m : s[i] = sum[i]
    OBVIOUS
  <2>3. ASSUME NEW i \in 0..(m + 1)
        PROVE  s[i] = Addition(data, s, i)
    <3>1. i = 0 \/ i - 1 \in 0..m
      OBVIOUS
    <3>2. Addition(data, s, i) = Addition(data, sum, i)
      BY <2>2, <3>1 DEF Addition
    <3>3. CASE i = m + 1
      BY <3>2, <3>3
    <3>4. CASE i \in 0..m
      BY <2>1, <2>2, <3>2, <3>4
    <3> QED
      BY <3>3, <3>4
  <2>4. s = [i \in 0..(m + 1) |-> Addition(data, s, i)]
    <3>1. s = [i \in 0..(m + 1) |-> s[i]]
      OBVIOUS
    <3> HIDE DEF s
    <3> QED
      BY <2>3, <3>1
  <2> QED
    BY <2>4
<1> HIDE DEF Runs
<1>3. T = {}
  <2> SUFFICES ASSUME T # {} PROVE FALSE
    OBVIOUS
  <2>1. T \in SUBSET Nat
    OBVIOUS
  <2>2. PICK m \in T : \A k \in T : m <= k
    BY <2>1, LeastNatural
  <2>3. m \in Nat /\ m # 0 /\ ~Runs(m)
    BY <1>1, <2>2
  <2>4. m - 1 \in Nat /\ m - 1 \notin T
    BY <2>2, <2>3
  <2>5. Runs((m - 1) + 1)
    BY <1>2, <2>4
  <2> QED
    BY <2>3, <2>5
<1> QED
  BY <1>3 DEF Runs

\* The sum of points is a natural number.
LEMMA TotalType ==
  ASSUME NEW data \in Seq(Point)
  PROVE  Total(data) \in Nat
<1> DEFINE n == Len(data)
           sums == CHOOSE sum : sum = [i \in 0..n |-> Addition(data, sum, i)]
           T == {m \in 0..n : sums[m] \notin Nat}
<1>1. n \in Nat /\ \A i \in 1..n : data[i].y \in Nat
  <2>1. \A i \in 1..n : data[i] \in Point
    OBVIOUS
  <2> QED
    BY <2>1 DEF Point
<1>2. Total(data) = sums[n]
  BY DEF Total, Addition
<1>3. sums = [i \in 0..n |-> Addition(data, sums, i)]
  BY <1>1, AccumulateRuns
<1> HIDE DEF sums, n
<1>4. \A i \in 0..n : sums[i] = Addition(data, sums, i)
  BY <1>3
<1>5. sums[0] \in Nat
  BY <1>1, <1>4 DEF Addition
<1>6. T = {}
  <2> SUFFICES ASSUME T # {} PROVE FALSE
    OBVIOUS
  <2>1. T \in SUBSET Nat
    BY <1>1
  <2>2. PICK m \in T : \A k \in T : m <= k
    BY <2>1, LeastNatural
  <2>3. m \in 0..n /\ m # 0 /\ sums[m] \notin Nat
    <3>1. m \in 0..n /\ sums[m] \notin Nat
      BY <2>2
    <3> QED
      BY <1>5, <3>1
  <2>4. m - 1 \in 0..n /\ m - 1 \notin T /\ m \in 1..n
    BY <1>1, <2>2, <2>3
  <2>5. sums[m - 1] \in Nat
    BY <2>4
  <2>6. sums[m] = sums[m - 1] + data[m].y
    BY <1>4, <2>3 DEF Addition
  <2> QED
    BY <1>1, <2>3, <2>4, <2>5, <2>6
<1> QED
  BY <1>1, <1>2, <1>6

\* A number that fits stays what it is.
LEMMA Fitting ==
  ASSUME NEW v \in Nat, NEW m \in Nat, v < m
  PROVE  v % m = v
  OBVIOUS

\* The quotient of a division, rounded down.
LEMMA Quotient ==
  ASSUME NEW v \in Nat, NEW n \in Nat \ {0}
  PROVE  (v \div n) * n <= v /\ v < ((v \div n) + 1) * n
  OBVIOUS

\* A sum that fits an int is divided as it is.
LEMMA AverageIsMean ==
  ASSUME NEW data \in Seq(Point), Len(data) # 0, Total(data) < IntLimit
  PROVE  /\ Average(data) * Len(data) <= Total(data)
         /\ Total(data) < (Average(data) + 1) * Len(data)
<1>1. Total(data) \in Nat /\ Len(data) \in Nat \ {0}
  BY TotalType
<1>2. WrapInt(Total(data)) = Total(data)
  <2>1. Total(data) < 2 * IntLimit /\ 2 * IntLimit \in Nat
    BY <1>1, WidthAssumption
  <2>2. Total(data) % (2 * IntLimit) = Total(data)
    BY <1>1, <2>1, Fitting
  <2> QED
    BY <2>2 DEF WrapInt
<1>3. Total(data) % WordLimit = Total(data)
  <2>1. Total(data) < WordLimit
    BY <1>1, WidthAssumption
  <2> QED
    BY <1>1, <2>1, WidthAssumption, Fitting
<1>4. Average(data) = Total(data) \div Len(data)
  BY <1>2, <1>3 DEF Average
<1> QED
  BY <1>1, <1>4, Quotient

\* No other step touches the ring of averages.
LEMMA OnlyAddAverage ==
  ASSUME [Next]_vars, avg_data_sizes' # avg_data_sizes
  PROVE  AddAverage
BY DEF Next, IoStep, GuiStep, CountBytes, Count, SetLimits, BeginDraw, ReadLimit, ReadPoint,
       ReadOther, ReadAverage, EndDraw, shared, vars

\* addData: while the bytes of the window fit into an int, the average that goes
\* with a new point is the mean of the points in the ring, rounded down.
THEOREM AverageExactHolds == Spec => AverageExact
<1> DEFINE avg == avg_data_sizes'.data[Newest(avg_data_sizes')].y
           d == data_sizes.data
<1>1. ASSUME HInv, AddAverage
      PROVE  avg = Average(d) /\ d \in Seq(Point) /\ Len(d) # 0
  <2> DEFINE r == [x |-> d[Newest(data_sizes)].x, y |-> Average(d)]
  <2>1. avg_data_sizes' = AddPoint(avg_data_sizes, r) /\ Ring(avg_data_sizes) /\ r.y = Average(d)
    BY <1>1 DEF AddAverage, Averaged, HInv
  <2>2. d \in Seq(Point) /\ Len(d) # 0
    BY <1>1 DEF AddAverage, HInv
  <2> HIDE DEF r
  <2>3. avg_data_sizes'.data[Newest(avg_data_sizes')] = r
    BY <2>1, NewestAdded
  <2> QED
    BY <2>1, <2>2, <2>3
<1>2. ASSUME [Next]_vars, avg_data_sizes' # avg_data_sizes
      PROVE  AddAverage
  BY <1>2, OnlyAddAverage
<1>3. HInv /\ [Next]_vars =>
        [ avg_data_sizes' # avg_data_sizes /\ Total(d) < IntLimit
            => avg * Len(d) <= Total(d) /\ Total(d) < (avg + 1) * Len(d) ]_vars
  <2> SUFFICES ASSUME HInv, Next, avg_data_sizes' # avg_data_sizes, Total(d) < IntLimit
               PROVE  avg * Len(d) <= Total(d) /\ Total(d) < (avg + 1) * Len(d)
    OBVIOUS
  <2>1. avg = Average(d) /\ d \in Seq(Point) /\ Len(d) # 0
    BY <1>1, <1>2
  <2> HIDE DEF avg, d
  <2> QED
    BY <2>1, AverageIsMean
<1> QED
  BY <1>3, HInvHolds, PTL DEF Spec, AverageExact

-----------------------------------------------------------------------------
\* However the sum wraps, the quotient is a number of bytes.
LEMMA AverageType ==
  ASSUME NEW data \in Seq(Point), Len(data) # 0
  PROVE  Average(data) \in Nat
<1>1. Total(data) \in Nat /\ Len(data) \in Nat \ {0}
  BY TotalType
<1>2. WrapInt(Total(data)) \in Int
  <2>1. Total(data) % (2 * IntLimit) \in Int
    BY <1>1, WidthAssumption
  <2> QED
    BY <2>1, WidthAssumption DEF WrapInt
<1>3. WordLimit \in Nat \ {0}
  BY WidthAssumption
<1>4. WrapInt(Total(data)) % WordLimit \in Nat
  BY <1>2, <1>3
<1> QED
  BY <1>1, <1>4 DEF Average

\* The second ring keeps points.
Averages == avg_data_sizes.data \in Seq(Point)

LEMMA AveragesHold == Spec => [](HInv /\ Averages)
<1>1. Init => Averages
  BY DEF Init, EmptyBuffer, Averages
<1>2. HInv /\ Averages /\ AddAverage => Averages'
  <2> SUFFICES ASSUME HInv, Averages, AddAverage PROVE Averages'
    OBVIOUS
  <2> DEFINE a == avg_data_sizes
             q == data_sizes.data[Newest(data_sizes)]
             r == [x |-> q.x, y |-> Average(data_sizes.data)]
  <2>1. /\ a' = AddPoint(a, r) /\ Ring(a) /\ Ring(data_sizes)
        /\ data_sizes.data \in Seq(Point) /\ Len(data_sizes.data) > 0
    BY DEF AddAverage, Averaged, HInv
  <2>2. q \in Point
    <3>1. Newest(data_sizes) \in 1..Len(data_sizes.data)
      <4>1. Len(data_sizes.data) \in 1..Len(data_sizes.data)
        BY <2>1
      <4> QED
        BY <2>1, <4>1, SlotNewest
    <3> QED
      BY <2>1, <3>1
  <2>3. r \in Point
    <3>1. Average(data_sizes.data) \in Nat
      BY <2>1, AverageType
    <3> HIDE DEF q
    <3> QED
      BY <2>2, <3>1 DEF Point
  <2> HIDE DEF r
  <2>4. a'.data = Append(a.data, r) \/ a'.data = [a.data EXCEPT ![a.offset + 1] = r]
    BY <2>1, AddPointGrows, AddPointWraps
  <2>5. a.data \in Seq(Point)
    BY DEF Averages
  <2>6. a'.data \in Seq(Point)
    <3>1. CASE a'.data = Append(a.data, r)
      BY <3>1, <2>3, <2>5
    <3>2. CASE a'.data = [a.data EXCEPT ![a.offset + 1] = r]
      <4> DEFINE b == [a.data EXCEPT ![a.offset + 1] = r]
      <4>1. Len(a.data) \in Nat /\ a.data \in [1..Len(a.data) -> Point]
        BY <2>5
      <4>2. b \in [1..Len(a.data) -> Point]
        BY <4>1, <2>3
      <4>3. b \in Seq(Point)
        BY <4>1, <4>2
      <4> QED
        BY <3>2, <4>3
    <3> QED
      BY <2>4, <3>1, <3>2
  <2> QED
    BY <2>6 DEF Averages
<1>3. Averages /\ [Next]_vars /\ ~AddAverage => Averages'
  <2> SUFFICES ASSUME Averages, [Next]_vars, ~AddAverage PROVE Averages'
    OBVIOUS
  <2>1. avg_data_sizes' = avg_data_sizes
    BY OnlyAddAverage
  <2> QED
    BY <2>1 DEF Averages
<1> QED
  BY <1>1, <1>2, <1>3, HInvHolds, PTL DEF Spec

-----------------------------------------------------------------------------
\* The limits are those of the points the ring holds, but for the one that the
\* addData under way has written.
Limits ==
  /\ minmax_y \in Nat \X Nat /\ minmax_x \in Nat \X Nat
  /\ \A i \in 1..Len(data_sizes.data) : i \notin Touched =>
       /\ data_sizes.data[i].y < minmax_y[2]
       /\ minmax_x[1] <= data_sizes.data[i].x /\ data_sizes.data[i].x <= minmax_x[2]

\* addData takes the limits from all points.
LEMMA LimitsStep ==
  ASSUME HInv, SetLimits
  PROVE  Limits'
<1> DEFINE d == data_sizes.data
<1>1. d \in Seq(Point) /\ Len(d) \in Nat \ {0}
  <2>1. d \in Seq(Point) /\ Len(d) > 0
    BY DEF HInv, SetLimits
  <2> QED
    BY <2>1
<1>2. DOMAIN d = 1..Len(d) /\ \A i \in 1..Len(d) : d[i] \in Point
  BY <1>1
<1>3. \A i \in 1..Len(d) : d[i].x \in Nat /\ d[i].y \in Nat
  BY <1>2 DEF Point
<1>4. minmax_y' = <<0, Max(Ys(d)) + 100>> /\ minmax_x' = <<Min(Xs(d)), Max(Xs(d))>>
  BY DEF SetLimits
<1> HIDE DEF d
<1>5. /\ Ys(d) \in SUBSET Nat /\ Ys(d) # {} /\ \A i \in 1..Len(d) : d[i].y \in Ys(d)
      /\ Xs(d) \in SUBSET Nat /\ Xs(d) # {} /\ \A i \in 1..Len(d) : d[i].x \in Xs(d)
  <2>1. 1 \in 1..Len(d)
    BY <1>1
  <2> QED
    BY <1>2, <1>3, <2>1 DEF Ys, Xs
<1>6. Max(Ys(d)) \in Nat /\ \A s \in Ys(d) : s <= Max(Ys(d))
  <2> DEFINE f == [i \in 1..Len(d) |-> d[i].y]
  <2>1. \A i \in 1..Len(d) : f[i] \in Nat
    BY <1>3
  <2> HIDE DEF f
  <2>2. PICK u \in Nat : \A i \in 1..Len(d) : f[i] <= u
    BY <1>1, <2>1, SequenceBounded
  <2>3. \A s \in Ys(d) : s <= u
    BY <1>2, <2>2 DEF Ys, f
  <2> QED
    BY <1>5, <2>3, MinMax
<1>7. /\ Max(Xs(d)) \in Nat /\ \A s \in Xs(d) : s <= Max(Xs(d))
      /\ Min(Xs(d)) \in Nat /\ \A s \in Xs(d) : Min(Xs(d)) <= s
  <2> DEFINE f == [i \in 1..Len(d) |-> d[i].x]
  <2>1. \A i \in 1..Len(d) : f[i] \in Nat
    BY <1>3
  <2> HIDE DEF f
  <2>2. PICK u \in Nat : \A i \in 1..Len(d) : f[i] <= u
    BY <1>1, <2>1, SequenceBounded
  <2>3. \A s \in Xs(d) : s <= u
    BY <1>2, <2>2 DEF Xs, f
  <2> QED
    BY <1>5, <2>3, MinMax
<1>8. minmax_y' \in Nat \X Nat /\ minmax_x' \in Nat \X Nat
  BY <1>4, <1>6, <1>7
<1>9. ASSUME NEW i \in 1..Len(d)
      PROVE  d[i].y < minmax_y'[2] /\ minmax_x'[1] <= d[i].x /\ d[i].x <= minmax_x'[2]
  <2>1. d[i].y <= Max(Ys(d)) /\ Min(Xs(d)) <= d[i].x /\ d[i].x <= Max(Xs(d))
    BY <1>5, <1>6, <1>7
  <2> QED
    BY <1>3, <1>4, <1>6, <2>1
<1>10. data_sizes' = data_sizes
  BY DEF SetLimits
<1> QED
  BY <1>8, <1>9, <1>10 DEF Limits, d

-----------------------------------------------------------------------------
\* What drawPlot has read of the limits holds for every point written neither
\* since it began nor by the addData under way.
SeenLimits ==
  /\ drawing \in BOOLEAN
  /\ seen \in [top : Nat \cup {Unread}, left : Nat \cup {Unread}, right : Nat \cup {Unread}]
  /\ drawing => Touched \subseteq late
  /\ ~drawing => seen = NoLimits /\ point = NoPoint
  /\ late \subseteq 1..Len(data_sizes.data)
  /\ \A i \in 1..Len(data_sizes.data) : i \notin late =>
       /\ seen.top # Unread => data_sizes.data[i].y < seen.top
       /\ seen.left # Unread => seen.left <= data_sizes.data[i].x
       /\ seen.right # Unread => data_sizes.data[i].x <= seen.right

\* What it has read of such a point is still there, and of an average, its time.
SeenPoint ==
  /\ point \in [ring : {"none", "sizes", "averages"}, at : Nat,
                x : Nat \cup {Unread}, y : Nat \cup {Unread}]
  /\ point = NoPoint \/ (HasLimits /\ point.at \in 1..Len(data_sizes.data))
  /\ point.at \notin late =>
       /\ point.x # Unread => point.x = data_sizes.data[point.at].x
       /\ point.y # Unread => point.y = data_sizes.data[point.at].y

DInv == Limits /\ SeenLimits /\ SeenPoint

\* addData writes one point, the newest, and none of the others.
LEMMA CountStep ==
  ASSUME HInv, NEW x \in Clock, NEW y \in Chunk, CountBytes(x, y)
  PROVE  LET k == Newest(data_sizes') IN
         /\ k \in 1..Len(data_sizes'.data)
         /\ Len(data_sizes.data) \in Nat /\ Len(data_sizes'.data) \in Nat
         /\ Len(data_sizes.data) <= Len(data_sizes'.data)
         /\ \A i \in 1..Len(data_sizes'.data) :
              i # k => i \in 1..Len(data_sizes.data) /\ data_sizes'.data[i] = data_sizes.data[i]
<1> DEFINE b == data_sizes
           d == b.data
           j == Newest(b)
           p == [x |-> x, y |-> y]
<1>0. Ring(b) /\ d \in Seq(Point) /\ Len(d) \in Nat /\ b' = AddToHisto(b, x, y)
  BY DEF HInv, CountBytes, Count
<1>1. CASE Merges(b, x)
  <2>1. Len(d) \in 1..Len(d)
    BY <1>0, <1>1 DEF Merges
  <2>2. j \in 1..Len(d)
    BY <1>0, <2>1, SlotNewest
  <2>3. b'.prev_offset = b.prev_offset /\ b'.data = [d EXCEPT ![j] = [d[j] EXCEPT !.y = @ + y]]
    BY <1>0, <1>1 DEF AddToHisto, Ring
  <2> HIDE DEF j
  <2>4. Len(b'.data) = Len(d) /\ \A i \in 1..Len(d) : i # j => b'.data[i] = d[i]
    BY <1>0, <2>2, <2>3, ExceptElements DEF Ring
  <2>5. Newest(b') = j
    BY <2>3, <2>4 DEF Newest, j
  <2> QED
    BY <1>0, <2>2, <2>4, <2>5
<1>2. CASE ~Merges(b, x)
  <2>1. b' = AddPoint(b, p)
    BY <1>0, <1>2 DEF AddToHisto
  <2> HIDE DEF p
  <2>2. Ring(b')
    BY <1>0, <2>1, NewestAdded
  <2>3. Len(b'.data) \in Nat
    BY <2>2 DEF Ring, IsSequence
  <2> QED
    BY <1>0, <2>1, <2>3, NewestAdded
<1> QED
  BY <1>1, <1>2

\* A slot of the averages that is not being written has the time of its point.
LEMMA AveragesLag ==
  ASSUME HInv, NEW i \in 1..Len(avg_data_sizes.data)
  PROVE  /\ i \in 1..Len(data_sizes.data)
         /\ i \notin Touched => avg_data_sizes.data[i].x = data_sizes.data[i].x
<1> DEFINE a == avg_data_sizes
           c == Caught
<1>1. /\ Len(c.data) = Len(data_sizes.data) /\ Newest(c) = Newest(data_sizes) /\ Ring(a)
      /\ Len(data_sizes.data) \in Nat /\ Len(a.data) \in Nat
      /\ \A m \in 1..Len(c.data) : c.data[m].x = data_sizes.data[m].x
  BY DEF HInv, Lockstep, Newest, Ring, IsSequence
<1>2. CASE io = "average"
  <2>1. c = AddPoint(a, data_sizes.data[Newest(data_sizes)]) /\ Touched = {Newest(data_sizes)}
    BY <1>2 DEF Caught, Touched
  <2>2. /\ Len(a.data) <= Len(c.data)
        /\ \A m \in 1..Len(c.data) : m # Newest(c) => c.data[m] = a.data[m]
    BY <1>1, <2>1, NewestAdded
  <2> QED
    BY <1>1, <2>1, <2>2
<1>3. CASE io # "average"
  BY <1>1, <1>3 DEF Caught
<1> QED
  BY <1>2, <1>3

\* addData writes into the ring: the slot is one that the draw does not count on.
LEMMA CountDraw ==
  ASSUME HInv, DInv, NEW x \in Clock, NEW y \in Chunk, CountBytes(x, y)
  PROVE  DInv'
<1> DEFINE k == Newest(data_sizes')
           d == data_sizes.data
           e == data_sizes'.data
<1>1. /\ io = "idle" /\ io' # "idle" /\ UNCHANGED <<minmax_y, minmax_x, drawing, seen, point>>
      /\ late' = IF drawing THEN late \cup {k} ELSE late
  BY DEF CountBytes, Count
<1>2. /\ k \in 1..Len(e) /\ Len(d) \in Nat /\ Len(e) \in Nat /\ Len(d) <= Len(e)
      /\ \A i \in 1..Len(e) : i # k => i \in 1..Len(d) /\ e[i] = d[i]
  BY CountStep
<1>3. Touched = {} /\ Touched' = {k}
  BY <1>1 DEF Touched
<1> HIDE DEF k, e
<1>4. Limits'
  BY <1>1, <1>2, <1>3 DEF DInv, Limits, e
<1>5. SeenLimits'
  <2>1. CASE drawing
    BY <1>1, <1>2, <1>3, <2>1 DEF DInv, SeenLimits, e
  <2>2. CASE ~drawing
    <3>1. seen = NoLimits /\ seen.top = Unread /\ seen.left = Unread /\ seen.right = Unread
      BY <2>2 DEF DInv, SeenLimits, NoLimits
    <3> QED
      BY <1>1, <1>2, <2>2, <3>1 DEF DInv, SeenLimits, e
  <2> QED
    BY <2>1, <2>2
<1>6. SeenPoint'
  <2>1. CASE point = NoPoint
    BY <1>1, <2>1 DEF DInv, SeenPoint, NoPoint
  <2>2. CASE point # NoPoint
    <3>1. drawing /\ HasLimits' /\ point.at \in 1..Len(d)
      BY <1>1, <2>2 DEF DInv, SeenPoint, HasLimits
    <3>2. point.at \in 1..Len(e)
      BY <1>2, <3>1
    <3>3. point'.at \notin late' => point.at \notin late /\ e[point.at] = d[point.at]
      BY <1>1, <1>2, <3>1, <3>2
    <3> QED
      BY <1>1, <3>1, <3>2, <3>3 DEF DInv, SeenPoint, e
  <2> QED
    BY <2>1, <2>2
<1> QED
  BY <1>4, <1>5, <1>6 DEF DInv

\* The rest of addData: no point changes.
LEMMA AddDataDraw ==
  ASSUME HInv, DInv, AddAverage \/ SetLimits
  PROVE  DInv'
<1>1. UNCHANGED <<data_sizes, drawing, seen, point, late>> /\ Touched' \subseteq Touched
  BY DEF AddAverage, SetLimits, draw, Touched
<1>2. Limits'
  <2>1. CASE AddAverage
    <3>1. UNCHANGED <<minmax_y, minmax_x>> /\ Touched' = Touched
      BY <2>1 DEF AddAverage, Touched
    <3> QED
      BY <1>1, <3>1 DEF DInv, Limits
  <2> QED
    BY <2>1, LimitsStep
<1>3. SeenLimits'
  BY <1>1 DEF DInv, SeenLimits
<1>4. SeenPoint'
  BY <1>1 DEF DInv, SeenPoint, HasLimits
<1> QED
  BY <1>2, <1>3, <1>4 DEF DInv

\* The gui thread changes nothing that addData looks at.
LEMMA GuiLimits ==
  ASSUME Limits, GuiStep
  PROVE  Limits' /\ UNCHANGED <<data_sizes, avg_data_sizes, io>> /\ Touched' = Touched
<1>1. UNCHANGED <<data_sizes, avg_data_sizes, minmax_y, minmax_x, io>>
  BY DEF GuiStep, BeginDraw, ReadLimit, ReadPoint, ReadOther, ReadAverage, EndDraw, shared
<1> QED
  BY <1>1 DEF Limits, Touched

\* drawPlot begins: what addData has written but not counted is late already.
LEMMA BeginDrawStep ==
  ASSUME HInv, DInv, BeginDraw
  PROVE  SeenLimits' /\ SeenPoint'
<1>1. UNCHANGED <<data_sizes, seen, point>> /\ ~drawing /\ drawing' /\ late' = Touched /\ Touched' = Touched
  BY GuiLimits DEF BeginDraw, DInv, GuiStep
<1>2. Touched \subseteq 1..Len(data_sizes.data)
  <2>1. CASE io = "idle"
    BY <2>1 DEF Touched
  <2>2. CASE io # "idle"
    <3>1. Ring(data_sizes) /\ Len(data_sizes.data) \in 1..Len(data_sizes.data)
      BY <2>2 DEF HInv
    <3>2. Newest(data_sizes) \in 1..Len(data_sizes.data)
      BY <3>1, SlotNewest
    <3> QED
      BY <3>2 DEF Touched
  <2> QED
    BY <2>1, <2>2
<1>3. /\ seen = NoLimits /\ seen.top = Unread /\ seen.left = Unread /\ seen.right = Unread
      /\ point = NoPoint /\ point.x = Unread /\ point.y = Unread
  BY <1>1 DEF DInv, SeenLimits, NoLimits, NoPoint
<1>4. drawing' \in BOOLEAN
  BY DEF BeginDraw
<1>5. SeenLimits'
  BY <1>1, <1>2, <1>3, <1>4 DEF DInv, SeenLimits
<1>6. SeenPoint'
  BY <1>1, <1>3 DEF DInv, SeenPoint
<1> QED
  BY <1>5, <1>6

\* A limit that is read now holds for every point that is not late.
LEMMA ReadLimitStep ==
  ASSUME HInv, DInv, ReadLimit
  PROVE  SeenLimits' /\ SeenPoint'
<1>1. /\ UNCHANGED <<data_sizes, drawing, point, late>> /\ drawing /\ Touched' = Touched
      /\ minmax_y[2] \in Nat /\ minmax_x[1] \in Nat /\ minmax_x[2] \in Nat
  BY GuiLimits DEF ReadLimit, DInv, GuiStep, Limits
<1>2. \A i \in 1..Len(data_sizes.data) : i \notin late =>
        /\ data_sizes.data[i].y < minmax_y[2]
        /\ minmax_x[1] <= data_sizes.data[i].x /\ data_sizes.data[i].x <= minmax_x[2]
  BY <1>1 DEF DInv, Limits, SeenLimits
<1>3. seen \in [top : Nat \cup {Unread}, left : Nat \cup {Unread}, right : Nat \cup {Unread}]
  BY DEF DInv, SeenLimits
<1>4. \/ seen' = [seen EXCEPT !.top = minmax_y[2]]
      \/ seen' = [seen EXCEPT !.left = minmax_x[1]]
      \/ seen' = [seen EXCEPT !.right = minmax_x[2]]
  BY DEF ReadLimit
<1>5. /\ seen' \in [top : Nat \cup {Unread}, left : Nat \cup {Unread}, right : Nat \cup {Unread}]
      /\ seen'.top = seen.top \/ seen'.top = minmax_y[2]
      /\ seen'.left = seen.left \/ seen'.left = minmax_x[1]
      /\ seen'.right = seen.right \/ seen'.right = minmax_x[2]
  BY <1>1, <1>3, <1>4
<1>6. SeenLimits'
  BY <1>1, <1>2, <1>5 DEF DInv, SeenLimits
<1>7. ~HasLimits
  BY DEF ReadLimit, HasLimits
<1>8. SeenPoint'
  <2>1. point = NoPoint
    BY <1>7 DEF DInv, SeenPoint
  <2> QED
    BY <1>1, <2>1 DEF DInv, SeenPoint, NoPoint
<1> QED
  BY <1>6, <1>8

\* A coordinate that is read now, of either ring, is that of the point in its slot.
LEMMA ReadStep ==
  ASSUME HInv, Averages, DInv, ReadPoint \/ ReadOther \/ ReadAverage
  PROVE  SeenLimits' /\ SeenPoint'
<1> DEFINE d == data_sizes.data
           a == avg_data_sizes.data
<1>1. UNCHANGED <<data_sizes, drawing, seen, late>> /\ Touched' = Touched
  BY GuiLimits DEF ReadPoint, ReadOther, ReadAverage, DInv, GuiStep
<1>2. \A i \in 1..Len(d) : d[i].x \in Nat /\ d[i].y \in Nat
  <2>1. \A i \in 1..Len(d) : d[i] \in Point
    BY DEF HInv
  <2> QED
    BY <2>1 DEF Point
<1>3. \A i \in 1..Len(a) : a[i].x \in Nat
  <2>1. \A i \in 1..Len(a) : a[i] \in Point
    BY DEF Averages
  <2> QED
    BY <2>1 DEF Point
<1>4. HasLimits /\ drawing
  BY DEF ReadPoint, ReadOther, ReadAverage, HalfRead, DInv, SeenPoint, NoPoint, HasLimits
<1>5. SeenLimits'
  BY <1>1, <1>4 DEF DInv, SeenLimits
<1>6. HasLimits'
  BY <1>1, <1>4 DEF HasLimits
<1>7. CASE ReadPoint
  <2>1. PICK i \in 1..Len(d) :
          \/ point' = [ring |-> "sizes", at |-> i, x |-> d[i].x, y |-> Unread]
          \/ point' = [ring |-> "sizes", at |-> i, x |-> Unread, y |-> d[i].y]
    BY <1>7 DEF ReadPoint
  <2>2. SeenPoint'
    BY <1>1, <1>2, <1>6, <2>1 DEF SeenPoint
  <2> QED
    BY <1>5, <2>2
<1>8. CASE ReadOther
  <2>1. /\ point.ring = "sizes" /\ point.at \in 1..Len(d)
        /\ point \in [ring : {"none", "sizes", "averages"}, at : Nat,
                      x : Nat \cup {Unread}, y : Nat \cup {Unread}]
    BY <1>8 DEF ReadOther, HalfRead, DInv, SeenPoint, NoPoint
  <2>2. \/ point' = [point EXCEPT !.x = d[point.at].x]
        \/ point' = [point EXCEPT !.y = d[point.at].y]
    BY <1>8 DEF ReadOther
  <2>3. SeenPoint'
    BY <1>1, <1>2, <1>6, <2>1, <2>2 DEF DInv, SeenPoint
  <2> QED
    BY <1>5, <2>3
<1>9. CASE ReadAverage
  <2>1. PICK i \in 1..Len(a) : point' = [ring |-> "averages", at |-> i, x |-> a[i].x, y |-> Unread]
    BY <1>9 DEF ReadAverage
  <2>2. i \in 1..Len(d) /\ (i \notin Touched => a[i].x = d[i].x)
    BY AveragesLag
  <2>3. i \notin late => a[i].x = d[i].x
    BY <1>4, <2>2 DEF DInv, SeenLimits
  <2>4. SeenPoint'
    BY <1>1, <1>3, <1>6, <2>1, <2>2, <2>3 DEF SeenPoint
  <2> QED
    BY <1>5, <2>4
<1> QED
  BY <1>7, <1>8, <1>9

\* drawPlot ends.
LEMMA EndDrawStep ==
  ASSUME DInv, EndDraw
  PROVE  SeenLimits' /\ SeenPoint'
<1>1. UNCHANGED data_sizes /\ drawing' = FALSE /\ seen' = NoLimits /\ point' = NoPoint /\ late' = {}
  BY GuiLimits DEF EndDraw, DInv, GuiStep
<1>2. /\ NoLimits \in [top : Nat \cup {Unread}, left : Nat \cup {Unread}, right : Nat \cup {Unread}]
      /\ NoLimits.top = Unread /\ NoLimits.left = Unread /\ NoLimits.right = Unread
      /\ NoPoint \in [ring : {"none", "sizes", "averages"}, at : Nat,
                      x : Nat \cup {Unread}, y : Nat \cup {Unread}]
      /\ NoPoint.x = Unread /\ NoPoint.y = Unread
  BY DEF NoLimits, NoPoint
<1>3. drawing' \in BOOLEAN /\ ~drawing'
  BY <1>1
<1> QED
  BY <1>1, <1>2, <1>3 DEF SeenLimits, SeenPoint

\* However the two threads take turns, a draw counts on nothing that has changed.
LEMMA DrawInvariant == Spec => [](HInv /\ Averages /\ DInv)
<1>1. Init => DInv
  <2> SUFFICES ASSUME Init PROVE DInv
    OBVIOUS
  <2>1. /\ data_sizes.data = <<>> /\ minmax_y = <<0, 1>> /\ minmax_x = <<0, 1>> /\ io = "idle"
        /\ drawing = FALSE /\ seen = NoLimits /\ point = NoPoint /\ late = {}
    BY DEF Init, EmptyBuffer
  <2>2. 1..Len(<<>>) = {}
    OBVIOUS
  <2>3. Limits
    BY <2>1, <2>2 DEF Limits
  <2>4. SeenLimits /\ SeenPoint
    BY <2>1, <2>2 DEF SeenLimits, SeenPoint, NoLimits, NoPoint
  <2> QED
    BY <2>3, <2>4 DEF DInv
<1>2. HInv /\ Averages /\ DInv /\ [Next]_vars => DInv'
  <2> SUFFICES ASSUME HInv, Averages, DInv, [Next]_vars PROVE DInv'
    OBVIOUS
  <2>1. CASE IoStep
    BY <2>1, CountDraw, AddDataDraw DEF IoStep
  <2>2. CASE GuiStep
    <3>1. Limits'
      BY <2>2, GuiLimits DEF DInv
    <3>2. SeenLimits' /\ SeenPoint'
      BY <2>2, BeginDrawStep, ReadLimitStep, ReadStep, EndDrawStep DEF GuiStep
    <3> QED
      BY <3>1, <3>2 DEF DInv
  <2>3. CASE UNCHANGED vars
    <3>1. UNCHANGED <<data_sizes, minmax_y, minmax_x, io, drawing, seen, point, late>> /\ Touched' = Touched
      BY <2>3 DEF vars, shared, draw, Touched
    <3> QED
      BY <3>1 DEF DInv, Limits, SeenLimits, SeenPoint, HasLimits
  <2> QED
    BY <2>1, <2>2, <2>3 DEF Next
<1> QED
  BY <1>1, <1>2, AveragesHold, PTL DEF Spec

\* addData against drawPlot: whatever mixture of calls the limits and the points
\* come from, a point not written meanwhile is drawn within the limits, for every
\* window size, clock and buffer size.
THEOREM PlotInLimitsHolds == Spec => []PlotInLimits
<1>1. HInv /\ DInv => PlotInLimits
  <2> SUFFICES ASSUME HInv, DInv, point.at \notin late
               PROVE  /\ point.x # Unread => point.x \in seen.left..seen.right
                      /\ point.y # Unread => point.y < seen.top
    BY DEF PlotInLimits
  <2>1. CASE point = NoPoint
    BY <2>1 DEF NoPoint
  <2>2. CASE point # NoPoint
    <3> DEFINE q == data_sizes.data[point.at]
    <3>1. point.at \in 1..Len(data_sizes.data) /\ HasLimits
      BY <2>2 DEF DInv, SeenPoint
    <3>2. /\ seen.top # Unread /\ seen.left # Unread /\ seen.right # Unread
          /\ seen.left \in Nat /\ seen.right \in Nat
      BY <3>1 DEF DInv, SeenLimits, HasLimits
    <3>3. q.y < seen.top /\ seen.left <= q.x /\ q.x <= seen.right
      BY <3>1, <3>2 DEF DInv, SeenLimits
    <3>4. q \in Point
      BY <3>1 DEF HInv
    <3>5. (point.x # Unread => point.x = q.x) /\ (point.y # Unread => point.y = q.y)
      BY DEF DInv, SeenPoint
    <3> QED
      BY <3>2, <3>3, <3>4, <3>5 DEF Point
  <2> QED
    BY <2>1, <2>2
<1> QED
  BY <1>1, DrawInvariant, PTL

\* Every variable keeps its type, and the indices of both rings their range.
THEOREM TypeCorrect == Spec => []TypeOK
<1>1. ASSUME NEW b, Ring(b) PROVE RingOK(b)
  BY <1>1, NextSlot DEF Ring, RingOK
<1>2. HInv /\ Averages /\ DInv => TypeOK
  <2> SUFFICES ASSUME HInv, Averages, DInv PROVE TypeOK
    OBVIOUS
  <2>1. /\ data_sizes \in Buffer /\ avg_data_sizes \in Buffer
        /\ RingOK(data_sizes) /\ RingOK(avg_data_sizes)
    BY <1>1 DEF HInv, Averages, Ring, Buffer
  <2>2. 1..Len(data_sizes.data) \subseteq 1..MaxSize
    BY SizeAssumption DEF HInv, Ring
  <2>3. point.at \in 0..MaxSize
    BY <2>2, SizeAssumption DEF DInv, SeenPoint, NoPoint
  <2>4. point \in [ring : {"none", "sizes", "averages"}, at : 0..MaxSize,
                   x : Nat \cup {Unread}, y : Nat \cup {Unread}]
    BY <2>3 DEF DInv, SeenPoint
  <2> QED
    BY <2>1, <2>2, <2>4 DEF HInv, DInv, Limits, SeenLimits, TypeOK
<1> QED
  BY <1>1, <1>2, DrawInvariant, PTL
=============================================================================

--------------------------- MODULE SlidingWindow ---------------------------
(***************************************************************************)
(* What the throughput plot promises: the last MaxSize runs of equal       *)
(* timestamps, oldest first, each with the bytes that arrived in it, and   *)
(* one average per run, at the same times.                                 *)
(***************************************************************************)
EXTENDS Naturals, Sequences

CONSTANTS
  MaxSize,  \* length of the window
  Clock,    \* timestamps
  Chunk     \* sizes of the buffers that arrive

VARIABLES
  window,   \* sequence of [x |-> timestamp, y |-> bytes], oldest first
  averaged  \* the timestamps of the averages, oldest first

Init == window = <<>> /\ averaged = <<>>

\* s with e at its end, without its oldest element if s is full.
Slide(s, e) == IF Len(s) < MaxSize THEN Append(s, e) ELSE Append(Tail(s), e)

\* More bytes in the newest run of timestamps.
Accumulate(y) ==
  /\ window # <<>>
  /\ window' = [window EXCEPT ![Len(window)].y = @ + y]
  /\ averaged' = averaged

\* Bytes at another timestamp than the newest.
Advance(x, y) ==
  /\ window = <<>> \/ window[Len(window)].x # x
  /\ window' = Slide(window, [x |-> x, y |-> y])
  /\ averaged' = Slide(averaged, x)

Next == \E x \in Clock, y \in Chunk :
  \/ Accumulate(y) /\ window[Len(window)].x = x
  \/ Advance(x, y)

Spec == Init /\ [][Next]_<<window, averaged>>
=============================================================================

------------------------ MODULE ThroughputHistogram ------------------------
(***************************************************************************)
(* gui::PlotThroughput and the two gui::ScrollingBuffer rings it fills     *)
(* (src/app/src/gui/widgets/plot_throughput.cpp, gui/imgui_commons.hpp):   *)
(* bytes per second of one connection, and their average, over the last    *)
(* MaxSize distinct seconds.  The io thread fills them (addData) while the *)
(* gui thread draws them (drawPlot), without a lock.  Ring slots are       *)
(* numbered from 0 as in the code; slot i is data[i + 1] here.             *)
(***************************************************************************)
EXTENDS Integers, SequencesExt

CONSTANTS
  MaxSize,   \* max_size of both rings (window in PlotThroughput's constructor)
  Clock,     \* values of the system clock, in seconds; it may be set back
  Chunk,     \* sizes of the buffers handed to addData
  MaxPoint,  \* bound: bytes of one point
  IntLimit,  \* first number past the int in which accumulate() adds up: 2^31
  WordLimit  \* first number past size_t and uint64_t: 2^64

ASSUME SizeAssumption  == MaxSize \in Nat \ {0}
ASSUME InputAssumption == Clock \subseteq Nat /\ Chunk \subseteq Nat
ASSUME WidthAssumption == /\ IntLimit \in Nat \ {0} /\ WordLimit \in Nat
                          /\ WordLimit >= 2 * IntLimit

VARIABLES
  data_sizes,      \* the ring of bytes per second
  avg_data_sizes,  \* the ring of averages
  minmax_y,        \* plot limits
  minmax_x,
  io,              \* what addData does next: "idle", "average" or "limits"
  drawing,         \* drawPlot is under way
  seen,            \* the limits it has read
  point,           \* the point it reads, or has read last
  late             \* history: positions written since it began

shared   == <<data_sizes, avg_data_sizes, minmax_y, minmax_x>>
draw     == <<drawing, seen, point, late>>
vars     == <<shared, io, draw>>

Unread   == -1
NoLimits == [top |-> Unread, left |-> Unread, right |-> Unread]
NoPoint  == [ring |-> "none", at |-> 0, x |-> Unread, y |-> Unread]

EmptyBuffer == [data |-> <<>>, prev_offset |-> -1, offset |-> 0]

Init ==
  /\ data_sizes = EmptyBuffer
  /\ avg_data_sizes = EmptyBuffer
  /\ minmax_y = <<0, 1>> /\ minmax_x = <<0, 1>>
  /\ io = "idle"
  /\ drawing = FALSE /\ seen = NoLimits /\ point = NoPoint /\ late = {}

-----------------------------------------------------------------------------
\* Mutant: prev_offset is taken after offset has moved on.
AddPointLateIndex(b, p) ==
  IF Len(b.data) < MaxSize
    THEN [b EXCEPT !.data = Append(@, p)]
    ELSE LET next == (b.offset + 1) % MaxSize
         IN  [data |-> [b.data EXCEPT ![b.offset + 1] = p], prev_offset |-> next, offset |-> next]

\* ScrollingBuffer::addPoint: grow up to MaxSize, then overwrite the oldest slot.
AddPoint(b, p) ==
  IF Len(b.data) < MaxSize
    THEN [b EXCEPT !.data = Append(@, p)]
    ELSE [data |-> [b.data EXCEPT ![b.offset + 1] = p],
          prev_offset |-> b.offset, offset |-> (b.offset + 1) % MaxSize]

\* The position of the point written last.
Newest(b) == IF b.prev_offset = -1 THEN Len(b.data) ELSE b.prev_offset + 1

Merges(b, x) == Len(b.data) > 0 /\ b.data[Newest(b)].x = x

\* ScrollingBuffer::addToHisto
AddToHisto(b, x, y) ==
  IF Merges(b, x) THEN [b EXCEPT !.data[Newest(b)].y = @ + y]
                  ELSE AddPoint(b, [x |-> x, y |-> y])

-----------------------------------------------------------------------------
Total(data) ==
  LET sum[i \in 0..Len(data)] == IF i = 0 THEN 0 ELSE sum[i - 1] + data[i].y
  IN  sum[Len(data)]

\* accumulate() adds up in an int, its initial 0: the sum wraps.
WrapInt(v) == LET w == v % (2 * IntLimit)
              IN  IF w < IntLimit THEN w ELSE w - 2 * IntLimit

\* Mutant: the average over the capacity of the window, not over its points.
AverageOfCapacity(data) == (WrapInt(Total(data)) % WordLimit) \div MaxSize

\* sum / data.size(): the int becomes a size_t before the division.
Average(data) == (WrapInt(Total(data)) % WordLimit) \div Len(data)

Ys(data) == {data[i].y : i \in DOMAIN data}
Xs(data) == {data[i].x : i \in DOMAIN data}

\* The bound: no point grows past MaxPoint.
Fits(x, y) == Merges(data_sizes, x) => data_sizes.data[Newest(data_sizes)].y + y <= MaxPoint

\* addData, first statement, with the clock at x and a buffer of y bytes; next is
\* where it goes on.
Count(x, y, next) ==
  /\ io = "idle" /\ Fits(x, y)
  /\ data_sizes' = AddToHisto(data_sizes, x, y)
  /\ io' = next
  /\ late' = IF drawing THEN late \cup {Newest(data_sizes')} ELSE late
  /\ UNCHANGED <<avg_data_sizes, minmax_y, minmax_x, drawing, seen, point>>

\* Mutant: an average for every buffer, not for every new point.
CountAveragesAll(x, y) == Count(x, y, "average")

\* Mutant: more bytes in the newest second leave the limits as they are.
CountMergesOnly(x, y) == Count(x, y, IF Merges(data_sizes, x) THEN "idle" ELSE "average")

\* A new point needs an average.
CountBytes(x, y) == Count(x, y, IF Merges(data_sizes, x) THEN "limits" ELSE "average")

\* The ring of averages with the one of the newest point.
Averaged ==
  AddPoint(avg_data_sizes, [x |-> data_sizes.data[Newest(data_sizes)].x, y |-> Average(data_sizes.data)])

\* addData, on a new point.
AddAverage ==
  /\ io = "average"
  /\ avg_data_sizes' = Averaged
  /\ io' = "limits"
  /\ UNCHANGED <<data_sizes, minmax_y, minmax_x, draw>>

\* addData, to its end.  The four assignments are one step here, since drawPlot
\* reads each limit in a step of its own.
SetLimits ==
  /\ io = "limits"
  /\ minmax_y' = <<0, Max(Ys(data_sizes.data)) + 100>>
  /\ minmax_x' = <<Min(Xs(data_sizes.data)), Max(Xs(data_sizes.data))>>
  /\ io' = "idle"
  /\ UNCHANGED <<data_sizes, avg_data_sizes, draw>>

-----------------------------------------------------------------------------
\* The position of the point that the addData under way has written.
Touched == IF io = "idle" THEN {} ELSE {Newest(data_sizes)}

BeginDraw ==
  /\ ~drawing
  /\ drawing' = TRUE
  /\ late' = Touched
  /\ UNCHANGED <<shared, io, seen, point>>

\* The limits are arguments of one call, and read in any order; that of the bytes
\* begins at 0, always.
ReadLimit ==
  /\ drawing
  /\ \/ seen.top = Unread   /\ seen' = [seen EXCEPT !.top = minmax_y[2]]
     \/ seen.left = Unread  /\ seen' = [seen EXCEPT !.left = minmax_x[1]]
     \/ seen.right = Unread /\ seen' = [seen EXCEPT !.right = minmax_x[2]]
  /\ UNCHANGED <<shared, io, drawing, point, late>>

\* The limits are handed over before any point is read.
HasLimits == drawing /\ Unread \notin {seen.top, seen.left, seen.right}

\* PlotStairs reads the two coordinates of a point one after the other, in either order.
HalfRead == point.ring = "sizes" /\ ((point.x = Unread) # (point.y = Unread))

ReadPoint ==
  /\ HasLimits /\ ~HalfRead
  /\ \E i \in 1..Len(data_sizes.data) :
       \/ point' = [ring |-> "sizes", at |-> i, x |-> data_sizes.data[i].x, y |-> Unread]
       \/ point' = [ring |-> "sizes", at |-> i, x |-> Unread, y |-> data_sizes.data[i].y]
  /\ UNCHANGED <<shared, io, drawing, seen, late>>

\* The other coordinate is that of the point in the slot by then.
ReadOther ==
  /\ HalfRead
  /\ point' = IF point.x = Unread THEN [point EXCEPT !.x = data_sizes.data[point.at].x]
                                  ELSE [point EXCEPT !.y = data_sizes.data[point.at].y]
  /\ UNCHANGED <<shared, io, drawing, seen, late>>

\* PlotLine; the height of an average is left out, since the limits do not follow it.
ReadAverage ==
  /\ HasLimits /\ ~HalfRead
  /\ \E i \in 1..Len(avg_data_sizes.data) :
       point' = [ring |-> "averages", at |-> i, x |-> avg_data_sizes.data[i].x, y |-> Unread]
  /\ UNCHANGED <<shared, io, drawing, seen, late>>

\* The plot may be hidden, or all points have been read.
EndDraw ==
  /\ HasLimits /\ ~HalfRead
  /\ drawing' = FALSE /\ seen' = NoLimits /\ point' = NoPoint /\ late' = {}
  /\ UNCHANGED <<shared, io>>

IoStep  == (\E x \in Clock, y \in Chunk : CountBytes(x, y)) \/ AddAverage \/ SetLimits
GuiStep == BeginDraw \/ ReadLimit \/ ReadPoint \/ ReadOther \/ ReadAverage \/ EndDraw

Next == IoStep \/ GuiStep

Spec == Init /\ [][Next]_vars

-----------------------------------------------------------------------------
Point  == [x : Nat, y : Nat]
Buffer == [data : Seq(Point), prev_offset : Int, offset : Nat]

\* Every index has its range: a slot is read at prev_offset or at the last one,
\* and written at offset.
RingOK(b) ==
  /\ Len(b.data) <= MaxSize
  /\ b.prev_offset = -1 => b.offset = 0
  /\ b.prev_offset # -1 => /\ Len(b.data) = MaxSize
                           /\ b.prev_offset \in 0..(MaxSize - 1)
                           /\ b.offset = (b.prev_offset + 1) % MaxSize

\* The variables keep their types: however the sum wraps, an average is a number.
TypeOK ==
  /\ data_sizes \in Buffer /\ avg_data_sizes \in Buffer
  /\ RingOK(data_sizes) /\ RingOK(avg_data_sizes)
  /\ minmax_y \in Nat \X Nat /\ minmax_x \in Nat \X Nat
  /\ io \in {"idle", "average", "limits"}
  /\ drawing \in BOOLEAN
  /\ seen \in [top : Nat \cup {Unread}, left : Nat \cup {Unread}, right : Nat \cup {Unread}]
  /\ point \in [ring : {"none", "sizes", "averages"}, at : 0..MaxSize,
                x : Nat \cup {Unread}, y : Nat \cup {Unread}]
  /\ late \subseteq 1..MaxSize

\* The ring of averages as far as its times go, with the point whose average the
\* addData under way has still to add.
Caught == IF io = "average" THEN AddPoint(avg_data_sizes, data_sizes.data[Newest(data_sizes)])
                            ELSE avg_data_sizes

\* The two curves share their times: the rings move together, slot by slot,
\* although only a new point reaches the second one, and only some steps later.
Lockstep ==
  /\ Len(Caught.data) = Len(data_sizes.data)
  /\ Caught.offset = data_sizes.offset
  /\ Caught.prev_offset = data_sizes.prev_offset
  /\ \A i \in 1..Len(data_sizes.data) : Caught.data[i].x = data_sizes.data[i].x

\* While the bytes of the window fit into an int, the average that addData adds
\* is the mean of the points the ring holds, rounded down.  (A sum of IntLimit or
\* more wraps, and the average jumps.)
AverageExact ==
  [][ avg_data_sizes' # avg_data_sizes /\ Total(data_sizes.data) < IntLimit
      => LET avg == avg_data_sizes'.data[Newest(avg_data_sizes')].y
         IN  /\ avg * Len(data_sizes.data) <= Total(data_sizes.data)
             /\ Total(data_sizes.data) < (avg + 1) * Len(data_sizes.data) ]_vars

(***************************************************************************)
(* drawPlot reads the limits before the points and holds no lock against   *)
(* addData, which writes the points before the limits: the two may come    *)
(* from different calls, and a point from two.  Still, a point of a slot   *)
(* that no addData wrote since the draw began, nor the one then under way, *)
(* is drawn within the limits: its time in either curve, its bytes in that *)
(* of the throughput.  (An average may exceed the limit of the bytes, once *)
(* the point that raised it has scrolled out.)                             *)
(***************************************************************************)
PlotInLimits == point.at \notin late =>
  /\ point.x # Unread => point.x \in seen.left..seen.right
  /\ point.y # Unread => point.y < seen.top

-----------------------------------------------------------------------------
\* The position of the i-th oldest point, and the ring from there on: the points
\* as drawPlot shows them, Len(data) of them from offset on.
Slot(b, i) == IF b.offset + i <= Len(b.data) THEN b.offset + i ELSE b.offset + i - Len(b.data)

Unrolled(b) == [i \in 1..Len(b.data) |-> b.data[Slot(b, i)]]

Times(b) == [i \in 1..Len(b.data) |-> b.data[Slot(b, i)].x]

SW == INSTANCE SlidingWindow WITH
  window   <- Unrolled(data_sizes),
  averaged <- Times(Caught)

\* The rings implement the sliding window.
ImplementsSlidingWindow == SW!Spec
=============================================================================

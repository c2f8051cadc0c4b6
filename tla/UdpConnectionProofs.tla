------------------------ MODULE UdpConnectionProofs ------------------------
(***************************************************************************)
(* What UdpConnection promises for any number of calls of the user: types, *)
(* the safety properties of one connection shared by the gui and the io    *)
(* thread, and that it implements ReceiveLoop.                             *)
(***************************************************************************)
EXTENDS UdpConnection, TLAPS

\* The results close() adds to the queue: one per receive in progress.
LEMMA RepeatedIsSeq ==
  ASSUME NEW S, NEW x \in S, NEW n \in Nat
  PROVE  /\ [i \in 1..n |-> x] \in Seq(S)
         /\ Len([i \in 1..n |-> x]) = n
  OBVIOUS

\* The elements of a concatenation.
LEMMA ConcatElements ==
  ASSUME NEW S, NEW s \in Seq(S), NEW u \in Seq(S), NEW q, q = s \o u
  PROVE  /\ q \in Seq(S) /\ Len(q) = Len(s) + Len(u)
         /\ \A i \in 1..Len(s) : q[i] = s[i]
         /\ \A i \in 1..Len(u) : q[Len(s) + i] = u[i]
  OBVIOUS

\* close() leaves a well-typed queue, longer by the receives it aborts.
LEMMA CloseReady ==
  ASSUME TypeOK, Close
  PROVE  /\ ready' \in Seq(Result)
         /\ Len(ready') = Len(ready) + reads
         /\ \A i \in 1..Len(ready) : ready'[i] = ready[i]
         /\ \A i \in 1..reads : ready'[Len(ready) + i] = "aborted"
<1> DEFINE R == [i \in 1..reads |-> "aborted"]
<1>1. reads \in Nat /\ ready \in Seq(Result) /\ "aborted" \in Result
  BY DEF TypeOK, Result
<1>2. R \in Seq(Result) /\ Len(R) = reads
  BY <1>1, RepeatedIsSeq
<1>3. \A i \in 1..reads : R[i] = "aborted"
  BY <1>1
<1>4. ready' = ready \o R
  BY DEF Close
<1> HIDE DEF R
<1>5. /\ ready' \in Seq(Result) /\ Len(ready') = Len(ready) + Len(R)
      /\ \A i \in 1..Len(ready) : ready'[i] = ready[i]
      /\ \A i \in 1..Len(R) : ready'[Len(ready) + i] = R[i]
  <2>1. ready \in Seq(Result) /\ R \in Seq(Result)
    BY <1>1, <1>2
  <2> QED
    BY <2>1, <1>4, ConcatElements
<1> QED
  BY <1>2, <1>3, <1>5

\* A receive that starts leaves a well-typed queue.
LEMMA ReceiveTypes ==
  ASSUME TypeOK, AsyncReceive
  PROVE  ready' \in Seq(Result) /\ reads' \in Nat /\ socket' = socket
  BY DEF AsyncReceive, TypeOK, Result

-----------------------------------------------------------------------------
LEMMA TypeStep == TypeOK /\ [Next]_vars => TypeOK'
<1> SUFFICES ASSUME TypeOK, [Next]_vars PROVE TypeOK'
  OBVIOUS
<1> USE DEF TypeOK, Thread, GuiPc, IoPc, Goto, network, history, windows
<1>1. ASSUME NEW t \in Thread, Clear(t) PROVE TypeOK'
  BY <1>1 DEF Clear
<1>2. ASSUME NEW t \in Thread, CloseSocket(t) PROVE TypeOK'
  <2>1. ready' \in Seq(Result) /\ reads' \in Nat /\ socket' = "closed"
    BY <1>2, CloseReady DEF CloseSocket, Close
  <2> QED
    BY <1>2, <2>1 DEF CloseSocket
<1>3. CASE GuiCall
  BY <1>3 DEF GuiCall, PressConnect, PressDisconnect, PressSend, PressApply, CloseConnection, Press
<1>4. CASE Settings
  BY <1>4 DEF Settings, Edit, Reset
<1>5. CASE Arm
  <2>1. overlap' \in BOOLEAN
    <3>1. CASE options
      <4>1. overlap' = (overlap \/ Busy)
        BY <1>5, <3>1 DEF Arm
      <4> QED
        BY <4>1, Zenon
    <3>2. CASE ~options
      BY <1>5, <3>2 DEF Arm
    <3> QED
      BY <3>1, <3>2
  <2>2. pc' \in [Thread -> GuiPc \cup IoPc] /\ pc'["gui"] \in GuiPc /\ pc'["io"] \in IoPc
    BY <1>5 DEF Arm
  <2>3. should_receive' \in BOOLEAN /\ late' \in Nat
    <3>1. CASE options
      BY <1>5, <3>1 DEF Arm
    <3>2. CASE ~options
      BY <1>5, <3>2 DEF Arm
    <3> QED
      BY <3>1, <3>2
  <2>4. UNCHANGED <<socket, reads, ready, options, draft, ret, result, calls>>
    BY <1>5 DEF Arm
  <2> QED
    BY <2>1, <2>2, <2>3, <2>4
<1>6. CASE Open
  BY <1>6 DEF Open
<1>7. CASE Bind
  BY <1>7 DEF Bind
<1>8. CASE Begin
  BY <1>8, ReceiveTypes DEF Begin
<1>9. CASE Unlisten
  BY <1>9 DEF Unlisten
<1>10. CASE Write
  BY <1>10 DEF Write
<1>11. CASE Take
  <2>1. Head(ready) \in Result /\ Tail(ready) \in Seq(Result)
    BY <1>11 DEF Take
  <2> QED
    BY <1>11, <2>1 DEF Take
<1>12. CASE Deliver
  BY <1>12 DEF Deliver
<1>13. CASE Check
  BY <1>13 DEF Check
<1>14. CASE StartRead
  BY <1>14, ReceiveTypes DEF StartRead
<1>15. ASSUME NEW res \in {"data", "error"}, ReceiveCompletes(res) PROVE TypeOK'
  BY <1>15 DEF ReceiveCompletes, Result
<1>16. CASE UNCHANGED vars
  BY <1>16 DEF vars
<1>17. "gui" \in Thread /\ "io" \in Thread
  OBVIOUS
<1> HIDE DEF TypeOK, Thread, GuiPc, IoPc, Goto, network, history, windows
<1> QED
  BY <1>1, <1>2, <1>3, <1>4, <1>5, <1>6, <1>7, <1>8, <1>9, <1>10, <1>11, <1>12,
     <1>13, <1>14, <1>15, <1>16, <1>17
  DEF Next, GuiStep, IoStep, NetworkStep, Disconnect

\* Every variable keeps its type, and each thread stays in the code it runs.
THEOREM TypeCorrect == Spec => []TypeOK
<1>1. Init => TypeOK
  <2> SUFFICES ASSUME Init PROVE TypeOK
    OBVIOUS
  <2>1. ready \in Seq(Result) /\ reads \in Nat /\ late \in Nat /\ calls \in Nat
    BY DEF Init
  <2>2. /\ pc \in [Thread -> GuiPc \cup IoPc]
        /\ pc["gui"] \in GuiPc /\ pc["io"] \in IoPc
    BY DEF Init, Thread, GuiPc, IoPc
  <2> QED
    BY <2>1, <2>2 DEF Init, TypeOK, Result
<1> QED
  BY <1>1, TypeStep, PTL DEF Spec

-----------------------------------------------------------------------------
(***************************************************************************)
(* The safety properties follow from IInv, which every step preserves.     *)
(***************************************************************************)
LEMMA InductiveInit == Init => IInv
  BY DEF Init, IInv, InvToken, InvConnect, InvBound, InvLate, Busy, Thread

\* The proviso of IInv only ever becomes false.
LEMMA OverlapStays == TypeOK /\ [Next]_vars /\ ~overlap' => ~overlap
  BY DEF Next, GuiCall, PressConnect, PressDisconnect, PressSend, PressApply, CloseConnection,
         Press, Settings, GuiStep, IoStep, NetworkStep, Disconnect, Clear, CloseSocket, Arm,
         Open, Bind, Begin, Unlisten, Write, Take, Deliver, Check, StartRead,
         ReceiveCompletes, history, vars, TypeOK

LEMMA InductiveStep == TypeOK /\ IInv /\ [Next]_vars => IInv'
<1> SUFFICES ASSUME TypeOK, IInv, [Next]_vars, ~overlap'
             PROVE  InvToken' /\ InvConnect' /\ InvBound' /\ InvLate'
  BY DEF IInv
<1> DEFINE Goal == InvToken' /\ InvConnect' /\ InvBound' /\ InvLate'
<1>1. InvToken /\ InvConnect /\ InvBound /\ InvLate
  BY OverlapStays DEF IInv
<1> USE DEF InvToken, InvConnect, InvBound, InvLate, Busy, Thread, Goto,
            network, history, windows, TypeOK
<1>2. ASSUME NEW t \in Thread, Clear(t) PROVE Goal
  BY <1>1, <1>2 DEF Clear
<1>3. ASSUME NEW t \in Thread, CloseSocket(t) PROVE Goal
  <2>1. /\ ready' \in Seq(Result) /\ Len(ready') = Len(ready) + reads
        /\ socket' = "closed" /\ reads' = 0
    BY <1>3, CloseReady DEF CloseSocket, Close
  <2>2. InvToken'
    <3>1. CASE t = "io"
      BY <1>1, <1>3, <2>1, <3>1 DEF CloseSocket
    <3>2. CASE t = "gui"
      <4>1. pc'["gui"] \in {"idle", "connect", "released"} /\ pc'["io"] = pc["io"]
        BY <1>3, <3>2 DEF CloseSocket
      <4>2. CASE reads # 0
        BY <1>1, <2>1, <4>1, <4>2
      <4>3. CASE reads = 0
        <5>1. ready' # <<>> => ready # <<>>
          BY <2>1, <4>3
        <5> QED
          BY <1>1, <2>1, <4>1, <4>3, <5>1
      <4> QED
        BY <4>2, <4>3
    <3> QED
      BY <3>1, <3>2
  <2>3. InvConnect'
    BY <1>1, <1>3, <2>1 DEF CloseSocket
  <2>4. InvBound'
    BY <1>1, <1>3, <2>1 DEF CloseSocket
  <2>5. InvLate'
    BY <1>1, <1>3, <2>1 DEF CloseSocket
  <2> QED
    BY <2>2, <2>3, <2>4, <2>5
<1>4. CASE GuiCall
  BY <1>1, <1>4 DEF GuiCall, PressConnect, PressDisconnect, PressSend, PressApply,
                    CloseConnection, Press, IsConnected
<1>5. CASE Settings
  BY <1>1, <1>5 DEF Settings
<1>6. CASE Arm
  BY <1>1, <1>6 DEF Arm
<1>7. CASE Open
  BY <1>1, <1>7 DEF Open
<1>8. CASE Bind
  BY <1>1, <1>8 DEF Bind
<1>9. CASE Begin
  BY <1>1, <1>9 DEF Begin, AsyncReceive
<1>10. CASE Unlisten
  BY <1>1, <1>10 DEF Unlisten
<1>11. CASE Write
  BY <1>1, <1>11 DEF Write
<1>12. CASE Take
  BY <1>1, <1>12 DEF Take, Result
<1>13. CASE Deliver
  BY <1>1, <1>13 DEF Deliver
<1>14. CASE Check
  BY <1>1, <1>14 DEF Check
<1>15. CASE StartRead
  <2>1. reads = 0 /\ ready = <<>> /\ pc["io"] = "read"
    BY <1>1, <1>15 DEF StartRead
  <2>2. CASE socket = "closed"
    <3>1. Len(ready') = 1 /\ ready'[1] = "error"
      BY <1>15, <2>1, <2>2 DEF StartRead, AsyncReceive
    <3> QED
      BY <1>1, <1>15, <2>1, <2>2, <3>1 DEF StartRead, AsyncReceive
  <2>3. CASE socket # "closed"
    BY <1>1, <1>15, <2>1, <2>3 DEF StartRead, AsyncReceive
  <2> QED
    BY <2>2, <2>3
<1>16. ASSUME NEW res \in {"data", "error"}, ReceiveCompletes(res) PROVE Goal
  BY <1>1, <1>16 DEF ReceiveCompletes
<1>17. CASE UNCHANGED vars
  BY <1>1, <1>17 DEF vars
<1>18. "gui" \in Thread /\ "io" \in Thread
  OBVIOUS
<1> HIDE DEF InvToken, InvConnect, InvBound, InvLate, Busy, Thread, Goto,
             network, history, windows, TypeOK
<1> QED
  BY <1>2, <1>3, <1>4, <1>5, <1>6, <1>7, <1>8, <1>9, <1>10, <1>11, <1>12, <1>13,
     <1>14, <1>15, <1>16, <1>17, <1>18
  DEF Next, GuiStep, IoStep, NetworkStep, Disconnect

LEMMA Inductive == Spec => [](TypeOK /\ IInv)
  BY TypeCorrect, InductiveInit, InductiveStep, PTL DEF Spec

-----------------------------------------------------------------------------
\* At most one receive, result or handler exists, for any number of calls, as
\* long as connect() finds the previous session drained.
THEOREM OneReceiveHolds == Spec => []OneReceive
<1>1. TypeOK /\ IInv => OneReceive
  <2> SUFFICES ASSUME TypeOK, InvToken PROVE Pending <= 1
    BY DEF OneReceive, IInv
  <2>1. reads \in Nat /\ Len(ready) \in Nat /\ (ready = <<>> => Len(ready) = 0)
    BY DEF TypeOK
  <2>2. CASE reads # 0
    BY <2>1, <2>2 DEF InvToken, Pending
  <2>3. CASE reads = 0 /\ ready # <<>>
    <3>1. Len(ready) = 1 /\ pc["io"] = "idle"
      BY <2>3 DEF InvToken
    <3> QED
      BY <2>3, <3>1 DEF Pending
  <2>4. CASE reads = 0 /\ ready = <<>>
    BY <2>1, <2>4 DEF Pending
  <2> QED
    BY <2>2, <2>3, <2>4
<1> QED
  BY <1>1, Inductive, PTL

\* A connection that listens has a receive in progress whenever both threads
\* rest.
THEOREM NotDeafHolds == Spec => []NotDeaf
<1>1. TypeOK /\ IInv => NotDeaf
  BY DEF TypeOK, IInv, InvToken, InvBound, NotDeaf, Busy
<1> QED
  BY <1>1, Inductive, PTL

\* At most one datagram is handed over after should_receive_ is cleared.
THEOREM LateBoundHolds == Spec => []LateBound
<1>1. IInv => LateBound
  BY DEF IInv, InvLate, LateBound
<1> QED
  BY <1>1, Inductive, PTL

\* No result of an earlier session closes the socket of this one.
THEOREM NoStaleCloseHolds == Spec => NoStaleClose
<1>1. TypeOK /\ IInv /\ [Next]_vars =>
        [pc["io"] = "close" /\ pc'["io"] = "idle" /\ socket = "bound"
           => overlap \/ result = "error"]_vars
  BY DEF IInv, InvBound
<1> QED
  BY <1>1, Inductive, PTL DEF Spec, NoStaleClose

-----------------------------------------------------------------------------
(***************************************************************************)
(* The receive loop.  With one token of activity the guards of Stage       *)
(* exclude each other: StageTold says what the stage is.                   *)
(***************************************************************************)
StageTold ==
  /\ reads # 0 => Stage = "waiting"
  /\ ready # <<>> => Stage = IF ready[1] = "data" THEN "full" ELSE "failed"
  /\ pc["io"] = "deliver" => Stage = "full"
  /\ pc["io"] = "check" => Stage = "handed"
  /\ pc["io"] = "read" => Stage = "again"
  /\ pc["io"] \in {"clear", "close"} => Stage = "failed"
  /\ ~Busy => Stage = "down"

LEMMA Stages == TypeOK /\ InvToken => StageTold
<1> SUFFICES ASSUME TypeOK, InvToken PROVE StageTold
  OBVIOUS
<1>1. ready # <<>> => Head(ready) = ready[1]
  BY DEF TypeOK
<1> QED
  BY <1>1 DEF InvToken, Stage, StageTold, Busy

\* The steps of the loop, unfolded.
LEMMA LoopMoves ==
  ASSUME \/ /\ should_receive' = should_receive
            /\ \/ Stage' = Stage
               \/ Stage = "down" /\ Stage' = "waiting" /\ should_receive
               \/ Stage = "waiting" /\ Stage' \in {"full", "failed"}
               \/ Stage = "full" /\ Stage' = "handed"
               \/ Stage = "handed" /\ Stage' = "again" /\ should_receive
               \/ Stage = "again" /\ Stage' \in {"waiting", "failed"}
               \/ Stage \in {"handed", "failed"} /\ Stage' = "down" /\ ~should_receive
         \/ should_receive' = FALSE /\ Stage' = Stage
         \/ should_receive' = TRUE /\ Stage = "down" /\ Stage' = "down"
  PROVE  Loop!Next \/ UNCHANGED <<should_receive, Stage>>
BY DEF Loop!Next, Loop!Want, Loop!Unwant, Loop!Move, Loop!Start, Loop!Arrive, Loop!Break,
       Loop!HandOver, Loop!Continue, Loop!Receive, Loop!Finish

LEMMA LoopStep ==
  TypeOK /\ IInv /\ [Next]_vars /\ TypeOK' /\ IInv'
    => [overlap' \/ Loop!Next]_<<should_receive, Stage>>
<1> SUFFICES ASSUME TypeOK, IInv, [Next]_vars, TypeOK', IInv', ~overlap'
             PROVE  Loop!Next \/ UNCHANGED <<should_receive, Stage>>
  OBVIOUS
<1> DEFINE Goal == Loop!Next \/ UNCHANGED <<should_receive, Stage>>
<1>1. InvToken /\ InvConnect /\ InvBound /\ InvLate /\ InvToken'
  BY OverlapStays DEF IInv
<1>2. StageTold
  BY <1>1, Stages
<1>3. StageTold'
  BY <1>1, Stages, PTL
<1> USE DEF InvToken, InvConnect, InvBound, StageTold, Busy, Thread, Goto,
            network, history, windows, TypeOK
\* A step that leaves the token where it is leaves the stage as it is.
<1>4. UNCHANGED <<network, pc["io"]>> => Stage' = Stage
  BY DEF Stage
<1>5. ASSUME NEW t \in Thread, Clear(t) PROVE Goal
  <2>1. should_receive' = FALSE /\ UNCHANGED network
    BY <1>5 DEF Clear
  <2>2. CASE t = "gui"
    BY <1>4, <1>5, <2>1, <2>2, LoopMoves DEF Clear
  <2>3. CASE t = "io"
    <3>1. Stage = "failed" /\ Stage' = "failed"
      BY <1>2, <1>3, <1>5, <2>3 DEF Clear
    <3> QED
      BY <2>1, <3>1, LoopMoves
  <2> QED
    BY <2>2, <2>3
<1>6. CASE CloseSocket("io")
  <2>1. reads = 0 /\ ready = <<>> /\ Stage = "failed" /\ ~should_receive
    BY <1>1, <1>2, <1>6 DEF CloseSocket
  <2>2. Len(ready') = 0 /\ ready' \in Seq(Result) /\ reads' = 0 /\ pc'["io"] = "idle"
    BY <1>6, <2>1, CloseReady DEF CloseSocket, Close
  <2>3. Stage' = "down" /\ should_receive' = should_receive
    BY <1>3, <1>6, <2>2 DEF CloseSocket
  <2> QED
    BY <2>1, <2>3, LoopMoves
<1>7. CASE CloseSocket("gui")
  <2>1. /\ ready' \in Seq(Result) /\ Len(ready') = Len(ready) + reads
        /\ \A i \in 1..Len(ready) : ready'[i] = ready[i]
        /\ \A i \in 1..reads : ready'[Len(ready) + i] = "aborted"
    BY <1>7, CloseReady DEF CloseSocket
  <2>2. reads' = 0 /\ pc'["io"] = pc["io"] /\ should_receive' = should_receive
    BY <1>7 DEF CloseSocket, Close
  <2>3. CASE reads # 0
    <3>1. reads = 1 /\ ready = <<>> /\ Stage = "waiting"
      BY <1>1, <1>2, <2>3
    <3>2. ready' # <<>> /\ ready'[1] = "aborted"
      <4>1. Len(ready') = 1 /\ Len(ready) = 0
        BY <2>1, <3>1
      <4>2. ready'[Len(ready) + 1] = "aborted" /\ Len(ready) + 1 = 1
        BY <2>1, <3>1, <4>1
      <4>3. Len(<<>>) = 0
        OBVIOUS
      <4>4. Len(ready') # 0
        BY <4>1
      <4>5. ready' # <<>>
        BY <4>3, <4>4, Zenon
      <4> QED
        BY <4>2, <4>5
    <3>3. Stage' = "failed"
      BY <1>3, <3>2
    <3> QED
      BY <2>2, <3>1, <3>3, LoopMoves
  <2>4. CASE reads = 0 /\ ready # <<>>
    <3>1. ready' # <<>> /\ ready'[1] = ready[1]
      BY <1>1, <2>1, <2>4
    <3> QED
      BY <1>2, <1>3, <2>2, <2>4, <3>1, LoopMoves
  <2>5. CASE reads = 0 /\ ready = <<>>
    <3>1. ready' = <<>>
      BY <2>1, <2>5
    <3>2. UNCHANGED <<reads, ready, pc["io"]>>
      BY <2>2, <2>5, <3>1
    <3>3. Stage' = Stage
      BY <3>2 DEF Stage
    <3> QED
      BY <2>2, <3>3, LoopMoves
  <2> QED
    BY <2>3, <2>4, <2>5
<1>8. CASE GuiCall
  BY <1>4, <1>8, LoopMoves DEF GuiCall, PressConnect, PressDisconnect, PressSend, PressApply,
                    CloseConnection, Press
<1>9. CASE Settings
  BY <1>4, <1>9, LoopMoves DEF Settings
<1>10. CASE Arm
  <2>1. CASE options
    <3>1. ~Busy /\ ~Busy' /\ should_receive' = TRUE
      BY <1>10, <2>1 DEF Arm
    <3>2. Stage = "down" /\ Stage' = "down"
      BY <1>2, <1>3, <3>1
    <3> QED
      BY <3>1, <3>2, LoopMoves
  <2>2. CASE ~options
    BY <1>4, <1>10, <2>2, LoopMoves DEF Arm
  <2> QED
    BY <2>1, <2>2
<1>11. CASE Open \/ Bind \/ Write
  <2>1. UNCHANGED <<should_receive, reads, ready, pc["io"]>>
    BY <1>11 DEF Open, Bind, Write
  <2>2. Stage' = Stage
    BY <2>1 DEF Stage
  <2> QED
    BY <2>1, <2>2, LoopMoves
<1>12. CASE Begin
  BY <1>1, <1>2, <1>3, <1>12, LoopMoves DEF Begin, AsyncReceive
<1>13. CASE Unlisten
  BY <1>1, <1>2, <1>3, <1>13, LoopMoves DEF Unlisten
<1>14. CASE Take
  BY <1>1, <1>2, <1>3, <1>14, LoopMoves DEF Take
<1>15. CASE Deliver
  BY <1>1, <1>2, <1>3, <1>15, LoopMoves DEF Deliver
<1>16. CASE Check
  BY <1>1, <1>2, <1>3, <1>16, LoopMoves DEF Check
<1>17. CASE StartRead
  <2>1. reads = 0 /\ ready = <<>> /\ Stage = "again" /\ should_receive' = should_receive
    BY <1>1, <1>2, <1>17 DEF StartRead
  <2>2. CASE socket = "closed"
    <3>1. ready' # <<>> /\ ready'[1] = "error"
      BY <1>17, <2>1, <2>2 DEF StartRead, AsyncReceive
    <3>2. Stage' = "failed"
      BY <1>3, <3>1
    <3> QED
      BY <2>1, <3>2, LoopMoves
  <2>3. CASE socket # "closed"
    <3>1. reads' # 0
      BY <1>17, <2>1, <2>3 DEF StartRead, AsyncReceive
    <3>2. Stage' = "waiting"
      BY <1>3, <3>1
    <3> QED
      BY <2>1, <3>2, LoopMoves
  <2> QED
    BY <2>2, <2>3
<1>18. ASSUME NEW res \in {"data", "error"}, ReceiveCompletes(res) PROVE Goal
  <2>1. reads = 1 /\ ready = <<>> /\ Stage = "waiting" /\ should_receive' = should_receive
    BY <1>1, <1>2, <1>18 DEF ReceiveCompletes
  <2>2. ready' # <<>> /\ ready'[1] = res
    BY <1>18, <2>1 DEF ReceiveCompletes
  <2>3. Stage' \in {"full", "failed"}
    BY <1>3, <2>2
  <2> QED
    BY <2>1, <2>3, LoopMoves
<1>19. CASE UNCHANGED vars
  BY <1>4, <1>19 DEF vars
<1>20. "gui" \in Thread /\ "io" \in Thread /\ Thread = {"gui", "io"}
  OBVIOUS
<1> HIDE DEF InvToken, InvConnect, InvBound, StageTold, Busy, Thread, Goto,
             network, history, windows, TypeOK
<1> QED
  BY <1>5, <1>6, <1>7, <1>8, <1>9, <1>10, <1>11, <1>12, <1>13,
     <1>14, <1>15, <1>16, <1>17, <1>18, <1>19, <1>20
  DEF Next, GuiStep, IoStep, NetworkStep, Disconnect

\* startRead, handleRead and disconnect() implement the receive loop, for any
\* number of calls.
THEOREM Implements == Spec => ImplementsReceiveLoop
<1>1. Init => Loop!Init
  BY DEF Init, Loop!Init, Stage, Thread
<1>2. TypeOK /\ IInv /\ [Next]_vars /\ TypeOK' /\ IInv'
        => [overlap' \/ Loop!Next]_<<should_receive, Stage>>
  BY LoopStep
<1> QED
  BY <1>1, <1>2, Inductive, PTL DEF Spec, ImplementsReceiveLoop
=============================================================================

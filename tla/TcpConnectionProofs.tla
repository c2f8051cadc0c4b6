------------------------ MODULE TcpConnectionProofs ------------------------
(***************************************************************************)
(* What TcpConnection and ConnectionLifetime promise for every list of     *)
(* endpoints and any number of user operations: types, the safety          *)
(* properties of one connection shared by the gui and the io thread, and   *)
(* what is left of it when its device goes.                                *)
(***************************************************************************)
EXTENDS ConnectionLifetime, TLAPS

\* The completions close() adds to the queue: one per read, one per connect.
LEMMA RepeatedIsSeq ==
  ASSUME NEW S, NEW x \in S, NEW n \in Nat
  PROVE  /\ [i \in 1..n |-> x] \in Seq(S)
         /\ Len([i \in 1..n |-> x]) = n
  OBVIOUS

\* The elements of a concatenation.
LEMMA ConcatElements ==
  ASSUME NEW S, NEW s \in Seq(S), NEW u \in Seq(S)
  PROVE  /\ s \o u \in Seq(S) /\ Len(s \o u) = Len(s) + Len(u)
         /\ \A i \in 1..Len(s) : (s \o u)[i] = s[i]
         /\ \A i \in 1..Len(u) : (s \o u)[Len(s) + i] = u[i]
  OBVIOUS

\* Aborted operations are completions.
LEMMA AbortedType ==
  ASSUME TypeOK, NEW op \in {"connect", "read"}, NEW it \in Iterator
  PROVE  Aborted(op, it) \in Completion
  BY DEF TypeOK, Aborted, Completion

\* close() leaves a well-typed queue, longer by the operations it aborts.
LEMMA CloseReady ==
  ASSUME TypeOK, Close
  PROVE  /\ ready' \in Seq(Completion)
         /\ Len(ready') = Len(ready) + reads + (IF connect_op = 0 THEN 0 ELSE 1)
         /\ \A i \in 1..Len(ready') : i > Len(ready) => ready'[i].err 
         /\ \A i \in 1..Len(ready) : ready'[i] = ready[i]
<1> DEFINE R == [i \in 1..reads |-> Aborted("read", 0)]
           C == IF connect_op = 0 THEN <<>> ELSE <<Aborted("connect", connect_op)>>
           Q == ready \o R
<1>0. reads \in Nat /\ connect_op \in Iterator /\ ready \in Seq(Completion) /\ 0 \in Iterator
  BY EndpointsAssumption DEF TypeOK, Iterator
<1>1. Aborted("read", 0) \in Completion /\ Aborted("connect", connect_op) \in Completion
  BY <1>0, AbortedType
<1>2. R \in Seq(Completion) /\ Len(R) = reads
  BY <1>0, <1>1, RepeatedIsSeq
<1>3. C \in Seq(Completion) /\ Len(C) = IF connect_op = 0 THEN 0 ELSE 1
  BY <1>1
<1>4. ready' = Q \o C
  BY DEF Close
<1>5. \A i \in 1..Len(R) : R[i].err
  BY <1>0, <1>2 DEF Aborted
<1>6. \A i \in 1..Len(C) : C[i].err
  BY <1>0 DEF Aborted
<1> HIDE DEF R, C
<1>7. /\ Q \in Seq(Completion) /\ Len(Q) = Len(ready) + Len(R)
      /\ \A i \in 1..Len(ready) : Q[i] = ready[i]
      /\ \A i \in 1..Len(R) : Q[Len(ready) + i] = R[i]
  <2> HIDE DEF Q
  <2>1. ASSUME NEW s \in Seq(Completion), NEW u \in Seq(Completion), NEW q, q = s \o u
        PROVE  /\ q \in Seq(Completion) /\ Len(q) = Len(s) + Len(u)
               /\ \A i \in 1..Len(s) : q[i] = s[i]
               /\ \A i \in 1..Len(u) : q[Len(s) + i] = u[i]
    BY <2>1, ConcatElements
  <2>2. Q = ready \o R
    BY DEF Q
  <2>3. ready \in Seq(Completion) /\ R \in Seq(Completion)
    BY <1>0, <1>2
  <2> QED
    BY <2>1, <2>2, <2>3
<1> HIDE DEF Q
<1>8. /\ ready' \in Seq(Completion) /\ Len(ready') = Len(Q) + Len(C)
      /\ \A i \in 1..Len(Q) : ready'[i] = Q[i]
      /\ \A i \in 1..Len(C) : ready'[Len(Q) + i] = C[i]
  <2>1. /\ Q \o C \in Seq(Completion) /\ Len(Q \o C) = Len(Q) + Len(C)
        /\ \A i \in 1..Len(Q) : (Q \o C)[i] = Q[i]
        /\ \A i \in 1..Len(C) : (Q \o C)[Len(Q) + i] = C[i]
    <3>1. Q \in Seq(Completion) /\ C \in Seq(Completion)
      BY <1>3, <1>7
    <3> QED
      BY <3>1, ConcatElements
  <2> QED
    BY <1>4, <2>1, Zenon
<1>9. Len(ready) \in Nat /\ Len(R) \in Nat /\ Len(C) \in Nat
  BY <1>0, <1>2, <1>3
<1>10. ASSUME NEW i \in 1..Len(ready'), i > Len(ready)
       PROVE  ready'[i].err 
  <2>1. CASE i <= Len(Q)
    <3>1. i - Len(ready) \in 1..Len(R)
      BY <1>7, <1>9, <1>10, <2>1
    <3>2. ready'[i] = Q[i] /\ i = Len(ready) + (i - Len(ready))
      BY <1>7, <1>8, <1>9, <1>10, <2>1
    <3>3. Q[Len(ready) + (i - Len(ready))] = R[i - Len(ready)]
      BY <1>7, <3>1
    <3> QED
      BY <1>5, <3>1, <3>2, <3>3
  <2>2. CASE i > Len(Q)
    <3>1. i - Len(Q) \in 1..Len(C)
      BY <1>7, <1>8, <1>9, <1>10, <2>2
    <3>2. ready'[i] = C[i - Len(Q)]
      BY <1>7, <1>8, <1>9, <1>10, <2>2, <3>1
    <3> QED
      BY <1>6, <3>1, <3>2
  <2> QED
    BY <1>7, <1>9, <1>10, <2>1, <2>2
<1>11. \A i \in 1..Len(ready) : ready'[i] = ready[i]
  BY <1>7, <1>8, <1>9
<1> QED
  BY <1>2, <1>3, <1>7, <1>8, <1>9, <1>10, <1>11

-----------------------------------------------------------------------------
\* Every step of the socket keeps the types of the queue and the operations.
LEMMA NetworkTypes ==
  ASSUME TypeOK,
         \/ \E it \in Iterator : AsyncConnect(it)
         \/ AsyncRead
         \/ Close
  PROVE  /\ socket' \in {"closed", "open", "connecting", "connected"}
         /\ connect_op' \in Iterator /\ reads' \in Nat
         /\ ready' \in Seq(Completion)
<1>0. 0 \in Iterator
  BY EndpointsAssumption DEF Iterator
<1>1. ASSUME NEW it \in Iterator, AsyncConnect(it)
      PROVE  /\ socket' \in {"closed", "open", "connecting", "connected"}
             /\ connect_op' \in Iterator /\ reads' \in Nat
             /\ ready' \in Seq(Completion)
  BY <1>1, AbortedType DEF AsyncConnect, TypeOK
<1>2. CASE AsyncRead
  <2>1. Aborted("read", 0) \in Completion
    BY <1>0, AbortedType
  <2>2. socket' = socket /\ connect_op' = connect_op
    BY <1>2 DEF AsyncRead
  <2>3. reads' \in {reads, reads + 1} /\ ready' \in {ready, Append(ready, Aborted("read", 0))}
    BY <1>2 DEF AsyncRead
  <2>4. /\ socket \in {"closed", "open", "connecting", "connected"}
        /\ connect_op \in Iterator /\ reads \in Nat /\ ready \in Seq(Completion)
    BY DEF TypeOK
  <2> QED
    BY <2>1, <2>2, <2>3, <2>4
<1>3. CASE Close
  BY <1>0, <1>3, CloseReady DEF Close, TypeOK
<1> QED
  BY <1>1, <1>2, <1>3

LEMMA TypeStep == TypeOK /\ [Next]_vars => TypeOK'
<1> SUFFICES ASSUME TypeOK, [Next]_vars PROVE TypeOK'
  OBVIOUS
<1> USE DEF TypeOK, Thread, DisconnectPc, GuiPc, IoPc, Goto, flags, network, history
<1>0. 0 \in Iterator /\ NoTask \in Completion /\ 1..MaxEndpoints \subseteq Iterator
  BY EndpointsAssumption DEF Iterator, NoTask, Completion
<1>1. ASSUME NEW t \in Thread, Disconnect(t) PROVE TypeOK'
  <2>1. CASE TestConnected(t)
    BY <2>1 DEF TestConnected
  <2>2. CASE ClearRun(t)
    BY <1>0, <2>2 DEF ClearRun, Return, Excuse
  <2>3. CASE MarkDown(t)
    BY <2>3 DEF MarkDown
  <2>4. CASE StopRun(t)
    BY <2>4 DEF StopRun
  <2>5. CASE CloseSocket(t)
    BY <1>0, <2>5, NetworkTypes DEF CloseSocket, Return
  <2> QED
    BY <1>1, <2>1, <2>2, <2>3, <2>4, <2>5 DEF Disconnect
<1>2. CASE GuiCall
  BY <1>2 DEF GuiCall, PressConnect, PressDisconnect, PressApply, CloseConnection, Press, CallDisconnect
<1>3. CASE Resolve
  BY <1>0, <1>3 DEF Resolve
<1>4. CASE ResolveThrows
  BY <1>4 DEF ResolveThrows
<1>5. CASE Arm
  BY <1>5 DEF Arm
<1>6. CASE Begin
  BY <1>6, NetworkTypes DEF Begin
<1>7. CASE Take
  <2>1. Head(ready) \in Completion /\ Tail(ready) \in Seq(Completion)
    BY <1>7 DEF Take
  <2> QED
    BY <1>7, <2>1 DEF Take
<1>8. CASE CheckWanted
  BY <1>0, <1>8 DEF CheckWanted, HandlerReturns
<1>9. CASE CheckOpen
  BY <1>9 DEF CheckOpen, CallDisconnect
<1>10. CASE NextEndpoint
  <2>1. CASE task.iter > 1
    <3>1. task.iter - 1 \in Iterator
      BY <2>1, EndpointsAssumption DEF Completion, Iterator
    <3> QED
      BY <1>0, <1>10, <2>1, <3>1, NetworkTypes DEF NextEndpoint, HandlerReturns, Completion, Iterator
  <2>2. CASE ~(task.iter > 1)
    BY <1>10, <2>2 DEF NextEndpoint, CallDisconnect
  <2> QED
    BY <2>1, <2>2
<1>11. CASE Established
  BY <1>11 DEF Established
<1>12. CASE StartRead
  BY <1>0, <1>12, NetworkTypes DEF StartRead, HandlerReturns
<1>13. CASE Deliver
  BY <1>13 DEF Deliver
<1>14. CASE CheckRun
  BY <1>0, <1>14 DEF CheckRun, HandlerReturns
<1>15. ASSUME NEW ok \in BOOLEAN, ConnectCompletes(ok) PROVE TypeOK'
  BY <1>0, <1>15 DEF ConnectCompletes, Completion
<1>16. ASSUME NEW ok \in BOOLEAN, ReadCompletes(ok) PROVE TypeOK'
  BY <1>0, <1>16 DEF ReadCompletes, Completion
<1>17. CASE UNCHANGED vars
  BY <1>17 DEF vars
<1>18. "gui" \in Thread /\ "io" \in Thread
  OBVIOUS
<1> HIDE DEF TypeOK, Thread, DisconnectPc, GuiPc, IoPc, Goto, flags, network, history
<1> QED
  BY <1>1, <1>2, <1>3, <1>4, <1>5, <1>6, <1>7, <1>8, <1>9, <1>10, <1>11, <1>12,
     <1>13, <1>14, <1>15, <1>16, <1>17, <1>18 DEF Next, GuiStep, IoStep, NetworkStep

\* Every variable of the connection keeps its type.
THEOREM TypeCorrect == Spec => []TypeOK
<1>0. 0 \in Iterator /\ NoTask \in Completion
  BY EndpointsAssumption DEF Iterator, NoTask, Completion
<1>1. Init => TypeOK
  <2> SUFFICES ASSUME Init PROVE TypeOK
    OBVIOUS
  <2>1. ready \in Seq(Completion) /\ reads \in Nat
    BY DEF Init
  <2>2. pc \in [Thread -> DisconnectPc \cup GuiPc \cup IoPc]
    BY DEF Init, DisconnectPc, GuiPc, IoPc
  <2>3. ret \in [Thread -> {"idle", "resolve", "resolve_caught", "released", "next"}]
    BY DEF Init
  <2> QED
    BY <1>0, <2>1, <2>2, <2>3 DEF Init, TypeOK
<1> QED
  BY <1>1, TypeStep, PTL DEF Spec

-----------------------------------------------------------------------------
(***************************************************************************)
(* The safety properties follow from IInv, which every step preserves.     *)
(***************************************************************************)
LEMMA InductiveInit == Init => IInv
  BY DEF Init, IInv, InvToken, InvFlags, InvAttempt, InvLate, Busy, Thread

LEMMA InductiveStep == TypeOK /\ IInv /\ [Next]_vars => IInv'
<1> SUFFICES ASSUME TypeOK, IInv, [Next]_vars, ~overlap'
             PROVE  InvToken' /\ InvFlags' /\ InvAttempt' /\ InvLate'
  BY DEF IInv
<1> DEFINE Goal == InvToken' /\ InvFlags' /\ InvAttempt' /\ InvLate'
<1>0. ~overlap
  BY DEF Next, GuiCall, PressConnect, PressDisconnect, PressApply, CloseConnection, Press,
         GuiStep, IoStep, NetworkStep, Disconnect, TestConnected, ClearRun, MarkDown, StopRun,
         CloseSocket, Resolve, ResolveThrows, Arm, Begin, Take, CheckWanted, CheckOpen,
         NextEndpoint, Established, StartRead, Deliver, CheckRun, ConnectCompletes,
         ReadCompletes, history, vars, TypeOK
<1>1. InvToken /\ InvFlags /\ InvAttempt /\ InvLate
  BY <1>0 DEF IInv
<1> USE DEF InvToken, InvFlags, InvAttempt, InvLate, Answered, Closing, Busy,
            Thread, Goto, flags, network, history, TypeOK
<1>2. ASSUME NEW t \in Thread, TestConnected(t) PROVE Goal
  BY <1>1, <1>2 DEF TestConnected, IsConnected
<1>3. ASSUME NEW t \in Thread, ClearRun(t) PROVE Goal
  <2>1. InvToken'
    BY <1>1, <1>3 DEF ClearRun, Return
  <2>2. InvFlags'
    BY <1>1, <1>3 DEF ClearRun, Return
  <2>3. InvAttempt'
    BY <1>1, <1>3 DEF ClearRun, Return
  <2>4. InvLate'
    BY <1>1, <1>3 DEF ClearRun, Return
  <2> QED
    BY <2>1, <2>2, <2>3, <2>4
<1>4. ASSUME NEW t \in Thread, MarkDown(t) PROVE Goal
  BY <1>1, <1>4 DEF MarkDown
<1>5. ASSUME NEW t \in Thread, StopRun(t) PROVE Goal
  BY <1>1, <1>5 DEF StopRun
<1>6. ASSUME NEW t \in Thread, CloseSocket(t) PROVE Goal
  <2>1. InvToken'
    BY <1>1, <1>6, CloseReady DEF CloseSocket, Return, Close
  <2>2. InvFlags'
    BY <1>1, <1>6, CloseReady DEF CloseSocket, Return, Close
  <2>3. InvAttempt'
    BY <1>1, <1>6, CloseReady DEF CloseSocket, Return, Close
  <2>4. InvLate'
    BY <1>1, <1>6, CloseReady DEF CloseSocket, Return, Close
  <2> QED
    BY <2>1, <2>2, <2>3, <2>4
<1>7. CASE GuiCall
  <2>1. InvToken'
    BY <1>1, <1>7 DEF GuiCall, PressConnect, PressDisconnect, PressApply, CloseConnection, Press, CallDisconnect
  <2>2. InvFlags'
    BY <1>1, <1>7 DEF GuiCall, PressConnect, PressDisconnect, PressApply, CloseConnection, Press, CallDisconnect
  <2>3. InvAttempt'
    BY <1>1, <1>7 DEF GuiCall, PressConnect, PressDisconnect, PressApply, CloseConnection, Press, CallDisconnect
  <2>4. InvLate'
    BY <1>1, <1>7 DEF GuiCall, PressConnect, PressDisconnect, PressApply, CloseConnection, Press, CallDisconnect
  <2> QED
    BY <2>1, <2>2, <2>3, <2>4
<1>8. CASE Resolve
  BY <1>1, <1>8 DEF Resolve
<1>9. CASE ResolveThrows
  BY <1>1, <1>9 DEF ResolveThrows
<1>10. CASE Arm
  <2>1. ~Busy
    BY <1>0, <1>10 DEF Arm
  <2> QED
    BY <1>1, <1>10, <2>1 DEF Arm
<1>11. CASE Begin
  <2>1. connect_op = 0 /\ reads = 0 /\ ready = <<>> /\ pc["io"] = "idle"
    BY <1>1, <1>11 DEF Begin
  <2>2. CASE socket \in {"closed", "open"}
    BY <1>1, <1>11, <2>1, <2>2 DEF Begin, AsyncConnect
  <2>3. CASE ~(socket \in {"closed", "open"})
    <3>1. Len(ready') = 1 /\ ready'[1] = Aborted("connect", endpoints)
      BY <1>11, <2>1, <2>3 DEF Begin, AsyncConnect
    <3> QED
      BY <1>1, <1>11, <2>1, <2>3, <3>1 DEF Begin, AsyncConnect, Aborted
  <2> QED
    BY <2>2, <2>3
<1>12. CASE Take
  BY <1>1, <1>12 DEF Take
<1>13. CASE CheckWanted
  <2>1. InvToken'
    BY <1>1, <1>13 DEF CheckWanted, HandlerReturns
  <2>2. InvFlags'
    BY <1>1, <1>13 DEF CheckWanted, HandlerReturns
  <2>3. InvAttempt'
    BY <1>1, <1>13 DEF CheckWanted, HandlerReturns
  <2>4. InvLate'
    BY <1>1, <1>13 DEF CheckWanted, HandlerReturns
  <2> QED
    BY <2>1, <2>2, <2>3, <2>4
<1>14. CASE CheckOpen
  <2>1. InvToken'
    BY <1>1, <1>14 DEF CheckOpen, CallDisconnect
  <2>2. InvFlags'
    BY <1>1, <1>14 DEF CheckOpen, CallDisconnect
  <2>3. InvAttempt'
    BY <1>1, <1>14 DEF CheckOpen, CallDisconnect
  <2>4. InvLate'
    BY <1>1, <1>14 DEF CheckOpen, CallDisconnect
  <2> QED
    BY <2>1, <2>2, <2>3, <2>4
<1>15. CASE NextEndpoint
  <2>1. connect_op = 0 /\ reads = 0 /\ ready = <<>> /\ pc["io"] = "next" /\ ~should_run
    BY <1>1, <1>15 DEF NextEndpoint
  <2>2. CASE task.iter > 1 /\ socket \in {"closed", "open"}
    <3>1. task.iter - 1 # 0
      BY <2>2 DEF Completion, Iterator
    <3>2. QED
      <4>1. /\ connect_op' # 0 /\ socket' = "connecting" /\ reads' = 0
            /\ ready' = <<>> /\ pc'["io"] = "idle" /\ pc'["gui"] = pc["gui"]
            /\ ~should_run' /\ is_connected' = is_connected /\ late' = late
        BY <1>15, <2>1, <2>2, <3>1 DEF NextEndpoint, AsyncConnect, HandlerReturns, Completion, Iterator
      <4>2. ~is_connected
        BY <1>1, <2>2
      <4>3. Len(ready') = 0
        BY <4>1
      <4> QED
        BY <1>1, <2>1, <4>1, <4>2, <4>3 DEF Busy
  <2>3. CASE task.iter > 1 /\ ~(socket \in {"closed", "open"})
    <3>1. Len(ready') = 1 /\ ready'[1] = Aborted("connect", task.iter - 1)
      BY <1>15, <2>1, <2>3 DEF NextEndpoint, AsyncConnect, Completion, Iterator
    <3> QED
      BY <1>1, <1>15, <2>1, <2>3, <3>1 DEF NextEndpoint, AsyncConnect, Aborted, HandlerReturns, Completion, Iterator
  <2>4. CASE ~(task.iter > 1)
    BY <1>1, <1>15, <2>1, <2>4 DEF NextEndpoint, CallDisconnect
  <2> QED
    BY <2>2, <2>3, <2>4
<1>16. CASE Established
  BY <1>1, <1>16 DEF Established
<1>17. CASE StartRead
  <2>1. connect_op = 0 /\ reads = 0 /\ ready = <<>> /\ pc["io"] = "start_read"
    BY <1>1, <1>17 DEF StartRead
  <2>2. CASE socket \in {"closed", "open"}
    <3>1. Len(ready') = 1 /\ ready'[1] = Aborted("read", 0)
      BY <1>17, <2>1, <2>2 DEF StartRead, AsyncRead
    <3> QED
      BY <1>1, <1>17, <2>1, <2>2, <3>1 DEF StartRead, AsyncRead, Aborted, HandlerReturns
  <2>3. CASE ~(socket \in {"closed", "open"})
    BY <1>1, <1>17, <2>1, <2>3 DEF StartRead, AsyncRead, HandlerReturns
  <2> QED
    BY <2>2, <2>3
<1>18. CASE Deliver
  BY <1>1, <1>18 DEF Deliver
<1>19. CASE CheckRun
  <2>1. InvToken'
    BY <1>1, <1>19 DEF CheckRun, HandlerReturns
  <2>2. InvFlags'
    BY <1>1, <1>19 DEF CheckRun, HandlerReturns
  <2>3. InvAttempt'
    BY <1>1, <1>19 DEF CheckRun, HandlerReturns
  <2>4. InvLate'
    BY <1>1, <1>19 DEF CheckRun, HandlerReturns
  <2> QED
    BY <2>1, <2>2, <2>3, <2>4
<1>20. ASSUME NEW ok \in BOOLEAN, ConnectCompletes(ok) PROVE Goal
  BY <1>1, <1>20 DEF ConnectCompletes
<1>21. ASSUME NEW ok \in BOOLEAN, ReadCompletes(ok) PROVE Goal
  <2>1. InvToken'
    BY <1>1, <1>21 DEF ReadCompletes
  <2>2. InvFlags'
    BY <1>1, <1>21 DEF ReadCompletes
  <2>3. InvAttempt'
    BY <1>1, <1>21 DEF ReadCompletes
  <2>4. InvLate'
    BY <1>1, <1>21 DEF ReadCompletes
  <2> QED
    BY <2>1, <2>2, <2>3, <2>4
<1>22. CASE UNCHANGED vars
  BY <1>1, <1>22 DEF vars
<1> HIDE DEF InvToken, InvFlags, InvAttempt, InvLate, Answered, Closing, Busy,
             Thread, Goto, flags, network, history, TypeOK
<1>23. "gui" \in Thread /\ "io" \in Thread
  BY DEF Thread
<1> QED
  BY <1>2, <1>3, <1>4, <1>5, <1>6, <1>7, <1>8, <1>9, <1>10, <1>11, <1>12, <1>13, <1>14, <1>15,
     <1>16, <1>17, <1>18, <1>19, <1>20, <1>21, <1>22, <1>23
  DEF Next, GuiStep, IoStep, NetworkStep, Disconnect

LEMMA Inductive == Spec => [](TypeOK /\ IInv)
  BY TypeCorrect, InductiveInit, InductiveStep, PTL DEF Spec

-----------------------------------------------------------------------------
(***************************************************************************)
(* A reported link is read, and a link the kernel has is reported: LinkInv *)
(* on top of IInv.                                                         *)
(***************************************************************************)
\* An overlap is never taken back.
LEMMA Untouched ==
  ASSUME TypeOK, [Next]_vars, ~overlap'
  PROVE  ~overlap
  BY DEF Next, GuiCall, PressConnect, PressDisconnect, PressApply, CloseConnection, Press,
         GuiStep, IoStep, NetworkStep, Disconnect, TestConnected, ClearRun, MarkDown, StopRun,
         CloseSocket, Resolve, ResolveThrows, Arm, Begin, Take, CheckWanted, CheckOpen,
         NextEndpoint, Established, StartRead, Deliver, CheckRun, ConnectCompletes,
         ReadCompletes, history, vars, TypeOK

\* Every step keeps a reported link wanted and read.
LEMMA WantedStep ==
  ASSUME TypeOK, IInv, LinkInv, [Next]_vars, ~overlap'
  PROVE  InvWanted'
<1>0. InvToken /\ InvFlags /\ InvAttempt /\ InvWanted /\ InvOrphan /\ TypeOK
  BY Untouched DEF IInv, LinkInv
<1> USE DEF InvToken, InvFlags, InvAttempt, InvWanted, Reading, Queued, Answered, Closing, Busy, Thread, Goto, flags, network, history, TypeOK
<1>1. ASSUME NEW t \in Thread, TestConnected(t) PROVE InvWanted'
  BY <1>0, <1>1 DEF TestConnected, IsConnected
<1>2. ASSUME NEW t \in Thread, ClearRun(t) PROVE InvWanted'
  BY <1>0, <1>2 DEF ClearRun, Return, Excuse
<1>3. ASSUME NEW t \in Thread, MarkDown(t) PROVE InvWanted'
  BY <1>0, <1>3 DEF MarkDown
<1>4. ASSUME NEW t \in Thread, StopRun(t) PROVE InvWanted'
  BY <1>0, <1>4 DEF StopRun
<1>5. ASSUME NEW t \in Thread, CloseSocket(t) PROVE InvWanted'
  BY <1>0, <1>5 DEF CloseSocket, Return, Close
<1>6. CASE GuiCall
  BY <1>0, <1>6 DEF GuiCall, PressConnect, PressDisconnect, PressApply, CloseConnection, Press, CallDisconnect
<1>7. CASE Resolve
  BY <1>0, <1>7 DEF Resolve
<1>8. CASE ResolveThrows
  BY <1>0, <1>8 DEF ResolveThrows
<1>9. CASE Arm
  BY <1>0, <1>9 DEF Arm
<1>10. CASE Begin
  BY <1>0, <1>10 DEF Begin, AsyncConnect
<1>11. CASE Take
  BY <1>0, <1>11 DEF Take
<1>12. CASE CheckWanted
  BY <1>0, <1>12 DEF CheckWanted, HandlerReturns
<1>13. CASE CheckOpen
  BY <1>0, <1>13 DEF CheckOpen, CallDisconnect
<1>14. CASE NextEndpoint
  BY <1>0, <1>14 DEF NextEndpoint, AsyncConnect, HandlerReturns, CallDisconnect
<1>15. CASE Established
  BY <1>0, <1>15 DEF Established
<1>16. CASE StartRead
  BY <1>0, <1>16 DEF StartRead, AsyncRead, HandlerReturns
<1>17. CASE Deliver
  BY <1>0, <1>17 DEF Deliver
<1>18. CASE CheckRun
  BY <1>0, <1>18 DEF CheckRun, HandlerReturns
<1>19. ASSUME NEW ok \in BOOLEAN, ConnectCompletes(ok) PROVE InvWanted'
  BY <1>0, <1>19 DEF ConnectCompletes
<1>20. ASSUME NEW ok \in BOOLEAN, ReadCompletes(ok) PROVE InvWanted'
  BY <1>0, <1>20 DEF ReadCompletes
<1>21. CASE UNCHANGED vars
  BY <1>0, <1>21 DEF vars
<1> HIDE DEF InvToken, InvFlags, InvAttempt, InvWanted, Reading, Queued, Answered, Closing, Busy, Thread, Goto, flags, network, history, TypeOK
<1>22. "gui" \in Thread /\ "io" \in Thread
  BY DEF Thread
<1> QED
  BY <1>1, <1>2, <1>3, <1>4, <1>5, <1>6, <1>7, <1>8, <1>9, <1>10, <1>11, <1>12,
     <1>13, <1>14, <1>15, <1>16, <1>17, <1>18, <1>19, <1>20, <1>21, <1>22
  DEF Next, GuiStep, IoStep, NetworkStep, Disconnect

\* Every step keeps the kernel's link on its way to a report or a close.
LEMMA OrphanStep ==
  ASSUME TypeOK, IInv, LinkInv, [Next]_vars, ~overlap'
  PROVE  InvOrphan'
<1>0. InvToken /\ InvFlags /\ InvAttempt /\ InvWanted /\ InvOrphan /\ TypeOK
  BY Untouched DEF IInv, LinkInv
<1> USE DEF InvToken, InvFlags, InvAttempt, InvWanted, InvOrphan, Reading, Answering, Queued, Answered, Closing, Busy, Thread, Goto, flags, network, history, TypeOK
<1>1. ASSUME NEW t \in Thread, TestConnected(t) PROVE InvOrphan'
  BY <1>0, <1>1 DEF TestConnected, IsConnected
<1>2. ASSUME NEW t \in Thread, ClearRun(t) PROVE InvOrphan'
  BY <1>0, <1>2 DEF ClearRun, Return, Excuse
<1>3. ASSUME NEW t \in Thread, MarkDown(t) PROVE InvOrphan'
  BY <1>0, <1>3 DEF MarkDown
<1>4. ASSUME NEW t \in Thread, StopRun(t) PROVE InvOrphan'
  BY <1>0, <1>4 DEF StopRun
<1>5. ASSUME NEW t \in Thread, CloseSocket(t) PROVE InvOrphan'
  <2>1. /\ socket' = "closed" /\ connect_op' = 0 /\ should_run' = should_run
        /\ cancelled' = cancelled /\ slipped' = slipped
    BY <1>5 DEF CloseSocket, Close
  <2>2. Len(ready) \in {0, 1} /\ (ready = <<>> <=> Len(ready) = 0)
    BY <1>0
  <2>3. Queued("connect")' /\ ~ready'[1].err => Queued("connect") /\ ~ready[1].err
    <3>1. /\ ready' \in Seq(Completion)
          /\ \A i \in 1..Len(ready') : i > Len(ready) => ready'[i].err
          /\ \A i \in 1..Len(ready) : ready'[i] = ready[i]
      BY <1>5, CloseReady DEF CloseSocket
    <3>2. ready' # <<>> => 1 \in 1..Len(ready')
      BY <3>1
    <3> QED
      BY <2>2, <3>1, <3>2
  <2>4. Answering' => Answering
    BY <1>0, <1>5, <2>3 DEF CloseSocket, Return
  <2> QED
    BY <1>0, <2>1, <2>4
<1>6. CASE GuiCall
  BY <1>0, <1>6 DEF GuiCall, PressConnect, PressDisconnect, PressApply, CloseConnection, Press, CallDisconnect
<1>7. CASE Resolve
  BY <1>0, <1>7 DEF Resolve
<1>8. CASE ResolveThrows
  BY <1>0, <1>8 DEF ResolveThrows
<1>9. CASE Arm
  BY <1>0, <1>9 DEF Arm
<1>10. CASE Begin
  <2>1. connect_op = 0 /\ ready = <<>> /\ pc["io"] = "idle" /\ pc["gui"] = "begin" /\ should_run
    BY <1>0, <1>10 DEF Begin
  <2>2. should_run' = should_run /\ cancelled' = cancelled /\ slipped' = slipped
    BY <1>10 DEF Begin
  <2>3. MaxEndpoints = 1 /\ ~cancelled => socket # "connected"
    BY <1>0, <2>1
  <2>4. MaxEndpoints = 1 /\ ~cancelled => socket' # "connected"
    BY <2>3, <1>10 DEF Begin, AsyncConnect
  <2> QED
    BY <1>0, <2>1, <2>2, <2>4
<1>11. CASE Take
  BY <1>0, <1>11 DEF Take
<1>12. CASE CheckWanted
  BY <1>0, <1>12 DEF CheckWanted, HandlerReturns
<1>13. CASE CheckOpen
  BY <1>0, <1>13 DEF CheckOpen, CallDisconnect
<1>14. CASE NextEndpoint
  <2>1. CASE MaxEndpoints = 1
    <3>1. ~(task.iter > 1)
      BY <2>1 DEF Completion, Iterator
    <3> QED
      BY <1>0, <1>14, <3>1 DEF NextEndpoint, CallDisconnect
  <2>2. CASE MaxEndpoints # 1
    BY <1>0, <1>14, <2>2 DEF NextEndpoint
  <2> QED
    BY <2>1, <2>2
<1>15. CASE Established
  BY <1>0, <1>15 DEF Established
<1>16. CASE StartRead
  <2>1. /\ connect_op = 0 /\ ready = <<>> /\ pc["io"] = "start_read"
        /\ pc'["io"] = "idle" /\ pc'["gui"] = pc["gui"]
        /\ socket' = socket /\ connect_op' = connect_op /\ UNCHANGED <<flags, history>>
    BY <1>0, <1>16 DEF StartRead, AsyncRead, HandlerReturns
  <2>2. ready' = <<>> \/ (Len(ready') = 1 /\ ready'[1] = Aborted("read", 0))
    BY <1>16, <2>1 DEF StartRead, AsyncRead
  <2>3. ~Answering'
    BY <2>1, <2>2 DEF Aborted
  <2>4. ~Answering
    BY <2>1
  <2> QED
    BY <1>0, <2>1, <2>3, <2>4
<1>17. CASE Deliver
  BY <1>0, <1>17 DEF Deliver
<1>18. CASE CheckRun
  BY <1>0, <1>18 DEF CheckRun, HandlerReturns
<1>19. ASSUME NEW ok \in BOOLEAN, ConnectCompletes(ok) PROVE InvOrphan'
  BY <1>0, <1>19 DEF ConnectCompletes
<1>20. ASSUME NEW ok \in BOOLEAN, ReadCompletes(ok) PROVE InvOrphan'
  BY <1>0, <1>20 DEF ReadCompletes
<1>21. CASE UNCHANGED vars
  BY <1>0, <1>21 DEF vars
<1> HIDE DEF InvToken, InvFlags, InvAttempt, InvWanted, InvOrphan, Reading, Answering, Queued, Answered, Closing, Busy, Thread, Goto, flags, network, history, TypeOK
<1>22. "gui" \in Thread /\ "io" \in Thread
  BY DEF Thread
<1> QED
  BY <1>1, <1>2, <1>3, <1>4, <1>5, <1>6, <1>7, <1>8, <1>9, <1>10, <1>11, <1>12,
     <1>13, <1>14, <1>15, <1>16, <1>17, <1>18, <1>19, <1>20, <1>21, <1>22
  DEF Next, GuiStep, IoStep, NetworkStep, Disconnect

LEMMA LinkInductive == Spec => [](TypeOK /\ IInv /\ LinkInv)
<1>1. Init => LinkInv
  BY DEF Init, LinkInv, InvWanted, InvOrphan, Reading, Answering, Queued, Thread
<1>2. TypeOK /\ IInv /\ LinkInv /\ [Next]_vars => LinkInv'
  BY WantedStep, OrphanStep DEF LinkInv
<1> QED
  BY <1>1, <1>2, Inductive, PTL DEF Spec

-----------------------------------------------------------------------------
\* At most one operation or handler exists, for any number of endpoints and
\* user calls, as long as connect() finds the previous attempt drained.
THEOREM OneOperationHolds == Spec => []OneOperation
<1>1. TypeOK /\ IInv => OneOperation
  <2> SUFFICES ASSUME TypeOK, InvToken PROVE Pending <= 1
    BY DEF OneOperation, IInv
  <2>1. connect_op \in Nat /\ reads \in Nat /\ Len(ready) \in Nat /\ (ready = <<>> => Len(ready) = 0)
    BY DEF TypeOK, Iterator
  <2>2. CASE connect_op # 0
    BY <2>1, <2>2 DEF InvToken, Pending
  <2>3. CASE connect_op = 0 /\ reads # 0
    BY <2>1, <2>3 DEF InvToken, Pending
  <2>4. CASE connect_op = 0 /\ reads = 0
    <3>1. CASE ready = <<>>
      BY <2>1, <2>4, <3>1 DEF Pending
    <3>2. CASE ready # <<>>
      <4>1. Len(ready) = 1 /\ pc["io"] = "idle"
        BY <3>2 DEF InvToken
      <4> QED
        BY <2>4, <4>1 DEF Pending
    <3> QED
      BY <3>1, <3>2
  <2> QED
    BY <2>2, <2>3, <2>4
<1> QED
  BY <1>1, Inductive, PTL

\* isConnected() reports only links the kernel has (same proviso).
THEOREM LinkIsUpHolds == Spec => []LinkIsUp
<1>1. IInv => LinkIsUp
  BY DEF IInv, InvFlags, LinkIsUp
<1> QED
  BY <1>1, Inductive, PTL

\* At most one buffer is delivered after should_run_ was cleared.
THEOREM LateBoundHolds == Spec => []LateBound
<1>1. IInv => LateBound
  BY DEF IInv, InvLate, LateBound
<1> QED
  BY <1>1, Inductive, PTL

\* Every endpoint after the first is tried with should_run_ cleared.
THEOREM FallbackFutileHolds == Spec => []FallbackFutile
<1>1. IInv => FallbackFutile
  BY DEF IInv, InvFlags, FallbackFutile
<1> QED
  BY <1>1, Inductive, PTL

\* At rest no operation, completion or handler is left.
LEMMA AtRest ==
  ASSUME TypeOK, Quiet
  PROVE  reads = 0 /\ ready = <<>> /\ pc["io"] = "idle" /\ pc["gui"] \in {"idle", "released"}
<1>1. reads \in Nat /\ Len(ready) \in Nat /\ (Len(ready) = 0 => ready = <<>>)
  BY DEF TypeOK
<1> DEFINE C == IF connect_op # 0 THEN 1 ELSE 0
           L == Len(ready)
           H == IF pc["io"] # "idle" THEN 1 ELSE 0
<1>2. C \in Nat /\ L \in Nat /\ H \in Nat /\ (H = 0 => pc["io"] = "idle")
  BY <1>1
<1>3. C + reads + L + H = 0
  BY DEF Quiet, Pending
<1>4. L = 0 => ready = <<>>
  BY <1>1
<1> HIDE DEF C, L, H
<1> QED
  BY <1>1, <1>2, <1>3, <1>4 DEF Quiet

\* When all is quiet no link is reported up, for any number of endpoints and
\* calls, unless attempts overlapped or disconnect() met the link while it came up.
THEOREM NotDeafHolds == Spec => []NotDeaf
<1>1. TypeOK /\ LinkInv => NotDeaf
  <2> SUFFICES ASSUME TypeOK, InvWanted, Quiet, is_connected PROVE slipped
    BY DEF NotDeaf, LinkInv
  <2>1. reads = 0 /\ ready = <<>> /\ pc["io"] = "idle"
    BY AtRest
  <2> QED
    BY <2>1 DEF InvWanted, Reading, Queued
<1> QED
  BY <1>1, LinkInductive, PTL

\* For names with one endpoint, the kernel keeps no link that isConnected()
\* denies, after any number of uninterrupted attempts.
THEOREM NoOrphanLinkHolds ==
  ASSUME MaxEndpoints = 1
  PROVE  Spec => []NoOrphanLink
<1>1. TypeOK /\ LinkInv => NoOrphanLink
  <2> SUFFICES ASSUME TypeOK, InvOrphan, Quiet, socket = "connected", ~is_connected
               PROVE  cancelled
    BY DEF NoOrphanLink, LinkInv
  <2>1. ready = <<>> /\ pc["io"] = "idle" /\ pc["gui"] \in {"idle", "released"}
    BY AtRest
  <2> QED
    BY <2>1 DEF InvOrphan, Answering, Queued, Thread
<1> QED
  BY <1>1, LinkInductive, PTL
-----------------------------------------------------------------------------
(***************************************************************************)
(* The connection and the device it refers to: the composition is a        *)
(* TcpConnection, and its close loop leaves at most the buffer that was on *)
(* its way.                                                                *)
(***************************************************************************)
\* Every step of the composition is a step of the connection, or none.
LEMMA StepOfConnection == [LNext]_lvars => [Next]_vars
  BY DEF LNext, lvars, Button, CloseWindow, CloseDisconnect, EraseConnection, EraseDevice,
         GuiGoesOn, IoGoesOn, NetworkGoesOn, Next, GuiCall

\* The connection in the registry is a TcpConnection: what is proved of the one
\* holds of the other.
THEOREM ConnectionImplemented == LSpec => Spec
<1>1. LInit => Init
  BY DEF LInit
<1> QED
  BY <1>1, StepOfConnection, PTL DEF LSpec, Spec

-----------------------------------------------------------------------------
\* Once disconnect() has returned to the close loop, the gui thread stays there.
LEMMA Released ==
  ASSUME TypeOK, GuiStep \/ IoStep \/ NetworkStep, pc["gui"] = "released"
  PROVE  pc'["gui"] = "released"
  BY DEF TypeOK, Thread, GuiStep, Disconnect, TestConnected, ClearRun, MarkDown, StopRun, CloseSocket,
         Return, Resolve, ResolveThrows, Arm, Begin, IoStep, Take, CheckWanted, CheckOpen,
         NextEndpoint, Established, StartRead, Deliver, CheckRun, HandlerReturns, CallDisconnect,
         NetworkStep, ConnectCompletes, ReadCompletes, Goto

\* The close loop keeps its order.
LEMMA LoopStep ==
  ASSUME TypeOK, InvLoop, [LNext]_lvars
  PROVE  InvLoop'
<1> USE DEF InvLoop, Entry
<1>1. CASE Button
  BY <1>1 DEF Button, PressConnect, PressDisconnect, PressApply, Press, lifetime
<1>2. CASE CloseWindow \/ EraseConnection \/ EraseDevice
  BY <1>2 DEF CloseWindow, EraseConnection, EraseDevice, OnItsWay, vars
<1>3. CASE CloseDisconnect
  BY <1>3 DEF CloseDisconnect, lifetime
<1>4. CASE GuiGoesOn \/ NetworkGoesOn
  BY <1>4, Released DEF GuiGoesOn, NetworkGoesOn, lifetime
<1>5. CASE IoGoesOn
  BY <1>5, Released DEF IoGoesOn
<1>6. CASE UNCHANGED lvars
  BY <1>6 DEF lvars, vars, lifetime
<1> QED
  BY <1>1, <1>2, <1>3, <1>4, <1>5, <1>6 DEF LNext

\* Every step keeps a read on a link that is reported or closed.
LEMMA ReadsStep ==
  ASSUME TypeOK, InvToken, InvFlags, InvReads, [Next]_vars, ~overlap'
  PROVE  InvReads'
<1>0. InvToken /\ InvFlags /\ InvReads /\ TypeOK /\ ~overlap
  BY Untouched
<1> USE DEF InvReads, ReadUnderWay, Queued, InvToken, InvFlags, Closing, Busy, Thread, Goto, flags, network, TypeOK
<1>1. ASSUME NEW t \in Thread, TestConnected(t) PROVE InvReads'
  BY <1>0, <1>1 DEF TestConnected
<1>2. ASSUME NEW t \in Thread, ClearRun(t) PROVE InvReads'
  BY <1>0, <1>2 DEF ClearRun, Return
<1>3. ASSUME NEW t \in Thread, MarkDown(t) PROVE InvReads'
  BY <1>0, <1>3 DEF MarkDown
<1>4. ASSUME NEW t \in Thread, StopRun(t) PROVE InvReads'
  BY <1>0, <1>4 DEF StopRun
<1>5. ASSUME NEW t \in Thread, CloseSocket(t) PROVE InvReads'
  BY <1>0, <1>5 DEF CloseSocket, Return, Close
<1>6. CASE GuiCall
  BY <1>0, <1>6 DEF GuiCall, PressConnect, PressDisconnect, PressApply, CloseConnection, Press, CallDisconnect
<1>7. CASE Resolve
  BY <1>0, <1>7 DEF Resolve
<1>8. CASE ResolveThrows
  BY <1>0, <1>8 DEF ResolveThrows
<1>9. CASE Arm
  BY <1>0, <1>9 DEF Arm
<1>10. CASE Begin
  <2>1. reads = 0 /\ ready = <<>> /\ pc["io"] = "idle"
    BY <1>0, <1>10 DEF Begin
  <2>2. reads' = 0 /\ pc'["io"] = "idle"
    BY <1>10, <2>1 DEF Begin, AsyncConnect
  <2>3. ready' = <<>> \/ (Len(ready') = 1 /\ ready'[1] = Aborted("connect", endpoints))
    BY <1>10, <2>1 DEF Begin, AsyncConnect
  <2> QED
    BY <2>2, <2>3 DEF Aborted
<1>11. CASE Take
  <2>1. reads = 0 /\ Len(ready) = 1 /\ ready \in Seq(Completion) /\ pc["io"] = "idle"
    BY <1>0, <1>11 DEF Take
  <2>2. reads' = 0 /\ ready' = <<>> /\ task' = ready[1] /\ task' \in Completion
    BY <1>11, <2>1 DEF Take
  <2>3. pc'["io"] \in {"handle_connect", "test", "deliver"} /\ pc'["gui"] = pc["gui"]
    BY <1>0, <1>11 DEF Take
  <2>4. pc'["io"] = "deliver" => ready[1].op = "read" /\ ~ready[1].err
    BY <1>0, <1>11, <2>2 DEF Take, Completion
  <2>5. ReadUnderWay' => pc'["io"] = "deliver"
    <3>1. ~Queued("read")'
      BY <2>2
    <3> QED
      BY <2>2, <2>3, <3>1
  <2>6. ReadUnderWay' => ReadUnderWay
    <3>1. ready # <<>>
      BY <1>11 DEF Take
    <3>2. pc'["io"] = "deliver" => Queued("read") /\ ~ready[1].err
      BY <2>4, <3>1
    <3>3. Queued("read") /\ ~ready[1].err => ReadUnderWay
      OBVIOUS
    <3> HIDE DEF ReadUnderWay, Queued
    <3> QED
      BY <2>5, <3>2, <3>3
  <2>7. is_connected' = is_connected /\ socket' = socket /\ reads' = reads
    BY <1>11 DEF Take
  <2>8. ReadUnderWay => is_connected \/ pc["gui"] \in {"stop", "close"} \/ (socket = "closed" /\ reads = 0)
    BY <1>0
  <2> HIDE DEF ReadUnderWay, TypeOK, InvToken, InvFlags
  <2> QED
    BY <2>3, <2>6, <2>7, <2>8
<1>12. CASE CheckWanted
  BY <1>0, <1>12 DEF CheckWanted, HandlerReturns
<1>13. CASE CheckOpen
  BY <1>0, <1>13 DEF CheckOpen, CallDisconnect
<1>14. CASE NextEndpoint
  <2>1. reads = 0 /\ ready = <<>> /\ pc["io"] = "next"
    BY <1>0, <1>14 DEF NextEndpoint
  <2>2. reads' = 0 /\ pc'["io"] \in {"idle", "test"}
    BY <1>0, <1>14, <2>1 DEF NextEndpoint, AsyncConnect, HandlerReturns, CallDisconnect
  <2>3. ready' = <<>> \/ (Len(ready') = 1 /\ ready'[1] = Aborted("connect", task.iter - 1))
    BY <1>14, <2>1 DEF NextEndpoint, AsyncConnect
  <2> QED
    BY <2>2, <2>3 DEF Aborted
<1>15. CASE Established
  BY <1>0, <1>15 DEF Established
<1>16. CASE StartRead
  BY <1>0, <1>16 DEF StartRead, AsyncRead, HandlerReturns
<1>17. CASE Deliver
  BY <1>0, <1>17 DEF Deliver
<1>18. CASE CheckRun
  BY <1>0, <1>18 DEF CheckRun, HandlerReturns
<1>19. ASSUME NEW ok \in BOOLEAN, ConnectCompletes(ok) PROVE InvReads'
  BY <1>0, <1>19 DEF ConnectCompletes
<1>20. ASSUME NEW ok \in BOOLEAN, ReadCompletes(ok) PROVE InvReads'
  BY <1>0, <1>20 DEF ReadCompletes
<1>21. CASE UNCHANGED vars
  BY <1>0, <1>21 DEF vars
<1> HIDE DEF InvReads, ReadUnderWay, Queued, InvToken, InvFlags, Closing, Busy, Thread, Goto, flags, network, TypeOK
<1>22. "gui" \in Thread /\ "io" \in Thread
  BY DEF Thread
<1> QED
  BY <1>1, <1>2, <1>3, <1>4, <1>5, <1>6, <1>7, <1>8, <1>9, <1>10, <1>11, <1>12,
     <1>13, <1>14, <1>15, <1>16, <1>17, <1>18, <1>19, <1>20, <1>21, <1>22
  DEF Next, GuiStep, IoStep, NetworkStep, Disconnect


\* Only a read under way puts a buffer on its way.
LEMMA OnItsWayStep ==
  ASSUME TypeOK, InvToken, IoStep \/ NetworkStep \/ UNCHANGED vars, OnItsWay'
  PROVE  OnItsWay \/ reads # 0
<1> USE DEF OnItsWay, InvToken, Goto, Thread, flags, network, TypeOK
<1>1. ASSUME NEW t \in Thread, Disconnect(t), t = "io" PROVE OnItsWay
  <2>1. CASE CloseSocket(t)
    <3>1. /\ ready' \in Seq(Completion)
          /\ \A i \in 1..Len(ready') : i > Len(ready) => ready'[i].err
          /\ \A i \in 1..Len(ready) : ready'[i] = ready[i]
      BY <2>1, CloseReady DEF CloseSocket
    <3>2. pc'["io"] # "deliver"
      BY <1>1, <2>1 DEF CloseSocket, Return
    <3>3. PICK i \in 1..Len(ready') : ready'[i].op = "read" /\ ~ready'[i].err
      BY <3>2
    <3>4. i \in 1..Len(ready)
      BY <3>1, <3>3
    <3> QED
      BY <3>1, <3>3, <3>4
  <2>2. CASE TestConnected(t) \/ ClearRun(t) \/ MarkDown(t) \/ StopRun(t)
    BY <1>1, <2>2 DEF TestConnected, ClearRun, Return, MarkDown, StopRun
  <2> QED
    BY <1>1, <2>1, <2>2 DEF Disconnect
<1>2. CASE Take
  <2>1. Len(ready) = 1 /\ ready \in Seq(Completion) /\ ready' = <<>> /\ task' = ready[1] /\ task' \in Completion
    BY <1>2 DEF Take
  <2>2. pc'["io"] = "deliver"
    BY <2>1
  <2>3. ready[1].op = "read" /\ ~ready[1].err
    BY <1>2, <2>1, <2>2 DEF Take, Completion
  <2> QED
    BY <2>1, <2>3
<1>3. CASE NextEndpoint \/ StartRead
  <2>1. ready = <<>> /\ pc'["io"] # "deliver"
    BY <1>3 DEF NextEndpoint, StartRead, HandlerReturns, CallDisconnect
  <2>2. ready' = <<>> \/ (Len(ready') = 1 /\ ready'[1].err)
    BY <1>3, <2>1 DEF NextEndpoint, AsyncConnect, StartRead, AsyncRead, Aborted
  <2> QED
    BY <2>1, <2>2
<1>4. CASE CheckWanted \/ CheckOpen \/ Established \/ Deliver \/ CheckRun
  BY <1>4 DEF CheckWanted, CheckOpen, CallDisconnect, Established, Deliver, CheckRun, HandlerReturns
<1>5. ASSUME NEW ok \in BOOLEAN, ConnectCompletes(ok) PROVE OnItsWay
  BY <1>5 DEF ConnectCompletes
<1>6. ASSUME NEW ok \in BOOLEAN, ReadCompletes(ok) PROVE reads # 0
  BY <1>6 DEF ReadCompletes
<1>7. CASE UNCHANGED vars
  BY <1>7 DEF vars
<1> QED
  BY <1>1, <1>2, <1>3, <1>4, <1>5, <1>6, <1>7 DEF IoStep, NetworkStep

\* Every step hands the destroyed device at most the buffer on its way.
LEMMA UsesStep ==
  ASSUME TypeOK, IInv, LinkInv, LInv, [LNext]_lvars, ~overlap'
  PROVE  InvUses'
<1>0. ~overlap /\ InvToken /\ InvWanted /\ InvReads /\ InvUses /\ InvLoop
  BY Untouched, StepOfConnection DEF IInv, LinkInv, LInv
<1>1. uses \in Nat /\ late \in Nat /\ (entry # "closed" => uses = 0)
  BY <1>0 DEF InvLoop, TypeOK
<1>2. entry = "closed" => pc["gui"] = "released" /\ ~should_run
  BY <1>0 DEF InvLoop, InvWanted
<1>3. entry = "closed" /\ ~slipped => reads = 0
  BY <1>0, <1>2 DEF InvReads, ReadUnderWay, InvWanted
<1>4. CASE entry # "closed" /\ entry' # "closed"
  <2>1. uses' = 0
    BY <1>1, <1>4 DEF LNext, lvars, lifetime, Button, CloseWindow, CloseDisconnect, EraseConnection,
                      EraseDevice, GuiGoesOn, IoGoesOn, NetworkGoesOn
  <2>2. late' \in Nat
    BY TypeStep, StepOfConnection DEF TypeOK
  <2> QED
    BY <1>4, <2>1, <2>2 DEF InvUses
<1>5. CASE EraseDevice
  <2>1. uses' = 0 /\ late' = late /\ slipped' = slipped /\ inflight' = OnItsWay /\ OnItsWay' = OnItsWay
    BY <1>1, <1>5 DEF EraseDevice, OnItsWay, vars
  <2> QED
    BY <1>1, <2>1 DEF InvUses
<1>6. CASE entry = "closed" /\ IoGoesOn
  <2>1. pc["io"] = "deliver" => late' = late + 1
    BY <1>2, <1>6 DEF IoGoesOn, IoStep, Disconnect, TestConnected, ClearRun, MarkDown, StopRun,
       CloseSocket, Take, CheckWanted, CheckOpen, NextEndpoint, Established, StartRead, Deliver,
       CheckRun, Thread
  <2>2. pc["io"] # "deliver" => late' = late
    BY <1>6 DEF IoGoesOn, IoStep, Disconnect, TestConnected, ClearRun, MarkDown, StopRun,
       CloseSocket, Take, CheckWanted, CheckOpen, NextEndpoint, Established, StartRead, Deliver,
       CheckRun, history
  <2>3. slipped' = slipped
    BY <1>6 DEF IoGoesOn, IoStep, Disconnect, TestConnected, ClearRun, Excuse, MarkDown, StopRun,
       CloseSocket, Take, CheckWanted, CheckOpen, NextEndpoint, Established, StartRead, Deliver,
       CheckRun, history, TypeOK
  <2>4. /\ uses' = uses + (IF pc["io"] = "deliver" THEN 1 ELSE 0)
        /\ inflight' = inflight /\ entry' = entry /\ IoStep
    BY <1>6 DEF IoGoesOn
  <2>5. uses' <= late'
    BY <1>0, <1>1, <2>1, <2>2, <2>4 DEF InvUses
  <2>6. ~slipped' /\ OnItsWay' => inflight'
    BY <1>0, <1>3, <1>6, <2>3, <2>4, OnItsWayStep DEF InvUses
  <2>7. ~slipped' /\ uses' # 0 => inflight'
    BY <1>0, <1>1, <1>6, <2>3, <2>4 DEF InvUses, OnItsWay
  <2> QED
    BY <2>5, <2>6, <2>7 DEF InvUses
<1>7. CASE entry = "closed" /\ (NetworkGoesOn \/ UNCHANGED lvars)
  <2>1. /\ NetworkStep \/ UNCHANGED vars
        /\ UNCHANGED <<uses, inflight, entry, late, slipped>>
    BY <1>7 DEF NetworkGoesOn, NetworkStep, ConnectCompletes, ReadCompletes, lvars, lifetime, vars, history
  <2> QED
    BY <1>0, <1>3, <1>7, <2>1, OnItsWayStep DEF InvUses
<1>8. CASE entry = "closed" /\ GuiGoesOn
  BY <1>2, <1>8 DEF GuiGoesOn, GuiStep, Disconnect, TestConnected, ClearRun, MarkDown, StopRun,
                    CloseSocket, Resolve, ResolveThrows, Arm, Begin
<1>9. entry = "closed" => ~(Button \/ CloseWindow \/ CloseDisconnect \/ EraseConnection)
  BY DEF Button, CloseWindow, CloseDisconnect, EraseConnection
<1>10. entry # "closed" => entry' # "closed" \/ EraseDevice
  BY DEF LNext, lvars, lifetime, Button, CloseWindow, CloseDisconnect, EraseConnection,
         GuiGoesOn, IoGoesOn, NetworkGoesOn
<1> QED
  BY <1>4, <1>5, <1>6, <1>7, <1>8, <1>9, <1>10 DEF LNext

LEMMA LInductive == LSpec => [](TypeOK /\ IInv /\ LinkInv /\ LInv)
<1>1. LInit => LInv
  <2> SUFFICES ASSUME LInit PROVE LInv
    OBVIOUS
  <2>1. InvLoop
    BY DEF LInit, InvLoop, Entry
  <2>2. InvReads
    BY DEF LInit, Init, InvReads, ReadUnderWay, Queued, Thread
  <2>3. InvUses
    BY DEF LInit, Init, InvUses
  <2> QED
    BY <2>1, <2>2, <2>3 DEF LInv
<1>2. TypeOK /\ IInv /\ LinkInv /\ LInv /\ [LNext]_lvars => LInv'
  <2> SUFFICES ASSUME TypeOK, IInv, LinkInv, LInv, [LNext]_lvars
               PROVE  LInv'
    OBVIOUS
  <2>1. InvLoop'
    BY LoopStep DEF LInv
  <2>2. ASSUME ~overlap' PROVE InvReads'
    <3>1. ~overlap
      BY <2>2, Untouched, StepOfConnection
    <3> QED
      BY <2>2, <3>1, StepOfConnection, ReadsStep DEF LInv, IInv
  <2>3. ASSUME ~overlap' PROVE InvUses'
    BY <2>3, UsesStep
  <2> QED
    BY <2>1, <2>2, <2>3 DEF LInv
<1> QED
  BY <1>1, <1>2, ConnectionImplemented, LinkInductive, PTL DEF LSpec

-----------------------------------------------------------------------------
\* The destroyed device is used once at most, and only by a buffer that was on
\* its way or on a link that disconnect() met while it came up; for any number of
\* endpoints and calls.
THEOREM DeviceOutlivesUseHolds == LSpec => []DeviceOutlivesUse
<1>1. TypeOK /\ IInv /\ LInv => DeviceOutlivesUse
  BY DEF IInv, InvLate, LInv, InvLoop, InvUses, DeviceOutlivesUse, TypeOK
<1> QED
  BY <1>1, LInductive, PTL
=============================================================================

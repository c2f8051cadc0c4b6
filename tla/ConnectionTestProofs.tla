----------------------- MODULE ConnectionTestProofs -----------------------
(***************************************************************************)
(* What ConnectionTest promises for any number of tests: types, one test   *)
(* at a time, no connection left by a success, output of the test's own    *)
(* connection, and a buffer that outlives its users.                       *)
(***************************************************************************)
EXTENDS ConnectionTest, TLAPS

\* One access to the buffer at a time, and who touches it when the program ends.
Alone ==
  /\ OneTest
  /\ gui \in {"manager", "join", "ended"} => \A k \in Test : ~InTest(k)
  /\ gui = "ended" => io = 0

\* What a test has found out about its connection when it comes to copy.
Linked ==
  \A k \in Test :
    /\ k > tests => step[k] = "none"
    /\ step[k] \in {"none", "clear", "connect"} => link[k] = "none"
    /\ step[k] \in {"copy", "returned"} /\ link[k] \in {"trying", "up"} => verdict[k] = "failed"
    /\ verdict[k] = "failed" => step[k] \in {"copy", "returned"}

\* The tests that excuse a byte in another test's output.
Stray(j) == verdict[j] = "failed" \/ j \in tail

\* A buffer on its way belongs to a test at work, or to a stray one.
OnItsWay ==
  \A j \in Test : j \in queued \/ j = io => step[j] \in {"look", "disconnect"} \/ Stray(j)

\* From its Clear to its Copy a test finds its own bytes in the buffer.
OwnBuffer ==
  \A k \in Test : step[k] \in {"connect", "look", "disconnect", "copy"} =>
    \A j \in buffer : j = k \/ Stray(j)

IInv == TypeOK /\ Alone /\ Linked /\ OnItsWay /\ OwnBuffer /\ PureOutput

-----------------------------------------------------------------------------
LEMMA TypeStep == TypeOK /\ [Next]_vars => TypeOK'
<1> SUFFICES ASSUME TypeOK, [Next]_vars PROVE TypeOK'
  OBVIOUS
<1> USE TestsAssumption DEF TypeOK, Test, TestPc, dialog, thread, net
<1>1. CASE OpenClose
  BY <1>1 DEF OpenClose
<1>2. CASE CheckConnection
  BY <1>2 DEF CheckConnection
<1>3. CASE Poll
  <2>1. /\ progress' = 0 /\ gui' \in {"run", "terminated"}
        /\ in_progress' \in BOOLEAN /\ ~(in_progress' /\ gui' = "run")
        /\ UNCHANGED <<open, tests, thread, net, buffer, tail>>
    BY <1>3, Zenon DEF Poll
  <2> QED
    BY <2>1
<1>4. CASE Quit
  BY <1>4 DEF Quit, Goto
<1>5. CASE EndStep
  BY <1>5 DEF EndStep, DestroyDialog, StopContext, Join, Goto
<1>6. ASSUME NEW k \in Test, TestStep(k) PROVE TypeOK'
  <2>1. CASE Clear(k)
    BY <2>1 DEF Clear, Go
  <2>2. CASE ConnectTcp(k)
    BY <2>2 DEF ConnectTcp, Go
  <2>3. CASE ConnectSerial(k)
    BY <2>3 DEF ConnectSerial, Go
  <2>4. CASE Look(k)
    BY <2>4 DEF Look, Go
  <2>5. CASE Disconnect(k)
    BY <2>5 DEF Disconnect, Go
  <2>6. CASE Copy(k)
    BY <2>6 DEF Copy, Go
  <2> QED
    BY <1>6, <2>1, <2>2, <2>3, <2>4, <2>5, <2>6 DEF TestStep
<1>7. ASSUME NEW k \in Test, AttemptEnds(k) \/ PeerGone(k) PROVE TypeOK'
  <2>1. PICK state \in {"up", "down"} : Link(k, state)
    BY <1>7, Zenon DEF AttemptEnds, PeerGone
  <2>2. link' \in [Test -> {"none", "trying", "up", "down"}]
    BY <2>1 DEF Link
  <2> QED
    BY <2>1, <2>2 DEF Link
<1>8. ASSUME NEW k \in Test, Arrive(k) \/ Take(k) PROVE TypeOK'
  <2>1. CASE Arrive(k)
    BY <2>1 DEF Arrive
  <2>2. CASE Take(k)
    BY <2>2 DEF Take
  <2> QED
    BY <1>8, <2>1, <2>2
<1>9. CASE Append
  BY <1>9 DEF Append
<1>10. CASE UNCHANGED vars
  BY <1>10 DEF vars
<1> QED
  BY <1>1, <1>2, <1>3, <1>4, <1>5, <1>6, <1>7, <1>8, <1>9, <1>10 DEF Next, GuiStep

(***************************************************************************)
(* A step of a test thread keeps a test at work at work or returns it; no  *)
(* step but CheckConnection puts one to work.                              *)
(***************************************************************************)
LEMMA AloneStep == TypeOK /\ Alone /\ [Next]_vars => Alone'
<1> SUFFICES ASSUME TypeOK, Alone, [Next]_vars PROVE Alone'
  OBVIOUS
<1> USE TestsAssumption DEF TypeOK, Alone, OneTest, InTest, Test, TestPc, dialog, thread, net
<1>1. CASE OpenClose
  BY <1>1 DEF OpenClose
<1>2. CASE CheckConnection
  BY <1>2 DEF CheckConnection
<1>3. CASE Poll
  BY <1>3 DEF Poll
<1>4. CASE Quit
  BY <1>4 DEF Quit, Goto
<1>5. CASE EndStep
  BY <1>5 DEF EndStep, DestroyDialog, StopContext, Join, Goto
<1>6. ASSUME NEW k \in Test, TestStep(k) PROVE Alone'
  <2>1. CASE Clear(k)
    BY <2>1 DEF Clear, Go
  <2>2. CASE ConnectTcp(k)
    BY <2>2 DEF ConnectTcp, Go
  <2>3. CASE ConnectSerial(k)
    BY <2>3 DEF ConnectSerial, Go
  <2>4. CASE Look(k)
    BY <2>4 DEF Look, Go
  <2>5. CASE Disconnect(k)
    BY <2>5 DEF Disconnect, Go
  <2>6. CASE Copy(k)
    BY <2>6 DEF Copy, Go
  <2> QED
    BY <1>6, <2>1, <2>2, <2>3, <2>4, <2>5, <2>6 DEF TestStep
<1>7. ASSUME NEW k \in Test, AttemptEnds(k) \/ PeerGone(k) \/ Arrive(k) PROVE Alone'
  BY <1>7 DEF AttemptEnds, PeerGone, Link, Arrive
<1>8. ASSUME Running, NEW k \in Test, Take(k) PROVE Alone'
  BY <1>8 DEF Take, Running
<1>9. CASE Append
  BY <1>9 DEF Append
<1>10. CASE UNCHANGED vars
  BY <1>10 DEF vars
<1> QED
  BY <1>1, <1>2, <1>3, <1>4, <1>5, <1>6, <1>7, <1>8, <1>9, <1>10 DEF Next, GuiStep

\* checkConnection() puts the next test to work.
LEMMA NextTest ==
  ASSUME TypeOK, CheckConnection
  PROVE  /\ tests + 1 \in Test /\ tests' = tests + 1
         /\ step' = [step EXCEPT ![tests + 1] = "clear"]
         /\ UNCHANGED <<verdict, output, link, queued, io, buffer, tail>>
  BY TestsAssumption DEF TypeOK, Test, CheckConnection, net

LEMMA LinkedStep == TypeOK /\ Linked /\ [Next]_vars => Linked'
<1> SUFFICES ASSUME TypeOK, Linked, [Next]_vars PROVE Linked'
  OBVIOUS
<1> USE TestsAssumption DEF TypeOK, Linked, Test, TestPc, dialog, thread, net
<1>1. CASE GuiStep \/ Quit \/ EndStep
  <2>1. CASE CheckConnection
    <3>1. /\ tests + 1 \in Test /\ tests' = tests + 1
          /\ step' = [step EXCEPT ![tests + 1] = "clear"]
          /\ UNCHANGED <<link, verdict>>
      BY <2>1, NextTest
    <3> QED
      BY <3>1
  <2>2. CASE ~CheckConnection
    <3>1. UNCHANGED <<tests, step, link, verdict>>
      BY <1>1, <2>2 DEF GuiStep, OpenClose, Poll, Quit, EndStep, DestroyDialog, StopContext, Join, Goto
    <3> QED
      BY <3>1
  <2> QED
    BY <2>1, <2>2
<1>2. ASSUME NEW k \in Test, TestStep(k) PROVE Linked'
  <2>1. CASE Clear(k)
    BY <2>1 DEF Clear, Go
  <2>2. CASE ConnectTcp(k)
    BY <2>2 DEF ConnectTcp, Go
  <2>3. CASE ConnectSerial(k)
    BY <2>3 DEF ConnectSerial, Go
  <2>4. CASE Look(k)
    BY <2>4 DEF Look, Go
  <2>5. CASE Disconnect(k)
    BY <2>5 DEF Disconnect, Go
  <2>6. CASE Copy(k)
    BY <2>6 DEF Copy, Go
  <2> QED
    BY <1>2, <2>1, <2>2, <2>3, <2>4, <2>5, <2>6 DEF TestStep
<1>3. ASSUME NEW k \in Test, AttemptEnds(k) \/ PeerGone(k) PROVE Linked'
  BY <1>3 DEF AttemptEnds, PeerGone, Link
<1>4. ASSUME NEW k \in Test, Arrive(k) \/ Take(k) PROVE Linked'
  BY <1>4 DEF Arrive, Take
<1>5. CASE Append
  BY <1>5 DEF Append
<1>6. CASE UNCHANGED vars
  BY <1>6 DEF vars
<1> QED
  BY <1>1, <1>2, <1>3, <1>4, <1>5, <1>6 DEF Next

(***************************************************************************)
(* What happens to a stray test and to the buffers on their way: a test    *)
(* that stopped waiting for its connection stays stray.                    *)
(***************************************************************************)
LEMMA StrayStays ==
  ASSUME TypeOK, Linked, [Next]_vars, NEW j \in Test, Stray(j)
  PROVE  Stray(j)'
<1> USE DEF TypeOK, Linked, Stray, dialog, thread, net
<1>1. CASE GuiStep \/ Quit \/ EndStep
  <2>1. UNCHANGED <<verdict, tail>>
    BY <1>1 DEF GuiStep, OpenClose, CheckConnection, Poll, Quit, EndStep, DestroyDialog, StopContext, Join, Goto
  <2> QED
    BY <2>1
<1>2. ASSUME NEW k \in Test, TestStep(k) PROVE Stray(j)'
  <2>1. CASE Clear(k) \/ Copy(k)
    BY <2>1 DEF Clear, Copy
  <2>2. CASE ConnectTcp(k)
    BY <2>2 DEF ConnectTcp, Go
  <2>3. CASE ConnectSerial(k)
    BY <2>3 DEF ConnectSerial, Go
  <2>4. CASE Look(k)
    BY <2>4 DEF Look, Go
  <2>5. CASE Disconnect(k)
    BY <2>5 DEF Disconnect, Go
  <2> QED
    BY <1>2, <2>1, <2>2, <2>3, <2>4, <2>5 DEF TestStep
<1>3. ASSUME NEW k \in Test, AttemptEnds(k) \/ PeerGone(k) \/ Arrive(k) \/ Take(k) PROVE Stray(j)'
  BY <1>3 DEF AttemptEnds, PeerGone, Link, Arrive, Take
<1>4. CASE Append \/ UNCHANGED vars
  BY <1>4 DEF Append, vars
<1> QED
  BY <1>1, <1>2, <1>3, <1>4 DEF Next

\* A test that leaves "look" and "disconnect" behind has become stray, or had
\* nothing on its way when it disconnected.
LEMMA WayStep == TypeOK /\ Linked /\ OnItsWay /\ [Next]_vars => OnItsWay'
<1> SUFFICES ASSUME TypeOK, Linked, OnItsWay, [Next]_vars,
                    NEW j \in Test, (j \in queued \/ j = io)'
             PROVE  (step[j] \in {"look", "disconnect"} \/ Stray(j))'
  BY DEF OnItsWay
<1> USE DEF TypeOK, Linked, OnItsWay, Test, dialog, thread, net
<1>1. CASE Stray(j)
  BY <1>1, StrayStays
<1>2. CASE ~Stray(j)
  <2> USE DEF Stray
  <2>1. CASE GuiStep \/ Quit \/ EndStep
    <3>1. CASE CheckConnection
      <4>1. /\ tests + 1 \in Test
            /\ step' = [step EXCEPT ![tests + 1] = "clear"]
            /\ UNCHANGED <<queued, io>>
        BY <3>1, NextTest
      <4> QED
        BY <1>2, <4>1
    <3>2. CASE ~CheckConnection
      <4>1. UNCHANGED <<step, queued, io>>
        BY <2>1, <3>2 DEF GuiStep, OpenClose, Poll, Quit, EndStep, DestroyDialog, StopContext, Join, Goto
      <4> QED
        BY <1>2, <4>1
    <3> QED
      BY <3>1, <3>2
  <2>2. ASSUME NEW k \in Test, TestStep(k) PROVE (step[j] \in {"look", "disconnect"} \/ Stray(j))'
    <3>1. CASE Clear(k)
      BY <1>2, <3>1 DEF Clear, Go
    <3>2. CASE ConnectTcp(k)
      BY <1>2, <3>2 DEF ConnectTcp, Go
    <3>3. CASE ConnectSerial(k)
      BY <1>2, <3>3 DEF ConnectSerial, Go
    <3>4. CASE Look(k)
      BY <1>2, <3>4 DEF Look, Go
    <3>5. CASE Disconnect(k)
      BY <1>2, <3>5 DEF Disconnect, Go
    <3>6. CASE Copy(k)
      BY <1>2, <3>6 DEF Copy, Go
    <3> QED
      BY <2>2, <3>1, <3>2, <3>3, <3>4, <3>5, <3>6 DEF TestStep
  <2>3. ASSUME NEW k \in Test, AttemptEnds(k) \/ PeerGone(k)
        PROVE (step[j] \in {"look", "disconnect"} \/ Stray(j))'
    BY <1>2, <2>3 DEF AttemptEnds, PeerGone, Link
  <2>4. ASSUME NEW k \in Test, Arrive(k)
        PROVE (step[j] \in {"look", "disconnect"} \/ Stray(j))'
    BY <1>2, <2>4 DEF Arrive, TestPc
  <2>5. ASSUME NEW k \in Test, Take(k)
        PROVE (step[j] \in {"look", "disconnect"} \/ Stray(j))'
    BY <1>2, <2>5 DEF Take
  <2>6. CASE Append
    BY <1>2, <2>6 DEF Append
  <2>7. CASE UNCHANGED vars
    BY <1>2, <2>7 DEF vars
  <2> QED
    BY <2>1, <2>2, <2>3, <2>4, <2>5, <2>6, <2>7 DEF Next
<1> QED
  BY <1>1, <1>2

\* Only the test at work and stray ones put something into the buffer.
LEMMA BufferStep == IInv /\ [Next]_vars => OwnBuffer'
<1> SUFFICES ASSUME IInv, [Next]_vars PROVE OwnBuffer'
  OBVIOUS
<1>0. TypeOK'
  BY TypeStep DEF IInv
<1> SUFFICES ASSUME NEW k \in Test, (step[k] \in {"connect", "look", "disconnect", "copy"})',
                    NEW j \in Test, j \in buffer', j # k, ~Stray(j)'
             PROVE  FALSE
  BY <1>0 DEF OwnBuffer, TypeOK
<1>1. ~Stray(j)
  BY StrayStays DEF IInv
<1>2. CASE Append
  <2>1. buffer' = buffer \cup {io} /\ step' = step
    BY <1>2 DEF Append, thread
  <2>2. step[k] \in {"connect", "look", "disconnect", "copy"}
    BY <2>1
  <2>3. j = io
    BY <1>1, <2>1, <2>2 DEF IInv, OwnBuffer
  <2>4. step[j] \in {"look", "disconnect"}
    BY <1>1, <2>3 DEF IInv, OnItsWay
  <2> QED
    BY <2>2, <2>4 DEF IInv, Alone, OneTest, InTest
<1>3. ASSUME NEW l \in Test, Clear(l) PROVE FALSE
  <2>1. step[l] = "clear" /\ step' = [step EXCEPT ![l] = "connect"] /\ buffer' = {}
    BY <1>3 DEF Clear, Go
  <2> QED
    BY <2>1
<1>4. CASE ~Append /\ \A l \in Test : ~Clear(l)
  <2>1. buffer' = buffer
    BY <1>4 DEF Next, GuiStep, OpenClose, CheckConnection, Poll, Quit, EndStep, DestroyDialog, StopContext,
                Join, Goto, TestStep, ConnectTcp, ConnectSerial, Look, Disconnect, Copy,
                AttemptEnds, PeerGone, Link, Arrive, Take, vars
  <2>2. step[k] \in {"connect", "look", "disconnect", "copy"}
    <3> USE DEF IInv, TypeOK, Test, TestPc, dialog, thread, net
    <3>1. CASE GuiStep \/ Quit \/ EndStep
      <4>1. CASE CheckConnection
        <5>1. tests + 1 \in Test /\ step' = [step EXCEPT ![tests + 1] = "clear"]
          BY <4>1, NextTest
        <5> QED
          BY <5>1
      <4>2. CASE ~CheckConnection
        <5>1. step' = step
          BY <3>1, <4>2 DEF GuiStep, OpenClose, Poll, Quit, EndStep, DestroyDialog, StopContext, Join, Goto
        <5> QED
          BY <5>1
      <4> QED
        BY <4>1, <4>2
    <3>2. ASSUME NEW l \in Test, TestStep(l) PROVE step[k] \in {"connect", "look", "disconnect", "copy"}
      <4>1. step[l] \in {"connect", "look", "disconnect", "copy"}
        BY <1>4, <3>2 DEF TestStep, ConnectTcp, ConnectSerial, Look, Disconnect, Copy
      <4>2. k # l => step'[k] = step[k]
        BY <1>4, <3>2 DEF TestStep, ConnectTcp, ConnectSerial, Look, Disconnect, Copy, Go
      <4> QED
        BY <4>1, <4>2
    <3>3. ASSUME NEW l \in Test, AttemptEnds(l) \/ PeerGone(l) \/ Arrive(l) \/ Take(l)
          PROVE step[k] \in {"connect", "look", "disconnect", "copy"}
      BY <3>3 DEF AttemptEnds, PeerGone, Link, Arrive, Take
    <3>4. CASE UNCHANGED vars
      BY <3>4 DEF vars
    <3> QED
      BY <1>4, <3>1, <3>2, <3>3, <3>4 DEF Next
  <2> QED
    BY <1>1, <2>1, <2>2 DEF IInv, OwnBuffer
<1> QED
  BY <1>2, <1>3, <1>4

\* Copy takes the test's own bytes; nothing else changes an output.
LEMMA OutputStep == IInv /\ [Next]_vars => PureOutput'
<1> SUFFICES ASSUME IInv, [Next]_vars PROVE PureOutput'
  OBVIOUS
<1>0. TypeOK'
  BY TypeStep DEF IInv
<1> SUFFICES ASSUME NEW k \in Test, NEW j \in Test, j \in output'[k], j # k, ~Stray(j)'
             PROVE  FALSE
  BY <1>0 DEF PureOutput, TypeOK, Stray
<1>1. ~Stray(j)
  BY StrayStays DEF IInv
<1>2. ASSUME NEW l \in Test, Copy(l) PROVE FALSE
  <2>1. step[l] = "copy" /\ output' = [output EXCEPT ![l] = buffer]
    BY <1>2 DEF Copy
  <2>2. j \in output[k] \/ (k = l /\ j \in buffer)
    BY <2>1 DEF IInv, TypeOK
  <2> QED
    BY <1>1, <2>1, <2>2 DEF IInv, PureOutput, OwnBuffer, Stray
<1>3. CASE \A l \in Test : ~Copy(l)
  <2>1. output' = output
    BY <1>3 DEF Next, GuiStep, OpenClose, CheckConnection, Poll, Quit, EndStep, DestroyDialog, StopContext,
                Join, Goto, TestStep, Clear, ConnectTcp, ConnectSerial, Look, Disconnect,
                AttemptEnds, PeerGone, Link, Arrive, Take, Append, thread, vars
  <2> QED
    BY <1>1, <2>1 DEF IInv, PureOutput, Stray
<1> QED
  BY <1>2, <1>3

-----------------------------------------------------------------------------
LEMMA InductiveInit == Init => IInv
<1> SUFFICES ASSUME Init PROVE IInv
  OBVIOUS
<1>1. TypeOK
  <2>1. progress \in 0..tests /\ tests \in 0..MaxTests /\ io \in 0..MaxTests
    BY TestsAssumption DEF Init
  <2>2. /\ step \in [Test -> TestPc] /\ verdict \in [Test -> {"none", "ok", "failed", "throws"}]
        /\ link \in [Test -> {"none", "trying", "up", "down"}]
    BY DEF Init, TestPc
  <2>3. output \in [Test -> SUBSET Test]
    BY DEF Init
  <2> QED
    BY <2>1, <2>2, <2>3 DEF Init, TypeOK
<1>2. Alone
  BY DEF Init, Alone, OneTest, InTest
<1>3. Linked
  BY DEF Init, Linked
<1>4. OnItsWay /\ OwnBuffer /\ PureOutput
  BY DEF Init, OnItsWay, OwnBuffer, PureOutput, Test
<1> QED
  BY <1>1, <1>2, <1>3, <1>4 DEF IInv

LEMMA Inductive == Spec => []IInv
<1>1. IInv /\ [Next]_vars => IInv'
  <2> SUFFICES ASSUME IInv, [Next]_vars PROVE IInv'
    OBVIOUS
  <2>1. TypeOK' /\ Alone' /\ Linked' /\ OnItsWay'
    BY TypeStep, AloneStep, LinkedStep, WayStep DEF IInv
  <2>2. OwnBuffer' /\ PureOutput'
    BY BufferStep, OutputStep
  <2> QED
    BY <2>1, <2>2 DEF IInv
<1> QED
  BY InductiveInit, <1>1, PTL DEF Spec

\* The variables of the dialog, the tests, the network and the buffer keep their
\* types, however often the user tests.
THEOREM TypeCorrect == Spec => []TypeOK
<1>1. IInv => TypeOK
  BY DEF IInv
<1> QED
  BY <1>1, Inductive, PTL

\* checkConnection(): one test at a time uses the shared buffer, and its future
\* is the dialog's, however the dialog is closed and opened.
THEOREM OneTestHolds == Spec => []OneTest
<1>1. IInv => OneTest
  BY DEF IInv, Alone
<1> QED
  BY <1>1, Inductive, PTL

\* testTcpConnection: the bytes reported are the test's own, or those of a
\* failed test that connected later, or of the last buffer of a disconnected one.
THEOREM PureOutputHolds == Spec => []PureOutput
<1>1. IInv => PureOutput
  BY DEF IInv
<1> QED
  BY <1>1, Inductive, PTL

\* testTcpConnection: no test that reports success leaves its connection trying
\* or up.
THEOREM SuccessClosesHolds == Spec => []SuccessCloses
<1>1. IInv => SuccessCloses
  BY DEF IInv, Linked, SuccessCloses
<1> QED
  BY <1>1, Inductive, PTL

\* ~DeviceManager after ~DeviceCreate: nothing uses the buffer once the program
\* has ended.
THEOREM BufferAliveHolds == Spec => []BufferAlive
<1>1. IInv => BufferAlive
  BY DEF IInv, Alone, BufferAlive
<1> QED
  BY <1>1, Inductive, PTL
=============================================================================

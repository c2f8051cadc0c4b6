-------------------------- MODULE ConnectionTest --------------------------
(***************************************************************************)
(* "Test connection" of the creation dialog                                *)
(* (src/app/src/gui/modals/device_create.cpp) and testTcpConnection and    *)
(* testSerialConnection of the device manager.  Every test runs on a       *)
(* thread of its own (std::async) with a connection of its own; the io     *)
(* thread appends what the connections receive to one string,              *)
(* connection_test_buffer_, which the tests clear and copy.                *)
(*                                                                         *)
(* A test connection is reduced to what module TcpConnection shows of Tcp: *)
(* an attempt that ends up or down, buffers handed over one at a time, at  *)
(* most one of them after disconnect().                                    *)
(***************************************************************************)
EXTENDS Naturals

CONSTANT MaxTests   \* bound: how often the user presses "Test connection"

ASSUME TestsAssumption == MaxTests \in Nat

Test == 1..MaxTests

VARIABLES
  gui,          \* "run", the steps of ~App, "ended" or "terminated"
  open,         \* is the dialog shown?
  in_progress,  \* connection_check_.in_progress
  progress,     \* the test connection_check_.progress belongs to, 0 if invalid
  tests,        \* tests started
  step,         \* where each test's thread is
  verdict,      \* what the test returns: "ok", "failed" or "throws"
  output,       \* the copy of the buffer it returns, as the tests in it
  link,         \* the test's connection: "none", "trying", "up", "down"
  queued,       \* tests whose connection has a buffer read but not handed over
  io,           \* the test whose buffer the io thread is handing over, or 0
  stopped,      \* io_context_ has been stopped
  buffer,       \* connection_test_buffer_: the tests whose bytes are in it
  tail          \* history: tests with a buffer on its way when they disconnected

vars == <<gui, open, in_progress, progress, tests, step, verdict, output,
          link, queued, io, stopped, buffer, tail>>

dialog == <<open, in_progress, progress, tests>>
thread == <<step, verdict, output>>
net    == <<link, queued, io, stopped>>

Running == gui \notin {"ended", "terminated"}

Init ==
  /\ gui = "run" /\ open = FALSE
  /\ in_progress = FALSE /\ progress = 0 /\ tests = 0
  /\ step = [k \in Test |-> "none"]
  /\ verdict = [k \in Test |-> "none"]
  /\ output = [k \in Test |-> {}]
  /\ link = [k \in Test |-> "none"]
  /\ queued = {} /\ io = 0 /\ stopped = FALSE
  /\ buffer = {} /\ tail = {}

-----------------------------------------------------------------------------
(***************************************************************************)
(* The gui thread: the dialog.                                             *)
(***************************************************************************)

\* The menu opens it; "Cancel" and "Add connection", which testConnectionInProg
\* disables, close it, and the cross in its title bar closes it at any time.
OpenClose ==
  /\ gui = "run"
  /\ open' = ~open
  /\ UNCHANGED <<gui, in_progress, progress, tests, thread, net, buffer, tail>>

\* Mutant: the button stays enabled while a test is running.
TestAlwaysEnabled ==
  /\ gui = "run" /\ open
  /\ tests < MaxTests
  /\ tests' = tests + 1
  /\ in_progress' = TRUE /\ progress' = tests'
  /\ step' = [step EXCEPT ![tests'] = "clear"]
  /\ UNCHANGED <<gui, open, verdict, output, net, buffer, tail>>

\* checkConnection(), for a button that drawContent enables when no test runs.
CheckConnection ==
  /\ gui = "run" /\ open
  /\ ~in_progress
  /\ tests < MaxTests
  /\ tests' = tests + 1
  /\ in_progress' = TRUE /\ progress' = tests'
  /\ step' = [step EXCEPT ![tests'] = "clear"]
  /\ UNCHANGED <<gui, open, verdict, output, net, buffer, tail>>

\* Mutant: testConnectionInProg takes the result and leaves in_progress set.
PollForgetsProgress ==
  /\ gui = "run" /\ open
  /\ in_progress /\ progress # 0
  /\ step[progress] = "returned"
  /\ progress' = 0
  /\ in_progress' = in_progress
  /\ gui' = IF verdict[progress] = "throws" THEN "terminated" ELSE gui
  /\ UNCHANGED <<open, tests, thread, net, buffer, tail>>

\* testConnectionInProg: progress.get() once the future is ready.  What a test
\* throws is thrown again here, where nothing catches it.
Poll ==
  /\ gui = "run" /\ open
  /\ in_progress /\ progress # 0
  /\ step[progress] = "returned"
  /\ progress' = 0
  /\ \/ verdict[progress] = "throws" /\ gui' = "terminated" /\ in_progress' = in_progress
     \/ verdict[progress] # "throws" /\ gui' = gui /\ in_progress' = FALSE
  /\ UNCHANGED <<open, tests, thread, net, buffer, tail>>

-----------------------------------------------------------------------------
(***************************************************************************)
(* The end of the program: ~App destroys the dialog, then the device       *)
(* manager.                                                                *)
(***************************************************************************)
Goto(label) == gui' = label /\ UNCHANGED <<dialog, thread, link, queued, io, buffer, tail>>

Quit == gui = "run" /\ Goto("dialog") /\ stopped' = stopped

\* ~DeviceCreate: the future of std::async waits for its test.
DestroyDialog ==
  /\ gui = "dialog"
  /\ progress # 0 => step[progress] = "returned"
  /\ Goto("manager") /\ stopped' = stopped

\* Mutant: ~DeviceManager without io_context_.stop().
StopForgotten == gui = "manager" /\ Goto("join") /\ stopped' = stopped

\* ~DeviceManager: io_context_.stop()
StopContext == gui = "manager" /\ Goto("join") /\ stopped' = TRUE

\* Mutant: the io thread is not joined.
JoinForgotten == gui = "join" /\ Goto("ended") /\ stopped' = stopped

\* io_thread_.join(): a stopped run() returns after the handler it is in; then
\* connection_test_buffer_ is destroyed.
Join == gui = "join" /\ stopped /\ io = 0 /\ Goto("ended") /\ stopped' = stopped

-----------------------------------------------------------------------------
(***************************************************************************)
(* The thread of test k.                                                   *)
(***************************************************************************)
Go(k, label) == step' = [step EXCEPT ![k] = label]

\* Mutant: the buffer of the previous test is kept.
ClearForgotten(k) ==
  /\ step[k] = "clear"
  /\ Go(k, "connect")
  /\ UNCHANGED <<gui, dialog, verdict, output, net, buffer, tail>>

\* connection_test_buffer_.clear()
Clear(k) ==
  /\ step[k] = "clear"
  /\ buffer' = {}
  /\ Go(k, "connect")
  /\ UNCHANGED <<gui, dialog, verdict, output, net, tail>>

\* testTcpConnection: connect() starts an attempt, or the resolver throws.
ConnectTcp(k) ==
  /\ step[k] = "connect"
  /\ \/ link' = [link EXCEPT ![k] = "trying"] /\ Go(k, "look") /\ verdict' = verdict
     \/ link' = link /\ Go(k, "copy") /\ verdict' = [verdict EXCEPT ![k] = "failed"]
  /\ UNCHANGED <<gui, dialog, output, queued, io, stopped, buffer, tail>>

\* testSerialConnection: connect(), outside the try block, throws when an open
\* fails, and otherwise exhausts the stack (module SerialConnection).
ConnectSerial(k) ==
  /\ step[k] = "connect"
  /\ \/ Go(k, "returned") /\ verdict' = [verdict EXCEPT ![k] = "throws"] /\ gui' = gui
     \/ UNCHANGED <<step, verdict>> /\ gui' = "terminated"
  /\ UNCHANGED <<dialog, output, net, buffer, tail>>

\* After two seconds: isConnected().  An attempt still under way is left alone.
Look(k) ==
  /\ step[k] = "look"
  /\ \/ link[k] = "up" /\ Go(k, "disconnect") /\ verdict' = verdict
     \/ link[k] # "up" /\ Go(k, "copy") /\ verdict' = [verdict EXCEPT ![k] = "failed"]
  /\ UNCHANGED <<gui, dialog, output, net, buffer, tail>>

\* Mutant: the test returns its success without disconnect().
DisconnectForgotten(k) ==
  /\ step[k] = "disconnect"
  /\ Go(k, "copy")
  /\ verdict' = [verdict EXCEPT ![k] = "ok"]
  /\ UNCHANGED <<gui, dialog, output, net, buffer, tail>>

\* After another second: disconnect().
Disconnect(k) ==
  /\ step[k] = "disconnect"
  /\ link' = [link EXCEPT ![k] = "down"]
  /\ Go(k, "copy")
  /\ verdict' = [verdict EXCEPT ![k] = "ok"]
  /\ tail' = IF k \in queued \/ io = k THEN tail \cup {k} ELSE tail
  /\ UNCHANGED <<gui, dialog, output, queued, io, stopped, buffer>>

\* The returned tuple holds a copy of the buffer.
Copy(k) ==
  /\ step[k] = "copy"
  /\ output' = [output EXCEPT ![k] = buffer]
  /\ Go(k, "returned")
  /\ UNCHANGED <<gui, dialog, verdict, net, buffer, tail>>

TestStep(k) == Clear(k) \/ ConnectTcp(k) \/ ConnectSerial(k) \/ Look(k) \/ Disconnect(k) \/ Copy(k)

-----------------------------------------------------------------------------
(***************************************************************************)
(* The io thread and the network.  A connection lives on through its       *)
(* handlers after its test has returned.                                   *)
(***************************************************************************)
Link(k, state) ==
  /\ link' = [link EXCEPT ![k] = state]
  /\ UNCHANGED <<gui, dialog, thread, queued, io, stopped, buffer, tail>>

\* handleConnect: the peer answered, or the attempt failed.
AttemptEnds(k) ==
  /\ io = 0 /\ ~stopped
  /\ link[k] = "trying"
  /\ Link(k, "up") \/ Link(k, "down")

\* handleRead with an error: the peer is gone.
PeerGone(k) ==
  /\ io = 0 /\ ~stopped
  /\ link[k] = "up" /\ k \notin queued
  /\ Link(k, "down")

\* A read completes.
Arrive(k) ==
  /\ link[k] = "up" /\ k \notin queued /\ io # k
  /\ queued' = queued \cup {k}
  /\ UNCHANGED <<gui, dialog, thread, link, io, stopped, buffer, tail>>

\* handleRead
Take(k) ==
  /\ io = 0 /\ ~stopped
  /\ k \in queued
  /\ queued' = queued \ {k} /\ io' = k
  /\ UNCHANGED <<gui, dialog, thread, link, stopped, buffer, tail>>

\* DumbConnectionHandle::processData
Append ==
  /\ io # 0
  /\ buffer' = buffer \cup {io}
  /\ io' = 0
  /\ UNCHANGED <<gui, dialog, thread, link, queued, stopped, tail>>

GuiStep == OpenClose \/ CheckConnection \/ Poll
EndStep == DestroyDialog \/ StopContext \/ Join

Next ==
  /\ Running
  /\ \/ GuiStep \/ Quit \/ EndStep
     \/ \E k \in Test : TestStep(k) \/ AttemptEnds(k) \/ PeerGone(k) \/ Arrive(k) \/ Take(k)
     \/ Append

Spec == Init /\ [][Next]_vars

(***************************************************************************)
(* Test threads and the io thread run, a dialog that is shown is drawn,    *)
(* and a program that ends goes on ending.  Whether a peer answers, and    *)
(* what the user does, is left open.                                       *)
(***************************************************************************)
FairSpec ==
  /\ Spec
  /\ WF_vars(Running /\ Poll) /\ WF_vars(Running /\ EndStep)
  /\ WF_vars(Running /\ Append)
  /\ \A k \in Test : WF_vars(Running /\ TestStep(k))

-----------------------------------------------------------------------------
TestPc == {"none", "clear", "connect", "look", "disconnect", "copy", "returned"}

\* Every variable keeps its type, and in_progress goes with a valid future (the
\* branch of testConnectionInProg for an invalid one would load for ever).
TypeOK ==
  /\ gui \in {"run", "dialog", "manager", "join", "ended", "terminated"}
  /\ open \in BOOLEAN /\ in_progress \in BOOLEAN
  /\ progress \in 0..tests /\ tests \in 0..MaxTests
  /\ in_progress /\ gui = "run" => progress # 0
  /\ step \in [Test -> TestPc]
  /\ verdict \in [Test -> {"none", "ok", "failed", "throws"}]
  /\ output \in [Test -> SUBSET Test]
  /\ link \in [Test -> {"none", "trying", "up", "down"}]
  /\ queued \subseteq Test /\ io \in 0..MaxTests /\ stopped \in BOOLEAN
  /\ buffer \subseteq Test /\ tail \subseteq Test

-----------------------------------------------------------------------------
InTest(k) == step[k] \notin {"none", "returned"}

(***************************************************************************)
(* At most one test thread clears and copies the buffer, however the       *)
(* dialog is closed and opened while it runs, and the dialog's future is   *)
(* the one that waits for it.                                              *)
(***************************************************************************)
OneTest == \A k \in Test : InTest(k) => k = progress /\ (gui = "run" => in_progress)

(***************************************************************************)
(* What a test reports to have received comes from its own connection, or  *)
(* from a test that was reported as failed and connected later, or from    *)
(* the one buffer that was on its way when a test disconnected.            *)
(***************************************************************************)
PureOutput ==
  \A k \in Test : \A j \in output[k] : j = k \/ verdict[j] = "failed" \/ j \in tail

(***************************************************************************)
(* A test that reports success leaves no connection behind; one that       *)
(* reports failure may (nothing disconnects it).                           *)
(***************************************************************************)
SuccessCloses ==
  \A k \in Test : step[k] = "returned" /\ link[k] \in {"trying", "up"} => verdict[k] = "failed"

(***************************************************************************)
(* The buffer outlives its users: when the program has ended, no test      *)
(* thread and no handler of a connection left behind touches it.           *)
(***************************************************************************)
BufferAlive == gui = "ended" => io = 0 /\ \A k \in Test : ~InTest(k)

(***************************************************************************)
(* "Loading" comes to an end: the dialog gets its result, unless it is     *)
(* closed first or the program ends.                                       *)
(***************************************************************************)
TestEnds == in_progress ~> ~in_progress \/ ~open \/ gui # "run"

(***************************************************************************)
(* The program ends, whatever tests and connections are under way.         *)
(***************************************************************************)
QuitEnds == gui = "dialog" ~> ~Running
=============================================================================

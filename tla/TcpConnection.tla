--------------------------- MODULE TcpConnection ---------------------------
(***************************************************************************)
(* connection::Tcp (src/app/src/connection/tcp_connection.cpp): one client *)
(* connection, used from two threads.  The "gui" thread calls connect(),   *)
(* disconnect() and applyOptions() directly; the "io" thread runs the      *)
(* completion handlers of boost::asio, one at a time, in the order in      *)
(* which the operations completed.  The strand orders the handlers among   *)
(* themselves and nothing orders them against the gui thread, so every     *)
(* read or write of should_run_, is_connected_ and socket_ is a step of    *)
(* its own here.  (isConnected() is one step: its second read, is_open(),  *)
(* matters only if the first one returned true.)                           *)
(***************************************************************************)
EXTENDS Naturals, Sequences

CONSTANTS
  MaxEndpoints,  \* longest list of endpoints the resolver returns
  MaxCalls       \* bound: how many operations the user starts

ASSUME EndpointsAssumption == MaxEndpoints \in Nat \ {0}
ASSUME CallsAssumption     == MaxCalls \in Nat

VARIABLES
  should_run,    \* should_run_
  is_connected,  \* is_connected_
  socket,        \* state of socket_: "closed", "open", "connecting", "connected"
  endpoints,     \* length of endpoints_
  connect_op,    \* iterator of the async_connect in progress, 0 if none
  reads,         \* async_read_until operations in progress
  ready,         \* completions the io thread has not run yet, in order
  pc,            \* where each thread is
  ret,           \* where disconnect() returns to, per thread
  task,          \* the completion the io thread is running
  calls,         \* operations the user started
  overlap,       \* history: connect() armed should_run_ before the previous
                 \* attempt or session had drained
  cancelled,     \* history: the gui cleared should_run_ during an attempt
  slipped,       \* history: it did so on a link that was just coming up
  late           \* history: buffers delivered while should_run_ is false

vars == <<should_run, is_connected, socket, endpoints, connect_op,
          reads, ready, pc, ret, task, calls, overlap,
          cancelled, slipped, late>>

flags   == <<should_run, is_connected>>
network == <<socket, connect_op, reads, ready>>
history == <<calls, overlap, cancelled, slipped, late>>

Thread == {"gui", "io"}

(***************************************************************************)
(* An iterator is the number of endpoints left from it to the end of the   *)
(* list; 0 is end().  An iterator that outlives endpoints_ keeps its own   *)
(* list, so it still reaches its own end.                                  *)
(***************************************************************************)
Iterator == 0..MaxEndpoints

Completion == [op : {"connect", "read"}, err : BOOLEAN, iter : Iterator]
NoTask     == [op |-> "read", err |-> FALSE, iter |-> 0]

DisconnectPc == {"test", "clear", "down", "stop", "close"}
GuiPc == {"idle", "resolve", "resolve_caught", "run", "begin", "released", "terminated"}
IoPc  == {"idle", "handle_connect", "check_open", "established", "next",
          "start_read", "deliver", "check_run"}

IsConnected == is_connected /\ socket # "closed"

\* Something of an earlier attempt or session has still to run.
Busy == connect_op # 0 \/ reads # 0 \/ ready # <<>> \/ pc["io"] # "idle"

Init ==
  /\ should_run = TRUE /\ is_connected = FALSE
  /\ socket = "closed"
  /\ endpoints = 0
  /\ connect_op = 0 /\ reads = 0 /\ ready = <<>>
  /\ pc = [t \in Thread |-> "idle"]
  /\ ret = [t \in Thread |-> "idle"]
  /\ task = NoTask
  /\ calls = 0 /\ overlap = FALSE /\ cancelled = FALSE /\ slipped = FALSE
  /\ late = 0

Goto(t, label) == pc' = [pc EXCEPT ![t] = label]

\* Thread t calls disconnect() and goes on at label when it returns.
CallDisconnect(t, label) ==
  /\ Goto(t, "test")
  /\ ret' = [ret EXCEPT ![t] = label]

-----------------------------------------------------------------------------
(***************************************************************************)
(* The socket: what boost::asio does with socket_ (external).              *)
(***************************************************************************)

Aborted(op, it) == [op |-> op, err |-> TRUE, iter |-> it]

\* socket_.async_connect.  A closed socket is opened first; a socket that is
\* connecting or connected refuses at once, through a queued error.
AsyncConnect(it) ==
  /\ IF socket \in {"closed", "open"}
       THEN /\ socket' = "connecting"
            /\ connect_op' = it
            /\ ready' = ready
       ELSE /\ ready' = Append(ready, Aborted("connect", it))
            /\ UNCHANGED <<socket, connect_op>>
  /\ reads' = reads

\* async_read_until: an unconnected socket fails it at once.
AsyncRead ==
  /\ IF socket \in {"closed", "open"}
       THEN ready' = Append(ready, Aborted("read", 0)) /\ reads' = reads
       ELSE ready' = ready /\ reads' = reads + 1
  /\ UNCHANGED <<socket, connect_op>>

\* socket_.close(): every operation in progress completes with an error.
Close ==
  /\ socket' = "closed"
  /\ ready' = ready \o [i \in 1..reads |-> Aborted("read", 0)]
                    \o (IF connect_op = 0 THEN <<>>
                                          ELSE <<Aborted("connect", connect_op)>>)
  /\ reads' = 0 /\ connect_op' = 0

\* The peer answers the connect, or the connect fails or times out.
ConnectCompletes(ok) ==
  /\ connect_op # 0
  /\ socket' = IF ok THEN "connected" ELSE "open"
  /\ ready' = Append(ready, [op |-> "connect", err |-> ~ok, iter |-> connect_op])
  /\ connect_op' = 0
  /\ UNCHANGED <<flags, reads, endpoints, pc, ret, task, history>>

\* A buffer up to the packet end arrives, or the peer closes or fails.
ReadCompletes(ok) ==
  /\ reads > 0
  /\ socket = "connected" \/ (socket = "open" /\ ~ok)
  /\ reads' = reads - 1
  /\ ready' = Append(ready, [op |-> "read", err |-> ~ok, iter |-> 0])
  /\ UNCHANGED <<flags, socket, connect_op, endpoints, pc, ret, task, history>>

-----------------------------------------------------------------------------
(***************************************************************************)
(* disconnect(), called on either thread.                                  *)
(***************************************************************************)

\* disconnect() returns; a handler that ends with it leaves the io thread idle.
Return(t) ==
  /\ Goto(t, ret[t])
  /\ ret' = [ret EXCEPT ![t] = "idle"]
  /\ task' = IF t = "io" /\ ret[t] = "idle" THEN NoTask ELSE task

TestConnected(t) ==
  /\ pc[t] = "test"
  /\ Goto(t, IF IsConnected THEN "down" ELSE "clear")
  /\ UNCHANGED <<flags, network, endpoints, ret, task, history>>

\* The gui thread gives an attempt up without closing its socket; handleConnect
\* may already have decided to report the link.
Excuse(t) ==
  /\ cancelled' = (cancelled \/ (t = "gui" /\ Busy))
  /\ slipped' = (slipped \/ (t = "gui" /\ (is_connected \/ pc["io"] \in {"check_open", "established"})))

\* Mutant: the early return of disconnect() forgets should_run_ = false.
ClearRunForgotten(t) ==
  /\ pc[t] = "clear"
  /\ Return(t)
  /\ Excuse(t)
  /\ UNCHANGED <<flags, network, endpoints, calls, overlap, late>>

\* Not connected: the flag is cleared, and the socket stays as it is.
ClearRun(t) ==
  /\ pc[t] = "clear"
  /\ should_run' = FALSE
  /\ Return(t)
  /\ Excuse(t)
  /\ UNCHANGED <<is_connected, network, endpoints, calls, overlap, late>>

MarkDown(t) ==
  /\ pc[t] = "down"
  /\ is_connected' = FALSE
  /\ Goto(t, "stop")
  /\ UNCHANGED <<should_run, network, endpoints, ret, task, history>>

StopRun(t) ==
  /\ pc[t] = "stop"
  /\ should_run' = FALSE
  /\ Goto(t, "close")
  /\ UNCHANGED <<is_connected, network, endpoints, ret, task, history>>

\* Mutant: disconnect() without socket_.close().
CloseSocketForgotten(t) ==
  /\ pc[t] = "close"
  /\ Return(t)
  /\ UNCHANGED <<flags, network, endpoints, history>>

CloseSocket(t) ==
  /\ pc[t] = "close"
  /\ Close
  /\ Return(t)
  /\ UNCHANGED <<flags, endpoints, history>>

Disconnect(t) == TestConnected(t) \/ ClearRun(t) \/ MarkDown(t) \/ StopRun(t) \/ CloseSocket(t)

-----------------------------------------------------------------------------
(***************************************************************************)
(* The gui thread: the buttons of TcpConnectionWin, "Close Connection" of  *)
(* the device manager, and the rest of connect().                          *)
(***************************************************************************)

Press(label) ==
  /\ pc["gui"] = "idle"
  /\ calls < MaxCalls
  /\ calls' = calls + 1
  /\ CallDisconnect("gui", label)
  /\ UNCHANGED <<flags, network, endpoints, task, overlap, cancelled, slipped, late>>

PressConnect    == ~IsConnected /\ Press("resolve")
PressDisconnect == IsConnected /\ Press("idle")
PressApply      == IsConnected /\ Press("resolve_caught")
CloseConnection == Press("released")

Resolve ==
  /\ pc["gui"] \in {"resolve", "resolve_caught"}
  /\ endpoints' \in 1..MaxEndpoints
  /\ Goto("gui", "run")
  /\ UNCHANGED <<flags, network, ret, task, history>>

\* The resolver throws: "Apply options" catches it, "Connect" does not.
ResolveThrows ==
  /\ pc["gui"] \in {"resolve", "resolve_caught"}
  /\ Goto("gui", IF pc["gui"] = "resolve" THEN "terminated" ELSE "idle")
  /\ UNCHANGED <<flags, network, endpoints, ret, task, history>>

Arm ==
  /\ pc["gui"] = "run"
  /\ should_run' = TRUE
  /\ Goto("gui", "begin")
  /\ overlap' = (overlap \/ Busy)
  /\ late' = 0
  /\ UNCHANGED <<is_connected, network, endpoints, ret, task, calls, cancelled, slipped>>

Begin ==
  /\ pc["gui"] = "begin"
  /\ AsyncConnect(endpoints)
  /\ Goto("gui", "idle")
  /\ UNCHANGED <<flags, endpoints, ret, task, history>>

GuiCall == PressConnect \/ PressDisconnect \/ PressApply \/ CloseConnection
GuiStep == Disconnect("gui") \/ Resolve \/ ResolveThrows \/ Arm \/ Begin

-----------------------------------------------------------------------------
(***************************************************************************)
(* The io thread: handleConnect, beginConnect, startRead and handleRead.   *)
(***************************************************************************)

\* io_context::run takes the next completion.
Take ==
  /\ pc["io"] = "idle"
  /\ ready # <<>>
  /\ task' = Head(ready)
  /\ ready' = Tail(ready)
  /\ Goto("io", CASE task'.op = "connect" -> "handle_connect"
                   [] task'.err           -> "test"
                   [] OTHER               -> "deliver")
  /\ UNCHANGED <<flags, socket, connect_op, reads, endpoints, ret, history>>

HandlerReturns == Goto("io", "idle") /\ task' = NoTask

\* handleConnect: if (!should_run_) return
CheckWanted ==
  /\ pc["io"] = "handle_connect"
  /\ \/ should_run /\ Goto("io", "check_open") /\ task' = task
     \/ ~should_run /\ HandlerReturns
  /\ UNCHANGED <<flags, network, endpoints, ret, history>>

\* Mutant: handleConnect takes every completion on an open socket for a link.
CheckOpenIgnoresError ==
  /\ pc["io"] = "check_open"
  /\ Goto("io", IF socket = "closed" THEN "next" ELSE "established")
  /\ UNCHANGED <<flags, network, endpoints, ret, task, history>>

\* Mutant: handleConnect only logs the error.
CheckOpenLogsError ==
  /\ pc["io"] = "check_open"
  /\ \/ socket = "closed" /\ Goto("io", "next") /\ task' = task
     \/ socket # "closed" /\ task.err /\ HandlerReturns
     \/ socket # "closed" /\ ~task.err /\ Goto("io", "established") /\ task' = task
  /\ UNCHANGED <<flags, network, endpoints, ret, history>>

\* handleConnect: the branch on is_open() and on the error.
CheckOpen ==
  /\ pc["io"] = "check_open"
  /\ \/ socket = "closed" /\ Goto("io", "next") /\ ret' = ret
     \/ socket # "closed" /\ task.err /\ CallDisconnect("io", "next")
     \/ socket # "closed" /\ ~task.err /\ Goto("io", "established") /\ ret' = ret
  /\ UNCHANGED <<flags, network, endpoints, task, history>>

\* beginConnect(++endpoint_iter)
NextEndpoint ==
  /\ pc["io"] = "next"
  /\ \/ /\ task.iter > 1
        /\ AsyncConnect(task.iter - 1)
        /\ HandlerReturns
        /\ ret' = ret
     \/ /\ task.iter <= 1
        /\ CallDisconnect("io", "idle")
        /\ UNCHANGED <<network, task>>
  /\ UNCHANGED <<flags, endpoints, history>>

Established ==
  /\ pc["io"] = "established"
  /\ is_connected' = TRUE
  /\ Goto("io", "start_read")
  /\ UNCHANGED <<should_run, network, endpoints, ret, task, history>>

StartRead ==
  /\ pc["io"] = "start_read"
  /\ AsyncRead
  /\ HandlerReturns
  /\ UNCHANGED <<flags, endpoints, ret, history>>

\* Mutant: handleRead starts the next read before it hands over the buffer.
DeliverPrefetches ==
  /\ pc["io"] = "deliver"
  /\ AsyncRead
  /\ late' = late + (IF should_run THEN 0 ELSE 1)
  /\ Goto("io", "check_run")
  /\ UNCHANGED <<flags, endpoints, ret, task, calls, overlap, cancelled, slipped>>

\* handleRead without an error: processData, then buffer_rx_.clear()
Deliver ==
  /\ pc["io"] = "deliver"
  /\ late' = late + (IF should_run THEN 0 ELSE 1)
  /\ Goto("io", "check_run")
  /\ UNCHANGED <<flags, network, endpoints, ret, task, calls, overlap, cancelled, slipped>>

\* Mutant: handleRead reads on without looking at should_run_.
CheckRunIgnored ==
  /\ pc["io"] = "check_run"
  /\ Goto("io", "start_read")
  /\ UNCHANGED <<flags, network, endpoints, ret, task, history>>

\* Mutant: handleRead forgets to start the next read.
CheckRunForgotten ==
  /\ pc["io"] = "check_run"
  /\ HandlerReturns
  /\ UNCHANGED <<flags, network, endpoints, ret, history>>

\* handleRead: if (should_run_) startRead()
CheckRun ==
  /\ pc["io"] = "check_run"
  /\ \/ should_run /\ Goto("io", "start_read") /\ task' = task
     \/ ~should_run /\ HandlerReturns
  /\ UNCHANGED <<flags, network, endpoints, ret, history>>

IoStep == \/ Disconnect("io") \/ Take
          \/ CheckWanted \/ CheckOpen \/ NextEndpoint \/ Established
          \/ StartRead \/ Deliver \/ CheckRun

NetworkStep == \E ok \in BOOLEAN : ConnectCompletes(ok) \/ ReadCompletes(ok)

\* An exception that leaves the gui thread's main loop ends the process.
Running == pc["gui"] # "terminated"

Next == Running /\ (GuiCall \/ GuiStep \/ IoStep \/ NetworkStep)

Spec == Init /\ [][Next]_vars

(***************************************************************************)
(* The threads keep running while they have something to do, and a connect *)
(* ends one way or the other (the kernel times it out).  Nothing makes the *)
(* user press a button or the peer send.                                   *)
(***************************************************************************)
FairSpec ==
  /\ Spec
  /\ WF_vars(Running /\ GuiStep)
  /\ WF_vars(Running /\ IoStep)
  /\ WF_vars(Running /\ \E ok \in BOOLEAN : ConnectCompletes(ok))

-----------------------------------------------------------------------------
\* Every variable keeps its type; every thread is somewhere in the code.
TypeOK ==
  /\ should_run \in BOOLEAN /\ is_connected \in BOOLEAN
  /\ socket \in {"closed", "open", "connecting", "connected"}
  /\ endpoints \in Iterator
  /\ connect_op \in Iterator /\ reads \in Nat
  /\ ready \in Seq(Completion) /\ task \in Completion
  /\ pc \in [Thread -> DisconnectPc \cup GuiPc \cup IoPc]
  /\ ret \in [Thread -> {"idle", "resolve", "resolve_caught", "released", "next"}]
  /\ calls \in Nat /\ overlap \in BOOLEAN /\ cancelled \in BOOLEAN /\ slipped \in BOOLEAN
  /\ late \in Nat

-----------------------------------------------------------------------------
\* Operations in progress, completions in the queue and the running handler.
Pending == (IF connect_op # 0 THEN 1 ELSE 0) + reads + Len(ready)
           + (IF pc["io"] # "idle" THEN 1 ELSE 0)

\* Nothing happens any more until the user or the peer does something.
Quiet == Pending = 0 /\ pc["gui"] \in {"idle", "released"}

(***************************************************************************)
(* handleConnect and handleRead hand one activity on from operation to     *)
(* operation: unless connect() ran before the previous attempt or session  *)
(* had drained, at most one operation or handler exists, so buffer_rx_ is  *)
(* never filled by two async_read_until operations.                        *)
(***************************************************************************)
OneOperation == ~overlap => Pending <= 1

(***************************************************************************)
(* isConnected() tells the truth: is_connected_ is set only while the      *)
(* kernel has the link (same proviso), whatever the two threads were doing *)
(* inside disconnect() and handleConnect.                                  *)
(***************************************************************************)
LinkIsUp == ~overlap /\ is_connected => socket = "connected"

(***************************************************************************)
(* After disconnect() has cleared should_run_ at most one more buffer      *)
(* reaches processData: handleRead delivers before it looks at the flag.   *)
(***************************************************************************)
LateBound == ~overlap => late <= 1

(***************************************************************************)
(* A link that isConnected() reports has a read in progress or a handler   *)
(* about to start one: when all is quiet no link is reported.  Excused are *)
(* overlapping attempts (same proviso), and an attempt the gui thread gave *)
(* up after handleConnect had looked at should_run_, while disconnect()    *)
(* saw no link yet.                                                        *)
(***************************************************************************)
NotDeaf == Quiet /\ is_connected => overlap \/ slipped

(***************************************************************************)
(* With one endpoint per name, the kernel does not keep a link that        *)
(* isConnected() denies, and that disconnect() would therefore never       *)
(* close, except after an interrupted attempt.  (With two endpoints it     *)
(* does: FallbackFutile.)                                                  *)
(***************************************************************************)
NoOrphanLink == Quiet /\ socket = "connected" => is_connected \/ overlap \/ cancelled

(***************************************************************************)
(* The endpoints after the first are tried in vain: the error path runs    *)
(* disconnect(), which clears should_run_, before beginConnect(++iter), so *)
(* the handler of a fallback endpoint that answers returns at once.        *)
(***************************************************************************)
FallbackFutile == ~overlap /\ pc["io"] = "next" => ~should_run

(***************************************************************************)
(* An attempt comes to an end: connected, or given up with should_run_     *)
(* cleared.                                                                *)
(***************************************************************************)
AttemptSettles == pc["gui"] = "begin" ~> is_connected \/ ~should_run \/ ~Running

(***************************************************************************)
(* A connection the user closes goes away: its operations and handlers,    *)
(* which hold the object through shared_from_this, all come to an end,     *)
(* unless it slipped (same proviso), or one of two overlapping attempts    *)
(* was given up.                                                           *)
(***************************************************************************)
ReleaseDrains == pc["gui"] = "released" /\ ~slipped /\ ~(overlap /\ cancelled) ~> Pending = 0

-----------------------------------------------------------------------------
(***************************************************************************)
(* The inductive invariant behind OneOperation, LinkIsUp, LateBound and    *)
(* FallbackFutile.                                                         *)
(***************************************************************************)
Closing == {"down", "stop", "close"}

\* A connect the kernel has answered with success, not yet looked at.
Answered ==
  /\ ~is_connected
  /\ should_run => socket = "connected" /\ pc["gui"] \notin Closing

\* One token of activity; none while the gui thread starts an attempt.
InvToken ==
  /\ connect_op # 0 => reads = 0 /\ ready = <<>> /\ pc["io"] = "idle"
  /\ reads # 0 => reads = 1 /\ ready = <<>> /\ pc["io"] = "idle"
  /\ ready # <<>> => Len(ready) = 1 /\ pc["io"] = "idle"
  /\ pc["gui"] = "begin" => ~Busy

\* The flags and the socket agree at every step of disconnect().
InvFlags ==
  /\ is_connected => socket = "connected"
  /\ \A t \in Thread : pc[t] \in {"stop", "close"} => ~is_connected
  /\ \A t \in Thread : pc[t] = "close" => ~should_run
  /\ pc["io"] = "next" => ~should_run
  /\ socket = "closed" /\ should_run => ~Busy

\* A connect under way, answered, or being handled, meets an unreported link.
InvAttempt ==
  /\ connect_op # 0 => socket = "connecting"
  /\ connect_op # 0 /\ should_run => pc["gui"] \notin Closing
  /\ \A i \in 1..Len(ready) : ready[i].op = "connect" /\ ~ready[i].err => Answered
  /\ pc["io"] = "handle_connect" /\ ~task.err => Answered
  /\ pc["io"] = "established" \/ (pc["io"] = "check_open" /\ ~task.err)
       => ~is_connected /\ socket = "connected" /\ pc["gui"] \notin Closing

\* The one late buffer ends its activity.
InvLate ==
  /\ late <= 1
  /\ late = 1 => ~should_run /\ pc["gui"] # "begin" /\ (~Busy \/ pc["io"] = "check_run")

\* What holds as long as connect() finds the previous attempt drained.
IInv == ~overlap => InvToken /\ InvFlags /\ InvAttempt /\ InvLate

(***************************************************************************)
(* On top of it, the invariants behind NotDeaf and NoOrphanLink.           *)
(***************************************************************************)
Queued(op) == ready # <<>> /\ ready[1].op = op

\* The read of a reported link, or the handler that starts or ends it.
Reading ==
  reads # 0 \/ Queued("read") \/ pc["io"] \in {"start_read", "deliver", "check_run", "test", "down"}

\* A link about to be reported, or reported, that was not given up is wanted.
InvWanted ==
  /\ pc["gui"] \in {"resolve", "resolve_caught", "run", "released"} => ~should_run
  /\ pc["gui"] = "begin" => should_run
  /\ pc["io"] = "clear" => ~is_connected
  /\ ~slipped /\ (pc["io"] = "established" \/ (pc["io"] = "check_open" /\ ~task.err)) => should_run
  /\ ~slipped /\ is_connected => should_run /\ Reading

\* The handler of a connect that succeeded is still to report the link.
Answering ==
  \/ Queued("connect") /\ ~ready[1].err
  \/ pc["io"] \in {"handle_connect", "check_open", "established"} /\ ~task.err

\* With one endpoint, a link the kernel has is reported, will be, or is closed.
InvOrphan ==
  /\ slipped => cancelled
  /\ MaxEndpoints = 1 /\ ~cancelled =>
       /\ connect_op # 0 \/ Answering => should_run
       /\ socket = "connected" /\ ~is_connected =>
            Answering \/ \E t \in Thread : pc[t] \in {"stop", "close"}

LinkInv == ~overlap => InvWanted /\ InvOrphan
=============================================================================

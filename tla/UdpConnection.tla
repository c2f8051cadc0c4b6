--------------------------- MODULE UdpConnection ---------------------------
(***************************************************************************)
(* connection::Udp (src/app/src/connection/udp_connection.cpp), used from  *)
(* two threads.  The "gui" thread calls connect(), disconnect(), write()   *)
(* and applyOptions() directly; the "io" thread runs handleRead, which     *)
(* calls disconnect() too.  Each access of should_receive_ or socket_ is a *)
(* step.  Sends leave no state behind (handleWrite only logs), so write()  *)
(* is the opening of the socket.                                           *)
(***************************************************************************)
EXTENDS Naturals, Sequences

CONSTANT MaxCalls   \* bound: how many calls the user's buttons make

ASSUME CallsAssumption == MaxCalls \in Nat

VARIABLES
  should_receive,  \* should_receive_
  socket,          \* socket_: "closed", "open" (no port of ours), "bound"
  options,         \* options_ of the connection: does it listen?
  draft,           \* options_ of the window: what "Apply options" applies
  reads,           \* async_receive_from operations in progress
  ready,           \* results of receives the io thread has not handled yet
  pc,              \* where each thread is
  ret,             \* where the gui's disconnect() returns to
  result,          \* result the io thread is handling
  calls,           \* calls the user's buttons made
  overlap,         \* history: connect() armed should_receive_ before the
                   \* previous session had drained
  late             \* history: datagrams handed over while should_receive_ is false

vars == <<should_receive, socket, options, draft, reads, ready, pc, ret,
          result, calls, overlap, late>>

network == <<socket, reads, ready>>
history == <<overlap, late>>
windows == <<options, draft>>

Thread == {"gui", "io"}
Result == {"data", "error", "aborted"}

GuiPc == {"idle", "clear", "close", "connect", "open", "bind", "begin", "unlisten",
          "write", "released", "terminated"}
IoPc  == {"idle", "clear", "close", "deliver", "check", "read"}

\* Something of the session has still to run.
Busy == reads # 0 \/ ready # <<>> \/ pc["io"] # "idle"

Init ==
  /\ should_receive \in BOOLEAN   \* the constructor leaves it uninitialised
  /\ socket = "closed"
  /\ options \in BOOLEAN /\ draft = options
  /\ reads = 0 /\ ready = <<>>
  /\ pc = [t \in Thread |-> "idle"] /\ ret = "idle" /\ result = "data"
  /\ calls = 0 /\ overlap = FALSE /\ late = 0

Goto(t, label) == pc' = [pc EXCEPT ![t] = label]

IsConnected == socket # "closed"

-----------------------------------------------------------------------------
(***************************************************************************)
(* The socket: what boost::asio does with socket_ (external).              *)
(***************************************************************************)

\* async_receive_from: a closed socket fails it at once.
AsyncReceive ==
  /\ IF socket = "closed"
       THEN ready' = Append(ready, "error") /\ reads' = reads
       ELSE ready' = ready /\ reads' = reads + 1
  /\ socket' = socket

\* socket_.close(): every receive in progress completes as aborted.
Close ==
  /\ socket' = "closed"
  /\ ready' = ready \o [i \in 1..reads |-> "aborted"]
  /\ reads' = 0

\* A datagram arrives, or the receive fails (a datagram too long for the
\* buffer, an unreachable port reported back).
ReceiveCompletes(res) ==
  /\ reads > 0
  /\ reads' = reads - 1
  /\ ready' = Append(ready, res)
  /\ UNCHANGED <<should_receive, socket, windows, pc, ret, result, calls, history>>

-----------------------------------------------------------------------------
(***************************************************************************)
(* disconnect(), called on either thread.                                  *)
(***************************************************************************)

Clear(t) ==
  /\ pc[t] = "clear"
  /\ should_receive' = FALSE
  /\ Goto(t, "close")
  /\ UNCHANGED <<network, windows, ret, result, calls, history>>

\* Mutant: disconnect() without socket_.close().
CloseSocketForgotten(t) ==
  /\ pc[t] = "close"
  /\ Goto(t, IF t = "gui" THEN ret ELSE "idle")
  /\ ret' = IF t = "gui" THEN "idle" ELSE ret
  /\ UNCHANGED <<should_receive, network, windows, result, calls, history>>

CloseSocket(t) ==
  /\ pc[t] = "close"
  /\ Close
  /\ Goto(t, IF t = "gui" THEN ret ELSE "idle")
  /\ ret' = IF t = "gui" THEN "idle" ELSE ret
  /\ UNCHANGED <<should_receive, windows, result, calls, history>>

Disconnect(t) == Clear(t) \/ CloseSocket(t)

-----------------------------------------------------------------------------
(***************************************************************************)
(* The gui thread: UdpConnectionWin, "Close Connection", and what they     *)
(* call.                                                                   *)
(***************************************************************************)

Press(label, return) ==
  /\ pc["gui"] = "idle"
  /\ calls < MaxCalls
  /\ calls' = calls + 1
  /\ Goto("gui", label)
  /\ ret' = return
  /\ UNCHANGED <<should_receive, network, result, history>>

PressConnect    == ~IsConnected /\ Press("connect", "idle") /\ UNCHANGED windows
PressDisconnect == IsConnected /\ Press("clear", "idle") /\ UNCHANGED windows
PressSend       == Press("write", "idle") /\ UNCHANGED windows
CloseConnection == Press("clear", "released") /\ UNCHANGED windows

\* "Apply options": setOptions(options_ of the window), then applyOptions().
PressApply ==
  /\ options' = draft /\ draft' = draft
  /\ \/ IsConnected /\ Press("clear", "connect")
     \/ ~IsConnected /\ Press("idle", "idle")

\* The settings tab edits the connection's own options; "Reset" copies them
\* to the window.
Edit  == pc["gui"] = "idle" /\ options' \in BOOLEAN /\ draft' = draft
Reset == pc["gui"] = "idle" /\ draft' = options /\ options' = options

Settings ==
  /\ Edit \/ Reset
  /\ UNCHANGED <<should_receive, network, pc, ret, result, calls, history>>

\* Mutant: connect() never arms should_receive_.
ArmForgotten ==
  /\ pc["gui"] = "connect"
  /\ Goto("gui", IF options THEN "open" ELSE "idle")
  /\ overlap' = (overlap \/ (options /\ Busy))
  /\ late' = IF options THEN 0 ELSE late
  /\ UNCHANGED <<should_receive, network, windows, ret, result, calls>>

\* connect(): if it listens, should_receive_ = true.
Arm ==
  /\ pc["gui"] = "connect"
  /\ \/ /\ options
        /\ should_receive' = TRUE
        /\ Goto("gui", "open")
        /\ overlap' = (overlap \/ Busy)
        /\ late' = 0
     \/ /\ ~options
        /\ Goto("gui", "idle")
        /\ UNCHANGED <<should_receive, history>>
  /\ UNCHANGED <<network, windows, ret, result, calls>>

\* socket_.open throws if it is open already, or for want of resources.
Open ==
  /\ pc["gui"] = "open"
  /\ \/ socket = "closed" /\ socket' = "open" /\ Goto("gui", "bind")
     \/ socket' = socket /\ Goto("gui", "unlisten")
  /\ UNCHANGED <<should_receive, windows, reads, ready, ret, result, calls, history>>

\* socket_.bind throws if the socket was closed meanwhile or the port is taken.
Bind ==
  /\ pc["gui"] = "bind"
  /\ \/ socket # "closed" /\ socket' = "bound" /\ Goto("gui", "begin")
     \/ socket' = socket /\ Goto("gui", "unlisten")
  /\ UNCHANGED <<should_receive, windows, reads, ready, ret, result, calls, history>>

\* Mutant: connect() forgets startRead().
BeginForgotten ==
  /\ pc["gui"] = "begin"
  /\ Goto("gui", "idle")
  /\ UNCHANGED <<should_receive, network, windows, ret, result, calls, history>>

Begin ==
  /\ pc["gui"] = "begin"
  /\ AsyncReceive
  /\ Goto("gui", "idle")
  /\ UNCHANGED <<should_receive, windows, ret, result, calls, history>>

\* The catch block of connect(); the socket stays as it is.
Unlisten ==
  /\ pc["gui"] = "unlisten"
  /\ should_receive' = FALSE
  /\ Goto("gui", "idle")
  /\ UNCHANGED <<network, windows, ret, result, calls, history>>

\* write(): a closed socket is opened, without a port of its own; if that
\* throws, nothing catches it.
Write ==
  /\ pc["gui"] = "write"
  /\ \/ /\ socket' = IF socket = "closed" THEN "open" ELSE socket
        /\ Goto("gui", "idle")
     \/ socket = "closed" /\ socket' = socket /\ Goto("gui", "terminated")
  /\ UNCHANGED <<should_receive, windows, reads, ready, ret, result, calls, history>>

GuiCall == PressConnect \/ PressDisconnect \/ PressSend \/ PressApply \/ CloseConnection
GuiStep == Disconnect("gui") \/ Arm \/ Open \/ Bind \/ Begin \/ Unlisten \/ Write

-----------------------------------------------------------------------------
(***************************************************************************)
(* The io thread: handleRead and startRead.                                *)
(***************************************************************************)

\* io_context::run takes the next result.
Take ==
  /\ pc["io"] = "idle"
  /\ ready # <<>>
  /\ result' = Head(ready) /\ ready' = Tail(ready)
  /\ Goto("io", IF result' = "data" THEN "deliver" ELSE "clear")
  /\ UNCHANGED <<should_receive, socket, reads, windows, ret, calls, history>>

\* Mutant: handleRead starts the next receive before it hands over the buffer.
DeliverPrefetches ==
  /\ pc["io"] = "deliver"
  /\ AsyncReceive
  /\ late' = late + (IF should_receive THEN 0 ELSE 1)
  /\ Goto("io", "check")
  /\ UNCHANGED <<should_receive, windows, ret, result, calls, overlap>>

\* processData, then buffer_rx_.fill(0)
Deliver ==
  /\ pc["io"] = "deliver"
  /\ late' = late + (IF should_receive THEN 0 ELSE 1)
  /\ Goto("io", "check")
  /\ UNCHANGED <<should_receive, network, windows, ret, result, calls, overlap>>

\* Mutant: handleRead disconnects where it should only stop reading.
CheckDisconnects ==
  /\ pc["io"] = "check"
  /\ Goto("io", IF should_receive THEN "read" ELSE "clear")
  /\ UNCHANGED <<should_receive, network, windows, ret, result, calls, history>>

\* if (should_receive_) startRead()
Check ==
  /\ pc["io"] = "check"
  /\ Goto("io", IF should_receive THEN "read" ELSE "idle")
  /\ UNCHANGED <<should_receive, network, windows, ret, result, calls, history>>

StartRead ==
  /\ pc["io"] = "read"
  /\ AsyncReceive
  /\ Goto("io", "idle")
  /\ UNCHANGED <<should_receive, windows, ret, result, calls, history>>

IoStep == Disconnect("io") \/ Take \/ Deliver \/ Check \/ StartRead

NetworkStep == \E res \in {"data", "error"} : ReceiveCompletes(res)

\* An exception that leaves the gui thread's main loop ends the process.
Running == pc["gui"] # "terminated"

Next == Running /\ (GuiCall \/ Settings \/ GuiStep \/ IoStep \/ NetworkStep)

Spec == Init /\ [][Next]_vars

\* Both threads keep running; nothing makes a datagram arrive or the user act.
FairSpec == Spec /\ WF_vars(GuiStep) /\ WF_vars(Running /\ IoStep)

-----------------------------------------------------------------------------
\* Every variable keeps its type; every thread is somewhere in the code.
TypeOK ==
  /\ should_receive \in BOOLEAN
  /\ socket \in {"closed", "open", "bound"}
  /\ options \in BOOLEAN /\ draft \in BOOLEAN
  /\ reads \in Nat /\ ready \in Seq(Result) /\ result \in Result
  /\ pc \in [Thread -> GuiPc \cup IoPc]
  /\ pc["gui"] \in GuiPc /\ pc["io"] \in IoPc
  /\ ret \in {"idle", "connect", "released"}
  /\ calls \in Nat /\ overlap \in BOOLEAN /\ late \in Nat

-----------------------------------------------------------------------------
\* Receives in progress, results in the queue and the running handler.
Pending == reads + Len(ready) + (IF pc["io"] # "idle" THEN 1 ELSE 0)

(***************************************************************************)
(* startRead and handleRead hand one activity on: unless connect() ran     *)
(* before the previous session had drained (as "Apply options" on a        *)
(* listening connection does: connect() follows disconnect() at once), no  *)
(* two receives fill buffer_rx_ and remote_endpoint_.                      *)
(***************************************************************************)
OneReceive == ~overlap => Pending <= 1

(***************************************************************************)
(* A connection that listens receives: with both threads at rest and       *)
(* socket_ bound there is a receive in progress, and the flag that makes   *)
(* handleRead start the next one is set (same proviso).                    *)
(***************************************************************************)
NotDeaf ==
  /\ ~overlap
  /\ socket = "bound" /\ ready = <<>>
  /\ pc["gui"] \in {"idle", "released"} /\ pc["io"] = "idle"
  => should_receive /\ reads = 1

(***************************************************************************)
(* After should_receive_ has been cleared at most one more datagram        *)
(* reaches processData: handleRead delivers before it looks at the flag.   *)
(***************************************************************************)
LateBound == ~overlap => late <= 1

(***************************************************************************)
(* handleRead closes a listening socket only because its own receive       *)
(* failed: the aborted receive of an earlier session closes the next one   *)
(* only if connect() did not wait for it (same proviso).                   *)
(***************************************************************************)
NoStaleClose ==
  [][pc["io"] = "close" /\ pc'["io"] = "idle" /\ socket = "bound"
       => overlap \/ result = "error"]_vars

(***************************************************************************)
(* A connection the user closes goes away, whatever overlapped before: the *)
(* operations and handlers that hold it through shared_from_this come to   *)
(* an end, and none of them opens the socket again.                        *)
(***************************************************************************)
ReleaseDrains == pc["gui"] = "released" ~> [](Pending = 0 /\ socket = "closed")

-----------------------------------------------------------------------------
(***************************************************************************)
(* The receive loop that startRead, handleRead and disconnect() implement. *)
(***************************************************************************)
Stage ==
  CASE reads # 0                           -> "waiting"
    [] ready # <<>> /\ Head(ready) = "data" -> "full"
    [] ready # <<>> /\ Head(ready) # "data" -> "failed"
    [] pc["io"] = "deliver"                -> "full"
    [] pc["io"] = "check"                  -> "handed"
    [] pc["io"] = "read"                   -> "again"
    [] pc["io"] \in {"clear", "close"}     -> "failed"
    [] OTHER                               -> "down"

Loop == INSTANCE ReceiveLoop WITH wanted <- should_receive, stage <- Stage

\* As long as connect() finds the previous session drained, the connection is
\* a receive loop: every step is one of the loop's, or leaves it alone.
ImplementsReceiveLoop ==
  Loop!Init /\ [][overlap' \/ Loop!Next]_<<should_receive, Stage>>

-----------------------------------------------------------------------------
(***************************************************************************)
(* The inductive invariant behind OneReceive, NotDeaf, LateBound,          *)
(* NoStaleClose and ImplementsReceiveLoop.                                 *)
(***************************************************************************)

\* One token of activity; none while the gui thread opens the socket.
InvToken ==
  /\ reads # 0 => reads = 1 /\ ready = <<>> /\ pc["io"] = "idle"
  /\ ready # <<>> => Len(ready) = 1 /\ pc["io"] = "idle"
  /\ pc["gui"] \in {"open", "bind", "begin", "unlisten"} => ~Busy

\* The socket and the flag at each place of connect().
InvConnect ==
  /\ pc["gui"] \in {"open", "bind", "begin"} => should_receive
  /\ pc["gui"] \in {"connect", "open"} => socket = "closed"
  /\ pc["gui"] = "bind" => socket = "open"
  /\ pc["gui"] = "begin" => socket = "bound"
  /\ pc["gui"] \in {"unlisten", "released"} => socket # "bound"

\* A bound socket is being received from, or about to be closed.
InvBound ==
  /\ socket = "bound" /\ pc["gui"] \notin {"begin", "close"}
       => Busy /\ (should_receive \/ pc["io"] = "close")
  /\ socket = "bound" => \A i \in 1..Len(ready) : ready[i] # "aborted"
  /\ pc["io"] \in {"clear", "close"} =>
       result # "data" /\ (socket = "bound" => result = "error")
  /\ pc["io"] = "close" => ~should_receive

\* The one late datagram ends its session.
InvLate ==
  /\ late <= 1
  /\ late = 1 => ~should_receive /\ (~Busy \/ pc["io"] = "check")

\* What holds as long as connect() finds the previous session drained.
IInv == ~overlap => InvToken /\ InvConnect /\ InvBound /\ InvLate
=============================================================================

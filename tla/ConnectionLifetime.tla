------------------------ MODULE ConnectionLifetime ------------------------
(***************************************************************************)
(* One TCP connection inside the registry: TcpConnection, with its window, *)
(* its entry and its device, which DeviceManager::drawMenu destroys in     *)
(* this order when the user closes it.  The connection object itself lives *)
(* on for as long as an operation or handler holds it, and keeps a         *)
(* reference to the device.                                                *)
(***************************************************************************)
EXTENDS TcpConnection

VARIABLES
  entry,     \* how far the close loop of drawMenu is
  uses,      \* buffers handed to the device after its destruction
  inflight   \* history: when the device went, a buffer was on its way to it

lifetime == <<entry, uses, inflight>>
lvars    == <<vars, lifetime>>

Entry == {"open", "window_gone", "connection_gone", "closed"}

LInit ==
  /\ Init
  /\ entry = "open" /\ uses = 0 /\ inflight = FALSE

\* A buffer was received and its device has not seen it yet.
OnItsWay ==
  \/ pc["io"] = "deliver"
  \/ \E i \in 1..Len(ready) : ready[i].op = "read" /\ ~ready[i].err

-----------------------------------------------------------------------------
\* The window's buttons, as long as there is a window.
Button ==
  /\ entry = "open"
  /\ PressConnect \/ PressDisconnect \/ PressApply
  /\ UNCHANGED lifetime

\* windows_.erase(id)
CloseWindow ==
  /\ entry = "open" /\ pc["gui"] = "idle" /\ calls < MaxCalls
  /\ entry' = "window_gone"
  /\ UNCHANGED <<vars, uses, inflight>>

\* it->second->disconnect()
CloseDisconnect ==
  /\ entry = "window_gone"
  /\ CloseConnection
  /\ UNCHANGED lifetime

\* Mutant: connections_.erase(id) without disconnect().
EraseUndisconnected ==
  /\ entry = "window_gone"
  /\ entry' = "connection_gone"
  /\ UNCHANGED <<vars, uses, inflight>>

\* connections_.erase(id), once disconnect() is back.
EraseConnection ==
  /\ entry = "window_gone" /\ pc["gui"] = "released"
  /\ entry' = "connection_gone"
  /\ UNCHANGED <<vars, uses, inflight>>

\* devices_.erase(id)
EraseDevice ==
  /\ entry = "connection_gone"
  /\ entry' = "closed"
  /\ inflight' = OnItsWay
  /\ UNCHANGED <<vars, uses>>

\* disconnect() and connect() run on.
GuiGoesOn == GuiStep /\ UNCHANGED lifetime

\* A handler steps; handleRead hands its buffer to handle_, dead or alive.
IoGoesOn ==
  /\ IoStep
  /\ uses' = uses + (IF pc["io"] = "deliver" /\ entry = "closed" THEN 1 ELSE 0)
  /\ UNCHANGED <<entry, inflight>>

NetworkGoesOn == NetworkStep /\ UNCHANGED lifetime

LNext ==
  /\ Running
  /\ \/ Button \/ CloseWindow \/ CloseDisconnect \/ EraseConnection \/ EraseDevice
     \/ GuiGoesOn \/ IoGoesOn \/ NetworkGoesOn

LSpec == LInit /\ [][LNext]_lvars

-----------------------------------------------------------------------------
(***************************************************************************)
(* A destroyed device is used at most once, and only if a buffer was on    *)
(* its way when the close loop erased it, or disconnect() met the link     *)
(* while it came up and left it to itself; given that connect() had found  *)
(* the previous attempt drained.                                           *)
(***************************************************************************)
DeviceOutlivesUse == ~overlap => uses <= 1 /\ (uses = 1 => inflight \/ slipped)

-----------------------------------------------------------------------------
(***************************************************************************)
(* The inductive invariant behind DeviceOutlivesUse.                       *)
(***************************************************************************)

\* The close loop goes on only after disconnect() and keeps the gui thread.
InvLoop ==
  /\ entry \in Entry /\ uses \in Nat /\ inflight \in BOOLEAN
  /\ entry \in {"connection_gone", "closed"} => pc["gui"] = "released"
  /\ entry # "closed" => uses = 0

\* A read that can still bring a buffer.
ReadUnderWay ==
  reads # 0 \/ (Queued("read") /\ ~ready[1].err) \/ pc["io"] \in {"start_read", "deliver", "check_run"}

\* Where there is one, the link is reported, or being closed, or closed.
InvReads ==
  ReadUnderWay => is_connected \/ pc["gui"] \in {"stop", "close"} \/ (socket = "closed" /\ reads = 0)

\* After the close only what was on its way can still be handed over.
InvUses ==
  /\ ~slipped /\ entry = "closed" /\ OnItsWay => inflight
  /\ ~slipped /\ uses # 0 => inflight
  /\ uses <= late

LInv == InvLoop /\ (~overlap => InvReads /\ InvUses)
=============================================================================

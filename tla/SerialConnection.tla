-------------------------- MODULE SerialConnection --------------------------
(***************************************************************************)
(* connection::Serial (src/app/src/connection/serial_connection.cpp):      *)
(* connect(), applyOptions() and disconnect() as the gui thread calls them *)
(* from SerialConnectionWin.  open() ends with applyOptions(), which on an *)
(* open port calls open(): the stack alternates between the two, and is    *)
(* kept as the number of its frames and the call at its bottom.            *)
(***************************************************************************)
EXTENDS Naturals

CONSTANT StackFrames  \* frames of open() and applyOptions() the stack holds

VARIABLES
  is_open,  \* serial_.is_open()
  frames,   \* frames of open() and applyOptions() on the stack
  caller,   \* the call at the bottom of the stack: "none", "connect" or "apply"
  pc,       \* where the function at its top is: "idle", "open", "apply", "set", "overflowed"
  reads     \* async_read_some operations under way

vars == <<is_open, frames, caller, pc, reads>>

Init ==
  /\ is_open = FALSE
  /\ frames = 0
  /\ caller = "none"
  /\ pc = "idle"
  /\ reads = 0

-----------------------------------------------------------------------------
\* The Connect button is drawn when the port is closed.
Connect ==
  /\ pc = "idle" /\ ~is_open
  /\ caller' = "connect"
  /\ frames' = 1
  /\ pc' = "open"
  /\ UNCHANGED <<is_open, reads>>

\* The "Apply options" button.
Apply ==
  /\ pc = "idle"
  /\ caller' = "apply"
  /\ frames' = 1
  /\ pc' = "apply"
  /\ UNCHANGED <<is_open, reads>>

\* The Disconnect button is drawn when the port is open; cancel() ends its read,
\* whose handler only logs the error.
Disconnect ==
  /\ pc = "idle" /\ is_open
  /\ is_open' = FALSE
  /\ reads' = 0
  /\ UNCHANGED <<frames, caller, pc>>

-----------------------------------------------------------------------------
\* An exception unwinds the stack; the window shows its text.
Throw ==
  /\ frames' = 0
  /\ caller' = "none"
  /\ pc' = "idle"
  /\ UNCHANGED <<is_open, reads>>

\* A call to f needs one more frame.
Enter(f) ==
  /\ IF frames < StackFrames
       THEN frames' = frames + 1 /\ pc' = f
       ELSE frames' = frames /\ pc' = "overflowed"
  /\ UNCHANGED caller

\* open(): opens a port that is closed, which throws if it is missing or in use,
\* and goes on to applyOptions().
Open ==
  /\ pc = "open"
  /\ \/ is_open' = TRUE /\ Enter("apply") /\ UNCHANGED reads
     \/ ~is_open /\ Throw

\* applyOptions(): an open port is closed, with its read, and opened again.
Reopen ==
  /\ pc = "apply" /\ is_open
  /\ is_open' = FALSE
  /\ reads' = 0
  /\ Enter("open")

\* applyOptions(): a port that was closed when it was called stays as it is.
SkipReopen ==
  /\ pc = "apply" /\ ~is_open
  /\ pc' = "set"
  /\ UNCHANGED <<is_open, frames, caller, reads>>

\* applyOptions() returns, and with it the open() that called it: to the
\* applyOptions() below, to connect(), which starts to read, or to the window.
Return ==
  /\ UNCHANGED is_open
  /\ IF frames > 2
       THEN /\ frames' = frames - 2
            /\ UNCHANGED <<caller, pc, reads>>
       ELSE /\ frames' = 0
            /\ caller' = "none"
            /\ pc' = "idle"
            /\ reads' = IF caller = "connect" THEN reads + 1 ELSE reads

\* The five set_option calls: on a closed port they fail with a bad descriptor,
\* on an open one the device may refuse a value.
SetOptions ==
  /\ pc = "set"
  /\ \/ is_open /\ Return
     \/ Throw

\* handleRead on the io thread: data starts the next read, an error does not.
ReadFails ==
  /\ reads > 0
  /\ reads' = reads - 1
  /\ UNCHANGED <<is_open, frames, caller, pc>>

\* The process has ended.
Overflowed == pc = "overflowed" /\ UNCHANGED vars

Step == Open \/ Reopen \/ SkipReopen \/ SetOptions

Next == Connect \/ Apply \/ Disconnect \/ Step \/ ReadFails \/ Overflowed

Spec == Init /\ [][Next]_vars

\* A call that is under way runs on.
FairSpec == Spec /\ WF_vars(Step)

-----------------------------------------------------------------------------
(***************************************************************************)
(* README.adoc:14, "This program can be used to view the output of serial  *)
(* ports": connect() on a port that opens ends, with the port read or with *)
(* an error in the window.                                                 *)
(***************************************************************************)
ConnectEnds == (caller = "connect") ~> (pc = "idle")
=============================================================================

--------------------------- MODULE DeviceManager ---------------------------
(***************************************************************************)
(* gui::DeviceManager (src/app/src/gui/device_manager.cpp): three maps     *)
(* from a connection's identifier to its device, its connection and its    *)
(* window, changed by the gui thread one map at a time, while the io       *)
(* thread walks devices_ on every idle tick and hands received buffers to  *)
(* a device.  A device is known by its number, counted from 1; a map holds *)
(* the number of the device that the entry was built for, 0 for no entry.  *)
(***************************************************************************)
EXTENDS Naturals, FiniteSets

CONSTANTS
  Id,       \* identifiers of connections
  NoId,     \* no identifier
  MaxAdds,  \* bound: devices created
  MaxCalls  \* bound: additions, closes and connects of the user

ASSUME NoIdAssumption == NoId \notin Id
ASSUME MaxAddsAssumption == MaxAdds \in Nat
ASSUME MaxCallsAssumption == MaxCalls \in Nat

VARIABLES
  devices, connections, windows,  \* devices_, connections_, windows_
  made,         \* devices created so far
  hooked,       \* devices whose signal has a slot into a window
  running,      \* devices whose connection reads
  queued,       \* devices with a buffer in the queue of io_context_
  gui,          \* where the gui thread is
  arg,          \* the identifier it works on
  from_recents, \* inside drawOpenRecent, which holds recent_cons_mtx_ shared
  io,           \* where the io thread is
  cursor,       \* the entry of devices_ the idle tick is at
  visited,      \* entries this tick is done with
  lost,         \* the entry the tick is at was erased under it
  armed,        \* io_idle_timer_ has a waiting handler
  stopped,      \* io_context_ is stopped
  should_stop,  \* should_stop_
  calls,        \* user calls so far
  raced,        \* history: a device went while a tick or a buffer could reach
                \* it, or a connection went that disconnect() left running
  fault         \* history: the io thread used a destroyed device or window

maps    == <<devices, connections, windows, made, hooked>>
traffic == <<running, queued>>
walk    == <<cursor, visited, lost>>
iovars  == <<io, walk, armed, stopped, fault>>
vars    == <<maps, traffic, gui, arg, from_recents, iovars, should_stop, calls, raced>>

Device == 1..MaxAdds
Null   == MaxAdds + 1  \* an entry that holds a null pointer
Empty  == [id \in Id |-> 0]

In(map) == {map[id] : id \in Id} \ {0, Null}
Erase(map, id) == [map EXCEPT ![id] = 0]

\* The constructor after its initialisers: the io thread already runs.
Init ==
  /\ devices = Empty /\ connections = Empty /\ windows = Empty
  /\ made = 0 /\ hooked = {} /\ running = {} /\ queued = {}
  /\ gui = "construct" /\ arg = NoId /\ from_recents = FALSE
  /\ io = "loop" /\ cursor = NoId /\ visited = {} /\ lost = FALSE
  /\ armed = FALSE /\ stopped = FALSE /\ should_stop = FALSE
  /\ calls = 0 /\ raced = FALSE /\ fault = FALSE

-----------------------------------------------------------------------------
(***************************************************************************)
(* The gui thread: constructor, add*Connection, drawMenu, destructor.      *)
(***************************************************************************)

\* refreshRecents() in the constructor; a file that does not parse throws,
\* past the joinable io_thread_.
ConstructRecents ==
  /\ gui = "construct"
  /\ gui' \in {"arm", "terminated"}
  /\ UNCHANGED <<maps, traffic, arg, from_recents, iovars, should_stop, calls, raced>>

\* startIdleTimer() on the gui thread.
ConstructTimer ==
  /\ gui = "arm"
  /\ armed' = ~should_stop
  /\ gui' = "idle"
  /\ UNCHANGED <<maps, traffic, arg, from_recents, io, walk, stopped, fault,
                 should_stop, calls, raced>>

Call(id, label) ==
  /\ gui = "idle" /\ calls < MaxCalls
  /\ calls' = calls + 1
  /\ arg' = id
  /\ gui' = label
  /\ UNCHANGED <<maps, traffic, iovars, should_stop, raced>>

\* From the dialog, or from "open recent" under the shared lock.
Add(id, recents) ==
  /\ made < MaxAdds
  /\ Call(id, "check")
  /\ from_recents' = recents

\* The call returns, and drawOpenRecent releases its lock.
AddReturns == gui' = "idle" /\ arg' = NoId /\ from_recents' = FALSE

\* Mutant: duplicates are looked up after the device is created.
CheckForgotten ==
  /\ gui = "check"
  /\ gui' = "device"
  /\ UNCHANGED <<maps, traffic, arg, from_recents, iovars, should_stop, calls, raced>>

CheckDuplicate ==
  /\ gui = "check"
  /\ \/ connections[arg] # 0 /\ AddReturns
     \/ connections[arg] = 0 /\ gui' = "device" /\ UNCHANGED <<arg, from_recents>>
  /\ UNCHANGED <<maps, traffic, iovars, should_stop, calls, raced>>

\* devices_[identifier] = make_unique<DeviceConnection>(): operator[] inserts
\* a null pointer, then the assignment puts the device in its place.
InsertDevice ==
  /\ gui = "device"
  /\ devices' = IF devices[arg] = 0 THEN [devices EXCEPT ![arg] = Null] ELSE devices
  /\ gui' = "assign"
  /\ UNCHANGED <<connections, windows, made, hooked, traffic, arg, from_recents, iovars,
                 should_stop, calls, raced>>

AssignDevice ==
  /\ gui = "assign"
  /\ made' = made + 1
  /\ devices' = [devices EXCEPT ![arg] = made + 1]
  /\ gui' = "options"
  /\ UNCHANGED <<connections, windows, hooked, traffic, arg, from_recents, iovars, should_stop,
                 calls, raced>>

Ticking == io \in {"tick", "visit"}

\* devices_.erase(arg): an iterator at the entry dangles.
EraseDevice ==
  /\ devices' = Erase(devices, arg)
  /\ lost' = (lost \/ (Ticking /\ cursor = arg))
  /\ raced' = (raced \/ Ticking \/ devices[arg] \in queued)

\* Mutant: the catch block keeps the device.
SetOptionsKeepsDevice ==
  /\ gui = "options"
  /\ \/ gui' = "window" /\ UNCHANGED <<arg, from_recents>>
     \/ AddReturns
  /\ UNCHANGED <<maps, traffic, iovars, should_stop, calls, raced>>

\* setOption and applyOptions may throw: the device is taken back.
SetOptions ==
  /\ gui = "options"
  /\ \/ gui' = "window" /\ UNCHANGED <<devices, lost, raced, arg, from_recents>>
     \/ EraseDevice /\ AddReturns
  /\ UNCHANGED <<connections, windows, made, hooked, traffic, io, cursor, visited, armed, stopped,
                 fault, should_stop, calls>>

\* Mutant: "open recent" adds its entry to the recent connections again.
MakeWindowAlwaysSaves ==
  /\ gui = "window"
  /\ hooked' = hooked \cup {devices[arg]}
  /\ windows' = IF windows[arg] = 0 THEN [windows EXCEPT ![arg] = devices[arg]] ELSE windows
  /\ gui' = "save"
  /\ UNCHANGED <<devices, connections, made, traffic, arg, from_recents, iovars, should_stop,
                 calls, raced>>

\* windows_.emplace keeps an entry it finds; the window hooks its slot anyway.
MakeWindow ==
  /\ gui = "window"
  /\ hooked' = hooked \cup {devices[arg]}
  /\ windows' = IF windows[arg] = 0 THEN [windows EXCEPT ![arg] = devices[arg]] ELSE windows
  /\ gui' = IF from_recents THEN "publish" ELSE "save"
  /\ UNCHANGED <<devices, connections, made, traffic, arg, from_recents, iovars, should_stop,
                 calls, raced>>

\* addRecentConnection; an exception leaves the main loop.
SaveRecent ==
  /\ gui = "save"
  /\ gui' \in {"refresh", "terminated"}
  /\ UNCHANGED <<maps, traffic, arg, from_recents, iovars, should_stop, calls, raced>>

\* refreshRecents takes recent_cons_mtx_ alone: it waits for the shared lock.
RefreshRecents ==
  /\ gui = "refresh"
  /\ ~from_recents
  /\ gui' \in {"publish", "terminated"}
  /\ UNCHANGED <<maps, traffic, arg, from_recents, iovars, should_stop, calls, raced>>

Publish ==
  /\ gui = "publish"
  /\ connections' = IF connections[arg] = 0 THEN [connections EXCEPT ![arg] = devices[arg]]
                                            ELSE connections
  /\ AddReturns
  /\ UNCHANGED <<devices, windows, made, hooked, traffic, iovars, should_stop, calls, raced>>

\* The window's Connect button: the connection starts to read.
ConnectDevice(id) ==
  /\ connections[id] # 0
  /\ gui = "idle" /\ calls < MaxCalls
  /\ calls' = calls + 1
  /\ running' = running \cup {connections[id]}
  /\ UNCHANGED <<maps, queued, gui, arg, from_recents, iovars, should_stop, raced>>

\* "Close Connection" in the menu, which lists windows_.
CloseWindow(id) ==
  /\ windows[id] # 0
  /\ gui = "idle" /\ calls < MaxCalls
  /\ calls' = calls + 1
  /\ arg' = id
  /\ windows' = Erase(windows, id)
  /\ gui' = "disconnect"
  /\ UNCHANGED <<devices, connections, made, hooked, traffic, from_recents, iovars, should_stop,
                 raced>>

\* Mutant: the connection is dropped without disconnect().
CloseDisconnectForgotten ==
  /\ gui = "disconnect"
  /\ gui' = "drop_connection"
  /\ UNCHANGED <<maps, traffic, arg, from_recents, iovars, should_stop, calls, raced>>

\* disconnect() in the middle of an attempt may leave its link up (see
\* ConnectionLifetime, which models the connection in full).
CloseDisconnect ==
  /\ gui = "disconnect"
  /\ running' \in {running, running \ {connections[arg]}}
  /\ raced' = (raced \/ connections[arg] \in running')
  /\ gui' = "drop_connection"
  /\ UNCHANGED <<maps, queued, arg, from_recents, iovars, should_stop, calls>>

CloseConnection ==
  /\ gui = "drop_connection"
  /\ connections' = Erase(connections, arg)
  /\ gui' = "drop_device"
  /\ UNCHANGED <<devices, windows, made, hooked, traffic, arg, from_recents, iovars, should_stop,
                 calls, raced>>

CloseDevice ==
  /\ gui = "drop_device"
  /\ EraseDevice
  /\ arg' = NoId /\ gui' = "idle"
  /\ UNCHANGED <<connections, windows, made, hooked, traffic, from_recents, io, cursor, visited,
                 armed, stopped, fault, should_stop, calls>>

\* ~DeviceManager
Quit ==
  /\ gui = "idle"
  /\ should_stop' = TRUE
  /\ gui' = "disconnect_all"
  /\ UNCHANGED <<maps, traffic, arg, from_recents, iovars, calls, raced>>

DisconnectAll ==
  /\ gui = "disconnect_all"
  /\ running' \in SUBSET running
  /\ gui' = "stop_context"
  /\ UNCHANGED <<maps, queued, arg, from_recents, iovars, should_stop, calls, raced>>

StopContext ==
  /\ gui = "stop_context"
  /\ stopped' = TRUE
  /\ gui' = "join"
  /\ UNCHANGED <<maps, traffic, arg, from_recents, io, walk, armed, fault, should_stop,
                 calls, raced>>

Join ==
  /\ gui = "join" /\ io = "exited"
  /\ gui' = "closed"
  /\ UNCHANGED <<maps, traffic, arg, from_recents, iovars, should_stop, calls, raced>>

GuiCall == \E id \in Id :
  \/ \E recents \in BOOLEAN : Add(id, recents)
  \/ ConnectDevice(id)
  \/ CloseWindow(id)

GuiStep ==
  \/ ConstructRecents \/ ConstructTimer
  \/ CheckDuplicate \/ InsertDevice \/ AssignDevice \/ SetOptions \/ MakeWindow
  \/ SaveRecent \/ RefreshRecents \/ Publish
  \/ CloseDisconnect \/ CloseConnection \/ CloseDevice
  \/ DisconnectAll \/ StopContext \/ Join

-----------------------------------------------------------------------------
(***************************************************************************)
(* The io thread: ioThread, the idle timer's handler and received data.    *)
(***************************************************************************)
guivars == <<gui, arg, from_recents, should_stop, calls, raced>>

\* processData on a device: its slots run, into the window if it is hooked.
Touch(d) == fault' = (fault \/ d \notin In(devices) \/ (d \in hooked /\ d \notin In(windows)))

IoLoop ==
  /\ io = "loop"
  /\ io' = IF should_stop THEN "exited" ELSE "run"
  /\ UNCHANGED <<maps, traffic, guivars, walk, armed, stopped, fault>>

\* Asynchronous operations under way keep run() from returning.
Work == armed \/ running # {} \/ queued # {}

\* run() returns: the context is stopped, or has no work and stops itself.
\* Nothing ever calls restart().
RunReturns ==
  /\ io = "run"
  /\ stopped \/ ~Work
  /\ stopped' = TRUE
  /\ io' = "sleep"
  /\ UNCHANGED <<maps, traffic, guivars, walk, armed, fault>>

IoSleep ==
  /\ io = "sleep"
  /\ io' = "loop"
  /\ UNCHANGED <<maps, traffic, guivars, walk, armed, stopped, fault>>

\* The timer expires and its handler starts to walk devices_.
TickBegins ==
  /\ io = "run" /\ ~stopped /\ armed
  /\ armed' = FALSE
  /\ io' = "tick"
  /\ UNCHANGED <<maps, traffic, guivars, walk, stopped, fault>>

\* The iterator moves on; it may pass over what is inserted meanwhile.
TickNext ==
  /\ io = "tick"
  /\ \E id \in Id \ visited : devices[id] # 0 /\ cursor' = id /\ visited' = visited \cup {id}
  /\ fault' = (fault \/ lost) /\ lost' = FALSE
  /\ io' = "visit"
  /\ UNCHANGED <<maps, traffic, guivars, armed, stopped>>

TickVisit ==
  /\ io = "visit"
  /\ IF lost THEN fault' = TRUE ELSE Touch(devices[cursor])
  /\ io' = "tick"
  /\ UNCHANGED <<maps, traffic, guivars, walk, armed, stopped>>

\* The iterator reaches the end.
WalkEnds ==
  /\ io = "tick"
  /\ \A id \in Id \ visited : devices[id] = 0
  /\ fault' = (fault \/ lost) /\ lost' = FALSE
  /\ cursor' = NoId /\ visited' = {}
  /\ io' = "run"
  /\ UNCHANGED <<maps, traffic, guivars, stopped>>

\* Mutant: the handler does not wait again.
TickEndsForgetsTimer == WalkEnds /\ UNCHANGED armed

\* startIdleTimer() at the end of the handler.
TickEnds == WalkEnds /\ armed' = ~should_stop

\* handleRead hands a buffer to the device it was built with.
Deliver ==
  /\ io = "run" /\ ~stopped
  /\ \E d \in queued : Touch(d) /\ queued' = queued \ {d}
  /\ UNCHANGED <<maps, running, guivars, io, walk, armed, stopped>>

IoStep == IoLoop \/ RunReturns \/ IoSleep \/ TickBegins \/ TickNext \/ TickVisit \/ TickEnds \/ Deliver

\* A read or an attempt fails: the handler disconnects and starts nothing new.
LinkEnds ==
  /\ io = "run" /\ ~stopped
  /\ \E d \in running : running' = running \ {d}
  /\ UNCHANGED <<maps, queued, guivars, iovars>>

\* The kernel completes a read.
Arrive ==
  /\ \E d \in running : queued' = queued \cup {d}
  /\ UNCHANGED <<maps, running, guivars, iovars>>

Running == gui \notin {"closed", "terminated"}

\* The process has ended.
Ended == ~Running /\ UNCHANGED vars

Next == (Running /\ (GuiCall \/ Quit \/ GuiStep \/ IoStep \/ LinkEnds \/ Arrive)) \/ Ended

Spec == Init /\ [][Next]_vars

\* Both threads are scheduled; the timer expires; queued handlers are not
\* passed over forever (the queue of io_context_ is first in, first out).
FairSpec ==
  /\ Spec
  /\ WF_vars(Running /\ GuiStep)
  /\ WF_vars(Running /\ IoStep)
  /\ SF_vars(Running /\ TickBegins)

-----------------------------------------------------------------------------
AddStates == {"check", "device", "assign", "options", "window", "save", "refresh", "publish"}
CloseStates == {"disconnect", "drop_connection", "drop_device"}
OtherStates == {"construct", "arm", "idle", "disconnect_all", "stop_context", "join", "closed",
                "terminated"}

MapsOK ==
  /\ devices \in [Id -> 0..Null] /\ connections \in [Id -> 0..MaxAdds]
  /\ windows \in [Id -> 0..MaxAdds] /\ made \in 0..MaxAdds
  /\ hooked \subseteq Device /\ running \subseteq Device /\ queued \subseteq Device

GuiOK ==
  /\ gui \in AddStates \cup CloseStates \cup OtherStates
  /\ arg \in Id \cup {NoId}
  /\ gui \in AddStates \cup CloseStates => arg \in Id
  /\ from_recents \in BOOLEAN
  /\ from_recents => gui \in AddStates \ {"save", "refresh"}
  /\ calls \in 0..MaxCalls
  /\ should_stop \in BOOLEAN /\ raced \in BOOLEAN

IoOK ==
  /\ io \in {"loop", "run", "sleep", "tick", "visit", "exited"}
  /\ cursor \in Id \cup {NoId} /\ visited \subseteq Id
  /\ io = "visit" => cursor \in Id
  /\ armed \in BOOLEAN /\ stopped \in BOOLEAN
  /\ lost \in BOOLEAN /\ fault \in BOOLEAN

\* The types of the variables; the lock of drawOpenRecent is never held when
\* the recent connections are written.
TypeOK == MapsOK /\ GuiOK /\ IoOK

(***************************************************************************)
(* Between two calls the three maps have the same identifiers, and the     *)
(* connection and the window of an identifier are those of its device,     *)
(* after every mix of duplicates, failing options and closes.              *)
(***************************************************************************)
RegistryConsistent ==
  gui = "idle" => \A id \in Id : connections[id] = devices[id] /\ windows[id] = devices[id]

(***************************************************************************)
(* The io thread uses a destroyed device or window, or a null device, only *)
(* while the gui thread is inserting or closing, or after it destroyed a   *)
(* device that a tick or a received buffer could still reach: a close that *)
(* meets neither leaves nothing behind that bites later.                   *)
(***************************************************************************)
FaultNeedsRace == [][~fault /\ fault' => raced \/ gui \in {"assign"} \cup CloseStates]_vars

(***************************************************************************)
(* Once construction is over, io_context_ does not run out of work before  *)
(* the application quits: the idle tick always waits again.                *)
(***************************************************************************)
NoEarlyStop == [][~stopped /\ stopped' => should_stop \/ gui \in {"construct", "arm"}]_vars

(***************************************************************************)
(* The gui thread always comes back to its main loop, or the process ends: *)
(* it neither waits for its own lock on the recent connections nor, when   *)
(* it quits, for an io thread that does not exit.                          *)
(***************************************************************************)
GuiReturns == []<>(gui \in {"idle", "closed", "terminated"})

(***************************************************************************)
(* Once the idle timer waits on a context that is not stopped, ticks recur *)
(* until the application quits: none is the last, and received buffers do  *)
(* not keep the tick from its turn.                                        *)
(***************************************************************************)
TickRecurs == [](armed /\ ~stopped => []<>(io = "tick" \/ should_stop \/ ~Running))

(***************************************************************************)
(* README.adoc:14, "This program can be used to view the output of serial  *)
(* ports": the io thread serves handlers for as long as the program runs.  *)
(***************************************************************************)
IoServes == []<>(io = "tick" \/ should_stop \/ ~Running)
=============================================================================

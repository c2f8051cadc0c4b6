------------------------ MODULE DeviceManagerProofs ------------------------
(***************************************************************************)
(* Proofs about DeviceManager for any identifiers and any bounds: the maps *)
(* agree between two calls, and the io thread needs a race to go wrong.    *)
(***************************************************************************)
EXTENDS DeviceManager, TLAPS

USE NoIdAssumption, MaxAddsAssumption, MaxCallsAssumption

Agree(id) == connections[id] = devices[id] /\ windows[id] = devices[id]

\* What the maps hold for the identifier the gui thread works on.
AtWork ==
  /\ gui = "check" => Agree(arg)
  /\ gui = "device" => devices[arg] = 0
  /\ gui = "assign" => devices[arg] = Null
  /\ gui \in {"options", "window"} => devices[arg] \in Device \ hooked
  /\ gui \in {"save", "refresh", "publish"} =>
       devices[arg] \in Device /\ windows[arg] = devices[arg]
  /\ gui \in {"device", "assign", "options", "window"} => windows[arg] = 0
  /\ gui \in AddStates \ {"check"} => connections[arg] = 0
  /\ gui \in CloseStates => windows[arg] = 0
  /\ gui \in {"disconnect", "drop_connection"} => connections[arg] = devices[arg]
  /\ gui = "drop_connection" => raced \/ connections[arg] \notin running
  /\ gui = "drop_device" => connections[arg] = 0
  /\ gui \in {"check", "device", "assign"} => made < MaxAdds

\* The registry: the maps agree but for the identifier at work.
Registry ==
  /\ gui # "terminated" => \A id \in Id : Agree(id) \/ (gui \in AddStates \cup CloseStates /\ id = arg)
  /\ \A id \in Id : devices[id] = Null => gui = "assign" /\ id = arg
  /\ AtWork

\* No entry and no slot is for a device that was not made yet.
Numbered ==
  /\ hooked \subseteq 1..made
  /\ \A id \in Id : devices[id] \in 0..made \cup {Null}

\* The io thread: what it can reach exists as long as nothing raced.
Reach ==
  /\ Numbered
  /\ ~raced => running \subseteq In(connections)
  /\ lost => raced
  /\ ~raced => queued \subseteq In(devices)
  /\ ~raced /\ io = "visit" => devices[cursor] # 0

\* The idle timer waits or its handler runs, once construction is over; only
\* the destructor stops the context.
Wakes ==
  /\ gui \notin {"construct", "arm", "terminated"} /\ ~stopped /\ ~should_stop => armed \/ Ticking
  /\ gui \in {"disconnect_all", "stop_context", "join"} => should_stop

IInv == TypeOK /\ Registry /\ Reach /\ Wakes
-----------------------------------------------------------------------------

\* Every step preserves the types of the maps and of the numbers in them.
LEMMA MapsTypeStep ==
  ASSUME IInv, Next
  PROVE  MapsOK'
<1>0. /\ MapsOK /\ (gui \in AddStates \cup CloseStates => arg \in Id)
      /\ gui = "assign" => made < MaxAdds
      /\ gui \in {"window", "publish"} => devices[arg] \in Device
  BY DEF IInv, TypeOK, GuiOK, Registry, AtWork, AddStates
<1>w. /\ gui \in {"device", "assign", "options", "window", "publish"} => arg \in Id
      /\ gui \in CloseStates => arg \in Id
  BY <1>0 DEF AddStates
<1> USE DEF MapsOK, Device, Null, Erase
<1>1. CASE \E id \in Id : ConnectDevice(id)
  <2>1. PICK id \in Id : ConnectDevice(id)
    BY <1>1
  <2>2. connections[id] \in Device
    BY <1>0, <2>1 DEF ConnectDevice
  <2>3. running' \subseteq Device
    BY <1>0, <2>1, <2>2 DEF ConnectDevice
  <2> QED
    BY <1>0, <2>1, <2>3 DEF ConnectDevice, maps
<1>2. CASE \E id \in Id : CloseWindow(id)
  BY <1>0, <1>2 DEF CloseWindow, traffic
<1>3. CASE InsertDevice
  BY <1>0, <1>w, <1>3 DEF InsertDevice, traffic
<1>4. CASE AssignDevice
  BY <1>0, <1>w, <1>4 DEF AssignDevice, traffic
<1>5. CASE SetOptions \/ CloseDevice
  <2>1. devices' \in [Id -> 0..Null]
    BY <1>0, <1>5 DEF SetOptions, CloseDevice, EraseDevice
  <2> QED
    BY <1>0, <1>5, <2>1 DEF SetOptions, CloseDevice, traffic
<1>6. CASE MakeWindow
  <2>1. arg \in Id /\ devices[arg] \in Device
    BY <1>0, <1>w, <1>6 DEF MakeWindow
  <2>4. hooked' = hooked \cup {devices[arg]}
        /\ windows' \in {windows, [windows EXCEPT ![arg] = devices[arg]]}
    BY <1>6 DEF MakeWindow
  <2>5. hooked' \subseteq Device
    BY <1>0, <2>1, <2>4
  <2>6. devices[arg] \in 0..MaxAdds
    BY <2>1
  <2>2. windows' \in [Id -> 0..MaxAdds]
    <3> HIDE DEF Device, Null, Erase
    <3> QED
      BY <1>0, <2>1, <2>4, <2>6
  <2>3. UNCHANGED <<devices, connections, made, running, queued>>
    BY <1>6 DEF MakeWindow, traffic
  <2> QED
    BY <1>0, <2>2, <2>3, <2>5
<1>7. CASE Publish
  <2>1. arg \in Id /\ devices[arg] \in Device
    BY <1>0, <1>w, <1>7 DEF Publish
  <2> QED
    BY <1>0, <1>7, <2>1 DEF Publish, traffic
<1>8. CASE CloseConnection
  BY <1>0, <1>w, <1>8 DEF CloseConnection, CloseStates, traffic
<1>9. CASE CloseDisconnect \/ DisconnectAll \/ LinkEnds
  <2>1. running' \subseteq running
    BY <1>9 DEF CloseDisconnect, DisconnectAll, LinkEnds
  <2> QED
    BY <1>0, <1>9, <2>1 DEF CloseDisconnect, DisconnectAll, LinkEnds, maps
<1>10. CASE Arrive \/ Deliver
  <2>1. queued' \subseteq running \cup queued
    BY <1>10 DEF Arrive, Deliver
  <2> QED
    BY <1>0, <1>10, <2>1 DEF Arrive, Deliver, maps
<1>11. CASE UNCHANGED <<maps, traffic>>
  BY <1>0, <1>11 DEF maps, traffic
<1>12. CASE \E id \in Id : \E r \in BOOLEAN : Add(id, r)
  BY <1>11, <1>12 DEF Add, Call
<1> HIDE DEF MapsOK, Device, Null, Erase
<1> QED
  BY <1>1, <1>2, <1>3, <1>4, <1>5, <1>6, <1>7, <1>8, <1>9, <1>10, <1>11, <1>12
  DEF Next, Ended, vars, GuiCall, GuiStep, IoStep, Quit, ConstructRecents, ConstructTimer,
      CheckDuplicate, SaveRecent, RefreshRecents, StopContext, Join, IoLoop, RunReturns, IoSleep,
      TickBegins, TickNext, TickVisit, TickEnds, WalkEnds

\* Every step preserves the types of the gui thread's variables.
LEMMA GuiTypeStep ==
  ASSUME GuiOK, Next
  PROVE  GuiOK'
<1> USE DEF GuiOK, AddStates, CloseStates, OtherStates
<1>1. CASE \E id \in Id : \E r \in BOOLEAN : Add(id, r)
  BY <1>1 DEF Add, Call
<1>2. CASE \E id \in Id : ConnectDevice(id)
  BY <1>2 DEF ConnectDevice
<1>3. CASE \E id \in Id : CloseWindow(id)
  BY <1>3 DEF CloseWindow
<1>4. CASE Quit
  BY <1>4 DEF Quit
<1>15. CASE ConstructRecents
  BY <1>15 DEF ConstructRecents
<1>16. CASE ConstructTimer
  BY <1>16 DEF ConstructTimer
<1>5. CASE CheckDuplicate
  BY <1>5 DEF CheckDuplicate, AddReturns
<1>6. CASE InsertDevice \/ AssignDevice
  BY <1>6 DEF InsertDevice, AssignDevice
<1>7. CASE SetOptions
  BY <1>7 DEF SetOptions, AddReturns, EraseDevice, Ticking
<1>8. CASE MakeWindow
  BY <1>8 DEF MakeWindow
<1>9. CASE SaveRecent \/ RefreshRecents
  BY <1>9 DEF SaveRecent, RefreshRecents
<1>10. CASE Publish
  BY <1>10 DEF Publish, AddReturns
<1>11. CASE CloseDisconnect
  <2>1. raced' \in BOOLEAN
    BY <1>11 DEF CloseDisconnect
  <2>2. gui = "disconnect" /\ gui' = "drop_connection"
        /\ UNCHANGED <<arg, from_recents, should_stop, calls>>
    BY <1>11 DEF CloseDisconnect
  <2> QED
    BY <2>1, <2>2
<1>17. CASE CloseConnection
  BY <1>17 DEF CloseConnection
<1>12. CASE CloseDevice
  BY <1>12 DEF CloseDevice, EraseDevice, Ticking
<1>13. CASE DisconnectAll \/ StopContext \/ Join
  BY <1>13 DEF DisconnectAll, StopContext, Join
<1>14. CASE UNCHANGED guivars
  BY <1>14 DEF guivars
<1> HIDE DEF GuiOK, AddStates, CloseStates, OtherStates
<1> QED
  BY <1>1, <1>2, <1>3, <1>4, <1>5, <1>6, <1>7, <1>8, <1>9, <1>10, <1>11, <1>12, <1>13, <1>14,
     <1>15, <1>16, <1>17
  DEF Next, Ended, vars, GuiCall, GuiStep, IoStep, IoLoop, RunReturns, IoSleep, TickBegins,
      TickNext, TickVisit, TickEnds, WalkEnds, Deliver, LinkEnds, Arrive, guivars

\* Every step preserves the types of the io thread's variables.
LEMMA IoTypeStep ==
  ASSUME IoOK, Next
  PROVE  IoOK'
<1> USE DEF IoOK
<1>1. CASE ConstructTimer \/ StopContext
  BY <1>1 DEF ConstructTimer, StopContext, walk
<1>2. CASE SetOptions \/ CloseDevice
  BY <1>2 DEF SetOptions, CloseDevice, EraseDevice, Ticking
<1>3. CASE IoLoop \/ RunReturns \/ IoSleep \/ TickBegins
  BY <1>3 DEF IoLoop, RunReturns, IoSleep, TickBegins, walk
<1>4. CASE TickNext
  BY <1>4 DEF TickNext
<1>5. CASE TickVisit
  BY <1>5 DEF TickVisit, Touch, walk
<1>6. CASE TickEnds
  BY <1>6 DEF TickEnds, WalkEnds
<1>7. CASE Deliver
  BY <1>7 DEF Deliver, Touch, walk
<1>8. CASE UNCHANGED iovars
  BY <1>8 DEF iovars, walk
<1> HIDE DEF IoOK
<1> QED
  BY <1>1, <1>2, <1>3, <1>4, <1>5, <1>6, <1>7, <1>8
  DEF Next, Ended, vars, GuiCall, GuiStep, IoStep, Add, Call, ConnectDevice, CloseWindow, Quit,
      ConstructRecents, CheckDuplicate, InsertDevice, AssignDevice, MakeWindow, SaveRecent,
      RefreshRecents, Publish, CloseDisconnect, CloseConnection, DisconnectAll, Join, LinkEnds,
      Arrive

LEMMA TypeStep ==
  ASSUME IInv, Next
  PROVE  TypeOK'
  BY MapsTypeStep, GuiTypeStep, IoTypeStep DEF IInv, TypeOK

\* Every step preserves what the maps hold.
LEMMA RegistryStep ==
  ASSUME IInv, Next
  PROVE  Registry'
<1> USE DEF IInv, TypeOK, MapsOK, GuiOK, IoOK, Registry, AtWork, Agree, Reach, Numbered, Device, Null, Empty, Erase, In, AddStates, CloseStates, OtherStates
<1>1. CASE \E id \in Id, r \in BOOLEAN : Add(id, r)
  BY <1>1 DEF Add, Call, vars, maps, traffic, walk, iovars, guivars
<1>2. CASE \E id \in Id : ConnectDevice(id)
  BY <1>2 DEF ConnectDevice, vars, maps, traffic, walk, iovars, guivars
<1>3. CASE \E id \in Id : CloseWindow(id)
  BY <1>3 DEF CloseWindow, vars, maps, traffic, walk, iovars, guivars
<1>4. CASE Quit
  BY <1>4 DEF Quit, vars, maps, traffic, walk, iovars, guivars
<1>5. CASE ConstructRecents
  BY <1>5 DEF ConstructRecents, vars, maps, traffic, walk, iovars, guivars
<1>6. CASE ConstructTimer
  BY <1>6 DEF ConstructTimer, vars, maps, traffic, walk, iovars, guivars
<1>7. CASE CheckDuplicate
  BY <1>7 DEF CheckDuplicate, AddReturns, vars, maps, traffic, walk, iovars, guivars
<1>8. CASE InsertDevice
  BY <1>8 DEF InsertDevice, vars, maps, traffic, walk, iovars, guivars
<1>9. CASE AssignDevice
  BY <1>9 DEF AssignDevice, vars, maps, traffic, walk, iovars, guivars
<1>10. CASE SetOptions
  BY <1>10 DEF SetOptions, AddReturns, EraseDevice, Ticking, vars, maps, traffic, walk, iovars, guivars
<1>11. CASE MakeWindow
  BY <1>11 DEF MakeWindow, vars, maps, traffic, walk, iovars, guivars
<1>12. CASE SaveRecent
  BY <1>12 DEF SaveRecent, vars, maps, traffic, walk, iovars, guivars
<1>13. CASE RefreshRecents
  BY <1>13 DEF RefreshRecents, vars, maps, traffic, walk, iovars, guivars
<1>14. CASE Publish
  BY <1>14 DEF Publish, AddReturns, vars, maps, traffic, walk, iovars, guivars
<1>15. CASE CloseDisconnect
  BY <1>15 DEF CloseDisconnect, vars, maps, traffic, walk, iovars, guivars
<1>16. CASE CloseConnection
  BY <1>16 DEF CloseConnection, vars, maps, traffic, walk, iovars, guivars
<1>17. CASE CloseDevice
  BY <1>17 DEF CloseDevice, EraseDevice, Ticking, vars, maps, traffic, walk, iovars, guivars
<1>18. CASE DisconnectAll
  BY <1>18 DEF DisconnectAll, vars, maps, traffic, walk, iovars, guivars
<1>19. CASE StopContext
  BY <1>19 DEF StopContext, vars, maps, traffic, walk, iovars, guivars
<1>20. CASE Join
  BY <1>20 DEF Join, vars, maps, traffic, walk, iovars, guivars
<1>21. CASE IoLoop
  BY <1>21 DEF IoLoop, vars, maps, traffic, walk, iovars, guivars
<1>22. CASE RunReturns
  BY <1>22 DEF RunReturns, vars, maps, traffic, walk, iovars, guivars
<1>23. CASE IoSleep
  BY <1>23 DEF IoSleep, vars, maps, traffic, walk, iovars, guivars
<1>24. CASE TickBegins
  BY <1>24 DEF TickBegins, vars, maps, traffic, walk, iovars, guivars
<1>25. CASE TickNext
  BY <1>25 DEF TickNext, vars, maps, traffic, walk, iovars, guivars
<1>26. CASE TickVisit
  BY <1>26 DEF TickVisit, Touch, vars, maps, traffic, walk, iovars, guivars
<1>27. CASE TickEnds
  BY <1>27 DEF TickEnds, WalkEnds, vars, maps, traffic, walk, iovars, guivars
<1>28. CASE Deliver
  BY <1>28 DEF Deliver, Touch, vars, maps, traffic, walk, iovars, guivars
<1>29. CASE Arrive
  BY <1>29 DEF Arrive, vars, maps, traffic, walk, iovars, guivars
<1>30. CASE UNCHANGED vars
  BY <1>30 DEF vars, maps, traffic, walk, iovars, guivars
<1>31. CASE LinkEnds
  BY <1>31 DEF LinkEnds, vars, maps, traffic, walk, iovars, guivars
<1> QED
  BY <1>1, <1>2, <1>3, <1>4, <1>5, <1>6, <1>7, <1>8, <1>9, <1>10, <1>11, <1>12, <1>13, <1>14, <1>15, <1>16, <1>17, <1>18, <1>19, <1>20, <1>21, <1>22, <1>23, <1>24, <1>25, <1>26, <1>27, <1>28, <1>29, <1>30, <1>31 DEF Next, Ended, GuiCall, GuiStep, IoStep

\* Every step keeps the numbers of devices within those handed out.
LEMMA NumberedStep ==
  ASSUME IInv, Next
  PROVE  Numbered'
<1>0. /\ Numbered /\ made \in 0..MaxAdds /\ MaxAdds \in Nat /\ devices \in [Id -> 0..Null]
      /\ gui \in {"device", "assign", "options", "window"} \cup CloseStates => arg \in Id
      /\ gui = "window" => devices[arg] \in Device
  BY MaxAddsAssumption DEF IInv, TypeOK, MapsOK, GuiOK, Reach, Registry, AtWork, AddStates
<1> USE DEF Numbered, Device, Null
<1>1. CASE InsertDevice
  BY <1>0, <1>1 DEF InsertDevice
<1>2. CASE AssignDevice
  BY <1>0, <1>2 DEF AssignDevice
<1>3. CASE SetOptions \/ CloseDevice
  <2>1. made' = made /\ hooked' = hooked
    BY <1>3 DEF SetOptions, CloseDevice
  <2>2. \A id \in Id : devices'[id] \in {devices[id], 0}
    BY <1>0, <1>3 DEF SetOptions, CloseDevice, EraseDevice, Erase
  <2> QED
    BY <1>0, <2>1, <2>2
<1>4. CASE MakeWindow
  <2>1. devices[arg] \in 1..made
    BY <1>0, <1>4 DEF MakeWindow
  <2> QED
    BY <1>0, <1>4, <2>1 DEF MakeWindow
<1>5. CASE UNCHANGED <<devices, made, hooked>>
  BY <1>0, <1>5
<1> HIDE DEF Numbered, Device, Null
<1> QED
  BY <1>1, <1>2, <1>3, <1>4, <1>5
  DEF Next, Ended, vars, maps, GuiCall, GuiStep, IoStep, Add, Call, ConnectDevice, CloseWindow,
      Quit, ConstructRecents, ConstructTimer, CheckDuplicate, SaveRecent, RefreshRecents, Publish,
      CloseDisconnect, CloseConnection, DisconnectAll, StopContext, Join, IoLoop, RunReturns,
      IoSleep, TickBegins, TickNext, TickVisit, TickEnds, WalkEnds, Deliver, LinkEnds, Arrive

\* Every step but a race keeps what runs among the connections.
LEMMA RunningStep ==
  ASSUME IInv, Next, ~raced'
  PROVE  running' \subseteq In(connections)'
<1>1. ~raced
  BY DEF IInv, Next, Ended, vars, GuiCall, GuiStep, IoStep, Add, Call, ConnectDevice, CloseWindow,
      Quit, ConstructRecents, ConstructTimer, CheckDuplicate, InsertDevice, AssignDevice,
      SetOptions, EraseDevice, MakeWindow, SaveRecent, RefreshRecents, Publish, CloseDisconnect,
      CloseConnection, CloseDevice, DisconnectAll, StopContext, Join, IoLoop, RunReturns, IoSleep,
      TickBegins, TickNext, TickVisit, TickEnds, WalkEnds, Deliver, LinkEnds, Arrive, guivars
<1>2. /\ running \subseteq In(connections) /\ connections \in [Id -> 0..MaxAdds]
      /\ gui \in {"publish"} \cup CloseStates => arg \in Id
      /\ gui = "drop_connection" => connections[arg] \notin running
  BY <1>1 DEF IInv, TypeOK, MapsOK, GuiOK, Reach, Registry, AtWork, AddStates
<1>3. CASE \E id \in Id : ConnectDevice(id)
  <2>1. PICK id \in Id : ConnectDevice(id)
    BY <1>3
  <2>2. connections[id] \in In(connections)
    BY <1>2, <2>1, MaxAddsAssumption DEF ConnectDevice, In, Null
  <2> QED
    BY <1>2, <2>1, <2>2 DEF ConnectDevice, maps
<1>4. CASE Publish
  <2>1. \A id \in Id : connections[id] # 0 => connections'[id] = connections[id]
    BY <1>2, <1>4 DEF Publish
  <2> QED
    BY <1>2, <1>4, <2>1 DEF Publish, In, traffic
<1>5. CASE CloseConnection
  <2>1. \A id \in Id : id # arg => connections'[id] = connections[id]
    BY <1>2, <1>5 DEF CloseConnection, Erase
  <2> QED
    BY <1>2, <1>5, <2>1 DEF CloseConnection, In, traffic
<1>6. CASE running' \subseteq running /\ connections' = connections
  BY <1>2, <1>6 DEF In
<1> QED
  BY <1>3, <1>4, <1>5, <1>6
  DEF Next, Ended, vars, maps, traffic, GuiCall, GuiStep, IoStep, Add, Call, CloseWindow,
      Quit, ConstructRecents, ConstructTimer, CheckDuplicate, InsertDevice, AssignDevice,
      SetOptions, EraseDevice, MakeWindow, SaveRecent, RefreshRecents, CloseDisconnect,
      CloseDevice, DisconnectAll, StopContext, Join, IoLoop, RunReturns, IoSleep,
      TickBegins, TickNext, TickVisit, TickEnds, WalkEnds, Deliver, LinkEnds, Arrive

\* Every step but a race keeps the receivers of queued buffers.
LEMMA QueuedStep ==
  ASSUME IInv, Next, ~raced'
  PROVE  queued' \subseteq In(devices)'
<1>1. ~raced
  BY DEF IInv, Next, Ended, vars, GuiCall, GuiStep, IoStep, Add, Call, ConnectDevice, CloseWindow,
      Quit, ConstructRecents, ConstructTimer, CheckDuplicate, InsertDevice, AssignDevice,
      SetOptions, EraseDevice, MakeWindow, SaveRecent, RefreshRecents, Publish, CloseDisconnect,
      CloseConnection, CloseDevice, DisconnectAll, StopContext, Join, IoLoop, RunReturns, IoSleep,
      TickBegins, TickNext, TickVisit, TickEnds, WalkEnds, Deliver, LinkEnds, Arrive, guivars
<1>2. /\ queued \subseteq In(devices) /\ running \subseteq In(connections)
      /\ devices \in [Id -> 0..Null] /\ connections \in [Id -> 0..MaxAdds]
      /\ gui \in {"device", "assign", "options"} \cup CloseStates => arg \in Id
      /\ gui = "assign" => devices[arg] = Null
  BY <1>1 DEF IInv, TypeOK, MapsOK, GuiOK, Reach, Registry, AtWork, AddStates
<1>3. CASE InsertDevice \/ AssignDevice
  <2>1. \A id \in Id : devices[id] \notin {0, Null} => devices'[id] = devices[id]
    BY <1>2, <1>3 DEF InsertDevice, AssignDevice
  <2> QED
    BY <1>2, <1>3, <2>1 DEF InsertDevice, AssignDevice, In, traffic
<1>4. CASE EraseDevice /\ queued' = queued
  <2>1. devices[arg] \notin queued
    BY <1>4 DEF EraseDevice
  <2>2. \A id \in Id : id # arg => devices'[id] = devices[id]
    BY <1>2, <1>4 DEF EraseDevice, Erase
  <2> QED
    BY <1>2, <1>4, <2>1, <2>2 DEF In
<1>5. CASE Running /\ Arrive
  <2>1. PICK d \in running : queued' = queued \cup {d}
    BY <1>5 DEF Arrive
  <2>2. PICK id \in Id : connections[id] = d /\ d # 0 /\ d # Null
    BY <1>2, <2>1 DEF In
  <2>3. devices[id] = d
    BY <1>2, <1>5, <2>1, <2>2 DEF IInv, Registry, Agree, AtWork, Running, AddStates, CloseStates
  <2>4. d \in In(devices)
    BY <2>2, <2>3 DEF In
  <2> QED
    BY <1>2, <1>5, <2>1, <2>4 DEF Arrive, In, maps
<1>6. CASE queued' \subseteq queued /\ devices' = devices
  BY <1>2, <1>6 DEF In
<1> QED
  BY <1>3, <1>4, <1>5, <1>6
  DEF Next, Ended, vars, maps, traffic, GuiCall, GuiStep, IoStep, Add, Call, ConnectDevice,
      CloseWindow, Quit, ConstructRecents, ConstructTimer, CheckDuplicate,
      SetOptions, MakeWindow, SaveRecent, RefreshRecents, Publish, CloseDisconnect,
      CloseConnection, CloseDevice, DisconnectAll, StopContext, Join, IoLoop, RunReturns, IoSleep,
      TickBegins, TickNext, TickVisit, TickEnds, WalkEnds, Deliver, LinkEnds

\* Every step keeps the entry the tick is at, or records a race.
LEMMA CursorStep ==
  ASSUME IInv, Next
  PROVE  (lost' => raced') /\ (~raced' /\ io' = "visit" => devices'[cursor'] # 0)
<1>1. /\ lost => raced
      /\ ~raced /\ io = "visit" => devices[cursor] # 0
      /\ devices \in [Id -> 0..Null] /\ (io = "visit" => cursor \in Id)
  BY DEF IInv, TypeOK, MapsOK, IoOK, Reach
<1>2. CASE InsertDevice \/ AssignDevice
  <2>1. \A id \in Id : devices[id] # 0 => devices'[id] # 0
    BY <1>1, <1>2, MaxAddsAssumption DEF InsertDevice, AssignDevice, Null, IInv, TypeOK, MapsOK
  <2> QED
    BY <1>1, <1>2, <2>1 DEF InsertDevice, AssignDevice, iovars, walk
<1>3. CASE EraseDevice /\ io' = io
  BY <1>1, <1>3 DEF EraseDevice, Ticking
<1>4. CASE TickNext
  BY <1>1, <1>4 DEF TickNext, maps, guivars
<1>5. CASE io' # "visit" /\ raced' = raced /\ (lost' => lost)
  BY <1>1, <1>5
<1>6. CASE CloseDisconnect
  BY <1>1, <1>6 DEF CloseDisconnect, maps, iovars, walk
<1>7. CASE UNCHANGED <<devices, io, cursor, lost, raced>>
  BY <1>1, <1>7
<1> QED
  BY <1>2, <1>3, <1>4, <1>5, <1>6, <1>7
  DEF Next, Ended, vars, maps, iovars, walk, guivars, GuiCall, GuiStep, IoStep, Add, Call,
      ConnectDevice, CloseWindow, Quit, ConstructRecents, ConstructTimer, CheckDuplicate,
      SetOptions, MakeWindow, SaveRecent, RefreshRecents, Publish,
      CloseConnection, CloseDevice, DisconnectAll, StopContext, Join, IoLoop, RunReturns, IoSleep,
      TickBegins, TickVisit, TickEnds, WalkEnds, Deliver, LinkEnds, Arrive

LEMMA ReachStep ==
  ASSUME IInv, Next
  PROVE  Reach'
  BY NumberedStep, RunningStep, QueuedStep, CursorStep DEF Reach

\* Every step keeps the idle timer waiting.
LEMMA WakesStep ==
  ASSUME IInv, Next
  PROVE  Wakes'
<1> USE DEF IInv, Wakes, Ticking
<1>1. CASE \E id \in Id, r \in BOOLEAN : Add(id, r)
  BY <1>1 DEF Add, Call, vars, maps, traffic, walk, iovars, guivars
<1>2. CASE \E id \in Id : ConnectDevice(id)
  BY <1>2 DEF ConnectDevice, vars, maps, traffic, walk, iovars, guivars
<1>3. CASE \E id \in Id : CloseWindow(id)
  BY <1>3 DEF CloseWindow, vars, maps, traffic, walk, iovars, guivars
<1>4. CASE Quit
  BY <1>4 DEF Quit, vars, maps, traffic, walk, iovars, guivars
<1>5. CASE ConstructRecents
  BY <1>5 DEF ConstructRecents, vars, maps, traffic, walk, iovars, guivars
<1>6. CASE ConstructTimer
  BY <1>6 DEF ConstructTimer, vars, maps, traffic, walk, iovars, guivars
<1>7. CASE CheckDuplicate
  BY <1>7 DEF CheckDuplicate, AddReturns, vars, maps, traffic, walk, iovars, guivars
<1>8. CASE InsertDevice
  BY <1>8 DEF InsertDevice, vars, maps, traffic, walk, iovars, guivars
<1>9. CASE AssignDevice
  BY <1>9 DEF AssignDevice, vars, maps, traffic, walk, iovars, guivars
<1>10. CASE SetOptions
  BY <1>10 DEF SetOptions, AddReturns, EraseDevice, Ticking, vars, maps, traffic, walk, iovars, guivars
<1>11. CASE MakeWindow
  BY <1>11 DEF MakeWindow, vars, maps, traffic, walk, iovars, guivars
<1>12. CASE SaveRecent
  BY <1>12 DEF SaveRecent, vars, maps, traffic, walk, iovars, guivars
<1>13. CASE RefreshRecents
  BY <1>13 DEF RefreshRecents, vars, maps, traffic, walk, iovars, guivars
<1>14. CASE Publish
  BY <1>14 DEF Publish, AddReturns, vars, maps, traffic, walk, iovars, guivars
<1>15. CASE CloseDisconnect
  BY <1>15 DEF CloseDisconnect, vars, maps, traffic, walk, iovars, guivars
<1>16. CASE CloseConnection
  BY <1>16 DEF CloseConnection, vars, maps, traffic, walk, iovars, guivars
<1>17. CASE CloseDevice
  BY <1>17 DEF CloseDevice, EraseDevice, Ticking, vars, maps, traffic, walk, iovars, guivars
<1>18. CASE DisconnectAll
  BY <1>18 DEF DisconnectAll, vars, maps, traffic, walk, iovars, guivars
<1>19. CASE StopContext
  BY <1>19 DEF StopContext, vars, maps, traffic, walk, iovars, guivars
<1>20. CASE Join
  BY <1>20 DEF Join, vars, maps, traffic, walk, iovars, guivars
<1>21. CASE IoLoop
  BY <1>21 DEF IoLoop, vars, maps, traffic, walk, iovars, guivars
<1>22. CASE RunReturns
  BY <1>22 DEF RunReturns, vars, maps, traffic, walk, iovars, guivars
<1>23. CASE IoSleep
  BY <1>23 DEF IoSleep, vars, maps, traffic, walk, iovars, guivars
<1>24. CASE TickBegins
  BY <1>24 DEF TickBegins, vars, maps, traffic, walk, iovars, guivars
<1>25. CASE TickNext
  BY <1>25 DEF TickNext, vars, maps, traffic, walk, iovars, guivars
<1>26. CASE TickVisit
  BY <1>26 DEF TickVisit, Touch, vars, maps, traffic, walk, iovars, guivars
<1>27. CASE TickEnds
  BY <1>27 DEF TickEnds, WalkEnds, vars, maps, traffic, walk, iovars, guivars
<1>28. CASE Deliver
  BY <1>28 DEF Deliver, Touch, vars, maps, traffic, walk, iovars, guivars
<1>29. CASE Arrive
  BY <1>29 DEF Arrive, vars, maps, traffic, walk, iovars, guivars
<1>30. CASE UNCHANGED vars
  BY <1>30 DEF vars, maps, traffic, walk, iovars, guivars
<1>31. CASE LinkEnds
  BY <1>31 DEF LinkEnds, vars, maps, traffic, walk, iovars, guivars
<1> QED
  BY <1>1, <1>2, <1>3, <1>4, <1>5, <1>6, <1>7, <1>8, <1>9, <1>10, <1>11, <1>12, <1>13, <1>14, <1>15, <1>16, <1>17, <1>18, <1>19, <1>20, <1>21, <1>22, <1>23, <1>24, <1>25, <1>26, <1>27, <1>28, <1>29, <1>30, <1>31 DEF Next, Ended, GuiCall, GuiStep, IoStep

-----------------------------------------------------------------------------
\* The inductive invariant: the types, what the maps hold for the identifier at
\* work and for the others, and what the io thread can reach.
THEOREM Inductive == Spec => []IInv
<1>1. Init => IInv
  <2> SUFFICES ASSUME Init PROVE IInv
    OBVIOUS
  <2>1. TypeOK
    <3>1. Empty \in [Id -> 0..Null] /\ Empty \in [Id -> 0..MaxAdds]
      BY DEF Empty, Null
    <3>2. gui \in OtherStates /\ gui \notin AddStates \cup CloseStates
      BY DEF Init, AddStates, CloseStates, OtherStates
    <3>3. made \in 0..MaxAdds /\ calls \in 0..MaxCalls
      BY DEF Init
    <3>4. /\ devices \in [Id -> 0..Null] /\ connections \in [Id -> 0..MaxAdds]
          /\ windows \in [Id -> 0..MaxAdds]
          /\ hooked \subseteq Device /\ running \subseteq Device /\ queued \subseteq Device
      BY <3>1 DEF Init
    <3>5. /\ arg = NoId /\ cursor = NoId /\ visited = {} /\ io = "loop" /\ ~from_recents
          /\ from_recents \in BOOLEAN
          /\ armed \in BOOLEAN /\ stopped \in BOOLEAN /\ should_stop \in BOOLEAN
          /\ raced \in BOOLEAN /\ lost \in BOOLEAN /\ fault \in BOOLEAN
      BY DEF Init
    <3> QED
      BY <3>2, <3>3, <3>4, <3>5 DEF TypeOK, MapsOK, GuiOK, IoOK
  <2>2. Registry
    BY DEF Init, Registry, AtWork, Agree, Empty, Null, AddStates, CloseStates
  <2>3. Reach
    BY DEF Init, Reach, Numbered, Empty, Null
  <2>4. Wakes
    BY DEF Init, Wakes
  <2> QED
    BY <2>1, <2>2, <2>3, <2>4 DEF IInv
<1>2. IInv /\ [Next]_vars => IInv'
  <2> SUFFICES ASSUME IInv, [Next]_vars PROVE IInv'
    OBVIOUS
  <2>1. CASE Next
    <3>1. TypeOK' /\ Registry' /\ Reach' /\ Wakes'
      BY <2>1, TypeStep, RegistryStep, ReachStep, WakesStep
    <3> QED
      BY <3>1 DEF IInv
  <2>2. CASE UNCHANGED vars
    BY <2>2 DEF vars, maps, traffic, walk, iovars, IInv, TypeOK, MapsOK, GuiOK, IoOK, Registry,
                AtWork, Agree, Reach, Numbered, Wakes, Ticking
  <2> QED
    BY <2>1, <2>2
<1> QED
  BY <1>1, <1>2, PTL DEF Spec

\* DeviceManager's variables keep their types, and drawOpenRecent's shared lock
\* is never held when the recent connections are written.
THEOREM TypeCorrect == Spec => []TypeOK
<1>1. IInv => TypeOK
  BY DEF IInv
<1> QED
  BY <1>1, Inductive, PTL

\* Between two calls devices_, connections_ and windows_ agree, for any number
\* of identifiers and of calls.
THEOREM RegistryConsistentHolds == Spec => []RegistryConsistent
<1>1. IInv => RegistryConsistent
  BY DEF IInv, Registry, Agree, RegistryConsistent, AddStates, CloseStates
<1> QED
  BY <1>1, Inductive, PTL

\* One step of the io thread uses what is destroyed, or null, only in a race.
LEMMA FaultStep ==
  ASSUME IInv, Next, ~fault, fault'
  PROVE  raced \/ gui \in {"assign"} \cup CloseStates
<1> SUFFICES ASSUME ~raced, gui \notin {"assign"} \cup CloseStates
             PROVE  FALSE
  OBVIOUS
<1>1. ~lost /\ Running
  BY DEF IInv, Reach, Next, Ended, vars, iovars
<1>2. ASSUME NEW d \in In(devices)
      PROVE  ~Touch(d)
  <2>1. PICK id \in Id : devices[id] = d /\ d \in Device
    BY <1>2 DEF In, IInv, TypeOK, MapsOK, Device, Null
  <2>2. ASSUME d \in hooked
        PROVE  windows[id] = d
    BY <1>1, <2>1, <2>2 DEF IInv, Registry, AtWork, Agree, Running, AddStates, CloseStates, Device,
                            Null
  <2>3. d \in hooked => d \in In(windows)
    BY <2>1, <2>2 DEF In, Device, Null
  <2> QED
    BY <1>2, <2>3 DEF Touch
<1>3. CASE TickVisit
  <2>1. devices[cursor] \in In(devices)
    BY <1>3 DEF TickVisit, IInv, TypeOK, MapsOK, IoOK, Registry, Reach, In
  <2> QED
    BY <1>1, <1>2, <1>3, <2>1 DEF TickVisit
<1>4. CASE Deliver
  BY <1>2, <1>4 DEF Deliver, IInv, Reach
<1>5. CASE TickNext \/ TickEnds
  BY <1>1, <1>5 DEF TickNext, TickEnds, WalkEnds
<1>6. CASE GuiCall \/ Quit \/ GuiStep
  BY <1>6 DEF GuiCall, Add, Call, ConnectDevice, CloseWindow, Quit, GuiStep, ConstructRecents,
              ConstructTimer, CheckDuplicate, InsertDevice, AssignDevice, SetOptions, MakeWindow,
              SaveRecent, RefreshRecents, Publish, CloseDisconnect, CloseConnection, CloseDevice,
              DisconnectAll, StopContext, Join, iovars
<1>7. CASE IoLoop \/ RunReturns \/ IoSleep \/ TickBegins \/ LinkEnds \/ Arrive
  BY <1>7 DEF IoLoop, RunReturns, IoSleep, TickBegins, LinkEnds, Arrive, iovars
<1> QED
  BY <1>1, <1>3, <1>4, <1>5, <1>6, <1>7 DEF Next, Ended, IoStep, Running

\* The io thread goes wrong only in a race with an addition or a close.
THEOREM FaultNeedsRaceHolds == Spec => FaultNeedsRace
<1>1. IInv /\ [Next]_vars => [~fault /\ fault' => raced \/ gui \in {"assign"} \cup CloseStates]_vars
  BY FaultStep
<1> QED
  BY <1>1, Inductive, PTL DEF Spec, FaultNeedsRace

\* After construction io_context_ does not stop by itself.
LEMMA StopStep ==
  ASSUME IInv, Next, ~stopped, stopped'
  PROVE  should_stop \/ gui \in {"construct", "arm"}
<1>1. CASE GuiCall \/ Quit \/ GuiStep
  BY <1>1 DEF IInv, Wakes, GuiCall, Add, Call, ConnectDevice, CloseWindow, Quit, GuiStep, ConstructRecents,
              ConstructTimer, CheckDuplicate, InsertDevice, AssignDevice, SetOptions, MakeWindow,
              SaveRecent, RefreshRecents, Publish, CloseDisconnect, CloseConnection, CloseDevice,
              DisconnectAll, StopContext, Join, iovars
<1>2. CASE Running /\ RunReturns
  BY <1>2 DEF IInv, Wakes, Work, RunReturns, Ticking, Running
<1>3. CASE LinkEnds \/ Arrive \/ Ended
  BY <1>3 DEF LinkEnds, Arrive, Ended, vars, iovars
<1>4. CASE IoStep /\ ~RunReturns
  BY <1>4 DEF IoStep, IoLoop, IoSleep, TickBegins, TickNext, TickVisit, TickEnds, WalkEnds, Deliver
<1> QED
  BY <1>1, <1>2, <1>3, <1>4 DEF Next, IoStep

THEOREM NoEarlyStopHolds == Spec => NoEarlyStop
<1>1. IInv /\ [Next]_vars => [~stopped /\ stopped' => should_stop \/ gui \in {"construct", "arm"}]_vars
  BY StopStep
<1> QED
  BY <1>1, Inductive, PTL DEF Spec, NoEarlyStop
=============================================================================

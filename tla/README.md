# Verification of device-tester

TLA+ modules, TLC model checks and TLAPS proofs for device-tester, a desktop
program (C++20, Dear ImGui, boost::asio) that opens serial, TCP and UDP
connections, shows what arrives on them and plots their throughput. Paths
below are relative to `src/` of the repository; `PROJECT.json` maps every
definition that models code to the lines it models.

## 1. The system

Two threads share almost everything. The **gui thread** runs the draw loop
(`gui::App`), and every button calls straight into the device manager or into a
connection. The **io thread** (`DeviceManager::ioThread`) runs the completion
handlers of one `boost::asio::io_context`. Each connection wraps its socket in
a strand, but a strand only orders handlers among themselves; calls from the gui
thread do not go through it. Apart from `recent_cons_mtx_` there is no lock and
no atomic in the program.

| component | source (`app/src/`) | state | operations | talks to |
|---|---|---|---|---|
| Tcp client | `connection/tcp_connection.*`, `gui/windows/tcp_connection_win.*` | `should_run_`, `is_connected_`, `socket_`, `endpoints_`, `buffer_rx_` | connect, disconnect, applyOptions, write; handleConnect, handleRead, handleWrite | gui thread (calls), io thread (handlers), device (`processData`) |
| Udp | `connection/udp_connection.*` | `should_receive_`, `socket_`, endpoints, `buffer_rx_` | as Tcp | as Tcp |
| Serial | `connection/serial_connection.*` | `serial_`, options | connect, open, applyOptions, disconnect, write; handlers | as Tcp |
| Device manager | `gui/device_manager.*`, `devices/device_connection.*`, `gui/windows/connection_win.*` | maps `devices_`, `connections_`, `windows_`; `should_stop_`, `io_context_`, idle timer; recent connections and their mutex | add*Connection, close, open recent, test*Connection, idle tick, constructor, destructor | all connections and windows |
| Throughput plot | `gui/widgets/plot_throughput.*`, `gui/imgui_commons.hpp` | two ring buffers, plot limits | addData (io thread), drawPlot (gui thread) | device's signal |
| Recent connections | `config/recent.*` | a JSON file | read, append | device manager |
| Creation dialog and tests | `gui/modals/*` | inputs, a `std::future`, messages | test, add, poll | device manager, an async thread per test |
| Tcp server | `connection/tcp_server*` | acceptor, set of clients | accept, stop, stopAll; never created, `startAccept()` never called | io thread |
| Protocol dispatcher, loader | `protocols/*` | buffer, list of protocols | addProtocol, appendData; not in the build | the protocols it asks |
| App, text output, inputs, base windows, config_io, data flow editor | rest | layout, conversions | | |

What is hard here: `disconnect()` on both threads at once; a handler that acts
on flags the gui thread is changing; completions of an earlier session that run
in the next one; the io thread's walk over a map the gui thread edits;
lifetimes across signals and `shared_from_this`; a plot that is drawn while it is
filled; an io context that stops when it has no work; recursion between `open()` and `applyOptions()`. The hazards
with their lines are in `PROJECT.json`.

What makes each part correct:

* Tcp: one read at a time into `buffer_rx_`; `isConnected()` truthful; no link
  that is up and deaf, or up and denied; attempts end; a closed object drains.
* Device manager: three maps that agree; no use of destroyed objects; no
  self-deadlock; a clean end; an io context that stays alive.
* A connection in the registry: after the close its device gets at most the buffer
  that was on its way.
* Protocol dispatcher: each message to its protocol, once, whole, in order; none
  lost; nothing left that could be taken.
* Serial: connect comes back, with the port read or with an error.
* Udp: one receive at a time; a bound socket is received from; nobody but its own
  session closes it; a closed object drains.
* Test connections: one test at a time on the shared buffer, its report its own,
  nothing left behind by a success, and an end of the program that waits.
* Sending: every packet once, whole or failed, in order, in one session.
* Recent connections: nothing saved is lost; the menu shows the file.
* Throughput: the rings hold the last `MaxSize` points, in step; a draw that overlaps
  `addData` still shows the points that were settled when it began within the limits;
  averages exact until the `int` overflows.

## 2. Modules

| module | what it is |
|---|---|
| `TcpConnection` | one TCP connection, gui and io thread, kernel |
| `ConnectionLifetime` | extends `TcpConnection` with the window, the entry and the device that the close loop destroys |
| `TcpConnectionProofs` | the inductive invariant of `TcpConnection` and seven theorems; `ConnectionLifetime` implements it, and what reaches a destroyed device |
| `SlidingWindow` | abstract: the last `MaxSize` points and the times of their averages |
| `ThroughputHistogram` | the two rings, filled by the io thread and drawn by the gui thread, refining `SlidingWindow` |
| `ThroughputHistogramProofs` | the refinement, the lockstep of the rings, the limits of a draw, the averages |
| `ReceiveLoop` | abstract: wanted or not, and where the one receive is |
| `UdpConnection` | one UDP connection, gui and io thread, kernel, refining `ReceiveLoop` |
| `UdpConnectionProofs` | its inductive invariant, four theorems of it and the refinement |
| `ConnectionTest` | the dialog's tests, their threads, the shared buffer, the end of the program |
| `ConnectionTestProofs` | its inductive invariant and four theorems |
| `PacketStream` | abstract: packets leave from their beginning on, and a failed one is over |
| `PacketWriter` | write and handleWrite of a stream connection, refining `PacketStream` |
| `RecentConnections` | the file, its menu, programs that share it and are killed |
| `RecentConnectionsProofs` | types, nothing saved is lost, the menu shows the file, a torn file is for ever |
| `DeviceManager` | the registry, its life cycle, the io thread |
| `DeviceManagerProofs` | its inductive invariant and four theorems |
| `ProtocolDispatcher` | the buffer, the protocols asked in turn, a sender that frames messages |
| `ProtocolDispatcherProofs` | its inductive invariant and three theorems |
| `PacketWriterProofs` | its inductive invariant, three theorems of it and the refinement |
| `SerialConnection` | connect, open, applyOptions and disconnect with their stack |

**TcpConnection.** `pc["gui"]` and `pc["io"]` are the places in the code;
every access to `should_run_`, `is_connected_` or `socket_` is an action
(`TestConnected`, `ClearRun`, `MarkDown`, `StopRun`, `CloseSocket` are the
accesses of `disconnect()`, run by either thread; `Resolve`, `Arm`, `Begin` the rest
of `connect()`; `CheckWanted`, `CheckOpen`, `NextEndpoint`, `Established`
`handleConnect` and `beginConnect`; `StartRead`, `Deliver`, `CheckRun` the read
loop). `AsyncConnect`, `AsyncRead`, `Close` and the completions are
boost::asio, modelled from how the code uses it: a socket that is connecting or
connected refuses another connect through a queued error, `close()` queues an
abort for every pending operation, and completions run in queue order.
An iterator is the number of endpoints from it to the end of its list. The
data race on the plain `bool`s is a step per access (on the platforms the
program builds for a `bool` is not torn).

Four history variables state the provisos. `overlap`: `connect()` was called
while something of an earlier attempt was still pending; then two activities
exist, and most guarantees are gone. `cancelled`: the gui thread cleared
`should_run_` during an attempt. `slipped`: `disconnect()` on the gui thread found
`isConnected()` false just before `handleConnect` set it, or found the attempt past its
test of `should_run_`; it then leaves the link to itself. `late`: buffers delivered after
a disconnect. The provisos are tight: TLC violates each property without them.

**ConnectionLifetime.** The composition of that connection with the registry. It adds
three variables to TcpConnection's: `entry`, how far the close loop of `drawMenu` is
(`CloseWindow`, `CloseDisconnect`, `EraseConnection`, `EraseDevice` are its four
statements, the second of which runs TcpConnection's `disconnect()` to its end), and two
histories, `uses` (buffers handed to the device after it was destroyed) and `inflight`
(one was on its way when it was). Every other step is one of TcpConnection's:
`Button`, as long as there is a window, `GuiGoesOn`, `IoGoesOn`, `NetworkGoesOn`.
The connection object outlives its entry through `shared_from_this`, and holds a
reference to the device.

**ThroughputHistogram.** `AddPoint`, `AddToHisto`, `Average` are
the functions of the code, with slots numbered from 0 and the `int` of
`std::accumulate` reduced as the conversions from and to
the unsigned word do (`IntLimit` is one more than the largest `int`, `WordLimit` the number of
values of the word). `addData` runs on the io thread in three steps: the bytes
(`CountBytes`), the average if there is a new point (`AddAverage`), the limits
(`SetLimits`); the clock may repeat, jump and go back. `drawPlot` runs on the gui thread,
between any of them and without a lock: it reads the limits (`ReadLimit`, one per step, in
any order, as arguments of one call are) and then points of either ring, any number of
them in any order, the two coordinates of a point in two steps (`ReadPoint`, `ReadOther`,
`ReadAverage`). Since every read is a step of its own, the assignments of one
writing step need not be told apart. Two things are taken for granted: a coordinate or a
limit, a word each, is not torn, and a ring that grows (within the memory its constructor
reserves) counts a point only once it is written. The height of an average is left out,
because nothing bounds it: it may exceed the limit of the bytes once the point that raised
it has scrolled out.
`late` records the positions written since the draw began, the one of the `addData`
under way at that moment included. `Caught` is the ring of averages with the point whose
average that `addData` has still to add; the refinement and `Lockstep` are about it.
`Unrolled` is a ring as `drawPlot` hands it to the plot (`offset` first).

**DeviceManager.** A device is its number, counted from 1; each map gives, per
identifier, the number of the device its entry was built for, 0 for none, and
`Null` is the null pointer that `devices_[id] = make_unique...` holds between
insertion and assignment. The gui thread's actions follow the three
`add*Connection` functions, which have the same control: `CheckDuplicate`,
`InsertDevice`, `AssignDevice`, `SetOptions` (may throw, and takes the device
back), `MakeWindow` (emplaces and hooks the slot), `SaveRecent`,
`RefreshRecents`, `Publish`. `CloseWindow`, `CloseDisconnect`,
`CloseConnection`, `CloseDevice` are the four statements of the close loop of
`drawMenu`. `Quit` to `Join` are the destructor. The io thread loops through
`IoLoop`, `RunReturns`, `IoSleep`, and inside `run()` through ticks
(`TickBegins`, `TickNext`, `TickVisit`, `TickEnds`) and `Deliver`. `fault`
records that it used a destroyed or null device, or a destroyed window;
`raced` that a device was destroyed while a tick was walking the map or a
buffer for it was queued. Two accesses of a map are ordered here; what two
simultaneous accesses to a `std::map` may do beyond that is not modelled. A
connection is reduced to whether it reads (`running`) and has a buffer queued. It may
end by itself (`LinkEnds`, an error of its read), and may go on after a `disconnect()`
that met it while it came up; ConnectionLifetime shows when.

**UdpConnection.** As TcpConnection, with one action per access to
`should_receive_` or `socket_`: `Arm`, `Open`, `Bind`, `Begin` and `Unlisten` are `connect()`,
`Clear` and `CloseSocket` `disconnect()` on either thread, `Write` the send that may
open the socket by itself, `Take`, `Deliver`, `Check`, `StartRead` the receive loop.
`PressApply`, `Edit` and `Reset` keep the two copies of the options apart: the
window edits the connection's own and `applyOptions` overwrites them with the
window's. Three socket states count: closed, open (only a send, or a failed bind),
and bound.

**ConnectionTest.** One thread per test (`Clear`, `ConnectTcp` or `ConnectSerial`,
`Look`, `Disconnect`, `Copy`), the dialog (`OpenClose`, `CheckConnection`, `Poll`), the io
thread (`AttemptEnds`, `PeerGone`, `Take`, `Append`), and the destructors in the order of
App's members (`Quit` to `Join`). A test's connection is what `TcpConnection` shows
of one: an attempt that ends up or down, buffers one at a time, at most one after
`disconnect()`. The buffer and a test's report are the sets of tests whose bytes they
hold.

**PacketWriter.** `wire` is what left of each packet, byte by byte with its session.
`Write` is `Tcp::write`, `HandleWrite` the handler that sends the rest of a partial
write; `Transfer` and `Break` are the kernel, which serves a socket's operations in
order and takes any part of one. `PressSend` and `Write` are separate steps, so that the
link can go down between the button's test and the call. Sessions begin and end at any
time (`Connect`, `Disconnect`). A packet is its numbered bytes; it is never empty, since
the window appends a newline (whatever its "Newline" box says). `crossed` records
packets with a part written but not handled when a session ended: their rest goes out in
the next session.

**RecentConnections.** `Load` is `recentConnections()` as `refreshRecents` calls it from
the constructor and after an addition, `Read`, `Truncate`, `Write` are
`addRecentConnection`. Every program may be killed (`Stop`) before any of them, and
several share the file of their directory. A torn file is one that was truncated,
or written in part, and does not parse. An open for reading may fail although the
file exists, a write may fail unnoticed. `raced`, `misread` and `stale` record what
excuses the properties. Entries are connections or `Foreign`, one of a type the
loop skips; a file edited by hand into other JSON is not modelled.

**ProtocolDispatcher.** `AppendData` is `appendData` up to the loop of `processAllData`,
`ProcessProtocol` one call of `processProtocol`, `RoundEnds` the loop's test. `prev` is
the length that `prev_begin` and `prev_end` delimit: `erase` from the front never moves
the start of a vector, so comparing the two pairs of iterators compares lengths.
`Receive` is the sender: heads and tails of messages, one message at a time,
and other bytes between or within them. `consumeOneMessage` belongs to the protocols, which are
plugins; a protocol here finds its first head and the first tail behind it, and none
takes another's bytes for its own. `SetState` turns one on or off between calls.
`crowded` and `unattended` excuse the losses. The build leaves the dispatcher out
for now and its test is disabled; what is checked is the class as it stands.

**SerialConnection.** The functions that recurse, with the number of their
frames on the stack, and the call at its bottom, which is what they return to;
`StackFrames` is what the stack holds. An open and the `set_option` calls may succeed or
throw every time (on a closed port `set_option` always throws). A `connect()` that
returned would start a read; `handleRead` restarts it until an error (`ReadFails`) or the
close (`Reopen`, `Disconnect`) ends it. That no run comes to a normal return is what the
code does, not the model: `Return` is one of its steps, and the recursion never
reaches it with an open port.

## 3. Runs

| run | bounds | states | shows |
|---|---|---|---|
| `tcp_two_endpoints` | 2 endpoints, 4 user operations | 278270 | `OneOperation`, `LinkIsUp`, `LateBound`, `NotDeaf`, `FallbackFutile`, `AttemptSettles`, `ReleaseDrains` |
| `tcp_close` | 1 endpoint, 4 operations, one of them the close | 70319 | `NoOrphanLink` (it fails with two endpoints: `FallbackFutile` leaves one), `DeviceOutlivesUse` |
| `throughput` | 2 slots, 3 clock values, buffers of 0 or 200 bytes, 9-bit int | 1363786 | `Lockstep`, `PlotInLimits`, `AverageExact`, `ImplementsSlidingWindow` |
| `device_registry` | 2 identifiers, 4 devices, 5 calls | 287094 | `RegistryConsistent`, `FaultNeedsRace`, `NoEarlyStop`, `GuiReturns`, `TickRecurs` |
| `device_startup` | 1 identifier | | finding: `IoServes` is violated |
| `udp` | 4 user operations | 30275 | `OneReceive`, `NotDeaf`, `NoStaleClose`, `ReleaseDrains`, `ImplementsReceiveLoop` |
| `connection_test` | 2 tests | 19531 | `OneTest`, `PureOutput`, `SuccessCloses`, `BufferAlive`, `TestEnds`, `QuitEnds` |
| `packets` | 3 packets of 3 bytes, 2 sessions | 49642 | `PacketInOrder`, `OneSession`, `WritesEnd`, `ImplementsPacketStream` |
| `recent_file` | 2 programs, 2 connections, 3 additions | 611313 | `Durable`, `MenuShowsFile`, `TornIsFatal` |
| `dispatcher` | 2 protocols, 7 bytes in any calls | 187653 | `HandedInOrder`, `LossNeedsCrowd`, `ReturnsSettled` |
| `serial_open` | 5 frames | | finding: `ConnectEnds` is violated |

The type invariants of all modules but SerialConnection, which has a finding and no
theorem, and `LateBound` of UdpConnection, are proved for every value of the constants and
not checked again.

Why the bounds are enough: two endpoints are the first and a fallback, three add
nothing but another round of the same loop; four operations allow an attempt, its
interruption, a second attempt and a close; two slots fill, wrap and wrap again,
while a third time pushes out either of them, 200 bytes exceed the headroom of 100 that
`addData` leaves above the highest point, and two points of 200 overflow the int; two identifiers let
one be edited while the tick is at the other, and four devices let an
identifier be closed and used again; two tests are the one that runs and the one
that left a connection behind; three packets of three bytes let the rest of one line
up behind two others, in two parts; two programs and three additions let each
overwrite what the other saved and go on; seven bytes are three messages of two protocols
and a byte of none, in one call or several. `calls` and `made` are bounded by
`MaxCalls` and `MaxAdds` in the guards of the user's actions only, never inside
a call, so that a call that has begun can end. `MaxPoint` bounds the bytes of
a point.

Deadlock is checked except for TcpConnection and UdpConnection, where the user may
stop pressing buttons (or an uncaught exception ends the process) and the system
rests, PacketWriter and ProtocolDispatcher, where the sender may stop, and
ConnectionTest, where the program ends.

Every property has a mutant in its module (operators commented "Mutant:"): a
plausible bug in the code that the run finds.

### Fairness

`TcpConnection!FairSpec`: each thread that can step does (the operating system
schedules both), and a connect completes (the kernel times it out). Nothing
makes the peer send or the user press. `DeviceManager!FairSpec`: both threads,
and strong fairness for `TickBegins`, because the context's queue of ready
handlers is first in, first out, so buffers cannot keep an expired timer waiting
for ever. `SerialConnection!FairSpec`: a call that is under way runs on. `UdpConnection!FairSpec`:
each thread that can step does; nothing makes a datagram come.
`PacketWriter!FairSpec`: the io thread runs its handlers; whether the socket takes bytes
is open. `ConnectionTest!FairSpec`: test threads and the io thread run, a dialog that is shown
is drawn, and a program that ends goes on ending; whether a peer answers is open.
`ProtocolDispatcher!FairSpec`: a call of `appendData` runs on; nothing makes bytes come.

### Findings

1. `device_startup`: the constructor starts the io thread before it arms the
   idle timer. If the thread reaches `io_context_.run()` first, it finds no work,
   the context stops, and as `restart()` is never called it stays stopped: no
   connection is served in that session.
2. `serial_open`: `open()` calls `applyOptions()`, which closes the open port and
   calls `open()`. A port that opens makes `connect()` recurse until the stack
   is exhausted.

Behaviour the passing properties describe although it is surely not wanted:
`FallbackFutile` (only the first address of a name is ever usable), the
provisos of `OneOperation` and `NotDeaf`, the races of `FaultNeedsRace`. Of the UDP
connection: Apply on a listening link aborts the receive, and unless its handler
runs before `connect()` goes on, that handler clears `should_receive_` and closes
the socket just opened (the proviso of `NoStaleClose` and of the refinement); edits in the
settings tab are undone by Apply. Of the tests: a failed one leaves its connection to
itself, which may connect later and write into the next test's report
(`PureOutput`). The rest of a packet may go out in the next session (`OneSession`), or
behind packets sent later. A connection that comes up while the registry closes it is
left to itself, and hands the destroyed device the first buffer it reads
(`DeviceOutlivesUse`). A draw during `addData` may show the points being written outside its limits, and one of
them with the time of one call and the bytes of another (the proviso of `PlotInLimits`).
The dispatcher dumps messages of one protocol when another's
lie behind them in the same call (`LossNeedsCrowd`), and keeps every byte until some
protocol takes one behind it, so that its buffer grows for as long as nobody does. A kill between the truncation and the write of the
recent-connections file keeps every later start from getting past its constructor
(`TornIsFatal`). A serial test ends the program, either way `ConnectSerial` goes.

## 4. Proofs

All theorems hold for every value of the constants under the named assumptions
of the modules (`MaxEndpoints >= 1`, `MaxSize >= 1`, natural numbers for bounds,
`NoId` not an identifier, `WordLimit >= 2 * IntLimit`: the word is wider than the `int`).

* **TcpConnection.** `IInv` (checked by TLC first) says that, as long as
  `connect()` found the previous attempt drained, there is one token of
  activity (`InvToken`: a pending connect, a pending read, a queued completion or
  the running handler), that flags and socket agree at every step of
  `disconnect()` (`InvFlags`), that a successful connect not yet looked at meets a
  link nobody has reported (`InvAttempt`), and that the one late buffer ends its
  activity (`InvLate`). The properties alone are not inductive: for `LinkIsUp`
  one has to know where both threads are between their tests and assignments.
  `NotDeaf` and `NoOrphanLink` need `LinkInv` on top: where a link is reported there is
  a read or its handler, and `should_run_` is set unless `disconnect()` excuses it
  (`InvWanted`); where the kernel has a link that is not reported, somebody is about to
  look at it (`InvOrphan`).
* **ConnectionLifetime.** `ConnectionImplemented`: every step of the composition is one of
  TcpConnection or leaves it alone, so all of the above holds of it. `LInv` adds where the
  close loop is (`InvLoop`), that a read under way belongs to a link that is reported,
  being closed or closed (`InvReads`), and what may still reach the device (`InvUses`);
  that it is one buffer at most is `InvLate` of the connection.
* **ThroughputHistogram.** `HInv` (rings well formed and, with the average still to come, in
  step) gives `Lockstep`;
  `Implements` shows that growing, wrapping and merging are `Slide` and
  `Accumulate` of the abstract window under `Unrolled`, by index arithmetic
  on the ring (`SlideElements`, `UnrolledSlides`); `AddAverage`, `SetLimits` and the gui
  thread stutter. `PlotInLimits` is not inductive: `DInv` adds that the limits
  bound every point of the ring but the one that the `addData` under way has written
  (`Limits`), that a limit already read bounds every point not written since the draw
  began (`SeenLimits`), and that a coordinate already read is still that of such a point
  (`SeenPoint`); the times of the averages follow those of the points by `Lockstep`. That
  `SetLimits` finds such limits needs that a
  sequence of numbers has a largest: `SequenceBounded` shows it from the least
  counterexample (`LeastNatural`, the library's well-founded order of the naturals),
  which does the work of an induction over its length. The same argument shows that
  `accumulate`, a recursive function, runs to the end of the points (`AccumulateRuns`) and
  yields a natural number (`TotalType`). A sum below `IntLimit` passes the conversions
  unchanged and is divided as it is (`AverageIsMean`), which is `AverageExact`. `TypeCorrect`
  needs that an average is a number even when the sum overflowed (`AverageType`).
* **DeviceManager.** `IInv` adds to the types what each map holds for the
  identifier at work at each place of an addition or a close (`AtWork`), that all
  other identifiers agree (`Registry`), that what the io thread can reach exists
  unless something raced (`Reach`), and that the idle timer waits or its handler
  runs (`Wakes`). It gives `RegistryConsistent`, and `FaultNeedsRace` and
  `NoEarlyStop` step by step.
* **UdpConnection.** `IInv` says, while no `connect()` overlapped an undrained session,
  that there is one token of activity (`InvToken`), what socket and flag are at each
  place of `connect()` and `disconnect()` (`InvConnect`), that a bound socket at
  rest is received from (`InvBound`), and that the one late datagram ends its activity
  (`InvLate`). `Implements` maps each step to a step of `ReceiveLoop` or a stutter.
* **ConnectionTest.** `IInv` adds to the properties that a test which stopped
  waiting is marked failed (`Linked`), that a buffer on its way belongs to the test
  at work or to a stray one (`OnItsWay`), and that between its clear and its copy
  a test finds only such bytes in the buffer (`OwnBuffer`). `PureOutput` follows only
  with all three, since the bytes travel through a queue, a handler and the buffer.
* **RecentConnections.** `IInv` says, while nothing raced and no read failed, that a
  program about to write has read exactly what was saved, and that it is the only
  one between reading and writing once the file is truncated (`Current`); `Durable`
  alone does not say what is in `doc`. `MenuShowsFile` needs only the types on
  top of itself (`MenuStep`), and that the loop over the entries, a recursive function, runs to
  their end and finds connections only (`LoopRuns`, `KnownType`). `TornIsFatal` is an action argument:
  once the file does not parse and nobody is about to write it, no step makes it
  parse (`DoomedStep`).
* **PacketWriter.** `IInv` says that a packet has at most one operation or completion
  (`Single`), whose buffer begins where the bytes on the wire end, or ended before the part
  that the completion tells of (`Rests`), that a packet not yet sent has left nothing
  and one that failed is over (`Written`), and that what continues belongs to this session (`Sessions`). `PacketInOrder`
  alone is not inductive: a second operation for a packet, or a rest that
  begins one byte early, would send bytes twice some steps later. `Implements` maps
  `write` to `Offer`, a transfer to `Emit`, and the handler of an error to `Report`; all else
  stutters.
* **ProtocolDispatcher.** `IInv` says that the bytes held are the last ones received and keep
  the order of the stream (`Stream`), that no frame is cut where they begin (`Frames`), that
  what was handed over is no longer held (`Handed`), what a round without an erasure tells of
  the protocols asked (`Round`), and that a call without a crowd works on the messages of one
  protocol (`Attended`). That no frame is cut is what both properties rest on: the first head
  with a tail behind it is then a message the sender framed (`FoundWhole`), and an erasure
  up to that tail ends between frames again. It holds although the dispatcher
  dumps whatever lies before a message it takes.

Every safety property that a run checks is thus a theorem. Only model-checked are the
liveness properties (`AttemptSettles`, `ReleaseDrains`, `GuiReturns`, `TickRecurs`, `TestEnds`,
`QuitEnds`, `WritesEnd`, `ReturnsSettled`), whose proofs need ENABLED and fairness, which the
prover does not reach, and the two findings, which are counterexamples.

## 5. Not modelled

* Timing: a tick may begin whenever the timer waits (its expiry is never
  renewed, so after one second it in fact always may); connects may take any
  time.
* The contents of receive buffers: `buffer_rx_` keeps what an aborted read left.
* The Tcp server: nothing creates one and nothing calls `startAccept()`, so none of its
  handlers can run; a model of it would have to invent its use.
* What a protocol plugin does (external), and how the loader finds it.
* Layout, logging, fonts, JSON conversions, the data flow editor (external).
* The protocol loader and memory viewer, which are not built.

## 6. Plan

1. The bytes of `buffer_rx_` over several sessions, next to PacketWriter's.
2. The writer with the sessions of TcpConnection instead of its own.
3. Proofs: an abstract registry that DeviceManager implements; the tests of
   ConnectionTest over TcpConnection's connection instead of its summary.
4. The Tcp server and the serial port's writes, once the program reaches them.

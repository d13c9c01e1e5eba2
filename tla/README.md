# A TLA+ model of Satellite_Constellation

The repository is a multi-process simulator in C++20: one **ground control**
process and any number of **satellite** processes that talk UDP. This directory
holds a model of it in TLA+: modules translated from the source (never from the
documentation), TLC configurations that check them on small instances, and
proofs, checked by TLAPS, that the main results hold for every value of the
constants. `PROJECT.json` maps each definition to the lines it stands for.

Paths below are relative to `src/src/` unless they start with `src/`.

## 1. Inventory

### Ground control

| part | state | operations | who calls it |
|---|---|---|---|
| `Connection` (GroundControl/networking) | socket, state `CONNECTED`/`DISCONNECTED`, `lastHeartbeat`, `lastReconnect`, `retryCounter` | connect, disconnect, sendMessage, heartbeat, reconnect, markConnected, isTimedOut, isDead | the handler, always under its mutex |
| `GCConnectionHandler` | map id -> Connection, one mutex | addConnection, update (a thread of its own), heartbeatSat, sendMessageToSat, sendCommand (a thread of its own), removeConnection (never called) | start-up, listener, update and sender threads |
| `Receiver` | server socket, a chunk buffer per satellite | listen (a thread), addConnection, ack, handleFileDump | listener thread only |
| `Terminal` | map id -> SatelliteData, the input line | run (main thread), queue thread | operator; output queue |
| `SatelliteData` | position, packets, `alive`, a logger thread with its queue | updateVals, updatePackets, markAlive, logData, destructor | display thread, main |
| `Parser` | none | dataDecoder, commandDecoder | listener, update thread, terminal |
| `main` | the flag `running` | start-up, joins | operator |

### Satellite

| part | state | operations | who calls it |
|---|---|---|---|
| `PeerConnection` (Satellite/network) | as `Connection`, with a third state `CONNECTING` | connect, disconnect, sendMessage, reconnect, ... | the handler, under its mutex |
| `ConnectionHandler` | map id -> PeerConnection (id 0 is ground control), mutex | addConnection, update, heartbeatSat, sendMessageToPeer, broadcastMessage, printAllPeers | sender, listener and simulation threads |
| `NetworkManager` | server socket | acceptConnections (listener thread), ack | listener thread |
| `Satellite` | position, velocity, `waitingForAck`, its log file | update (simulation thread), handleCommand (listener), createDataDump (sender) | three threads, no lock |
| `Simulation`, `main` | `running` | run; broadcast; SIGINT handler | |

### Shared

| part | state | operations |
|---|---|---|
| `MessageQueue<T>` | queue, `stopped`, mutex, condition variable | pop, pushBack, shutdown |
| `Logger` | the open file | log (a thread), clearFile |
| `Message`, `Serializer` | none | serialize, decode |
| `Config` | constants | |

### How the parts interact

Satellites send heartbeats to each other, dumps of their log to ground control
every 10 seconds, and answers to commands. Ground control's listener enters each
datagram into the connection map, pushes a status event on the output queue and
answers. Its update thread sweeps the map once a second. The display thread
applies the events to the table the operator sees. Commands go from the terminal
through the input queue to the sender thread. All threads push to logger queues.

### What is hard

* *Interleaving*: four ground control threads share one map and two queues. The
  map is under a mutex, the handling of one datagram is not; one of the two
  sources of status events pushes under the mutex, the other outside.
* *Time*: silence, reconnect interval, retry counter and their resets decide
  between up, lost and dead.
* *Condition variables and shutdown*: notifications after the unlock, a stopped
  queue that hands out a default element, threads that must be released.
* *Sockets*: a connection that is down has a closed socket; `sendMessage` of
  ground control asserts that it is open, the satellite's does not look.
* *Delivery*: UDP loses, duplicates and reorders; dumps are chunked without
  numbers, and emptied before they are acknowledged.
* *Files*: two threads of a satellite empty its log, each through a stream of its
  own, while a third writes it.
* *Keep-alive*: a satellite's broadcast skips ground control; the dumps and their
  answers are all that keeps that link up.
* *Unlocked data*: a command and the simulation write the same six doubles.
* *Lifetimes*: main's queues, handlers and objects are destroyed at its end, a
  `SatelliteData` that is not wanted at start-up at once.

`PROJECT.json` lists each hazard at its line, with the properties about it.

### What makes each part correct

| part | it is correct if |
|---|---|
| ground control connections | a satellite is lost only after a time-out and dead only after all its attempts, each a whole interval after the last; a sign of life always undoes both; what the operator is shown agrees with the map; a message is only sent on an open socket, and nobody is counted as connected through a closed one |
| listener | the connection it works on stays up until it has answered |
| message queue | no element and no shutdown is slept through; nobody uses the default element of a stopped queue; everybody leaves after a quit |
| satellite links | a peer is not given up early; two satellites that are up find each other again; a peer counted as connected can be sent to |
| satellite and ground control | a link that works is not given up by either end; a link that was lost comes back; a command is acknowledged |
| dumps | what is read from a log and emptied arrives; no line is stored twice or out of order as long as the network keeps to it; nothing that empties the file makes the logger overwrite a line |
| motion | a command takes effect, and nothing an overlapping update leaves behind outlives the next one |
| messages | decode gives back what was serialized |
| shutdown | every thread of ground control ends and is joined before what it uses is destroyed |

## 2. Plan

Done, in the order in which they were written:

| # | module | what it is | built on |
|---|---|---|---|
| 1 | `Connection` | the methods of ground control's `Connection` as operators on a record | |
| 2 | `SatelliteStatus` | abstract: what ground control promises about a satellite | |
| 3 | `GroundControl` | the four threads, the map, the two queues | 1, implements 2 |
| 4 | `GroundControl_proofs` | its theorems | 3 |
| 5 | `BlockingChannel` | abstract: what a thread expects of a queue | |
| 6 | `MessageQueue` | mutex, condition variable, consumers, producers, shutdown | implements 5 |
| 7 | `MessageQueue_proofs` | its theorems | 6 |
| 8 | `PeerConnection` | the methods of the satellite's `PeerConnection` as operators | |
| 9 | `Constellation` | satellites and the network between them | 8 |
| 10 | `Constellation_proofs` | its theorems | 9 |
| 11 | `Downlink` | a satellite, ground control and the network between them | 1, 8 |
| 12 | `Downlink_proofs` | its theorems | 11 |
| 13 | `LogTransfer` | abstract: what the dumps promise about the lines of a log | |
| 14 | `Telemetry` | log file, dump, chunks, reassembly, answers | implements 13 |
| 15 | `Telemetry_proofs` | its theorems | 14, implements 13 |
| 16 | `GroundShutdown` | start-up, quit, joins and destructors of ground control | |
| 17 | `GroundShutdown_proofs` | its theorems | 16 |
| 18 | `Motion` | position and velocity between simulation thread and commands | |
| 19 | `Motion_proofs` | its theorems | 18 |
| 20 | `Protocol` | serialize, the receive buffer, decode | |
| 21 | `Protocol_proofs` | its theorem | 20 |

Each `MC` module gives one of them its small instances.

Still to come:

1. What still holds of a log that is read in several blocks, where
   `WhatIsReadArrives` fails (see Bounds).
2. The safety half of `LinkRecovers` and `Recovers`: the states that exclude a
   recovery, as invariants.

Every invariant and safety refinement that a passing run checks is proved as well
(section 5).

Recursion is written as functions (`DecodeAll`, `Pending`, `Widths`, `Appended`), never
as `RECURSIVE` operators, so each module can be proved about.

## 3. The models

### Time

Both processes compare `time(nullptr)` with time stamps. The models keep, instead
of a stamp, the number of whole seconds since, up to the first value that makes
its comparison true (`T + 1` for the strict comparison of `isTimedOut`, the
interval itself for `reconnect`). `Elapse` is one second; no state the code can
tell apart is lost by the saturation. `Tick` is the clock. The two handlers are
swept once a second, because their threads sleep for a second.

### Ground control

| in `GroundControl` | in the code |
|---|---|
| `satellites` | `GCConnectionHandler::satellites`; a connection is a record of `Connection` |
| `updater`, `visiting` | the update thread: one action per satellite of its loop (`TimeOut`, `Retry`, `Pass`), the mutex held from `BeginSweep` to `EndSweep` |
| `listener`, `msg`, `stall` | the listener thread between two lock operations: `Receive`, `AddConnection`, `HeartbeatSat`, `PushStatus`, `Handle`, `Answer` |
| `outputQueue`, `Display`, `alive` | events from `Parser::dataDecoder`; `Terminal::runQueueThread`; the table |
| `inputQueue`, `EnterCommand`, `SendCommand` | `Terminal::run`; `GCConnectionHandler::sendCommand` |
| `aborted` | `assert(satSocket >= 0)` in `Connection::sendMessage` has failed (the Makefile leaves assertions on) |
| `silence` | history, in no guard |

A section under the handler's mutex is one action, except the update thread's
loop: while it holds the mutex it pushes events on a queue with a lock of its
own, so the display and the listener's push may come in the middle. A datagram
may be anything a satellite sends, from a configured satellite or a stranger, at
any time; its bytes are not modelled, a type and a flag for the last chunk are.

### The message queue

`MessageQueue` has one action for each stretch of code under the mutex, and the
notification after the unlock as an action of its own. A consumer is the loop all
the threads around a queue have: test `running`, `pop()`, test `running`, use the
element. What it got stays in `element` until its next `pop()`; it refines
`BlockingChannel`'s `received`, so that the order in which elements come out is part
of what is checked. Spurious wake-ups are allowed. Every queue of the code has one consumer;
the model has two, as `notify_one` allows and as the class is written for.

### The constellation

| in `Constellation` | in the code |
|---|---|
| `connections` | `ConnectionHandler::connections` of each satellite, without id 0 |
| `due`, `Broadcast` | the sender's loop in `main.cpp` and `broadcastMessage` |
| `updated`, `Update` | the simulation thread; `ConnectionHandler::update`, the whole loop in one action as it holds the mutex and pushes nothing |
| `Receive` | one datagram in `acceptConnections`: `hasConnection`, then `heartbeatSat` or `addConnection` |
| `Start`, `Kill` | `main` up to the start of the threads; the process is killed |
| `network`, `trouble`, `Lose`, `Weather` | UDP, external |
| `silence` | history, in no guard |

`hasConnection` and what follows it are two critical sections but one action:
nothing ever removes a connection, and only the listener adds one once the
threads run. `connect()` sends a heartbeat when it has a socket, so a new
connection and a retry also put a datagram on the network. A message on a closed
socket fails in `sendto(-1)`, which is only logged. The code's `retryCounter`
goes on counting after the last attempt, `lastReconnect` standing still; the
model's stops one past the maximum, which no comparison can tell.

### Satellite and ground control

| in `Downlink` | in the code |
|---|---|
| `satLink` | `ConnectionHandler::connections[0]` of the satellite, a record of `PeerConnection`, or none yet |
| `greeted`, `due`, `Greet`, `Dump` | `broadcast` in the satellite's `main.cpp`: the sender thread adds ground control, then dumps the log every other heartbeat, through `sendMessageToPeer` |
| `SatUpdate` | the simulation thread; `ConnectionHandler::update` for id 0 |
| `Hear`, `TakeCommand`, `FinishCommand`, `marking` | one datagram in `acceptConnections`; a command is answered in one critical section and the connection marked in a later one |
| `gcLink`, `GcStart`, `GcHear`, `GcUpdate` | ground control's `Connection`; `connectToSatellites`; `Receiver::addConnection` and `ack`; `GCConnectionHandler::update` |
| `SendCommand` | the operator, the input queue and `sendCommand` |
| `GcAbortAnswering` | an answer on a closed socket: `assert(satSocket >= 0)` |
| `calm` | history: since both ends last heard each other nothing was lost and nobody killed |

The chunks of one dump are one datagram here: they have the same effect on both
connections as one. What is in them is in `Telemetry`. Ground control handles a
datagram in one step, which `GroundControl_proofs!HeardSatelliteStaysConnected`
allows: the update thread does not take the connection down in between.

### Dumps

| in `Telemetry` | in the code |
|---|---|
| `file`, `pos`, `Write` | the log file and the position of the logger's `ofstream`; `Logger::log` |
| `sender`, `data`, `chunks` | `createDataDump`: `BeginDump`, `ReadBlock`, `Truncate`; the loop of `broadcast`: `Send`, `FinishDump` |
| `waiting`, `HearAnswer`, `clearing`, `ClearFile` | `waitingForAck`; the listener; `Logger::clearFile` |
| `buffer`, `ReceiveChunk` | `Receiver::handleFileDump` |
| `Display`, `UpdateTable` | `Parser::dataDecoder`, and the display thread's `logData`, `updateVals`, `updatePackets` |
| `OtherAnswer` | ground control answers a greeting or an answer to a command |
| `Restart` | the satellite is killed and started: `Logger`'s constructor empties the file |
| `LoseChunk`, `LoseAnswer`, `Overtake`, `Duplicate` | UDP, external, where the network is `Unreliable` |
| `taken`, `overtaken`, `duplicates` | history (`duplicates` bounds `Duplicate`) |

The transport is plain UDP, "on localhost or a network" (`src/README.md:35`), and
the chunks carry no number. Where `Unreliable` is true the network loses, reorders
and duplicates them, and the satellite may be killed at any moment. Where it is
false each datagram arrives once and in the order sent: this is an assumption, met
on localhost as long as no socket buffer overflows, and what `TM_perfect` shows
rests on it. `Write` puts the cells of a line where the stream stands
(`WriteAt`), over whatever may be there.

A log line is two cells, its head (time stamp, `] : `) and its tail (up to the
newline), so that a chunk can end in the middle of it. The logger opens its file
once and keeps its position; the sender truncates the file through another
stream. The next line is then written at the old position and the file begins
with NULs, a `Hole` for each cell. They are dumped with the rest, and the decoder
does not mind: it looks for `] : `. Whether a line that was glued together counts as
a position or a packet is decided by its head, as the parser looks at what follows
the first `] : `.

### Start-up and shutdown of ground control

`GroundShutdown` keeps of each thread where it is in its loop (test `running`,
pop or work, use), of each queue a count and `stopped`, of each `SatelliteData`
whether it exists, is in the table or is being destroyed. `Finish` is the tail of
`Terminal::run` and of `main`, one `shutdown` or `join` at a time, in the order
of the code. The queues are used as `MessageQueue` shows them to behave: pop
takes an element, or the default element of a stopped queue.

### Position and velocity

`Motion` has one action for each load and store of a `double`. The order of
statements is that of the source (the Makefile asks for no optimisation); where
C++ leaves the order of evaluation open (`x += vx * dt`) the model takes any.
`exact` is the motion as it were if updates and commands were atomic, `disturbed`
the axes on which an update was in the way of the last command: those it still had
before it when the command came, and those whose velocity was yet to be written
when it started. `print` only reads, and nothing acts on what it reads: a line that
a command overlaps shows some doubles of before and some of after it.

### Messages

`Protocol` has the fields of each message with their widths, once in the order in
which `serialize` appends them (`Prefix`, `Written`) and once as `decode` copies them
(`ReadFirst`, `ReadBy`). A byte is a pair
of a value and an index: a field that is put together from bytes of different
values or in the wrong order holds nothing. The instance has the tightest limits
the layouts allow (`BUFFER_SIZE` 64 for a `COMMAND` of 64 bytes), so that one
byte less in the buffer or in the limit of `decode` is an assumption violated.

### Common to all

Addresses are taken to be valid: a bad one makes `connect()` throw or return,
and the simulation is started with none.

Definitions marked `Fault` are wrong versions of the definition after them: a
plausible bug each, used to see that a property can tell the two apart.

## 4. What is checked

| run | instance | states | what it shows |
|---|---|---|---|
| `GC_control` | 1 configured satellite, 1 stranger, `socket()` may fail | 370 000 | types; display and map agree; no satellite stays connected through a closed socket; death takes its time, and comes and is shown; the listener's connection stays up; the bookkeeping implements `SatelliteStatus` |
| `GC_assert` | 1 satellite | | violation: the assertion can fail |
| `MQ_queue` | 2 consumers, 2 producers, 2 elements | 44 000 | no lost wake-up, no default element used, a blocking channel that keeps its order; whoever asks is served; after a quit all leave |
| `CO_links` | 2 satellites, one naming the other, 2 attempts, `socket()` may fail, loss, crashes | 36 000 | a peer is lost only after the silence each attempt takes; links recover; a mute end does not stay mute |
| `DL_downlink` | one satellite, ground control, 1 attempt, `socket()` may fail, loss, crashes, commands | 90 000 | a link that works is not given up by either end; a lost link comes back if one end has an attempt left |
| `TM_perfect` | 3 lines, dumps of up to 6 chunks, a reliable network | 25 000 | what is read arrives, in order, and is stored in the end; the transfer implements `LogTransfer`; the stream returns to the start of the file |
| `TM_lossy` | 3 lines, at most 2 chunks, loss, reordering, a duplicate, restarts, reading in blocks | 1 590 000 | nothing is stored twice while nothing is duplicated, nothing out of order while nothing is overtaken either, nothing overwritten |
| `TM_chunks` | 3 lines, at most 1 chunk | | violation: a line is stored that was never logged |
| `GS_shutdown` | one id listed twice, log files may fail | 277 000 | nothing is used after its end; quit ends the process |
| `GS_twice` | one id listed twice | | violation: the second object's destructor does not return |
| `MO_motion` | 3 axes, 2 commands | 26 000 | a command takes effect on every axis on which no update is in its way |
| `PR_roundtrip` | 4 types, contents 0 and 1, one buffer | 289 | decode gives back what was serialized |

A run checks safety and liveness of a component together, under the fair
specification: fairness excludes no reachable state.

### Bounds

* `TIMEOUT_THRESHOLD`, `RECONNECT_INTERVAL`, `MAX_RECONNECT_ATTEMPTS` and
  `HEARTBEAT_INTERVAL` are small. With a threshold of 1 a connection is seen
  fresh, at the threshold and past it; with an interval of 2 an attempt is seen
  too early and due; with 1 attempt the first, the last and the one too many
  happen. `CO_*` uses 4, 2, 1 for threshold, reconnect and heartbeat interval,
  the proportions 20, 10, 5 of `Config.h`, since `LinkRecovers` depends on them
  (see below). The theorems are for every value.
* `SilenceCap` bounds the history variable: in each run it is the largest value
  the run's property compares it with, so the bound is never felt.
* `MaxBacklog` bounds the queue: no datagram arrives on a longer one in
  `GroundControl` (one datagram and the sweep may add several events to it), no
  push comes on a longer one in `MessageQueue`, where it is 3, more than there are
  consumers; two distinct elements tell a queue from a stack. `MaxCommands` bounds
  the commands the operator has queued.
* In `Constellation` and `Downlink` `socket()` may fail, like a datagram may be lost,
  while there is `trouble`, which comes and goes at any moment: this costs no
  generality for safety, and lets the liveness properties say "once the network is
  well". In `GC_control` it may fail at any time.
* `MaxStall` is 1: the clock may advance while a datagram is being handled.
* Two satellites are enough for the connection maps: a step on one connection
  reads no other. In `GC_control` one is configured and one a stranger whose
  first datagram adds its connection; in `CO_links` one names the other, which
  learns of it from its first heartbeat, so that both ways into the map occur
  (with `Mesh`, in which each names the other, the run passes as well; the theorems
  are for every topology). The network of `Constellation` is a set of pairs: two equal
  heartbeats in flight do what one does.
* `Downlink` has `TIMEOUT_THRESHOLD` 4, reconnect interval 2, heartbeat interval 1
  and dump interval 2: a dump every 2 seconds, half the threshold, as 10 is half
  of 20 in `Config.h`. The operator sends at most one command a second
  (`commanded`); a command does not count attempts and moves no time stamp but
  those a datagram moves, so that a second one in the same second does what the
  first did.
* `Telemetry`: `ChunkSize` is 3 cells and a line 2, so chunks end at every point of
  a line. With `BlockSize` above the file's length (`TM_perfect`)
  a log is read at once, as it is while it is shorter than the buffer of
  `ifstream` (some 8 KB); in `TM_lossy` it is read in blocks. `WhatIsReadArrives`
  needs the former: with blocks TLC finds a late answer that empties the file
  between two of them, so that the rest is read from the middle of a line.
  `MaxFlight` and `MaxAcks` bound the network: a dump may begin while the last
  chunk of the one before is under way, and two answers may be. With three lines and
  `MaxFlight` 1 chunks of two dumps are in flight together and may overtake one
  another; `MaxDuplicates` is 1, since the properties speak of the time before the
  first duplicate, and `TypeOK` and `OverwritesNothing` do not depend on how many
  there are (the theorems are for any number).
* `GroundShutdown`: two lines of one id are the least that has a duplicate, one
  satellite the least that starts. `MaxQueued` is 1: a queue is empty or not.
* `Motion`: `MaxPos` 1 lets a satellite go from -1 to 1 and back by commands, with
  up to two updates between them, over each of which a command may come at every load
  and store. All axes start alike; they are read and written
  one after the other.

`CHECK_DEADLOCK FALSE` stands where the process really stops: an aborted ground
control, a queue whose consumers have all left, a ground control that has exited. The other
models never stop and are checked for deadlock.

### Assumptions about time

* `MaxStall <= TIMEOUT_THRESHOLD`: the listener does not take longer than the
  threshold (20 s) for one datagram, which involves no wait but those for two
  mutexes. Without it the update thread may take down the connection that is
  being answered, and `HeardStaysConnected` fails.
* In `Constellation` a datagram arrives or is lost within the second, and a
  thread that is due runs within the second: `Tick` waits for both.
* `Downlink` takes the same of time as `Constellation`. `NoFalseAlarm` needs a dump
  period of at most the threshold (10 s and 20 s in `Config.h`): the theorem
  assumes it. `Telemetry`, `GroundShutdown`, `Motion` and `Protocol` have no clock.
* `LinkRecovers` depends on the threshold being some heartbeat intervals long.
  With threshold, reconnect and heartbeat interval all 1 TLC finds a livelock in
  which the two ends time each other out for ever; with thresholds of 2 to 8
  heartbeat intervals it finds none. `Config.h` has 20 and 5.

### Fairness

Weak fairness of the threads that poll or are woken: they loop without a
condition of their own while the process runs. Weak fairness of the clock. Each
action under a mutex is weakly fair only, which suffices because the update
thread, the one that holds a mutex over several actions, always comes to
`EndSweep` (its fairness says so), and never starts a sweep before the clock has
advanced. Nothing is assumed of the satellites in `GroundControl`, of the
producers and the operator in `MessageQueue`, of the weather, the crashes and the
restarts in `Constellation`: where a liveness property needs one of these it says
so itself (`LinkRecovers` from the time the network is well and both are up).

`Recovers` assumes in addition that one end has an attempt left when the network
turns well, since both count theirs and neither resets them by itself
(see below), and that the operator sends no commands from then on: each command
marks ground control as connected at the satellite, and a satellite whose socket
is closed then neither times out nor opens it again. TLC finds that behaviour
when the hypothesis is dropped. `Telemetry` assumes fairness of its threads and
of the network, and nothing of what is logged; `GroundShutdown` fairness of all
threads, and nothing of the operator: `QuitEndsProcess` begins with the quit.

### Disagreements found

Three runs show that the code does otherwise than a line of the repository says:

1. **`NoAssertionFails`**. `disconnect()` closes the socket of a satellite that
   has timed out and sets it to -1; the first `reconnect()` that opens another
   comes `RECONNECT_INTERVAL` later. A datagram that arrives in between is
   answered (`heartbeatSat` only marks the connection), and an operator's command
   is sent whatever the state: `Connection::sendMessage` asserts
   `satSocket >= 0` (`GroundControl/networking/Connection.cpp:57`) and ground
   control aborts.
2. **`StoredIsLogged`**. A log of more than `MAX_FILE_CHUNKS` chunks is sent without
   a last chunk; ground control appends the next dump and stores a line glued
   together from two.
3. **`DestructorEnds`**. The comment of `~SatelliteData` says that it turns `running`
   off. It does not; the logger thread it joins loops while `running` is set. An
   id listed twice in the configuration file hangs ground control at start-up.

### What the properties leave out, because the code does it

* A satellite has no assertion: a peer heard between its time-out and the first
  retry is marked `CONNECTED` with a closed socket, is not retried because it is
  connected, and everything sent to it fails. `MuteEnds` shows that this ends: the
  peer hears nothing, gives up in turn and falls silent. Ground control cannot end up
  like that: the same datagram there is answered at once, and the assertion ends the
  process (`NoMuteConnection`, finding 1).
* `LinkRecovers` and `Recovers` excuse a behaviour in which both ends have given up for
  good, also one in which they use up their attempts after the network has turned
  well.
* The interval between two attempts is constant. `src/README.md:44` announces
  exponential backoff; `DeadOnlyAfterSilence` states the time the code gives.
* A command is answered through `sendMessageToPeer(0)`, which sends only to a peer
  that counts as `CONNECTED` and has a socket; the connection the command came
  from is marked afterwards (`NetworkManager.cpp:117-123`). A satellite that had
  timed ground control out carries the command out in silence.
* A dead satellite may still initiate the connection (`Connection.cpp:109-111`), but
  a satellite counts its attempts too and sends ground control nothing while it
  counts it as lost: when both have given up, nothing but a restart brings the
  link back. `Recovers` and `LinkRecovers` exclude that state by name.
* What is logged between the read and the truncation of the log, or before the
  first answer after it, is emptied unread (`src/README.md:45` speaks of the full
  log). `WhatIsReadArrives` is about what was read.
* Chunks carry no number. A dump that is duplicated is stored twice, and chunks that
  overtake each other are put together in the order they come, which may store lines
  out of order or glue two halves into one. `StoredOnce` and `StoredInOrder` say what
  is left: reordering alone stores nothing twice, and loss and restarts alone nothing
  out of order.
* An update that has loaded a coordinate before a command stores it afterwards:
  this coordinate is not overridden. `UndisturbedIsExact` is about the other
  coordinates and the velocities, and shows that the next command clears what is left.

## 5. What is proved

The proofs are checked by TLAPS; they hold for every number of satellites,
consumers and producers, every topology and every value of the constants, under
the named assumptions of the modules (`ConfigAssumption`,
`GroundControlAssumption`, `QueueAssumption`, `ConstellationAssumption`,
`DownlinkAssumption`, `TelemetryAssumption`, `ShutdownAssumption`,
`MotionAssumption`, `ProtocolAssumption`) and what a theorem itself assumes. In the
order of the argument:

* `GroundControl_proofs!TypeCorrect`. The retry counter needs the test of
  `isDead()` in the sweep: without it `reconnect()` counts past the maximum.
* `HeardSatelliteStaysConnected`. `HeardStaysConnected` is not inductive: it says
  nothing of the time stamp. `HeardInv` adds that the connection the listener
  works on was heard no longer ago than the listener has been at it
  (`sinceHeartbeat <= stall`), so that with `MaxStall <= TIMEOUT_THRESHOLD` it is
  not timed out.
* `NoConnectionStaysMute`, whatever `socket()` does. `NoMuteConnection` is inductive
  together with the type invariant: a time-out leaves the connection disconnected,
  only `heartbeatSat` marks one without opening its socket, and from there the
  datagram's own answer ends the process (`AnswerAborts`), whatever the other threads
  do in between.
* `DeathTakesItsTime` assumes that `SilenceCap` is out of the way. Its invariant
  `SilenceCounted` relates the history to the record: silence is at least an
  interval for each attempt counted, plus the time since the last one.
* `DisplayAgrees`. For each configured satellite the last event under way, or the
  display, agrees with the map, or the listener is about to push the event that
  makes it agree. Two lemmas about a push and one about the display carry it over
  sequences of any length.
* `ImplementsPromise`: every step of `GroundControl` is a step of
  `SatelliteStatus` or leaves the status alone.
* `MessageQueue_proofs!NoWakeUpIsLost`. `IInv` adds to the count of wake-ups the
  order of the shutdown (`running` cleared, then `stopped` set, then
  `notify_all`); the counting uses the library's facts on finite cardinalities.
  `DefaultIsNeverUsed` needs in addition that the default element is handed out
  only after `running` was cleared. `ImplementsChannel` maps each step to a step
  of `BlockingChannel`: waiting and waking stutter.
* `Constellation_proofs!TypeCorrect`, and `PeersAreLostOnlyAfterSilence`, which
  assumes `SilenceCapSuffices`. `LostOnlyAfterSilence` is not inductive: an
  attempt advances the counter because of `sinceReconnect`, a loss follows from
  `sinceHeartbeat`. `AllPaid` says of every connection that the silence pays for
  the attempts made and for the time since the last, and while it is connected
  that no attempt is counted and the time stamp is no older than the silence.
* `Downlink_proofs!TypeCorrect`, and `DumpsKeepTheLink`, which assumes
  `DUMP_INTERVAL * HEARTBEAT_INTERVAL <= TIMEOUT_THRESHOLD`. `NoFalseAlarm` is not
  inductive: it says nothing of the time stamps. `CalmInv` adds, while it is calm,
  that each end has been silent no longer than a period, and that either the dump
  or the answer that ends the silence is in flight or silence and the time to the
  next dump make up no more than a period (`GroundInTime`, `SatelliteInTime`). An
  answer in flight was given within the second (`AnswerIsFresh`): this is what
  makes both ends in time at the moment calm begins, when the satellite hears one.
* `GroundShutdown_proofs!TypeCorrect` and `NothingIsUsedAfterItsEnd`, for any
  configuration file. The invariant, `ShutdownInv`, has two parts: `JoinedInOrder`,
  a join that main has passed found its thread at an end, which is final; and
  `Owned`, the objects that exist are those in the table and the one being
  destroyed, and each line not yet read or whose object is gone has no thread.
* `Telemetry_proofs!TelemetryTypeCorrect` and `LoggerOverwritesNothing`. `TypeInv` has
  the sequences in place of `TypeOK`'s cells, and that the logger's stream never stands
  inside the file: whoever empties the file moves the stream back or leaves it ahead
  (`WrittenBehind`: a line is then appended, behind a hole or not). No chunk is longer
  than its array, for every `FILE_CHUNK_SIZE` and every log.
* `LinesStoredOnce` and `LinesStoredInOrder`, with losses and restarts, the first also
  with chunks that overtake each other. `OrderInv` follows a line through five stages,
  file and data read, chunks, network, buffer, store. It is stated for a relation
  between two lines of which the first is further on its way: that it was logged
  before the other (`Earlier`) while no chunk is overtaken, or that it is another line
  (`Apart`), which is symmetric and so survives a swap. The tails in a later stage
  precede those in an earlier one (`StageOrder`) and each other inside a stage
  (`PartsOrder`); what has been read may still be in the file, what has not comes
  after it (`ReadOrder`); and data and chunks are empty when their stage is over
  (`SenderOrder`), so that `Truncate` and the next dump do not overtake.
* `ReadLinesArrive`, on a reliable network, while the log is shorter than the reader's block
  and a dump (`ShortLog`). Then a dump is read in one piece: `DumpWhole` says that the
  file, and what has been read of it, end after a complete line. `Delivered` says
  that decoding the buffer and everything under way gives what was taken and is not
  stored, and that what follows the last chunk of a dump starts afresh. Both are
  needed: a decoder that starts in the middle of a line skips it.
  `ShortLog` is a hypothesis because the property fails without either half of it (see
  Bounds and finding 2); in `TM_perfect` it always holds.
* `LoggedLinesStored` and `TransferImplemented`, under the same hypotheses. `WholeInv`:
  every line in the file, read from it or taken has the head and tail of one line;
  what is stored is a part of what was taken. Then a last chunk is one `Deliver` of
  `LogTransfer`: its set of lines lies above all that is stored (`RiseJoined`, from
  `OrderInv`), has as many members as the dump has lines (`RisingImage`), and the last
  position of the dump is the newest of the set (`DumpNewest`). A dump that completes
  no line stutters. `LoggedLinesStored` is what `TM_chunks` refutes for a log longer
  than a dump.
* `Protocol_proofs!MessagesComeBack`, for every `FILE_CHUNK_SIZE`, any contents and
  whatever is left in the buffer. `Laid` says of the bytes of a message that each
  field starts where the widths of those before it end; it is carried along the
  list of fields one `appendBytes` at a time. `ProtocolAssumption` (that the longest
  message fits the buffer and the limit of `decode`) is what makes the receive
  buffer hold all of it.
* `Motion_proofs!TypeCorrect` and `UndisturbedCommandsTakeEffect`. `UndisturbedIsExact`
  speaks of the satellite at rest; `PositionInv` says of each axis that is not disturbed
  how far the update and the command have got on it (`OnItsWay`), and of the one the
  update is at what it has loaded (`Loaded`); `VelocityInv` which doubles a command has
  written.

`Telemetry` and `Protocol` speak of sequences of any length. The library states
induction for an operator, which the provers cannot instantiate; here it is stated
for a set (`NumbersBySuccessor`, `SequencesByAppend`), and follows from the library's
theorem that `<` is well-founded on the naturals. That the recursive functions
exist, and what they do with one more element (`DecodeOneMore`, `PendingOneMore`), is
proved from it (`LoopExists`, `LoopUnique`, `JoinExists`, `JoinUnique`); the lemmas on
joined sequences (`DecodeJoined`, `PendingJoined`, `PendingChunks`) follow.

Only model-checked: liveness (`KeepsPromise`, `SilentIsShownDead`,
`KeepsChannel`, `QuitEndsConsumers`, `LinkRecovers`, `MuteEnds`, `Recovers`,
`PositionReturns`, `ReadIsStored`, `QuitEndsProcess`), which is beyond the provers
used here. `KeepsPromise` and `KeepsChannel` add fairness to refinements whose safety
part is proved.

## 6. What is not modelled

* The values of bytes, padding and byte order: both sides are one build.
* The terminal's key handling, its regular expression and its drawing, the wording
  of log lines beyond the marks the parser looks for, real numbers.
* `removeConnection` (nothing calls it), `printAllPeers` (it logs) and the getters.
* Start-up I/O: `bind`, `fcntl`, parsing of the command line and of the lines of
  the configuration file. A log file that fails to open is modelled for a
  `SatelliteData` only; elsewhere the exception ends the process.
* The end of a satellite's `main` after its loop: `running` is never cleared there,
  SIGINT ends the process in the handler.
* The time stamp of a log line: its buffer is one byte short for `strftime`, which
  leaves it indeterminate; nothing reads it.
* Ports and `TIMEOUT_MS`: how often the listeners look at `running`.

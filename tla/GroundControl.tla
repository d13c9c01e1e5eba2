----------------------------- MODULE GroundControl -----------------------------
(***************************************************************************)
(* The ground control process: the connection map and the four threads     *)
(* that share it.                                                          *)
(*                                                                         *)
(*   listener  Receiver::listen        one datagram at a time: connection  *)
(*                                     map, status line, dump, answer      *)
(*   update    GCConnectionHandler::update   once a second: time-outs,     *)
(*                                     reconnects, death notices           *)
(*   sender    GCConnectionHandler::sendCommand   the operator's commands  *)
(*   display   Terminal::runQueueThread      the output queue to the       *)
(*                                     satellite table the operator sees   *)
(*                                                                         *)
(* Every method of GCConnectionHandler holds its mutex from the first to   *)
(* the last line, so a critical section is one action; the update thread   *)
(* holds the mutex over its whole loop, one action per satellite, while    *)
(* the queues (which have locks of their own) stay open to the others.     *)
(*                                                                         *)
(* Datagrams come from an environment that may send anything a satellite   *)
(* sends, at any time, or fall silent.                                     *)
(***************************************************************************)
EXTENDS Connection, Sequences

CONSTANTS
    Sats,            \* satellite ids that may be heard of
    Configured,      \* those named in the file given to ground control
    SocketOutcomes,  \* what socket() may do: TRUE a descriptor, FALSE -1
    NoMsg,           \* the listener is between two datagrams
    MaxStall,        \* seconds the listener may spend on one datagram
    SilenceCap,      \* bound of the history variable silence
    MaxBacklog,      \* bound: no datagram arrives on a longer output queue
    MaxCommands      \* bound: the operator never queues more commands

\* The kinds of datagram a satellite sends (FILE_LAST is FILE_MSG with the
\* flag last set); COMMAND is sent by ground control only.
MessageTypes == {"HEARTBEAT", "FILE_MSG", "FILE_LAST", "ACK"}

Messages == [id : Sats, type : MessageTypes]

ASSUME GroundControlAssumption ==
    /\ Configured \subseteq Sats
    /\ SocketOutcomes \subseteq BOOLEAN /\ SocketOutcomes # {}
    /\ NoMsg \notin Messages
    /\ MaxStall \in Nat /\ MaxStall <= TIMEOUT_THRESHOLD
    /\ SilenceCap \in Nat
    /\ MaxBacklog \in Nat
    /\ MaxCommands \in Nat

SatOutput == [id : Sats, alive : BOOLEAN]

VARIABLES
    satellites,   \* GCConnectionHandler::satellites, keyed by satellite id
    updater,      \* update thread: "ready", "sweeping" (holds mtx), "sleeping"
    visiting,     \* satellites its loop has not reached yet
    listener,     \* listener thread: where it is in the datagram's handling
    msg,          \* the datagram it handles, or NoMsg
    stall,        \* seconds since it received it
    outputQueue,  \* outputQueue: status events for the display
    inputQueue,   \* inputQueue: satellites the operator has commands for
    alive,        \* Terminal::sats: the alive flag of each satellite shown
    aborted,      \* an assertion failed and the process is gone
    silence       \* history: seconds since each satellite was last heard

vars == <<satellites, updater, visiting, listener, msg, stall, outputQueue,
          inputQueue, alive, aborted, silence>>

threadVars  == <<updater, visiting>>
listenVars  == <<listener, msg, stall>>
queueVars   == <<outputQueue, inputQueue>>

--------------------------------------------------------------------------------
Known == DOMAIN satellites

\* The handler's mutex: the update thread is the only one to keep it from one
\* action to the next.
MutexFree == updater # "sweeping"

\* The map with the connection of s replaced, or inserted.
WithConnection(s, c) ==
    [x \in Known \cup {s} |-> IF x = s THEN c ELSE satellites[x]]

Event(s, up) == [id |-> s, alive |-> up]

Push(e) == outputQueue' = Append(outputQueue, e)

Listener(from, to) == listener = from /\ listener' = to

\* connectToSatellites() has added every configured satellite before the
\* threads start; connect() has sent each of them a heartbeat.
Init ==
    /\ \E opened \in [Configured -> SocketOutcomes] :
          satellites = [s \in Configured |-> Connect(NewConnection, opened[s])]
    /\ updater = "ready"
    /\ visiting = {}
    /\ listener = "idle"
    /\ msg = NoMsg
    /\ stall = 0
    /\ outputQueue = <<>>
    /\ inputQueue = <<>>
    /\ alive = [s \in Configured |-> TRUE]
    /\ aborted = FALSE
    /\ silence = [s \in Sats |-> 0]

--------------------------------------------------------------------------------
(* The listener thread: Receiver::listen, addConnection and ack.            *)

\* recvfrom() returns a datagram that decodes.
Receive(m) ==
    /\ Listener("idle", "lookup")
    /\ Len(outputQueue) < MaxBacklog
    /\ msg' = m
    /\ stall' = 0
    /\ UNCHANGED <<satellites, threadVars, queueVars, alive, aborted, silence>>

\* Receiver::addConnection, unknown sender: handler->addConnection.
AddConnection ==
    /\ Listener("lookup", "added")
    /\ MutexFree
    /\ msg.id \notin Known
    /\ \E opened \in SocketOutcomes :
          satellites' = WithConnection(msg.id, Connect(NewConnection, opened))
    /\ UNCHANGED <<threadVars, msg, stall, queueVars, alive, aborted, silence>>

\* Fault: the connection is marked, but the time of the message is not kept.
HeartbeatSatUnstamped ==
    /\ \/ Listener("lookup", "status")
       \/ Listener("added", "handle")
    /\ MutexFree
    /\ msg.id \in Known
    /\ satellites' = WithConnection(msg.id, MarkConnected(satellites[msg.id]))
    /\ silence' = [silence EXCEPT ![msg.id] = 0]
    /\ UNCHANGED <<threadVars, msg, stall, queueVars, alive, aborted>>

\* GCConnectionHandler::heartbeatSat, called for a sender that was known, which
\* is then reported to the display, or for one that has just been added.
HeartbeatSat ==
    /\ \/ Listener("lookup", "status")
       \/ Listener("added", "handle")
    /\ MutexFree
    /\ msg.id \in Known
    /\ satellites' =
          WithConnection(msg.id, MarkConnected(Heartbeat(satellites[msg.id])))
    /\ silence' = [silence EXCEPT ![msg.id] = 0]
    /\ UNCHANGED <<threadVars, msg, stall, queueVars, alive, aborted>>

\* Receiver::addConnection, known sender: the display learns it is alive.
PushStatus ==
    /\ Listener("status", "handle")
    /\ Push(Event(msg.id, TRUE))
    /\ UNCHANGED <<satellites, threadVars, msg, stall, inputQueue, alive,
                   aborted, silence>>

\* Receiver::ack, first half: only the last chunk of a dump reaches the display
\* (handleFileDump); every type a satellite sends is then answered.
Handle ==
    /\ Listener("handle", "answer")
    /\ IF msg.type = "FILE_LAST"
         THEN Push(Event(msg.id, TRUE))
         ELSE UNCHANGED outputQueue
    /\ UNCHANGED <<satellites, threadVars, msg, stall, inputQueue, alive,
                   aborted, silence>>

\* Fault: a message that cannot be sent is only logged.
SendMessageToSatUnchecked(s) == UNCHANGED aborted

\* sendMessageToSat(): Connection::sendMessage asserts that the socket is open.
\* An id that is not in the map is only logged.
SendMessageToSat(s) ==
    aborted' = (s \in Known /\ ~satellites[s].open)

\* Receiver::ack, second half: the answer, and the next datagram.
Answer ==
    /\ Listener("answer", "idle")
    /\ MutexFree
    /\ SendMessageToSat(msg.id)
    /\ msg' = NoMsg
    /\ stall' = 0
    /\ UNCHANGED <<satellites, threadVars, queueVars, alive, silence>>

--------------------------------------------------------------------------------
(* The update thread: GCConnectionHandler::update.                          *)

BeginSweep ==
    /\ updater = "ready"
    /\ updater' = "sweeping"
    /\ visiting' = Known
    /\ UNCHANGED <<satellites, listenVars, queueVars, alive, aborted, silence>>

Visit(s) ==
    /\ updater = "sweeping"
    /\ s \in visiting
    /\ visiting' = visiting \ {s}
    /\ UNCHANGED <<updater, listenVars, inputQueue, alive, aborted, silence>>

\* A connected satellite has been silent for too long.
TimeOut(s) ==
    /\ Visit(s)
    /\ satellites[s].state = "CONNECTED"
    /\ IsTimedOut(satellites[s])
    /\ satellites' = WithConnection(s, Disconnect(satellites[s]))
    /\ UNCHANGED outputQueue

\* Fault: a dead satellite is retried as well.
RetryDead(s) ==
    /\ Visit(s)
    /\ satellites[s].state = "DISCONNECTED"
    /\ \E opened \in SocketOutcomes :
          satellites' = WithConnection(s, Reconnect(satellites[s], opened))
    /\ IF GivesUp(satellites[s])
         THEN Push(Event(s, FALSE))
         ELSE UNCHANGED outputQueue

\* A disconnected one that is not dead: reconnect, or tell the display that
\* the attempts are used up.
Retry(s) ==
    /\ Visit(s)
    /\ satellites[s].state = "DISCONNECTED"
    /\ ~IsDead(satellites[s])
    /\ \E opened \in SocketOutcomes :
          satellites' = WithConnection(s, Reconnect(satellites[s], opened))
    /\ IF GivesUp(satellites[s])
         THEN Push(Event(s, FALSE))
         ELSE UNCHANGED outputQueue

\* Neither branch of the loop applies.
Pass(s) ==
    /\ Visit(s)
    /\ \/ satellites[s].state = "CONNECTED" /\ ~IsTimedOut(satellites[s])
       \/ satellites[s].state = "DISCONNECTED" /\ IsDead(satellites[s])
    /\ UNCHANGED <<satellites, outputQueue>>

\* The mutex is released and the thread sleeps for a second.
EndSweep ==
    /\ updater = "sweeping"
    /\ visiting = {}
    /\ updater' = "sleeping"
    /\ UNCHANGED <<satellites, visiting, listenVars, queueVars, alive, aborted,
                   silence>>

Update == BeginSweep \/ EndSweep \/ \E s \in Sats : TimeOut(s) \/ Retry(s) \/ Pass(s)

--------------------------------------------------------------------------------
(* The operator, the sender thread and the display thread.                  *)

\* Terminal::run: a well formed command for a satellite that is on the display.
EnterCommand(s) ==
    /\ s \in DOMAIN alive
    /\ Len(inputQueue) < MaxCommands
    /\ inputQueue' = Append(inputQueue, s)
    /\ UNCHANGED <<satellites, threadVars, listenVars, outputQueue, alive,
                   aborted, silence>>

\* GCConnectionHandler::sendCommand: pop a command and send it.
SendCommand ==
    /\ inputQueue # <<>>
    /\ MutexFree
    /\ SendMessageToSat(Head(inputQueue))
    /\ inputQueue' = Tail(inputQueue)
    /\ UNCHANGED <<satellites, threadVars, listenVars, outputQueue, alive,
                   silence>>

\* Terminal::runQueueThread: pop an event; a satellite that is not on the
\* display is ignored.
Display ==
    /\ outputQueue # <<>>
    /\ outputQueue' = Tail(outputQueue)
    /\ LET e == Head(outputQueue)
       IN  alive' = [s \in DOMAIN alive |-> IF s = e.id THEN e.alive ELSE alive[s]]
    /\ UNCHANGED <<satellites, threadVars, listenVars, inputQueue, aborted,
                   silence>>

\* One second passes.  The update thread's sleep is over; the listener never
\* spends more than MaxStall seconds on one datagram.
Tick ==
    /\ listener # "idle" => stall < MaxStall
    /\ stall' = IF listener = "idle" THEN 0 ELSE stall + 1
    /\ satellites' = [s \in Known |-> Elapse(satellites[s])]
    /\ silence' = [s \in Sats |-> Saturate(silence[s], SilenceCap)]
    /\ updater' = IF updater = "sleeping" THEN "ready" ELSE updater
    /\ UNCHANGED <<visiting, listener, msg, queueVars, alive, aborted>>

--------------------------------------------------------------------------------
Listen == AddConnection \/ HeartbeatSat \/ PushStatus \/ Handle \/ Answer

Next ==
    \/ \E m \in Messages : ~aborted /\ Receive(m)
    \/ ~aborted /\ AddConnection
    \/ ~aborted /\ HeartbeatSat
    \/ ~aborted /\ PushStatus
    \/ ~aborted /\ Handle
    \/ ~aborted /\ Answer
    \/ ~aborted /\ BeginSweep
    \/ \E s \in Sats : ~aborted /\ TimeOut(s)
    \/ \E s \in Sats : ~aborted /\ Retry(s)
    \/ \E s \in Sats : ~aborted /\ Pass(s)
    \/ ~aborted /\ EndSweep
    \/ \E s \in Sats : ~aborted /\ EnterCommand(s)
    \/ ~aborted /\ SendCommand
    \/ ~aborted /\ Display
    \/ ~aborted /\ Tick

Spec == Init /\ [][Next]_vars

\* The threads run for as long as the process does and the clock advances;
\* nothing is assumed of the satellites or of the operator.
Fairness ==
    /\ WF_vars(~aborted /\ Listen)
    /\ WF_vars(~aborted /\ Update)
    /\ WF_vars(~aborted /\ Display)
    /\ WF_vars(~aborted /\ Tick)

FairSpec == Spec /\ Fairness

--------------------------------------------------------------------------------
(* Properties                                                               *)

\* The map holds every configured satellite, no counter leaves the range in
\* which it is compared (in particular the retry counter stops one past its
\* maximum), and a datagram is at hand exactly while the listener is busy.
TypeOK ==
    /\ Known \subseteq Sats /\ Configured \subseteq Known
    /\ satellites \in [Known -> ConnectionRecord]
    /\ updater \in {"ready", "sweeping", "sleeping"}
    /\ visiting \subseteq Known
    /\ listener \in {"idle", "lookup", "added", "status", "handle", "answer"}
    /\ msg \in Messages \cup {NoMsg}
    /\ listener = "idle" <=> msg = NoMsg
    /\ stall \in 0 .. MaxStall
    /\ outputQueue \in Seq(SatOutput)
    /\ inputQueue \in Seq(Configured)
    /\ alive \in [Configured -> BOOLEAN]
    /\ aborted \in BOOLEAN
    /\ silence \in [Sats -> 0 .. SilenceCap]

\* The assertion of Connection::sendMessage, "assert(satSocket >= 0)", never
\* fails, whoever sends: the listener's answer or the operator's command.
NoAssertionFails == ~aborted

\* The event for s that the display will apply last, or what it shows already
\* when no event for s is queued, is up.
ShownInTheEnd(s, up) ==
    \/ \E i \in 1 .. Len(outputQueue) :
          /\ outputQueue[i] = Event(s, up)
          /\ \A j \in i + 1 .. Len(outputQueue) : outputQueue[j].id # s
    \/ /\ \A i \in 1 .. Len(outputQueue) : outputQueue[i].id # s
       /\ alive[s] = up

\* Once the display thread has caught up, the operator sees a configured
\* satellite dead exactly when its reconnect attempts are used up: the death
\* notice of the update thread and the sign of life of the listener, pushed by
\* two threads and only one of them under the mutex, never end up in the wrong
\* order.  In between, the listener may have revived the satellite and not yet
\* have pushed the event that says so.
StatusAgrees ==
    \A s \in Configured :
        \/ ShownInTheEnd(s, ~IsDead(satellites[s]))
        \/ listener = "status" /\ msg.id = s

\* heartbeatSat marks a connection without looking at its socket, which the update
\* thread has closed at the time-out and which a failing socket() has left closed.
\* No satellite stays connected through a closed socket: it is the one whose
\* datagram is being handled, and the answer ends the process.
NoMuteConnection ==
    \A s \in Known :
        satellites[s].state = "CONNECTED" /\ ~satellites[s].open =>
            \/ aborted
            \/ listener \in {"status", "handle", "answer"} /\ msg.id = s

\* No satellite is declared dead before it has been silent for one interval per
\* attempt and one more: the attempts really are RECONNECT_INTERVAL apart, and
\* any sign of life starts the count again.
DeadOnlyAfterSilence ==
    \A s \in Known :
        IsDead(satellites[s]) =>
            silence[s] >= (MAX_RECONNECT_ATTEMPTS + 1) * RECONNECT_INTERVAL

\* While a datagram that named a known satellite is being handled, the update
\* thread does not take the connection down under the listener's feet, although
\* the listener drops the mutex between marking it connected and answering.
HeardStaysConnected ==
    listener \in {"status", "handle", "answer"} =>
        satellites[msg.id].state = "CONNECTED"

\* The ground control's bookkeeping implements the promise about each satellite.
StatusOf(c) ==
    IF c.state = "CONNECTED" THEN "up" ELSE IF IsDead(c) THEN "dead" ELSE "lost"

Promise == INSTANCE SatelliteStatus
             WITH status  <- [s \in Known |-> StatusOf(satellites[s])],
                  running <- ~aborted

\* What a step may do to the status of a satellite: only a lost one is buried,
\* only a message brings one back.
KeepsSafePromise == Promise!SafetySpec

\* And with the fairness of the promise: a satellite that stays lost is buried.
KeepsPromise == Promise!Spec

\* A configured satellite that stays silent is shown dead in the end, unless it
\* is heard after all or the process is aborted.
SilentIsShownDead ==
    \A s \in Configured :
        silence[s] = SilenceCap ~> (~alive[s] \/ silence[s] = 0 \/ aborted)

================================================================================

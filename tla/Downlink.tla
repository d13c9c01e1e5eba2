-------------------------------- MODULE Downlink --------------------------------
(***************************************************************************)
(* One satellite, ground control and the UDP datagrams between them.       *)
(*                                                                         *)
(* Each end keeps a record of the other: ground control a Connection, the  *)
(* satellite a PeerConnection under id 0.  The satellite's broadcast skips *)
(* id 0, so after the greeting of connect() the only thing it sends of its *)
(* own accord is the dump of its log, and the only thing that keeps its    *)
(* record alive is ground control's answer to it.                          *)
(*                                                                         *)
(* A step is one critical section of a handler's mutex.  Exceptions: the   *)
(* chunks of one dump, which are sent one by one and have the same effect  *)
(* on both records as one, and a datagram handled by ground control, which *)
(* takes the mutex twice (GroundControl proves that the update thread does *)
(* not take the connection down in between).  The listener of a satellite  *)
(* answers a command first and marks the connection later: two steps.      *)
(*                                                                         *)
(* The network holds a set of datagrams each way: two equal ones do what   *)
(* one does.  In time of trouble any of them may be lost and socket() may  *)
(* fail.  Either process may be killed and started again; ground control   *)
(* also ends when the assertion of Connection::sendMessage fails.          *)
(*                                                                         *)
(* Assumed of time, as in Constellation: a datagram arrives or is lost,    *)
(* and a thread that is due runs, within the second.                       *)
(***************************************************************************)
EXTENDS Connection

CONSTANTS
    HEARTBEAT_INTERVAL,  \* Config.h: seconds between two broadcasts
    DUMP_INTERVAL,       \* Config.h: broadcasts per dump
    SocketOutcomes,      \* what socket() may do in time of trouble: TRUE a
                         \* descriptor, FALSE -1
    NoLink               \* the satellite's map has no connection with id 0

Peer == INSTANCE PeerConnection

ASSUME DownlinkAssumption ==
    /\ HEARTBEAT_INTERVAL \in Nat \ {0}
    /\ DUMP_INTERVAL \in Nat \ {0}
    /\ SocketOutcomes \subseteq BOOLEAN /\ SocketOutcomes # {}
    /\ NoLink \notin Peer!PeerRecord

FromSatellite == {"HEARTBEAT", "FILE_MSG", "ACK"}
FromGround    == {"HEARTBEAT", "ACK", "COMMAND"}

VARIABLES
    satUp,       \* the satellite's process is running
    satLink,     \* its ConnectionHandler::connections[0], or NoLink
    greeted,     \* its sender thread has added ground control
    due,         \* seconds until its sender thread dumps the log
    satUpdated,  \* its simulation thread has done its work of this second
    marking,     \* its listener has answered a command, not yet marked the link
    gcUp,        \* ground control's process is running
    gcLink,      \* its GCConnectionHandler::satellites[id]
    gcUpdated,   \* its update thread has done its work of this second
    commanded,   \* the operator has sent a command this second
    downlink,    \* datagrams in flight to ground control
    uplink,      \* datagrams in flight to the satellite
    trouble,     \* datagrams may be lost, socket() may fail
    calm         \* history: since both ends last heard each other nothing was
                 \* lost and nobody killed

satVars == <<satUp, satLink, greeted, due, satUpdated, marking>>
gcVars  == <<gcUp, gcLink, gcUpdated, commanded>>
vars    == <<satVars, gcVars, downlink, uplink, trouble, calm>>

--------------------------------------------------------------------------------
Known == satLink # NoLink

\* sendMessageToPeer(0, m) gets the datagram out.
SatSends == Known /\ Peer!GetsOut(satLink)

\* What socket() may do now.
Sockets == IF trouble THEN SocketOutcomes ELSE {TRUE}

\* Both ends hold each other for connected and have a socket to say so.
Linked ==
    /\ satUp /\ SatSends
    /\ gcUp /\ gcLink.state = "CONNECTED" /\ gcLink.open

\* Seconds between two dumps; the first one follows the first broadcast.
DumpPeriod == DUMP_INTERVAL * HEARTBEAT_INTERVAL

\* A process that is not running keeps no state.
SatelliteGone ==
    /\ satLink' = NoLink
    /\ greeted' = FALSE
    /\ due' = HEARTBEAT_INTERVAL
    /\ satUpdated' = FALSE
    /\ marking' = FALSE

GroundGone ==
    /\ gcUp' = FALSE
    /\ gcLink' = NewConnection
    /\ gcUpdated' = FALSE

Init ==
    /\ satUp = FALSE
    /\ satLink = NoLink
    /\ greeted = FALSE
    /\ due = HEARTBEAT_INTERVAL
    /\ satUpdated = FALSE
    /\ marking = FALSE
    /\ gcUp = FALSE
    /\ gcLink = NewConnection
    /\ gcUpdated = FALSE
    /\ commanded = FALSE
    /\ downlink = {}
    /\ uplink = {}
    /\ trouble = FALSE
    /\ calm = FALSE

--------------------------------------------------------------------------------
(* The satellite.                                                           *)

SatStart ==
    /\ ~satUp
    /\ satUp' = TRUE
    /\ UNCHANGED <<satLink, greeted, due, satUpdated, marking, gcVars, downlink,
                   uplink, trouble, calm>>

SatKill ==
    /\ satUp
    /\ satUp' = FALSE
    /\ SatelliteGone
    /\ calm' = FALSE
    /\ UNCHANGED <<gcVars, downlink, uplink, trouble>>

\* Fault: a connection is only kept if its socket was opened.
AddGroundIfOpened(opened) ==
    /\ satLink' = IF ~Known /\ opened THEN Peer!Added(opened) ELSE satLink
    /\ downlink' = downlink \cup {m \in {"HEARTBEAT"} : ~Known /\ opened}

\* ConnectionHandler::addConnection(0): nothing, if there is a connection.
AddGround(opened) ==
    /\ satLink' = IF Known THEN satLink ELSE Peer!Added(opened)
    /\ downlink' = downlink \cup {m \in {"HEARTBEAT"} : ~Known /\ opened}

\* broadcast(): the sender thread enters ground control before its first round.
Greet ==
    /\ satUp /\ ~greeted
    /\ greeted' = TRUE
    /\ \E opened \in Sockets : AddGround(opened)
    /\ UNCHANGED <<satUp, due, satUpdated, marking, gcVars, uplink, trouble, calm>>

\* broadcast(): a round in which the log is dumped.  The other rounds only
\* concern the peers.
Dump ==
    /\ satUp /\ greeted /\ due = 0
    /\ due' = DumpPeriod
    /\ downlink' = downlink \cup {m \in {"FILE_MSG"} : SatSends}
    /\ UNCHANGED <<satUp, satLink, greeted, satUpdated, marking, gcVars, uplink,
                   trouble, calm>>

\* ConnectionHandler::update, for id 0.
SatUpdate ==
    /\ satUp /\ ~satUpdated
    /\ satUpdated' = TRUE
    /\ IF Known
         THEN \E opened \in Sockets :
                 /\ satLink' = Peer!Updated(satLink, opened)
                 /\ downlink' = downlink \cup
                       {m \in {"HEARTBEAT"} : Peer!Greets(satLink, opened)}
         ELSE UNCHANGED <<satLink, downlink>>
    /\ UNCHANGED <<satUp, greeted, due, marking, gcVars, uplink, trouble, calm>>

\* The end of acceptConnections' loop: hasConnection, then addConnection or
\* heartbeatSat.
MarkGround ==
    IF Known
      THEN /\ satLink' = Peer!Heard(satLink)
           /\ UNCHANGED downlink
      ELSE \E opened \in Sockets : AddGround(opened)

\* A greeting or an answer of ground control.
Hear(m) ==
    /\ satUp /\ ~marking
    /\ m \in uplink \ {"COMMAND"}
    /\ uplink' = uplink \ {m}
    /\ MarkGround
    /\ UNCHANGED <<satUp, greeted, due, satUpdated, marking, gcVars, trouble>>
    /\ calm' = (calm \/ (m = "ACK" /\ ~trouble /\ Linked'))

\* A command: handleCommand, then NetworkManager::ack.
TakeCommand ==
    /\ satUp /\ ~marking
    /\ "COMMAND" \in uplink
    /\ uplink' = uplink \ {"COMMAND"}
    /\ marking' = TRUE
    /\ downlink' = downlink \cup {m \in {"ACK"} : SatSends}
    /\ UNCHANGED <<satUp, satLink, greeted, due, satUpdated, gcVars, trouble, calm>>

FinishCommand ==
    /\ marking
    /\ marking' = FALSE
    /\ MarkGround
    /\ UNCHANGED <<satUp, greeted, due, satUpdated, gcVars, uplink, trouble, calm>>

--------------------------------------------------------------------------------
(* Ground control.                                                          *)

\* connectToSatellites(): the connection is added and a greeting sent.
GcStart ==
    /\ ~gcUp
    /\ gcUp' = TRUE
    /\ \E opened \in Sockets :
          /\ gcLink' = Connect(NewConnection, opened)
          /\ uplink' = uplink \cup {m \in {"HEARTBEAT"} : opened}
    /\ UNCHANGED <<satVars, gcUpdated, commanded, downlink, trouble, calm>>

GcKill ==
    /\ gcUp
    /\ GroundGone
    /\ calm' = FALSE
    /\ UNCHANGED <<satVars, commanded, downlink, uplink, trouble>>

\* Fault: dumps are stored, but not answered.
GcHearDumpUnanswered(m) ==
    /\ gcUp /\ gcLink.open
    /\ m \in downlink
    /\ downlink' = downlink \ {m}
    /\ gcLink' = MarkConnected(Heartbeat(gcLink))
    /\ uplink' = uplink \cup ({"ACK"} \ {x \in {"ACK"} : m = "FILE_MSG"})
    /\ UNCHANGED <<satVars, gcUp, gcUpdated, commanded, trouble, calm>>

\* Receiver::listen: heartbeatSat, then the answer to whatever was sent.
GcHear(m) ==
    /\ gcUp /\ gcLink.open
    /\ m \in downlink
    /\ downlink' = downlink \ {m}
    /\ gcLink' = MarkConnected(Heartbeat(gcLink))
    /\ uplink' = uplink \cup {"ACK"}
    /\ UNCHANGED <<satVars, gcUp, gcUpdated, commanded, trouble, calm>>

\* The same while the socket is closed: the answer fails the assertion.
GcAbortAnswering(m) ==
    /\ gcUp /\ ~gcLink.open
    /\ m \in downlink
    /\ downlink' = downlink \ {m}
    /\ GroundGone
    /\ UNCHANGED <<satVars, commanded, uplink, trouble, calm>>

\* GCConnectionHandler::update, for this satellite.
GcUpdate ==
    /\ gcUp /\ ~gcUpdated
    /\ gcUpdated' = TRUE
    /\ \/ /\ gcLink.state = "CONNECTED"
          /\ gcLink' = IF IsTimedOut(gcLink) THEN Disconnect(gcLink) ELSE gcLink
          /\ UNCHANGED uplink
       \/ /\ gcLink.state = "DISCONNECTED" /\ ~IsDead(gcLink)
          /\ \E opened \in Sockets :
                /\ gcLink' = Reconnect(gcLink, opened)
                /\ uplink' = uplink \cup
                      {m \in {"HEARTBEAT"} :
                          ReconnectDue(gcLink) /\ ~GivesUp(gcLink) /\ opened}
       \/ /\ gcLink.state = "DISCONNECTED" /\ IsDead(gcLink)
          /\ UNCHANGED <<gcLink, uplink>>
    /\ UNCHANGED <<satVars, gcUp, commanded, downlink, trouble, calm>>

\* The operator and sendCommand, which looks neither at the state nor at the
\* socket.  Bound: one command a second.
SendCommand ==
    /\ gcUp /\ ~commanded
    /\ commanded' = TRUE
    /\ IF gcLink.open
         THEN /\ uplink' = uplink \cup {"COMMAND"}
              /\ UNCHANGED <<gcUp, gcLink, gcUpdated>>
         ELSE /\ GroundGone
              /\ UNCHANGED uplink
    /\ UNCHANGED <<satVars, downlink, trouble, calm>>

--------------------------------------------------------------------------------
(* The network and the clock.                                               *)

\* A datagram is lost, on the way or because nobody listens.
LoseDown(m) ==
    /\ m \in downlink
    /\ trouble \/ ~gcUp
    /\ downlink' = downlink \ {m}
    /\ UNCHANGED <<satVars, gcVars, uplink, trouble, calm>>

LoseUp(m) ==
    /\ m \in uplink
    /\ trouble \/ ~satUp
    /\ uplink' = uplink \ {m}
    /\ UNCHANGED <<satVars, gcVars, downlink, trouble, calm>>

Weather ==
    /\ trouble' = ~trouble
    /\ calm' = FALSE
    /\ UNCHANGED <<satVars, gcVars, downlink, uplink>>

\* One second passes.
Tick ==
    /\ downlink = {} /\ uplink = {} /\ ~marking
    /\ satUp => greeted /\ due > 0 /\ satUpdated
    /\ gcUp => gcUpdated
    /\ satLink' = IF Known THEN Peer!Elapse(satLink) ELSE satLink
    /\ due' = IF satUp THEN due - 1 ELSE due
    /\ gcLink' = IF gcUp THEN Elapse(gcLink) ELSE gcLink
    /\ satUpdated' = FALSE
    /\ gcUpdated' = FALSE
    /\ commanded' = FALSE
    /\ UNCHANGED <<satUp, greeted, marking, gcUp, downlink, uplink, trouble, calm>>

--------------------------------------------------------------------------------
Next ==
    \/ SatStart
    \/ SatKill
    \/ Greet
    \/ Dump
    \/ SatUpdate
    \/ \E m \in FromGround : Hear(m)
    \/ TakeCommand
    \/ FinishCommand
    \/ GcStart
    \/ GcKill
    \/ \E m \in FromSatellite : GcHear(m)
    \/ \E m \in FromSatellite : GcAbortAnswering(m)
    \/ GcUpdate
    \/ SendCommand
    \/ \E m \in FromSatellite : LoseDown(m)
    \/ \E m \in FromGround : LoseUp(m)
    \/ Weather
    \/ Tick

Spec == Init /\ [][Next]_vars

\* The threads of a running process run, a datagram does not stay in flight and
\* the clock advances.  Nothing is assumed of the weather, of the operator, nor
\* that a process is started, or started again.
Fairness ==
    /\ WF_vars(Greet) /\ WF_vars(Dump) /\ WF_vars(SatUpdate)
    /\ \A m \in FromGround : WF_vars(Hear(m))
    /\ WF_vars(TakeCommand) /\ WF_vars(FinishCommand)
    /\ \A m \in FromSatellite : WF_vars(GcHear(m) \/ GcAbortAnswering(m))
    /\ WF_vars(GcUpdate)
    /\ \A m \in FromSatellite : WF_vars(~gcUp /\ LoseDown(m))
    /\ \A m \in FromGround : WF_vars(~satUp /\ LoseUp(m))
    /\ WF_vars(Tick)

FairSpec == Spec /\ Fairness

--------------------------------------------------------------------------------
(* Properties                                                               *)

\* Counters stay in the range in which they are compared, ground control's
\* retry counter included; the sender never oversleeps the period of a dump;
\* once the sender runs the satellite has a connection to ground control.
TypeOK ==
    /\ satUp \in BOOLEAN
    /\ satLink \in Peer!PeerRecord \cup {NoLink}
    /\ greeted \in BOOLEAN
    /\ greeted => Known
    /\ due \in 0 .. DumpPeriod
    /\ satUpdated \in BOOLEAN
    /\ marking \in BOOLEAN
    /\ gcUp \in BOOLEAN
    /\ gcLink \in ConnectionRecord
    /\ gcUpdated \in BOOLEAN
    /\ commanded \in BOOLEAN
    /\ downlink \subseteq FromSatellite
    /\ uplink \subseteq FromGround
    /\ trouble \in BOOLEAN
    /\ calm \in BOOLEAN

\* Once both ends have heard each other and the network is well, neither takes
\* the other for lost and ground control does not abort, however the threads
\* and the operator's commands interleave: the dumps and their answers are
\* frequent enough to stand in for the heartbeats that are not sent.
NoFalseAlarm == calm => Linked

\* Why: each end has been silent no longer than the sender has slept, or the
\* datagram that ends the silence is in flight.
GroundInTime ==
    /\ gcLink.sinceHeartbeat <= DumpPeriod
    /\ "FILE_MSG" \in downlink \/ gcLink.sinceHeartbeat + due <= DumpPeriod

SatelliteInTime ==
    /\ satLink.sinceHeartbeat <= DumpPeriod
    /\ \/ "FILE_MSG" \in downlink
       \/ "ACK" \in uplink
       \/ satLink.sinceHeartbeat + due <= DumpPeriod

\* An answer in flight has been given within this second.
AnswerIsFresh == "ACK" \in uplink => gcLink.sinceHeartbeat = 0

CalmInv ==
    /\ AnswerIsFresh
    /\ calm => ~trouble /\ Linked /\ GroundInTime /\ SatelliteInTime

\* One of the ends has yet to make an attempt to reconnect.
AttemptsLeft ==
    \/ Known => satLink.retryCounter < MAX_RECONNECT_ATTEMPTS
    \/ gcLink.retryCounter < MAX_RECONNECT_ATTEMPTS

\* Whatever trouble, crashes and restarts have left behind, the two ends are
\* linked for good if the network is well from some moment on, both stay up and
\* the operator is silent, provided that one of them has an attempt left at that
\* moment: one that gets through revives both, a mute or a dead end included.
Recovers ==
    <>(AttemptsLeft /\ [](~trouble /\ satUp /\ gcUp /\ ~commanded)) => <>[]Linked

================================================================================

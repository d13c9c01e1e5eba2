-------------------------- MODULE GroundControl_proofs --------------------------
(***************************************************************************)
(* Proofs about ground control, for every number of satellites, every      *)
(* value of the timing constants and (unless a theorem says otherwise)     *)
(* every outcome of socket().                                              *)
(***************************************************************************)
EXTENDS GroundControl, TLAPS

--------------------------------------------------------------------------------
(* Connection: each method keeps a connection record a connection record.   *)

LEMMA SetField ==
    ASSUME NEW c \in ConnectionRecord
    PROVE  /\ \A v \in GCConnectionState : [c EXCEPT !.state = v] \in ConnectionRecord
           /\ \A v \in BOOLEAN : [c EXCEPT !.open = v] \in ConnectionRecord
           /\ \A v \in 0 .. TIMEOUT_THRESHOLD + 1 :
                 [c EXCEPT !.sinceHeartbeat = v] \in ConnectionRecord
           /\ \A v \in 0 .. RECONNECT_INTERVAL :
                 [c EXCEPT !.sinceReconnect = v] \in ConnectionRecord
           /\ \A v \in 0 .. MAX_RECONNECT_ATTEMPTS + 1 :
                 [c EXCEPT !.retryCounter = v] \in ConnectionRecord
BY DEF ConnectionRecord

LEMMA NewConnectionType == NewConnection \in ConnectionRecord
BY ConfigAssumption DEF NewConnection, ConnectionRecord, GCConnectionState

LEMMA ConnectType ==
    ASSUME NEW c \in ConnectionRecord, NEW b \in BOOLEAN
    PROVE  Connect(c, b) \in ConnectionRecord
BY SetField DEF Connect

LEMMA HeartbeatType ==
    ASSUME NEW c \in ConnectionRecord
    PROVE  Heartbeat(c) \in ConnectionRecord
BY ConfigAssumption, SetField DEF Heartbeat

LEMMA MarkConnectedType ==
    ASSUME NEW c \in ConnectionRecord
    PROVE  MarkConnected(c) \in ConnectionRecord
<1> DEFINE d == [c EXCEPT !.state = "CONNECTED"]
<1>1. d \in ConnectionRecord
  BY SetField DEF GCConnectionState
<1>2. MarkConnected(c) = [d EXCEPT !.retryCounter = 0]
  BY DEF MarkConnected, ConnectionRecord
<1> HIDE DEF d
<1>3. QED
  BY <1>1, <1>2, SetField, ConfigAssumption

LEMMA DisconnectType ==
    ASSUME NEW c \in ConnectionRecord
    PROVE  Disconnect(c) \in ConnectionRecord
<1> DEFINE d == [c EXCEPT !.open = FALSE]
           e == [d EXCEPT !.state = "DISCONNECTED"]
<1>1. e \in ConnectionRecord
  <2>1. d \in ConnectionRecord
    BY SetField
  <2> HIDE DEF d
  <2>2. QED
    BY <2>1, SetField DEF GCConnectionState
<1>2. Disconnect(c) = [e EXCEPT !.sinceReconnect = 0]
  BY DEF Disconnect, ConnectionRecord
<1> HIDE DEF e
<1>3. QED
  BY <1>1, <1>2, SetField, ConfigAssumption

\* update() calls reconnect() for satellites that are not dead only; without
\* that test the count would run away.
LEMMA ReconnectType ==
    ASSUME NEW c \in ConnectionRecord, NEW b \in BOOLEAN, ~IsDead(c)
    PROVE  Reconnect(c, b) \in ConnectionRecord
<1> DEFINE counted == [c EXCEPT !.retryCounter = @ + 1]
<1>1. counted \in ConnectionRecord
  BY ConfigAssumption DEF ConnectionRecord, IsDead
<1>2. Connect(Disconnect(counted), b) \in ConnectionRecord
  BY <1>1, DisconnectType, ConnectType
<1>3. QED
  BY <1>1, <1>2 DEF Reconnect

LEMMA ElapseType ==
    ASSUME NEW c \in ConnectionRecord
    PROVE  Elapse(c) \in ConnectionRecord
<1> DEFINE h == Saturate(c.sinceHeartbeat, TIMEOUT_THRESHOLD + 1)
           r == Saturate(c.sinceReconnect, RECONNECT_INTERVAL)
           d == [c EXCEPT !.sinceHeartbeat = h]
<1>1. h \in 0 .. TIMEOUT_THRESHOLD + 1 /\ r \in 0 .. RECONNECT_INTERVAL
  BY ConfigAssumption DEF ConnectionRecord, Saturate
<1>2. Elapse(c) = [d EXCEPT !.sinceReconnect = r]
  BY DEF Elapse, ConnectionRecord
<1> HIDE DEF h, r
<1>3. d \in ConnectionRecord
  BY <1>1, SetField
<1> HIDE DEF d
<1>4. QED
  BY <1>1, <1>2, <1>3, SetField

--------------------------------------------------------------------------------
(* The connection map after a step.                                         *)

LEMMA WithConnectionMap ==
    ASSUME satellites \in [Known -> ConnectionRecord],
           NEW s, NEW c \in ConnectionRecord,
           satellites' = WithConnection(s, c)
    PROVE  /\ Known' = Known \cup {s}
           /\ satellites' \in [Known' -> ConnectionRecord]
           /\ satellites'[s] = c
           /\ \A x \in Known : x # s => satellites'[x] = satellites[x]
BY DEF WithConnection, Known

\* A message that is being handled names a satellite.
LEMMA MsgType ==
    ASSUME TypeOK, listener # "idle"
    PROVE  msg \in Messages /\ msg.id \in Sats
BY DEF TypeOK, Messages

--------------------------------------------------------------------------------
(* Type correctness.                                                        *)

LEMMA InitType == Init => TypeOK
<1> SUFFICES ASSUME Init PROVE TypeOK
  OBVIOUS
<1>1. PICK opened \in [Configured -> SocketOutcomes] :
        satellites = [s \in Configured |-> Connect(NewConnection, opened[s])]
  BY DEF Init
<1>2. \A s \in Configured : Connect(NewConnection, opened[s]) \in ConnectionRecord
  BY GroundControlAssumption, NewConnectionType, ConnectType
<1>3. Known = Configured /\ satellites \in [Known -> ConnectionRecord]
  BY <1>1, <1>2 DEF Known
<1>4. outputQueue \in Seq(SatOutput) /\ inputQueue \in Seq(Configured)
  BY DEF Init
<1>5. /\ alive \in [Configured -> BOOLEAN]
      /\ silence \in [Sats -> 0 .. SilenceCap]
      /\ stall \in 0 .. MaxStall
  BY GroundControlAssumption DEF Init
<1>6. QED
  BY <1>3, <1>4, <1>5, GroundControlAssumption DEF Init, TypeOK

LEMMA ReceiveType == ASSUME TypeOK, NEW m \in Messages, Receive(m) PROVE TypeOK'
BY GroundControlAssumption
   DEF TypeOK, Receive, Listener, Known, threadVars, queueVars

LEMMA AddConnectionType == ASSUME TypeOK, AddConnection PROVE TypeOK'
<1>1. PICK opened \in SocketOutcomes :
        satellites' = WithConnection(msg.id, Connect(NewConnection, opened))
  BY DEF AddConnection
<1>2. Connect(NewConnection, opened) \in ConnectionRecord
  BY GroundControlAssumption, NewConnectionType, ConnectType
<1>3. satellites \in [Known -> ConnectionRecord]
  BY DEF TypeOK
<1>4. Known' = Known \cup {msg.id} /\ satellites' \in [Known' -> ConnectionRecord]
  BY <1>1, <1>2, <1>3, WithConnectionMap
<1>5. msg \in Messages /\ msg.id \in Sats
  BY MsgType DEF AddConnection, Listener
<1>6. QED
  BY <1>4, <1>5, GroundControlAssumption
     DEF TypeOK, AddConnection, Listener, threadVars, queueVars

LEMMA HeartbeatSatType == ASSUME TypeOK, HeartbeatSat PROVE TypeOK'
<1>1. satellites \in [Known -> ConnectionRecord] /\ msg.id \in Known
  BY DEF TypeOK, HeartbeatSat
<1>2. MarkConnected(Heartbeat(satellites[msg.id])) \in ConnectionRecord
  BY <1>1, HeartbeatType, MarkConnectedType
<1>3. Known' = Known \cup {msg.id} /\ satellites' \in [Known' -> ConnectionRecord]
  BY <1>1, <1>2, WithConnectionMap DEF HeartbeatSat
<1>4. silence' \in [Sats -> 0 .. SilenceCap]
  BY GroundControlAssumption DEF TypeOK, HeartbeatSat
<1>5. Known' = Known
  BY <1>1, <1>3
<1>6. QED
  BY <1>3, <1>4, <1>5 DEF TypeOK, HeartbeatSat, Listener, threadVars, queueVars

LEMMA PushType ==
    ASSUME TypeOK, NEW s \in Sats, NEW b \in BOOLEAN, Push(Event(s, b))
    PROVE  outputQueue' \in Seq(SatOutput)
BY DEF TypeOK, Push, Event, SatOutput

LEMMA PushStatusType == ASSUME TypeOK, PushStatus PROVE TypeOK'
<1>1. outputQueue' \in Seq(SatOutput)
  BY MsgType, PushType DEF PushStatus, Listener
<1>2. QED
  BY <1>1 DEF TypeOK, PushStatus, Listener, Known, threadVars

LEMMA HandleType == ASSUME TypeOK, Handle PROVE TypeOK'
<1>1. outputQueue' \in Seq(SatOutput)
  BY MsgType, PushType DEF Handle, Listener, TypeOK
<1>2. QED
  BY <1>1 DEF TypeOK, Handle, Listener, Known, threadVars

LEMMA AnswerType == ASSUME TypeOK, Answer PROVE TypeOK'
BY GroundControlAssumption
   DEF TypeOK, Answer, Listener, SendMessageToSat, Known, threadVars, queueVars

LEMMA BeginSweepType == ASSUME TypeOK, BeginSweep PROVE TypeOK'
BY DEF TypeOK, BeginSweep, Known, listenVars, queueVars

LEMMA EndSweepType == ASSUME TypeOK, EndSweep PROVE TypeOK'
BY DEF TypeOK, EndSweep, Known, listenVars, queueVars

LEMMA TimeOutType == ASSUME TypeOK, NEW s \in Sats, TimeOut(s) PROVE TypeOK'
<1>1. satellites \in [Known -> ConnectionRecord] /\ s \in Known
  BY DEF TypeOK, TimeOut, Visit
<1>2. Known' = Known \cup {s} /\ satellites' \in [Known' -> ConnectionRecord]
  BY <1>1, DisconnectType, WithConnectionMap DEF TimeOut
<1>3. Known' = Known
  BY <1>1, <1>2
<1>4. QED
  BY <1>2, <1>3 DEF TypeOK, TimeOut, Visit, listenVars

LEMMA RetryType == ASSUME TypeOK, NEW s \in Sats, Retry(s) PROVE TypeOK'
<1>1. satellites \in [Known -> ConnectionRecord] /\ s \in Known
  BY DEF TypeOK, Retry, Visit
<1>2. PICK opened \in SocketOutcomes :
        satellites' = WithConnection(s, Reconnect(satellites[s], opened))
  BY DEF Retry
<1>3. Reconnect(satellites[s], opened) \in ConnectionRecord
  BY <1>1, GroundControlAssumption, ReconnectType DEF Retry
<1>4. Known' = Known \cup {s} /\ satellites' \in [Known' -> ConnectionRecord]
  BY <1>1, <1>2, <1>3, WithConnectionMap
<1>5. Known' = Known
  BY <1>1, <1>4
<1>6. outputQueue' \in Seq(SatOutput)
  BY PushType DEF Retry, TypeOK
<1>7. QED
  BY <1>4, <1>5, <1>6 DEF TypeOK, Retry, Visit, listenVars

LEMMA PassType == ASSUME TypeOK, NEW s \in Sats, Pass(s) PROVE TypeOK'
BY DEF TypeOK, Pass, Visit, Known, listenVars

LEMMA EnterCommandType == ASSUME TypeOK, NEW s \in Sats, EnterCommand(s) PROVE TypeOK'
BY DEF TypeOK, EnterCommand, Known, threadVars, listenVars

LEMMA SendCommandType == ASSUME TypeOK, SendCommand PROVE TypeOK'
BY DEF TypeOK, SendCommand, SendMessageToSat, Known, threadVars, listenVars

LEMMA DisplayType == ASSUME TypeOK, Display PROVE TypeOK'
<1>1. Head(outputQueue) \in SatOutput /\ outputQueue' \in Seq(SatOutput)
  BY DEF TypeOK, Display
<1>2. alive' \in [Configured -> BOOLEAN]
  BY <1>1 DEF TypeOK, Display, SatOutput
<1>3. QED
  BY <1>1, <1>2 DEF TypeOK, Display, Known, threadVars, listenVars

LEMMA TickType == ASSUME TypeOK, Tick PROVE TypeOK'
<1>1. Known' = Known /\ satellites' \in [Known' -> ConnectionRecord]
  BY ElapseType DEF TypeOK, Tick, Known
<1>2. silence' \in [Sats -> 0 .. SilenceCap]
  BY GroundControlAssumption DEF TypeOK, Tick, Saturate
<1>3. stall' \in 0 .. MaxStall
  BY GroundControlAssumption DEF TypeOK, Tick
<1>4. QED
  BY <1>1, <1>2, <1>3 DEF TypeOK, Tick, queueVars

LEMMA NextType == TypeOK /\ [Next]_vars => TypeOK'
<1> SUFFICES ASSUME TypeOK, [Next]_vars PROVE TypeOK'
  OBVIOUS
<1>1. CASE UNCHANGED vars
  BY <1>1 DEF TypeOK, vars, Known
<1>2. CASE Next
  BY <1>2, ReceiveType, AddConnectionType, HeartbeatSatType, PushStatusType,
     HandleType, AnswerType, BeginSweepType, EndSweepType, TimeOutType,
     RetryType, PassType, EnterCommandType, SendCommandType, DisplayType,
     TickType
     DEF Next, Listen, Update
<1>3. QED
  BY <1>1, <1>2

\* Every reachable state is well typed: the connection map holds every
\* configured satellite and only records whose counters stay within the
\* thresholds the code compares them with.
THEOREM TypeCorrect == Spec => []TypeOK
BY InitType, NextType, PTL DEF Spec

--------------------------------------------------------------------------------
(* What the methods do to the fields.                                       *)

LEMMA HeardFields ==
    ASSUME NEW c \in ConnectionRecord
    PROVE  LET h == MarkConnected(Heartbeat(c))
           IN  /\ h.state = "CONNECTED" /\ h.open = c.open
               /\ h.sinceHeartbeat = 0 /\ h.sinceReconnect = c.sinceReconnect
               /\ h.retryCounter = 0
BY DEF ConnectionRecord, Heartbeat, MarkConnected

LEMMA DisconnectFields ==
    ASSUME NEW c \in ConnectionRecord
    PROVE  /\ Disconnect(c).state = "DISCONNECTED" /\ Disconnect(c).open = FALSE
           /\ Disconnect(c).sinceHeartbeat = c.sinceHeartbeat
           /\ Disconnect(c).sinceReconnect = 0
           /\ Disconnect(c).retryCounter = c.retryCounter
BY DEF ConnectionRecord, Disconnect

LEMMA ElapseFields ==
    ASSUME NEW c \in ConnectionRecord
    PROVE  /\ Elapse(c).state = c.state /\ Elapse(c).open = c.open
           /\ Elapse(c).sinceHeartbeat = Saturate(c.sinceHeartbeat, TIMEOUT_THRESHOLD + 1)
           /\ Elapse(c).sinceReconnect = Saturate(c.sinceReconnect, RECONNECT_INTERVAL)
           /\ Elapse(c).retryCounter = c.retryCounter
BY DEF ConnectionRecord, Elapse

LEMMA ReconnectFields ==
    ASSUME NEW c \in ConnectionRecord, NEW b \in BOOLEAN, ~IsDead(c),
           c.state = "DISCONNECTED"
    PROVE  LET r == Reconnect(c, b)
           IN  /\ ~ReconnectDue(c) => r = c
               /\ ReconnectDue(c) =>
                     /\ r.state = "DISCONNECTED"
                     /\ r.retryCounter = c.retryCounter + 1
                     /\ GivesUp(c) => r.open = c.open /\ r.sinceReconnect = c.sinceReconnect
                     /\ ~GivesUp(c) => r.open = b /\ r.sinceReconnect = 0
<1> DEFINE counted == [c EXCEPT !.retryCounter = @ + 1]
<1>1. CASE ~ReconnectDue(c)
  BY <1>1 DEF Reconnect
<1>2. CASE ReconnectDue(c)
  <2>1. /\ counted \in ConnectionRecord
        /\ counted.state = "DISCONNECTED" /\ counted.open = c.open
        /\ counted.sinceReconnect = c.sinceReconnect
        /\ counted.retryCounter = c.retryCounter + 1
    BY ConfigAssumption DEF ConnectionRecord, IsDead
  <2>2. IsDead(counted) <=> GivesUp(c)
    BY <1>2, <2>1 DEF IsDead, GivesUp
  <2>3. LET r == Connect(Disconnect(counted), b)
        IN  /\ r.state = "DISCONNECTED" /\ r.open = b
            /\ r.sinceReconnect = 0
            /\ r.retryCounter = c.retryCounter + 1
    <3>1. Disconnect(counted) \in ConnectionRecord
      BY <2>1, DisconnectType
    <3> DEFINE d == Disconnect(counted)
    <3>2. /\ d.state = "DISCONNECTED"
          /\ d.sinceReconnect = 0
          /\ d.retryCounter = c.retryCounter + 1
      <4> HIDE DEF counted
      <4>1. QED
        BY <2>1, DisconnectFields
    <3> HIDE DEF d
    <3>3. d \in ConnectionRecord
      BY <3>1 DEF d
    <3>4. LET r == Connect(d, b)
          IN  /\ r.state = d.state /\ r.open = b
              /\ r.sinceReconnect = d.sinceReconnect
              /\ r.retryCounter = d.retryCounter
      BY <3>3 DEF Connect, ConnectionRecord
    <3>5. QED
      BY <3>2, <3>4 DEF d
  <2>4. Reconnect(c, b) = IF IsDead(counted) THEN counted
                          ELSE Connect(Disconnect(counted), b)
    BY <1>2 DEF Reconnect
  <2> HIDE DEF counted
  <2>5. QED
    BY <1>2, <2>1, <2>2, <2>3, <2>4
<1>3. QED
  BY <1>1, <1>2

--------------------------------------------------------------------------------
(* The satellite the listener is busy with stays connected.                 *)

\* The connection was marked when the listener's datagram was looked up, and
\* its last sign of life is no older than the time spent on the datagram, which
\* the time-out exceeds.
Heard ==
    listener \in {"status", "handle", "answer"} =>
        /\ msg.id \in Known
        /\ satellites[msg.id].state = "CONNECTED"
        /\ satellites[msg.id].sinceHeartbeat <= stall

\* Only strangers are added.
AddedIsStranger ==
    listener = "added" => msg.id \in Known /\ msg.id \notin Configured

HeardInv == TypeOK /\ Heard /\ AddedIsStranger

LEMMA InitHeard == Init => HeardInv
BY InitType DEF Init, HeardInv, Heard, AddedIsStranger

\* A step of the update thread on s does not touch a connection that the
\* listener relies on.
LEMMA OthersUntouched ==
    ASSUME HeardInv, NEW s \in Sats, TimeOut(s) \/ Retry(s)
    PROVE  /\ s \in Known /\ Known' = Known
           /\ \A x \in Known : x # s => satellites'[x] = satellites[x]
           /\ listener \in {"status", "handle", "answer"} => s # msg.id
<1>1. satellites \in [Known -> ConnectionRecord] /\ s \in Known
  BY DEF HeardInv, TypeOK, TimeOut, Retry, Visit
<1>2. \E c \in ConnectionRecord : satellites' = WithConnection(s, c)
  BY <1>1, DisconnectType, ReconnectType, GroundControlAssumption
     DEF TimeOut, Retry
<1>3. /\ Known' = Known \cup {s}
      /\ \A x \in Known : x # s => satellites'[x] = satellites[x]
  BY <1>1, <1>2, WithConnectionMap
<1>4. listener \in {"status", "handle", "answer"} => s # msg.id
  <2> SUFFICES ASSUME listener \in {"status", "handle", "answer"}, s = msg.id
               PROVE  FALSE
    OBVIOUS
  <2>1. /\ satellites[s].state = "CONNECTED"
        /\ satellites[s].sinceHeartbeat <= stall
    BY DEF HeardInv, Heard
  <2>2. satellites[s].sinceHeartbeat \in Nat /\ stall \in Nat /\ stall <= TIMEOUT_THRESHOLD
    BY <1>1, ConfigAssumption, GroundControlAssumption
       DEF HeardInv, TypeOK, ConnectionRecord
  <2>3. ~IsTimedOut(satellites[s])
    BY <2>1, <2>2, ConfigAssumption DEF IsTimedOut
  <2>4. QED
    BY <2>1, <2>3 DEF TimeOut, Retry
<1>5. QED
  BY <1>1, <1>3, <1>4

LEMMA NextHeard == HeardInv /\ [Next]_vars => HeardInv'
<1> SUFFICES ASSUME HeardInv, [Next]_vars PROVE Heard' /\ AddedIsStranger'
  BY NextType DEF HeardInv
<1> USE DEF HeardInv
<1>1. ASSUME UNCHANGED <<satellites, listener, msg, stall>>
      PROVE  Heard' /\ AddedIsStranger'
  BY <1>1 DEF Heard, AddedIsStranger, Known
<1>2. ASSUME NEW m \in Messages, Receive(m) PROVE Heard' /\ AddedIsStranger'
  BY <1>2 DEF Receive, Listener, Heard, AddedIsStranger
<1>3. CASE AddConnection
  <2>1. Known' = Known \cup {msg.id}
    BY <1>3 DEF AddConnection, WithConnection, Known
  <2>2. QED
    BY <1>3, <2>1 DEF AddConnection, Listener, Heard, AddedIsStranger, TypeOK
<1>4. CASE HeartbeatSat
  <2>1. satellites[msg.id] \in ConnectionRecord
    BY <1>4 DEF HeartbeatSat, TypeOK
  <2>2. msg.id \in Known' /\ satellites'[msg.id] = MarkConnected(Heartbeat(satellites[msg.id]))
    BY <1>4 DEF HeartbeatSat, WithConnection, Known
  <2>3. /\ satellites'[msg.id].state = "CONNECTED"
        /\ satellites'[msg.id].sinceHeartbeat = 0
    BY <2>1, <2>2, HeardFields
  <2>4. stall \in Nat /\ msg' = msg /\ stall' = stall /\ listener' # "added"
    BY <1>4, GroundControlAssumption DEF HeartbeatSat, Listener, TypeOK
  <2>5. QED
    BY <2>2, <2>3, <2>4 DEF Heard, AddedIsStranger
<1>5. CASE PushStatus
  BY <1>5 DEF PushStatus, Listener, Heard, AddedIsStranger, Known
<1>6. CASE Handle
  BY <1>6 DEF Handle, Listener, Heard, AddedIsStranger, Known
<1>7. CASE Answer
  BY <1>7 DEF Answer, Listener, Heard, AddedIsStranger
<1>8. ASSUME NEW s \in Sats, TimeOut(s) \/ Retry(s) PROVE Heard' /\ AddedIsStranger'
  <2>1. UNCHANGED listenVars
    BY <1>8 DEF TimeOut, Retry, Visit
  <2>2. QED
    BY <1>8, <2>1, OthersUntouched DEF Heard, AddedIsStranger, listenVars
<1>9. CASE Tick
  <2>1. CASE listener \in {"status", "handle", "answer"}
    <3>1. satellites[msg.id] \in ConnectionRecord /\ msg.id \in Known
      BY <2>1 DEF Heard, TypeOK
    <3>2. msg.id \in Known' /\ satellites'[msg.id] = Elapse(satellites[msg.id])
      BY <3>1, <1>9 DEF Tick, Known
    <3>3. /\ satellites'[msg.id].state = "CONNECTED"
          /\ satellites'[msg.id].sinceHeartbeat <= satellites[msg.id].sinceHeartbeat + 1
      BY <2>1, <3>1, <3>2, ElapseFields, ConfigAssumption
         DEF Heard, Saturate, ConnectionRecord
    <3>4. /\ satellites'[msg.id].sinceHeartbeat \in Nat
          /\ satellites[msg.id].sinceHeartbeat \in Nat /\ stall \in Nat
      BY <3>1, <3>2, ElapseType, ConfigAssumption, GroundControlAssumption
         DEF ConnectionRecord, TypeOK
    <3>5. stall' = stall + 1 /\ UNCHANGED <<listener, msg>>
      BY <1>9, <2>1 DEF Tick
    <3>6. QED
      BY <2>1, <3>2, <3>3, <3>4, <3>5 DEF Heard, AddedIsStranger
  <2>2. CASE listener \notin {"status", "handle", "answer"}
    BY <1>9, <2>2 DEF Tick, Heard, AddedIsStranger, Known
  <2>3. QED
    BY <2>1, <2>2
<1>10. QED
  <2>1. ASSUME NEW s \in Sats, Pass(s) \/ EnterCommand(s)
        PROVE  UNCHANGED <<satellites, listener, msg, stall>>
    BY <2>1 DEF Pass, Visit, EnterCommand, listenVars
  <2>2. ASSUME BeginSweep \/ EndSweep \/ SendCommand \/ Display \/ UNCHANGED vars
        PROVE  UNCHANGED <<satellites, listener, msg, stall>>
    BY <2>2 DEF BeginSweep, EndSweep, SendCommand, Display, listenVars, vars
  <2>3. QED
    BY <1>1, <1>2, <1>3, <1>4, <1>5, <1>6, <1>7, <1>8, <1>9, <2>1, <2>2
       DEF Next, Listen, Update

\* The satellite the listener is working on is known, connected, and was heard
\* no longer ago than the listener has been at it.
THEOREM HeardInvariant == Spec => []HeardInv
BY InitHeard, NextHeard, PTL DEF Spec

\* From the moment a datagram's sender has been looked up to the moment it has
\* been answered the sender's connection is up, although the listener gives the
\* mutex back in between and the update thread may sweep at any time: the
\* time-out is longer than the listener can be busy (MaxStall).
THEOREM HeardSatelliteStaysConnected == Spec => []HeardStaysConnected
<1>1. HeardInv => HeardStaysConnected
  BY DEF HeardInv, Heard, HeardStaysConnected
<1>2. QED
  BY <1>1, HeardInvariant, PTL

--------------------------------------------------------------------------------
(* What one step does to one connection.                                    *)

\* A connected satellite has no attempts counted against it.
CountReset ==
    \A s \in Known : satellites[s].state = "CONNECTED" => satellites[s].retryCounter = 0

Marked(s) ==
    /\ HeartbeatSat /\ s = msg.id
    /\ satellites'[s] = MarkConnected(Heartbeat(satellites[s]))

TimedOut(s) == TimeOut(s) /\ satellites'[s] = Disconnect(satellites[s])

Retried(s) ==
    /\ Retry(s)
    /\ \E b \in SocketOutcomes : satellites'[s] = Reconnect(satellites[s], b)

Aged(s) == Tick /\ satellites'[s] = Elapse(satellites[s])

\* No step touches a connection in any other way, and a new one is as the
\* constructor and connect() leave it.
LEMMA StepOfOne ==
    ASSUME TypeOK, [Next]_vars, NEW s \in Known'
    PROVE  \/ s \in Known /\ satellites'[s] = satellites[s] /\ ~Tick
           \/ s \in Known /\ Aged(s)
           \/ s \in Known /\ Marked(s)
           \/ s \in Known /\ TimedOut(s)
           \/ s \in Known /\ Retried(s)
           \/ /\ AddConnection /\ s \notin Known /\ s = msg.id
              /\ \E b \in SocketOutcomes : satellites'[s] = Connect(NewConnection, b)
<1>1. satellites \in [Known -> ConnectionRecord]
  BY DEF TypeOK
<1>2. ASSUME UNCHANGED satellites
      PROVE  s \in Known /\ satellites'[s] = satellites[s]
  BY <1>2 DEF Known
<1>3. CASE Tick
  BY <1>3 DEF Tick, Aged, Known
<1>4. CASE HeartbeatSat
  <2>1. \A x \in Known : x # msg.id => satellites'[x] = satellites[x]
    BY <1>4 DEF HeartbeatSat, WithConnection, Known
  <2>2. Known' = Known /\ satellites'[msg.id] = MarkConnected(Heartbeat(satellites[msg.id]))
    BY <1>4 DEF HeartbeatSat, WithConnection, Known
  <2>3. QED
    BY <1>3, <1>4, <2>1, <2>2 DEF Marked
<1>5. ASSUME NEW t \in Sats, TimeOut(t)
      PROVE  s \in Known /\ (TimedOut(s) \/ satellites'[s] = satellites[s])
  BY <1>5 DEF TypeOK, TimeOut, TimedOut, Visit, WithConnection, Known
<1>6. ASSUME NEW t \in Sats, Retry(t)
      PROVE  s \in Known /\ (Retried(s) \/ satellites'[s] = satellites[s])
  BY <1>6 DEF TypeOK, Retry, Retried, Visit, WithConnection, Known
<1>7. CASE AddConnection
  <2>1. CASE s = msg.id
    BY <1>7, <2>1 DEF AddConnection, WithConnection, Known
  <2>2. CASE s # msg.id
    BY <1>3, <1>7, <2>2 DEF AddConnection, WithConnection, Known
  <2>3. QED
    BY <2>1, <2>2
<1>8. CASE UNCHANGED vars
  BY <1>2, <1>3, <1>8 DEF vars
<1>9. ASSUME NEW m \in Messages, Receive(m) PROVE UNCHANGED satellites
  BY <1>9 DEF Receive
<1>10. ASSUME NEW t \in Sats, Pass(t) \/ EnterCommand(t) PROVE UNCHANGED satellites
  BY <1>10 DEF Pass, EnterCommand
<1>11. ASSUME \/ PushStatus \/ Handle \/ Answer \/ BeginSweep \/ EndSweep
              \/ SendCommand \/ Display
       PROVE  UNCHANGED satellites
  BY <1>11 DEF PushStatus, Handle, Answer, BeginSweep, EndSweep, SendCommand,
               Display
<1>12. QED
  BY <1>2, <1>3, <1>4, <1>5, <1>6, <1>7, <1>8, <1>9, <1>10, <1>11
     DEF Next, Listen, Update

LEMMA NewConnectionFields ==
    ASSUME NEW b \in BOOLEAN
    PROVE  LET c == Connect(NewConnection, b)
           IN  /\ c.state = "DISCONNECTED" /\ c.open = b
               /\ c.sinceHeartbeat = 0 /\ c.sinceReconnect = 0
               /\ c.retryCounter = 0
BY DEF Connect, NewConnection

LEMMA InitCount == Init => CountReset
BY GroundControlAssumption, NewConnectionFields DEF Init, CountReset, Known

LEMMA NextCount == TypeOK /\ CountReset /\ [Next]_vars => CountReset'
<1> SUFFICES ASSUME TypeOK, CountReset, [Next]_vars, NEW s \in Known',
                    satellites'[s].state = "CONNECTED"
             PROVE  satellites'[s].retryCounter = 0
  BY DEF CountReset
<1>1. s \in Known => satellites[s] \in ConnectionRecord
  BY DEF TypeOK
<1>2. CASE s \in Known /\ satellites'[s] = satellites[s]
  BY <1>2 DEF CountReset
<1>3. CASE s \in Known /\ Aged(s)
  BY <1>1, <1>3, ElapseFields DEF CountReset, Aged
<1>4. CASE s \in Known /\ Marked(s)
  BY <1>1, <1>4, HeardFields DEF Marked
<1>5. CASE s \in Known /\ TimedOut(s)
  BY <1>1, <1>5, DisconnectFields DEF TimedOut
<1>6. CASE s \in Known /\ Retried(s)
  BY <1>1, <1>6, ReconnectFields, GroundControlAssumption DEF Retried, Retry
<1>7. CASE \E b \in SocketOutcomes : satellites'[s] = Connect(NewConnection, b)
  BY <1>7, NewConnectionFields, GroundControlAssumption
<1>8. QED
  BY <1>2, <1>3, <1>4, <1>5, <1>6, <1>7, StepOfOne

\* Whatever marks a satellite connected also forgets the attempts made for it.
THEOREM CountInvariant == Spec => []CountReset
BY InitCount, NextCount, TypeCorrect, PTL DEF Spec

--------------------------------------------------------------------------------
(* A connection that is marked without a socket.                            *)

\* Nothing happens once an assertion has failed, and what sends, while it has not,
\* finds out about the socket.
LEMMA AnswerAborts ==
    ASSUME [Next]_vars, NEW s \in Known, ~satellites[s].open,
           listener \in {"status", "handle", "answer"}, msg.id = s
    PROVE  aborted' \/ (listener' \in {"status", "handle", "answer"} /\ msg'.id = s)
<1>1. CASE Answer
  BY <1>1 DEF Answer, SendMessageToSat
<1>2. CASE Handle \/ PushStatus
  BY <1>2 DEF Handle, PushStatus, Listener
<1>3. CASE UNCHANGED <<listener, msg>>
  BY <1>3
<1>4. QED
  <2>1. ASSUME NEW t \in Sats, TimeOut(t) \/ Retry(t) \/ Pass(t) \/ EnterCommand(t)
        PROVE  UNCHANGED <<listener, msg>>
    BY <2>1 DEF TimeOut, Retry, Pass, Visit, EnterCommand, listenVars
  <2>2. ASSUME \/ BeginSweep \/ EndSweep \/ SendCommand \/ Display \/ Tick
               \/ UNCHANGED vars
        PROVE  UNCHANGED <<listener, msg>>
    BY <2>2 DEF BeginSweep, EndSweep, SendCommand, Display, Tick, listenVars, vars
  <2>3. ~AddConnection /\ ~HeartbeatSat /\ \A m \in Messages : ~Receive(m)
    BY DEF AddConnection, HeartbeatSat, Receive, Listener
  <2>4. QED
    BY <1>1, <1>2, <1>3, <2>1, <2>2, <2>3 DEF Next

LEMMA NextNoMute == TypeOK /\ NoMuteConnection /\ [Next]_vars => NoMuteConnection'
<1> SUFFICES ASSUME TypeOK, NoMuteConnection, [Next]_vars, NEW s \in Known',
                    satellites'[s].state = "CONNECTED", ~satellites'[s].open
             PROVE  aborted' \/ (listener' \in {"status", "handle", "answer"} /\ msg'.id = s)
  BY DEF NoMuteConnection
<1>1. s \in Known => satellites[s] \in ConnectionRecord
  BY DEF TypeOK
<1>2. CASE s \in Known /\ satellites[s].state = "CONNECTED" /\ ~satellites[s].open
  <2>1. CASE aborted
    BY <2>1 DEF Next, vars
  <2>2. CASE ~aborted
    <3>1. listener \in {"status", "handle", "answer"} /\ msg.id = s
      BY <1>2, <2>2 DEF NoMuteConnection
    <3>2. QED
      BY <1>2, <3>1, AnswerAborts
  <2>3. QED
    BY <2>1, <2>2
<1>3. CASE s \in Known /\ satellites'[s] = satellites[s]
  BY <1>2, <1>3
<1>4. CASE s \in Known /\ Aged(s)
  BY <1>1, <1>2, <1>4, ElapseFields DEF Aged
<1>5. CASE s \in Known /\ Marked(s)
  BY <1>5 DEF Marked, HeartbeatSat, Listener
<1>6. CASE s \in Known /\ TimedOut(s)
  BY <1>1, <1>6, DisconnectFields DEF TimedOut
<1>7. CASE s \in Known /\ Retried(s)
  <2>1. PICK b \in BOOLEAN : satellites'[s] = Reconnect(satellites[s], b)
    BY <1>7, GroundControlAssumption DEF Retried
  <2>2. /\ satellites[s] \in ConnectionRecord /\ ~IsDead(satellites[s])
        /\ satellites[s].state = "DISCONNECTED"
    BY <1>1, <1>7 DEF Retried, Retry
  <2>3. QED
    BY <2>1, <2>2, ReconnectFields
<1>8. CASE \E b \in SocketOutcomes : satellites'[s] = Connect(NewConnection, b)
  BY <1>8, NewConnectionFields, GroundControlAssumption
<1>9. QED
  BY <1>3, <1>4, <1>5, <1>6, <1>7, <1>8, StepOfOne

\* Whatever socket() does: a connection that heartbeatSat has marked without a
\* socket does not outlive the datagram that marked it.
THEOREM NoConnectionStaysMute == Spec => []NoMuteConnection
<1>1. Init => NoMuteConnection
  <2> SUFFICES ASSUME Init, NEW s \in Known PROVE satellites[s].state # "CONNECTED"
    BY DEF NoMuteConnection
  <2>1. \E b \in BOOLEAN : satellites[s] = Connect(NewConnection, b)
    BY GroundControlAssumption DEF Init, Known
  <2>2. QED
    BY <2>1, NewConnectionFields
<1>2. QED
  BY <1>1, NextNoMute, TypeCorrect, PTL DEF Spec

--------------------------------------------------------------------------------
(* How long a satellite has been silent before it is given up.              *)

\* Every attempt that is counted, and the time since the last, is silence.
SilenceCounted ==
    \A s \in Known :
        LET c == satellites[s]
        IN  /\ c.state = "DISCONNECTED" /\ ~IsDead(c) =>
                  silence[s] >= c.retryCounter * RECONNECT_INTERVAL + c.sinceReconnect
            /\ IsDead(c) =>
                  silence[s] >= (MAX_RECONNECT_ATTEMPTS + 1) * RECONNECT_INTERVAL

LEMMA Interval ==
    ASSUME NEW n \in Nat
    PROVE  /\ (n + 1) * RECONNECT_INTERVAL = n * RECONNECT_INTERVAL + RECONNECT_INTERVAL
           /\ n * RECONNECT_INTERVAL \in Nat
           /\ \A m \in 0 .. n : m * RECONNECT_INTERVAL <= n * RECONNECT_INTERVAL
BY ConfigAssumption

LEMMA NextSilence ==
    ASSUME SilenceCap >= (MAX_RECONNECT_ATTEMPTS + 1) * RECONNECT_INTERVAL,
           TypeOK, CountReset, SilenceCounted, [Next]_vars
    PROVE  SilenceCounted'
<1> DEFINE Counted(c, q) ==
      /\ c.state = "DISCONNECTED" /\ ~IsDead(c) =>
            q >= c.retryCounter * RECONNECT_INTERVAL + c.sinceReconnect
      /\ IsDead(c) => q >= (MAX_RECONNECT_ATTEMPTS + 1) * RECONNECT_INTERVAL
<1> SUFFICES ASSUME NEW s \in Known' PROVE Counted(satellites'[s], silence'[s])
  BY DEF SilenceCounted, IsDead
<1>1. /\ s \in Known => satellites[s] \in ConnectionRecord
      /\ s \in Known => Counted(satellites[s], silence[s])
  BY DEF TypeOK, SilenceCounted
<1>2. /\ s \in Sats /\ silence \in [Sats -> 0 .. SilenceCap]
      /\ silence'[s] \in Nat
  BY NextType, GroundControlAssumption DEF TypeOK
<1>3. ~Tick /\ ~(HeartbeatSat /\ s = msg.id) => silence'[s] = silence[s]
  <2>1. HeartbeatSat /\ s # msg.id => silence'[s] = silence[s]
    BY <1>2 DEF HeartbeatSat
  <2>2. ASSUME NEW m \in Messages, Receive(m) PROVE UNCHANGED silence
    BY <2>2 DEF Receive
  <2>3. ASSUME NEW t \in Sats, TimeOut(t) \/ Retry(t) \/ Pass(t) \/ EnterCommand(t)
        PROVE  UNCHANGED silence
    BY <2>3 DEF TimeOut, Retry, Pass, Visit, EnterCommand
  <2>4. ASSUME \/ AddConnection \/ PushStatus \/ Handle \/ Answer \/ BeginSweep
               \/ EndSweep \/ SendCommand \/ Display \/ UNCHANGED vars
        PROVE  UNCHANGED silence
    BY <2>4 DEF AddConnection, PushStatus, Handle, Answer, BeginSweep, EndSweep,
                SendCommand, Display, vars
  <2>5. QED
    BY <2>1, <2>2, <2>3, <2>4 DEF Next, Listen, Update
<1>4. CASE s \in Known /\ satellites'[s] = satellites[s] /\ ~Tick
  <2>1. CASE HeartbeatSat /\ s = msg.id
    <3>1. satellites'[s] = MarkConnected(Heartbeat(satellites[s]))
      BY <1>4, <2>1 DEF HeartbeatSat, WithConnection, Known
    <3>2. satellites'[s].state = "CONNECTED" /\ satellites'[s].retryCounter = 0
      BY <1>1, <1>4, <3>1, HeardFields
    <3>3. QED
      BY <3>2, ConfigAssumption DEF IsDead
  <2>2. CASE ~(HeartbeatSat /\ s = msg.id)
    BY <1>1, <1>3, <1>4, <2>2
  <2>3. QED
    BY <2>1, <2>2
<1>5. CASE s \in Known /\ Aged(s)
  <2> DEFINE c == satellites[s]
  <2>1. /\ c \in ConnectionRecord /\ Counted(c, silence[s])
        /\ silence'[s] = Saturate(silence[s], SilenceCap)
    BY <1>1, <1>2, <1>5 DEF Aged, Tick
  <2>2. /\ satellites'[s].state = c.state
        /\ satellites'[s].retryCounter = c.retryCounter
        /\ satellites'[s].sinceReconnect = Saturate(c.sinceReconnect, RECONNECT_INTERVAL)
    BY <1>5, <2>1, ElapseFields DEF Aged
  <2>3. /\ c.retryCounter \in Nat /\ c.sinceReconnect \in 0 .. RECONNECT_INTERVAL
        /\ silence[s] \in 0 .. SilenceCap
    BY <1>2, <2>1, ConfigAssumption DEF ConnectionRecord
  <2> HIDE DEF c
  <2>4. CASE IsDead(c)
    BY <2>1, <2>2, <2>3, <2>4, GroundControlAssumption, ConfigAssumption
       DEF IsDead, Saturate
  <2>5. CASE c.state = "DISCONNECTED" /\ ~IsDead(c)
    <3>1. c.retryCounter \in 0 .. MAX_RECONNECT_ATTEMPTS
      BY <2>3, <2>5, ConfigAssumption DEF IsDead
    <3>2. /\ c.retryCounter * RECONNECT_INTERVAL \in Nat
          /\ c.retryCounter * RECONNECT_INTERVAL + RECONNECT_INTERVAL <= SilenceCap
      BY <3>1, Interval, ConfigAssumption, GroundControlAssumption
    <3>3. silence[s] >= c.retryCounter * RECONNECT_INTERVAL + c.sinceReconnect
      BY <2>1, <2>5
    <3>4. Saturate(silence[s], SilenceCap)
            >= c.retryCounter * RECONNECT_INTERVAL
                 + Saturate(c.sinceReconnect, RECONNECT_INTERVAL)
      BY <2>3, <3>2, <3>3, GroundControlAssumption, ConfigAssumption DEF Saturate
    <3>5. QED
      BY <2>1, <2>2, <2>5, <3>4 DEF IsDead
  <2>6. CASE c.state # "DISCONNECTED" /\ ~IsDead(c)
    BY <2>2, <2>6 DEF IsDead
  <2>7. QED
    BY <2>4, <2>5, <2>6
<1>6. CASE s \in Known /\ Marked(s)
  <2>1. satellites'[s].state = "CONNECTED" /\ satellites'[s].retryCounter = 0
    BY <1>1, <1>6, HeardFields DEF Marked
  <2>2. QED
    BY <2>1, ConfigAssumption DEF IsDead
<1>7. CASE s \in Known /\ TimedOut(s)
  <2>1. satellites[s].retryCounter = 0
    BY <1>7 DEF TimedOut, TimeOut, CountReset
  <2>2. satellites'[s].retryCounter = 0 /\ satellites'[s].sinceReconnect = 0
    BY <1>1, <1>7, <2>1, DisconnectFields DEF TimedOut
  <2>3. QED
    BY <1>2, <2>2, ConfigAssumption DEF IsDead
<1>8. CASE s \in Known /\ Retried(s)
  <2> DEFINE c == satellites[s]
  <2>1. PICK b \in SocketOutcomes : satellites'[s] = Reconnect(c, b)
    BY <1>8 DEF Retried
  <2>2. /\ c \in ConnectionRecord /\ Counted(c, silence[s])
        /\ ~IsDead(c) /\ c.state = "DISCONNECTED"
    BY <1>1, <1>8 DEF Retried, Retry
  <2>3. ~Tick /\ ~HeartbeatSat
    BY <1>8 DEF Retried, Retry, Visit, Tick, HeartbeatSat, MutexFree
  <2>4. silence'[s] = silence[s] /\ silence[s] \in Nat
    BY <1>2, <1>3, <2>3, GroundControlAssumption
  <2>5. /\ c.retryCounter \in 0 .. MAX_RECONNECT_ATTEMPTS
        /\ c.sinceReconnect \in 0 .. RECONNECT_INTERVAL
    BY <2>2, ConfigAssumption DEF IsDead, ConnectionRecord
  <2>6. b \in BOOLEAN
    BY GroundControlAssumption
  <2> HIDE DEF c
  <2>7. CASE ~ReconnectDue(c)
    BY <2>1, <2>2, <2>4, <2>6, <2>7, ReconnectFields
  <2>8. CASE ReconnectDue(c)
    <3>1. silence[s] >= (c.retryCounter + 1) * RECONNECT_INTERVAL
      BY <2>2, <2>4, <2>5, <2>8, Interval, ConfigAssumption DEF ReconnectDue
    <3>2. satellites'[s].retryCounter = c.retryCounter + 1
      BY <2>1, <2>2, <2>6, <2>8, ReconnectFields
    <3>3. CASE GivesUp(c)
      BY <2>4, <2>5, <3>1, <3>2, <3>3, ConfigAssumption DEF GivesUp, IsDead
    <3>4. CASE ~GivesUp(c)
      <4>1. satellites'[s].sinceReconnect = 0
        BY <2>1, <2>2, <2>6, <2>8, <3>4, ReconnectFields
      <4>2. ~IsDead(satellites'[s])
        BY <2>5, <2>8, <3>2, <3>4, ConfigAssumption DEF GivesUp, IsDead
      <4>3. (c.retryCounter + 1) * RECONNECT_INTERVAL \in Nat
        BY <2>5, ConfigAssumption
      <4>4. QED
        BY <2>4, <3>1, <3>2, <4>1, <4>2, <4>3
    <3>5. QED
      BY <3>3, <3>4
  <2>9. QED
    BY <2>7, <2>8
<1>9. CASE \E b \in SocketOutcomes : satellites'[s] = Connect(NewConnection, b)
  <2>1. satellites'[s].retryCounter = 0 /\ satellites'[s].sinceReconnect = 0
    BY <1>9, NewConnectionFields, GroundControlAssumption
  <2>2. QED
    BY <1>2, <2>1, ConfigAssumption DEF IsDead
<1>10. QED
  BY <1>4, <1>5, <1>6, <1>7, <1>8, <1>9, StepOfOne

\* A satellite that ground control gives up has been silent for one interval per
\* attempt and one more, whatever the interleaving of the listener, which starts
\* the count again at any sign of life, and the sweeps (SilenceCap is the bound
\* of the history variable that measures the silence).
THEOREM DeathTakesItsTime ==
    ASSUME SilenceCap >= (MAX_RECONNECT_ATTEMPTS + 1) * RECONNECT_INTERVAL
    PROVE  Spec => []DeadOnlyAfterSilence
<1>1. Init => SilenceCounted
  BY GroundControlAssumption, ConfigAssumption, NewConnectionFields
     DEF Init, SilenceCounted, Known, IsDead
<1>2. TypeOK /\ CountReset /\ SilenceCounted /\ [Next]_vars => SilenceCounted'
  BY NextSilence
<1>3. SilenceCounted => DeadOnlyAfterSilence
  BY DEF SilenceCounted, DeadOnlyAfterSilence
<1>4. QED
  BY <1>1, <1>2, <1>3, TypeCorrect, CountInvariant, PTL DEF Spec

--------------------------------------------------------------------------------
(* The display and the output queue.                                        *)

LEMMA PushShows ==
    ASSUME TypeOK, NEW s \in Sats, NEW up \in BOOLEAN, Push(Event(s, up))
    PROVE  ShownInTheEnd(s, up)'
<1> DEFINE n == Len(outputQueue)
<1>1. n \in Nat /\ Len(outputQueue') = n + 1 /\ outputQueue'[n + 1] = Event(s, up)
  BY DEF TypeOK, Push, Event, SatOutput
<1>2. \A j \in (n + 1) + 1 .. n + 1 : FALSE
  BY <1>1
<1> HIDE DEF n
<1>3. n + 1 \in 1 .. Len(outputQueue')
  BY <1>1
<1>4. QED
  BY <1>1, <1>2, <1>3 DEF ShownInTheEnd

\* What is shown of s in the end does not depend on the events of another.
LEMMA PushOther ==
    ASSUME TypeOK, NEW t \in Sats, NEW s \in Sats, t # s, NEW u \in BOOLEAN,
           Push(Event(t, u)), alive' = alive,
           NEW up \in BOOLEAN, ShownInTheEnd(s, up)
    PROVE  ShownInTheEnd(s, up)'
<1> DEFINE n == Len(outputQueue)
<1>1. /\ n \in Nat /\ Len(outputQueue') = n + 1
      /\ \A i \in 1 .. n : outputQueue'[i] = outputQueue[i]
      /\ outputQueue'[n + 1] = Event(t, u)
  BY DEF TypeOK, Push, Event, SatOutput
<1>2. outputQueue'[n + 1].id # s
  BY <1>1 DEF Event
<1>3. CASE \E i \in 1 .. n : /\ outputQueue[i] = Event(s, up)
                             /\ \A j \in i + 1 .. n : outputQueue[j].id # s
  <2> HIDE DEF n
  <2>1. PICK i \in 1 .. n : /\ outputQueue[i] = Event(s, up)
                            /\ \A j \in i + 1 .. n : outputQueue[j].id # s
    BY <1>3
  <2>2. i \in 1 .. Len(outputQueue') /\ outputQueue'[i] = Event(s, up)
    BY <1>1, <2>1
  <2>3. \A j \in i + 1 .. Len(outputQueue') : outputQueue'[j].id # s
    BY <1>1, <1>2, <2>1
  <2>4. QED
    BY <2>2, <2>3 DEF ShownInTheEnd
<1>4. CASE /\ \A i \in 1 .. n : outputQueue[i].id # s
           /\ alive[s] = up
  <2> HIDE DEF n
  <2>1. \A i \in 1 .. Len(outputQueue') : outputQueue'[i].id # s
    BY <1>1, <1>2, <1>4
  <2>2. QED
    BY <1>4, <2>1 DEF ShownInTheEnd
<1>5. QED
  BY <1>3, <1>4 DEF ShownInTheEnd

\* Displaying the oldest event does not change what is shown in the end.
LEMMA DisplayKeeps ==
    ASSUME TypeOK, Display, NEW s \in Configured, NEW up \in BOOLEAN,
           ShownInTheEnd(s, up)
    PROVE  ShownInTheEnd(s, up)'
<1> DEFINE n == Len(outputQueue)
<1>1. /\ n \in Nat /\ n >= 1 /\ Len(outputQueue') = n - 1
      /\ \A i \in 1 .. n - 1 : outputQueue'[i] = outputQueue[i + 1]
      /\ Head(outputQueue) = outputQueue[1]
  BY DEF TypeOK, Display
<1>2. /\ outputQueue[1].id = s => alive'[s] = outputQueue[1].alive
      /\ outputQueue[1].id # s => alive'[s] = alive[s]
  BY <1>1 DEF Display, TypeOK
<1> HIDE DEF n
<1>3. CASE \E i \in 1 .. n : /\ outputQueue[i] = Event(s, up)
                             /\ \A j \in i + 1 .. n : outputQueue[j].id # s
  <2>1. PICK i \in 1 .. n : /\ outputQueue[i] = Event(s, up)
                            /\ \A j \in i + 1 .. n : outputQueue[j].id # s
    BY <1>3
  <2>2. CASE i = 1
    <3>1. \A k \in 1 .. Len(outputQueue') : outputQueue'[k].id # s
      <4> SUFFICES ASSUME NEW k \in 1 .. n - 1 PROVE outputQueue'[k].id # s
        BY <1>1
      <4>1. k + 1 \in i + 1 .. n /\ outputQueue'[k] = outputQueue[k + 1]
        BY <1>1, <2>2
      <4>2. QED
        BY <2>1, <4>1
    <3>2. alive'[s] = up
      BY <1>2, <2>1, <2>2 DEF Event
    <3>3. QED
      BY <3>1, <3>2 DEF ShownInTheEnd
  <2>3. CASE i > 1
    <3>1. i - 1 \in 1 .. Len(outputQueue') /\ outputQueue'[i - 1] = Event(s, up)
      BY <1>1, <2>1, <2>3
    <3>2. \A k \in (i - 1) + 1 .. Len(outputQueue') : outputQueue'[k].id # s
      <4> SUFFICES ASSUME NEW k \in (i - 1) + 1 .. n - 1 PROVE outputQueue'[k].id # s
        BY <1>1
      <4>1. k + 1 \in i + 1 .. n /\ outputQueue'[k] = outputQueue[k + 1]
        BY <1>1, <2>3
      <4>2. QED
        BY <2>1, <4>1
    <3>3. QED
      BY <3>1, <3>2 DEF ShownInTheEnd
  <2>4. QED
    BY <2>2, <2>3
<1>4. CASE /\ \A i \in 1 .. n : outputQueue[i].id # s
           /\ alive[s] = up
  <2>1. \A k \in 1 .. Len(outputQueue') : outputQueue'[k].id # s
    <3> SUFFICES ASSUME NEW k \in 1 .. n - 1 PROVE outputQueue'[k].id # s
      BY <1>1
    <3>1. k + 1 \in 1 .. n /\ outputQueue'[k] = outputQueue[k + 1]
      BY <1>1
    <3>2. QED
      BY <1>4, <3>1
  <2>2. alive'[s] = up
    BY <1>1, <1>2, <1>4
  <2>3. QED
    BY <2>1, <2>2 DEF ShownInTheEnd
<1>5. QED
  BY <1>3, <1>4 DEF ShownInTheEnd, n

--------------------------------------------------------------------------------
(* The display agrees with the bookkeeping.                                 *)

\* StatusAgrees for one satellite whose status is up.
Agrees(s, up) == ShownInTheEnd(s, up) \/ (listener = "status" /\ msg.id = s)

LEMMA NextAgrees ==
    ASSUME HeardInv, HeardInv', CountReset, CountReset', [Next]_vars,
           NEW s \in Configured, NEW up \in BOOLEAN, NEW upNext \in BOOLEAN,
           up = ~IsDead(satellites[s]), upNext = ~IsDead(satellites'[s]),
           Agrees(s, up)
    PROVE  Agrees(s, upNext)'
<1>1. /\ s \in Sats /\ s \in Known /\ s \in Known'
      /\ satellites[s] \in ConnectionRecord /\ TypeOK
  BY GroundControlAssumption DEF HeardInv, TypeOK
<1>2. ASSUME UNCHANGED <<outputQueue, alive, listener, msg>>, upNext = up
      PROVE  Agrees(s, upNext)'
  BY <1>2 DEF Agrees, ShownInTheEnd
<1>3. ASSUME UNCHANGED satellites PROVE upNext = up
  BY <1>3
<1>4. ASSUME NEW m \in Messages, Receive(m) PROVE Agrees(s, upNext)'
  BY <1>3, <1>4 DEF Receive, Listener, queueVars, Agrees, ShownInTheEnd
<1>5. CASE AddConnection
  <2>1. upNext = up
    BY <1>1, <1>5 DEF AddConnection, WithConnection
  <2>2. QED
    BY <1>5, <2>1 DEF AddConnection, Listener, queueVars, Agrees, ShownInTheEnd
<1>6. CASE HeartbeatSat
  <2>1. CASE s = msg.id
    BY <1>6, <2>1 DEF HeartbeatSat, Listener, HeardInv, AddedIsStranger, Agrees
  <2>2. CASE s # msg.id
    <3>1. upNext = up
      BY <1>1, <1>6, <2>2 DEF HeartbeatSat, WithConnection
    <3>2. QED
      BY <1>6, <2>2, <3>1 DEF HeartbeatSat, Listener, queueVars, Agrees, ShownInTheEnd
  <2>3. QED
    BY <2>1, <2>2
<1>7. ASSUME listener \in {"status", "handle"}, msg.id = s, UNCHANGED satellites
      PROVE  upNext = TRUE
  <2>1. satellites'[s].retryCounter = 0
    BY <1>1, <1>7 DEF HeardInv, Heard, CountReset
  <2>2. ~IsDead(satellites'[s])
    BY <2>1, ConfigAssumption DEF IsDead
  <2>3. QED
    BY <2>2
<1>8. ASSUME Push(Event(msg.id, TRUE)), listener \in {"status", "handle"},
             UNCHANGED <<satellites, alive>>
      PROVE  ShownInTheEnd(s, upNext)'
  <2>1. msg.id \in Sats
    BY <1>1, <1>8, MsgType
  <2>2. CASE s = msg.id
    BY <1>1, <1>7, <1>8, <2>2, PushShows
  <2>3. CASE s # msg.id
    BY <1>1, <1>3, <1>8, <2>1, <2>3, PushOther DEF Agrees
  <2>4. QED
    BY <2>2, <2>3
<1>9. CASE PushStatus
  BY <1>8, <1>9 DEF PushStatus, Listener, Agrees
<1>10. CASE Handle
  <2>1. CASE Push(Event(msg.id, TRUE))
    BY <1>8, <1>10, <2>1 DEF Handle, Listener, Agrees
  <2>2. CASE UNCHANGED outputQueue
    BY <1>3, <1>10, <2>2 DEF Handle, Listener, Agrees, ShownInTheEnd
  <2>3. QED
    BY <1>10, <2>1, <2>2 DEF Handle
<1>11. CASE Answer
  BY <1>3, <1>11 DEF Answer, Listener, queueVars, Agrees, ShownInTheEnd
<1>12. ASSUME NEW t \in Sats, TimeOut(t) PROVE Agrees(s, upNext)'
  <2>1. satellites'[s] = satellites[s] \/ satellites'[s] = Disconnect(satellites[s])
    BY <1>1, <1>12 DEF TimeOut, WithConnection
  <2>2. upNext = up
    BY <1>1, <2>1, DisconnectFields DEF IsDead
  <2>3. QED
    BY <1>2, <1>12, <2>2 DEF TimeOut, Visit, listenVars
<1>13. ASSUME NEW t \in Sats, Retry(t) PROVE Agrees(s, upNext)'
  <2>1. PICK b \in SocketOutcomes :
          satellites' = WithConnection(t, Reconnect(satellites[t], b))
    BY <1>13 DEF Retry
  <2>2. UNCHANGED <<alive, listener, msg>>
    BY <1>13 DEF Retry, Visit, listenVars
  <2>3. CASE s # t
    <3>1. upNext = up
      BY <1>1, <2>1, <2>3 DEF WithConnection
    <3>2. CASE Push(Event(t, FALSE))
      BY <1>1, <2>2, <2>3, <3>1, <3>2, PushOther DEF Agrees
    <3>3. CASE UNCHANGED outputQueue
      BY <1>2, <2>2, <3>1, <3>3
    <3>4. QED
      BY <1>13, <3>2, <3>3 DEF Retry
  <2>4. CASE s = t
    <3> DEFINE c == satellites[s]
    <3>1. /\ c \in ConnectionRecord /\ ~IsDead(c) /\ c.state = "DISCONNECTED"
          /\ b \in BOOLEAN /\ satellites'[s] = Reconnect(c, b)
      BY <1>1, <1>13, <2>1, <2>4, GroundControlAssumption DEF Retry, WithConnection
    <3>2. c.retryCounter \in 0 .. MAX_RECONNECT_ATTEMPTS
      BY <3>1, ConfigAssumption DEF ConnectionRecord, IsDead
    <3>3. CASE GivesUp(c)
      <4>1. upNext = FALSE
        <5>1. satellites'[s].retryCounter = c.retryCounter + 1
          BY <3>1, <3>3, ReconnectFields DEF GivesUp
        <5>2. QED
          BY <3>3, <5>1 DEF GivesUp, IsDead
      <4>2. Push(Event(s, FALSE))
        BY <1>13, <2>4, <3>3 DEF Retry
      <4>3. QED
        BY <1>1, <4>1, <4>2, PushShows DEF Agrees
    <3>4. CASE ~GivesUp(c)
      <4>1. upNext = up
        <5>1. CASE ReconnectDue(c)
          <6>1. satellites'[s].retryCounter = c.retryCounter + 1
            BY <3>1, <5>1, ReconnectFields
          <6>2. QED
            BY <3>1, <3>2, <3>4, <5>1, <6>1, ConfigAssumption DEF GivesUp, IsDead
        <5>2. CASE ~ReconnectDue(c)
          BY <3>1, <5>2, ReconnectFields
        <5>3. QED
          BY <5>1, <5>2
      <4>2. UNCHANGED outputQueue
        BY <1>13, <2>4, <3>4 DEF Retry
      <4>3. QED
        BY <1>2, <2>2, <4>1, <4>2
    <3>5. QED
      BY <3>3, <3>4
  <2>5. QED
    BY <2>3, <2>4
<1>14. CASE Display
  <2>1. upNext = up /\ UNCHANGED listenVars
    BY <1>3, <1>14 DEF Display
  <2>2. QED
    BY <1>1, <1>14, <2>1, DisplayKeeps DEF Agrees, listenVars
<1>15. CASE Tick
  <2>1. satellites'[s] = Elapse(satellites[s])
    BY <1>1, <1>15 DEF Tick
  <2>2. upNext = up
    BY <1>1, <2>1, ElapseFields DEF IsDead
  <2>3. QED
    BY <1>2, <1>15, <2>2 DEF Tick, queueVars
<1>16. ASSUME NEW t \in Sats, Pass(t) \/ EnterCommand(t)
       PROVE  UNCHANGED <<satellites, outputQueue, alive, listener, msg>>
  BY <1>16 DEF Pass, Visit, EnterCommand, listenVars
<1>17. ASSUME BeginSweep \/ EndSweep \/ SendCommand \/ UNCHANGED vars
       PROVE  UNCHANGED <<satellites, outputQueue, alive, listener, msg>>
  BY <1>17 DEF BeginSweep, EndSweep, SendCommand, listenVars, queueVars, vars
<1>18. QED
  BY <1>2, <1>3, <1>4, <1>5, <1>6, <1>9, <1>10, <1>11, <1>12, <1>13, <1>14,
     <1>15, <1>16, <1>17
     DEF Next, Listen, Update

LEMMA InitAgrees == Init => StatusAgrees
<1> SUFFICES ASSUME Init, NEW s \in Configured
             PROVE  ShownInTheEnd(s, ~IsDead(satellites[s]))
  BY DEF StatusAgrees
<1>1. \E b \in BOOLEAN : satellites[s] = Connect(NewConnection, b)
  BY GroundControlAssumption DEF Init
<1>2. ~IsDead(satellites[s])
  BY <1>1, NewConnectionFields, ConfigAssumption DEF IsDead
<1>3. ShownInTheEnd(s, TRUE)
  BY DEF Init, ShownInTheEnd
<1>4. TRUE = ~IsDead(satellites[s])
  BY <1>2
<1>5. QED
  BY <1>3, <1>4

\* When the display thread has caught up the operator sees a configured
\* satellite dead exactly when its attempts are used up: the events that the
\* update thread pushes under the mutex and the listener pushes without it
\* reach the queue in the order of the changes they report.
THEOREM DisplayAgrees == Spec => []StatusAgrees
<1>1. /\ HeardInv /\ HeardInv' /\ CountReset /\ CountReset'
      /\ StatusAgrees /\ [Next]_vars
      => StatusAgrees'
  <2> SUFFICES ASSUME HeardInv, HeardInv', CountReset, CountReset', StatusAgrees,
                      [Next]_vars, NEW s \in Configured
               PROVE  \/ ShownInTheEnd(s, ~IsDead(satellites[s]))'
                      \/ (listener = "status" /\ msg.id = s)'
    BY DEF StatusAgrees
  <2>1. PICK up \in BOOLEAN : up = ~IsDead(satellites[s])
    OBVIOUS
  <2>2. PICK upNext \in BOOLEAN : upNext = ~IsDead(satellites'[s])
    OBVIOUS
  <2>3. Agrees(s, up)
    BY <2>1 DEF StatusAgrees, Agrees
  <2>4. Agrees(s, upNext)'
    BY <2>1, <2>2, <2>3, NextAgrees
  <2>5. QED
    BY <2>2, <2>4 DEF Agrees, IsDead
<1>2. QED
  BY <1>1, InitAgrees, HeardInvariant, CountInvariant, PTL DEF Spec

--------------------------------------------------------------------------------
(* Ground control implements the promise (its safety part).                 *)

StatusMap == [s \in Known |-> StatusOf(satellites[s])]

\* A step that changes the record of s alone changes the status of s alone.
LEMMA StatusOfOne ==
    ASSUME TypeOK, NEW s \in Known, NEW c \in ConnectionRecord,
           satellites' = WithConnection(s, c)
    PROVE  StatusMap' = [StatusMap EXCEPT ![s] = StatusOf(c)]
<1>1. /\ Known' = Known /\ satellites'[s] = c
      /\ \A x \in Known : x # s => satellites'[x] = satellites[x]
  BY DEF WithConnection, Known
<1>2. \A x \in Known : x # s => StatusOf(satellites'[x]) = StatusOf(satellites[x])
  BY <1>1
<1>3. QED
  BY <1>1, <1>2 DEF StatusMap

LEMMA PromisedInit == Init => Promise!Init
<1> SUFFICES ASSUME Init PROVE Promise!Init
  OBVIOUS
<1>1. \A s \in Known : \E b \in BOOLEAN : satellites[s] = Connect(NewConnection, b)
  BY GroundControlAssumption DEF Init, Known
<1>2. \A s \in Known : StatusOf(satellites[s]) = "lost"
  BY <1>1, NewConnectionFields, ConfigAssumption DEF StatusOf, IsDead
<1>3. Known \in SUBSET Sats
  BY InitType DEF TypeOK
<1>4. [s \in Known |-> StatusOf(satellites[s])] = [s \in Known |-> "lost"]
  BY <1>2
<1>5. (~aborted) = TRUE
  BY DEF Init
<1>6. QED
  BY <1>3, <1>4, <1>5 DEF Promise!Init

LEMMA PromisedStep ==
    TypeOK /\ TypeOK' /\ CountReset /\ [Next]_vars => [Promise!Next]_(Promise!vars)
<1> SUFFICES ASSUME TypeOK, TypeOK', CountReset, [Next]_vars
             PROVE  [Promise!Next]_(Promise!vars)
  OBVIOUS
<1> DEFINE run == ~aborted
<1>1. satellites \in [Known -> ConnectionRecord] /\ Known \subseteq Sats
  BY DEF TypeOK
<1>2. ASSUME StatusMap' = StatusMap, run' = run
      PROVE  [Promise!Next]_(Promise!vars)
  BY <1>2 DEF Promise!vars, StatusMap
<1>3. ASSUME UNCHANGED <<satellites, aborted>>
      PROVE  StatusMap' = StatusMap /\ run' = run
  BY <1>3 DEF StatusMap, Known
<1>4. ASSUME NEW s \in Known, NEW up \in Promise!Status,
             StatusMap' = [StatusMap EXCEPT ![s] = up], run' = run, run,
             \/ up = "up"
             \/ up = "lost" /\ StatusMap[s] = "up"
             \/ up = "dead" /\ StatusMap[s] = "lost"
      PROVE  Promise!Next
  <2>1. StatusMap[s] \in {"up", "lost", "dead"} /\ DOMAIN StatusMap = Known
    BY DEF StatusMap, StatusOf
  <2>2. Promise!Hear(s) \/ Promise!Lose(s) \/ Promise!Bury(s)
    BY <1>4, <2>1
       DEF Promise!Hear, Promise!Lose, Promise!Bury, Promise!Become, StatusMap
  <2>3. QED
    BY <1>1, <2>2 DEF Promise!Next
<1>5. ASSUME SendMessageToSat(msg.id) \/ SendMessageToSat(Head(inputQueue)),
             UNCHANGED satellites, run
      PROVE  [Promise!Next]_(Promise!vars)
  <2>1. StatusMap' = StatusMap
    BY <1>5 DEF StatusMap, Known
  <2>2. CASE run' = run
    BY <1>2, <2>1, <2>2
  <2>3. CASE run' # run
    <3>1. run' = FALSE
      BY <1>5, <2>3 DEF TypeOK
    <3>2. Promise!Stop
      BY <2>1, <3>1 DEF Promise!Stop, StatusMap
    <3>3. QED
      BY <3>2 DEF Promise!Next
  <2>4. QED
    BY <2>2, <2>3
<1>6. CASE Next /\ AddConnection
  <2>1. PICK b \in SocketOutcomes :
          satellites' = WithConnection(msg.id, Connect(NewConnection, b))
    BY <1>6 DEF AddConnection
  <2>2. StatusOf(Connect(NewConnection, b)) = "lost"
    BY NewConnectionFields, GroundControlAssumption, ConfigAssumption
       DEF StatusOf, IsDead
  <2>3. msg.id \in Sats /\ msg.id \notin Known
    BY <1>6, MsgType DEF AddConnection, Listener
  <2>4. StatusMap' = [x \in DOMAIN StatusMap \cup {msg.id} |->
                        IF x = msg.id THEN "lost" ELSE StatusMap[x]]
    <3>1. /\ Known' = Known \cup {msg.id}
          /\ satellites'[msg.id] = Connect(NewConnection, b)
          /\ \A x \in Known : satellites'[x] = satellites[x]
      BY <2>1, <2>3 DEF WithConnection, Known
    <3>2. \A x \in Known : StatusOf(satellites'[x]) = StatusOf(satellites[x])
      BY <3>1
    <3>3. QED
      BY <2>2, <3>1, <3>2 DEF StatusMap
  <2>5. run /\ run' = run
    BY <1>6 DEF Next, AddConnection
  <2>6. Promise!Meet(msg.id)
    BY <2>3, <2>4, <2>5 DEF Promise!Meet, StatusMap
  <2>7. QED
    BY <2>3, <2>6 DEF Promise!Next
<1>7. CASE Next /\ HeartbeatSat
  <2> DEFINE c == MarkConnected(Heartbeat(satellites[msg.id]))
  <2>1. /\ msg.id \in Known /\ satellites[msg.id] \in ConnectionRecord
        /\ satellites' = WithConnection(msg.id, c) /\ run /\ run' = run
    BY <1>1, <1>7 DEF HeartbeatSat, Next
  <2>2. StatusOf(c) = "up"
    BY <2>1, HeardFields DEF StatusOf
  <2>3. c \in ConnectionRecord
    BY <2>1, HeartbeatType, MarkConnectedType
  <2> HIDE DEF c
  <2>4. StatusMap' = [StatusMap EXCEPT ![msg.id] = "up"]
    BY <2>1, <2>2, <2>3, StatusOfOne
  <2>5. QED
    BY <1>4, <2>1, <2>4 DEF Promise!Status
<1>8. ASSUME Next, NEW s \in Sats, TimeOut(s) PROVE [Promise!Next]_(Promise!vars)
  <2> DEFINE c == Disconnect(satellites[s])
  <2>1. /\ s \in Known /\ satellites[s] \in ConnectionRecord
        /\ satellites' = WithConnection(s, c) /\ run /\ run' = run
    BY <1>1, <1>8 DEF TimeOut, Visit, Next, TypeOK
  <2>2. satellites[s].state = "CONNECTED" /\ satellites[s].retryCounter = 0
    BY <1>8, <2>1 DEF TimeOut, CountReset
  <2>3. StatusOf(c) = "lost"
    <3>1. c.state = "DISCONNECTED" /\ c.retryCounter = 0
      BY <2>1, <2>2, DisconnectFields
    <3>2. QED
      BY <3>1, ConfigAssumption DEF StatusOf, IsDead
  <2>4. c \in ConnectionRecord /\ StatusMap[s] = "up"
    BY <2>1, <2>2, DisconnectType DEF StatusMap, StatusOf
  <2> HIDE DEF c
  <2>5. StatusMap' = [StatusMap EXCEPT ![s] = "lost"]
    BY <2>1, <2>3, <2>4, StatusOfOne
  <2>6. QED
    BY <1>4, <2>1, <2>4, <2>5 DEF Promise!Status
<1>9. ASSUME Next, NEW s \in Sats, Retry(s) PROVE [Promise!Next]_(Promise!vars)
  <2>1. PICK b \in SocketOutcomes :
          satellites' = WithConnection(s, Reconnect(satellites[s], b))
    BY <1>9 DEF Retry
  <2> DEFINE c == satellites[s]
             r == Reconnect(c, b)
  <2>2. /\ s \in Known /\ c \in ConnectionRecord /\ ~IsDead(c)
        /\ c.state = "DISCONNECTED" /\ b \in BOOLEAN /\ run /\ run' = run
    BY <1>1, <1>9, GroundControlAssumption DEF Retry, Visit, Next, TypeOK
  <2>3. r \in ConnectionRecord /\ StatusMap[s] = "lost"
    BY <2>2, ReconnectType DEF StatusMap, StatusOf
  <2>4. StatusMap' = [StatusMap EXCEPT ![s] = StatusOf(r)]
    BY <2>1, <2>2, <2>3, StatusOfOne
  <2>5. StatusOf(r) \in {"lost", "dead"}
    BY <2>2, ReconnectFields DEF StatusOf
  <2>6. CASE StatusOf(r) = "dead"
    BY <1>4, <2>2, <2>3, <2>4, <2>6 DEF Promise!Status
  <2>7. CASE StatusOf(r) = "lost"
    <3>1. StatusMap' = StatusMap
      BY <2>2, <2>3, <2>4, <2>7 DEF StatusMap
    <3>2. QED
      BY <1>2, <2>2, <3>1
  <2>8. QED
    BY <2>5, <2>6, <2>7
<1>10. CASE Tick
  <2>1. Known' = Known
    BY <1>10 DEF Tick, Known
  <2>2. \A x \in Known : StatusOf(satellites'[x]) = StatusOf(satellites[x])
    <3> SUFFICES ASSUME NEW x \in Known
                 PROVE  StatusOf(satellites'[x]) = StatusOf(satellites[x])
      OBVIOUS
    <3>1. satellites'[x] = Elapse(satellites[x]) /\ satellites[x] \in ConnectionRecord
      BY <1>1, <1>10 DEF Tick
    <3>2. QED
      BY <3>1, ElapseFields DEF StatusOf, IsDead
  <2>3. StatusMap' = StatusMap
    BY <2>1, <2>2 DEF StatusMap
  <2>4. QED
    BY <1>2, <1>10, <2>3 DEF Tick
<1>11. CASE Next /\ (Answer \/ SendCommand)
  BY <1>5, <1>11 DEF Answer, SendCommand, Next
<1>12. ASSUME NEW m \in Messages, Receive(m) PROVE UNCHANGED <<satellites, aborted>>
  BY <1>12 DEF Receive
<1>13. ASSUME NEW s \in Sats, Pass(s) \/ EnterCommand(s)
       PROVE  UNCHANGED <<satellites, aborted>>
  BY <1>13 DEF Pass, Visit, EnterCommand
<1>14. ASSUME PushStatus \/ Handle \/ BeginSweep \/ EndSweep \/ Display \/ UNCHANGED vars
       PROVE  UNCHANGED <<satellites, aborted>>
  BY <1>14 DEF PushStatus, Handle, BeginSweep, EndSweep, Display, vars
<1>15. QED
  BY <1>2, <1>3, <1>6, <1>7, <1>8, <1>9, <1>10, <1>11, <1>12, <1>13, <1>14
     DEF Next, Listen, Update

\* Every step of ground control is one that the promise about its satellites
\* allows: only a lost satellite is buried, only a message brings one back.
THEOREM ImplementsPromise == Spec => KeepsSafePromise
<1>1. TypeOK /\ TypeOK' /\ CountReset /\ [Next]_vars => [Promise!Next]_(Promise!vars)
  BY PromisedStep
<1>2. QED
  BY <1>1, PromisedInit, TypeCorrect, CountInvariant, PTL
     DEF Spec, KeepsSafePromise, Promise!SafetySpec

=================================================================================

---------------------------- MODULE Downlink_proofs ----------------------------
(***************************************************************************)
(* Proofs about a satellite and ground control, for every value of the     *)
(* timing constants and every outcome of socket().                         *)
(***************************************************************************)
EXTENDS Downlink, TLAPS

--------------------------------------------------------------------------------
(* Connection: each method keeps a connection record a connection record,   *)
(* and what it does to the fields the argument below looks at.              *)

LEMMA SetField ==
    ASSUME NEW c \in ConnectionRecord
    PROVE  /\ \A v \in GCConnectionState :
                 /\ [c EXCEPT !.state = v] \in ConnectionRecord
                 /\ [c EXCEPT !.state = v].state = v
                 /\ [c EXCEPT !.state = v].open = c.open
                 /\ [c EXCEPT !.state = v].sinceHeartbeat = c.sinceHeartbeat
           /\ \A v \in BOOLEAN :
                 /\ [c EXCEPT !.open = v] \in ConnectionRecord
                 /\ [c EXCEPT !.open = v].state = c.state
                 /\ [c EXCEPT !.open = v].sinceHeartbeat = c.sinceHeartbeat
           /\ \A v \in 0 .. TIMEOUT_THRESHOLD + 1 :
                 /\ [c EXCEPT !.sinceHeartbeat = v] \in ConnectionRecord
                 /\ [c EXCEPT !.sinceHeartbeat = v].state = c.state
                 /\ [c EXCEPT !.sinceHeartbeat = v].open = c.open
                 /\ [c EXCEPT !.sinceHeartbeat = v].sinceHeartbeat = v
           /\ \A v \in 0 .. RECONNECT_INTERVAL :
                 /\ [c EXCEPT !.sinceReconnect = v] \in ConnectionRecord
                 /\ [c EXCEPT !.sinceReconnect = v].state = c.state
                 /\ [c EXCEPT !.sinceReconnect = v].open = c.open
                 /\ [c EXCEPT !.sinceReconnect = v].sinceHeartbeat = c.sinceHeartbeat
           /\ \A v \in 0 .. MAX_RECONNECT_ATTEMPTS + 1 :
                 /\ [c EXCEPT !.retryCounter = v] \in ConnectionRecord
                 /\ [c EXCEPT !.retryCounter = v].state = c.state
                 /\ [c EXCEPT !.retryCounter = v].open = c.open
                 /\ [c EXCEPT !.retryCounter = v].sinceHeartbeat = c.sinceHeartbeat
BY DEF ConnectionRecord

LEMMA NewConnectionFields ==
    NewConnection \in ConnectionRecord /\ NewConnection.sinceHeartbeat = 0
BY ConfigAssumption DEF NewConnection, ConnectionRecord, GCConnectionState

LEMMA ConnectFields ==
    ASSUME NEW c \in ConnectionRecord, NEW b \in BOOLEAN
    PROVE  /\ Connect(c, b) \in ConnectionRecord
           /\ Connect(c, b).sinceHeartbeat = c.sinceHeartbeat
BY SetField DEF Connect

\* Whoever was just heard is connected and starts afresh; its socket is as it was.
LEMMA HeardFields ==
    ASSUME NEW c \in ConnectionRecord
    PROVE  /\ MarkConnected(Heartbeat(c)) \in ConnectionRecord
           /\ MarkConnected(Heartbeat(c)).state = "CONNECTED"
           /\ MarkConnected(Heartbeat(c)).open = c.open
           /\ MarkConnected(Heartbeat(c)).sinceHeartbeat = 0
<1> DEFINE d == Heartbeat(c)
           e == [d EXCEPT !.state = "CONNECTED"]
<1>1. d \in ConnectionRecord /\ d.open = c.open /\ d.sinceHeartbeat = 0
  BY SetField, ConfigAssumption DEF Heartbeat
<1> HIDE DEF d
<1>2. MarkConnected(d) = [e EXCEPT !.retryCounter = 0]
  BY <1>1 DEF MarkConnected, ConnectionRecord
<1>3. /\ e \in ConnectionRecord /\ e.state = "CONNECTED"
      /\ e.open = c.open /\ e.sinceHeartbeat = 0
  BY <1>1, SetField DEF GCConnectionState
<1> HIDE DEF e
<1>4. /\ MarkConnected(d) \in ConnectionRecord /\ MarkConnected(d).state = "CONNECTED"
      /\ MarkConnected(d).open = c.open /\ MarkConnected(d).sinceHeartbeat = 0
  BY <1>2, <1>3, SetField, ConfigAssumption
<1>5. QED
  BY <1>4 DEF d

LEMMA DisconnectFields ==
    ASSUME NEW c \in ConnectionRecord
    PROVE  /\ Disconnect(c) \in ConnectionRecord
           /\ Disconnect(c).sinceHeartbeat = c.sinceHeartbeat
<1> DEFINE d == [c EXCEPT !.open = FALSE]
           e == [d EXCEPT !.state = "DISCONNECTED"]
<1>1. Disconnect(c) = [e EXCEPT !.sinceReconnect = 0]
  BY DEF Disconnect, ConnectionRecord
<1>2. d \in ConnectionRecord /\ d.sinceHeartbeat = c.sinceHeartbeat
  BY SetField
<1> HIDE DEF d
<1>3. e \in ConnectionRecord /\ e.sinceHeartbeat = c.sinceHeartbeat
  BY <1>2, SetField DEF GCConnectionState
<1> HIDE DEF e
<1>4. QED
  BY <1>1, <1>3, SetField, ConfigAssumption

\* update() calls reconnect() for a connection that is not dead only; without that
\* test the count would run away.
LEMMA ReconnectFields ==
    ASSUME NEW c \in ConnectionRecord, NEW b \in BOOLEAN, ~IsDead(c)
    PROVE  /\ Reconnect(c, b) \in ConnectionRecord
           /\ Reconnect(c, b).sinceHeartbeat = c.sinceHeartbeat
<1> DEFINE counted == [c EXCEPT !.retryCounter = @ + 1]
<1>1. counted \in ConnectionRecord /\ counted.sinceHeartbeat = c.sinceHeartbeat
  BY ConfigAssumption DEF ConnectionRecord, IsDead
<1>2. Reconnect(c, b) \in {c, counted, Connect(Disconnect(counted), b)}
  BY DEF Reconnect
<1> HIDE DEF counted
<1>3. /\ Connect(Disconnect(counted), b) \in ConnectionRecord
      /\ Connect(Disconnect(counted), b).sinceHeartbeat = c.sinceHeartbeat
  BY <1>1, DisconnectFields, ConnectFields
<1>4. QED
  BY <1>1, <1>2, <1>3

LEMMA ElapseFields ==
    ASSUME NEW c \in ConnectionRecord
    PROVE  /\ Elapse(c) \in ConnectionRecord
           /\ Elapse(c).state = c.state
           /\ Elapse(c).open = c.open
           /\ Elapse(c).sinceHeartbeat <= c.sinceHeartbeat + 1
<1> DEFINE h == Saturate(c.sinceHeartbeat, TIMEOUT_THRESHOLD + 1)
           r == Saturate(c.sinceReconnect, RECONNECT_INTERVAL)
           d == [c EXCEPT !.sinceHeartbeat = h]
<1>1. /\ h \in 0 .. TIMEOUT_THRESHOLD + 1 /\ r \in 0 .. RECONNECT_INTERVAL
      /\ h <= c.sinceHeartbeat + 1
  BY ConfigAssumption DEF ConnectionRecord, Saturate
<1>2. Elapse(c) = [d EXCEPT !.sinceReconnect = r]
  BY DEF Elapse, ConnectionRecord
<1> HIDE DEF h, r
<1>3. /\ d \in ConnectionRecord /\ d.state = c.state /\ d.open = c.open
      /\ d.sinceHeartbeat = h
  BY <1>1, SetField
<1> HIDE DEF d
<1>4. QED
  BY <1>1, <1>2, <1>3, SetField

--------------------------------------------------------------------------------
(* PeerConnection: the same.                                                *)

LEMMA PeerSetField ==
    ASSUME NEW c \in Peer!PeerRecord
    PROVE  /\ \A v \in Peer!ConnectionState :
                 /\ [c EXCEPT !.state = v] \in Peer!PeerRecord
                 /\ [c EXCEPT !.state = v].state = v
                 /\ [c EXCEPT !.state = v].open = c.open
                 /\ [c EXCEPT !.state = v].sinceHeartbeat = c.sinceHeartbeat
           /\ \A v \in BOOLEAN :
                 /\ [c EXCEPT !.open = v] \in Peer!PeerRecord
                 /\ [c EXCEPT !.open = v].state = c.state
                 /\ [c EXCEPT !.open = v].sinceHeartbeat = c.sinceHeartbeat
           /\ \A v \in 0 .. TIMEOUT_THRESHOLD + 1 :
                 /\ [c EXCEPT !.sinceHeartbeat = v] \in Peer!PeerRecord
                 /\ [c EXCEPT !.sinceHeartbeat = v].state = c.state
                 /\ [c EXCEPT !.sinceHeartbeat = v].open = c.open
                 /\ [c EXCEPT !.sinceHeartbeat = v].sinceHeartbeat = v
           /\ \A v \in 0 .. RECONNECT_INTERVAL :
                 /\ [c EXCEPT !.sinceReconnect = v] \in Peer!PeerRecord
                 /\ [c EXCEPT !.sinceReconnect = v].state = c.state
                 /\ [c EXCEPT !.sinceReconnect = v].open = c.open
                 /\ [c EXCEPT !.sinceReconnect = v].sinceHeartbeat = c.sinceHeartbeat
           /\ \A v \in 0 .. MAX_RECONNECT_ATTEMPTS + 1 :
                 /\ [c EXCEPT !.retryCounter = v] \in Peer!PeerRecord
                 /\ [c EXCEPT !.retryCounter = v].state = c.state
                 /\ [c EXCEPT !.retryCounter = v].open = c.open
                 /\ [c EXCEPT !.retryCounter = v].sinceHeartbeat = c.sinceHeartbeat
BY DEF Peer!PeerRecord

LEMMA NewPeerType == Peer!NewPeer \in Peer!PeerRecord
BY ConfigAssumption DEF Peer!NewPeer, Peer!PeerRecord, Peer!ConnectionState

LEMMA PeerConnectFields ==
    ASSUME NEW c \in Peer!PeerRecord, NEW b \in BOOLEAN
    PROVE  /\ Peer!Connect(c, b) \in Peer!PeerRecord
           /\ Peer!Connect(c, b).sinceHeartbeat \in {c.sinceHeartbeat, 0}
<1> DEFINE d == [c EXCEPT !.open = TRUE]
           e == [d EXCEPT !.sinceHeartbeat = 0]
<1>1. CASE b
  <2>1. Peer!Connect(c, b) = [c EXCEPT !.open = TRUE, !.sinceHeartbeat = 0, !.state = "CONNECTING"]
    BY <1>1 DEF Peer!Connect
  <2>2. Peer!Connect(c, b) = [e EXCEPT !.state = "CONNECTING"]
    BY <2>1 DEF Peer!PeerRecord
  <2>3. d \in Peer!PeerRecord
    BY PeerSetField
  <2> HIDE DEF d
  <2>4. e \in Peer!PeerRecord /\ e.sinceHeartbeat = 0
    BY <2>3, PeerSetField, ConfigAssumption
  <2> HIDE DEF e
  <2>5. "CONNECTING" \in Peer!ConnectionState
    BY DEF Peer!ConnectionState
  <2>6. /\ [e EXCEPT !.state = "CONNECTING"] \in Peer!PeerRecord
        /\ [e EXCEPT !.state = "CONNECTING"].sinceHeartbeat = 0
    BY <2>4, <2>5, PeerSetField
  <2>7. QED
    BY <2>2, <2>6
<1>2. CASE ~b
  <2>1. Peer!Connect(c, b) = [c EXCEPT !.open = FALSE]
    BY <1>2 DEF Peer!Connect
  <2>2. QED
    BY <2>1, PeerSetField
<1>3. QED
  BY <1>1, <1>2

LEMMA PeerDisconnectType ==
    ASSUME NEW c \in Peer!PeerRecord
    PROVE  Peer!Disconnect(c) \in Peer!PeerRecord
<1> DEFINE d == [c EXCEPT !.open = FALSE]
           e == [d EXCEPT !.state = "DISCONNECTED"]
<1>1. Peer!Disconnect(c) = [e EXCEPT !.sinceReconnect = 0]
  BY DEF Peer!Disconnect, Peer!PeerRecord
<1>2. d \in Peer!PeerRecord
  BY PeerSetField
<1> HIDE DEF d
<1>3. e \in Peer!PeerRecord
  BY <1>2, PeerSetField DEF Peer!ConnectionState
<1> HIDE DEF e
<1>4. QED
  BY <1>1, <1>3, PeerSetField, ConfigAssumption

LEMMA PeerHeartbeatFields ==
    ASSUME NEW c \in Peer!PeerRecord
    PROVE  /\ Peer!Heartbeat(c) \in Peer!PeerRecord
           /\ Peer!Heartbeat(c).open = c.open
           /\ Peer!Heartbeat(c).sinceHeartbeat = 0
BY PeerSetField, ConfigAssumption DEF Peer!Heartbeat

LEMMA PeerMarkConnectedFields ==
    ASSUME NEW c \in Peer!PeerRecord
    PROVE  /\ Peer!MarkConnected(c) \in Peer!PeerRecord
           /\ Peer!MarkConnected(c).state = "CONNECTED"
           /\ Peer!MarkConnected(c).open = c.open
           /\ Peer!MarkConnected(c).sinceHeartbeat = c.sinceHeartbeat
<1> DEFINE d == [c EXCEPT !.state = "CONNECTED"]
<1>1. Peer!MarkConnected(c) = [d EXCEPT !.retryCounter = 0]
  BY DEF Peer!MarkConnected, Peer!PeerRecord
<1>2. /\ d \in Peer!PeerRecord /\ d.state = "CONNECTED" /\ d.open = c.open
      /\ d.sinceHeartbeat = c.sinceHeartbeat
  BY PeerSetField DEF Peer!ConnectionState
<1> HIDE DEF d
<1>3. QED
  BY <1>1, <1>2, PeerSetField, ConfigAssumption

LEMMA PeerHeardFields ==
    ASSUME NEW c \in Peer!PeerRecord
    PROVE  /\ Peer!Heard(c) \in Peer!PeerRecord
           /\ Peer!Heard(c).state = "CONNECTED"
           /\ Peer!Heard(c).open = c.open
           /\ Peer!Heard(c).sinceHeartbeat = 0
BY PeerHeartbeatFields, PeerMarkConnectedFields DEF Peer!Heard

LEMMA PeerAddedFields ==
    ASSUME NEW b \in BOOLEAN
    PROVE  Peer!Added(b) \in Peer!PeerRecord /\ Peer!Added(b).sinceHeartbeat = 0
BY NewPeerType, PeerHeartbeatFields, PeerConnectFields, PeerMarkConnectedFields
   DEF Peer!Added

LEMMA PeerCountedType ==
    ASSUME NEW c \in Peer!PeerRecord
    PROVE  Peer!Counted(c) \in Peer!PeerRecord
<1>1. Peer!Saturate(c.retryCounter, MAX_RECONNECT_ATTEMPTS + 1)
        \in 0 .. MAX_RECONNECT_ATTEMPTS + 1
  BY ConfigAssumption DEF Peer!PeerRecord, Peer!Saturate
<1>2. QED
  BY <1>1, PeerSetField DEF Peer!Counted

LEMMA PeerUpdatedFields ==
    ASSUME NEW c \in Peer!PeerRecord, NEW b \in BOOLEAN
    PROVE  /\ Peer!Updated(c, b) \in Peer!PeerRecord
           /\ c.state = "CONNECTED" /\ c.sinceHeartbeat <= TIMEOUT_THRESHOLD =>
                 Peer!Updated(c, b) = c
<1>1. /\ Peer!Counted(c) \in Peer!PeerRecord
      /\ Peer!Connect(Peer!Disconnect(Peer!Counted(c)), b) \in Peer!PeerRecord
      /\ Peer!Disconnect(c) \in Peer!PeerRecord
  BY PeerCountedType, PeerDisconnectType, PeerConnectFields
<1>2. Peer!Reconnect(c, b) \in Peer!PeerRecord
  BY <1>1 DEF Peer!Reconnect
<1>3. c.sinceHeartbeat \in Nat
  BY DEF Peer!PeerRecord
<1>4. QED
  BY <1>1, <1>2, <1>3, ConfigAssumption DEF Peer!Updated, Peer!IsTimedOut

LEMMA PeerElapseFields ==
    ASSUME NEW c \in Peer!PeerRecord
    PROVE  /\ Peer!Elapse(c) \in Peer!PeerRecord
           /\ Peer!Elapse(c).state = c.state
           /\ Peer!Elapse(c).open = c.open
           /\ Peer!Elapse(c).sinceHeartbeat <= c.sinceHeartbeat + 1
<1> DEFINE h == Peer!Saturate(c.sinceHeartbeat, TIMEOUT_THRESHOLD + 1)
           r == Peer!Saturate(c.sinceReconnect, RECONNECT_INTERVAL)
           d == [c EXCEPT !.sinceHeartbeat = h]
<1>1. /\ h \in 0 .. TIMEOUT_THRESHOLD + 1 /\ r \in 0 .. RECONNECT_INTERVAL
      /\ h <= c.sinceHeartbeat + 1
  BY ConfigAssumption DEF Peer!PeerRecord, Peer!Saturate
<1>2. Peer!Elapse(c) = [d EXCEPT !.sinceReconnect = r]
  BY DEF Peer!Elapse, Peer!PeerRecord
<1> HIDE DEF h, r
<1>3. /\ d \in Peer!PeerRecord /\ d.state = c.state /\ d.open = c.open
      /\ d.sinceHeartbeat = h
  BY <1>1, PeerSetField
<1> HIDE DEF d
<1>4. QED
  BY <1>1, <1>2, <1>3, PeerSetField

--------------------------------------------------------------------------------
(* Type correctness.                                                        *)

LEMMA ProductBounds ==
    ASSUME NEW a \in Nat \ {0}, NEW b \in Nat \ {0}
    PROVE  a * b \in Nat /\ b <= a * b
<1>1. PICK k \in Nat : a = k + 1
  <2>1. a - 1 \in Nat /\ a = (a - 1) + 1
    OBVIOUS
  <2>2. QED
    BY <2>1
<1>2. k * b \in Nat /\ a * b = k * b + b
  BY <1>1
<1>3. QED
  BY <1>2

LEMMA PeriodType == DumpPeriod \in Nat /\ HEARTBEAT_INTERVAL \in 0 .. DumpPeriod
<1>1. DUMP_INTERVAL * HEARTBEAT_INTERVAL \in Nat
      /\ HEARTBEAT_INTERVAL <= DUMP_INTERVAL * HEARTBEAT_INTERVAL
  BY ProductBounds, DownlinkAssumption
<1>2. QED
  BY <1>1, DownlinkAssumption DEF DumpPeriod

LEMMA Outcomes == Sockets \subseteq BOOLEAN
BY DownlinkAssumption DEF Sockets

LEMMA InitType == Init => TypeOK
BY NewConnectionFields, PeriodType
   DEF Init, TypeOK, FromSatellite, FromGround

\* ConnectionHandler::addConnection leaves a connection, old or new.
LEMMA AddGroundType ==
    ASSUME TypeOK, NEW b \in BOOLEAN, AddGround(b)
    PROVE  /\ satLink' \in Peer!PeerRecord
           /\ satLink' # NoLink
           /\ downlink' \subseteq FromSatellite
           /\ Known => satLink' = satLink /\ downlink' = downlink
BY PeerAddedFields, DownlinkAssumption DEF AddGround, TypeOK, Known, FromSatellite

\* So does the end of acceptConnections' loop.
LEMMA MarkGroundType ==
    ASSUME TypeOK, MarkGround
    PROVE  /\ satLink' \in Peer!PeerRecord
           /\ satLink' # NoLink
           /\ satLink'.sinceHeartbeat = 0
           /\ downlink' \subseteq FromSatellite
           /\ Known => satLink' = Peer!Heard(satLink) /\ downlink' = downlink
<1>1. CASE Known
  <2>1. satLink \in Peer!PeerRecord
    BY <1>1 DEF TypeOK, Known
  <2>2. satLink' = Peer!Heard(satLink) /\ downlink' = downlink
    BY <1>1 DEF MarkGround
  <2>3. QED
    BY <2>1, <2>2, PeerHeardFields, DownlinkAssumption DEF TypeOK
<1>2. CASE ~Known
  <2>1. PICK opened \in Sockets : AddGround(opened)
    BY <1>2 DEF MarkGround
  <2>2. satLink' = Peer!Added(opened)
    BY <1>2, <2>1 DEF AddGround
  <2>3. QED
    BY <1>2, <2>1, <2>2, Outcomes, AddGroundType, PeerAddedFields
<1>3. QED
  BY <1>1, <1>2

LEMMA SatelliteType ==
    ASSUME TypeOK,
           \/ SatStart \/ SatKill \/ Greet \/ Dump \/ SatUpdate
           \/ (\E m \in FromGround : Hear(m)) \/ TakeCommand \/ FinishCommand
    PROVE  TypeOK'
<1>1. CASE SatStart
  BY <1>1 DEF TypeOK, SatStart, gcVars, Known
<1>2. CASE SatKill
  BY <1>2, PeriodType DEF TypeOK, SatKill, SatelliteGone, gcVars, Known
<1>3. CASE Greet
  <2>1. PICK opened \in Sockets : AddGround(opened)
    BY <1>3 DEF Greet
  <2>2. QED
    BY <1>3, <2>1, Outcomes, AddGroundType DEF TypeOK, Greet, gcVars, Known
<1>4. CASE Dump
  <2>1. downlink' \subseteq FromSatellite
    BY <1>4 DEF TypeOK, Dump, FromSatellite
  <2>2. due' \in 0 .. DumpPeriod
    BY <1>4, PeriodType DEF Dump
  <2>3. QED
    BY <1>4, <2>1, <2>2 DEF TypeOK, Dump, gcVars, Known
<1>5. CASE SatUpdate
  <2>1. CASE Known
    <3>1. PICK opened \in Sockets :
            /\ satLink' = Peer!Updated(satLink, opened)
            /\ downlink' = downlink \cup
                  {m \in {"HEARTBEAT"} : Peer!Greets(satLink, opened)}
      BY <1>5, <2>1 DEF SatUpdate
    <3>2. satLink \in Peer!PeerRecord
      BY <2>1 DEF TypeOK, Known
    <3>3. satLink' \in Peer!PeerRecord /\ satLink' # NoLink
      BY <3>1, <3>2, Outcomes, PeerUpdatedFields, DownlinkAssumption
    <3>4. downlink' \subseteq FromSatellite
      BY <3>1 DEF TypeOK, FromSatellite
    <3>5. QED
      BY <1>5, <3>3, <3>4 DEF TypeOK, SatUpdate, gcVars, Known
  <2>2. CASE ~Known
    BY <1>5, <2>2 DEF TypeOK, SatUpdate, gcVars, Known
  <2>3. QED
    BY <2>1, <2>2
<1>6. CASE \E m \in FromGround : Hear(m)
  <2>1. PICK m \in FromGround : Hear(m)
    BY <1>6
  <2>2. MarkGround
    BY <2>1 DEF Hear
  <2>3. calm' \in BOOLEAN
    BY <2>1 DEF TypeOK, Hear
  <2>4. QED
    BY <2>1, <2>2, <2>3, MarkGroundType DEF TypeOK, Hear, gcVars, Known
<1>7. CASE TakeCommand
  BY <1>7 DEF TypeOK, TakeCommand, gcVars, Known, FromSatellite
<1>8. CASE FinishCommand
  BY <1>8, MarkGroundType DEF TypeOK, FinishCommand, gcVars, Known
<1>9. QED
  BY <1>1, <1>2, <1>3, <1>4, <1>5, <1>6, <1>7, <1>8

LEMMA GroundType ==
    ASSUME TypeOK,
           \/ GcStart \/ GcKill \/ (\E m \in FromSatellite : GcHear(m))
           \/ (\E m \in FromSatellite : GcAbortAnswering(m))
           \/ GcUpdate \/ SendCommand
    PROVE  TypeOK'
<1>1. CASE GcStart
  <2>1. PICK opened \in Sockets :
          /\ gcLink' = Connect(NewConnection, opened)
          /\ uplink' = uplink \cup {m \in {"HEARTBEAT"} : opened}
    BY <1>1 DEF GcStart
  <2>2. gcLink' \in ConnectionRecord
    BY <2>1, Outcomes, NewConnectionFields, ConnectFields
  <2>3. uplink' \subseteq FromGround
    BY <2>1 DEF TypeOK, FromGround
  <2>4. QED
    BY <1>1, <2>2, <2>3 DEF TypeOK, GcStart, satVars, Known
<1>2. CASE GcKill
  BY <1>2, NewConnectionFields DEF TypeOK, GcKill, GroundGone, satVars, Known
<1>3. CASE \E m \in FromSatellite : GcHear(m)
  <2>1. PICK m \in FromSatellite : GcHear(m)
    BY <1>3
  <2>2. gcLink' \in ConnectionRecord
    BY <2>1, HeardFields DEF GcHear, TypeOK
  <2>3. QED
    BY <2>1, <2>2 DEF TypeOK, GcHear, satVars, Known, FromGround
<1>4. CASE \E m \in FromSatellite : GcAbortAnswering(m)
  <2>1. PICK m \in FromSatellite : GcAbortAnswering(m)
    BY <1>4
  <2>2. downlink' \subseteq FromSatellite
    BY <2>1 DEF TypeOK, GcAbortAnswering
  <2>3. QED
    BY <2>1, <2>2, NewConnectionFields
       DEF TypeOK, GcAbortAnswering, GroundGone, satVars, Known
<1>5. CASE GcUpdate
  <2>1. gcLink' \in ConnectionRecord
    BY <1>5, Outcomes, DisconnectFields, ReconnectFields DEF GcUpdate, TypeOK
  <2>2. uplink' \subseteq FromGround
    BY <1>5 DEF GcUpdate, TypeOK, FromGround
  <2>3. QED
    BY <1>5, <2>1, <2>2 DEF TypeOK, GcUpdate, satVars, Known
<1>6. CASE SendCommand
  BY <1>6, NewConnectionFields
     DEF TypeOK, SendCommand, GroundGone, satVars, Known, FromGround
<1>7. QED
  BY <1>1, <1>2, <1>3, <1>4, <1>5, <1>6

LEMMA WorldType ==
    ASSUME TypeOK,
           \/ (\E m \in FromSatellite : LoseDown(m))
           \/ (\E m \in FromGround : LoseUp(m))
           \/ Weather \/ Tick
    PROVE  TypeOK'
<1>1. CASE \E m \in FromSatellite : LoseDown(m)
  BY <1>1 DEF TypeOK, LoseDown, satVars, gcVars, Known
<1>2. CASE \E m \in FromGround : LoseUp(m)
  BY <1>2 DEF TypeOK, LoseUp, satVars, gcVars, Known
<1>3. CASE Weather
  BY <1>3 DEF TypeOK, Weather, satVars, gcVars, Known
<1>4. CASE Tick
  <2>1. satLink' \in Peer!PeerRecord \cup {NoLink} /\ (Known => Known')
    <3>1. CASE Known
      <4>1. satLink \in Peer!PeerRecord
        BY <3>1 DEF TypeOK, Known
      <4>2. QED
        BY <1>4, <3>1, <4>1, PeerElapseFields, DownlinkAssumption DEF Tick, Known
    <3>2. CASE ~Known
      BY <1>4, <3>2 DEF Tick, Known
    <3>3. QED
      BY <3>1, <3>2
  <2>2. due' \in 0 .. DumpPeriod
    BY <1>4, PeriodType DEF TypeOK, Tick
  <2>3. gcLink' \in ConnectionRecord
    BY <1>4, ElapseFields DEF TypeOK, Tick
  <2>4. QED
    BY <1>4, <2>1, <2>2, <2>3 DEF TypeOK, Tick
<1>5. QED
  BY <1>1, <1>2, <1>3, <1>4

LEMMA StepType == TypeOK /\ [Next]_vars => TypeOK'
<1> SUFFICES ASSUME TypeOK, [Next]_vars PROVE TypeOK'
  OBVIOUS
<1>1. CASE Next
  BY <1>1, SatelliteType, GroundType, WorldType DEF Next
<1>2. CASE UNCHANGED vars
  BY <1>2 DEF TypeOK, vars, satVars, gcVars, Known
<1>3. QED
  BY <1>1, <1>2

\* Every variable keeps its type: ground control's retry counter stays in range
\* because update() leaves a dead connection alone, the sender never oversleeps
\* a dump, and once it runs the satellite has a connection to ground control.
THEOREM TypeCorrect == Spec => []TypeOK
BY InitType, StepType, PTL DEF Spec

--------------------------------------------------------------------------------
(* No false alarm.                                                          *)

\* What a sign of life of the other end is worth, and what an end that was heard
\* in time does not do.
LEMMA CalmFacts ==
    ASSUME TypeOK, CalmInv, calm, DumpPeriod <= TIMEOUT_THRESHOLD
    PROVE  /\ ~trouble /\ satUp /\ Known /\ gcUp
           /\ satLink \in Peer!PeerRecord
           /\ satLink.state = "CONNECTED" /\ satLink.open
           /\ satLink.sinceHeartbeat \in 0 .. TIMEOUT_THRESHOLD
           /\ gcLink \in ConnectionRecord
           /\ gcLink.state = "CONNECTED" /\ gcLink.open
           /\ gcLink.sinceHeartbeat \in 0 .. TIMEOUT_THRESHOLD
           /\ SatSends
<1>1. /\ ~trouble /\ satUp /\ SatSends /\ gcUp
      /\ gcLink.state = "CONNECTED" /\ gcLink.open
      /\ gcLink.sinceHeartbeat <= DumpPeriod
      /\ satLink.sinceHeartbeat <= DumpPeriod
  BY DEF CalmInv, Linked, GroundInTime, SatelliteInTime
<1>2. /\ Known /\ satLink.state = "CONNECTED" /\ satLink.open
  BY <1>1 DEF SatSends, Peer!GetsOut, Peer!Addressed
<1>3. satLink \in Peer!PeerRecord /\ gcLink \in ConnectionRecord
  BY <1>2 DEF TypeOK, Known
<1>4. satLink.sinceHeartbeat \in Nat /\ gcLink.sinceHeartbeat \in Nat
  BY <1>3 DEF Peer!PeerRecord, ConnectionRecord
<1>5. QED
  BY <1>1, <1>2, <1>3, <1>4, PeriodType, ConfigAssumption

LEMMA InitCalm == Init => CalmInv
BY DEF Init, CalmInv, AnswerIsFresh

\* An answer is fresh when it is sent, and does not outlive the second.
LEMMA AnswersStayFresh ==
    ASSUME TypeOK, AnswerIsFresh, [Next]_vars
    PROVE  AnswerIsFresh'
<1>1. CASE GcStart
  BY <1>1, Outcomes, NewConnectionFields, ConnectFields DEF AnswerIsFresh, GcStart
<1>2. CASE GcKill \/ \E m \in FromSatellite : GcAbortAnswering(m)
  BY <1>2, NewConnectionFields
     DEF AnswerIsFresh, GcKill, GcAbortAnswering, GroundGone
<1>3. CASE \E m \in FromSatellite : GcHear(m)
  BY <1>3, HeardFields DEF AnswerIsFresh, GcHear, TypeOK
<1>4. CASE GcUpdate
  <2>1. "ACK" \in uplink' => "ACK" \in uplink
    BY <1>4 DEF GcUpdate
  <2>2. gcLink'.sinceHeartbeat = gcLink.sinceHeartbeat
    BY <1>4, Outcomes, DisconnectFields, ReconnectFields DEF GcUpdate, TypeOK
  <2>3. QED
    BY <2>1, <2>2 DEF AnswerIsFresh
<1>5. CASE SendCommand
  <2>1. CASE gcLink.open
    <3>1. UNCHANGED gcLink /\ ("ACK" \in uplink' => "ACK" \in uplink)
      BY <1>5, <2>1 DEF SendCommand
    <3>2. QED
      BY <3>1 DEF AnswerIsFresh
  <2>2. CASE ~gcLink.open
    BY <1>5, <2>2, NewConnectionFields DEF AnswerIsFresh, SendCommand, GroundGone
  <2>3. QED
    BY <2>1, <2>2
<1>6. CASE Tick
  BY <1>6 DEF AnswerIsFresh, Tick
<1>7. CASE UNCHANGED gcLink /\ uplink' \subseteq uplink
  BY <1>7 DEF AnswerIsFresh
<1>8. CASE \/ SatStart \/ SatKill \/ Greet \/ Dump \/ SatUpdate
           \/ (\E m \in FromGround : Hear(m)) \/ TakeCommand \/ FinishCommand
  <2>1. UNCHANGED gcLink /\ uplink' \subseteq uplink
    BY <1>8
       DEF SatStart, SatKill, Greet, Dump, SatUpdate, Hear, TakeCommand,
           FinishCommand, gcVars
  <2>2. QED
    BY <1>7, <2>1
<1>9. CASE \/ (\E m \in FromSatellite : LoseDown(m))
           \/ (\E m \in FromGround : LoseUp(m)) \/ Weather
  <2>1. UNCHANGED gcLink /\ uplink' \subseteq uplink
    BY <1>9 DEF LoseDown, LoseUp, Weather, gcVars
  <2>2. QED
    BY <1>7, <2>1
<1>10. CASE UNCHANGED vars
  BY <1>10 DEF AnswerIsFresh, vars, gcVars
<1>11. QED
  BY <1>1, <1>2, <1>3, <1>4, <1>5, <1>6, <1>8, <1>9, <1>10 DEF Next

\* What calm promises.
CalmPromise == ~trouble /\ Linked /\ GroundInTime /\ SatelliteInTime

\* Calm begins with an answer that the satellite hears.
LEMMA CalmBegins ==
    ASSUME TypeOK, AnswerIsFresh, NEW m \in FromGround, Hear(m), ~calm, calm'
    PROVE  CalmPromise'
<1>1. m = "ACK" /\ ~trouble /\ Linked'
  BY DEF Hear, TypeOK
<1>2. /\ UNCHANGED <<gcLink, due, trouble>>
      /\ satLink'.sinceHeartbeat = 0
      /\ gcLink.sinceHeartbeat = 0
  BY <1>1, MarkGroundType DEF Hear, AnswerIsFresh, gcVars
<1>3. due \in 0 .. DumpPeriod /\ DumpPeriod \in Nat
  BY PeriodType DEF TypeOK
<1>4. QED
  BY <1>1, <1>2, <1>3, PeriodType
     DEF CalmPromise, GroundInTime, SatelliteInTime, DumpPeriod

\* The satellite keeps the calm.
LEMMA SatelliteKeepsCalm ==
    ASSUME TypeOK, CalmInv, calm, DumpPeriod <= TIMEOUT_THRESHOLD, calm',
           \/ SatStart \/ SatKill \/ Greet \/ Dump \/ SatUpdate
           \/ (\E m \in FromGround : Hear(m)) \/ TakeCommand \/ FinishCommand
    PROVE  CalmPromise'
<1> USE CalmFacts
<1>1. CalmPromise
  BY DEF CalmInv, CalmPromise
<1>2. ~SatStart /\ ~SatKill
  BY DEF SatStart, SatKill
<1>3. due \in 0 .. DumpPeriod /\ DumpPeriod \in Nat
  BY PeriodType DEF TypeOK
<1> DEFINE Alike == /\ UNCHANGED <<satUp, gcUp, gcLink, trouble>>
                    /\ satLink'.state = "CONNECTED" /\ satLink'.open
                    /\ satLink' # NoLink
<1>4. ASSUME Alike PROVE Linked'
  BY <1>4 DEF Linked, SatSends, Known, Peer!GetsOut, Peer!Addressed
<1>5. CASE Greet \/ SatUpdate \/ TakeCommand
  <2>1. UNCHANGED satLink /\ downlink \subseteq downlink'
        /\ ("ACK" \in uplink => "ACK" \in uplink')
    <3>1. CASE Greet
      <4>1. PICK opened \in Sockets : AddGround(opened)
        BY <3>1 DEF Greet
      <4>2. QED
        BY <3>1, <4>1, Outcomes, AddGroundType DEF Greet
    <3>2. CASE SatUpdate
      <4>1. PICK opened \in Sockets :
              /\ satLink' = Peer!Updated(satLink, opened)
              /\ downlink' = downlink \cup
                    {m \in {"HEARTBEAT"} : Peer!Greets(satLink, opened)}
        BY <3>2 DEF SatUpdate
      <4>2. QED
        BY <3>2, <4>1, Outcomes, PeerUpdatedFields DEF SatUpdate
    <3>3. CASE TakeCommand
      BY <3>3 DEF TakeCommand
    <3>4. QED
      BY <1>5, <3>1, <3>2, <3>3
  <2>2. UNCHANGED <<satUp, gcUp, gcLink, trouble, due>>
    BY <1>5 DEF Greet, SatUpdate, TakeCommand, gcVars
  <2>3. satLink # NoLink
    BY DEF Known
  <2>4. Linked'
    BY <2>1, <2>2, <2>3, <1>4
  <2>5. QED
    BY <1>1, <2>1, <2>2, <2>4
       DEF CalmPromise, GroundInTime, SatelliteInTime, DumpPeriod
<1>6. CASE Dump
  <2>1. UNCHANGED <<satUp, satLink, gcUp, gcLink, trouble>>
        /\ "FILE_MSG" \in downlink'
    BY <1>6 DEF Dump, gcVars
  <2>2. satLink # NoLink
    BY DEF Known
  <2>3. Linked'
    BY <2>1, <2>2, <1>4
  <2>4. QED
    BY <1>1, <2>1, <2>3 DEF CalmPromise, GroundInTime, SatelliteInTime, DumpPeriod
<1>7. CASE FinishCommand \/ \E m \in FromGround : Hear(m)
  <2>1. MarkGround /\ UNCHANGED <<satUp, gcUp, gcLink, trouble, due>>
    BY <1>7 DEF FinishCommand, Hear, gcVars
  <2>2. /\ satLink'.state = "CONNECTED" /\ satLink'.open
        /\ satLink' # NoLink
        /\ satLink'.sinceHeartbeat = 0
        /\ UNCHANGED downlink
    BY <2>1, MarkGroundType, PeerHeardFields
  <2>3. Linked'
    BY <2>1, <2>2, <1>4
  <2>4. QED
    BY <1>1, <1>3, <2>1, <2>2, <2>3
       DEF CalmPromise, GroundInTime, SatelliteInTime, DumpPeriod
<1>8. QED
  BY <1>2, <1>5, <1>6, <1>7

\* Ground control keeps the calm.
LEMMA GroundKeepsCalm ==
    ASSUME TypeOK, CalmInv, calm, DumpPeriod <= TIMEOUT_THRESHOLD, calm',
           \/ GcStart \/ GcKill \/ (\E m \in FromSatellite : GcHear(m))
           \/ (\E m \in FromSatellite : GcAbortAnswering(m))
           \/ GcUpdate \/ SendCommand
    PROVE  CalmPromise'
<1> USE CalmFacts
<1>1. CalmPromise
  BY DEF CalmInv, CalmPromise
<1>2. /\ ~GcStart /\ ~GcKill
      /\ ~\E m \in FromSatellite : GcAbortAnswering(m)
  BY DEF GcStart, GcKill, GcAbortAnswering
<1>3. due \in 0 .. DumpPeriod /\ DumpPeriod \in Nat
  BY PeriodType DEF TypeOK
<1>4. CASE \E m \in FromSatellite : GcHear(m)
  <2>1. PICK m \in FromSatellite : GcHear(m)
    BY <1>4
  <2>2. /\ gcLink'.state = "CONNECTED" /\ gcLink'.open
        /\ gcLink'.sinceHeartbeat = 0
    BY <2>1, HeardFields DEF GcHear
  <2>3. "ACK" \in uplink' /\ UNCHANGED <<satUp, satLink, due, gcUp, trouble>>
    BY <2>1 DEF GcHear, satVars
  <2>4. Linked'
    BY <1>1, <2>2, <2>3 DEF CalmPromise, Linked, SatSends, Known
  <2>5. QED
    BY <1>1, <1>3, <2>2, <2>3, <2>4
       DEF CalmPromise, GroundInTime, SatelliteInTime, DumpPeriod
<1>5. CASE GcUpdate \/ SendCommand
  <2>1. /\ UNCHANGED <<satUp, satLink, due, gcUp, gcLink, downlink, trouble>>
        /\ ("ACK" \in uplink => "ACK" \in uplink')
    <3>1. CASE GcUpdate
      <4>1. ~IsTimedOut(gcLink)
        BY ConfigAssumption DEF IsTimedOut
      <4>2. QED
        BY <3>1, <4>1 DEF GcUpdate, satVars
    <3>2. CASE SendCommand
      BY <3>2 DEF SendCommand, satVars
    <3>3. QED
      BY <1>5, <3>1, <3>2
  <2>2. Linked'
    BY <1>1, <2>1 DEF CalmPromise, Linked, SatSends, Known
  <2>3. QED
    BY <1>1, <2>1, <2>2
       DEF CalmPromise, GroundInTime, SatelliteInTime, DumpPeriod
<1>6. QED
  BY <1>2, <1>4, <1>5

\* A second passes: nothing is in flight, and the sender has slept a second more.
LEMMA TickKeepsCalm ==
    ASSUME TypeOK, CalmInv, calm, DumpPeriod <= TIMEOUT_THRESHOLD, Tick
    PROVE  CalmPromise'
<1> USE CalmFacts
<1>1. CalmPromise
  BY DEF CalmInv, CalmPromise
<1>2. /\ satLink' = Peer!Elapse(satLink) /\ gcLink' = Elapse(gcLink)
      /\ due > 0 /\ due' = due - 1
      /\ downlink = {} /\ uplink = {}
      /\ UNCHANGED <<satUp, gcUp, trouble, downlink, uplink>>
  BY DEF Tick
<1>3. /\ satLink'.state = "CONNECTED" /\ satLink'.open
      /\ satLink'.sinceHeartbeat <= satLink.sinceHeartbeat + 1
      /\ satLink' \in Peer!PeerRecord
  BY <1>2, PeerElapseFields
<1>4. /\ gcLink'.state = "CONNECTED" /\ gcLink'.open
      /\ gcLink'.sinceHeartbeat <= gcLink.sinceHeartbeat + 1
      /\ gcLink' \in ConnectionRecord
  BY <1>2, ElapseFields
<1>5. satLink' # NoLink
  BY <1>3, DownlinkAssumption
<1>6. Linked'
  BY <1>2, <1>3, <1>4, <1>5
     DEF Linked, SatSends, Known, Peer!GetsOut, Peer!Addressed
<1>7. /\ satLink.sinceHeartbeat + due <= DumpPeriod
      /\ gcLink.sinceHeartbeat + due <= DumpPeriod
  BY <1>1, <1>2 DEF CalmPromise, GroundInTime, SatelliteInTime
<1>8. due \in 0 .. DumpPeriod /\ DumpPeriod \in Nat
  BY PeriodType DEF TypeOK
<1>9. satLink'.sinceHeartbeat \in Nat /\ gcLink'.sinceHeartbeat \in Nat
  BY <1>3, <1>4 DEF Peer!PeerRecord, ConnectionRecord
<1>10. GroundInTime'
  <2>1. gcLink'.sinceHeartbeat + due' <= DumpPeriod
    BY <1>2, <1>4, <1>7, <1>8, <1>9
  <2>2. gcLink'.sinceHeartbeat <= DumpPeriod
    BY <1>2, <1>4, <1>7, <1>8, <1>9
  <2>3. QED
    BY <2>1, <2>2 DEF GroundInTime, DumpPeriod
<1>11. SatelliteInTime'
  <2>1. satLink'.sinceHeartbeat + due' <= DumpPeriod
    BY <1>2, <1>3, <1>7, <1>8, <1>9
  <2>2. satLink'.sinceHeartbeat <= DumpPeriod
    BY <1>2, <1>3, <1>7, <1>8, <1>9
  <2>3. QED
    BY <2>1, <2>2 DEF SatelliteInTime, DumpPeriod
<1>12. QED
  BY <1>2, <1>6, <1>10, <1>11 DEF CalmPromise

LEMMA StepCalm ==
    ASSUME TypeOK, CalmInv, [Next]_vars, DumpPeriod <= TIMEOUT_THRESHOLD
    PROVE  CalmInv'
<1>1. AnswerIsFresh'
  BY AnswersStayFresh DEF CalmInv
<1>2. ASSUME calm' PROVE CalmPromise'
  <2>1. CASE ~calm
    <3>1. PICK m \in FromGround : Hear(m)
      BY <1>2, <2>1
         DEF Next, SatStart, SatKill, Greet, Dump, SatUpdate, TakeCommand,
             FinishCommand, GcStart, GcKill, GcHear, GcAbortAnswering, GcUpdate,
             SendCommand, LoseDown, LoseUp, Weather, Tick, vars
    <3>2. QED
      BY <1>2, <2>1, <3>1, CalmBegins DEF CalmInv
  <2>2. CASE calm
    <3>1. ~(\E m \in FromSatellite : LoseDown(m))
          /\ ~(\E m \in FromGround : LoseUp(m)) /\ ~Weather
      BY <1>2, <2>2, CalmFacts DEF LoseDown, LoseUp, Weather
    <3>2. CASE UNCHANGED vars
      <4>1. CalmPromise
        BY <2>2 DEF CalmInv, CalmPromise
      <4>2. QED
        BY <3>2, <4>1
           DEF vars, satVars, gcVars, CalmPromise, Linked, SatSends, Known,
               GroundInTime, SatelliteInTime
    <3>3. CASE Tick
      BY <2>2, <3>3, TickKeepsCalm
    <3>4. QED
      BY <1>2, <2>2, <3>1, <3>2, <3>3, SatelliteKeepsCalm, GroundKeepsCalm DEF Next
  <2>3. QED
    BY <2>1, <2>2 DEF TypeOK
<1>3. QED
  BY <1>1, <1>2 DEF CalmInv, CalmPromise

\* While datagrams arrive, the dumps of the log and their answers keep both records
\* alive, whatever else happens, if a dump is due within the time-out.
THEOREM DumpsKeepTheLink ==
    ASSUME DumpPeriod <= TIMEOUT_THRESHOLD
    PROVE  Spec => []NoFalseAlarm
<1>1. Init => TypeOK /\ CalmInv
  BY InitType, InitCalm
<1>2. TypeOK /\ CalmInv /\ [Next]_vars => TypeOK' /\ CalmInv'
  BY StepType, StepCalm
<1>3. CalmInv => NoFalseAlarm
  BY DEF CalmInv, NoFalseAlarm
<1>4. QED
  BY <1>1, <1>2, <1>3, PTL DEF Spec

================================================================================

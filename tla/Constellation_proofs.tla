-------------------------- MODULE Constellation_proofs --------------------------
(***************************************************************************)
(* Proofs about the constellation, for every set of satellites, every      *)
(* topology, every value of the timing constants and every outcome of      *)
(* socket().                                                               *)
(***************************************************************************)
EXTENDS Constellation, TLAPS

--------------------------------------------------------------------------------
(* PeerConnection: each method keeps a connection record a connection      *)
(* record, and what it does to the fields the argument below looks at.     *)

LEMMA SetField ==
    ASSUME NEW c \in PeerRecord
    PROVE  /\ \A v \in ConnectionState :
                 /\ [c EXCEPT !.state = v] \in PeerRecord
                 /\ [c EXCEPT !.state = v].state = v
                 /\ [c EXCEPT !.state = v].retryCounter = c.retryCounter
                 /\ [c EXCEPT !.state = v].sinceHeartbeat = c.sinceHeartbeat
           /\ \A v \in BOOLEAN :
                 /\ [c EXCEPT !.open = v] \in PeerRecord
                 /\ [c EXCEPT !.open = v].state = c.state
                 /\ [c EXCEPT !.open = v].retryCounter = c.retryCounter
                 /\ [c EXCEPT !.open = v].sinceReconnect = c.sinceReconnect
                 /\ [c EXCEPT !.open = v].sinceHeartbeat = c.sinceHeartbeat
           /\ \A v \in 0 .. TIMEOUT_THRESHOLD + 1 :
                 /\ [c EXCEPT !.sinceHeartbeat = v] \in PeerRecord
                 /\ [c EXCEPT !.sinceHeartbeat = v].state = c.state
                 /\ [c EXCEPT !.sinceHeartbeat = v].retryCounter = c.retryCounter
                 /\ [c EXCEPT !.sinceHeartbeat = v].sinceReconnect = c.sinceReconnect
                 /\ [c EXCEPT !.sinceHeartbeat = v].sinceHeartbeat = v
           /\ \A v \in 0 .. RECONNECT_INTERVAL :
                 /\ [c EXCEPT !.sinceReconnect = v] \in PeerRecord
                 /\ [c EXCEPT !.sinceReconnect = v].state = c.state
                 /\ [c EXCEPT !.sinceReconnect = v].retryCounter = c.retryCounter
                 /\ [c EXCEPT !.sinceReconnect = v].sinceReconnect = v
                 /\ [c EXCEPT !.sinceReconnect = v].sinceHeartbeat = c.sinceHeartbeat
           /\ \A v \in 0 .. MAX_RECONNECT_ATTEMPTS + 1 :
                 /\ [c EXCEPT !.retryCounter = v] \in PeerRecord
                 /\ [c EXCEPT !.retryCounter = v].state = c.state
                 /\ [c EXCEPT !.retryCounter = v].retryCounter = v
                 /\ [c EXCEPT !.retryCounter = v].sinceReconnect = c.sinceReconnect
                 /\ [c EXCEPT !.retryCounter = v].sinceHeartbeat = c.sinceHeartbeat
BY DEF PeerRecord

LEMMA NewPeerType == NewPeer \in PeerRecord
BY ConfigAssumption DEF NewPeer, PeerRecord, ConnectionState

LEMMA ConnectFields ==
    ASSUME NEW c \in PeerRecord, NEW b \in BOOLEAN
    PROVE  /\ Connect(c, b) \in PeerRecord
           /\ Connect(c, b).state \in {c.state, "CONNECTING"}
           /\ Connect(c, b).retryCounter = c.retryCounter
           /\ Connect(c, b).sinceReconnect = c.sinceReconnect
           /\ Connect(c, b).sinceHeartbeat \in {c.sinceHeartbeat, 0}
<1> DEFINE d == [c EXCEPT !.open = TRUE]
           e == [d EXCEPT !.sinceHeartbeat = 0]
           f == [e EXCEPT !.state = "CONNECTING"]
<1>1. CASE b
  <2>1. Connect(c, b) = [c EXCEPT !.open = TRUE, !.sinceHeartbeat = 0, !.state = "CONNECTING"]
    BY <1>1 DEF Connect
  <2>2. Connect(c, b) = f
    BY <2>1 DEF PeerRecord
  <2>3. /\ d \in PeerRecord /\ d.retryCounter = c.retryCounter
        /\ d.sinceReconnect = c.sinceReconnect
    BY SetField
  <2> HIDE DEF d
  <2>4. /\ e \in PeerRecord /\ e.sinceHeartbeat = 0
        /\ e.retryCounter = c.retryCounter /\ e.sinceReconnect = c.sinceReconnect
    BY <2>3, SetField, ConfigAssumption
  <2>5. f.sinceReconnect = e.sinceReconnect
    BY <2>4 DEF PeerRecord
  <2> HIDE DEF e
  <2>6. /\ f \in PeerRecord /\ f.state = "CONNECTING" /\ f.sinceHeartbeat = 0
        /\ f.retryCounter = c.retryCounter
    BY <2>4, SetField DEF ConnectionState
  <2> HIDE DEF f
  <2>7. QED
    BY <2>2, <2>4, <2>5, <2>6
<1>2. CASE ~b
  <2>1. Connect(c, b) = [c EXCEPT !.open = FALSE]
    BY <1>2 DEF Connect
  <2>2. QED
    BY <2>1, SetField
<1>3. QED
  BY <1>1, <1>2

LEMMA DisconnectFields ==
    ASSUME NEW c \in PeerRecord
    PROVE  /\ Disconnect(c) \in PeerRecord
           /\ Disconnect(c).state = "DISCONNECTED"
           /\ Disconnect(c).retryCounter = c.retryCounter
           /\ Disconnect(c).sinceReconnect = 0
<1> DEFINE d == [c EXCEPT !.open = FALSE]
           e == [d EXCEPT !.state = "DISCONNECTED"]
           f == [e EXCEPT !.sinceReconnect = 0]
<1>1. Disconnect(c) = f
  BY DEF Disconnect, PeerRecord
<1>2. d \in PeerRecord /\ d.retryCounter = c.retryCounter
  BY SetField
<1> HIDE DEF d
<1>3. e \in PeerRecord /\ e.retryCounter = c.retryCounter /\ e.state = "DISCONNECTED"
  BY <1>2, SetField DEF ConnectionState
<1> HIDE DEF e
<1>4. /\ f \in PeerRecord /\ f.retryCounter = c.retryCounter
      /\ f.state = "DISCONNECTED" /\ f.sinceReconnect = 0
  BY <1>3, SetField, ConfigAssumption
<1> HIDE DEF f
<1>5. QED
  BY <1>1, <1>4

LEMMA HeartbeatFields ==
    ASSUME NEW c \in PeerRecord
    PROVE  Heartbeat(c) \in PeerRecord /\ Heartbeat(c).sinceHeartbeat = 0
BY SetField, ConfigAssumption DEF Heartbeat

LEMMA MarkConnectedFields ==
    ASSUME NEW c \in PeerRecord
    PROVE  /\ MarkConnected(c) \in PeerRecord
           /\ MarkConnected(c).state = "CONNECTED"
           /\ MarkConnected(c).retryCounter = 0
           /\ MarkConnected(c).sinceHeartbeat = c.sinceHeartbeat
<1> DEFINE d == [c EXCEPT !.state = "CONNECTED"]
<1>1. MarkConnected(c) = [d EXCEPT !.retryCounter = 0]
  BY DEF MarkConnected, PeerRecord
<1>2. /\ d \in PeerRecord /\ d.state = "CONNECTED"
      /\ d.sinceHeartbeat = c.sinceHeartbeat
  BY SetField DEF ConnectionState
<1> HIDE DEF d
<1>3. QED
  BY <1>1, <1>2, SetField, ConfigAssumption

LEMMA CountedFields ==
    ASSUME NEW c \in PeerRecord
    PROVE  /\ Counted(c) \in PeerRecord
           /\ Counted(c).state = c.state
           /\ Counted(c).sinceReconnect = c.sinceReconnect
           /\ Counted(c).retryCounter = Saturate(c.retryCounter, MAX_RECONNECT_ATTEMPTS + 1)
<1>1. Saturate(c.retryCounter, MAX_RECONNECT_ATTEMPTS + 1) \in 0 .. MAX_RECONNECT_ATTEMPTS + 1
  BY ConfigAssumption DEF PeerRecord, Saturate
<1>2. Counted(c) = [c EXCEPT !.retryCounter = Saturate(c.retryCounter, MAX_RECONNECT_ATTEMPTS + 1)]
  BY DEF Counted
<1>3. QED
  BY <1>1, <1>2, SetField

LEMMA ElapseFields ==
    ASSUME NEW c \in PeerRecord
    PROVE  /\ Elapse(c) \in PeerRecord
           /\ Elapse(c).state = c.state
           /\ Elapse(c).retryCounter = c.retryCounter
           /\ Elapse(c).sinceHeartbeat = Saturate(c.sinceHeartbeat, TIMEOUT_THRESHOLD + 1)
           /\ Elapse(c).sinceReconnect = Saturate(c.sinceReconnect, RECONNECT_INTERVAL)
<1> DEFINE h == Saturate(c.sinceHeartbeat, TIMEOUT_THRESHOLD + 1)
           r == Saturate(c.sinceReconnect, RECONNECT_INTERVAL)
           d == [c EXCEPT !.sinceHeartbeat = h]
           e == [d EXCEPT !.sinceReconnect = r]
<1>1. h \in 0 .. TIMEOUT_THRESHOLD + 1 /\ r \in 0 .. RECONNECT_INTERVAL
  BY ConfigAssumption DEF PeerRecord, Saturate
<1>2. Elapse(c) = e
  BY DEF Elapse, PeerRecord
<1>3. h = Saturate(c.sinceHeartbeat, TIMEOUT_THRESHOLD + 1)
  OBVIOUS
<1>4. r = Saturate(c.sinceReconnect, RECONNECT_INTERVAL)
  OBVIOUS
<1> HIDE DEF h, r
<1>5. /\ d \in PeerRecord /\ d.state = c.state
      /\ d.retryCounter = c.retryCounter /\ d.sinceHeartbeat = h
  BY <1>1, SetField
<1> HIDE DEF d
<1>6. /\ e \in PeerRecord /\ e.state = c.state
      /\ e.retryCounter = c.retryCounter /\ e.sinceHeartbeat = h /\ e.sinceReconnect = r
  BY <1>1, <1>5, SetField
<1> HIDE DEF e
<1>7. QED
  BY <1>2, <1>3, <1>4, <1>6

--------------------------------------------------------------------------------
(* What the handlers make of a connection.                                  *)

\* A peer that was just met, or just heard, is connected and starts afresh.
LEMMA FreshFields ==
    ASSUME NEW c \in PeerRecord, NEW b \in BOOLEAN
    PROVE  /\ Added(b) \in PeerRecord /\ Heard(c) \in PeerRecord
           /\ Added(b).state = "CONNECTED" /\ Heard(c).state = "CONNECTED"
           /\ Added(b).retryCounter = 0 /\ Heard(c).retryCounter = 0
           /\ Added(b).sinceHeartbeat = 0 /\ Heard(c).sinceHeartbeat = 0
<1>1. Heard(c) \in PeerRecord /\ Heard(c).state = "CONNECTED"
      /\ Heard(c).retryCounter = 0 /\ Heard(c).sinceHeartbeat = 0
  BY HeartbeatFields, MarkConnectedFields DEF Heard
<1>2. Heartbeat(NewPeer) \in PeerRecord /\ Heartbeat(NewPeer).sinceHeartbeat = 0
  BY NewPeerType, HeartbeatFields
<1>3. /\ Connect(Heartbeat(NewPeer), b) \in PeerRecord
      /\ Connect(Heartbeat(NewPeer), b).sinceHeartbeat = 0
  BY <1>2, ConnectFields
<1>4. QED
  BY <1>1, <1>3, MarkConnectedFields DEF Added

\* An attempt is made.
LEMMA AttemptFields ==
    ASSUME NEW c \in PeerRecord, NEW b \in BOOLEAN
    PROVE  LET d == Connect(Disconnect(Counted(c)), b) IN
           /\ d \in PeerRecord
           /\ d.state # "CONNECTED"
           /\ d.sinceReconnect = 0
           /\ d.retryCounter = Saturate(c.retryCounter, MAX_RECONNECT_ATTEMPTS + 1)
<1> DEFINE e == Counted(c)
           f == Disconnect(e)
<1>1. e \in PeerRecord /\ e.retryCounter = Saturate(c.retryCounter, MAX_RECONNECT_ATTEMPTS + 1)
  BY CountedFields
<1> HIDE DEF e
<1>2. f \in PeerRecord /\ f.state = "DISCONNECTED" /\ f.sinceReconnect = 0
      /\ f.retryCounter = e.retryCounter
  BY <1>1, DisconnectFields
<1> HIDE DEF f
<1>3. /\ Connect(f, b) \in PeerRecord
      /\ Connect(f, b).state # "CONNECTED"
      /\ Connect(f, b).sinceReconnect = 0
      /\ Connect(f, b).retryCounter = e.retryCounter
  BY <1>2, ConnectFields
<1>4. QED
  BY <1>1, <1>3 DEF e, f

LEMMA UpdatedType ==
    ASSUME NEW c \in PeerRecord, NEW b \in BOOLEAN
    PROVE  Updated(c, b) \in PeerRecord
BY DisconnectFields, CountedFields, AttemptFields DEF Updated, Reconnect

--------------------------------------------------------------------------------
(* Type correctness.                                                        *)

LEMMA OutcomeIsBoolean == \A b \in Sockets : b \in BOOLEAN
BY ConstellationAssumption DEF Sockets

LEMMA InitType == Init => TypeOK
<1> SUFFICES ASSUME Init PROVE TypeOK
  OBVIOUS
<1>1. ASSUME NEW s \in Sats
      PROVE  /\ Known(s) = {} /\ up[s] = FALSE
             /\ connections[s] \in [Known(s) -> PeerRecord]
             /\ silence[s] \in [Known(s) -> 0 .. SilenceCap]
  BY DEF Init, Known, NoConnections
<1>2. DOMAIN connections = Sats /\ DOMAIN silence = Sats
  BY DEF Init
<1>3. due \in [Sats -> 0 .. HEARTBEAT_INTERVAL]
  BY ConstellationAssumption DEF Init
<1>4. QED
  BY <1>1, <1>2, <1>3 DEF Init, TypeOK

LEMMA StartType ==
    ASSUME TypeOK, NEW s \in Sats, Start(s)
    PROVE  TypeOK'
<1>1. PICK opened \in [Peers[s] -> Sockets] :
          /\ connections' = [connections EXCEPT ![s] = [p \in Peers[s] |-> Added(opened[p])]]
          /\ network' = network \cup From(s, {p \in Peers[s] : opened[p]})
  BY DEF Start
<1>2. Peers[s] \subseteq Sats
  BY ConstellationAssumption
<1>3. \A p \in Peers[s] : Added(opened[p]) \in PeerRecord
  BY OutcomeIsBoolean, FreshFields, NewPeerType
<1>4. [p \in Peers[s] |-> Added(opened[p])] \in [Peers[s] -> PeerRecord]
  BY <1>3
<1>5. DOMAIN connections' = Sats /\ DOMAIN silence' = Sats
  BY <1>1 DEF TypeOK, Start
<1>6. ASSUME NEW t \in Sats
      PROVE  /\ Known(t)' \subseteq Sats
             /\ connections'[t] \in [Known(t)' -> PeerRecord]
             /\ silence'[t] \in [Known(t)' -> 0 .. SilenceCap]
             /\ up'[t] => Peers[t] \subseteq Known(t)'
  <2>1. CASE t = s
    <3>1. connections'[t] = [p \in Peers[s] |-> Added(opened[p])]
      BY <1>1, <2>1 DEF TypeOK
    <3>2. silence'[t] = [p \in Peers[s] |-> 0]
      BY <2>1 DEF TypeOK, Start
    <3>3. Known(t)' = Peers[s]
      BY <3>1 DEF Known
    <3>4. QED
      BY <1>2, <1>4, <2>1, <3>1, <3>2, <3>3, ConstellationAssumption
  <2>2. CASE t # s
    <3>1. connections'[t] = connections[t] /\ silence'[t] = silence[t] /\ up'[t] = up[t]
      BY <1>1, <2>2 DEF TypeOK, Start
    <3>2. QED
      BY <3>1 DEF TypeOK, Known
  <2>3. QED
    BY <2>1, <2>2
<1>7. network' \subseteq Sats \X Sats
  BY <1>1, <1>2 DEF TypeOK, From
<1>8. /\ up' \in [Sats -> BOOLEAN] /\ due' \in [Sats -> 0 .. HEARTBEAT_INTERVAL]
      /\ updated' \in [Sats -> BOOLEAN] /\ trouble' \in BOOLEAN
  BY DEF TypeOK, Start
<1>9. QED
  BY <1>5, <1>6, <1>7, <1>8 DEF TypeOK

LEMMA KillType ==
    ASSUME TypeOK, NEW s \in Sats, Kill(s)
    PROVE  TypeOK'
<1>1. ASSUME NEW t \in Sats
      PROVE  /\ Known(t)' \subseteq Sats
             /\ connections'[t] \in [Known(t)' -> PeerRecord]
             /\ silence'[t] \in [Known(t)' -> 0 .. SilenceCap]
             /\ up'[t] => Peers[t] \subseteq Known(t)'
  <2>1. CASE t = s
    BY <2>1 DEF TypeOK, Kill, Known, NoConnections
  <2>2. CASE t # s
    BY <2>2 DEF TypeOK, Kill, Known
  <2>3. QED
    BY <2>1, <2>2
<1>2. DOMAIN connections' = Sats /\ DOMAIN silence' = Sats
  BY DEF TypeOK, Kill
<1>3. /\ up' \in [Sats -> BOOLEAN] /\ due' \in [Sats -> 0 .. HEARTBEAT_INTERVAL]
      /\ updated' \in [Sats -> BOOLEAN] /\ trouble' \in BOOLEAN
      /\ network' \subseteq Sats \X Sats
  BY ConstellationAssumption DEF TypeOK, Kill
<1>4. QED
  BY <1>1, <1>2, <1>3 DEF TypeOK

LEMMA BroadcastType ==
    ASSUME TypeOK, NEW s \in Sats, Broadcast(s)
    PROVE  TypeOK'
<1>1. due' \in [Sats -> 0 .. HEARTBEAT_INTERVAL]
  BY ConstellationAssumption DEF TypeOK, Broadcast
<1>2. network' \subseteq Sats \X Sats
  BY DEF TypeOK, Broadcast, From
<1>3. \A t \in Sats : Known(t)' = Known(t)
  BY DEF Broadcast, Known
<1>4. QED
  BY <1>1, <1>2, <1>3 DEF TypeOK, Broadcast

LEMMA UpdateType ==
    ASSUME TypeOK, NEW s \in Sats, Update(s)
    PROVE  TypeOK'
<1>1. PICK opened \in [Known(s) -> Sockets] :
          /\ connections' = [connections EXCEPT
                ![s] = [p \in Known(s) |-> Updated(connections[s][p], opened[p])]]
          /\ network' = network \cup From(s, {p \in Known(s) :
                                                 Greets(connections[s][p], opened[p])})
  BY DEF Update
<1>2. \A p \in Known(s) : Updated(connections[s][p], opened[p]) \in PeerRecord
  BY OutcomeIsBoolean, UpdatedType DEF TypeOK
<1>3. ASSUME NEW t \in Sats
      PROVE  Known(t)' = Known(t) /\ connections'[t] \in [Known(t) -> PeerRecord]
  <2>1. CASE t = s
    <3>1. connections'[t] = [p \in Known(s) |-> Updated(connections[s][p], opened[p])]
      BY <1>1, <2>1 DEF TypeOK
    <3>2. QED
      BY <1>2, <2>1, <3>1 DEF Known
  <2>2. CASE t # s
    BY <1>1, <2>2 DEF TypeOK, Known
  <2>3. QED
    BY <2>1, <2>2
<1>4. DOMAIN connections' = Sats
  BY <1>1 DEF TypeOK
<1>5. network' \subseteq Sats \X Sats
  BY <1>1 DEF TypeOK, From
<1>6. updated' \in [Sats -> BOOLEAN]
  BY DEF TypeOK, Update
<1>7. QED
  BY <1>3, <1>4, <1>5, <1>6 DEF TypeOK, Update

\* The two functions of a satellite after it has entered a connection.
LEMMA EnterType ==
    ASSUME TypeOK, NEW s \in Sats, NEW p \in Sats, NEW c \in PeerRecord,
           Enter(s, p, c)
    PROVE  /\ DOMAIN connections' = Sats /\ DOMAIN silence' = Sats
           /\ Known(s)' = Known(s) \cup {p}
           /\ connections'[s] \in [Known(s)' -> PeerRecord]
           /\ silence'[s] \in [Known(s)' -> 0 .. SilenceCap]
           /\ connections'[s][p] = c /\ silence'[s][p] = 0
           /\ \A x \in Known(s) \ {p} : /\ connections'[s][x] = connections[s][x]
                                        /\ silence'[s][x] = silence[s][x]
           /\ \A t \in Sats \ {s} : connections'[t] = connections[t] /\ silence'[t] = silence[t]
<1>1. connections'[s] = [x \in Known(s) \cup {p} |-> IF x = p THEN c ELSE connections[s][x]]
  BY DEF TypeOK, Enter
<1>2. silence'[s] = [x \in Known(s) \cup {p} |-> IF x = p THEN 0 ELSE silence[s][x]]
  BY DEF TypeOK, Enter
<1>3. Known(s)' = Known(s) \cup {p}
  BY <1>1 DEF Known
<1>4. DOMAIN connections' = Sats /\ DOMAIN silence' = Sats
  BY DEF TypeOK, Enter
<1>5. \A t \in Sats \ {s} : connections'[t] = connections[t] /\ silence'[t] = silence[t]
  BY DEF TypeOK, Enter
<1>6. connections[s] \in [Known(s) -> PeerRecord] /\ silence[s] \in [Known(s) -> 0 .. SilenceCap]
  BY DEF TypeOK
<1>7. connections'[s] \in [Known(s)' -> PeerRecord]
  BY <1>1, <1>3, <1>6
<1>8. silence'[s] \in [Known(s)' -> 0 .. SilenceCap]
  BY <1>2, <1>3, <1>6, ConstellationAssumption
<1>9. QED
  BY <1>1, <1>2, <1>3, <1>4, <1>5, <1>7, <1>8

\* A datagram that is handled is entered as a connection that starts afresh.
LEMMA ReceiveEnters ==
    ASSUME TypeOK, NEW s \in Sats, NEW p \in Sats, Receive(s, p)
    PROVE  \E c \in PeerRecord :
              /\ Enter(s, p, c)
              /\ c.state = "CONNECTED" /\ c.retryCounter = 0 /\ c.sinceHeartbeat = 0
<1>1. CASE p \in Known(s) /\ Enter(s, p, Heard(connections[s][p]))
  <2>1. connections[s][p] \in PeerRecord
    BY <1>1 DEF TypeOK
  <2>2. QED
    BY <1>1, <2>1, FreshFields
<1>2. CASE \E opened \in Sockets : Enter(s, p, Added(opened))
  BY <1>2, OutcomeIsBoolean, NewPeerType, FreshFields
<1>3. QED
  BY <1>1, <1>2 DEF Receive

LEMMA ReceiveType ==
    ASSUME TypeOK, NEW s \in Sats, NEW p \in Sats, Receive(s, p)
    PROVE  TypeOK'
<1>1. PICK c \in PeerRecord : Enter(s, p, c)
  BY ReceiveEnters
<1>2. ASSUME NEW t \in Sats
      PROVE  /\ Known(t)' \subseteq Sats
             /\ connections'[t] \in [Known(t)' -> PeerRecord]
             /\ silence'[t] \in [Known(t)' -> 0 .. SilenceCap]
             /\ up'[t] => Peers[t] \subseteq Known(t)'
  <2>1. CASE t = s
    BY <1>1, <2>1, EnterType DEF TypeOK, Receive
  <2>2. CASE t # s
    <3>1. connections'[t] = connections[t] /\ silence'[t] = silence[t] /\ up'[t] = up[t]
      BY <1>1, <2>2, EnterType DEF Receive
    <3>2. QED
      BY <3>1 DEF TypeOK, Known
  <2>3. QED
    BY <2>1, <2>2
<1>3. network' \subseteq Sats \X Sats
  BY DEF TypeOK, Receive, From
<1>4. DOMAIN connections' = Sats /\ DOMAIN silence' = Sats
  BY <1>1, EnterType
<1>5. QED
  BY <1>2, <1>3, <1>4 DEF TypeOK, Receive

LEMMA TickType ==
    ASSUME TypeOK, Tick
    PROVE  TypeOK'
<1>1. ASSUME NEW t \in Sats
      PROVE  /\ Known(t)' = Known(t)
             /\ connections'[t] \in [Known(t) -> PeerRecord]
             /\ silence'[t] \in [Known(t) -> 0 .. SilenceCap]
  <2>1. connections'[t] = [p \in Known(t) |-> Elapse(connections[t][p])]
    BY DEF Tick
  <2>2. silence'[t] = [p \in Known(t) |-> Saturate(silence[t][p], SilenceCap)]
    BY DEF Tick
  <2>3. \A p \in Known(t) : Elapse(connections[t][p]) \in PeerRecord
    BY ElapseFields DEF TypeOK
  <2>4. \A p \in Known(t) : Saturate(silence[t][p], SilenceCap) \in 0 .. SilenceCap
    <3>1. \A p \in Known(t) : silence[t][p] \in 0 .. SilenceCap
      BY DEF TypeOK
    <3>2. QED
      BY <3>1, ConstellationAssumption DEF Saturate
  <2>5. QED
    BY <2>1, <2>2, <2>3, <2>4 DEF Known
<1>2. DOMAIN connections' = Sats /\ DOMAIN silence' = Sats
  BY DEF Tick
<1>3. due' \in [Sats -> 0 .. HEARTBEAT_INTERVAL]
  <2>1. \A s \in Sats : due[s] \in 0 .. HEARTBEAT_INTERVAL /\ (up[s] => due[s] > 0)
    BY DEF TypeOK, Tick
  <2>2. \A s \in Sats : (IF up[s] THEN due[s] - 1 ELSE due[s]) \in 0 .. HEARTBEAT_INTERVAL
    BY <2>1, ConstellationAssumption
  <2>3. QED
    BY <2>2 DEF Tick
<1>4. updated' \in [Sats -> BOOLEAN]
  BY DEF Tick
<1>5. QED
  BY <1>1, <1>2, <1>3, <1>4 DEF TypeOK, Tick

LEMMA NextType == TypeOK /\ [Next]_vars => TypeOK'
<1> SUFFICES ASSUME TypeOK, [Next]_vars PROVE TypeOK'
  OBVIOUS
<1>1. CASE \E s \in Sats : Start(s) \/ Kill(s)
  BY <1>1, StartType, KillType
<1>2. CASE \E s \in Sats : Broadcast(s)
  BY <1>2, BroadcastType
<1>3. CASE \E s \in Sats : Update(s)
  BY <1>3, UpdateType
<1>4. CASE \E s, p \in Sats : Receive(s, p)
  BY <1>4, ReceiveType
<1>5. CASE \E d \in network : Lose(d)
  BY <1>5 DEF TypeOK, Lose, Known
<1>6. CASE Weather
  BY <1>6 DEF TypeOK, Weather, Known
<1>7. CASE Tick
  BY <1>7, TickType
<1>8. CASE UNCHANGED vars
  BY <1>8 DEF TypeOK, vars, Known
<1>9. QED
  BY <1>1, <1>2, <1>3, <1>4, <1>5, <1>6, <1>7, <1>8 DEF Next

\* Every variable keeps its type.  In particular a running satellite always
\* has a connection to every peer of its command line, and no connection ever
\* counts more attempts than the one that gives it up.
THEOREM TypeCorrect == Spec => []TypeOK
<1>1. QED
  BY InitType, NextType, PTL DEF Spec

--------------------------------------------------------------------------------
(* A peer is given up only after a silence that pays for every attempt.     *)

\* Every attempt has been paid for with a silence of RECONNECT_INTERVAL, after
\* one that is longer than the threshold; what has passed since the last
\* attempt is the payment for the next, until the attempts are used up.  While
\* the connection is up, its time stamp is no older than the silence.
Paid(c, n) ==
    IF c.state = "CONNECTED"
      THEN c.retryCounter = 0 /\ n >= c.sinceHeartbeat
      ELSE n >= TIMEOUT_THRESHOLD + 1 + RECONNECT_INTERVAL * c.retryCounter
                  + (IF GivenUp(c) THEN 0 ELSE c.sinceReconnect)

AllPaid == \A s \in Sats : \A p \in Known(s) : Paid(connections[s][p], silence[s][p])

\* The bound of silence is above every value that is compared with it.
SilenceCapSuffices ==
    SilenceCap >= TIMEOUT_THRESHOLD + 1 + RECONNECT_INTERVAL * (MAX_RECONNECT_ATTEMPTS + 1)

LEMMA OneMore ==
    ASSUME NEW r \in Nat, NEW n \in Nat
    PROVE  r * n \in Nat /\ r * (n + 1) = r * n + r
OBVIOUS

LEMMA Monotone ==
    ASSUME NEW r \in Nat, NEW m \in Nat, NEW n \in Nat, m <= n
    PROVE  r * m <= r * n
<1>1. n - m \in Nat /\ n = m + (n - m)
  OBVIOUS
<1>2. r * (m + (n - m)) = r * m + r * (n - m)
  OBVIOUS
<1>3. r * (n - m) \in Nat
  BY <1>1
<1>4. r * m \in Nat
  OBVIOUS
<1>5. QED
  BY <1>1, <1>2, <1>3, <1>4

\* Disconnect and reconnect: the payments made are those the rules ask for.
LEMMA UpdatedPaid ==
    ASSUME NEW c \in PeerRecord, NEW b \in BOOLEAN, NEW n \in Nat, Paid(c, n)
    PROVE  Paid(Updated(c, b), n)
<1> DEFINE r == c.retryCounter
           R == RECONNECT_INTERVAL
<1>1. /\ r \in Nat /\ r <= MAX_RECONNECT_ATTEMPTS + 1 /\ R \in Nat
      /\ c.sinceReconnect \in Nat /\ c.sinceHeartbeat \in Nat
      /\ TIMEOUT_THRESHOLD \in Nat /\ MAX_RECONNECT_ATTEMPTS \in Nat
  BY ConfigAssumption DEF PeerRecord
<1>2. R * r \in Nat /\ R * (r + 1) = R * r + R
  BY <1>1, OneMore
<1>3. CASE c.state = "CONNECTED"
  <2>1. CASE ~IsTimedOut(c)
    BY <1>3, <2>1 DEF Updated
  <2>2. CASE IsTimedOut(c)
    <3>1. n >= TIMEOUT_THRESHOLD + 1 /\ c.retryCounter = 0
      BY <1>1, <1>3, <2>2 DEF Paid, IsTimedOut
    <3>2. Updated(c, b) = Disconnect(c)
      BY <1>3, <2>2 DEF Updated
    <3>3. /\ Disconnect(c).state # "CONNECTED" /\ Disconnect(c).retryCounter = 0
          /\ Disconnect(c).sinceReconnect = 0
      BY <3>1, DisconnectFields
    <3>4. R * 0 = 0
      BY <1>1
    <3>5. QED
      BY <1>1, <3>1, <3>2, <3>3, <3>4 DEF Paid
  <2>3. QED
    BY <2>1, <2>2
<1>4. CASE c.state # "CONNECTED"
  <2>1. Updated(c, b) = Reconnect(c, b)
    BY <1>4 DEF Updated
  <2>2. CASE ~ReconnectDue(c)
    BY <2>1, <2>2 DEF Reconnect
  <2>3. CASE ReconnectDue(c) /\ GivenUp(c)
    <3>1. r = MAX_RECONNECT_ATTEMPTS + 1
      BY <1>1, <2>3 DEF GivenUp
    <3>2. /\ Counted(c).state = c.state
          /\ Counted(c).retryCounter = r
      BY <1>1, <3>1, CountedFields DEF Saturate
    <3>3. GivenUp(Counted(c))
      BY <1>1, <3>1, <3>2 DEF GivenUp
    <3>4. Updated(c, b) = Counted(c)
      BY <2>1, <2>3, <3>3 DEF Reconnect, TriesAgain
    <3>5. n >= TIMEOUT_THRESHOLD + 1 + R * r + 0
      BY <1>4, <2>3 DEF Paid
    <3>6. QED
      BY <1>4, <3>2, <3>3, <3>4, <3>5 DEF Paid
  <2>4. CASE ReconnectDue(c) /\ ~GivenUp(c)
    <3>1. n >= TIMEOUT_THRESHOLD + 1 + R * (r + 1)
      <4>1. n >= TIMEOUT_THRESHOLD + 1 + R * r + c.sinceReconnect
        BY <1>4, <2>4 DEF Paid
      <4>2. c.sinceReconnect >= R
        BY <2>4 DEF ReconnectDue
      <4> HIDE DEF R, r
      <4>3. QED
        BY <1>1, <1>2, <4>1, <4>2
    <3>2. Saturate(r, MAX_RECONNECT_ATTEMPTS + 1) = r + 1
      BY <1>1, <2>4 DEF GivenUp, Saturate
    <3>3. CASE TriesAgain(c)
      <4>1. /\ Updated(c, b).state # "CONNECTED"
            /\ Updated(c, b).sinceReconnect = 0
            /\ Updated(c, b).retryCounter = r + 1
        BY <2>1, <2>4, <3>2, <3>3, AttemptFields DEF Reconnect
      <4>2. QED
        BY <1>1, <1>2, <3>1, <4>1 DEF Paid
    <3>4. CASE ~TriesAgain(c)
      <4>1. Updated(c, b) = Counted(c) /\ GivenUp(Counted(c))
        BY <2>1, <2>4, <3>4 DEF Reconnect, TriesAgain
      <4>2. Counted(c).state = c.state /\ Counted(c).retryCounter = r + 1
        BY <3>2, CountedFields
      <4>3. QED
        BY <1>1, <1>2, <1>4, <3>1, <4>1, <4>2 DEF Paid
    <3>5. QED
      BY <3>3, <3>4
  <2>5. QED
    BY <2>2, <2>3, <2>4
<1>5. QED
  BY <1>3, <1>4

\* A second pays for at most one second.
LEMMA ElapsePaid ==
    ASSUME SilenceCapSuffices,
           NEW c \in PeerRecord, NEW n \in 0 .. SilenceCap, Paid(c, n)
    PROVE  Paid(Elapse(c), Saturate(n, SilenceCap))
<1> DEFINE r == c.retryCounter
           R == RECONNECT_INTERVAL
           M == MAX_RECONNECT_ATTEMPTS
           T == TIMEOUT_THRESHOLD
<1>1. /\ r \in Nat /\ r <= M + 1 /\ R \in Nat /\ T \in Nat /\ M \in Nat
      /\ c.sinceReconnect \in 0 .. R /\ c.sinceHeartbeat \in 0 .. T + 1
      /\ SilenceCap \in Nat /\ n \in 0 .. SilenceCap
  BY ConfigAssumption, ConstellationAssumption DEF PeerRecord
<1>2. /\ Elapse(c).state = c.state /\ Elapse(c).retryCounter = r
      /\ Elapse(c).sinceHeartbeat = Saturate(c.sinceHeartbeat, T + 1)
      /\ Elapse(c).sinceReconnect = Saturate(c.sinceReconnect, R)
  BY ElapseFields
<1>3. GivenUp(Elapse(c)) = GivenUp(c)
  BY <1>2 DEF GivenUp
<1>4. R * r \in Nat /\ R * (M + 1) \in Nat /\ R * (M + 1) = R * M + R /\ R * M \in Nat
  BY <1>1, OneMore
<1>5. SilenceCap >= T + 1 + R * (M + 1)
  BY DEF SilenceCapSuffices
<1>6. CASE c.state = "CONNECTED"
  <2>1. r = 0 /\ n >= c.sinceHeartbeat
    BY <1>6 DEF Paid
  <2>2. SilenceCap >= T + 1
    <3> HIDE DEF R, M, T
    <3>1. QED
      BY <1>1, <1>4, <1>5
  <2>3. Saturate(n, SilenceCap) >= Saturate(c.sinceHeartbeat, T + 1)
    BY <1>1, <2>1, <2>2 DEF Saturate
  <2>4. QED
    BY <1>2, <1>6, <2>1, <2>3 DEF Paid
<1>7. CASE c.state # "CONNECTED" /\ GivenUp(c)
  <2>1. n >= T + 1 + R * r + 0
    BY <1>7 DEF Paid
  <2>2. Saturate(n, SilenceCap) >= n
    BY <1>1 DEF Saturate
  <2>3. Saturate(n, SilenceCap) \in Nat
    BY <1>1 DEF Saturate
  <2>4. Saturate(n, SilenceCap) >= T + 1 + R * r + 0
    <3> HIDE DEF R, r, T
    <3>1. QED
      BY <1>1, <1>4, <2>1, <2>2, <2>3
  <2>5. QED
    BY <1>2, <1>3, <1>7, <2>4 DEF Paid
<1>8. CASE c.state # "CONNECTED" /\ ~GivenUp(c)
  <2>1. n >= T + 1 + R * r + c.sinceReconnect
    BY <1>8 DEF Paid
  <2>2. R * r <= R * M
    BY <1>1, <1>8, Monotone DEF GivenUp
  <2>3. Saturate(n, SilenceCap) >= T + 1 + R * r + Saturate(c.sinceReconnect, R)
    <3>1. CASE n < SilenceCap
      <4>1. Saturate(n, SilenceCap) = n + 1
        BY <3>1 DEF Saturate
      <4>2. Saturate(c.sinceReconnect, R) \in Nat /\ Saturate(c.sinceReconnect, R) <= c.sinceReconnect + 1
        BY <1>1 DEF Saturate
      <4> HIDE DEF R, r, T
      <4>3. QED
        BY <1>1, <1>4, <2>1, <4>1, <4>2
    <3>2. CASE n = SilenceCap
      <4>1. Saturate(n, SilenceCap) = SilenceCap
        BY <1>1, <3>2 DEF Saturate
      <4>2. Saturate(c.sinceReconnect, R) \in Nat /\ Saturate(c.sinceReconnect, R) <= R
        BY <1>1 DEF Saturate
      <4> HIDE DEF R, r, T, M
      <4>3. QED
        BY <1>1, <1>4, <1>5, <2>2, <4>1, <4>2
    <3>3. QED
      BY <1>1, <3>1, <3>2
  <2>4. QED
    BY <1>2, <1>3, <1>8, <2>3 DEF Paid
<1>9. QED
  BY <1>6, <1>7, <1>8

\* A peer that was just met or heard owes nothing.
LEMMA FreshPaid ==
    ASSUME NEW c, c.state = "CONNECTED", c.retryCounter = 0, c.sinceHeartbeat = 0
    PROVE  Paid(c, 0)
BY DEF Paid

LEMMA NextPaid ==
    ASSUME SilenceCapSuffices, TypeOK, AllPaid, [Next]_vars
    PROVE  AllPaid'
<1> SUFFICES ASSUME NEW t \in Sats, NEW q \in Known(t)'
             PROVE  Paid(connections'[t][q], silence'[t][q])
  BY DEF AllPaid, Known
<1>1. ASSUME NEW x \in Sats, NEW y \in Known(x)
      PROVE  /\ connections[x][y] \in PeerRecord
             /\ silence[x][y] \in 0 .. SilenceCap /\ silence[x][y] \in Nat
             /\ Paid(connections[x][y], silence[x][y])
  BY DEF TypeOK, AllPaid
\* The satellites that a step does not concern.
<1>2. ASSUME connections'[t] = connections[t], silence'[t] = silence[t]
      PROVE  Paid(connections'[t][q], silence'[t][q])
  BY <1>1, <1>2 DEF Known
<1>3. ASSUME NEW s \in Sats, Start(s)
      PROVE  Paid(connections'[t][q], silence'[t][q])
  <2>1. CASE t # s
    BY <1>2, <1>3, <2>1 DEF TypeOK, Start
  <2>2. CASE t = s
    <3>1. PICK opened \in [Peers[s] -> Sockets] :
              connections' = [connections EXCEPT ![s] = [p \in Peers[s] |-> Added(opened[p])]]
      BY <1>3 DEF Start
    <3>2. connections'[t] = [p \in Peers[s] |-> Added(opened[p])]
      BY <2>2, <3>1 DEF TypeOK
    <3>3. q \in Peers[s]
      BY <3>2 DEF Known
    <3>4. silence'[t][q] = 0
      BY <1>3, <2>2, <3>3 DEF TypeOK, Start
    <3>5. connections'[t][q] = Added(opened[q])
      BY <3>2, <3>3
    <3>6. QED
      BY <3>3, <3>4, <3>5, OutcomeIsBoolean, NewPeerType, FreshFields, FreshPaid
  <2>3. QED
    BY <2>1, <2>2
<1>4. ASSUME NEW s \in Sats, Kill(s)
      PROVE  Paid(connections'[t][q], silence'[t][q])
  <2>1. t # s
    BY <1>4 DEF TypeOK, Kill, Known, NoConnections
  <2>2. QED
    BY <1>2, <1>4, <2>1 DEF TypeOK, Kill
<1>5. ASSUME NEW s \in Sats, Update(s)
      PROVE  Paid(connections'[t][q], silence'[t][q])
  <2>1. PICK opened \in [Known(s) -> Sockets] :
            connections' = [connections EXCEPT
                ![s] = [p \in Known(s) |-> Updated(connections[s][p], opened[p])]]
    BY <1>5 DEF Update
  <2>2. silence' = silence
    BY <1>5 DEF Update
  <2>3. CASE t # s
    BY <1>2, <2>1, <2>2, <2>3 DEF TypeOK
  <2>4. CASE t = s
    <3>1. connections'[t] = [p \in Known(s) |-> Updated(connections[s][p], opened[p])]
      BY <2>1, <2>4 DEF TypeOK
    <3>2. q \in Known(s)
      BY <3>1 DEF Known
    <3>3. connections'[t][q] = Updated(connections[s][q], opened[q])
      BY <3>1, <3>2
    <3>4. opened[q] \in BOOLEAN
      BY <3>2, OutcomeIsBoolean
    <3>5. Paid(Updated(connections[s][q], opened[q]), silence[s][q])
      BY <1>1, <3>2, <3>4, UpdatedPaid
    <3>6. QED
      BY <2>2, <2>4, <3>3, <3>5
  <2>5. QED
    BY <2>3, <2>4
<1>6. ASSUME NEW s \in Sats, NEW p \in Sats, Receive(s, p)
      PROVE  Paid(connections'[t][q], silence'[t][q])
  <2>1. PICK c \in PeerRecord :
            /\ Enter(s, p, c)
            /\ c.state = "CONNECTED" /\ c.retryCounter = 0 /\ c.sinceHeartbeat = 0
    BY <1>6, ReceiveEnters
  <2>2. CASE t # s
    BY <1>2, <2>1, <2>2, EnterType
  <2>3. CASE t = s /\ q = p
    BY <2>1, <2>3, EnterType, FreshPaid
  <2>4. CASE t = s /\ q # p
    <3>1. q \in Known(s) \ {p}
      BY <2>1, <2>4, EnterType
    <3>2. QED
      BY <1>1, <2>1, <2>4, <3>1, EnterType
  <2>5. QED
    BY <2>2, <2>3, <2>4
<1>7. ASSUME Tick
      PROVE  Paid(connections'[t][q], silence'[t][q])
  <2>1. connections'[t] = [p \in Known(t) |-> Elapse(connections[t][p])]
    BY <1>7 DEF Tick
  <2>2. q \in Known(t)
    BY <2>1 DEF Known
  <2>3. connections'[t][q] = Elapse(connections[t][q])
    BY <2>1, <2>2
  <2>4. silence'[t][q] = Saturate(silence[t][q], SilenceCap)
    BY <1>7, <2>2 DEF Tick
  <2>5. QED
    BY <1>1, <2>2, <2>3, <2>4, ElapsePaid
\* What changes neither of the two.
<1>8. ASSUME UNCHANGED <<connections, silence>>
      PROVE  Paid(connections'[t][q], silence'[t][q])
  BY <1>2, <1>8
<1>9. QED
  BY <1>3, <1>4, <1>5, <1>6, <1>7, <1>8 DEF Next, Broadcast, Lose, Weather, vars

LEMMA PaidIsEnough ==
    ASSUME TypeOK, AllPaid
    PROVE  LostOnlyAfterSilence
<1> SUFFICES ASSUME NEW s \in Sats, NEW p \in Known(s), connections[s][p].state # "CONNECTED"
             PROVE  silence[s][p] >= TIMEOUT_THRESHOLD + 1
                                       + RECONNECT_INTERVAL * connections[s][p].retryCounter
  BY DEF LostOnlyAfterSilence
<1> DEFINE c == connections[s][p]
           owed == RECONNECT_INTERVAL * c.retryCounter
           since == IF GivenUp(c) THEN 0 ELSE c.sinceReconnect
<1>1. c \in PeerRecord /\ silence[s][p] \in Nat
  BY DEF TypeOK
<1>2. silence[s][p] >= TIMEOUT_THRESHOLD + 1 + owed + since
  BY DEF AllPaid, Paid
<1>3. owed \in Nat
  BY <1>1, ConfigAssumption, OneMore DEF PeerRecord
<1>4. since \in Nat
  BY <1>1 DEF PeerRecord
<1> HIDE DEF owed, since
<1>5. silence[s][p] >= TIMEOUT_THRESHOLD + 1 + owed
  BY <1>1, <1>2, <1>3, <1>4, ConfigAssumption
<1>6. QED
  BY <1>5 DEF owed

\* No satellite counts a peer as lost, or one more attempt to reach it, before
\* the peer has been silent for as long as the constants of Config.h say, for
\* every value of them, every topology and every order of the threads.
THEOREM PeersAreLostOnlyAfterSilence ==
    ASSUME SilenceCapSuffices
    PROVE  Spec => []LostOnlyAfterSilence
<1>1. Init => AllPaid
  BY DEF Init, AllPaid, Known, NoConnections
<1>2. TypeOK /\ AllPaid /\ [Next]_vars => (TypeOK /\ AllPaid)'
  BY NextType, NextPaid
<1>3. TypeOK /\ AllPaid => LostOnlyAfterSilence
  BY PaidIsEnough
<1>4. QED
  BY InitType, <1>1, <1>2, <1>3, PTL DEF Spec

===============================================================================

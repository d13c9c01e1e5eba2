----------------------------- MODULE Constellation -----------------------------
(***************************************************************************)
(* The satellites and the UDP network between them.                        *)
(*                                                                         *)
(*   sender      broadcast() in main: a heartbeat to every connected peer, *)
(*               every HEARTBEAT_INTERVAL seconds                          *)
(*   simulation  Satellite::update once a second: ConnectionHandler::update*)
(*   listener    NetworkManager::acceptConnections, one datagram at a time *)
(*                                                                         *)
(* Each of these does its work on the connection map in one critical       *)
(* section of the handler's mutex and is one action.  (The listener takes  *)
(* the mutex twice, in hasConnection and in what follows; connections are  *)
(* never removed and only the listener adds any once the threads run, so   *)
(* nothing can change the answer in between.)                              *)
(*                                                                         *)
(* Heartbeats are the only datagrams satellites exchange (dumps, answers   *)
(* and commands pass between a satellite and ground control).  The network *)
(* holds a set of them: two in flight between the same two satellites have *)
(* the same effect as one.  While there is trouble any datagram may be     *)
(* lost and any socket() may fail.  A satellite may be killed at any time  *)
(* and started again.                                                      *)
(*                                                                         *)
(* Assumed of time: a datagram arrives, or is lost, within the second, and *)
(* a thread that is due runs within the second.                            *)
(*                                                                         *)
(* The connection to ground control (id 0), which broadcastMessage skips,  *)
(* is not part of this module.                                             *)
(***************************************************************************)
EXTENDS PeerConnection

CONSTANTS
    Sats,
    Peers,               \* the peers on each satellite's command line
    HEARTBEAT_INTERVAL,  \* Config.h: seconds between two broadcasts
    SocketOutcomes,      \* what socket() may do in time of trouble: TRUE a
                         \* descriptor, FALSE -1
    SilenceCap           \* bound of the history variable silence

ASSUME ConstellationAssumption ==
    /\ Peers \in [Sats -> SUBSET Sats]
    /\ \A s \in Sats : s \notin Peers[s]
    /\ HEARTBEAT_INTERVAL \in Nat \ {0}
    /\ SocketOutcomes \subseteq BOOLEAN /\ SocketOutcomes # {}
    /\ SilenceCap \in Nat

VARIABLES
    up,           \* the satellite's process is running
    connections,  \* ConnectionHandler::connections of each satellite
    due,          \* seconds until the sender thread wakes up
    updated,      \* the simulation thread has done its work of this second
    network,      \* datagrams in flight, as pairs <<from, to>>
    trouble,      \* datagrams may be lost, socket() may fail
    silence       \* history: seconds since s last heard p, or met it

vars == <<up, connections, due, updated, network, trouble, silence>>

--------------------------------------------------------------------------------
Known(s) == DOMAIN connections[s]

\* What socket() may do now.
Sockets == IF trouble THEN SocketOutcomes ELSE {TRUE}

NoConnections == [p \in {} |-> NewPeer]

\* Datagrams from s to the peers in P.
From(s, P) == {<<s, p>> : p \in P}

Init ==
    /\ up = [s \in Sats |-> FALSE]
    /\ connections = [s \in Sats |-> NoConnections]
    /\ due = [s \in Sats |-> 0]
    /\ updated = [s \in Sats |-> FALSE]
    /\ network = {}
    /\ trouble = FALSE
    /\ silence = [s \in Sats |-> [p \in {} |-> 0]]

\* Fault: a peer is not entered if there is no socket for it.
StartWithOpened(s) ==
    /\ ~up[s]
    /\ up' = [up EXCEPT ![s] = TRUE]
    /\ \E P \in SUBSET Peers[s] :
          /\ connections' = [connections EXCEPT ![s] = [p \in P |-> Added(TRUE)]]
          /\ network' = network \cup From(s, P)
          /\ silence' = [silence EXCEPT ![s] = [p \in P |-> 0]]
    /\ UNCHANGED <<due, updated, trouble>>

\* main(): connect to every peer of the command line, then start the threads.
Start(s) ==
    /\ ~up[s]
    /\ up' = [up EXCEPT ![s] = TRUE]
    /\ \E opened \in [Peers[s] -> Sockets] :
          /\ connections' =
                [connections EXCEPT ![s] = [p \in Peers[s] |-> Added(opened[p])]]
          /\ network' = network \cup From(s, {p \in Peers[s] : opened[p]})
    /\ silence' = [silence EXCEPT ![s] = [p \in Peers[s] |-> 0]]
    /\ UNCHANGED <<due, updated, trouble>>

\* The process is killed; all it knew is gone.
Kill(s) ==
    /\ up[s]
    /\ up' = [up EXCEPT ![s] = FALSE]
    /\ connections' = [connections EXCEPT ![s] = NoConnections]
    /\ due' = [due EXCEPT ![s] = 0]
    /\ updated' = [updated EXCEPT ![s] = FALSE]
    /\ silence' = [silence EXCEPT ![s] = [p \in {} |-> 0]]
    /\ UNCHANGED <<network, trouble>>

--------------------------------------------------------------------------------
\* ConnectionHandler::broadcastMessage.
Broadcast(s) ==
    /\ up[s] /\ due[s] = 0
    /\ due' = [due EXCEPT ![s] = HEARTBEAT_INTERVAL]
    /\ network' =
          network \cup From(s, {p \in Known(s) : GetsOut(connections[s][p])})
    /\ UNCHANGED <<up, connections, updated, trouble, silence>>

\* ConnectionHandler::update, which holds the mutex over its whole loop.
Update(s) ==
    /\ up[s] /\ ~updated[s]
    /\ updated' = [updated EXCEPT ![s] = TRUE]
    /\ \E opened \in [Known(s) -> Sockets] :
          /\ connections' =
                [connections EXCEPT
                   ![s] = [p \in Known(s) |-> Updated(connections[s][p], opened[p])]]
          /\ network' =
                network \cup From(s, {p \in Known(s) :
                                         Greets(connections[s][p], opened[p])})
    /\ UNCHANGED <<up, due, trouble, silence>>

\* s replaces its connection to p, or enters one, and remembers it heard p.
Enter(s, p, c) ==
    /\ connections' =
          [connections EXCEPT ![s] = [x \in Known(s) \cup {p} |->
                                         IF x = p THEN c ELSE connections[s][x]]]
    /\ silence' =
          [silence EXCEPT ![s] = [x \in Known(s) \cup {p} |->
                                     IF x = p THEN 0 ELSE silence[s][x]]]

\* NetworkManager::acceptConnections: a heartbeat of p reaches s, which marks
\* the connection, or adds one and thereby sends a heartbeat back.
Receive(s, p) ==
    /\ up[s] /\ <<p, s>> \in network
    /\ \/ /\ p \in Known(s)
          /\ Enter(s, p, Heard(connections[s][p]))
          /\ network' = network \ {<<p, s>>}
       \/ /\ p \notin Known(s)
          /\ \E opened \in Sockets :
                /\ Enter(s, p, Added(opened))
                /\ network' = (network \ {<<p, s>>}) \cup From(s, {x \in {p} : opened})
    /\ UNCHANGED <<up, due, updated, trouble>>

--------------------------------------------------------------------------------
\* A datagram is lost, on the way or because nobody listens.
Lose(d) ==
    /\ trouble \/ ~up[d[2]]
    /\ network' = network \ {d}
    /\ UNCHANGED <<up, connections, due, updated, trouble, silence>>

Weather ==
    /\ trouble' = ~trouble
    /\ UNCHANGED <<up, connections, due, updated, network, silence>>

\* One second passes.
Tick ==
    /\ network = {}
    /\ \A s \in Sats : up[s] => updated[s] /\ due[s] > 0
    /\ connections' = [s \in Sats |-> [p \in Known(s) |-> Elapse(connections[s][p])]]
    /\ silence' = [s \in Sats |-> [p \in Known(s) |-> Saturate(silence[s][p], SilenceCap)]]
    /\ due' = [s \in Sats |-> IF up[s] THEN due[s] - 1 ELSE due[s]]
    /\ updated' = [s \in Sats |-> FALSE]
    /\ UNCHANGED <<up, network, trouble>>

--------------------------------------------------------------------------------
Next ==
    \/ \E s \in Sats : Start(s) \/ Kill(s)
    \/ \E s \in Sats : Broadcast(s)
    \/ \E s \in Sats : Update(s)
    \/ \E s, p \in Sats : Receive(s, p)
    \/ \E d \in network : Lose(d)
    \/ Weather
    \/ Tick

Spec == Init /\ [][Next]_vars

\* The threads of a running satellite run, a datagram does not stay in flight
\* and the clock advances.  Nothing is assumed of the weather, nor that a
\* satellite is started, or started again.
Fairness ==
    /\ \A s \in Sats : WF_vars(Broadcast(s)) /\ WF_vars(Update(s))
    /\ \A s, p \in Sats : WF_vars(Receive(s, p))
    /\ WF_vars(\E d \in network : ~up[d[2]] /\ Lose(d))
    /\ WF_vars(Tick)

FairSpec == Spec /\ Fairness

--------------------------------------------------------------------------------
(* Properties                                                               *)

\* Every counter stays in the range in which it is compared, a running
\* satellite has a connection to every peer of its command line, whatever
\* socket() did, and the sender never oversleeps its interval.
TypeOK ==
    /\ up \in [Sats -> BOOLEAN]
    /\ DOMAIN connections = Sats /\ DOMAIN silence = Sats
    /\ \A s \in Sats :
          /\ Known(s) \subseteq Sats
          /\ connections[s] \in [Known(s) -> PeerRecord]
          /\ silence[s] \in [Known(s) -> 0 .. SilenceCap]
          /\ up[s] => Peers[s] \subseteq Known(s)
    /\ due \in [Sats -> 0 .. HEARTBEAT_INTERVAL]
    /\ updated \in [Sats -> BOOLEAN]
    /\ network \subseteq Sats \X Sats
    /\ trouble \in BOOLEAN

\* A peer is not counted as lost before it has been silent for longer than the
\* threshold, and there is a whole interval for each attempt made to reach it:
\* whatever the listener and the simulation thread do, in whatever order, no
\* attempt is made early, counted twice or carried over from an earlier loss.
LostOnlyAfterSilence ==
    \A s \in Sats : \A p \in Known(s) :
        connections[s][p].state # "CONNECTED" =>
            silence[s][p] >= TIMEOUT_THRESHOLD + 1
                                + RECONNECT_INTERVAL * connections[s][p].retryCounter

\* s holds p for connected, and has no socket to send to it.
Mute(s, p) ==
    /\ p \in Known(s)
    /\ Addressed(connections[s][p])
    /\ ~GetsOut(connections[s][p])

\* Both ends of a link can send to each other.
Linked(s, p) ==
    /\ p \in Known(s) /\ s \in Known(p)
    /\ GetsOut(connections[s][p]) /\ GetsOut(connections[p][s])

\* s makes no attempt to reach p, or none any more.
GaveUp(s, p) == p \notin Known(s) \/ GivenUp(connections[s][p])

\* Two satellites of which one names the other are linked for good once the
\* network is well and both stay up, in whatever state the trouble, the crashes
\* and the restarts have left the two ends; the one exception is that neither end
\* has an attempt left.
LinkRecovers ==
    \A s \in Sats : \A p \in Peers[s] :
        <>[](~trouble /\ up[s] /\ up[p] /\ ~(GaveUp(s, p) /\ GaveUp(p, s)))
            => <>[]Linked(s, p)

\* A link does not stay mute while both its ends stay up, even if the trouble
\* never ends: the peer's heartbeats, which keep the mute end connected, stop
\* when the peer, which hears nothing, gives up.
MuteEnds ==
    \A s, p \in Sats :
        <>[](up[s] /\ up[p]) => []<>~Mute(s, p)

================================================================================

---------------------------- MODULE PeerConnection ----------------------------
(***************************************************************************)
(* A satellite's view of one peer: the class PeerConnection of             *)
(* Satellite/network, one operator per method, and what each handler of    *)
(* ConnectionHandler does with the connections of its map.                 *)
(*                                                                         *)
(* As in Connection, a time stamp is the number of whole seconds passed    *)
(* since, up to the first value that makes its comparison true, and "open" *)
(* says whether peerSocket holds a descriptor.  Addresses are valid.       *)
(*                                                                         *)
(* A definition marked "Fault" is a wrong version of the next one, used    *)
(* only to show that a property can tell the two apart.                    *)
(***************************************************************************)
EXTENDS Naturals

CONSTANTS
    TIMEOUT_THRESHOLD,      \* Config.h: seconds of silence that are tolerated
    RECONNECT_INTERVAL,     \* Config.h: seconds between reconnect attempts
    MAX_RECONNECT_ATTEMPTS  \* Config.h: attempts before a peer is given up

ASSUME ConfigAssumption ==
    /\ TIMEOUT_THRESHOLD \in Nat
    /\ RECONNECT_INTERVAL \in Nat
    /\ MAX_RECONNECT_ATTEMPTS \in Nat

ConnectionState == {"CONNECTED", "CONNECTING", "DISCONNECTED"}

PeerRecord ==
    [ state          : ConnectionState,
      open           : BOOLEAN,
      sinceHeartbeat : 0 .. TIMEOUT_THRESHOLD + 1,
      sinceReconnect : 0 .. RECONNECT_INTERVAL,
      retryCounter   : 0 .. MAX_RECONNECT_ATTEMPTS + 1 ]

Saturate(n, cap) == IF n < cap THEN n + 1 ELSE cap

-------------------------------------------------------------------------------
(* The methods of PeerConnection.                                          *)

\* The constructor.
NewPeer ==
    [ state          |-> "DISCONNECTED",
      open           |-> FALSE,
      sinceHeartbeat |-> 0,
      sinceReconnect |-> 0,
      retryCounter   |-> 0 ]

\* connect(): opened is the outcome of socket(); without a socket it returns
\* before it touches the time stamp or the state.
Connect(c, opened) ==
    IF opened
      THEN [c EXCEPT !.open = TRUE, !.sinceHeartbeat = 0, !.state = "CONNECTING"]
      ELSE [c EXCEPT !.open = FALSE]

Disconnect(c) ==
    [c EXCEPT !.open = FALSE, !.state = "DISCONNECTED", !.sinceReconnect = 0]

Heartbeat(c) == [c EXCEPT !.sinceHeartbeat = 0]

\* Fault: the attempts made so far are not forgotten.
MarkConnectedKeepsCount(c) == [c EXCEPT !.state = "CONNECTED"]

\* markConnected(): does not look at the socket.
MarkConnected(c) == [c EXCEPT !.state = "CONNECTED", !.retryCounter = 0]

IsTimedOut(c) == c.sinceHeartbeat > TIMEOUT_THRESHOLD

\* reconnect() returns before it does anything else.
ReconnectDue(c) == c.sinceReconnect >= RECONNECT_INTERVAL

\* The attempts are used up.  Once they are, lastReconnect stands still and the
\* counter of the code goes on counting every call; no comparison can tell.
GivenUp(c) == c.retryCounter > MAX_RECONNECT_ATTEMPTS

Counted(c) == [c EXCEPT !.retryCounter = Saturate(@, MAX_RECONNECT_ATTEMPTS + 1)]

\* reconnect() tries again: an attempt is due and there are attempts left.
TriesAgain(c) == ReconnectDue(c) /\ ~GivenUp(Counted(c))

\* Fault: the attempts are not counted.
ReconnectUncounted(c, opened) ==
    IF ReconnectDue(c) THEN Connect(Disconnect(c), opened) ELSE c

\* reconnect(): too early, or one attempt too many, or close and open again.
Reconnect(c, opened) ==
    IF ~ReconnectDue(c)
      THEN c
      ELSE IF TriesAgain(c) THEN Connect(Disconnect(Counted(c)), opened) ELSE Counted(c)

-------------------------------------------------------------------------------
(* What the handlers of ConnectionHandler do with one connection.          *)

\* addConnection(): a new peer counts as connected at once.
Added(opened) == MarkConnected(Connect(Heartbeat(NewPeer), opened))

\* Fault: the time is noted, the state is not.
HeardUnmarked(c) == Heartbeat(c)

\* heartbeatSat().
Heard(c) == MarkConnected(Heartbeat(c))

\* Fault: a peer that is being connected to is left alone.
UpdatedDisconnectedOnly(c, opened) ==
    IF c.state = "CONNECTED"
      THEN IF IsTimedOut(c) THEN Disconnect(c) ELSE c
      ELSE IF c.state = "DISCONNECTED" THEN Reconnect(c, opened) ELSE c

\* One round of the loop in update().
Updated(c, opened) ==
    IF c.state = "CONNECTED"
      THEN IF IsTimedOut(c) THEN Disconnect(c) ELSE c
      ELSE Reconnect(c, opened)

\* update() sends this peer the heartbeat that connect() starts with.
Greets(c, opened) == c.state # "CONNECTED" /\ TriesAgain(c) /\ opened

\* broadcastMessage() sends to this peer: the state is all it looks at.
Addressed(c) == c.state = "CONNECTED"

\* sendto() with a descriptor hands the datagram over; with -1 it only fails,
\* and the failure is only logged.
GetsOut(c) == Addressed(c) /\ c.open

-------------------------------------------------------------------------------
\* One second passes on the clock that time(nullptr) reads.
Elapse(c) ==
    [c EXCEPT !.sinceHeartbeat = Saturate(@, TIMEOUT_THRESHOLD + 1),
              !.sinceReconnect = Saturate(@, RECONNECT_INTERVAL)]

===============================================================================

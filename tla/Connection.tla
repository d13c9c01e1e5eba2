------------------------------ MODULE Connection ------------------------------
(***************************************************************************)
(* Ground control's view of one satellite: the class Connection of         *)
(* GroundControl/networking/Connection.{h,cpp}, one operator per method.   *)
(*                                                                         *)
(* A connection is a record.  The two time stamps of the class are kept as *)
(* the number of whole seconds that have passed since, because the code    *)
(* only ever compares time(nullptr) - stamp with a constant; each stops    *)
(* counting at the first value that makes its comparison true, which loses *)
(* nothing.  "open" says whether satSocket holds a descriptor (it is -1    *)
(* otherwise).  Address, port and the serialised bytes are abstracted.     *)
(*                                                                         *)
(* A definition marked "Fault" is a wrong version of the one it stands     *)
(* before; nothing uses it but the experiments that show a property can    *)
(* tell the two apart.                                                     *)
(***************************************************************************)
EXTENDS Naturals

CONSTANTS
    TIMEOUT_THRESHOLD,      \* Config.h: seconds of silence that are tolerated
    RECONNECT_INTERVAL,     \* Config.h: seconds between reconnect attempts
    MAX_RECONNECT_ATTEMPTS  \* Config.h: attempts before "dead"

ASSUME ConfigAssumption ==
    /\ TIMEOUT_THRESHOLD \in Nat
    /\ RECONNECT_INTERVAL \in Nat
    /\ MAX_RECONNECT_ATTEMPTS \in Nat

GCConnectionState == {"CONNECTED", "DISCONNECTED"}

ConnectionRecord ==
    [ state          : GCConnectionState,
      open           : BOOLEAN,
      sinceHeartbeat : 0 .. TIMEOUT_THRESHOLD + 1,
      sinceReconnect : 0 .. RECONNECT_INTERVAL,
      retryCounter   : 0 .. MAX_RECONNECT_ATTEMPTS + 1 ]

\* The constructor.
NewConnection ==
    [ state          |-> "DISCONNECTED",
      open           |-> FALSE,
      sinceHeartbeat |-> 0,
      sinceReconnect |-> 0,
      retryCounter   |-> 0 ]

\* Fault: a new socket already counts as a connection.
ConnectMarks(c, opened) ==
    [c EXCEPT !.open = opened, !.state = IF opened THEN "CONNECTED" ELSE @]

\* connect(): opened is the outcome of socket().  The state is left alone.
Connect(c, opened) == [c EXCEPT !.open = opened]

\* disconnect(): closes the socket and stamps lastReconnect.
Disconnect(c) ==
    [c EXCEPT !.open = FALSE, !.state = "DISCONNECTED", !.sinceReconnect = 0]

Heartbeat(c) == [c EXCEPT !.sinceHeartbeat = 0]

\* Fault: the attempts made so far are not forgotten.
MarkConnectedKeepsCount(c) == [c EXCEPT !.state = "CONNECTED"]

\* markConnected(): does not look at the socket.
MarkConnected(c) == [c EXCEPT !.state = "CONNECTED", !.retryCounter = 0]

IsTimedOut(c) == c.sinceHeartbeat > TIMEOUT_THRESHOLD

IsDead(c) == c.retryCounter > MAX_RECONNECT_ATTEMPTS

ReconnectDue(c) == c.sinceReconnect >= RECONNECT_INTERVAL

\* Fault: the attempts are not counted.
ReconnectUncounted(c, opened) ==
    IF ~ReconnectDue(c) THEN c ELSE Connect(Disconnect(c), opened)

\* reconnect(): too early, or one attempt too many, or close and open again.
Reconnect(c, opened) ==
    LET counted == [c EXCEPT !.retryCounter = @ + 1]
    IN  IF ~ReconnectDue(c)
          THEN c
          ELSE IF IsDead(counted)
                 THEN counted
                 ELSE Connect(Disconnect(counted), opened)

\* Fault: the count is compared before it is advanced.
GivesUpLate(c) == ReconnectDue(c) /\ IsDead(c)

\* The boolean reconnect() returns, negated: the attempts are used up.
GivesUp(c) ==
    /\ ReconnectDue(c)
    /\ c.retryCounter + 1 > MAX_RECONNECT_ATTEMPTS

-------------------------------------------------------------------------------
Saturate(n, cap) == IF n < cap THEN n + 1 ELSE cap

\* One second passes on the clock that time(nullptr) reads.
Elapse(c) ==
    [c EXCEPT !.sinceHeartbeat = Saturate(@, TIMEOUT_THRESHOLD + 1),
              !.sinceReconnect = Saturate(@, RECONNECT_INTERVAL)]

===============================================================================

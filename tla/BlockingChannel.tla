---------------------------- MODULE BlockingChannel ----------------------------
(***************************************************************************)
(* What the threads expect of a message queue: items come out in the order *)
(* they went in, a thread that asks is served as soon as there is something*)
(* for it, and closing the channel releases everyone who asks, with nothing*)
(***************************************************************************)
EXTENDS Sequences

CONSTANTS
    Consumers,
    Items,
    NoItem     \* what a consumer has that was released, or never served

VARIABLES items,   \* what was sent and has not been received
          closed,
          asking,  \* the consumers that are inside a receive
          received \* what each of them received last

vars == <<items, closed, asking, received>>

Init ==
    /\ items = <<>> /\ closed = FALSE /\ asking = {}
    /\ received = [c \in Consumers |-> NoItem]

Send ==
    /\ \E i \in Items : items' = Append(items, i)
    /\ UNCHANGED <<closed, asking, received>>

Close ==
    /\ closed' = TRUE
    /\ UNCHANGED <<items, asking, received>>

Ask(c) ==
    /\ c \notin asking
    /\ asking' = asking \cup {c}
    /\ UNCHANGED <<items, closed, received>>

Receive(c) ==
    /\ c \in asking
    /\ ~closed /\ items # <<>>
    /\ received' = [received EXCEPT ![c] = Head(items)]
    /\ items' = Tail(items)
    /\ asking' = asking \ {c}
    /\ UNCHANGED closed

Release(c) ==
    /\ c \in asking
    /\ closed
    /\ received' = [received EXCEPT ![c] = NoItem]
    /\ asking' = asking \ {c}
    /\ UNCHANGED <<items, closed>>

Next ==
    \/ Send \/ Close
    \/ \E c \in Consumers : Ask(c) \/ Receive(c) \/ Release(c)

\* Someone is served when something is there, and after the close everyone is
\* released.
Fairness ==
    /\ WF_vars(\E c \in Consumers : Receive(c))
    /\ \A c \in Consumers : WF_vars(Release(c))

SafetySpec == Init /\ [][Next]_vars

Spec == SafetySpec /\ Fairness

================================================================================

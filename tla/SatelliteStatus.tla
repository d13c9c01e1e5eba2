---------------------------- MODULE SatelliteStatus ----------------------------
(***************************************************************************)
(* What ground control promises about the satellites it knows: each one is *)
(* up, lost or dead, it is never declared dead without having been lost,   *)
(* only a message brings it back, and a satellite that stays lost is       *)
(* declared dead as long as the process runs.                              *)
(***************************************************************************)
CONSTANT Sats

VARIABLES status,   \* from the known satellites to their status
          running   \* the process has not been aborted

vars == <<status, running>>

Status == {"up", "lost", "dead"}

Init ==
    /\ \E K \in SUBSET Sats : status = [s \in K |-> "lost"]
    /\ running = TRUE

Become(s, from, to) ==
    /\ running
    /\ s \in DOMAIN status
    /\ status[s] \in from
    /\ status' = [status EXCEPT ![s] = to]
    /\ UNCHANGED running

\* A satellite nobody had announced makes itself known.
Meet(s) ==
    /\ running
    /\ s \notin DOMAIN status
    /\ status' = [x \in DOMAIN status \cup {s} |-> IF x = s THEN "lost" ELSE status[x]]
    /\ UNCHANGED running

Hear(s) == Become(s, {"up", "lost", "dead"}, "up")

Lose(s) == Become(s, {"up"}, "lost")

Bury(s) == Become(s, {"lost"}, "dead")

\* The process is gone, and with it every promise.
Stop ==
    /\ running' = FALSE
    /\ UNCHANGED status

Next == Stop \/ \E s \in Sats : Meet(s) \/ Hear(s) \/ Lose(s) \/ Bury(s)

SafetySpec == Init /\ [][Next]_vars

Spec == SafetySpec /\ \A s \in Sats : WF_vars(Bury(s))

================================================================================

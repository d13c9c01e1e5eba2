---------------------------- MODULE MCGroundControl ----------------------------
(* Ground control on small instances. *)
EXTENDS GroundControl, TLC

CONSTANTS s1, s2

OneSat  == {s1}
TwoSats == {s1, s2}

\* socket() always succeeds.
NeverFails == {TRUE}

================================================================================

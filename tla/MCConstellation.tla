---------------------------- MODULE MCConstellation ----------------------------
(* Two satellites. *)
EXTENDS Constellation

CONSTANTS s1, s2

Two == {s1, s2}

\* Each names the other, as in run_simulation.sh; or only one of them does.
Mesh   == [s \in Two |-> Two \ {s}]
OneWay == [s \in Two |-> IF s = s1 THEN {s2} ELSE {}]

\* In time of trouble socket() succeeds or fails each time it is called.
MayFail == BOOLEAN

================================================================================

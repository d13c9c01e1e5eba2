-------------------------------- MODULE MCMotion --------------------------------
(* A satellite that is sent to and fro. *)
EXTENDS Motion

Everywhere(p, v) == [pos |-> [a \in Axis |-> p], vel |-> [a \in Axis |-> v]]

StartMotion  == Everywhere(0, 1)
ToAndFro     == {Everywhere(-1, 1), Everywhere(1, -1)}

================================================================================

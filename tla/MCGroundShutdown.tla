---------------------------- MODULE MCGroundShutdown ----------------------------
(* A configuration file that lists a satellite twice. *)
EXTENDS GroundShutdown

OneTwice == <<1, 1>>

================================================================================

------------------------------- MODULE MCDownlink -------------------------------
(* One satellite and ground control. *)
EXTENDS Downlink

\* In time of trouble socket() succeeds or fails each time it is called.
MayFail == BOOLEAN

================================================================================

------------------------------ MODULE MCTelemetry ------------------------------
(* One satellite and its log. *)
EXTENDS Telemetry

\* Every second line reports a packet.
Even == {n \in 1 .. MaxLines : n % 2 = 0}

================================================================================

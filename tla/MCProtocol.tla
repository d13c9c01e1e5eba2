------------------------------- MODULE MCProtocol -------------------------------
(* Messages of all four types, field contents 0 and 1. *)
EXTENDS Protocol

Bits == {0, 1}

\* One sender; the doubles of a command are not varied one by one.
FewMessages ==
    { m \in AllMessages :
        /\ m["senderPort"] = 1
        /\ m["header"].type = "COMMAND" =>
              m["y"] = m["x"] /\ m["z"] = 1 - m["x"] /\ m["vy"] = m["vx"]
              /\ m["vz"] = 1 - m["vx"] }

================================================================================

----------------------------- MODULE MCMessageQueue -----------------------------
(* One queue on small instances. *)
EXTENDS MessageQueue

CONSTANTS c1, c2, p1, p2, i1, i2

TwoConsumers == {c1, c2}
TwoProducers == {p1, p2}
TwoItems     == {i1, i2}

=================================================================================

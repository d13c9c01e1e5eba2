------------------------------- MODULE LogTransfer -------------------------------
(***************************************************************************)
(* What the data dumps promise: lines a satellite has logged reach ground  *)
(* control's log of it whole, each at most once and in the order in which  *)
(* they were logged; the table shows the newest position among those that  *)
(* have arrived, and as many packets as arrived together with a position.  *)
(* Lines may fail to arrive; nothing says they do.                         *)
(***************************************************************************)
EXTENDS Naturals, FiniteSets, Sequences

CONSTANT PacketLines  \* the numbers of the lines that report a packet

VARIABLES
    written,  \* lines logged so far: 1, 2, ..., written
    stored,   \* the lines ground control has stored
    shown,    \* the line whose position is on the display, 0 for none
    packets   \* the number of packets on the display

Newest(S) == CHOOSE n \in S : \A m \in S : m <= n

Rising(lines) == \A i, j \in DOMAIN lines : i < j => lines[i] < lines[j]

Init ==
    /\ written = 0
    /\ stored = <<>>
    /\ shown = 0
    /\ packets = 0

Write ==
    /\ written' = written + 1
    /\ UNCHANGED <<stored, shown, packets>>

\* The last line that has arrived; nothing before it arrives any more.
Reached == IF stored = <<>> THEN 0 ELSE stored[Len(stored)]

Deliver ==
    \E S \in SUBSET ((Reached + 1) .. written) :
        /\ S # {}
        /\ \E lines \in [1 .. Cardinality(S) -> S] :
              Rising(lines) /\ stored' = stored \o lines
        /\ IF S \subseteq PacketLines
             THEN UNCHANGED <<shown, packets>>
             ELSE /\ shown' = Newest(S \ PacketLines)
                  /\ packets' = packets + Cardinality(S \cap PacketLines)
        /\ UNCHANGED written

Next == Write \/ Deliver

Spec == Init /\ [][Next]_<<written, stored, shown, packets>>

================================================================================

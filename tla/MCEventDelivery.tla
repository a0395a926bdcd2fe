---------------------------- MODULE MCEventDelivery ---------------------------
(* Instances of EventDelivery for TLC.                                     *)
EXTENDS EventDelivery

CONSTANT c1

\* One command has events to report; the others come to drain.
OneReports == [c \in Cmd |-> IF c = c1 THEN 2 ELSE 0]

\* A test that overlaps a down, and an up after both.
EachReports == [c \in Cmd |-> 1]

\* The second event the reporting command emits does not survive redaction.
SecondGarbled == [num : {2, 4}, by : {c1}]

=============================================================================

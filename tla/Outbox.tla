--------------------------------- MODULE Outbox -------------------------------
(***************************************************************************)
(* What the engine promises about the events it reports (package           *)
(* telemetry and the control plane sink): an accepted event is owed until  *)
(* the control plane has it or somebody has written it off, which is       *)
(* either a count a user is shown or the death of the process that held    *)
(* it.  The promise has an exception: an owed event can be lost with no    *)
(* count, and who implements the outbox says when.  No buffer, file, claim *)
(* or command appears here.                                                *)
(***************************************************************************)
VARIABLES
  owed,       \* accepted, and somewhere on its way
  received,   \* stored by the control plane
  writtenOff, \* counted as dropped, or lost with a killed process
  lost        \* gone, and nobody was told

vars == <<owed, received, writtenOff, lost>>

Init == owed = {} /\ received = {} /\ writtenOff = {} /\ lost = {}

\* Several events may move in one step.  What the plane has it keeps; what
\* leaves owed arrived, was written off or was lost; only what was owed is
\* lost; nothing settled is owed again; and only an event that was accepted
\* can arrive.
Next ==
  /\ received \subseteq received'
  /\ writtenOff \subseteq writtenOff'
  /\ lost \subseteq lost'
  /\ owed \ owed' \subseteq received' \cup writtenOff' \cup lost'
  /\ lost' \ lost \subseteq owed
  /\ (owed' \ owed) \cap (received' \cup writtenOff' \cup lost') = {}
  /\ received' \ received \subseteq owed \cup writtenOff \cup lost

Spec == Init /\ [][Next]_vars

=============================================================================

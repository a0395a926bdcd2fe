------------------------------- MODULE RunLedger ------------------------------
(***************************************************************************)
(* What a caller of the MCP server is promised about its rehearsals        *)
(* (engine/internal/mcp/runs.go), with no servers, goroutines, crashes or  *)
(* failing writes in it: a request opens at most one run for its key, and  *)
(* a run that has reached a verdict keeps it.                              *)
(***************************************************************************)
CONSTANTS
  Run,    \* run identifiers
  Key,    \* idempotency keys, scoped to caller, project and tool
  NoKey,  \* a request without one
  Input   \* canonical arguments

VARIABLE
  ledger  \* what is known of each run

Absent == [at |-> "absent"]
Verdicts == {"PASS", "FAIL", "INCONCLUSIVE"}
Entry == [at : {"open"} \cup Verdicts, key : Key \cup {NoKey}, input : Input]

Init == ledger = [r \in Run |-> Absent]

\* A run is opened for a key no other run has.
Open(r, k, i) ==
  /\ ledger[r] = Absent
  /\ k # NoKey => \A q \in Run : ledger[q] # Absent => ledger[q].key # k
  /\ ledger' = [ledger EXCEPT ![r] = [at |-> "open", key |-> k, input |-> i]]

\* An open run reaches its verdict, once.
Conclude(r, v) ==
  /\ ledger[r].at = "open"
  /\ ledger' = [ledger EXCEPT ![r].at = v]

\* One step of a starting server may conclude several runs at once.
ConcludeAll(R) ==
  /\ \A r \in R : ledger[r].at = "open"
  /\ ledger' = [r \in Run |-> IF r \in R
                              THEN [ledger[r] EXCEPT !.at = "INCONCLUSIVE"]
                              ELSE ledger[r]]

Next ==
  \/ \E r \in Run, k \in Key \cup {NoKey}, i \in Input : Open(r, k, i)
  \/ \E r \in Run, v \in Verdicts : Conclude(r, v)
  \/ \E R \in SUBSET Run : ConcludeAll(R)

Spec == Init /\ [][Next]_ledger

=============================================================================

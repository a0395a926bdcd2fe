-------------------------------- MODULE McpRuns -------------------------------
(***************************************************************************)
(* The rehearsals of the MCP servers on one checkout: the run table they   *)
(* share (engine/internal/mcp/runs.go), the goroutine that works on each   *)
(* run (engine.go) and the life of a server (serve.go).                    *)
(*                                                                         *)
(* A server is known by its process id, and a process id can come back.    *)
(* Every statement on the table is one step, may fail, and a failure is    *)
(* only logged.  The experiment itself is external: it returns a result,   *)
(* a fault, or panics.                                                     *)
(***************************************************************************)
EXTENDS Integers, FiniteSets

CONSTANTS
  Run,     \* run identifiers
  Key,     \* idempotency keys, scoped to caller, project and tool
  NoKey,   \* a request without one
  Input,   \* canonical arguments, as canonicalSHA tells them apart
  Pid,     \* process ids servers run under
  NoRun,   \* not a run
  Request, \* the submissions callers make, a key and arguments each
  Natives  \* verdicts of the deterministic evaluator that may occur

AllNatives == {"pass", "fail", "warn", "flaky", "blocked", "unverified", "other"}

ASSUME RunsAssumption ==
  /\ NoKey \notin Key
  /\ NoRun \notin Run
  /\ Request \subseteq [key : Key \cup {NoKey}, input : Input]
  /\ Natives \subseteq AllNatives

VARIABLES
  row,        \* the table mcp_runs
  srv,        \* the server running under each process id
  job,        \* the goroutine of each run
  outcome,    \* what the experiment of each run returned
  cancelling, \* the run a server has read and is about to mark for cancelling
  answer,     \* history: the last acknowledgement Submit gave
  early,      \* history: runs marked for cancelling before they returned
  unrecorded  \* history: runs whose last write failed

vars == <<row, srv, job, outcome, cancelling, answer, early, unrecorded>>

NoRow == [status |-> "absent"]
Rows == [status : {"queued", "running", "finished", "failed", "cancelled"},
         verdict : {"", "PASS", "FAIL", "INCONCLUSIVE"},
         cancel : BOOLEAN, owner : Pid, key : Key \cup {NoKey}, input : Input]

Outcomes == AllNatives \cup {"none", "fault", "panic"}
Answers == [key : Key \cup {NoKey}, input : Input, run : Run \cup {NoRun}]

\* "lost": the process died under the goroutine.
JobStates == {"none", "start", "work", "returned", "finish", "finishCancelled",
              "mark", "fail", "over", "lost"}
Working == JobStates \ {"none", "over", "lost"}

TypeOK ==
  /\ row \in [Run -> Rows \cup {NoRow}]
  /\ srv \in [Pid -> {"down", "boot", "up", "draining"}]
  /\ job \in [Run -> JobStates]
  /\ outcome \in [Run -> Outcomes]
  /\ cancelling \in [Pid -> Run \cup {NoRun}]
  /\ answer \in Answers \cup {NoRow}
  /\ early \in SUBSET Run
  /\ unrecorded \in SUBSET Run

Init ==
  /\ row = [r \in Run |-> NoRow]
  /\ srv = [p \in Pid |-> "down"]
  /\ job = [r \in Run |-> "none"]
  /\ outcome = [r \in Run |-> "none"]
  /\ cancelling = [p \in Pid |-> NoRun]
  /\ answer = NoRow
  /\ early = {}
  /\ unrecorded = {}

Known(r) == row[r] # NoRow
InFlight(r) == row[r].status \in {"queued", "running"}
terminal(r) == row[r].status \in {"finished", "failed", "cancelled"}

\* The process id of a run's owner is in use, by the owner or by a later
\* server: lock.Alive cannot tell the two apart.
Alive(p) == srv[p] # "down"

\* Bug: a verdict nobody evaluated counts as a pass.
verdictForLax(native) == IF native = "fail" THEN "FAIL" ELSE "PASS"

verdictFor(native) ==
  CASE native \in {"pass", "warn"} -> "PASS"
    [] native = "fail" -> "FAIL"
    [] OTHER -> "INCONCLUSIVE"

Goto(r, l) == job' = [job EXCEPT ![r] = l]

-----------------------------------------------------------------------------
(* A server: Serve *)

\* The process exists and has not read a frame.
Boot(p) ==
  /\ srv[p] = "down"
  /\ srv' = [srv EXCEPT ![p] = "boot"]
  /\ UNCHANGED <<row, job, outcome, cancelling, answer, early, unrecorded>>

\* Bug: every run in flight is settled, whoever owns it.
InterruptedAnyOwner(r) == Known(r) /\ InFlight(r)

Interrupted(r) == Known(r) /\ InFlight(r) /\ ~Alive(row[r].owner)

(* recoverInterrupted settles, in one transaction, every run in flight     *)
(* whose owner is gone; then the server takes calls.                       *)
Recover(p) ==
  /\ srv[p] = "boot"
  /\ srv' = [srv EXCEPT ![p] = "up"]
  /\ row' = [r \in Run |->
               IF Interrupted(r)
               THEN [row[r] EXCEPT !.status = "failed", !.verdict = "INCONCLUSIVE"]
               ELSE row[r]]
  /\ UNCHANGED <<job, outcome, cancelling, answer, early, unrecorded>>

(* The transaction fails; the server is started all the same.              *)
RecoverFails(p) ==
  /\ srv[p] = "boot"
  /\ srv' = [srv EXCEPT ![p] = "up"]
  /\ UNCHANGED <<row, job, outcome, cancelling, answer, early, unrecorded>>

\* The client hangs up; the server waits for its experiments.
Disconnect(p) ==
  /\ srv[p] = "up"
  /\ cancelling[p] = NoRun
  /\ srv' = [srv EXCEPT ![p] = "draining"]
  /\ UNCHANGED <<row, job, outcome, cancelling, answer, early, unrecorded>>

\* Bug: the wait is for the table, not for the goroutines.
ExitWhenSettled(p) ==
  /\ srv[p] = "draining"
  /\ \A r \in Run : Known(r) /\ row[r].owner = p => terminal(r)
  /\ srv' = [srv EXCEPT ![p] = "down"]
  /\ UNCHANGED <<row, job, outcome, cancelling, answer, early, unrecorded>>

\* engine.Wait returns.
Exit(p) ==
  /\ srv[p] = "draining"
  /\ \A r \in Run : job[r] \in Working => row[r].owner # p
  /\ srv' = [srv EXCEPT ![p] = "down"]
  /\ UNCHANGED <<row, job, outcome, cancelling, answer, early, unrecorded>>

\* The process dies with everything it had in memory.
Kill(p) ==
  /\ Alive(p)
  /\ srv' = [srv EXCEPT ![p] = "down"]
  /\ job' = [r \in Run |-> IF job[r] \in Working /\ row[r].owner = p
                           THEN "lost" ELSE job[r]]
  /\ cancelling' = [cancelling EXCEPT ![p] = NoRun]
  /\ UNCHANGED <<row, outcome, answer, early, unrecorded>>

-----------------------------------------------------------------------------
(* Calls: Submit and cancel_rehearsal_run *)

HasKey(r, k) == k # NoKey /\ Known(r) /\ row[r].key = k

\* Bug: a key somebody used is not looked for.
SubmitNewUnkeyed(p, r, k, i) ==
  /\ srv[p] = "up"
  /\ ~Known(r)
  /\ row' = [row EXCEPT ![r] =
               [status |-> "queued", verdict |-> "", cancel |-> FALSE,
                owner |-> p, key |-> k, input |-> i]]
  /\ Goto(r, "start")
  /\ answer' = [key |-> k, input |-> i, run |-> r]
  /\ UNCHANGED <<srv, outcome, cancelling, early, unrecorded>>

\* A key not seen before: the run is recorded and its goroutine started.
SubmitNew(p, r, k, i) ==
  /\ srv[p] = "up"
  /\ ~Known(r)
  /\ \A q \in Run : ~HasKey(q, k)
  /\ row' = [row EXCEPT ![r] =
               [status |-> "queued", verdict |-> "", cancel |-> FALSE,
                owner |-> p, key |-> k, input |-> i]]
  /\ Goto(r, "start")
  /\ answer' = [key |-> k, input |-> i, run |-> r]
  /\ UNCHANGED <<srv, outcome, cancelling, early, unrecorded>>

\* Bug: a key is enough, whatever the arguments.
SubmitRepeatedKeyOnly(p, r, k, i) ==
  /\ srv[p] = "up"
  /\ HasKey(r, k)
  /\ answer' = [key |-> k, input |-> i, run |-> r]
  /\ UNCHANGED <<row, srv, job, outcome, cancelling, early, unrecorded>>

\* The key of a recorded run and its arguments: that run is the answer.
SubmitRepeated(p, r, k, i) ==
  /\ srv[p] = "up"
  /\ HasKey(r, k)
  /\ row[r].input = i
  /\ answer' = [key |-> k, input |-> i, run |-> r]
  /\ UNCHANGED <<row, srv, job, outcome, cancelling, early, unrecorded>>

\* The key of a recorded run and other arguments: a refusal names no run.
SubmitConflict(p, r, k, i) ==
  /\ srv[p] = "up"
  /\ HasKey(r, k)
  /\ row[r].input # i
  /\ answer' = [key |-> k, input |-> i, run |-> NoRun]
  /\ UNCHANGED <<row, srv, job, outcome, cancelling, early, unrecorded>>

\* RequestCancel reads the run and finds it not terminal.
CancelRead(p, r) ==
  /\ srv[p] = "up"
  /\ cancelling[p] = NoRun
  /\ Known(r)
  /\ ~terminal(r)
  /\ cancelling' = [cancelling EXCEPT ![p] = r]
  /\ UNCHANGED <<row, srv, job, outcome, answer, early, unrecorded>>

\* RequestCancel sets the flag, whatever has become of the run meanwhile.
CancelWrite(p) ==
  LET r == cancelling[p] IN
  /\ r # NoRun
  /\ row' = [row EXCEPT ![r].cancel = TRUE]
  /\ early' = IF job[r] \in {"start", "work"} THEN early \cup {r} ELSE early
  /\ cancelling' = [cancelling EXCEPT ![p] = NoRun]
  /\ UNCHANGED <<srv, job, outcome, answer, unrecorded>>

CancelWriteFails(p) ==
  /\ cancelling[p] # NoRun
  /\ cancelling' = [cancelling EXCEPT ![p] = NoRun]
  /\ UNCHANGED <<row, srv, job, outcome, answer, early, unrecorded>>

-----------------------------------------------------------------------------
(* The goroutine of a run: Engine.start *)

Start(r) ==
  /\ job[r] = "start"
  /\ row' = [row EXCEPT ![r].status = "running"]
  /\ Goto(r, "work")
  /\ UNCHANGED <<srv, outcome, cancelling, answer, early, unrecorded>>

\* The write fails and the experiment runs all the same.
StartFails(r) ==
  /\ job[r] = "start"
  /\ Goto(r, "work")
  /\ UNCHANGED <<row, srv, outcome, cancelling, answer, early, unrecorded>>

\* The experiment returns a result or a fault.
Returns(r, o) ==
  /\ job[r] = "work"
  /\ outcome' = [outcome EXCEPT ![r] = o]
  /\ Goto(r, "returned")
  /\ UNCHANGED <<row, srv, cancelling, answer, early, unrecorded>>

\* Bug: nothing recovers the panic of an experiment.
PanicsUnrecorded(r) ==
  /\ job[r] = "work"
  /\ outcome' = [outcome EXCEPT ![r] = "panic"]
  /\ Goto(r, "over")
  /\ UNCHANGED <<row, srv, cancelling, answer, early, unrecorded>>

\* The experiment panics; the deferred function goes on to record a failure.
Panics(r) ==
  /\ job[r] = "work"
  /\ outcome' = [outcome EXCEPT ![r] = "panic"]
  /\ Goto(r, "fail")
  /\ UNCHANGED <<row, srv, cancelling, answer, early, unrecorded>>

Faulted(r) == outcome[r] = "fault"

\* Bug: a fault is looked at before the flag.
BranchFaultFirst(r, cancelled) ==
  CASE Faulted(r)                -> "fail"
    [] cancelled /\ ~Faulted(r)  -> "finishCancelled"
    [] ~cancelled /\ ~Faulted(r) -> "finish"

\* The switch of start, on the answer Cancelled gave: a store that cannot be
\* read says cancelled.
Branch(r, cancelled) ==
  CASE cancelled /\ ~Faulted(r)  -> "finishCancelled"
    [] cancelled /\ Faulted(r)   -> "mark"
    [] ~cancelled /\ Faulted(r)  -> "fail"
    [] ~cancelled /\ ~Faulted(r) -> "finish"

Decide(r) ==
  /\ job[r] = "returned"
  /\ Goto(r, Branch(r, row[r].cancel))
  /\ UNCHANGED <<row, srv, outcome, cancelling, answer, early, unrecorded>>

DecideUnread(r) ==
  /\ job[r] = "returned"
  /\ Goto(r, Branch(r, TRUE))
  /\ UNCHANGED <<row, srv, outcome, cancelling, answer, early, unrecorded>>

\* Bug: the evaluator's word is stored where the caller's belongs.
FinishNative(r) ==
  /\ job[r] \in {"finish", "finishCancelled"}
  /\ row' = [row EXCEPT ![r].status = "finished", ![r].verdict = outcome[r]]
  /\ Goto(r, "over")
  /\ UNCHANGED <<srv, outcome, cancelling, answer, early, unrecorded>>

\* Finish: no condition on the status it replaces.
Finish(r) ==
  /\ job[r] \in {"finish", "finishCancelled"}
  /\ row' = [row EXCEPT ![r].status = "finished",
                        ![r].verdict = verdictFor(outcome[r])]
  /\ Goto(r, "over")
  /\ UNCHANGED <<srv, outcome, cancelling, answer, early, unrecorded>>

\* A result that cannot be stored after a cancel is a cancelled run; without
\* one it is logged and the run left as it is.
FinishFails(r) ==
  /\ job[r] \in {"finish", "finishCancelled"}
  /\ IF job[r] = "finishCancelled"
     THEN Goto(r, "mark") /\ UNCHANGED unrecorded
     ELSE Goto(r, "over") /\ unrecorded' = unrecorded \cup {r}
  /\ UNCHANGED <<row, srv, outcome, cancelling, answer, early>>

\* MarkCancelled
MarkCancelled(r) ==
  /\ job[r] = "mark"
  /\ row' = IF row[r].status \in {"finished", "failed"} THEN row
            ELSE [row EXCEPT ![r].status = "cancelled", ![r].verdict = "INCONCLUSIVE"]
  /\ Goto(r, "over")
  /\ UNCHANGED <<srv, outcome, cancelling, answer, early, unrecorded>>

\* Fail
Fail(r) ==
  /\ job[r] = "fail"
  /\ row' = IF row[r].status \in {"finished", "cancelled"} THEN row
            ELSE [row EXCEPT ![r].status = "failed", ![r].verdict = "INCONCLUSIVE"]
  /\ Goto(r, "over")
  /\ UNCHANGED <<srv, outcome, cancelling, answer, early, unrecorded>>

\* Either of the two writes fails: logged, and the goroutine ends.
SettleFails(r) ==
  /\ job[r] \in {"mark", "fail"}
  /\ Goto(r, "over")
  /\ unrecorded' = unrecorded \cup {r}
  /\ UNCHANGED <<row, srv, outcome, cancelling, answer, early>>

-----------------------------------------------------------------------------
Serve(p) == Boot(p) \/ Recover(p) \/ RecoverFails(p) \/ Disconnect(p)

Submit(p, r, k, i) ==
  SubmitNew(p, r, k, i) \/ SubmitRepeated(p, r, k, i) \/ SubmitConflict(p, r, k, i)

RequestCancel(p) ==
  (\E r \in Run : CancelRead(p, r)) \/ CancelWrite(p) \/ CancelWriteFails(p)

Experiment(r) == (\E o \in Natives \cup {"fault"} : Returns(r, o)) \/ Panics(r)

JobStep(r) ==
  \/ Start(r) \/ StartFails(r)
  \/ Experiment(r)
  \/ Decide(r) \/ DecideUnread(r)
  \/ Finish(r) \/ FinishFails(r)
  \/ MarkCancelled(r) \/ Fail(r) \/ SettleFails(r)

Next ==
  \/ \E p \in Pid : Serve(p) \/ Exit(p) \/ Kill(p) \/ RequestCancel(p)
  \/ \E p \in Pid, r \in Run, q \in Request : Submit(p, r, q.key, q.input)
  \/ \E r \in Run : JobStep(r)

Spec == Init /\ [][Next]_vars

(***************************************************************************)
(* The goroutine of a run runs, its experiment returns in the end, and a   *)
(* server whose wait is over exits.  Nobody is obliged to call, to start a *)
(* server or to hang up, and writes may fail for ever.                     *)
(***************************************************************************)
FairSpec ==
  /\ Spec
  /\ \A r \in Run : WF_vars(JobStep(r))
  /\ \A p \in Pid : WF_vars(Exit(p))

-----------------------------------------------------------------------------
(* Properties *)

\* What a caller can learn of a run: view and the columns it reads.
Entry(r) ==
  IF ~Known(r) THEN [at |-> "absent"]
  ELSE [at |-> IF InFlight(r) THEN "open" ELSE row[r].verdict,
        key |-> row[r].key, input |-> row[r].input]

Ledger == INSTANCE RunLedger WITH ledger <- [r \in Run |-> Entry(r)]

\* The servers on one checkout, with their crashes, recoveries, retries and
\* late cancels, implement the ledger: one run for a key, and a verdict that
\* never changes once a caller can have read it.
ImplementsLedger == Ledger!Spec

\* PASS and FAIL are only ever said of an experiment that returned a result
\* evaluated so: a failed, cancelled, interrupted or unevaluated one is
\* INCONCLUSIVE.
VerdictIsEarned ==
  \A r \in Run : Known(r) =>
    /\ row[r].verdict = "PASS" => outcome[r] \in {"pass", "warn"}
    /\ row[r].verdict = "FAIL" => outcome[r] = "fail"

\* An acknowledgement names the run of exactly the request it answers.
AnswerFitsRequest ==
  answer # NoRow /\ answer.run # NoRun =>
    /\ Known(answer.run)
    /\ row[answer.run].key = answer.key
    /\ row[answer.run].input = answer.input

\* A run somebody is working on is in flight: no other server's recovery, and
\* no cancel, settles it under the goroutine.
WorkIsInFlight ==
  \A r \in Run : job[r] \in Working => Known(r) /\ InFlight(r)

\* A run whose flag was set before its experiment returned is never reported
\* failed, unless the experiment panicked, or its server died before the run
\* was settled or after the write that would have settled it failed.
CancelIsNotFailure ==
  \A r \in early :
    row[r].status = "failed" =>
      outcome[r] = "panic" \/ job[r] = "lost" \/ r \in unrecorded

\* A run does not stay in flight for ever: it is settled, unless the write
\* that would settle it failed or its server was killed.
RunsSettle ==
  \A r \in Run : job[r] \in Working ~> (terminal(r) \/ r \in unrecorded \/ job[r] = "lost")

\* A server whose client hung up exits, whatever its experiments do.
ServersExit == \A p \in Pid : srv[p] = "draining" ~> srv[p] = "down"

=============================================================================

---------------------------- MODULE McpRunsProofs -----------------------------
(***************************************************************************)
(* Proofs about McpRuns, for any runs, keys, arguments, process ids,       *)
(* requests and verdicts of the evaluator.                                 *)
(***************************************************************************)
EXTENDS McpRuns, TLAPS

\* What the state of a goroutine says of its run: the run is recorded and in
\* flight, and its server has not gone away.
Attended ==
  \A r \in Run :
    /\ job[r] = "none" <=> ~Known(r)
    /\ job[r] \in Working => InFlight(r) /\ Alive(row[r].owner)

\* A run has a verdict when, and only when, it is in flight no more; and it
\* is in flight without anybody working on it only after its server died or
\* its last write failed.
Settled ==
  \A r \in Run : Known(r) =>
    /\ row[r].verdict = "" <=> InFlight(r)
    /\ InFlight(r) => job[r] \in Working \cup {"lost"} \/ r \in unrecorded

\* What the experiment returned, by where its goroutine has got to.
Returned ==
  \A r \in Run :
    /\ job[r] = "returned" => outcome[r] \in AllNatives \cup {"fault"}
    /\ job[r] \in {"finish", "finishCancelled"} => outcome[r] \in AllNatives

\* A flag, once set, stays; a run flagged in time is on no way to a failure
\* but the one of a panic.
Flagged ==
  /\ \A p \in Pid : cancelling[p] # NoRun => Known(cancelling[p])
  /\ \A r \in early :
       /\ Known(r) /\ row[r].cancel
       /\ job[r] = "fail" => outcome[r] = "panic"

\* The inductive invariant.
IInv ==
  /\ TypeOK /\ Attended /\ Settled /\ Returned /\ Flagged
  /\ VerdictIsEarned /\ AnswerFitsRequest /\ CancelIsNotFailure

-----------------------------------------------------------------------------
(* Rows *)

Statuses == {"queued", "running", "finished", "failed", "cancelled"}
Words == {"", "PASS", "FAIL", "INCONCLUSIVE"}

\* The row of r gets status s and verdict v, and nothing else happens to it.
Rewritten(r, s, v) ==
  /\ row' \in [Run -> Rows \cup {NoRow}]
  /\ \A q \in Run \ {r} : row'[q] = row[q]
  /\ row'[r] \in Rows
  /\ row'[r].status = s /\ row'[r].verdict = v
  /\ row'[r].cancel = row[r].cancel /\ row'[r].owner = row[r].owner
  /\ row'[r].key = row[r].key /\ row'[r].input = row[r].input

\* A run is known when its row has all the columns.
LEMMA KnownRow == ASSUME TypeOK, NEW r \in Run
                  PROVE  Known(r) <=> row[r] \in Rows
BY DEF TypeOK, Known, NoRow, Rows

\* The absence of a row is not a row.
LEMMA NoRowIsNone == NoRow \notin Rows
BY DEF NoRow, Rows

\* Setting both columns, as Finish, Fail and MarkCancelled do.
LEMMA SetBoth ==
  ASSUME TypeOK, NEW r \in Run, row[r] \in Rows, NEW s \in Statuses, NEW v \in Words,
         row' = [row EXCEPT ![r].status = s, ![r].verdict = v]
  PROVE  Rewritten(r, s, v)
<1> DEFINE w == [row[r] EXCEPT !.status = s, !.verdict = v]
<1>1. w \in Rows  BY DEF Rows, Statuses, Words
<1>2. row' = [row EXCEPT ![r] = w]  BY DEF TypeOK
<1>3. /\ w.status = s /\ w.verdict = v /\ w.cancel = row[r].cancel
      /\ w.owner = row[r].owner /\ w.key = row[r].key /\ w.input = row[r].input
  BY DEF Rows
<1> HIDE DEF w
<1> QED  BY ZenonT(60), <1>1, <1>2, <1>3 DEF TypeOK, Rewritten

\* Setting the status alone, as Start does.
LEMMA SetStatus ==
  ASSUME TypeOK, NEW r \in Run, row[r] \in Rows, NEW s \in Statuses,
         row' = [row EXCEPT ![r].status = s]
  PROVE  Rewritten(r, s, row[r].verdict)
<1> DEFINE w == [row[r] EXCEPT !.status = s]
<1>1. w \in Rows  BY DEF Rows, Statuses
<1>2. row' = [row EXCEPT ![r] = w]  BY DEF TypeOK
<1>3. /\ w.status = s /\ w.verdict = row[r].verdict /\ w.cancel = row[r].cancel
      /\ w.owner = row[r].owner /\ w.key = row[r].key /\ w.input = row[r].input
  BY DEF Rows
<1> HIDE DEF w
<1> QED  BY <1>1, <1>2, <1>3 DEF TypeOK, Rewritten

-----------------------------------------------------------------------------
(* The invariant *)

\* No server, no run, no goroutine.
LEMMA InitInv == Init => IInv
BY RunsAssumption DEF Init, IInv, TypeOK, Attended, Settled, Returned, Flagged,
   VerdictIsEarned, AnswerFitsRequest, CancelIsNotFailure, Known, NoRow, Rows,
   Outcomes, Answers, JobStates, Working, InFlight

\* A goroutine moves on without writing to the table.
LEMMA JobMoves ==
  ASSUME IInv, NEW r \in Run, NEW l \in JobStates \ {"none", "lost"},
         job[r] \in Working,
         job' = [job EXCEPT ![r] = l],
         outcome' \in [Run -> Outcomes],
         \A q \in Run \ {r} : outcome'[q] = outcome[q],
         unrecorded' \in SUBSET Run, unrecorded \subseteq unrecorded',
         UNCHANGED <<row, srv, cancelling, answer, early>>,
         l = "over" => r \in unrecorded',
         l = "returned" => outcome'[r] \in AllNatives \cup {"fault"},
         l \in {"finish", "finishCancelled"} => outcome'[r] \in AllNatives,
         l = "fail" /\ r \in early => outcome'[r] = "panic"
  PROVE  IInv'
<1> USE DEF IInv, Known, InFlight, Alive
<1>1. TypeOK'  BY DEF TypeOK
<1>2. Attended'  BY DEF Attended, TypeOK, Working, JobStates
<1>3. Settled'  BY DEF Settled, TypeOK, Working, JobStates
<1>4. Returned'  BY DEF Returned, TypeOK
<1>5. Flagged'  BY DEF Flagged, TypeOK
<1>6. VerdictIsEarned'
  BY ZenonT(60) DEF VerdictIsEarned, Attended, Settled, TypeOK, Working, JobStates
<1>7. AnswerFitsRequest'  BY DEF AnswerFitsRequest
<1>8. CancelIsNotFailure'
  BY DEF CancelIsNotFailure, Attended, TypeOK, Working, JobStates
<1> QED  BY <1>1, <1>2, <1>3, <1>4, <1>5, <1>6, <1>7, <1>8

\* A goroutine writes to its row and moves on: it stays in flight and goes to
\* work, or gets a verdict it has earned and the goroutine is over.
LEMMA JobWrites ==
  ASSUME IInv, NEW r \in Run, NEW s \in Statuses, NEW v \in Words,
         job[r] \in Working,
         Rewritten(r, s, v),
         \/ s = "running" /\ v = "" /\ job' = [job EXCEPT ![r] = "work"]
         \/ /\ s \in {"finished", "failed", "cancelled"} /\ v # ""
            /\ job' = [job EXCEPT ![r] = "over"],
         UNCHANGED <<srv, outcome, cancelling, answer, early, unrecorded>>,
         v = "PASS" => outcome[r] \in {"pass", "warn"},
         v = "FAIL" => outcome[r] = "fail",
         s = "failed" /\ r \in early => outcome[r] = "panic"
  PROVE  IInv'
<1> USE DEF IInv, Known, InFlight, Alive
<1>1. TypeOK'  BY DEF TypeOK, Rewritten, JobStates
<1>2. row[r] # NoRow /\ row'[r] # NoRow
  BY NoRowIsNone DEF Rewritten, Attended, Working
<1>3. \A q \in Run : q # r => row'[q] = row[q] /\ job'[q] = job[q]
  BY DEF Rewritten, TypeOK
<1>4. job'[r] = IF s = "running" THEN "work" ELSE "over"
  BY DEF TypeOK
<1>5. Attended'
  <2>1. row'[r].owner = row[r].owner /\ row'[r].status = s  BY DEF Rewritten
  <2>2. srv[row[r].owner] # "down"  BY DEF Attended
  <2>3. /\ job'[r] # "none" /\ row'[r] # NoRow
        /\ job'[r] \in Working => row'[r].status \in {"queued", "running"}
    BY <1>2, <1>4, <2>1 DEF Working, JobStates
  <2>4. \A q \in Run \ {r} :
          /\ job'[q] = "none" <=> row'[q] = NoRow
          /\ job'[q] \in Working => /\ row'[q].status \in {"queued", "running"}
                                    /\ srv[row'[q].owner] # "down"
    BY ZenonT(60), <1>3 DEF Attended
  <2> QED  BY <2>1, <2>2, <2>3, <2>4 DEF Attended
<1>6. Settled'
  <2>1. row'[r].status = s /\ row'[r].verdict = v  BY DEF Rewritten
  <2>2. s \in {"queued", "running"} <=> v = ""
    BY DEF Statuses
  <2>3. s \in {"queued", "running"} => job'[r] \in Working
    BY <1>4 DEF Working, JobStates, Statuses
  <2>4. ASSUME NEW q \in Run, q # r, row'[q] # NoRow
        PROVE  /\ row'[q].verdict = "" <=> row'[q].status \in {"queued", "running"}
               /\ row'[q].status \in {"queued", "running"} =>
                    job'[q] \in Working \cup {"lost"} \/ q \in unrecorded'
    BY <1>3, <2>4 DEF Settled
  <2> QED  BY <2>1, <2>2, <2>3, <2>4 DEF Settled
<1>7. Returned'  BY DEF Returned, TypeOK
<1>8. Flagged'
  <2>1. row'[r].cancel = row[r].cancel  BY DEF Rewritten
  <2> QED  BY ZenonT(60), <1>2, <1>3, <1>4, <2>1 DEF Flagged, TypeOK
<1>9. VerdictIsEarned'
  <2>1. row'[r].verdict = v  BY DEF Rewritten
  <2> QED  BY <1>2, <1>3, <2>1 DEF VerdictIsEarned
<1>10. AnswerFitsRequest'
  <2>1. row'[r].key = row[r].key /\ row'[r].input = row[r].input  BY DEF Rewritten
  <2>2. answer # NoRow /\ answer.run # NoRun => answer.run \in Run
    BY DEF TypeOK, Answers
  <2> QED  BY <1>2, <1>3, <2>1, <2>2 DEF AnswerFitsRequest
<1>11. CancelIsNotFailure'
  <2>1. row'[r].status = s  BY DEF Rewritten
  <2> QED  BY <1>2, <1>3, <1>4, <2>1 DEF CancelIsNotFailure, TypeOK
<1> QED  BY <1>1, <1>5, <1>6, <1>7, <1>8, <1>9, <1>10, <1>11

\* The state of a server changes and it stays alive, or nobody works for it.
LEMMA ServerInv ==
  ASSUME IInv, NEW p \in Pid,
         \/ Boot(p) \/ RecoverFails(p) \/ Disconnect(p)
         \/ Exit(p)
  PROVE  IInv'
<1> USE DEF IInv, Known, InFlight
<1>1. /\ UNCHANGED <<row, job, outcome, cancelling, answer, early, unrecorded>>
      /\ \E x \in {"down", "boot", "up", "draining"} : srv' = [srv EXCEPT ![p] = x]
  BY DEF Boot, RecoverFails, Disconnect, Exit
<1>2. TypeOK'  BY <1>1 DEF TypeOK
<1>3. \A r \in Run : job[r] \in Working /\ row[r].owner = p => srv'[p] # "down"
  BY DEF Boot, RecoverFails, Disconnect, Exit, TypeOK
<1>4. Attended'  BY <1>1, <1>3 DEF Attended, Alive, TypeOK
<1>5. Settled' /\ Returned' /\ Flagged'  BY <1>1 DEF Settled, Returned, Flagged
<1>6. VerdictIsEarned' /\ AnswerFitsRequest' /\ CancelIsNotFailure'
  BY <1>1 DEF VerdictIsEarned, AnswerFitsRequest, CancelIsNotFailure
<1> QED  BY <1>2, <1>4, <1>5, <1>6

\* A killed server loses its goroutines.
LEMMA KillInv == ASSUME IInv, NEW p \in Pid, Kill(p) PROVE IInv'
<1> USE DEF IInv, Known, InFlight, Kill
<1>1. TypeOK'  BY DEF TypeOK, JobStates, Working
<1>2. \A r \in Run : job'[r] = job[r] \/ (job[r] \in Working /\ job'[r] = "lost")
  BY DEF TypeOK
<1>3. \A r \in Run : job'[r] \in Working =>
        job'[r] = job[r] /\ row[r].owner # p
  BY DEF TypeOK, Working, JobStates
<1>4. Attended'
  <2> SUFFICES ASSUME NEW r \in Run
               PROVE  /\ job'[r] = "none" <=> ~Known(r)
                      /\ job'[r] \in Working => InFlight(r) /\ srv'[row[r].owner] # "down"
    BY DEF Attended, Alive
  <2>1. job'[r] = "none" <=> ~Known(r)
    BY <1>2 DEF Attended, Working, JobStates
  <2>2. ASSUME job'[r] \in Working PROVE InFlight(r) /\ srv'[row[r].owner] # "down"
    <3>1. job[r] \in Working /\ row[r].owner # p  BY <1>3, <2>2
    <3>2. InFlight(r) /\ srv[row[r].owner] # "down"  BY <3>1 DEF Attended, Alive
    <3> QED  BY <3>1, <3>2 DEF TypeOK
  <2> QED  BY <2>1, <2>2
<1>5. Settled'  BY <1>2 DEF Settled
<1>6. Returned'  BY <1>2 DEF Returned
<1>7. Flagged'  BY <1>2, RunsAssumption DEF Flagged, TypeOK
<1>8. VerdictIsEarned' /\ AnswerFitsRequest'
  BY DEF VerdictIsEarned, AnswerFitsRequest
<1>9. CancelIsNotFailure'  BY <1>2 DEF CancelIsNotFailure, TypeOK, Working
<1> QED  BY <1>1, <1>4, <1>5, <1>6, <1>7, <1>8, <1>9

\* Recovery settles runs nobody works on.
LEMMA RecoverInv == ASSUME IInv, NEW p \in Pid, Recover(p) PROVE IInv'
<1> USE DEF IInv, Known, InFlight
<1>1. UNCHANGED <<job, outcome, cancelling, answer, early, unrecorded>>
  BY DEF Recover
<1>2. \A q \in Run : Interrupted(q) => job[q] \notin Working
  BY DEF Interrupted, Attended
<1>3. \A q \in Run : ~Interrupted(q) => row'[q] = row[q]
  BY DEF Recover, TypeOK
<1>4. ASSUME NEW q \in Run, Interrupted(q)
      PROVE  /\ row'[q] \in Rows
             /\ row'[q].status = "failed" /\ row'[q].verdict = "INCONCLUSIVE"
             /\ row'[q].cancel = row[q].cancel
             /\ row'[q].key = row[q].key /\ row'[q].input = row[q].input
  <2>1. row[q] \in Rows  BY <1>4, KnownRow DEF Interrupted
  <2>2. row'[q] = [row[q] EXCEPT !.status = "failed", !.verdict = "INCONCLUSIVE"]
    BY <1>4 DEF Recover
  <2> QED  BY <2>1, <2>2 DEF Rows
<1>5. \A q \in Run : Known(q) <=> (Known(q))'
  BY <1>3, <1>4, NoRowIsNone DEF Interrupted
<1>6. TypeOK'
  <2>1. \A q \in Run : row'[q] \in Rows \cup {NoRow}  BY <1>3, <1>4 DEF TypeOK
  <2>2. row' \in [Run -> Rows \cup {NoRow}]  BY <2>1 DEF Recover
  <2>3. srv' \in [Pid -> {"down", "boot", "up", "draining"}]  BY DEF Recover, TypeOK
  <2> QED  BY <1>1, <2>2, <2>3 DEF TypeOK
<1>7. Attended'
  <2>1. \A x \in Pid : srv[x] # "down" => srv'[x] # "down"  BY DEF Recover, TypeOK
  <2>2. \A q \in Run : job[q] \in Working => row[q].owner \in Pid
    BY KnownRow DEF Attended, Working, Rows
  <2> QED  BY <1>1, <1>2, <1>3, <1>5, <2>1, <2>2 DEF Attended, Alive
<1>8. Settled'  BY <1>1, <1>3, <1>4, <1>5 DEF Settled
<1>9. Returned'  BY <1>1 DEF Returned
<1>10. Flagged'  BY <1>1, <1>3, <1>4, <1>5 DEF Flagged, TypeOK
<1>11. VerdictIsEarned'  BY <1>1, <1>3, <1>4, <1>5 DEF VerdictIsEarned
<1>12. AnswerFitsRequest'
  <2>1. answer # NoRow /\ answer.run # NoRun => answer.run \in Run
    BY DEF TypeOK, Answers
  <2> QED  BY <1>1, <1>3, <1>4, <1>5, <2>1 DEF AnswerFitsRequest
<1>13. CancelIsNotFailure'
  <2>1. \A q \in Run : Interrupted(q) => job[q] = "lost" \/ q \in unrecorded
    BY <1>2 DEF Interrupted, Settled
  <2> QED  BY <1>1, <1>3, <2>1 DEF CancelIsNotFailure, TypeOK
<1> QED  BY <1>6, <1>7, <1>8, <1>9, <1>10, <1>11, <1>12, <1>13

\* A new run is queued, and its goroutine is about to start.
LEMMA SubmitNewInv ==
  ASSUME IInv, NEW p \in Pid, NEW r \in Run, NEW k \in Key \cup {NoKey},
         NEW i \in Input, SubmitNew(p, r, k, i)
  PROVE  IInv'
<1> DEFINE w == [status |-> "queued", verdict |-> "", cancel |-> FALSE,
                 owner |-> p, key |-> k, input |-> i]
<1> USE DEF IInv, Known, InFlight
<1>1. /\ row' = [row EXCEPT ![r] = w] /\ job' = [job EXCEPT ![r] = "start"]
      /\ answer' = [key |-> k, input |-> i, run |-> r]
      /\ UNCHANGED <<srv, outcome, cancelling, early, unrecorded>>
      /\ srv[p] # "down" /\ row[r] = NoRow
  BY DEF SubmitNew, Goto
<1>2. /\ w \in Rows /\ w.status = "queued" /\ w.verdict = "" /\ w.owner = p
      /\ w.key = k /\ w.input = i
  BY DEF Rows
<1> HIDE DEF w
<1>3. row'[r] = w /\ job'[r] = "start" /\ w # NoRow
  BY <1>1, <1>2, NoRowIsNone DEF TypeOK
<1>4. \A q \in Run : q # r => row'[q] = row[q] /\ job'[q] = job[q]
  BY <1>1 DEF TypeOK
<1>5. TypeOK'  BY <1>1, <1>2 DEF TypeOK, JobStates, Answers
<1>6. Attended'
  <2>1. srv'[row'[r].owner] # "down"  BY <1>1, <1>2, <1>3
  <2>2. row'[r].status = "queued" /\ row'[r] # NoRow /\ job'[r] # "none"
    BY <1>2, <1>3
  <2>3. ASSUME NEW q \in Run, q # r
        PROVE  /\ job'[q] = "none" <=> row'[q] = NoRow
               /\ job'[q] \in Working =>
                    row'[q].status \in {"queued", "running"} /\ srv'[row'[q].owner] # "down"
    BY <1>1, <1>4, <2>3 DEF Attended, Alive
  <2> QED  BY <2>1, <2>2, <2>3 DEF Attended, Alive
<1>7. Settled'  BY ZenonT(60), <1>1, <1>2, <1>3, <1>4 DEF Settled, Working, JobStates
<1>8. Returned'  BY <1>1, <1>3, <1>4 DEF Returned
<1>9. Flagged'  BY <1>1, <1>3, <1>4, RunsAssumption DEF Flagged, TypeOK
<1>10. VerdictIsEarned'  BY <1>1, <1>2, <1>3, <1>4 DEF VerdictIsEarned
<1>11. AnswerFitsRequest'
  <2>1. answer'.run = r /\ answer'.key = k /\ answer'.input = i  BY <1>1
  <2> QED  BY <1>2, <1>3, <2>1 DEF AnswerFitsRequest
<1>12. CancelIsNotFailure'
  BY <1>1, <1>2, <1>3, <1>4 DEF CancelIsNotFailure, Flagged, TypeOK
<1> QED  BY <1>5, <1>6, <1>7, <1>8, <1>9, <1>10, <1>11, <1>12

\* A repeated request changes nothing but what was answered last.
LEMMA SubmitAgainInv ==
  ASSUME IInv, NEW p \in Pid, NEW r \in Run, NEW k \in Key \cup {NoKey},
         NEW i \in Input, SubmitRepeated(p, r, k, i) \/ SubmitConflict(p, r, k, i)
  PROVE  IInv'
<1> USE DEF IInv, Known, InFlight
<1>1. /\ UNCHANGED <<row, srv, job, outcome, cancelling, early, unrecorded>>
      /\ answer' = [key |-> k, input |-> i, run |-> IF row[r].input = i THEN r ELSE NoRun]
      /\ row[r] # NoRow /\ row[r].key = k
  BY DEF SubmitRepeated, SubmitConflict, HasKey
<1>2. TypeOK'  BY <1>1 DEF TypeOK, Answers
<1>3. Attended' /\ Settled'  BY <1>1 DEF Attended, Alive, Settled
<1>4. Returned' /\ Flagged'  BY <1>1 DEF Returned, Flagged
<1>5. VerdictIsEarned' /\ CancelIsNotFailure'
  BY <1>1 DEF VerdictIsEarned, CancelIsNotFailure
<1>6. AnswerFitsRequest'
  <2>1. /\ answer'.key = k /\ answer'.input = i
        /\ answer'.run = IF row[r].input = i THEN r ELSE NoRun
    BY <1>1
  <2> QED  BY <1>1, <2>1 DEF AnswerFitsRequest
<1> QED  BY <1>2, <1>3, <1>4, <1>5, <1>6

\* Reading before a cancel, and a cancel that cannot be written.
LEMMA CancelReadInv ==
  ASSUME IInv, NEW p \in Pid,
         (\E r \in Run : CancelRead(p, r)) \/ CancelWriteFails(p)
  PROVE  IInv'
<1> USE DEF IInv, InFlight
<1>1. UNCHANGED <<row, srv, job, outcome, answer, early, unrecorded>>
  BY DEF CancelRead, CancelWriteFails
<1>2. PICK x \in Run \cup {NoRun} :
        cancelling' = [cancelling EXCEPT ![p] = x] /\ (x # NoRun => Known(x))
  BY DEF CancelRead, CancelWriteFails
<1>3. TypeOK'  BY <1>1, <1>2 DEF TypeOK
<1>4. Attended' /\ Settled' /\ Returned'
  BY <1>1 DEF Attended, Alive, Settled, Returned, Known
<1>5. \A y \in Pid : cancelling'[y] # NoRun => Known(cancelling'[y])
  BY <1>2 DEF Flagged, TypeOK
<1>6. Flagged'  BY <1>1, <1>5 DEF Flagged, Known
<1>7. VerdictIsEarned' /\ AnswerFitsRequest' /\ CancelIsNotFailure'
  BY <1>1 DEF VerdictIsEarned, AnswerFitsRequest, CancelIsNotFailure, Known
<1> QED  BY <1>3, <1>4, <1>6, <1>7

\* The flag is set, whatever the run has come to.
LEMMA CancelWriteInv == ASSUME IInv, NEW p \in Pid, CancelWrite(p) PROVE IInv'
<1> DEFINE r == cancelling[p]
           w == [row[r] EXCEPT !.cancel = TRUE]
<1> USE DEF IInv, Known, InFlight
<1>1. r \in Run /\ row[r] # NoRow /\ row[r] \in Rows
  BY KnownRow DEF CancelWrite, Flagged, TypeOK
<1>2. /\ UNCHANGED <<srv, job, outcome, answer, unrecorded>>
      /\ cancelling' = [cancelling EXCEPT ![p] = NoRun]
      /\ early' = IF job[r] \in {"start", "work"} THEN early \cup {r} ELSE early
  BY DEF CancelWrite
<1>3. /\ w \in Rows /\ w.cancel /\ w.status = row[r].status
      /\ w.verdict = row[r].verdict /\ w.owner = row[r].owner
      /\ w.key = row[r].key /\ w.input = row[r].input
  BY <1>1 DEF Rows
<1>4. row' = [row EXCEPT ![r] = w]  BY DEF CancelWrite, TypeOK
<1> HIDE DEF w, r
<1>5. row'[r] = w /\ w # NoRow /\ \A q \in Run : q # r => row'[q] = row[q]
  BY <1>1, <1>3, <1>4, NoRowIsNone DEF TypeOK
<1>6. TypeOK'  BY <1>1, <1>2, <1>3, <1>4 DEF TypeOK
<1>7. Attended'  BY <1>1, <1>2, <1>3, <1>5 DEF Attended, Alive
<1>8. Settled'  BY <1>1, <1>2, <1>3, <1>5 DEF Settled
<1>9. Returned'  BY <1>2 DEF Returned
<1>10. Flagged'
  <2>1. \A y \in Pid : cancelling'[y] # NoRun => cancelling'[y] = cancelling[y]
    BY <1>2 DEF TypeOK
  <2>2. \A y \in Pid : cancelling[y] # NoRun => cancelling[y] \in Run  BY DEF TypeOK
  <2> QED  BY <1>1, <1>2, <1>3, <1>5, <2>1, <2>2 DEF Flagged, TypeOK
<1>11. VerdictIsEarned'  BY <1>1, <1>2, <1>3, <1>5 DEF VerdictIsEarned
<1>12. AnswerFitsRequest'
  <2>1. answer # NoRow /\ answer.run # NoRun => answer.run \in Run
    BY DEF TypeOK, Answers
  <2> QED  BY <1>1, <1>2, <1>3, <1>5, <2>1 DEF AnswerFitsRequest
<1>13. CancelIsNotFailure'
  <2>1. job[r] \in {"start", "work"} => row[r].status # "failed"
    BY <1>1 DEF Attended, Working, JobStates
  <2> QED  BY <1>1, <1>2, <1>3, <1>5, <2>1 DEF CancelIsNotFailure, TypeOK
<1> QED  BY <1>6, <1>7, <1>8, <1>9, <1>10, <1>11, <1>12, <1>13

\* The goroutine of a run.
LEMMA JobInv == ASSUME IInv, NEW r \in Run, JobStep(r) PROVE IInv'
<1> USE DEF IInv
<1>1. job[r] \in Working => /\ row[r] \in Rows /\ InFlight(r) /\ row[r].verdict = ""
                            /\ Known(r)
  BY KnownRow DEF Attended, Settled, Working
<1>2. CASE Start(r)
  <2>1. job[r] \in Working  BY <1>2 DEF Start, Working, JobStates
  <2>2. Rewritten(r, "running", "")
    BY <1>1, <1>2, <2>1, SetStatus DEF Start, Statuses
  <2> QED  BY <1>2, <2>1, <2>2, JobWrites DEF Start, Goto, Statuses, Words
<1>3. CASE StartFails(r)
  BY <1>3, JobMoves DEF StartFails, Goto, Working, JobStates, TypeOK
<1>4. CASE Experiment(r)
  <2>1. CASE Panics(r)
    <3>1. outcome' \in [Run -> Outcomes] /\ outcome'[r] = "panic"
      BY <2>1 DEF Panics, TypeOK, Outcomes
    <3>2. \A q \in Run \ {r} : outcome'[q] = outcome[q]  BY <2>1 DEF Panics, TypeOK
    <3> QED
      BY <2>1, <3>1, <3>2, JobMoves DEF Panics, Goto, Working, JobStates, TypeOK
  <2>2. ASSUME NEW o \in Natives \cup {"fault"}, Returns(r, o) PROVE IInv'
    <3>1. o \in AllNatives \cup {"fault"}  BY RunsAssumption
    <3>2. outcome' \in [Run -> Outcomes] /\ outcome'[r] = o
      BY <2>2, <3>1 DEF Returns, TypeOK, Outcomes
    <3>3. \A q \in Run \ {r} : outcome'[q] = outcome[q]  BY <2>2 DEF Returns, TypeOK
    <3> QED
      BY <2>2, <3>1, <3>2, <3>3, JobMoves
      DEF Returns, Goto, Working, JobStates, TypeOK
  <2> QED  BY <1>4, <2>1, <2>2 DEF Experiment
<1>5. CASE Decide(r) \/ DecideUnread(r)
  <2>1. PICK c \in BOOLEAN : job' = [job EXCEPT ![r] = Branch(r, c)]
                             /\ (row[r].cancel => c)
    <3>1. job[r] \in Working  BY <1>5 DEF Decide, DecideUnread, Working, JobStates
    <3>2. row[r].cancel \in BOOLEAN  BY <1>1, <3>1 DEF Rows
    <3> QED  BY <1>5, <3>2 DEF Decide, DecideUnread, Goto
  <2>2. /\ job[r] = "returned"
        /\ UNCHANGED <<row, srv, outcome, cancelling, answer, early, unrecorded>>
    BY <1>5 DEF Decide, DecideUnread
  <2>3. outcome[r] \in AllNatives \cup {"fault"}  BY <2>2 DEF Returned
  <2>4. /\ Branch(r, c) \in {"finish", "finishCancelled"} => outcome[r] \in AllNatives
        /\ Branch(r, c) \in {"finish", "finishCancelled", "mark", "fail"}
        /\ Branch(r, c) = "fail" => ~c
    BY <2>3 DEF Branch, Faulted
  <2>5. Branch(r, c) = "fail" => r \notin early
    BY <2>1, <2>4 DEF Flagged
  <2> QED
    BY <2>1, <2>2, <2>4, <2>5, JobMoves DEF Working, JobStates, TypeOK
<1>6. CASE Finish(r)
  <2> DEFINE v == verdictFor(outcome[r])
  <2>1. job[r] \in Working  BY <1>6 DEF Finish, Working, JobStates
  <2>2. outcome[r] \in AllNatives  BY <1>6 DEF Finish, Returned
  <2>3. /\ v \in Words \ {""}
        /\ v = "PASS" => outcome[r] \in {"pass", "warn"}
        /\ v = "FAIL" => outcome[r] = "fail"
    BY <2>2 DEF verdictFor, AllNatives, Words
  <2>4. Rewritten(r, "finished", v)
    BY <1>1, <1>6, <2>1, <2>3, SetBoth DEF Finish, Statuses
  <2> HIDE DEF v
  <2> QED  BY <1>6, <2>1, <2>3, <2>4, JobWrites DEF Finish, Goto, Statuses, Words
<1>7. CASE FinishFails(r)
  <2>1. /\ UNCHANGED <<row, srv, outcome, cancelling, answer, early>>
        /\ job[r] \in {"finish", "finishCancelled"}
    BY <1>7 DEF FinishFails
  <2>2. CASE job[r] = "finishCancelled"
    BY <1>7, <2>1, <2>2, JobMoves DEF FinishFails, Goto, Working, JobStates, TypeOK
  <2>3. CASE job[r] # "finishCancelled"
    BY <1>7, <2>1, <2>3, JobMoves DEF FinishFails, Goto, Working, JobStates, TypeOK
  <2> QED  BY <2>2, <2>3
<1>8. CASE MarkCancelled(r)
  <2>1. job[r] \in Working  BY <1>8 DEF MarkCancelled, Working, JobStates
  <2>2. Rewritten(r, "cancelled", "INCONCLUSIVE")
    BY <1>1, <1>8, <2>1, SetBoth DEF MarkCancelled, InFlight, Statuses, Words
  <2> QED  BY <1>8, <2>1, <2>2, JobWrites DEF MarkCancelled, Goto, Statuses, Words
<1>9. CASE Fail(r)
  <2>1. job[r] \in Working  BY <1>9 DEF Fail, Working, JobStates
  <2>2. Rewritten(r, "failed", "INCONCLUSIVE")
    BY <1>1, <1>9, <2>1, SetBoth DEF Fail, InFlight, Statuses, Words
  <2>3. r \in early => outcome[r] = "panic"  BY <1>9 DEF Fail, Flagged
  <2> QED  BY <1>9, <2>1, <2>2, <2>3, JobWrites DEF Fail, Goto, Statuses, Words
<1>10. CASE SettleFails(r)
  BY <1>10, JobMoves DEF SettleFails, Goto, Working, JobStates, TypeOK
<1> QED
  BY <1>2, <1>3, <1>4, <1>5, <1>6, <1>7, <1>8, <1>9, <1>10 DEF JobStep

\* Every step of servers, callers and goroutines preserves the invariant.
LEMMA NextInv == IInv /\ [Next]_vars => IInv'
<1> SUFFICES ASSUME IInv, [Next]_vars PROVE IInv'
  OBVIOUS
<1>1. CASE UNCHANGED vars
  <2> USE <1>1 DEF vars, IInv
  <2>1. TypeOK' /\ Returned'  BY DEF TypeOK, Returned
  <2>2. Attended'  BY DEF Attended, Known, InFlight, Alive
  <2>3. Settled'  BY DEF Settled, Known, InFlight
  <2>4. Flagged'  BY DEF Flagged, Known
  <2>5. VerdictIsEarned' /\ AnswerFitsRequest' /\ CancelIsNotFailure'
    BY DEF VerdictIsEarned, AnswerFitsRequest, CancelIsNotFailure, Known
  <2> QED  BY <2>1, <2>2, <2>3, <2>4, <2>5
<1>2. ASSUME NEW p \in Pid, Serve(p) \/ Exit(p) \/ Kill(p) \/ RequestCancel(p)
      PROVE  IInv'
  BY <1>2, ServerInv, RecoverInv, KillInv, CancelReadInv, CancelWriteInv
  DEF Serve, RequestCancel
<1>3. ASSUME NEW p \in Pid, NEW r \in Run, NEW q \in Request,
             Submit(p, r, q.key, q.input)
      PROVE  IInv'
  <2>1. q.key \in Key \cup {NoKey} /\ q.input \in Input  BY RunsAssumption
  <2> QED  BY <1>3, <2>1, SubmitNewInv, SubmitAgainInv DEF Submit
<1>4. ASSUME NEW r \in Run, JobStep(r) PROVE IInv'
  BY <1>4, JobInv
<1> QED  BY <1>1, <1>2, <1>3, <1>4 DEF Next

\* The invariant holds throughout.
LEMMA Invariant == Spec => []IInv
BY InitInv, NextInv, PTL DEF Spec

-----------------------------------------------------------------------------
(* Theorems *)

\* Every reachable state of the run table, the servers and the goroutines is
\* well typed.
THEOREM TypeCorrect == Spec => []TypeOK
<1>1. IInv => TypeOK  BY DEF IInv
<1> QED  BY <1>1, Invariant, PTL

\* PASS and FAIL are only ever said of an experiment that was evaluated so.
THEOREM VerdictsAreEarned == Spec => []VerdictIsEarned
<1>1. IInv => VerdictIsEarned  BY DEF IInv
<1> QED  BY <1>1, Invariant, PTL

\* An acknowledgement of Submit names the run of the request it answers.
THEOREM AnswersFit == Spec => []AnswerFitsRequest
<1>1. IInv => AnswerFitsRequest  BY DEF IInv
<1> QED  BY <1>1, Invariant, PTL

\* No recovery and no cancel settles a run under the goroutine working on it,
\* for any number of servers and whichever process ids come back.
THEOREM WorkStaysInFlight == Spec => []WorkIsInFlight
<1>1. IInv => WorkIsInFlight
  BY DEF IInv, WorkIsInFlight, Attended, Working
<1> QED  BY <1>1, Invariant, PTL

\* A run cancelled in time is not reported as failed for what the cancelled
\* experiment returned.
THEOREM CancelsAreNotFailures == Spec => []CancelIsNotFailure
<1>1. IInv => CancelIsNotFailure  BY DEF IInv
<1> QED  BY <1>1, Invariant, PTL

-----------------------------------------------------------------------------
(* The ledger *)

Book == [r \in Run |-> Entry(r)]

\* A run nobody has in the table is absent from the ledger, and no other.
LEMMA AbsentEntry == ASSUME NEW r \in Run
                     PROVE  Known(r) <=> Book[r] # Ledger!Absent
BY DEF Book, Entry, Ledger!Absent

\* What a step makes of a run's row decides what it makes of its entry.
LEMMA EntryAfter ==
  ASSUME TypeOK, NEW r \in Run, row[r] \in Rows, row'[r] \in Rows,
         row'[r].key = row[r].key, row'[r].input = row[r].input
  PROVE  /\ InFlight(r) /\ row'[r].status \in {"queued", "running"}
              => Book'[r] = Book[r]
         /\ ~InFlight(r) /\ row'[r].status = row[r].status
            /\ row'[r].verdict = row[r].verdict
              => Book'[r] = Book[r]
         /\ InFlight(r) /\ row'[r].status \notin {"queued", "running"}
              => /\ Book[r].at = "open"
                 /\ Book'[r] = [Book[r] EXCEPT !.at = row'[r].verdict]
<1>1. /\ row[r] # NoRow /\ row'[r] # NoRow
  BY NoRowIsNone
<1>2. /\ Book[r] = [at |-> IF InFlight(r) THEN "open" ELSE row[r].verdict,
                    key |-> row[r].key, input |-> row[r].input]
      /\ Book'[r] = [at |-> IF row'[r].status \in {"queued", "running"}
                            THEN "open" ELSE row'[r].verdict,
                     key |-> row'[r].key, input |-> row'[r].input]
  BY <1>1 DEF Book, Entry, Known, InFlight
<1> QED  BY <1>2 DEF InFlight

\* A run concludes when its goroutine, having worked on it, writes a verdict.
LEMMA Concludes ==
  ASSUME IInv, NEW r \in Run, job[r] \in Working,
         NEW s \in Statuses \ {"queued", "running"}, NEW v \in Ledger!Verdicts,
         Rewritten(r, s, v)
  PROVE  Ledger!Conclude(r, v)
<1>1. row[r] \in Rows /\ InFlight(r)
  BY KnownRow DEF IInv, Attended, Working
<1>2. /\ Book[r].at = "open"
      /\ Book'[r] = [Book[r] EXCEPT !.at = v]
  BY <1>1, EntryAfter DEF Rewritten, IInv
<1>3. \A q \in Run \ {r} : Book'[q] = Book[q]
  BY DEF Rewritten, Book, Entry, Known, InFlight
<1>4. Book' = [Book EXCEPT ![r].at = v]
  BY <1>2, <1>3 DEF Book
<1> QED  BY <1>2, <1>4 DEF Ledger!Conclude, Book

\* A starting server concludes, at once, the runs it finds interrupted.
LEMMA RecoverConcludes ==
  ASSUME IInv, NEW p \in Pid, Recover(p)
  PROVE  Ledger!ConcludeAll({r \in Run : Interrupted(r)})
<1> DEFINE R == {r \in Run : Interrupted(r)}
<1>1. ASSUME NEW r \in R
      PROVE  /\ Book[r].at = "open"
             /\ Book'[r] = [Book[r] EXCEPT !.at = "INCONCLUSIVE"]
  <2>1. row[r] \in Rows /\ InFlight(r)  BY KnownRow DEF Interrupted, IInv
  <2>2. row'[r] = [row[r] EXCEPT !.status = "failed", !.verdict = "INCONCLUSIVE"]
    BY DEF Recover
  <2>3. /\ row'[r] \in Rows
        /\ row'[r].status = "failed" /\ row'[r].verdict = "INCONCLUSIVE"
        /\ row'[r].key = row[r].key /\ row'[r].input = row[r].input
    BY <2>1, <2>2 DEF Rows
  <2> QED  BY <2>1, <2>3, EntryAfter DEF IInv
<1>2. ASSUME NEW r \in Run \ R PROVE Book'[r] = Book[r]
  <2>1. row'[r] = row[r]  BY DEF Recover
  <2> QED  BY <2>1 DEF Book, Entry, Known, InFlight
<1>3. Book' = [r \in Run |-> IF r \in R THEN [Book[r] EXCEPT !.at = "INCONCLUSIVE"]
                             ELSE Book[r]]
  BY <1>1, <1>2 DEF Book
<1> QED  BY <1>1, <1>3 DEF Ledger!ConcludeAll, Book

\* A submission under a key nobody used opens a run.
LEMMA SubmitOpens ==
  ASSUME IInv, NEW p \in Pid, NEW r \in Run, NEW k \in Key \cup {NoKey},
         NEW i \in Input, SubmitNew(p, r, k, i)
  PROVE  Ledger!Open(r, k, i)
<1> DEFINE w == [status |-> "queued", verdict |-> "", cancel |-> FALSE,
                 owner |-> p, key |-> k, input |-> i]
<1>1. Book[r] = Ledger!Absent  BY AbsentEntry DEF SubmitNew
<1>2. k # NoKey => \A q \in Run : Book[q] # Ledger!Absent => Book[q].key # k
  <2>1. SUFFICES ASSUME k # NoKey, NEW q \in Run, Book[q] # Ledger!Absent
                 PROVE  Book[q].key # k
    OBVIOUS
  <2>2. Known(q)  BY <2>1, AbsentEntry
  <2>3. row[q].key # k  BY <2>1, <2>2 DEF SubmitNew, HasKey
  <2> QED  BY <2>2, <2>3 DEF Book, Entry
<1>3. row' = [row EXCEPT ![r] = w]  BY DEF SubmitNew
<1>4. w \in Rows /\ w.status = "queued" /\ w.key = k /\ w.input = i  BY DEF Rows
<1> HIDE DEF w
<1>5. row'[r] = w /\ \A q \in Run \ {r} : row'[q] = row[q]
  BY <1>3 DEF IInv, TypeOK
<1>6. Book'[r] = [at |-> "open", key |-> k, input |-> i]
  BY <1>4, <1>5, NoRowIsNone DEF Book, Entry, Known, InFlight
<1>7. \A q \in Run \ {r} : Book'[q] = Book[q]
  BY <1>5 DEF Book, Entry, Known, InFlight
<1>8. Book' = [Book EXCEPT ![r] = [at |-> "open", key |-> k, input |-> i]]
  BY <1>6, <1>7 DEF Book
<1> QED  BY <1>1, <1>2, <1>8 DEF Ledger!Open, Book

\* A cancel says nothing a caller of the ledger could read.
LEMMA CancelStutters == ASSUME IInv, NEW p \in Pid, CancelWrite(p) PROVE Book' = Book
<1> DEFINE r == cancelling[p]
           w == [row[r] EXCEPT !.cancel = TRUE]
<1>1. r \in Run /\ row[r] \in Rows
  BY KnownRow DEF CancelWrite, IInv, Flagged, TypeOK
<1>2. row' = [row EXCEPT ![r] = w]  BY DEF CancelWrite, IInv, TypeOK
<1>3. /\ w \in Rows /\ w.status = row[r].status /\ w.verdict = row[r].verdict
      /\ w.key = row[r].key /\ w.input = row[r].input
  BY <1>1 DEF Rows
<1> HIDE DEF w, r
<1>4. row'[r] = w /\ \A q \in Run \ {r} : row'[q] = row[q]
  BY <1>1, <1>2 DEF IInv, TypeOK
<1>5. Book'[r] = Book[r]
  BY <1>1, <1>3, <1>4, EntryAfter DEF IInv, InFlight
<1>6. \A q \in Run \ {r} : Book'[q] = Book[q]
  BY <1>4 DEF Book, Entry, Known, InFlight
<1> QED  BY <1>5, <1>6 DEF Book

\* A step that leaves the table alone leaves the ledger alone.
LEMMA TableUnchanged == UNCHANGED row => Book' = Book
BY DEF Book, Entry, Known, InFlight

\* The goroutine of a run: marking it running is invisible, its last write
\* concludes it, and every other step leaves the table alone.
LEMMA JobRefines ==
  ASSUME IInv, NEW r \in Run, JobStep(r)
  PROVE  Book' = Book \/ \E v \in Ledger!Verdicts : Ledger!Conclude(r, v)
<1> USE DEF IInv
<1>1. job[r] \in Working => /\ row[r] \in Rows /\ InFlight(r) /\ row[r].verdict = ""
                            /\ Known(r)
  BY KnownRow DEF Attended, Settled, Working
<1>2. CASE Start(r)
  <2>1. job[r] \in Working  BY <1>2 DEF Start, Working, JobStates
  <2>2. Rewritten(r, "running", "")
    BY <1>1, <1>2, <2>1, SetStatus DEF Start, Statuses
  <2>3. Book'[r] = Book[r]  BY <1>1, <2>1, <2>2, EntryAfter DEF Rewritten
  <2>4. \A q \in Run \ {r} : Book'[q] = Book[q]
    BY <2>2 DEF Rewritten, Book, Entry, Known, InFlight
  <2> QED  BY <2>3, <2>4 DEF Book
<1>3. CASE StartFails(r) \/ Experiment(r) \/ Decide(r) \/ DecideUnread(r)
           \/ FinishFails(r) \/ SettleFails(r)
  BY <1>3, TableUnchanged
  DEF StartFails, Experiment, Returns, Panics, Decide, DecideUnread, FinishFails,
      SettleFails
<1>4. CASE Finish(r)
  <2> DEFINE v == verdictFor(outcome[r])
  <2>1. job[r] \in Working  BY <1>4 DEF Finish, Working, JobStates
  <2>2. v \in Ledger!Verdicts /\ v \in Words
    BY DEF verdictFor, Words, Ledger!Verdicts
  <2>3. Rewritten(r, "finished", v)
    BY <1>1, <1>4, <2>1, <2>2, SetBoth DEF Finish, Statuses
  <2> HIDE DEF v
  <2> QED  BY <2>1, <2>2, <2>3, Concludes DEF Statuses
<1>5. CASE MarkCancelled(r)
  <2>1. job[r] \in Working  BY <1>5 DEF MarkCancelled, Working, JobStates
  <2>2. Rewritten(r, "cancelled", "INCONCLUSIVE")
    BY <1>1, <1>5, <2>1, SetBoth DEF MarkCancelled, InFlight, Statuses, Words
  <2> QED  BY <2>1, <2>2, Concludes DEF Statuses, Ledger!Verdicts
<1>6. CASE Fail(r)
  <2>1. job[r] \in Working  BY <1>6 DEF Fail, Working, JobStates
  <2>2. Rewritten(r, "failed", "INCONCLUSIVE")
    BY <1>1, <1>6, <2>1, SetBoth DEF Fail, InFlight, Statuses, Words
  <2> QED  BY <2>1, <2>2, Concludes DEF Statuses, Ledger!Verdicts
<1> QED  BY <1>2, <1>3, <1>4, <1>5, <1>6 DEF JobStep

\* Every step of the servers is a step of the ledger or invisible in it.
LEMMA StepRefines == IInv /\ [Next]_vars => [Ledger!Next]_Book
<1> SUFFICES ASSUME IInv, [Next]_vars PROVE Book' = Book \/ Ledger!Next
  OBVIOUS
<1>1. CASE UNCHANGED vars
  BY <1>1, TableUnchanged DEF vars
<1>2. ASSUME NEW p \in Pid, Serve(p) \/ Exit(p) \/ Kill(p) \/ RequestCancel(p)
      PROVE  Book' = Book \/ Ledger!Next
  <2>1. CASE Recover(p)  BY <2>1, RecoverConcludes DEF Ledger!Next
  <2>2. CASE CancelWrite(p)  BY <2>2, CancelStutters
  <2>3. CASE UNCHANGED row  BY <2>3, TableUnchanged
  <2>4. Recover(p) \/ CancelWrite(p) \/ UNCHANGED row
    BY <1>2 DEF Serve, Boot, RecoverFails, Disconnect, Exit, Kill, RequestCancel,
       CancelRead, CancelWriteFails
  <2> QED  BY <2>1, <2>2, <2>3, <2>4
<1>3. ASSUME NEW p \in Pid, NEW r \in Run, NEW q \in Request,
             Submit(p, r, q.key, q.input)
      PROVE  Book' = Book \/ Ledger!Next
  <2>1. q.key \in Key \cup {NoKey} /\ q.input \in Input  BY RunsAssumption
  <2>2. CASE SubmitNew(p, r, q.key, q.input)
    <3>1. Ledger!Open(r, q.key, q.input)  BY <2>1, <2>2, SubmitOpens
    <3> QED  BY <2>1, <3>1 DEF Ledger!Next
  <2>3. CASE UNCHANGED row  BY <2>3, TableUnchanged
  <2> QED  BY <1>3, <2>2, <2>3 DEF Submit, SubmitRepeated, SubmitConflict
<1>4. ASSUME NEW r \in Run, JobStep(r) PROVE Book' = Book \/ Ledger!Next
  BY <1>4, JobRefines DEF Ledger!Next
<1> QED  BY <1>1, <1>2, <1>3, <1>4 DEF Next

\* The servers on one checkout implement the ledger, however many there are:
\* one run for a key, and a verdict that never changes.
THEOREM LedgerIsImplemented == Spec => ImplementsLedger
<1>1. Init => Ledger!Init
  BY DEF Init, Ledger!Init, Ledger!Absent, Entry, Known
<1>2. IInv /\ [Next]_vars => [Ledger!Next]_([r \in Run |-> Entry(r)])
  BY StepRefines DEF Book
<1> QED  BY <1>1, <1>2, Invariant, PTL DEF Spec, ImplementsLedger, Ledger!Spec

=============================================================================

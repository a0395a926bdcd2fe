------------------------------- MODULE EventBus -------------------------------
(***************************************************************************)
(* The event bus of one engine process (engine/internal/events/bus.go),    *)
(* seen from one environment.                                              *)
(*                                                                         *)
(* Emit numbers an event under the mutex and offers it to the sinks after  *)
(* letting go of it, one channel send and one counter at a time; every     *)
(* sink drains its channel on a goroutine of its own; Settle and Close run *)
(* beside them.  Each access to something shared is a step.                *)
(***************************************************************************)
EXTENDS Integers, Sequences, FiniteSets

CONSTANTS
  Emitter,    \* goroutines that call Emit
  MaxSinks,   \* bound: sinks ever added
  QueueSize,  \* defaultQueueSize
  Resumes,    \* values ResumeSequence is called with
  MaxSeq      \* bound: sequence numbers issued

ASSUME BusAssumption ==
  /\ IsFiniteSet(Emitter)
  /\ MaxSinks \in Nat
  /\ QueueSize \in Nat \ {0}
  /\ Resumes \subseteq Nat
  /\ MaxSeq \in Nat

VARIABLES
  closed,   \* Bus.closed
  seq,      \* Bus.seqByEnv of the environment
  sinks,    \* how many sinks were added; sink s is the s-th of Bus.sinks
  emit,     \* each emitter inside Emit: its event, the sink it is at
  queue,    \* sinkState.queue: the channel's buffer
  open,     \* whether that channel is open
  queued,   \* sinkState.queued
  handled,  \* sinkState.handled
  dropped,  \* sinkState.dropped
  run,      \* the sink's goroutine
  hand,     \* the event that goroutine has taken
  shut,     \* whether the sink's own Close was called
  settle,   \* the caller of Settle
  close,    \* the caller of Close
  got,      \* history: events each sink's Deliver accepted, in order
  offered,  \* history: events accepted by Emit while the sink was added
  owed,     \* history: events whose Emit had returned when Settle was called
  exact,    \* history: no counter lagged its queue when Settle loaded it
  racing    \* history: Close began while an Emit was under way

vars == <<closed, seq, sinks, emit, queue, open, queued, handled, dropped, run,
          hand, shut, settle, close, got, offered, owed, exact, racing>>

emitVars   == <<seq, emit, offered>>
sinkVars   == <<handled, run, hand, got>>
settleVars == <<settle, owed, exact>>
closeVars  == <<closed, shut, close, racing>>

Sink == 1..MaxSinks
Added == 1..sinks

Event == [num : 1..MaxSeq, by : Emitter]

\* An emitter outside Emit.  Inside, it is about to send ("offer") or has
\* sent and not yet counted ("count"); a send on a closed channel panics.
OutsideEmit == [pc |-> "idle", num |-> 0, at |-> 0, upto |-> 0]
EmitStates ==
  [pc : {"idle", "offer", "count", "panicked"},
   num : 0..MaxSeq, at : 0..MaxSinks, upto : 0..MaxSinks]

SettleStates ==
  [pc : {"idle", "load", "wait", "done", "ended"},
   at : 0..MaxSinks, upto : 0..MaxSinks, target : Nat]

CloseStates ==
  [pc : {"idle", "queues", "sinks", "done"}, at : 0..MaxSinks + 1]

\* A goroutine holds one event at most.
Hands == {h \in Seq(Event) : Len(h) <= 1}

TypeOK ==
  /\ closed \in BOOLEAN
  /\ seq \in 0..MaxSeq
  /\ sinks \in 0..MaxSinks
  /\ emit \in [Emitter -> EmitStates]
  /\ queue \in [Sink -> Seq(Event)]
  /\ open \in [Sink -> BOOLEAN]
  /\ queued \in [Sink -> Nat]
  /\ handled \in [Sink -> Nat]
  /\ dropped \in [Sink -> Nat]
  /\ run \in [Sink -> {"none", "running", "ended", "panicked"}]
  /\ hand \in [Sink -> Hands]
  /\ shut \in [Sink -> BOOLEAN]
  /\ settle \in SettleStates
  /\ close \in CloseStates
  /\ got \in [Sink -> Seq(Event)]
  /\ offered \in [Sink -> Nat]
  /\ owed \in SUBSET (1..MaxSeq)
  /\ exact \in BOOLEAN
  /\ racing \in BOOLEAN

Init ==
  /\ closed = FALSE
  /\ seq = 0
  /\ sinks = 0
  /\ emit = [e \in Emitter |-> OutsideEmit]
  /\ queue = [s \in Sink |-> <<>>]
  /\ open = [s \in Sink |-> FALSE]
  /\ queued = [s \in Sink |-> 0]
  /\ handled = [s \in Sink |-> 0]
  /\ dropped = [s \in Sink |-> 0]
  /\ run = [s \in Sink |-> "none"]
  /\ hand = [s \in Sink |-> <<>>]
  /\ shut = [s \in Sink |-> FALSE]
  /\ settle = [pc |-> "idle", at |-> 0, upto |-> 0, target |-> 0]
  /\ close = [pc |-> "idle", at |-> 0]
  /\ got = [s \in Sink |-> <<>>]
  /\ offered = [s \in Sink |-> 0]
  /\ owed = {}
  /\ exact = TRUE
  /\ racing = FALSE

\* Emits under way: numbered, and not yet past their last sink.
InEmit(e) == emit[e].pc \in {"offer", "count"}

\* Events sent to sink s that its counter does not show yet.
Uncounted(s) == {e \in Emitter : emit[e].pc = "count" /\ emit[e].at = s}

\* Emits that have an event for sink s and have not reached it.
StillToOffer(s) ==
  {e \in Emitter : /\ emit[e].pc # "idle"
                   /\ s <= emit[e].upto
                   /\ IF emit[e].pc = "count" THEN emit[e].at < s
                                              ELSE emit[e].at <= s}

Stopped(s) == run[s] \in {"ended", "panicked"}

-----------------------------------------------------------------------------
(* Sinks and numbers *)

(* AddSink; a closed bus returns without adding.                           *)
AddSink ==
  /\ ~closed
  /\ sinks < MaxSinks
  /\ sinks' = sinks + 1
  /\ open' = [open EXCEPT ![sinks + 1] = TRUE]
  /\ run' = [run EXCEPT ![sinks + 1] = "running"]
  /\ UNCHANGED <<emitVars, queue, queued, handled, dropped, hand, got,
                 settleVars, closeVars>>

(* ResumeSequence raises the counter and never lowers it.                  *)
ResumeSequence(n) ==
  /\ seq < n
  /\ n <= MaxSeq
  /\ seq' = n
  /\ UNCHANGED <<sinks, emit, offered, queue, open, queued, dropped, sinkVars,
                 settleVars, closeVars>>

-----------------------------------------------------------------------------
(* Emit *)

\* The event takes number seq + 1 and the list of sinks is read.
Numbered(e) ==
  /\ emit[e].pc = "idle"
  /\ seq < MaxSeq
  /\ emit' = [emit EXCEPT ![e] =
                IF sinks = 0 THEN OutsideEmit
                ELSE [pc |-> "offer", num |-> seq + 1, at |-> 1, upto |-> sinks]]
  /\ offered' = [s \in Sink |-> IF s \in Added THEN offered[s] + 1 ELSE offered[s]]
  /\ UNCHANGED <<sinks, queue, open, queued, dropped, sinkVars, settleVars,
                 closeVars>>

\* Bug: the mutex is taken, closed is not looked at.
EmitUnchecked(e) == Numbered(e) /\ seq' = seq + 1

\* Bug: the mutex is not taken, and the write of another emitter's number
\* overwrites this one's.
EmitUnlocked(e) == ~closed /\ Numbered(e) /\ seq' \in {seq, seq + 1}

(* The part of Emit under the mutex: a closed bus returns at once,         *)
(* otherwise the event is numbered.                                        *)
Emit(e) == ~closed /\ Numbered(e) /\ seq' = seq + 1

\* Bug: the loop over the sinks is off by one.
AdvancePastEnd(e) ==
  emit' = [emit EXCEPT ![e] =
             IF emit[e].at > emit[e].upto THEN OutsideEmit
             ELSE [emit[e] EXCEPT !.pc = "offer", !.at = emit[e].at + 1]]

\* On to the next sink of the list Emit read, or out of the call.
Advance(e) ==
  emit' = [emit EXCEPT ![e] =
             IF emit[e].at = emit[e].upto THEN OutsideEmit
             ELSE [emit[e] EXCEPT !.pc = "offer", !.at = emit[e].at + 1]]

(* The select of Emit has room in the channel.                             *)
Send(e) ==
  LET s == emit[e].at IN
  /\ emit[e].pc = "offer"
  /\ open[s]
  /\ Len(queue[s]) < QueueSize
  /\ queue' = [queue EXCEPT ![s] = Append(@, [num |-> emit[e].num, by |-> e])]
  /\ emit' = [emit EXCEPT ![e].pc = "count"]
  /\ UNCHANGED <<seq, offered, sinks, open, queued, dropped, sinkVars,
                 settleVars, closeVars>>

\* The event sent is counted as queued.
Count(e) ==
  /\ emit[e].pc = "count"
  /\ queued' = [queued EXCEPT ![emit[e].at] = @ + 1]
  /\ Advance(e)
  /\ UNCHANGED <<seq, offered, sinks, queue, open, dropped, sinkVars,
                 settleVars, closeVars>>

\* Bug: an event that finds the queue full is passed over uncounted.
DropSilently(e) ==
  LET s == emit[e].at IN
  /\ emit[e].pc = "offer"
  /\ open[s]
  /\ Len(queue[s]) = QueueSize
  /\ Advance(e)
  /\ UNCHANGED <<seq, offered, sinks, queue, open, queued, dropped, sinkVars,
                 settleVars, closeVars>>

(* The select of Emit takes its default: the sink is behind.               *)
Drop(e) ==
  LET s == emit[e].at IN
  /\ emit[e].pc = "offer"
  /\ open[s]
  /\ Len(queue[s]) = QueueSize
  /\ dropped' = [dropped EXCEPT ![s] = @ + 1]
  /\ Advance(e)
  /\ UNCHANGED <<seq, offered, sinks, queue, open, queued, sinkVars,
                 settleVars, closeVars>>

(* Close has closed the channel meanwhile: the send panics, and whether    *)
(* the process survives is the caller's business.                          *)
SendOnClosed(e) ==
  /\ emit[e].pc = "offer"
  /\ ~open[emit[e].at]
  /\ emit' = [emit EXCEPT ![e].pc = "panicked"]
  /\ UNCHANGED <<seq, offered, sinks, queue, open, queued, dropped, sinkVars,
                 settleVars, closeVars>>

-----------------------------------------------------------------------------
(* run: the goroutine of a sink *)

\* Bug: the event is counted as handled before it is delivered.
TakeAndCount(s) ==
  /\ run[s] = "running"
  /\ hand[s] = <<>>
  /\ queue[s] # <<>>
  /\ hand' = [hand EXCEPT ![s] = <<Head(queue[s])>>]
  /\ queue' = [queue EXCEPT ![s] = Tail(@)]
  /\ handled' = [handled EXCEPT ![s] = @ + 1]
  /\ UNCHANGED <<emitVars, sinks, open, queued, dropped, run, got,
                 settleVars, closeVars>>

Take(s) ==
  /\ run[s] = "running"
  /\ hand[s] = <<>>
  /\ queue[s] # <<>>
  /\ hand' = [hand EXCEPT ![s] = <<Head(queue[s])>>]
  /\ queue' = [queue EXCEPT ![s] = Tail(@)]
  /\ UNCHANGED <<emitVars, sinks, open, queued, handled, dropped, run, got,
                 settleVars, closeVars>>

(* Deliver returned nil.                                                   *)
Deliver(s) ==
  /\ hand[s] # <<>>
  /\ got' = [got EXCEPT ![s] = @ \o hand[s]]
  /\ hand' = [hand EXCEPT ![s] = <<>>]
  /\ handled' = [handled EXCEPT ![s] = @ + 1]
  /\ UNCHANGED <<emitVars, sinks, queue, open, queued, dropped, run,
                 settleVars, closeVars>>

(* Deliver returned an error.                                              *)
DeliverFails(s) ==
  /\ hand[s] # <<>>
  /\ dropped' = [dropped EXCEPT ![s] = @ + 1]
  /\ hand' = [hand EXCEPT ![s] = <<>>]
  /\ handled' = [handled EXCEPT ![s] = @ + 1]
  /\ UNCHANGED <<emitVars, sinks, queue, open, queued, run, got,
                 settleVars, closeVars>>

(* Deliver panicked: the deferred recover counts a drop and the goroutine  *)
(* is over, with done closed and the wait group released.                  *)
DeliverPanics(s) ==
  /\ hand[s] # <<>>
  /\ dropped' = [dropped EXCEPT ![s] = @ + 1]
  /\ hand' = [hand EXCEPT ![s] = <<>>]
  /\ run' = [run EXCEPT ![s] = "panicked"]
  /\ UNCHANGED <<emitVars, sinks, queue, open, queued, handled, got,
                 settleVars, closeVars>>

(* The range over the channel ends once it is closed and empty.            *)
RunEnds(s) ==
  /\ run[s] = "running"
  /\ hand[s] = <<>>
  /\ queue[s] = <<>>
  /\ ~open[s]
  /\ run' = [run EXCEPT ![s] = "ended"]
  /\ UNCHANGED <<emitVars, sinks, queue, open, queued, handled, dropped, hand,
                 got, settleVars, closeVars>>

-----------------------------------------------------------------------------
(* Settle *)

\* The next sink of Settle's list, or its return.
SettleAt(s, upto) ==
  [pc |-> IF s > upto THEN "done" ELSE "load",
   at |-> IF s > upto THEN 0 ELSE s, upto |-> upto, target |-> 0]

(* Settle reads the list of sinks.  Owed: every number whose Emit is not   *)
(* still under way.                                                        *)
SettleCalled ==
  /\ settle.pc \in {"idle", "done", "ended"}
  /\ settle' = SettleAt(1, sinks)
  /\ owed' = (1..seq) \ {emit[e].num : e \in Emitter}
  /\ exact' = TRUE
  /\ UNCHANGED <<emitVars, sinks, queue, open, queued, dropped, sinkVars,
                 closeVars>>

\* target := st.queued.Load()
SettleLoads ==
  /\ settle.pc = "load"
  /\ settle' = [settle EXCEPT !.pc = "wait", !.target = queued[settle.at]]
  /\ exact' = (exact /\ Uncounted(settle.at) = {})
  /\ UNCHANGED <<owed, emitVars, sinks, queue, open, queued, dropped, sinkVars,
                 closeVars>>

\* Bug: the loop does not select on the sink's done channel.
SettlePassesHandledOnly ==
  /\ settle.pc = "wait"
  /\ handled[settle.at] >= settle.target
  /\ settle' = SettleAt(settle.at + 1, settle.upto)
  /\ UNCHANGED <<owed, exact, emitVars, sinks, queue, open, queued, dropped,
                 sinkVars, closeVars>>

(* The sink has handled the target, or its goroutine is over.              *)
SettlePasses ==
  /\ settle.pc = "wait"
  /\ handled[settle.at] >= settle.target \/ Stopped(settle.at)
  /\ settle' = SettleAt(settle.at + 1, settle.upto)
  /\ UNCHANGED <<owed, exact, emitVars, sinks, queue, open, queued, dropped,
                 sinkVars, closeVars>>

(* The context of Settle ends while it waits.                              *)
SettleContextEnds ==
  /\ settle.pc = "wait"
  /\ handled[settle.at] < settle.target
  /\ settle' = [pc |-> "ended", at |-> 0, upto |-> 0, target |-> 0]
  /\ UNCHANGED <<owed, exact, emitVars, sinks, queue, open, queued, dropped,
                 sinkVars, closeVars>>

-----------------------------------------------------------------------------
(* Close *)

(* Under the mutex; a second Close finds closed set and returns.           *)
CloseCalled ==
  /\ ~closed
  /\ closed' = TRUE
  /\ close' = [pc |-> "queues", at |-> 1]
  /\ racing' = (\E e \in Emitter : InEmit(e))
  /\ UNCHANGED <<shut, emitVars, sinks, queue, open, queued, dropped, sinkVars,
                 settleVars>>

CloseQueue ==
  /\ close.pc = "queues"
  /\ close.at <= sinks
  /\ open' = [open EXCEPT ![close.at] = FALSE]
  /\ close' = [close EXCEPT !.at = @ + 1]
  /\ UNCHANGED <<closed, shut, racing, emitVars, sinks, queue, queued, dropped,
                 sinkVars, settleVars>>

\* Bug: only a goroutine that ran to its end releases the wait group.
CloseWaitsForEnds ==
  /\ close.pc = "queues"
  /\ close.at > sinks
  /\ \A s \in Added : run[s] = "ended"
  /\ close' = [pc |-> "sinks", at |-> 1]
  /\ UNCHANGED <<closed, shut, racing, emitVars, sinks, queue, open, queued,
                 dropped, sinkVars, settleVars>>

\* Bug: the wait group is not waited for.
CloseDoesNotWait ==
  /\ close.pc = "queues"
  /\ close.at > sinks
  /\ close' = [pc |-> "sinks", at |-> 1]
  /\ UNCHANGED <<closed, shut, racing, emitVars, sinks, queue, open, queued,
                 dropped, sinkVars, settleVars>>

(* wg.Wait returns.                                                        *)
CloseWaited ==
  /\ close.pc = "queues"
  /\ close.at > sinks
  /\ \A s \in Added : Stopped(s)
  /\ close' = [pc |-> "sinks", at |-> 1]
  /\ UNCHANGED <<closed, shut, racing, emitVars, sinks, queue, open, queued,
                 dropped, sinkVars, settleVars>>

\* sink.Close of the next sink; an error does not stop the loop.
CloseSink ==
  /\ close.pc = "sinks"
  /\ close.at <= sinks
  /\ shut' = [shut EXCEPT ![close.at] = TRUE]
  /\ close' = [close EXCEPT !.at = @ + 1]
  /\ UNCHANGED <<closed, racing, emitVars, sinks, queue, open, queued, dropped,
                 sinkVars, settleVars>>

CloseReturns ==
  /\ close.pc = "sinks"
  /\ close.at > sinks
  /\ close' = [pc |-> "done", at |-> 0]
  /\ UNCHANGED <<closed, shut, racing, emitVars, sinks, queue, open, queued,
                 dropped, sinkVars, settleVars>>

-----------------------------------------------------------------------------
EmitStep(e) == Emit(e) \/ Send(e) \/ Count(e) \/ Drop(e) \/ SendOnClosed(e)
Delivery(s) == Deliver(s) \/ DeliverFails(s) \/ DeliverPanics(s)
RunStep(s) == Take(s) \/ Delivery(s) \/ RunEnds(s)
SettleStep == SettleLoads \/ SettlePasses
CloseStep == CloseQueue \/ CloseWaited \/ CloseSink \/ CloseReturns

Next ==
  \/ AddSink
  \/ \E n \in Resumes : ResumeSequence(n)
  \/ \E e \in Emitter : EmitStep(e)
  \/ \E s \in Sink : RunStep(s)
  \/ SettleCalled
  \/ SettleStep
  \/ SettleContextEnds
  \/ CloseCalled
  \/ CloseStep

Spec == Init /\ [][Next]_vars

(***************************************************************************)
(* Runnable goroutines run: a sink's goroutine (Deliver returns in the     *)
(* end), and whoever is inside Settle or Close.  Nothing obliges anybody   *)
(* to emit, to settle or to close.                                         *)
(***************************************************************************)
FairSpec ==
  /\ Spec
  /\ \A s \in Sink : WF_vars(RunStep(s))
  /\ WF_vars(SettleStep)
  /\ WF_vars(CloseStep)

-----------------------------------------------------------------------------
(* Properties *)

\* Drops is the whole account.  When Close has closed a sink whose goroutine
\* ran to its end, and no Emit raced the Close, every event accepted while
\* the sink was added was either delivered to it or is in its dropped count.
NothingLostSilently ==
  \A s \in Sink :
    shut[s] /\ run[s] = "ended" /\ ~racing
      => offered[s] = Len(got[s]) + dropped[s]

\* A sink is closed only when its goroutine is over: Deliver never runs on,
\* and no event is left for, a sink whose Close was called.
NoDeliveryAfterClose ==
  \A s \in Sink : shut[s] => Stopped(s) /\ hand[s] = <<>>

\* What one goroutine emits reaches every sink in the order of its calls, and
\* no number reaches a sink twice, whatever was resumed, dropped or refused
\* in between.
EmitterOrder ==
  \A s \in Sink : \A i, j \in 1..Len(got[s]) :
    i < j => /\ got[s][i].num # got[s][j].num
             /\ got[s][i].by = got[s][j].by => got[s][i].num < got[s][j].num

\* Only an Emit that was already under way when Close began can panic on a
\* closed channel: a call that starts afterwards is turned away.
OnlyRacingEmitsPanic ==
  (\E e \in Emitter : emit[e].pc = "panicked") => racing

\* Whether an event owed to the caller of Settle is still on its way to a
\* sink that Settle waited for.
Unsettled ==
  \E s \in 1..settle.upto :
    /\ ~Stopped(s)
    /\ \/ \E i \in 1..Len(queue[s]) : queue[s][i].num \in owed
       \/ \E i \in 1..Len(hand[s]) : hand[s][i].num \in owed

\* Settle is a barrier: when it returns nil, no sink still has an event whose
\* Emit had returned before the call, provided no send was uncounted when it
\* loaded a counter.
SettleIsBarrier == settle.pc = "done" /\ exact => ~Unsettled

\* A Close that began returns, whatever the sinks do with their events and
\* whichever of them panicked.
CloseCompletes == closed ~> close.pc = "done"

\* A Settle returns, without its context having to end, even when a sink
\* panicked before it reached the target and while others keep emitting.
SettleCompletes == settle.pc = "load" ~> settle.pc \in {"done", "ended"}

=============================================================================

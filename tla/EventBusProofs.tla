---------------------------- MODULE EventBusProofs ----------------------------
(***************************************************************************)
(* Proofs about EventBus, for any emitters, sinks, queue size and numbers  *)
(* resumed.                                                                *)
(***************************************************************************)
EXTENDS EventBus, FiniteSetTheorems, SequenceTheorems, TLAPS

\* Where the goroutine of a sink and the caller of Close are: the channel is
\* open from AddSink to Close, and the goroutine is over only when nothing
\* can reach it any more, or after a panic.
Place(s) ==
  /\ run[s] = "none" <=> sinks < s
  /\ open[s] => s <= sinks
  /\ ~closed /\ s <= sinks => open[s]
  /\ hand[s] # <<>> => run[s] = "running"
  /\ close.pc = "queues" /\ s < close.at => ~open[s]
  /\ close.pc \in {"sinks", "done"} /\ s <= sinks => ~open[s] /\ Stopped(s)
  /\ shut[s] => s <= sinks /\ close.pc \in {"sinks", "done"}
  /\ run[s] = "ended" => queue[s] = <<>> /\ ~open[s]

Places ==
  /\ closed <=> close.pc # "idle"
  /\ \A s \in Sink : Place(s)

\* Where the emitters are: an Emit is at a sink of the list it read, its
\* number is its own, and one that meets a Close was there before it.
Call(e) ==
  emit[e].pc # "idle" =>
    /\ 1 <= emit[e].at /\ emit[e].at <= emit[e].upto /\ emit[e].upto <= sinks
    /\ 1 <= emit[e].num /\ emit[e].num <= seq
    /\ closed => racing
    /\ emit[e].pc = "panicked" => closed
    /\ \A f \in Emitter \ {e} : emit[f].pc # "idle" => emit[f].num # emit[e].num

UnderWay == \A e \in Emitter : Call(e)

\* The caller of Settle is at a sink of the list it read.
Listed ==
  /\ settle.upto <= sinks
  /\ settle.pc \in {"load", "wait"} => 1 <= settle.at /\ settle.at <= settle.upto

\* The part of the invariant the others rest on.
Base == TypeOK /\ Places /\ UnderWay /\ Listed

-----------------------------------------------------------------------------
(* What a step of an emitter does to it *)

LEMMA EmitRecord ==
  ASSUME TypeOK, NEW e \in Emitter
  PROVE  /\ emit[e] \in EmitStates
         /\ emit[e].pc \in {"idle", "offer", "count", "panicked"}
         /\ emit[e].num \in 0..MaxSeq /\ emit[e].num \in Nat
         /\ emit[e].at \in 0..MaxSinks /\ emit[e].at \in Nat
         /\ emit[e].upto \in 0..MaxSinks /\ emit[e].upto \in Nat
BY BusAssumption DEF TypeOK, EmitStates

\* The emitter e is now inside Emit, at sink at of upto with event num; the
\* others are where they were.
NowAt(e, pc, num, at, upto) ==
  /\ emit' \in [Emitter -> EmitStates]
  /\ \A f \in Emitter : f # e => emit'[f] = emit[f]
  /\ emit'[e].pc = pc /\ emit'[e].num = num
  /\ emit'[e].at = at /\ emit'[e].upto = upto

\* The emitter e is now outside Emit.
NowOutside(e) ==
  /\ emit' \in [Emitter -> EmitStates]
  /\ \A f \in Emitter : f # e => emit'[f] = emit[f]
  /\ emit'[e] = OutsideEmit /\ emit'[e].pc = "idle"

\* Advance leaves the call after the last sink, and goes to the next before.
LEMMA Advanced ==
  ASSUME Base, NEW e \in Emitter, emit[e].pc # "idle", Advance(e)
  PROVE  /\ emit[e].at = emit[e].upto => NowOutside(e)
         /\ emit[e].at # emit[e].upto =>
              NowAt(e, "offer", emit[e].num, emit[e].at + 1, emit[e].upto)
<1> DEFINE r == [emit[e] EXCEPT !.pc = "offer"]
           n == [emit[e] EXCEPT !.pc = "offer", !.at = emit[e].at + 1]
<1>0. emit \in [Emitter -> EmitStates] /\ emit[e] \in EmitStates
  BY DEF Base, TypeOK
<1>1. /\ emit[e].at \in Nat /\ emit[e].upto \in 0..MaxSinks /\ emit[e].at <= emit[e].upto
  BY EmitRecord DEF Base, UnderWay, Call
<1>2. CASE emit[e].at = emit[e].upto
  <2>1. OutsideEmit \in EmitStates /\ OutsideEmit.pc = "idle"
    BY BusAssumption DEF OutsideEmit, EmitStates
  <2>2. emit' = [emit EXCEPT ![e] = OutsideEmit]  BY <1>2 DEF Advance
  <2> QED  BY <1>0, <1>2, <2>1, <2>2 DEF NowOutside
<1>3. CASE emit[e].at # emit[e].upto
  <2>1. r \in EmitStates /\ r.num = emit[e].num /\ r.upto = emit[e].upto /\ r.pc = "offer"
    BY <1>0 DEF EmitStates
  <2>2. emit[e].at + 1 \in 0..MaxSinks  BY <1>1, <1>3, BusAssumption
  <2>3. n = [r EXCEPT !.at = emit[e].at + 1]  OBVIOUS
  <2>4. emit' = [emit EXCEPT ![e] = n]  BY <1>3 DEF Advance
  <2> HIDE DEF r
  <2>5. /\ [r EXCEPT !.at = emit[e].at + 1] \in EmitStates
        /\ [r EXCEPT !.at = emit[e].at + 1].pc = "offer"
        /\ [r EXCEPT !.at = emit[e].at + 1].num = emit[e].num
        /\ [r EXCEPT !.at = emit[e].at + 1].at = emit[e].at + 1
        /\ [r EXCEPT !.at = emit[e].at + 1].upto = emit[e].upto
    BY <2>1, <2>2 DEF EmitStates
  <2> HIDE DEF n
  <2> QED  BY <1>0, <1>3, <2>3, <2>4, <2>5 DEF NowAt
<1> QED  BY <1>2, <1>3

\* The other steps inside Emit change the program counter alone.
LEMMA PcSet ==
  ASSUME TypeOK, NEW e \in Emitter, NEW pc \in {"count", "panicked"},
         emit' = [emit EXCEPT ![e].pc = pc]
  PROVE  NowAt(e, pc, emit[e].num, emit[e].at, emit[e].upto)
<1> DEFINE r == [emit[e] EXCEPT !.pc = pc]
<1>1. emit \in [Emitter -> EmitStates] /\ emit[e] \in EmitStates  BY DEF TypeOK
<1>2. /\ r \in EmitStates /\ r.pc = pc /\ r.num = emit[e].num
      /\ r.at = emit[e].at /\ r.upto = emit[e].upto
  BY <1>1 DEF EmitStates
<1>3. emit' = [emit EXCEPT ![e] = r]  OBVIOUS
<1> HIDE DEF r
<1> QED  BY <1>1, <1>2, <1>3 DEF NowAt

\* A call that is accepted takes a number of its own.
LEMMA NumberedSets ==
  ASSUME TypeOK, NEW e \in Emitter, Numbered(e)
  PROVE  /\ sinks = 0 => NowOutside(e)
         /\ sinks # 0 => NowAt(e, "offer", seq + 1, 1, sinks)
<1> DEFINE r == [pc |-> "offer", num |-> seq + 1, at |-> 1, upto |-> sinks]
<1>1. OutsideEmit \in EmitStates /\ OutsideEmit.pc = "idle"
  BY BusAssumption DEF OutsideEmit, EmitStates
<1>2. sinks # 0 => r \in EmitStates
  BY BusAssumption DEF EmitStates, TypeOK, Numbered
<1>3. emit \in [Emitter -> EmitStates]  BY DEF TypeOK
<1>4. CASE sinks = 0
  <2>1. emit' = [emit EXCEPT ![e] = OutsideEmit]  BY <1>4 DEF Numbered
  <2> QED  BY <1>1, <1>3, <1>4, <2>1 DEF NowOutside
<1>5. CASE sinks # 0
  <2>1. emit' = [emit EXCEPT ![e] = r]  BY <1>5 DEF Numbered
  <2>2. r.pc = "offer" /\ r.num = seq + 1 /\ r.at = 1 /\ r.upto = sinks  OBVIOUS
  <2> HIDE DEF r
  <2> QED  BY <1>2, <1>3, <1>5, <2>1, <2>2 DEF NowAt
<1> QED  BY <1>4, <1>5

-----------------------------------------------------------------------------
(* Goroutines, channels and numbers *)

LEMMA InitBase == Init => Base
<1> SUFFICES ASSUME Init PROVE Base  OBVIOUS
<1>a. emit \in [Emitter -> EmitStates]
  BY BusAssumption DEF Init, OutsideEmit, EmitStates
<1>b. settle \in SettleStates  BY BusAssumption DEF Init, SettleStates
<1>c. close \in CloseStates  BY BusAssumption DEF Init, CloseStates
<1>d. hand \in [Sink -> Hands]  BY EmptySeq DEF Init, Hands
<1>e. queue \in [Sink -> Seq(Event)] /\ got \in [Sink -> Seq(Event)]  BY EmptySeq DEF Init
<1>f. closed \in BOOLEAN /\ exact \in BOOLEAN /\ racing \in BOOLEAN  BY DEF Init
<1>g. seq \in 0..MaxSeq /\ sinks \in 0..MaxSinks /\ owed \in SUBSET (1..MaxSeq)
  BY BusAssumption DEF Init
<1>h. open \in [Sink -> BOOLEAN] /\ shut \in [Sink -> BOOLEAN]  BY DEF Init
<1>i. /\ handled \in [Sink -> Nat] /\ queued \in [Sink -> Nat]
      /\ dropped \in [Sink -> Nat] /\ offered \in [Sink -> Nat]
  BY DEF Init
<1>j. run \in [Sink -> {"none", "running", "ended", "panicked"}]  BY DEF Init
<1>1. TypeOK
  BY <1>a, <1>b, <1>c, <1>d, <1>e, <1>f, <1>g, <1>h, <1>i, <1>j DEF TypeOK
<1>2. Places
  <2>1. ASSUME NEW s \in Sink PROVE Place(s)
    BY BusAssumption DEF Init, Place, Sink
  <2> QED  BY <2>1 DEF Init, Places
<1>3. UnderWay  BY DEF Init, UnderWay, Call, OutsideEmit
<1>4. Listed  BY DEF Init, Listed
<1> QED  BY <1>1, <1>2, <1>3, <1>4 DEF Base

LEMMA SettleRecord ==
  ASSUME TypeOK
  PROVE  /\ settle \in SettleStates
         /\ settle.pc \in {"idle", "load", "wait", "done", "ended"}
         /\ settle.at \in Nat /\ settle.upto \in 0..MaxSinks /\ settle.upto \in Nat
         /\ settle.target \in Nat
BY BusAssumption DEF TypeOK, SettleStates

\* Steps that touch neither goroutines nor channels keep them in place.
LEMMA PlacesFrame ==
  ASSUME Places, UNCHANGED <<closed, sinks, queue, open, run, hand, shut, close>>
  PROVE  Places'
<1>1. ASSUME NEW s \in Sink PROVE Place(s)'
  BY DEF Places, Place, Stopped
<1> QED  BY <1>1 DEF Places

\* Steps outside Emit and Close keep the emitters in place.
LEMMA UnderWayFrame ==
  ASSUME UnderWay, UNCHANGED <<emit, sinks, seq, closed, racing>>
  PROVE  UnderWay'
BY DEF UnderWay, Call

\* Steps outside Settle keep its caller in place.
LEMMA ListedFrame == ASSUME Listed, UNCHANGED <<settle, sinks>> PROVE Listed'
BY DEF Listed

LEMMA AddSinkBase == ASSUME Base, AddSink PROVE Base'
<1>1. TypeOK'
  <2>1. open' \in [Sink -> BOOLEAN]  BY DEF Base, TypeOK, AddSink
  <2>2. run' \in [Sink -> {"none", "running", "ended", "panicked"}]
    BY DEF Base, TypeOK, AddSink
  <2>3. sinks' \in 0..MaxSinks  BY BusAssumption DEF Base, TypeOK, AddSink
  <2> QED
    BY <2>1, <2>2, <2>3 DEF Base, TypeOK, AddSink, emitVars, settleVars, closeVars
<1>2. Places'
  <2>1. ASSUME NEW s \in Sink PROVE Place(s)'
    <3>0. /\ sinks \in Nat /\ s \in Nat /\ sinks' = sinks + 1
          /\ run'[s] = IF s = sinks + 1 THEN "running" ELSE run[s]
          /\ open'[s] = IF s = sinks + 1 THEN TRUE ELSE open[s]
      BY BusAssumption DEF Base, TypeOK, Sink, AddSink
    <3>p. /\ Place(s) /\ ~closed /\ close.pc = "idle"
          /\ UNCHANGED <<closed, close, shut, hand, queue>>
      BY DEF Base, Places, AddSink, closeVars
    <3>1. (/\ run[s] = "none" <=> sinks < s
           /\ open[s] => s <= sinks
           /\ ~closed /\ s <= sinks => open[s])'
      BY <3>0, <3>p DEF Place
    <3>2. (hand[s] # <<>> => run[s] = "running")'  BY <3>0, <3>p DEF Place
    <3>3. close'.pc = "idle" /\ ~shut'[s]  BY <3>p DEF Place
    <3>4. (run[s] = "ended" => queue[s] = <<>> /\ ~open[s])'  BY <3>0, <3>p DEF Place
    <3> QED  BY <3>1, <3>2, <3>3, <3>4 DEF Place
  <2> QED  BY <2>1 DEF Base, Places, AddSink, closeVars
<1>3. UnderWay'
  <2>1. \A e \in Emitter : emit[e].upto \in Nat  BY EmitRecord DEF Base
  <2> QED  BY <2>1, BusAssumption
           DEF Base, TypeOK, UnderWay, Call, AddSink, emitVars, closeVars
<1>4. Listed'
  BY SettleRecord, BusAssumption DEF Base, Listed, TypeOK, AddSink, settleVars
<1> QED  BY <1>1, <1>2, <1>3, <1>4 DEF Base

LEMMA ResumeBase == ASSUME Base, NEW n \in Resumes, ResumeSequence(n) PROVE Base'
<1>1. UNCHANGED <<closed, sinks, emit, queue, open, queued, handled, dropped, run,
          hand, shut, settle, close, got, offered, owed, exact, racing>>
  BY DEF ResumeSequence, sinkVars, settleVars, closeVars
<1>2. seq' \in 0..MaxSeq  BY BusAssumption DEF ResumeSequence, Base, TypeOK
<1>3. TypeOK'  BY <1>1, <1>2 DEF Base, TypeOK
<1>4. Places'  BY <1>1, PlacesFrame DEF Base
<1>5. UnderWay'
  <2>1. \A e \in Emitter : emit[e].num \in Nat  BY EmitRecord DEF Base
  <2> QED  BY <1>1, <2>1, BusAssumption DEF Base, TypeOK, UnderWay, Call, ResumeSequence
<1>6. Listed'  BY <1>1, ListedFrame DEF Base
<1> QED  BY <1>3, <1>4, <1>5, <1>6 DEF Base

LEMMA EmitBase == ASSUME Base, NEW e \in Emitter, Emit(e) PROVE Base'
<1>1. /\ UNCHANGED <<closed, sinks, queue, open, queued, handled, dropped, run,
          hand, shut, settle, close, got, owed, exact, racing>>
      /\ seq' = seq + 1 /\ seq < MaxSeq /\ ~closed /\ emit[e].pc = "idle" /\ Numbered(e)
  BY DEF Emit, Numbered, sinkVars, settleVars, closeVars
<1>2. TypeOK'
  <2>1. offered' \in [Sink -> Nat]  BY <1>1 DEF Numbered, Base, TypeOK
  <2>2. emit' \in [Emitter -> EmitStates]
    BY <1>1, NumberedSets DEF Base, NowAt, NowOutside
  <2>3. seq' \in 0..MaxSeq  BY <1>1, BusAssumption DEF Base, TypeOK
  <2> QED  BY <1>1, <2>1, <2>2, <2>3 DEF Base, TypeOK
<1>3. Places'  BY <1>1, PlacesFrame DEF Base
<1>4. UnderWay'
  <2>1. \A f \in Emitter : emit[f].num \in Nat  BY EmitRecord DEF Base
  <2>2. seq \in Nat /\ sinks \in Nat  BY BusAssumption DEF Base, TypeOK
  <2>3. CASE sinks = 0
    BY <1>1, <2>1, <2>2, <2>3, NumberedSets DEF Base, NowOutside, UnderWay, Call
  <2>4. CASE sinks # 0
    BY <1>1, <2>1, <2>2, <2>4, NumberedSets DEF Base, NowAt, UnderWay, Call
  <2> QED  BY <2>3, <2>4
<1>5. Listed'  BY <1>1, ListedFrame DEF Base
<1> QED  BY <1>2, <1>3, <1>4, <1>5 DEF Base

\* The event an emitter sends is an event.
LEMMA SentIsEvent ==
  ASSUME Base, NEW e \in Emitter, emit[e].pc # "idle"
  PROVE  [num |-> emit[e].num, by |-> e] \in Event
<1>1. emit[e].num \in 1..MaxSeq
  BY EmitRecord, BusAssumption DEF Base, UnderWay, Call, TypeOK
<1> QED  BY <1>1 DEF Event

\* The sink an emitter is at has been added.
LEMMA AtSink ==
  ASSUME Base, NEW e \in Emitter, emit[e].pc # "idle"
  PROVE  emit[e].at \in Sink /\ emit[e].at <= sinks /\ emit[e].at \in Added
<1>1. emit[e].at \in Nat /\ emit[e].upto \in Nat  BY EmitRecord DEF Base
<1>2. sinks \in Nat /\ sinks <= MaxSinks  BY BusAssumption DEF Base, TypeOK
<1>3. 1 <= emit[e].at /\ emit[e].at <= emit[e].upto /\ emit[e].upto <= sinks
  BY DEF Base, UnderWay, Call
<1> QED  BY <1>1, <1>2, <1>3, BusAssumption DEF Sink, Added

LEMMA SendBase == ASSUME Base, NEW e \in Emitter, Send(e) PROVE Base'
<1>1. /\ UNCHANGED <<closed, seq, sinks, open, queued, handled, dropped, run,
          hand, shut, settle, close, got, offered, owed, exact, racing>>
      /\ emit[e].pc = "offer" /\ open[emit[e].at]
      /\ queue' = [queue EXCEPT ![emit[e].at] =
                     Append(@, [num |-> emit[e].num, by |-> e])]
  BY DEF Send, sinkVars, settleVars, closeVars
<1>2. NowAt(e, "count", emit[e].num, emit[e].at, emit[e].upto)
  BY PcSet DEF Send, Base
<1>3. emit[e].at \in Sink  BY <1>1, AtSink
<1>4. TypeOK'
  <2>0. queue \in [Sink -> Seq(Event)]  BY DEF Base, TypeOK
  <2>1. queue' \in [Sink -> Seq(Event)]  BY <1>1, <1>3, <2>0, SentIsEvent
  <2> QED  BY <1>1, <1>2, <2>1 DEF NowAt, Base, TypeOK
<1>5. Places'
  <2>1. ASSUME NEW s \in Sink PROVE Place(s)'
    <3>1. s # emit[e].at => queue'[s] = queue[s]  BY <1>1 DEF Base, TypeOK
    <3> QED  BY <1>1, <3>1 DEF Base, Places, Place, Stopped
  <2> QED  BY <1>1, <2>1 DEF Base, Places
<1>6. UnderWay'
  BY <1>1, <1>2 DEF Base, NowAt, UnderWay, Call
<1>7. Listed'  BY <1>1, ListedFrame DEF Base
<1> QED  BY <1>4, <1>5, <1>6, <1>7 DEF Base

\* Count and Drop go on to the next sink and touch a counter.
LEMMA AdvanceBase ==
  ASSUME Base, NEW e \in Emitter, emit[e].pc \in {"offer", "count"}, Advance(e),
         queued' \in [Sink -> Nat], dropped' \in [Sink -> Nat],
         UNCHANGED <<closed, seq, sinks, queue, open, handled, run, hand, shut,
                     settle, close, got, offered, owed, exact, racing>>
  PROVE  Base'
<1>1. \/ emit[e].at = emit[e].upto /\ NowOutside(e)
      \/ /\ emit[e].at # emit[e].upto
         /\ NowAt(e, "offer", emit[e].num, emit[e].at + 1, emit[e].upto)
  BY Advanced
<1>2. TypeOK'
  <2>1. emit' \in [Emitter -> EmitStates]  BY <1>1 DEF NowAt, NowOutside
  <2> QED  BY <2>1 DEF Base, TypeOK
<1>3. Places'  BY PlacesFrame DEF Base
<1>4. UnderWay'
  <2>1. emit[e].at \in Nat /\ emit[e].upto \in Nat  BY EmitRecord DEF Base
  <2>2. CASE NowOutside(e)  BY <2>2 DEF Base, NowOutside, UnderWay, Call
  <2>3. CASE /\ emit[e].at # emit[e].upto
             /\ NowAt(e, "offer", emit[e].num, emit[e].at + 1, emit[e].upto)
    BY <2>1, <2>3 DEF Base, NowAt, UnderWay, Call
  <2> QED  BY <1>1, <2>2, <2>3
<1>5. Listed'  BY ListedFrame DEF Base
<1> QED  BY <1>2, <1>3, <1>4, <1>5 DEF Base

LEMMA CountBase == ASSUME Base, NEW e \in Emitter, Count(e) PROVE Base'
<1>1. emit[e].at \in Sink  BY AtSink DEF Count
<1>2. queued \in [Sink -> Nat] /\ dropped \in [Sink -> Nat]  BY DEF Base, TypeOK
<1>3. queued' \in [Sink -> Nat] /\ dropped' \in [Sink -> Nat]  BY <1>1, <1>2 DEF Count
<1> QED  BY <1>3, AdvanceBase DEF Count, sinkVars, settleVars, closeVars

LEMMA DropBase == ASSUME Base, NEW e \in Emitter, Drop(e) PROVE Base'
<1>1. emit[e].at \in Sink  BY AtSink DEF Drop
<1>2. queued \in [Sink -> Nat] /\ dropped \in [Sink -> Nat]  BY DEF Base, TypeOK
<1>3. queued' \in [Sink -> Nat] /\ dropped' \in [Sink -> Nat]  BY <1>1, <1>2 DEF Drop
<1> QED  BY <1>3, AdvanceBase DEF Drop, sinkVars, settleVars, closeVars

\* Only a Close in between can have closed the channel.
LEMMA SendOnClosedBase == ASSUME Base, NEW e \in Emitter, SendOnClosed(e) PROVE Base'
<1>1. /\ UNCHANGED <<closed, seq, sinks, queue, open, queued, handled, dropped, run,
          hand, shut, settle, close, got, offered, owed, exact, racing>>
      /\ emit[e].pc = "offer" /\ ~open[emit[e].at]
  BY DEF SendOnClosed, sinkVars, settleVars, closeVars
<1>2. NowAt(e, "panicked", emit[e].num, emit[e].at, emit[e].upto)
  BY PcSet DEF SendOnClosed, Base
<1>3. closed  BY <1>1, AtSink DEF Base, Places, Place
<1>4. TypeOK'  BY <1>1, <1>2 DEF NowAt, Base, TypeOK
<1>5. Places'  BY <1>1, PlacesFrame DEF Base
<1>6. UnderWay'
  BY <1>1, <1>2, <1>3 DEF Base, NowAt, UnderWay, Call
<1>7. Listed'  BY <1>1, ListedFrame DEF Base
<1> QED  BY <1>4, <1>5, <1>6, <1>7 DEF Base

\* A goroutine has its channel's oldest event in hand, or what it had in hand
\* is delivered or dropped.
LEMMA TakeBase == ASSUME Base, NEW s \in Sink, Take(s) PROVE Base'
<1>1. /\ UNCHANGED <<closed, seq, sinks, emit, open, queued, handled, dropped, run,
          shut, settle, close, got, offered, owed, exact, racing>>
      /\ run[s] = "running" /\ queue[s] # <<>> /\ hand[s] = <<>>
      /\ hand' = [hand EXCEPT ![s] = <<Head(queue[s])>>]
      /\ queue' = [queue EXCEPT ![s] = Tail(queue[s])]
  BY DEF Take, emitVars, settleVars, closeVars
<1>2. queue[s] \in Seq(Event)  BY DEF Base, TypeOK
<1>3. Head(queue[s]) \in Event /\ Tail(queue[s]) \in Seq(Event)
  BY <1>1, <1>2, HeadTailProperties
<1>4. <<Head(queue[s])>> \in Hands  BY <1>3 DEF Hands
<1>5. TypeOK'
  <2>1. hand' \in [Sink -> Hands]  BY <1>1, <1>4 DEF Base, TypeOK
  <2>2. queue' \in [Sink -> Seq(Event)]  BY <1>1, <1>3 DEF Base, TypeOK
  <2> QED  BY <1>1, <2>1, <2>2 DEF Base, TypeOK
<1>6. Places'
  <2>1. ASSUME NEW t \in Sink PROVE Place(t)'
    <3>1. t # s => queue'[t] = queue[t] /\ hand'[t] = hand[t]
      BY <1>1 DEF Base, TypeOK
    <3> QED  BY <1>1, <3>1 DEF Base, Places, Place, Stopped
  <2> QED  BY <1>1, <2>1 DEF Base, Places
<1>7. UnderWay'  BY <1>1, UnderWayFrame DEF Base
<1>8. Listed'  BY <1>1, ListedFrame DEF Base
<1> QED  BY <1>5, <1>6, <1>7, <1>8 DEF Base

LEMMA DeliveryBase == ASSUME Base, NEW s \in Sink, Delivery(s) PROVE Base'
<1>1. /\ UNCHANGED <<closed, seq, sinks, emit, queue, open, queued, shut, settle,
          close, offered, owed, exact, racing>>
      /\ hand[s] # <<>>
      /\ hand' = [hand EXCEPT ![s] = <<>>]
      /\ run' = run \/ run' = [run EXCEPT ![s] = "panicked"]
  BY DEF Delivery, Deliver, DeliverFails, DeliverPanics, emitVars, settleVars, closeVars
<1>2. hand[s] \in Seq(Event) /\ got[s] \in Seq(Event)  BY DEF Base, TypeOK, Hands
<1>3. run[s] = "running"  BY <1>1 DEF Base, Places, Place
<1>4. TypeOK'
  <2>1. got' \in [Sink -> Seq(Event)]
    <3>1. got[s] \o hand[s] \in Seq(Event)  BY <1>2
    <3>2. got' = got \/ got' = [got EXCEPT ![s] = got[s] \o hand[s]]
      BY DEF Delivery, Deliver, DeliverFails, DeliverPanics
    <3> QED  BY <3>1, <3>2 DEF Base, TypeOK
  <2>2. handled' \in [Sink -> Nat] /\ dropped' \in [Sink -> Nat]
    <3>1. handled' = handled \/ handled' = [handled EXCEPT ![s] = handled[s] + 1]
      BY DEF Delivery, Deliver, DeliverFails, DeliverPanics
    <3>2. dropped' = dropped \/ dropped' = [dropped EXCEPT ![s] = dropped[s] + 1]
      BY DEF Delivery, Deliver, DeliverFails, DeliverPanics
    <3>3. handled \in [Sink -> Nat] /\ dropped \in [Sink -> Nat]  BY DEF Base, TypeOK
    <3>4. handled' \in [Sink -> Nat]  BY <3>1, <3>3
    <3>5. dropped' \in [Sink -> Nat]  BY <3>2, <3>3
    <3> QED  BY <3>4, <3>5
  <2>3. <<>> \in Hands  BY EmptySeq DEF Hands
  <2>4. hand' \in [Sink -> Hands]  BY <1>1, <2>3 DEF Base, TypeOK
  <2>5. run' \in [Sink -> {"none", "running", "ended", "panicked"}]
    BY <1>1 DEF Base, TypeOK
  <2> QED  BY <1>1, <2>1, <2>2, <2>4, <2>5 DEF Base, TypeOK
<1>5. Places'
  <2>1. ASSUME NEW t \in Sink PROVE Place(t)'
    <3>1. /\ t # s => hand'[t] = hand[t] /\ run'[t] = run[t]
          /\ hand'[s] = <<>> /\ run'[s] \in {"running", "panicked"}
      BY <1>1, <1>3 DEF Base, TypeOK
    <3> QED  BY <1>1, <1>3, <3>1 DEF Base, Places, Place, Stopped
  <2> QED  BY <1>1, <2>1 DEF Base, Places
<1>6. UnderWay'  BY <1>1, UnderWayFrame DEF Base
<1>7. Listed'  BY <1>1, ListedFrame DEF Base
<1> QED  BY <1>4, <1>5, <1>6, <1>7 DEF Base

LEMMA RunEndsBase == ASSUME Base, NEW s \in Sink, RunEnds(s) PROVE Base'
<1>1. /\ UNCHANGED <<closed, seq, sinks, emit, queue, open, queued, handled, dropped,
          hand, shut, settle, close, got, offered, owed, exact, racing>>
      /\ run[s] = "running" /\ queue[s] = <<>> /\ hand[s] = <<>> /\ ~open[s]
      /\ run' = [run EXCEPT ![s] = "ended"]
  BY DEF RunEnds, emitVars, settleVars, closeVars
<1>2. TypeOK'
  <2>1. run' \in [Sink -> {"none", "running", "ended", "panicked"}]
    BY <1>1 DEF Base, TypeOK
  <2> QED  BY <1>1, <2>1 DEF Base, TypeOK
<1>3. Places'
  <2>1. ASSUME NEW t \in Sink PROVE Place(t)'
    <3>1. (t # s => run'[t] = run[t]) /\ run'[s] = "ended"
      BY <1>1 DEF Base, TypeOK
    <3> QED  BY <1>1, <3>1 DEF Base, Places, Place, Stopped
  <2> QED  BY <1>1, <2>1 DEF Base, Places
<1>4. UnderWay'  BY <1>1, UnderWayFrame DEF Base
<1>5. Listed'  BY <1>1, ListedFrame DEF Base
<1> QED  BY <1>2, <1>3, <1>4, <1>5 DEF Base

\* Everything but the caller of Settle.
otherVars == <<closed, seq, sinks, emit, queue, open, queued, handled, dropped, run,
               hand, shut, close, got, offered, racing>>

\* Settle touches nothing but itself.
LEMMA SettleFrame ==
  ASSUME SettleCalled \/ SettleStep \/ SettleContextEnds
  PROVE  UNCHANGED otherVars
BY DEF SettleCalled, SettleStep, SettleLoads, SettlePasses, SettleContextEnds,
   otherVars, emitVars, sinkVars, closeVars

LEMMA SettleAtType ==
  ASSUME NEW s \in Nat \ {0}, NEW upto \in 0..MaxSinks
  PROVE  /\ SettleAt(s, upto) \in SettleStates
         /\ SettleAt(s, upto).upto = upto
         /\ s > upto => SettleAt(s, upto).pc = "done"
         /\ ~(s > upto) => SettleAt(s, upto).pc = "load" /\ SettleAt(s, upto).at = s
<1>1. CASE s > upto  BY <1>1, BusAssumption DEF SettleAt, SettleStates
<1>2. CASE ~(s > upto)  BY <1>2, BusAssumption DEF SettleAt, SettleStates
<1> QED  BY <1>1, <1>2

\* Settle reads the list and goes along it.
LEMMA SettleBase ==
  ASSUME Base, SettleCalled \/ SettleStep \/ SettleContextEnds PROVE Base'
<1>1. UNCHANGED otherVars  BY SettleFrame
<1>2. sinks \in 0..MaxSinks /\ sinks \in Nat  BY BusAssumption DEF Base, TypeOK
<1>3. settle' \in SettleStates /\ owed' \in SUBSET (1..MaxSeq) /\ exact' \in BOOLEAN /\ Listed'
  <2>1. CASE SettleCalled
    <3>1. settle' = SettleAt(1, sinks) /\ exact' = TRUE
          /\ owed' = (1..seq) \ {emit[e].num : e \in Emitter}
      BY <2>1 DEF SettleCalled
    <3>2. owed' \in SUBSET (1..MaxSeq)
      BY <3>1, BusAssumption DEF Base, TypeOK
    <3>3. Listed'  BY <1>1, <1>2, <3>1, SettleAtType DEF Listed, otherVars
    <3> QED  BY <1>2, <3>1, <3>2, <3>3, SettleAtType
  <2>2. CASE SettleLoads
    <3>1. settle.at \in Sink /\ settle.pc = "load"
      BY <2>2, <1>2, SettleRecord, BusAssumption DEF SettleLoads, Base, Listed, Sink
    <3>2. queued[settle.at] \in Nat  BY <3>1 DEF Base, TypeOK
    <3> DEFINE r == [settle EXCEPT !.pc = "wait"]
               n == [r EXCEPT !.target = queued[settle.at]]
    <3>3. r \in SettleStates /\ r.pc = "wait" /\ r.at = settle.at /\ r.upto = settle.upto
      BY SettleRecord DEF Base, SettleStates
    <3> HIDE DEF r
    <3>4. n \in SettleStates /\ n.pc = "wait" /\ n.at = settle.at /\ n.upto = settle.upto
      BY <3>2, <3>3 DEF SettleStates
    <3>5. settle' = n  BY <2>2 DEF SettleLoads, r
    <3> HIDE DEF n
    <3>6. Listed'  BY <1>1, <3>1, <3>4, <3>5 DEF Base, Listed, otherVars
    <3>7. exact' \in BOOLEAN /\ owed' = owed  BY <2>2 DEF SettleLoads
    <3> QED  BY <3>4, <3>5, <3>6, <3>7 DEF Base, TypeOK
  <2>3. CASE SettlePasses
    <3>1. /\ settle' = SettleAt(settle.at + 1, settle.upto)
          /\ owed' = owed /\ exact' = exact
      BY <2>3 DEF SettlePasses
    <3>2. settle.at + 1 \in Nat \ {0} /\ settle.upto \in 0..MaxSinks /\ settle.upto \in Nat
      BY SettleRecord DEF Base
    <3>3. Listed'
      BY <1>1, <1>2, <3>1, <3>2, SettleAtType DEF Base, Listed, otherVars
    <3> QED  BY <3>1, <3>2, <3>3, SettleAtType DEF Base, TypeOK
  <2>4. CASE SettleContextEnds
    <3>1. /\ settle' = [pc |-> "ended", at |-> 0, upto |-> 0, target |-> 0]
          /\ owed' = owed /\ exact' = exact
      BY <2>4 DEF SettleContextEnds
    <3>2. settle' \in SettleStates  BY <3>1, BusAssumption DEF SettleStates
    <3> QED  BY <1>1, <1>2, <3>1, <3>2 DEF Base, TypeOK, Listed, otherVars
  <2> QED  BY <2>1, <2>2, <2>3, <2>4 DEF SettleStep
<1>4. TypeOK'  BY <1>1, <1>3 DEF Base, TypeOK, otherVars
<1>5. Places'  BY <1>1, PlacesFrame DEF Base, otherVars
<1>6. UnderWay'  BY <1>1, UnderWayFrame DEF Base, otherVars
<1> QED  BY <1>3, <1>4, <1>5, <1>6 DEF Base

LEMMA CloseRecord ==
  ASSUME TypeOK
  PROVE  /\ close \in CloseStates
         /\ close.pc \in {"idle", "queues", "sinks", "done"}
         /\ close.at \in 0..MaxSinks + 1 /\ close.at \in Nat
BY BusAssumption DEF TypeOK, CloseStates

\* Close turns later Emits away before it closes the first channel.
LEMMA CloseCalledBase == ASSUME Base, CloseCalled PROVE Base'
<1>1. /\ UNCHANGED <<seq, sinks, emit, queue, open, queued, handled, dropped, run,
          hand, shut, settle, got, offered, owed, exact>>
      /\ ~closed /\ closed' = TRUE /\ close' = [pc |-> "queues", at |-> 1]
      /\ racing' = (\E e \in Emitter : InEmit(e))
  BY DEF CloseCalled, emitVars, sinkVars, settleVars
<1>2. TypeOK'
  <2>1. close' \in CloseStates  BY <1>1, BusAssumption DEF CloseStates
  <2>2. racing' \in BOOLEAN /\ closed' \in BOOLEAN  BY <1>1
  <2> QED  BY <1>1, <2>1, <2>2 DEF Base, TypeOK
<1>3. Places'
  <2>1. close'.pc = "queues" /\ close'.at = 1  BY <1>1
  <2>2. ASSUME NEW s \in Sink PROVE Place(s)'
    <3>1. ~(s < 1)  BY BusAssumption DEF Sink
    <3> QED  BY <1>1, <2>1, <3>1 DEF Base, Places, Place, Stopped
  <2> QED  BY <1>1, <2>1, <2>2 DEF Places
<1>4. UnderWay'
  <2>1. ASSUME NEW e \in Emitter, emit[e].pc # "idle" PROVE racing'
    <3>1. emit[e].pc # "panicked"  BY <1>1, <2>1 DEF Base, UnderWay, Call
    <3>2. InEmit(e)  BY <2>1, <3>1, EmitRecord DEF Base, InEmit
    <3> QED  BY <1>1, <3>2
  <2> QED  BY <1>1, <2>1 DEF Base, UnderWay, Call
<1>5. Listed'  BY <1>1, ListedFrame DEF Base
<1> QED  BY <1>2, <1>3, <1>4, <1>5 DEF Base

\* Close closes the channels, waits for the goroutines and closes the sinks.
LEMMA CloseStepBase == ASSUME Base, CloseStep PROVE Base'
<1>1. /\ UNCHANGED <<closed, seq, sinks, emit, queue, queued, handled, dropped, run,
          hand, settle, got, offered, owed, exact, racing>>
  BY DEF CloseStep, CloseQueue, CloseWaited, CloseSink, CloseReturns,
     emitVars, sinkVars, settleVars
<1>2. sinks \in 0..MaxSinks /\ sinks \in Nat  BY BusAssumption DEF Base, TypeOK
<1>3. /\ close' \in CloseStates /\ open' \in [Sink -> BOOLEAN] /\ shut' \in [Sink -> BOOLEAN]
      /\ closed /\ close'.pc # "idle" /\ \A s \in Sink : Place(s)'
  <2>0. closed <=> close.pc # "idle"  BY DEF Base, Places
  <2>1. CASE CloseQueue
    <3> DEFINE n == [close EXCEPT !.at = close.at + 1]
    <3>1. /\ close.pc = "queues" /\ close.at <= sinks
          /\ open' = [open EXCEPT ![close.at] = FALSE]
          /\ close' = n /\ shut' = shut
      BY <2>1 DEF CloseQueue
    <3>2. n \in CloseStates /\ n.pc = "queues" /\ n.at = close.at + 1
      BY <1>2, <3>1, CloseRecord, BusAssumption DEF Base, CloseStates
    <3> HIDE DEF n
    <3>3. open' \in [Sink -> BOOLEAN]  BY <3>1 DEF Base, TypeOK
    <3>4. ASSUME NEW s \in Sink PROVE Place(s)'
      <4>1. open'[s] = IF s = close.at THEN FALSE ELSE open[s]
        BY <3>1 DEF Base, TypeOK
      <4>2. s \in Nat /\ close.at \in Nat  BY CloseRecord, BusAssumption DEF Base, Sink
      <4>3. s < close.at + 1 => s < close.at \/ s = close.at  BY <4>2
      <4>4. Place(s)  BY DEF Base, Places
      <4> QED  BY <1>1, <2>0, <3>1, <3>2, <4>1, <4>3, <4>4 DEF Place, Stopped
    <3> QED  BY <2>0, <3>1, <3>2, <3>3, <3>4 DEF Base, TypeOK
  <2>2. CASE CloseWaited
    <3> DEFINE n == [pc |-> "sinks", at |-> 1]
    <3>1. /\ close.pc = "queues" /\ close.at > sinks /\ \A s \in Added : Stopped(s)
          /\ close' = n /\ shut' = shut /\ open' = open
      BY <2>2 DEF CloseWaited
    <3>2. n \in CloseStates /\ n.pc = "sinks"
      BY BusAssumption DEF CloseStates
    <3> HIDE DEF n
    <3>3. ASSUME NEW s \in Sink PROVE Place(s)'
      <4>1. s \in Nat /\ close.at \in Nat /\ s >= 1
        BY CloseRecord, BusAssumption DEF Base, Sink
      <4>2. s <= sinks => Stopped(s) /\ ~open[s]
        BY <1>2, <3>1, <4>1 DEF Base, Places, Place, Added
      <4> QED  BY <1>1, <2>0, <3>1, <3>2, <4>2 DEF Base, Places, Place, Stopped
    <3> QED  BY <2>0, <3>1, <3>2, <3>3 DEF Base, TypeOK
  <2>3. CASE CloseSink
    <3> DEFINE n == [close EXCEPT !.at = close.at + 1]
    <3>1. /\ close.pc = "sinks" /\ close.at <= sinks
          /\ shut' = [shut EXCEPT ![close.at] = TRUE]
          /\ close' = n /\ open' = open
      BY <2>3 DEF CloseSink
    <3>2. n \in CloseStates /\ n.pc = "sinks"
      BY <1>2, <3>1, CloseRecord, BusAssumption DEF Base, CloseStates
    <3> HIDE DEF n
    <3>3. shut' \in [Sink -> BOOLEAN]  BY <3>1 DEF Base, TypeOK
    <3>4. ASSUME NEW s \in Sink PROVE Place(s)'
      <4>1. shut'[s] = IF s = close.at THEN TRUE ELSE shut[s]
        BY <3>1 DEF Base, TypeOK
      <4> QED  BY <1>1, <2>0, <3>1, <3>2, <4>1 DEF Base, Places, Place, Stopped
    <3> QED  BY <2>0, <3>1, <3>2, <3>3, <3>4 DEF Base, TypeOK
  <2>4. CASE CloseReturns
    <3> DEFINE n == [pc |-> "done", at |-> 0]
    <3>1. close.pc = "sinks" /\ close' = n /\ shut' = shut /\ open' = open
      BY <2>4 DEF CloseReturns
    <3>2. n \in CloseStates /\ n.pc = "done"
      BY BusAssumption DEF CloseStates
    <3> HIDE DEF n
    <3>3. ASSUME NEW s \in Sink PROVE Place(s)'
      BY <1>1, <2>0, <3>1, <3>2 DEF Base, Places, Place, Stopped
    <3> QED  BY <2>0, <3>1, <3>2, <3>3 DEF Base, TypeOK
  <2> QED  BY <2>1, <2>2, <2>3, <2>4 DEF CloseStep
<1>4. TypeOK'  BY <1>1, <1>3 DEF Base, TypeOK
<1>5. Places'  BY <1>1, <1>3 DEF Places
<1>6. UnderWay'  BY <1>1, UnderWayFrame DEF Base
<1>7. Listed'  BY <1>1, ListedFrame DEF Base
<1> QED  BY <1>4, <1>5, <1>6, <1>7 DEF Base

LEMMA StepBase == ASSUME Base, [Next]_vars PROVE Base'
<1>1. CASE Next
  BY <1>1, AddSinkBase, ResumeBase, EmitBase, SendBase, CountBase, DropBase,
     SendOnClosedBase, TakeBase, DeliveryBase, RunEndsBase, SettleBase,
     CloseCalledBase, CloseStepBase
     DEF Next, EmitStep, RunStep
<1>2. CASE UNCHANGED vars
  <2>1. TypeOK'  BY <1>2 DEF Base, TypeOK, vars
  <2>2. Places'  BY <1>2, PlacesFrame DEF Base, vars
  <2>3. UnderWay'  BY <1>2, UnderWayFrame DEF Base, vars
  <2>4. Listed'  BY <1>2, ListedFrame DEF Base, vars
  <2> QED  BY <2>1, <2>2, <2>3, <2>4 DEF Base
<1> QED  BY <1>1, <1>2

-----------------------------------------------------------------------------
(* The two accounts of a sink *)

Delivered(s) == Len(got[s])
Waiting(s)   == Len(queue[s])
InHand(s)    == Len(hand[s])

\* Every event accepted for a sink is delivered, dropped, waiting, in hand or
\* still on its way.
Accounted(s) ==
  offered[s] = Delivered(s) + dropped[s] + Waiting(s) + InHand(s)
               + Cardinality(StillToOffer(s))

\* Every event sent to a sink is handled, waiting or in hand; the counter of
\* those sent lags by the sends not yet counted.
Balanced(s) ==
  run[s] # "panicked" =>
    queued[s] + Cardinality(Uncounted(s)) = handled[s] + InHand(s) + Waiting(s)

Books == \A s \in Sink : Accounted(s) /\ Balanced(s)

LEMMA FiniteEmits ==
  ASSUME NEW s
  PROVE  /\ IsFiniteSet(StillToOffer(s)) /\ Cardinality(StillToOffer(s)) \in Nat
         /\ IsFiniteSet(Uncounted(s)) /\ Cardinality(Uncounted(s)) \in Nat
<1>1. StillToOffer(s) \in SUBSET Emitter /\ Uncounted(s) \in SUBSET Emitter
  BY DEF StillToOffer, Uncounted
<1> QED  BY <1>1, FS_Subset, FS_CardinalityType, BusAssumption

\* The lengths and counters of a sink are numbers.
LEMMA BookTypes ==
  ASSUME TypeOK, NEW s \in Sink
  PROVE  /\ Delivered(s) \in Nat /\ Waiting(s) \in Nat /\ InHand(s) \in Nat
         /\ Len(got[s]) \in Nat /\ Len(queue[s]) \in Nat /\ Len(hand[s]) \in Nat
         /\ got[s] \in Seq(Event) /\ queue[s] \in Seq(Event) /\ hand[s] \in Seq(Event)
         /\ Len(hand[s]) <= 1 /\ (hand[s] = <<>> <=> Len(hand[s]) = 0)
         /\ offered[s] \in Nat /\ dropped[s] \in Nat /\ queued[s] \in Nat /\ handled[s] \in Nat
<1>1. got[s] \in Seq(Event) /\ queue[s] \in Seq(Event) /\ hand[s] \in Hands
  BY DEF TypeOK
<1>2. hand[s] \in Seq(Event) /\ Len(hand[s]) <= 1  BY <1>1 DEF Hands
<1>3. /\ offered[s] \in Nat /\ dropped[s] \in Nat /\ queued[s] \in Nat /\ handled[s] \in Nat
  BY DEF TypeOK
<1> QED  BY <1>1, <1>2, <1>3, LenProperties, EmptySeq DEF Delivered, Waiting, InHand

\* All the terms of the books of a sink are numbers.
Numerical(s) ==
  /\ Delivered(s) \in Nat /\ Waiting(s) \in Nat /\ InHand(s) \in Nat
  /\ offered[s] \in Nat /\ dropped[s] \in Nat /\ queued[s] \in Nat /\ handled[s] \in Nat
  /\ Cardinality(StillToOffer(s)) \in Nat /\ Cardinality(Uncounted(s)) \in Nat

LEMMA BooksOf ==
  ASSUME Base, Books, NEW s \in Sink
  PROVE  Numerical(s) /\ Accounted(s) /\ Balanced(s)
BY BookTypes, FiniteEmits DEF Base, Books, Numerical

LEMMA InitBooks == Init => Books
<1> SUFFICES ASSUME Init, NEW s \in Sink PROVE Accounted(s) /\ Balanced(s)
  BY DEF Books
<1>1. StillToOffer(s) = {} /\ Uncounted(s) = {}
  BY DEF Init, StillToOffer, Uncounted, OutsideEmit
<1>2. Cardinality(StillToOffer(s)) = 0 /\ Cardinality(Uncounted(s)) = 0
  BY <1>1, FS_EmptySet
<1>3. Len(<<>>) = 0  OBVIOUS
<1>4. Delivered(s) = 0 /\ Waiting(s) = 0 /\ InHand(s) = 0
  BY <1>3 DEF Init, Delivered, Waiting, InHand
<1> QED  BY <1>2, <1>4 DEF Init, Accounted, Balanced

\* Steps outside Emit, Send and the goroutines keep the books.
LEMMA BooksFrame ==
  ASSUME Books, UNCHANGED <<emit, queue, queued, handled, dropped, hand, got, offered>>,
         \A s \in Sink : run'[s] = "panicked" <=> run[s] = "panicked"
  PROVE  Books'
<1>1. ASSUME NEW s \in Sink PROVE Accounted(s)' /\ Balanced(s)'
  <2>1. StillToOffer(s)' = StillToOffer(s) /\ Uncounted(s)' = Uncounted(s)
    BY DEF StillToOffer, Uncounted
  <2>2. UNCHANGED <<Delivered(s), Waiting(s), InHand(s)>>
    BY DEF Delivered, Waiting, InHand
  <2> QED  BY <2>1, <2>2 DEF Books, Accounted, Balanced
<1> QED  BY <1>1 DEF Books

\* What a step inside Emit does to the two sets of emitters behind the books.
LEMMA EmitSets ==
  ASSUME Base, NEW e \in Emitter, Emit(e), NEW s \in Sink
  PROVE  /\ s <= sinks => /\ StillToOffer(s)' = StillToOffer(s) \cup {e}
                          /\ e \notin StillToOffer(s)
         /\ ~(s <= sinks) => StillToOffer(s)' = StillToOffer(s)
         /\ Uncounted(s)' = Uncounted(s)
<1>1. emit[e].pc = "idle" /\ Numbered(e)  BY DEF Emit, Numbered
<1>2. s \in Nat /\ 1 <= s /\ sinks \in Nat  BY BusAssumption DEF Sink, Base, TypeOK
<1>3. CASE sinks = 0
  <2>1. NowOutside(e)  BY <1>1, <1>3, NumberedSets DEF Base
  <2>2. \A f \in Emitter : f # e => emit'[f] = emit[f]  BY <2>1 DEF NowOutside
  <2>3. emit'[e].pc = "idle"  BY <2>1 DEF NowOutside
  <2>4. StillToOffer(s)' = StillToOffer(s)  BY <1>1, <2>2, <2>3 DEF StillToOffer
  <2>5. Uncounted(s)' = Uncounted(s)  BY <1>1, <2>2, <2>3 DEF Uncounted
  <2> QED  BY <1>2, <1>3, <2>4, <2>5
<1>4. CASE sinks # 0
  <2>1. NowAt(e, "offer", seq + 1, 1, sinks)  BY <1>1, <1>4, NumberedSets DEF Base
  <2>2. \A f \in Emitter : f # e => emit'[f] = emit[f]  BY <2>1 DEF NowAt
  <2>3. emit'[e].pc = "offer" /\ emit'[e].at = 1 /\ emit'[e].upto = sinks
    BY <2>1 DEF NowAt
  <2>4. Uncounted(s)' = Uncounted(s)  BY <1>1, <2>2, <2>3 DEF Uncounted
  <2>5. e \notin StillToOffer(s)  BY <1>1 DEF StillToOffer
  <2>6. s <= sinks => StillToOffer(s)' = StillToOffer(s) \cup {e}
    BY <1>1, <1>2, <2>2, <2>3 DEF StillToOffer
  <2>7. ~(s <= sinks) => StillToOffer(s)' = StillToOffer(s)
    BY <1>1, <1>2, <2>2, <2>3 DEF StillToOffer
  <2> QED  BY <2>4, <2>5, <2>6, <2>7
<1> QED  BY <1>3, <1>4

LEMMA SendSets ==
  ASSUME Base, NEW e \in Emitter, emit[e].pc = "offer", NEW s \in Sink,
         NowAt(e, "count", emit[e].num, emit[e].at, emit[e].upto)
  PROVE  /\ s = emit[e].at =>
              /\ e \in StillToOffer(s) /\ StillToOffer(s)' = StillToOffer(s) \ {e}
              /\ e \notin Uncounted(s) /\ Uncounted(s)' = Uncounted(s) \cup {e}
         /\ s # emit[e].at =>
              StillToOffer(s)' = StillToOffer(s) /\ Uncounted(s)' = Uncounted(s)
<1>1. \A f \in Emitter : f # e => emit'[f] = emit[f]  BY DEF NowAt
<1>2. emit'[e].pc = "count" /\ emit'[e].at = emit[e].at /\ emit'[e].upto = emit[e].upto
  BY DEF NowAt
<1>3. s \in Nat /\ emit[e].at \in Nat  BY EmitRecord, BusAssumption DEF Base, Sink
<1>4. emit[e].at <= emit[e].upto  BY DEF Base, UnderWay, Call
<1>5. s = emit[e].at => e \in StillToOffer(s) /\ StillToOffer(s)' = StillToOffer(s) \ {e}
  BY <1>1, <1>2, <1>3, <1>4 DEF StillToOffer
<1>6. s = emit[e].at => e \notin Uncounted(s) /\ Uncounted(s)' = Uncounted(s) \cup {e}
  BY <1>1, <1>2 DEF Uncounted
<1>7. s # emit[e].at => StillToOffer(s)' = StillToOffer(s)
  BY <1>1, <1>2, <1>3 DEF StillToOffer
<1>8. s # emit[e].at => Uncounted(s)' = Uncounted(s)
  BY <1>1, <1>2 DEF Uncounted
<1> QED  BY <1>5, <1>6, <1>7, <1>8

LEMMA AdvanceSets ==
  ASSUME Base, NEW e \in Emitter, emit[e].pc \in {"offer", "count"}, Advance(e), NEW s \in Sink
  PROVE  /\ s = emit[e].at /\ emit[e].pc = "offer" =>
              e \in StillToOffer(s) /\ StillToOffer(s)' = StillToOffer(s) \ {e}
         /\ s = emit[e].at /\ emit[e].pc = "count" =>
              e \in Uncounted(s) /\ Uncounted(s)' = Uncounted(s) \ {e}
         /\ s # emit[e].at \/ emit[e].pc = "count" => StillToOffer(s)' = StillToOffer(s)
         /\ s # emit[e].at \/ emit[e].pc = "offer" => Uncounted(s)' = Uncounted(s)
<1>1. \A f \in Emitter : f # e => emit'[f] = emit[f]
  BY Advanced DEF NowAt, NowOutside
<1>2. \/ emit[e].at = emit[e].upto /\ emit'[e].pc = "idle"
      \/ /\ emit[e].at # emit[e].upto
         /\ emit'[e].pc = "offer" /\ emit'[e].at = emit[e].at + 1
         /\ emit'[e].upto = emit[e].upto
  BY Advanced DEF NowAt, NowOutside
<1>3. s \in Nat /\ emit[e].at \in Nat /\ emit[e].upto \in Nat
  BY EmitRecord, BusAssumption DEF Base, Sink
<1>4. emit[e].at <= emit[e].upto  BY DEF Base, UnderWay, Call
<1>5. s = emit[e].at /\ emit[e].pc = "offer" =>
        e \in StillToOffer(s) /\ StillToOffer(s)' = StillToOffer(s) \ {e}
  BY <1>1, <1>2, <1>3, <1>4 DEF StillToOffer
<1>6. s = emit[e].at /\ emit[e].pc = "count" =>
        e \in Uncounted(s) /\ Uncounted(s)' = Uncounted(s) \ {e}
  BY <1>1, <1>2 DEF Uncounted
<1>7. s # emit[e].at \/ emit[e].pc = "count" => StillToOffer(s)' = StillToOffer(s)
  BY <1>1, <1>2, <1>3, <1>4 DEF StillToOffer
<1>8. s # emit[e].at \/ emit[e].pc = "offer" => Uncounted(s)' = Uncounted(s)
  BY <1>1, <1>2 DEF Uncounted
<1> QED  BY <1>5, <1>6, <1>7, <1>8

LEMMA EmitBooks == ASSUME Base, Books, NEW e \in Emitter, Emit(e) PROVE Books'
<1>1. UNCHANGED <<queue, queued, handled, dropped, run, hand, got>>
  BY DEF Emit, Numbered, sinkVars
<1>2. ASSUME NEW s \in Sink PROVE Accounted(s)' /\ Balanced(s)'
  <2>0. Numerical(s) /\ Accounted(s) /\ Balanced(s)  BY BooksOf
  <2>u. UNCHANGED <<Delivered(s), Waiting(s), InHand(s)>>
    BY <1>1 DEF Delivered, Waiting, InHand
  <2>1. offered'[s] = IF s <= sinks THEN offered[s] + 1 ELSE offered[s]
    <3>1. s \in Added <=> s <= sinks
      BY BusAssumption DEF Added, Sink, Base, TypeOK
    <3> QED  BY <3>1 DEF Emit, Numbered
  <2>2. Cardinality(StillToOffer(s)') = IF s <= sinks THEN Cardinality(StillToOffer(s)) + 1
                                                      ELSE Cardinality(StillToOffer(s))
    BY EmitSets, FiniteEmits, FS_AddElement
  <2>3. Uncounted(s)' = Uncounted(s)  BY EmitSets
  <2>4. Accounted(s)'
    BY <1>1, <2>u, <2>1, <2>2, <2>0 DEF Numerical, Accounted
  <2>5. Balanced(s)'  BY <1>1, <2>u, <2>3 DEF Books, Balanced
  <2> QED  BY <2>4, <2>5
<1> QED  BY <1>2 DEF Books

LEMMA SendBooks == ASSUME Base, Books, NEW e \in Emitter, Send(e) PROVE Books'
<1>1. /\ UNCHANGED <<queued, handled, dropped, run, hand, got, offered>>
      /\ emit[e].pc = "offer" /\ emit[e].at \in Sink
      /\ queue' = [queue EXCEPT ![emit[e].at] =
                     Append(@, [num |-> emit[e].num, by |-> e])]
  BY AtSink DEF Send, sinkVars
<1>2. NowAt(e, "count", emit[e].num, emit[e].at, emit[e].upto)
  BY PcSet DEF Send, Base
<1>3. ASSUME NEW s \in Sink PROVE Accounted(s)' /\ Balanced(s)'
  <2>0. Numerical(s) /\ Accounted(s) /\ Balanced(s)  BY BooksOf
  <2>1. /\ s = emit[e].at => Len(queue'[s]) = Len(queue[s]) + 1
        /\ s # emit[e].at => queue'[s] = queue[s]
    <3> DEFINE ev == [num |-> emit[e].num, by |-> e]
    <3>1. ev \in Event  BY <1>1, SentIsEvent
    <3>2. queue'[s] = IF s = emit[e].at THEN Append(queue[s], ev) ELSE queue[s]
      BY <1>1 DEF Base, TypeOK
    <3> HIDE DEF ev
    <3>3. Len(Append(queue[s], ev)) = Len(queue[s]) + 1
      BY <3>1, BookTypes DEF Base
    <3> QED  BY <3>2, <3>3
  <2>u. UNCHANGED <<Delivered(s), InHand(s)>>  BY <1>1 DEF Delivered, InHand
  <2>w. Waiting(s)' = IF s = emit[e].at THEN Waiting(s) + 1 ELSE Waiting(s)
    BY <2>1 DEF Waiting
  <2>2. /\ s = emit[e].at =>
             /\ Cardinality(StillToOffer(s)') = Cardinality(StillToOffer(s)) - 1
             /\ Cardinality(Uncounted(s)') = Cardinality(Uncounted(s)) + 1
        /\ s # emit[e].at =>
             /\ Cardinality(StillToOffer(s)') = Cardinality(StillToOffer(s))
             /\ Cardinality(Uncounted(s)') = Cardinality(Uncounted(s))
    BY <1>1, <1>2, SendSets, FiniteEmits, FS_AddElement, FS_RemoveElement
  <2>v. UNCHANGED <<offered[s], dropped[s], queued[s], handled[s], run[s]>>  BY <1>1
  <2>3. Accounted(s)'
    <3>1. CASE s = emit[e].at
      BY <2>u, <2>v, <2>w, <2>2, <2>0, <3>1 DEF Numerical, Accounted
    <3>2. CASE s # emit[e].at
      BY <2>u, <2>v, <2>w, <2>2, <2>0, <3>2 DEF Numerical, Accounted
    <3> QED  BY <3>1, <3>2
  <2>4. Balanced(s)'
    <3>1. CASE s = emit[e].at
      BY <2>u, <2>v, <2>w, <2>2, <2>0, <3>1 DEF Numerical, Balanced
    <3>2. CASE s # emit[e].at
      BY <2>u, <2>v, <2>w, <2>2, <2>0, <3>2 DEF Numerical, Balanced
    <3> QED  BY <3>1, <3>2
  <2> QED  BY <2>3, <2>4
<1> QED  BY <1>3 DEF Books

LEMMA CountBooks == ASSUME Base, Books, NEW e \in Emitter, Count(e) PROVE Books'
<1>1. /\ UNCHANGED <<queue, handled, dropped, run, hand, got, offered>>
      /\ emit[e].pc = "count" /\ emit[e].at \in Sink /\ Advance(e)
      /\ queued' = [queued EXCEPT ![emit[e].at] = queued[emit[e].at] + 1]
  BY AtSink DEF Count, sinkVars
<1>2. ASSUME NEW s \in Sink PROVE Accounted(s)' /\ Balanced(s)'
  <2>0. Numerical(s) /\ Accounted(s) /\ Balanced(s)  BY BooksOf
  <2>u. UNCHANGED <<Delivered(s), Waiting(s), InHand(s)>>
    BY <1>1 DEF Delivered, Waiting, InHand
  <2>1. queued'[s] = IF s = emit[e].at THEN queued[s] + 1 ELSE queued[s]
    BY <1>1 DEF Base, TypeOK
  <2>2. StillToOffer(s)' = StillToOffer(s)  BY <1>1, AdvanceSets
  <2>3. Cardinality(Uncounted(s)') = IF s = emit[e].at THEN Cardinality(Uncounted(s)) - 1
                                                       ELSE Cardinality(Uncounted(s))
    BY <1>1, AdvanceSets, FiniteEmits, FS_RemoveElement
  <2>4. Accounted(s)'  BY <1>1, <2>u, <2>2 DEF Books, Accounted
  <2>5. Balanced(s)'
    BY <1>1, <2>u, <2>1, <2>3, <2>0 DEF Numerical, Balanced
  <2> QED  BY <2>4, <2>5
<1> QED  BY <1>2 DEF Books

LEMMA DropBooks == ASSUME Base, Books, NEW e \in Emitter, Drop(e) PROVE Books'
<1>1. /\ UNCHANGED <<queue, queued, handled, run, hand, got, offered>>
      /\ emit[e].pc = "offer" /\ emit[e].at \in Sink /\ Advance(e)
      /\ dropped' = [dropped EXCEPT ![emit[e].at] = dropped[emit[e].at] + 1]
  BY AtSink DEF Drop, sinkVars
<1>2. ASSUME NEW s \in Sink PROVE Accounted(s)' /\ Balanced(s)'
  <2>0. Numerical(s) /\ Accounted(s) /\ Balanced(s)  BY BooksOf
  <2>u. UNCHANGED <<Delivered(s), Waiting(s), InHand(s)>>
    BY <1>1 DEF Delivered, Waiting, InHand
  <2>1. dropped'[s] = IF s = emit[e].at THEN dropped[s] + 1 ELSE dropped[s]
    BY <1>1 DEF Base, TypeOK
  <2>2. Uncounted(s)' = Uncounted(s)  BY <1>1, AdvanceSets
  <2>3. Cardinality(StillToOffer(s)') =
          IF s = emit[e].at THEN Cardinality(StillToOffer(s)) - 1
                            ELSE Cardinality(StillToOffer(s))
    <3>1. CASE s = emit[e].at
      <4>1. e \in StillToOffer(s) /\ StillToOffer(s)' = StillToOffer(s) \ {e}
        BY <1>1, <3>1, AdvanceSets
      <4>2. Cardinality(StillToOffer(s) \ {e}) = Cardinality(StillToOffer(s)) - 1
        BY <4>1, FiniteEmits, FS_RemoveElement
      <4> QED  BY <3>1, <4>1, <4>2
    <3>2. CASE s # emit[e].at
      <4>1. StillToOffer(s)' = StillToOffer(s)  BY <1>1, <3>2, AdvanceSets
      <4> QED  BY <3>2, <4>1
    <3> QED  BY <3>1, <3>2
  <2>v. UNCHANGED offered[s]  BY <1>1
  <2>4. Accounted(s)'
    BY <2>u, <2>v, <2>1, <2>3, <2>0 DEF Numerical, Accounted
  <2>5. Balanced(s)'  BY <1>1, <2>u, <2>2 DEF Books, Balanced
  <2> QED  BY <2>4, <2>5
<1> QED  BY <1>2 DEF Books

\* A call that panics stays in the account, as an event still to offer.
LEMMA SendOnClosedBooks ==
  ASSUME Base, Books, NEW e \in Emitter, SendOnClosed(e) PROVE Books'
<1>1. UNCHANGED <<queue, queued, handled, dropped, run, hand, got, offered>>
      /\ emit[e].pc = "offer"
  BY DEF SendOnClosed, sinkVars
<1>2. NowAt(e, "panicked", emit[e].num, emit[e].at, emit[e].upto)
  BY PcSet DEF SendOnClosed, Base
<1>3. ASSUME NEW s \in Sink PROVE Accounted(s)' /\ Balanced(s)'
  <2>0. Numerical(s) /\ Accounted(s) /\ Balanced(s)  BY BooksOf
  <2>u. UNCHANGED <<Delivered(s), Waiting(s), InHand(s)>>
    BY <1>1 DEF Delivered, Waiting, InHand
  <2>1. /\ \A f \in Emitter : f # e => emit'[f] = emit[f]
        /\ emit'[e].pc = "panicked" /\ emit'[e].at = emit[e].at
        /\ emit'[e].upto = emit[e].upto
    BY <1>2 DEF NowAt
  <2>2. StillToOffer(s)' = StillToOffer(s)  BY <1>1, <2>1 DEF StillToOffer
  <2>3. Uncounted(s)' = Uncounted(s)  BY <1>1, <2>1 DEF Uncounted
  <2> QED  BY <1>1, <2>u, <2>2, <2>3 DEF Books, Accounted, Balanced
<1> QED  BY <1>3 DEF Books

LEMMA TakeBooks == ASSUME Base, Books, NEW s \in Sink, Take(s) PROVE Books'
<1>1. /\ UNCHANGED <<emit, queued, handled, dropped, run, got, offered>>
      /\ queue[s] # <<>> /\ hand[s] = <<>>
      /\ hand' = [hand EXCEPT ![s] = <<Head(queue[s])>>]
      /\ queue' = [queue EXCEPT ![s] = Tail(queue[s])]
  BY DEF Take, emitVars
<1>2. ASSUME NEW t \in Sink PROVE Accounted(t)' /\ Balanced(t)'
  <2>0. Numerical(t) /\ Accounted(t) /\ Balanced(t)  BY BooksOf
  <2>1. StillToOffer(t)' = StillToOffer(t) /\ Uncounted(t)' = Uncounted(t)
    BY <1>1 DEF StillToOffer, Uncounted
  <2>2. \/ UNCHANGED <<InHand(t), Waiting(t)>>
        \/ /\ InHand(t) = 0 /\ InHand(t)' = 1
           /\ Waiting(t)' \in Nat /\ Waiting(t) = Waiting(t)' + 1
    <3>1. CASE t = s
      <4>1. hand'[t] = <<Head(queue[t])>> /\ queue'[t] = Tail(queue[t]) /\ queue[t] # <<>>
        BY <1>1, <3>1 DEF Base, TypeOK
      <4>2. Len(Tail(queue[t])) = Len(queue[t]) - 1 /\ Len(queue[t]) \in Nat \ {0}
        BY <4>1, BookTypes, HeadTailProperties, EmptySeq DEF Base
      <4>3. Len(<<Head(queue[t])>>) = 1 /\ Len(hand[t]) = 0
        BY <1>1, <3>1, BookTypes DEF Base
      <4> DEFINE n == Len(queue[t])
                 m == Len(Tail(queue[t]))
      <4>4. m \in Nat /\ n = m + 1  BY <4>2
      <4> QED  BY <4>1, <4>3, <4>4 DEF InHand, Waiting
    <3>2. CASE t # s
      <4>1. hand'[t] = hand[t] /\ queue'[t] = queue[t]
        BY <1>1, <3>2 DEF Base, TypeOK
      <4> QED  BY <4>1 DEF InHand, Waiting
    <3> QED  BY <3>1, <3>2
  <2>u. UNCHANGED Delivered(t)  BY <1>1 DEF Delivered
  <2>v. UNCHANGED <<offered[t], dropped[t], queued[t], handled[t], run[t]>>  BY <1>1
  <2>3. Accounted(t)'
    BY <2>u, <2>v, <2>2, <2>1, <2>0 DEF Numerical, Accounted
  <2>4. Balanced(t)'
    BY <2>u, <2>v, <2>2, <2>1, <2>0 DEF Numerical, Balanced
  <2> QED  BY <2>3, <2>4
<1> QED  BY <1>2 DEF Books

LEMMA DeliveryBooks == ASSUME Base, Books, NEW s \in Sink, Delivery(s) PROVE Books'
<1>1. /\ UNCHANGED <<emit, queue, queued, offered>>
      /\ hand[s] # <<>>
      /\ hand' = [hand EXCEPT ![s] = <<>>]
  BY DEF Delivery, Deliver, DeliverFails, DeliverPanics, emitVars
<1>2. /\ hand[s] \in Seq(Event) /\ Len(hand[s]) = 1 /\ hand'[s] = <<>> /\ Len(<<>>) = 0
      /\ InHand(s) = 1 /\ InHand(s)' = 0
      /\ \A t \in Sink : t # s => hand'[t] = hand[t]
  <2>1. hand'[s] = <<>> /\ \A t \in Sink : t # s => hand'[t] = hand[t]
    BY <1>1 DEF Base, TypeOK
  <2>2. hand[s] \in Seq(Event) /\ Len(hand[s]) = 1
    <3>1. hand[s] \in Seq(Event) /\ Len(hand[s]) \in Nat /\ Len(hand[s]) <= 1 /\ Len(hand[s]) # 0
      BY <1>1, BookTypes DEF Base
    <3> DEFINE n == Len(hand[s])
    <3>2. n \in Nat /\ n <= 1 /\ n # 0  BY <3>1
    <3> HIDE DEF n
    <3>3. n = 1  BY <3>2
    <3> QED  BY <3>1, <3>3 DEF n
  <2>3. Len(<<>>) = 0  OBVIOUS
  <2> QED  BY <2>1, <2>2, <2>3 DEF InHand
<1>3. /\ \A t \in Sink : t # s => /\ got'[t] = got[t] /\ dropped'[t] = dropped[t]
                                  /\ handled'[t] = handled[t] /\ run'[t] = run[t]
      /\ Delivered(s)' + dropped'[s] = Delivered(s) + dropped[s] + 1
      /\ Delivered(s)' \in Nat /\ dropped'[s] \in Nat
      /\ run'[s] # "panicked" => handled'[s] = handled[s] + 1 /\ run[s] # "panicked"
  <2>0. Delivered(s) \in Nat /\ dropped[s] \in Nat /\ run[s] = "running"
    BY <1>1, BookTypes DEF Base, Places, Place
  <2>1. CASE Deliver(s)
    <3>1. /\ got' = [got EXCEPT ![s] = got[s] \o hand[s]] /\ dropped' = dropped
          /\ handled' = [handled EXCEPT ![s] = handled[s] + 1] /\ run' = run
      BY <2>1 DEF Deliver
    <3>2. Len(got[s] \o hand[s]) = Len(got[s]) + 1
      <4>1. got[s] \in Seq(Event)  BY BookTypes DEF Base
      <4>2. Len(got[s] \o hand[s]) = Len(got[s]) + Len(hand[s])
        BY <1>2, <4>1, ConcatProperties
      <4> QED  BY <1>2, <4>2
    <3>3. got'[s] = got[s] \o hand[s] /\ Delivered(s)' = Delivered(s) + 1
      BY <3>1, <3>2 DEF Base, TypeOK, Delivered
    <3> QED  BY <2>0, <3>1, <3>3 DEF Base, TypeOK
  <2>2. CASE DeliverFails(s)
    <3>1. /\ dropped' = [dropped EXCEPT ![s] = dropped[s] + 1] /\ got' = got
          /\ handled' = [handled EXCEPT ![s] = handled[s] + 1] /\ run' = run
      BY <2>2 DEF DeliverFails
    <3>2. Delivered(s)' = Delivered(s)  BY <3>1 DEF Delivered
    <3>3. dropped'[s] = dropped[s] + 1 /\ \A t \in Sink : t # s => dropped'[t] = dropped[t]
      BY <3>1 DEF Base, TypeOK
    <3>4. got'[s] = got[s] /\ \A t \in Sink : t # s => got'[t] = got[t]  BY <3>1
    <3>5. \A t \in Sink : t # s => handled'[t] = handled[t] /\ run'[t] = run[t]
      BY <3>1 DEF Base, TypeOK
    <3>6. run'[s] # "panicked" => handled'[s] = handled[s] + 1 /\ run[s] # "panicked"
      BY <2>0, <3>1 DEF Base, TypeOK
    <3> QED  BY <2>0, <3>2, <3>3, <3>4, <3>5, <3>6
  <2>3. CASE DeliverPanics(s)
    <3>1. /\ dropped' = [dropped EXCEPT ![s] = dropped[s] + 1] /\ got' = got
          /\ handled' = handled /\ run' = [run EXCEPT ![s] = "panicked"]
      BY <2>3 DEF DeliverPanics
    <3>2. Delivered(s)' = Delivered(s)  BY <3>1 DEF Delivered
    <3>3. dropped'[s] = dropped[s] + 1 /\ \A t \in Sink : t # s => dropped'[t] = dropped[t]
      BY <3>1 DEF Base, TypeOK
    <3>4. got'[s] = got[s] /\ \A t \in Sink : t # s => got'[t] = got[t]  BY <3>1
    <3>5. \A t \in Sink : t # s => handled'[t] = handled[t] /\ run'[t] = run[t]
      BY <3>1 DEF Base, TypeOK
    <3>6. run'[s] # "panicked" => handled'[s] = handled[s] + 1 /\ run[s] # "panicked"
      BY <2>0, <3>1 DEF Base, TypeOK
    <3> QED  BY <2>0, <3>2, <3>3, <3>4, <3>5, <3>6
  <2> QED  BY <2>1, <2>2, <2>3 DEF Delivery
<1>4. ASSUME NEW t \in Sink PROVE Accounted(t)' /\ Balanced(t)'
  <2>0. Numerical(t) /\ Accounted(t) /\ Balanced(t)  BY BooksOf
  <2>1. StillToOffer(t)' = StillToOffer(t) /\ Uncounted(t)' = Uncounted(t)
    BY <1>1 DEF StillToOffer, Uncounted
  <2>2. CASE t # s
    <3>1. UNCHANGED <<Delivered(t), Waiting(t), InHand(t)>>
      BY <1>1, <1>2, <1>3, <2>2 DEF Delivered, Waiting, InHand
    <3> QED  BY <1>1, <1>2, <1>3, <2>0, <2>1, <2>2, <3>1 DEF Accounted, Balanced
  <2>3. CASE t = s
    <3>0. UNCHANGED Waiting(t)  BY <1>1 DEF Waiting
    <3>1. Accounted(t)'
      BY <1>1, <1>2, <1>3, <2>1, <2>3, <3>0, <2>0 DEF Numerical, Accounted
    <3>2. Balanced(t)'
      BY <1>1, <1>2, <1>3, <2>1, <2>3, <3>0, <2>0 DEF Numerical, Balanced
    <3> QED  BY <3>1, <3>2
  <2> QED  BY <2>2, <2>3
<1> QED  BY <1>4 DEF Books

LEMMA StepBooks == ASSUME Base, Books, [Next]_vars PROVE Books'
<1>1. CASE AddSink
  <2>1. UNCHANGED <<emit, queue, queued, handled, dropped, hand, got, offered>>
    BY <1>1 DEF AddSink, emitVars
  <2>2. \A s \in Sink : run'[s] = "panicked" <=> run[s] = "panicked"
    BY <1>1, BusAssumption DEF AddSink, Base, TypeOK, Places, Place, Sink
  <2> QED  BY <2>1, <2>2, BooksFrame
<1>2. CASE \E s \in Sink : RunEnds(s)
  <2>1. PICK s \in Sink : RunEnds(s)  BY <1>2
  <2>2. UNCHANGED <<emit, queue, queued, handled, dropped, hand, got, offered>>
    BY <2>1 DEF RunEnds, emitVars
  <2>3. \A t \in Sink : run'[t] = "panicked" <=> run[t] = "panicked"
    BY <2>1 DEF RunEnds, Base, TypeOK
  <2> QED  BY <2>2, <2>3, BooksFrame
<1>3. CASE \/ \E n \in Resumes : ResumeSequence(n)
           \/ SettleCalled \/ SettleStep \/ SettleContextEnds
           \/ CloseCalled \/ CloseStep \/ UNCHANGED vars
  <2>1. UNCHANGED <<emit, queue, queued, handled, dropped, hand, got, offered, run>>
    BY <1>3, SettleFrame
       DEF ResumeSequence, CloseCalled, CloseStep, CloseQueue, CloseWaited, CloseSink,
           CloseReturns, otherVars, emitVars, sinkVars, vars
  <2> QED  BY <2>1, BooksFrame
<1> QED
  BY <1>1, <1>2, <1>3, EmitBooks, SendBooks, CountBooks, DropBooks, SendOnClosedBooks,
     TakeBooks, DeliveryBooks DEF Next, EmitStep, RunStep

-----------------------------------------------------------------------------
(* The order of the events on their way to a sink *)

\* Event x may come before event y.
Prec(x, y) == x.num # y.num /\ (x.by = y.by => x.num < y.num)

Rising(q) == \A i, j \in 1..Len(q) : i < j => Prec(q[i], q[j])
Before(p, q) == \A i \in 1..Len(p), j \in 1..Len(q) : Prec(p[i], q[j])

\* An event that has been sent to sink s: its number is nobody else's, and the
\* emitter it came from has a higher one for s now, if any.
Old(x, s) ==
  /\ x.num <= seq
  /\ \A e \in Emitter :
       /\ emit[e].pc # "idle" /\ x.num = emit[e].num => x.by = e
       /\ e \in StillToOffer(s) /\ x.by = e => x.num < emit[e].num

AllOld(q, s) == \A i \in 1..Len(q) : Old(q[i], s)

\* What was delivered came before what is in hand, and that before what waits.
InOrder(s) ==
  /\ Rising(got[s]) /\ Rising(queue[s])
  /\ Before(got[s], hand[s]) /\ Before(got[s], queue[s]) /\ Before(hand[s], queue[s])
  /\ AllOld(got[s], s) /\ AllOld(hand[s], s) /\ AllOld(queue[s], s)

Ordered == \A s \in Sink : InOrder(s)

\* The elements of a sequence of events have numbers.
LEMMA EventOf ==
  ASSUME NEW q \in Seq(Event), NEW i \in 1..Len(q)
  PROVE  q[i] \in Event /\ q[i].num \in Nat /\ q[i].by \in Emitter
<1>1. q[i] \in Event  BY ElementOfSeq
<1> QED  BY <1>1, BusAssumption DEF Event

\* Emitters only leave calls, go on, or take numbers never used before.
Eased(s) ==
  /\ seq' \in Nat /\ seq <= seq'
  /\ \A f \in Emitter : emit'[f].pc # "idle" =>
       \/ /\ emit[f].pc # "idle" /\ emit'[f].num = emit[f].num
          /\ f \in StillToOffer(s)' => f \in StillToOffer(s)
       \/ emit'[f].num \in Nat /\ emit'[f].num > seq

LEMMA StillOld ==
  ASSUME Base, NEW s \in Sink, Eased(s), NEW q \in Seq(Event), AllOld(q, s)
  PROVE  \A i \in 1..Len(q) : Old(q[i], s)'
<1> SUFFICES ASSUME NEW i \in 1..Len(q) PROVE Old(q[i], s)'
  OBVIOUS
<1> DEFINE x == q[i]
<1>1. x.num \in Nat /\ Old(x, s)  BY EventOf DEF AllOld
<1>2. seq \in Nat /\ seq' \in Nat /\ seq <= seq'
  BY BusAssumption DEF Base, TypeOK, Eased
<1> HIDE DEF x
<1>3. x.num <= seq'  BY <1>1, <1>2 DEF Old
<1>4. ASSUME NEW e \in Emitter
      PROVE  /\ emit'[e].pc # "idle" /\ x.num = emit'[e].num => x.by = e
             /\ e \in StillToOffer(s)' /\ x.by = e => x.num < emit'[e].num
  <2>1. CASE emit'[e].pc = "idle"
    <3>1. e \notin StillToOffer(s)'  BY <2>1 DEF StillToOffer
    <3> QED  BY <2>1, <3>1
  <2>2. CASE /\ emit[e].pc # "idle" /\ emit'[e].num = emit[e].num
             /\ e \in StillToOffer(s)' => e \in StillToOffer(s)
    BY <1>1, <2>2 DEF Old
  <2>3. CASE emit'[e].num \in Nat /\ emit'[e].num > seq /\ emit'[e].pc # "idle"
    <3>1. x.num <= seq  BY <1>1 DEF Old
    <3> QED  BY <1>1, <1>2, <2>3, <3>1 DEF Eased
  <2> QED  BY <2>1, <2>2, <2>3 DEF Eased
<1>5. Old(x, s)'  BY <1>3, <1>4 DEF Old
<1> QED  BY <1>5 DEF x

LEMMA SeqNat == Base => seq \in Nat
BY BusAssumption DEF Base, TypeOK

\* Outside Emit nothing changes for the emitters, or only the counter rises.
LEMMA EasedFrame ==
  ASSUME Base, NEW s \in Sink, UNCHANGED emit, seq' \in Nat, seq <= seq'
  PROVE  Eased(s)
<1>1. StillToOffer(s)' = StillToOffer(s)  BY DEF StillToOffer
<1> QED  BY <1>1 DEF Eased

LEMMA EasedEmit ==
  ASSUME Base, NEW e \in Emitter, NEW s \in Sink,
         Emit(e) \/ Send(e) \/ Count(e) \/ Drop(e) \/ SendOnClosed(e)
  PROVE  Eased(s)
<1>1. CASE Emit(e)
  <2>1. emit[e].pc = "idle" /\ Numbered(e) /\ seq' = seq + 1  BY <1>1 DEF Emit, Numbered
  <2>2. seq' \in Nat /\ seq <= seq'  BY <2>1, SeqNat
  <2>3. ASSUME NEW f \in Emitter, emit'[f].pc # "idle", f # e
        PROVE  /\ emit[f].pc # "idle" /\ emit'[f].num = emit[f].num
               /\ f \in StillToOffer(s)' => f \in StillToOffer(s)
    <3>1. emit'[f] = emit[f]  BY <2>1, <2>3, NumberedSets DEF Base, NowAt, NowOutside
    <3> QED  BY <2>3, <3>1 DEF StillToOffer
  <2>4. emit'[e].pc # "idle" => emit'[e].num = seq + 1
    BY <2>1, NumberedSets DEF Base, NowAt, NowOutside
  <2>5. emit'[e].pc # "idle" => emit'[e].num \in Nat /\ emit'[e].num > seq
    BY <2>4, SeqNat
  <2> QED  BY <2>2, <2>3, <2>5 DEF Eased
<1>2. CASE Send(e)
  <2>1. seq' = seq /\ emit[e].pc = "offer"  BY <1>2 DEF Send
  <2>2. NowAt(e, "count", emit[e].num, emit[e].at, emit[e].upto)
    BY <1>2, PcSet DEF Send, Base
  <2>3. \A f \in Emitter : f \in StillToOffer(s)' => f \in StillToOffer(s)
    BY <2>1, <2>2, SendSets
  <2> QED  BY <2>1, <2>2, <2>3, SeqNat DEF Eased, NowAt
<1>3. CASE Count(e) \/ Drop(e)
  <2>1. seq' = seq /\ emit[e].pc \in {"offer", "count"} /\ Advance(e)
    BY <1>3 DEF Count, Drop
  <2>2. \A f \in Emitter : f \in StillToOffer(s)' => f \in StillToOffer(s)
    BY <2>1, AdvanceSets
  <2>3. \A f \in Emitter : emit'[f].pc # "idle" =>
          emit[f].pc # "idle" /\ emit'[f].num = emit[f].num
    BY <2>1, Advanced DEF NowAt, NowOutside
  <2> QED  BY <2>1, <2>2, <2>3, SeqNat DEF Eased
<1>4. CASE SendOnClosed(e)
  <2>1. seq' = seq /\ emit[e].pc = "offer"  BY <1>4 DEF SendOnClosed
  <2>2. NowAt(e, "panicked", emit[e].num, emit[e].at, emit[e].upto)
    BY <1>4, PcSet DEF SendOnClosed, Base
  <2>3. \A f \in Emitter : f \in StillToOffer(s)' => f \in StillToOffer(s)
    BY <2>1, <2>2 DEF StillToOffer, NowAt
  <2> QED  BY <2>1, <2>2, <2>3, SeqNat DEF Eased, NowAt
<1> QED  BY <1>1, <1>2, <1>3, <1>4

\* A sink whose events stay where they are keeps their order.
LEMMA InOrderKept ==
  ASSUME Base, NEW s \in Sink, InOrder(s), Eased(s),
         got'[s] = got[s], hand'[s] = hand[s], queue'[s] = queue[s]
  PROVE  InOrder(s)'
<1>1. got[s] \in Seq(Event) /\ hand[s] \in Seq(Event) /\ queue[s] \in Seq(Event)
  BY BookTypes DEF Base
<1>2. \A i \in 1..Len(got[s]) : Old(got[s][i], s)'  BY <1>1, StillOld DEF InOrder
<1>3. \A i \in 1..Len(hand[s]) : Old(hand[s][i], s)'  BY <1>1, StillOld DEF InOrder
<1>4. \A i \in 1..Len(queue[s]) : Old(queue[s][i], s)'  BY <1>1, StillOld DEF InOrder
<1>5. AllOld(got[s], s)' /\ AllOld(hand[s], s)' /\ AllOld(queue[s], s)'
  BY <1>2, <1>3, <1>4 DEF AllOld
<1>6. (Rising(got[s]) /\ Rising(queue[s]))'  BY DEF InOrder, Rising
<1>7. (Before(got[s], hand[s]) /\ Before(got[s], queue[s]) /\ Before(hand[s], queue[s]))'
  BY DEF InOrder, Before
<1> QED  BY <1>5, <1>6, <1>7 DEF InOrder

\* The event a Send appends comes after everything sent to the sink before.
LEMMA SendOrder ==
  ASSUME Base, Ordered, NEW e \in Emitter, Send(e), NEW s \in Sink, s = emit[e].at
  PROVE  InOrder(s)'
<1>0. PICK ev \in Event : ev = [num |-> emit[e].num, by |-> e]
  BY SentIsEvent DEF Send
<1>1. /\ got' = got /\ hand' = hand /\ seq' = seq /\ emit[e].pc = "offer"
      /\ queue' = [queue EXCEPT ![emit[e].at] = Append(queue[emit[e].at], ev)]
  BY <1>0 DEF Send, sinkVars
<1>2. NowAt(e, "count", emit[e].num, emit[e].at, emit[e].upto)
  BY PcSet DEF Send, Base
<1>3. got[s] \in Seq(Event) /\ hand[s] \in Seq(Event) /\ queue[s] \in Seq(Event)
  BY BookTypes DEF Base
<1>4. ev \in Event /\ ev.num = emit[e].num /\ ev.by = e /\ ev.num \in Nat
  BY <1>0, EmitRecord DEF Base
<1>5. queue'[s] = Append(queue[s], ev)  BY <1>1 DEF Base, TypeOK
<1>6. InOrder(s) /\ Eased(s)  BY EasedEmit DEF Ordered
<1>7. e \in StillToOffer(s) /\ StillToOffer(s)' = StillToOffer(s) \ {e}
  BY <1>1, <1>2, SendSets
<1>8. ASSUME NEW q \in Seq(Event), AllOld(q, s), NEW i \in 1..Len(q)
      PROVE  Prec(q[i], ev)
  <2>1. Old(q[i], s)  BY <1>8 DEF AllOld
  <2>2. q[i].num = emit[e].num => q[i].by = e  BY <1>1, <2>1 DEF Old
  <2>3. q[i].by = e => q[i].num < emit[e].num  BY <1>7, <2>1 DEF Old
  <2>4. q[i].num \in Nat /\ emit[e].num \in Nat  BY EventOf, <1>4
  <2> QED  BY <1>4, <2>2, <2>3, <2>4 DEF Prec
<1>9. Old(ev, s)'
  <2>1. emit[e].num <= seq'  BY <1>1 DEF Base, UnderWay, Call
  <2>2. ASSUME NEW f \in Emitter
        PROVE  /\ emit'[f].pc # "idle" /\ ev.num = emit'[f].num => ev.by = f
               /\ f \in StillToOffer(s)' /\ ev.by = f => ev.num < emit'[f].num
    <3>1. f # e => emit'[f] = emit[f]  BY <1>2 DEF NowAt
    <3>2. f # e /\ emit[f].pc # "idle" => emit[f].num # emit[e].num
      BY <1>1 DEF Base, UnderWay, Call
    <3> QED  BY <1>4, <1>7, <3>1, <3>2
  <2> QED  BY <1>4, <2>1, <2>2 DEF Old
<1>10. /\ Len(queue'[s]) = Len(queue[s]) + 1
       /\ \A i \in 1..Len(queue[s]) : queue'[s][i] = queue[s][i]
       /\ queue'[s][Len(queue[s]) + 1] = ev /\ Len(queue[s]) \in Nat
       /\ \A i \in 1..Len(queue'[s]) : i \in 1..Len(queue[s]) \/ i = Len(queue[s]) + 1
  BY <1>3, <1>4, <1>5
<1>11. (Rising(got[s]) /\ Before(got[s], hand[s]))'
  BY <1>1, <1>6 DEF InOrder, Rising, Before
<1>12. Rising(queue[s])'
  <2> SUFFICES ASSUME NEW i \in 1..Len(queue'[s]), NEW j \in 1..Len(queue'[s]), i < j
               PROVE  Prec(queue'[s][i], queue'[s][j])
    BY DEF Rising
  <2>1. i \in 1..Len(queue[s])  BY <1>10
  <2>2. CASE j \in 1..Len(queue[s])
    BY <1>6, <1>10, <2>1, <2>2 DEF InOrder, Rising
  <2>3. CASE j = Len(queue[s]) + 1
    BY <1>3, <1>6, <1>8, <1>10, <2>1, <2>3 DEF InOrder
  <2> QED  BY <1>10, <2>2, <2>3
<1>13. (Before(got[s], queue[s]) /\ Before(hand[s], queue[s]))'
  <2>1. ASSUME NEW i \in 1..Len(got[s]), NEW j \in 1..Len(queue'[s])
        PROVE  Prec(got[s][i], queue'[s][j])
    <3>1. CASE j \in 1..Len(queue[s])  BY <1>6, <1>10, <3>1 DEF InOrder, Before
    <3>2. CASE j = Len(queue[s]) + 1  BY <1>3, <1>6, <1>8, <1>10, <3>2 DEF InOrder
    <3> QED  BY <1>10, <3>1, <3>2
  <2>2. ASSUME NEW i \in 1..Len(hand[s]), NEW j \in 1..Len(queue'[s])
        PROVE  Prec(hand[s][i], queue'[s][j])
    <3>1. CASE j \in 1..Len(queue[s])  BY <1>6, <1>10, <3>1 DEF InOrder, Before
    <3>2. CASE j = Len(queue[s]) + 1  BY <1>3, <1>6, <1>8, <1>10, <3>2 DEF InOrder
    <3> QED  BY <1>10, <3>1, <3>2
  <2> QED  BY <1>1, <2>1, <2>2 DEF Before
<1>14. (AllOld(got[s], s) /\ AllOld(hand[s], s))'
  <2>1. \A i \in 1..Len(got[s]) : Old(got[s][i], s)'  BY <1>1, <1>3, <1>6, StillOld DEF InOrder
  <2>2. \A i \in 1..Len(hand[s]) : Old(hand[s][i], s)'  BY <1>1, <1>3, <1>6, StillOld DEF InOrder
  <2> QED  BY <1>1, <2>1, <2>2 DEF AllOld
<1>15. AllOld(queue[s], s)'
  <2>1. PICK q \in Seq(Event) : q = queue[s]  BY <1>3
  <2>2. \A i \in 1..Len(q) : Old(q[i], s)'
    BY <1>6, <2>1, StillOld DEF InOrder
  <2>3. PICK r : r = queue'[s]  OBVIOUS
  <2>4. \A i \in 1..Len(r) : Old(r[i], s)'  BY <1>9, <1>10, <2>1, <2>2, <2>3
  <2> QED  BY <2>3, <2>4 DEF AllOld
<1> QED  BY <1>11, <1>12, <1>13, <1>14, <1>15 DEF InOrder

\* Taking the oldest event moves it from the channel into an empty hand.
LEMMA TakeOrder ==
  ASSUME Base, Ordered, NEW s \in Sink, Take(s)
  PROVE  InOrder(s)'
<1>1. /\ UNCHANGED <<emit, seq, got>>
      /\ queue[s] # <<>>
      /\ hand' = [hand EXCEPT ![s] = <<Head(queue[s])>>]
      /\ queue' = [queue EXCEPT ![s] = Tail(queue[s])]
  BY DEF Take, emitVars
<1>2. InOrder(s) /\ Eased(s)
  <2>1. seq' \in Nat /\ seq <= seq'  BY <1>1, SeqNat
  <2> QED  BY <1>1, <2>1, EasedFrame DEF Ordered
<1>3. PICK g \in Seq(Event) : g = got[s]  BY BookTypes DEF Base
<1>4. PICK q \in Seq(Event) : q = queue[s] /\ q # <<>>  BY <1>1, BookTypes DEF Base
<1>5. PICK t \in Seq(Event) : t = queue'[s] /\ t = Tail(q)
  BY <1>1, <1>4, HeadTailProperties DEF Base, TypeOK
<1>6. PICK h \in Seq(Event) : h = hand'[s] /\ h = <<Head(q)>>
  <2>1. Head(q) \in Event  BY <1>4, HeadTailProperties
  <2>2. <<Head(q)>> \in Seq(Event)  BY <2>1
  <2>3. hand'[s] = <<Head(q)>>  BY <1>1, <1>4 DEF Base, TypeOK
  <2> QED  BY <2>2, <2>3
<1>7. /\ Len(q) \in Nat /\ Len(t) \in Nat /\ Len(q) = Len(t) + 1
      /\ \A i \in 1..Len(t) : i + 1 \in 1..Len(q) /\ t[i] = q[i + 1]
      /\ Len(h) = 1 /\ h[1] = q[1] /\ 1 \in 1..Len(q)
  <2>1. Len(q) \in Nat \ {0} /\ Len(t) = Len(q) - 1
    BY <1>4, <1>5, HeadTailProperties, EmptySeq
  <2>2. \A i \in 1..Len(t) : t[i] = q[i + 1]
    BY <1>4, <1>5
  <2>3. Len(h) = 1 /\ h[1] = q[1]  BY <1>4, <1>6
  <2> QED  BY <2>1, <2>2, <2>3
<1>8. /\ \A i, j \in 1..Len(q) : i < j => Prec(q[i], q[j])
      /\ \A i \in 1..Len(g), j \in 1..Len(q) : Prec(g[i], q[j])
      /\ Rising(g)
  BY <1>2, <1>3, <1>4 DEF InOrder, Rising, Before
<1>9. /\ \A i \in 1..Len(q) : Old(q[i], s)'
      /\ \A i \in 1..Len(g) : Old(g[i], s)'
  BY <1>2, <1>3, <1>4, StillOld DEF InOrder
<1>10. Rising(g) /\ Rising(t)
  <2>1. ASSUME NEW i \in 1..Len(t), NEW j \in 1..Len(t), i < j PROVE Prec(t[i], t[j])
    <3>1. i + 1 < j + 1  BY <2>1
    <3> QED  BY <1>7, <1>8, <3>1
  <2> QED  BY <1>8, <2>1 DEF Rising
<1>11. Before(g, h) /\ Before(g, t) /\ Before(h, t)
  <2>1. \A i \in 1..Len(h) : i = 1  BY <1>7
  <2>2. \A j \in 1..Len(t) : 1 < j + 1  BY <1>7
  <2> QED  BY <1>7, <1>8, <2>1, <2>2 DEF Before
<1>12. /\ \A i \in 1..Len(g) : Old(g[i], s)'
       /\ \A i \in 1..Len(h) : Old(h[i], s)'
       /\ \A i \in 1..Len(t) : Old(t[i], s)'
  <2>1. \A i \in 1..Len(h) : i = 1  BY <1>7
  <2> QED  BY <1>7, <1>9, <2>1
<1>13. got'[s] = g  BY <1>1, <1>3
<1> QED  BY <1>5, <1>6, <1>10, <1>11, <1>12, <1>13 DEF InOrder, AllOld

\* What was in hand goes to the end of the delivered events, or away.
LEMMA DeliveryOrder ==
  ASSUME Base, Ordered, NEW s \in Sink, Delivery(s)
  PROVE  InOrder(s)'
<1>1. /\ UNCHANGED <<emit, seq, queue>>
      /\ hand' = [hand EXCEPT ![s] = <<>>]
      /\ got' = got \/ got' = [got EXCEPT ![s] = got[s] \o hand[s]]
  BY DEF Delivery, Deliver, DeliverFails, DeliverPanics, emitVars
<1>2. InOrder(s) /\ Eased(s)
  <2>1. seq' \in Nat /\ seq <= seq'  BY <1>1, SeqNat
  <2> QED  BY <1>1, <2>1, EasedFrame DEF Ordered
<1>3. PICK g \in Seq(Event) : g = got[s]  BY BookTypes DEF Base
<1>4. PICK q \in Seq(Event) : q = queue[s]  BY BookTypes DEF Base
<1>5. PICK h \in Seq(Event) : h = hand[s] /\ Len(h) <= 1  BY BookTypes DEF Base
<1>6. PICK n \in Seq(Event) : n = got'[s] /\ (n = g \/ n = g \o h)
  <2>1. got'[s] = g \/ got'[s] = g \o h  BY <1>1, <1>3, <1>5 DEF Base, TypeOK
  <2>2. g \o h \in Seq(Event)  BY ConcatProperties
  <2> QED  BY <2>1, <2>2
<1>7. /\ Len(g) \in Nat /\ Len(n) \in Nat /\ Len(g) <= Len(n) /\ Len(n) <= Len(g) + 1
      /\ \A i \in 1..Len(g) : n[i] = g[i]
      /\ \A i \in 1..Len(n) : ~(i <= Len(g)) => i = Len(g) + 1 /\ n[i] = h[1] /\ 1 \in 1..Len(h)
  <2>1. CASE n = g  BY <2>1
  <2>2. CASE n = g \o h
    <3>1. Len(n) = Len(g) + Len(h) /\ Len(h) \in Nat /\ Len(g) \in Nat
      BY <2>2, ConcatProperties, LenProperties
    <3>2. \A i \in 1..Len(n) : n[i] = IF i <= Len(g) THEN g[i] ELSE h[i - Len(g)]
      BY <2>2, <3>1, ConcatProperties
    <3>3. Len(n) <= Len(g) + 1  BY <1>5, <3>1
    <3>4. \A i \in 1..Len(g) : i \in 1..Len(n) /\ n[i] = g[i]  BY <3>1, <3>2
    <3>5. \A i \in 1..Len(n) : ~(i <= Len(g)) =>
            i = Len(g) + 1 /\ n[i] = h[1] /\ 1 \in 1..Len(h)
      BY <3>1, <3>2, <3>3
    <3> QED  BY <3>1, <3>3, <3>4, <3>5
  <2> QED  BY <1>6, <2>1, <2>2
<1>8. /\ \A i, j \in 1..Len(g) : i < j => Prec(g[i], g[j])
      /\ \A i \in 1..Len(g), j \in 1..Len(h) : Prec(g[i], h[j])
      /\ \A i \in 1..Len(g), j \in 1..Len(q) : Prec(g[i], q[j])
      /\ \A i \in 1..Len(h), j \in 1..Len(q) : Prec(h[i], q[j])
      /\ Rising(q)
  BY <1>2, <1>3, <1>4, <1>5 DEF InOrder, Rising, Before
<1>9. /\ \A i \in 1..Len(q) : Old(q[i], s)'
      /\ \A i \in 1..Len(g) : Old(g[i], s)'
      /\ \A i \in 1..Len(h) : Old(h[i], s)'
  BY <1>2, <1>3, <1>4, <1>5, StillOld DEF InOrder
<1>10. Rising(n)
  <2>1. ASSUME NEW i \in 1..Len(n), NEW j \in 1..Len(n), i < j PROVE Prec(n[i], n[j])
    <3>1. i \in 1..Len(g)  BY <1>7, <2>1
    <3>2. CASE j \in 1..Len(g)  BY <1>7, <1>8, <2>1, <3>1, <3>2
    <3>3. CASE ~(j <= Len(g))  BY <1>7, <1>8, <3>1, <3>3
    <3> QED  BY <1>7, <3>2, <3>3
  <2> QED  BY <2>1 DEF Rising
<1>11. Before(n, q)
  <2>1. ASSUME NEW i \in 1..Len(n), NEW j \in 1..Len(q) PROVE Prec(n[i], q[j])
    <3>1. CASE i \in 1..Len(g)  BY <1>7, <1>8, <3>1
    <3>2. CASE ~(i <= Len(g))  BY <1>7, <1>8, <3>2
    <3> QED  BY <1>7, <3>1, <3>2
  <2> QED  BY <2>1 DEF Before
<1>12. \A i \in 1..Len(n) : Old(n[i], s)'
  <2> SUFFICES ASSUME NEW i \in 1..Len(n) PROVE Old(n[i], s)'
    OBVIOUS
  <2>1. CASE i \in 1..Len(g)  BY <1>7, <1>9, <2>1
  <2>2. CASE ~(i <= Len(g))  BY <1>7, <1>9, <2>2
  <2> QED  BY <1>7, <2>1, <2>2
<1>13. hand'[s] = <<>> /\ queue'[s] = q  BY <1>1, <1>4 DEF Base, TypeOK
<1>14. (Rising(got[s]) /\ Rising(queue[s]) /\ Before(got[s], queue[s]))'
  BY <1>6, <1>8, <1>10, <1>11, <1>13
<1>15. (Before(got[s], hand[s]) /\ Before(hand[s], queue[s]) /\ AllOld(hand[s], s))'
  BY <1>13 DEF Before, AllOld
<1>16. (AllOld(got[s], s) /\ AllOld(queue[s], s))'
  BY <1>6, <1>9, <1>12, <1>13 DEF AllOld
<1> QED  BY <1>14, <1>15, <1>16 DEF InOrder

LEMMA InitOrdered == Init => Ordered
<1> SUFFICES ASSUME Init, NEW s \in Sink PROVE InOrder(s)
  BY DEF Ordered
<1>1. got[s] = <<>> /\ hand[s] = <<>> /\ queue[s] = <<>>  BY DEF Init
<1> QED  BY <1>1 DEF InOrder, Rising, Before, AllOld

LEMMA StepOrdered == ASSUME Base, Ordered, [Next]_vars PROVE Ordered'
<1> SUFFICES ASSUME NEW s \in Sink PROVE InOrder(s)'
  BY DEF Ordered
<1>1. InOrder(s)  BY DEF Ordered
<1>2. CASE \E e \in Emitter : Emit(e) \/ Count(e) \/ Drop(e) \/ SendOnClosed(e)
  <2>1. PICK e \in Emitter : Emit(e) \/ Count(e) \/ Drop(e) \/ SendOnClosed(e)
    BY <1>2
  <2>2. UNCHANGED <<got, hand, queue>>
    BY <2>1 DEF Emit, Numbered, Count, Drop, SendOnClosed, sinkVars
  <2> QED  BY <1>1, <2>1, <2>2, EasedEmit, InOrderKept
<1>3. CASE \E e \in Emitter : Send(e)
  <2>1. PICK e \in Emitter : Send(e)  BY <1>3
  <2>2. UNCHANGED <<got, hand>> /\ (s # emit[e].at => queue'[s] = queue[s])
    BY <2>1 DEF Send, sinkVars, Base, TypeOK
  <2>3. CASE s # emit[e].at  BY <1>1, <2>1, <2>2, <2>3, EasedEmit, InOrderKept
  <2> QED  BY <2>1, <2>3, SendOrder
<1>4. CASE \E t \in Sink : Take(t) \/ Delivery(t)
  <2>1. PICK t \in Sink : Take(t) \/ Delivery(t)  BY <1>4
  <2>2. CASE t # s
    <3>1. UNCHANGED <<emit, seq, queue[s], hand[s], got[s]>>
      BY <2>1, <2>2 DEF Take, Delivery, Deliver, DeliverFails, DeliverPanics, emitVars,
                        Base, TypeOK
    <3>2. seq' \in Nat /\ seq <= seq'  BY <3>1, SeqNat
    <3> QED  BY <1>1, <3>1, <3>2, EasedFrame, InOrderKept
  <2> QED  BY <2>1, <2>2, TakeOrder, DeliveryOrder
<1>5. CASE \E n \in Resumes : ResumeSequence(n)
  <2>1. UNCHANGED <<emit, queue, hand, got>>
    BY <1>5 DEF ResumeSequence, sinkVars
  <2>2. seq' \in Nat /\ seq <= seq'  BY <1>5, SeqNat, BusAssumption DEF ResumeSequence
  <2> QED  BY <1>1, <2>1, <2>2, EasedFrame, InOrderKept
<1>6. CASE \/ AddSink \/ \E t \in Sink : RunEnds(t)
           \/ SettleCalled \/ SettleStep \/ SettleContextEnds
           \/ CloseCalled \/ CloseStep \/ UNCHANGED vars
  <2>1. UNCHANGED <<emit, seq, queue, hand, got>>
    BY <1>6, SettleFrame
       DEF AddSink, RunEnds, CloseCalled, CloseStep, CloseQueue, CloseWaited, CloseSink,
           CloseReturns, otherVars, emitVars, sinkVars, vars
  <2>2. seq' \in Nat /\ seq <= seq'  BY <2>1, SeqNat
  <2> QED  BY <1>1, <2>1, <2>2, EasedFrame, InOrderKept
<1> QED
  BY <1>2, <1>3, <1>4, <1>5, <1>6 DEF Next, EmitStep, RunStep

-----------------------------------------------------------------------------
(* Settle as a barrier *)

\* The i-th event waiting for sink s is owed to the caller of Settle.
OwedInQueue(s, i) == queue[s][i].num \in owed
OwedInHand(s) == \E i \in 1..Len(hand[s]) : hand[s][i].num \in owed

\* Nothing owed is left before sink s, or its goroutine is over.
Clear(s) ==
  Stopped(s) \/ (~OwedInHand(s) /\ \A i \in 1..Len(queue[s]) : ~OwedInQueue(s, i))

\* What is owed of sink s is within the target, so it is handled by then.
Within(s) ==
  Stopped(s) \/
    /\ OwedInHand(s) => handled[s] + 1 <= settle.target
    /\ \A i \in 1..Len(queue[s]) :
         OwedInQueue(s, i) => handled[s] + InHand(s) + i <= settle.target

Passed(s) == settle.pc = "done" \/ (settle.pc \in {"load", "wait"} /\ s < settle.at)

\* Nobody inside Emit has an event that is owed; a sink Settle has passed is
\* clear; and the one it waits for will be when it has handled the target.
Barrier ==
  /\ owed \subseteq 1..seq
  /\ \A e \in Emitter : emit[e].pc # "idle" => emit[e].num \notin owed
  /\ exact => \A s \in Sink : s <= settle.upto =>
       /\ Passed(s) => Clear(s)
       /\ settle.pc = "wait" /\ settle.at = s => Within(s)

LEMMA InitBarrier == Init => Barrier
BY BusAssumption DEF Init, Barrier, OutsideEmit, Sink

\* Steps of the bus outside Settle.  The events of a sink stay, or go on.
LEMMA BarrierKept ==
  ASSUME Base, Barrier, UNCHANGED <<settle, owed, exact>>,
         seq' \in Nat, seq <= seq',
         \A e \in Emitter : emit'[e].pc # "idle" => emit'[e].num \notin owed,
         \A s \in Sink : s <= settle.upto =>
           (Clear(s) => Clear(s)') /\ (Within(s) => Within(s)')
  PROVE  Barrier'
<1>1. owed' \subseteq 1..seq'  BY SeqNat DEF Barrier
<1>2. \A s \in Sink : Passed(s)' <=> Passed(s)  BY DEF Passed
<1> QED  BY <1>1, <1>2 DEF Barrier

\* A sink that keeps its events and its goroutine keeps its standing.
LEMMA SinkStands ==
  ASSUME NEW s \in Sink, UNCHANGED <<settle, owed>>,
         queue'[s] = queue[s], hand'[s] = hand[s], handled'[s] = handled[s],
         Stopped(s) => Stopped(s)'
  PROVE  (Clear(s) => Clear(s)') /\ (Within(s) => Within(s)')
<1>1. OwedInHand(s)' <=> OwedInHand(s)  BY DEF OwedInHand
<1>2. \A i \in 1..Len(queue[s]) : OwedInQueue(s, i)' <=> OwedInQueue(s, i)
  BY DEF OwedInQueue
<1>3. InHand(s)' = InHand(s)  BY DEF InHand
<1> QED  BY <1>1, <1>2, <1>3 DEF Clear, Within

\* Nobody emits an event that is owed: those have returned.
LEMMA EmitNotOwed ==
  ASSUME Base, Barrier, NEW e \in Emitter, EmitStep(e)
  PROVE  \A f \in Emitter : emit'[f].pc # "idle" => emit'[f].num \notin owed
<1>1. CASE Emit(e)
  <2>1. Numbered(e)  BY <1>1 DEF Emit
  <2>2. /\ \A f \in Emitter : f # e => emit'[f] = emit[f]
        /\ emit'[e].pc = "idle" \/ emit'[e].num = seq + 1
    BY <2>1, NumberedSets DEF Base, NowAt, NowOutside
  <2>3. seq + 1 \notin owed  BY SeqNat DEF Barrier
  <2> QED  BY <2>2, <2>3 DEF Barrier
<1>2. CASE Send(e) \/ SendOnClosed(e)
  <2>1. /\ \A f \in Emitter : f # e => emit'[f] = emit[f]
        /\ emit[e].pc # "idle" /\ emit'[e].num = emit[e].num
    BY <1>2, PcSet DEF Send, SendOnClosed, Base, NowAt
  <2> QED  BY <2>1 DEF Barrier
<1>3. CASE Count(e) \/ Drop(e)
  <2>1. emit[e].pc # "idle" /\ Advance(e)  BY <1>3 DEF Count, Drop
  <2>2. /\ \A f \in Emitter : f # e => emit'[f] = emit[f]
        /\ emit'[e].pc = "idle" \/ emit'[e].num = emit[e].num
    BY <2>1, Advanced DEF NowAt, NowOutside
  <2> QED  BY <2>1, <2>2 DEF Barrier
<1> QED  BY <1>1, <1>2, <1>3 DEF EmitStep

\* A Send appends an event that is not owed.
LEMMA SendStands ==
  ASSUME Base, Barrier, NEW e \in Emitter, Send(e), NEW s \in Sink
  PROVE  (Clear(s) => Clear(s)') /\ (Within(s) => Within(s)')
<1>0. PICK ev \in Event : ev = [num |-> emit[e].num, by |-> e]
  BY SentIsEvent DEF Send
<1>1. /\ UNCHANGED <<hand, handled, run, settle, owed>> /\ emit[e].pc = "offer"
      /\ queue' = [queue EXCEPT ![emit[e].at] = Append(queue[emit[e].at], ev)]
  BY <1>0 DEF Send, sinkVars, settleVars
<1>2. Stopped(s)' <=> Stopped(s)  BY <1>1 DEF Stopped
<1>3. CASE s # emit[e].at
  <2>1. queue'[s] = queue[s]  BY <1>1, <1>3 DEF Base, TypeOK
  <2> QED  BY <1>1, <1>2, <2>1, SinkStands
<1>4. CASE s = emit[e].at
  <2>1. ev.num \notin owed  BY <1>0, <1>1 DEF Barrier
  <2>2. PICK q \in Seq(Event) : q = queue[s]  BY BookTypes DEF Base
  <2>3. queue'[s] = Append(q, ev)  BY <1>1, <1>4, <2>2 DEF Base, TypeOK
  <2>4. PICK r \in Seq(Event) : r = queue'[s]  BY <2>3
  <2>5. /\ \A i \in 1..Len(q) : r[i] = q[i]
        /\ \A i \in 1..Len(r) : i \in 1..Len(q) \/ r[i] = ev
    BY <2>3, <2>4
  <2>6. \A i \in 1..Len(r) : OwedInQueue(s, i)' => i \in 1..Len(q) /\ OwedInQueue(s, i)
    BY <1>1, <2>1, <2>2, <2>4, <2>5 DEF OwedInQueue
  <2>7. OwedInHand(s)' <=> OwedInHand(s)  BY <1>1 DEF OwedInHand
  <2>8. InHand(s)' = InHand(s)  BY <1>1 DEF InHand
  <2> QED  BY <1>1, <1>2, <2>2, <2>4, <2>6, <2>7, <2>8 DEF Clear, Within
<1> QED  BY <1>3, <1>4

\* Taking moves the first waiting event into the hand: it is handled next.
LEMMA TakeStands ==
  ASSUME Base, NEW s \in Sink, Take(s)
  PROVE  (Clear(s) => Clear(s)') /\ (Within(s) => Within(s)')
<1>1. /\ UNCHANGED <<handled, run, settle, owed>> /\ queue[s] # <<>> /\ hand[s] = <<>>
      /\ run[s] = "running"
      /\ hand' = [hand EXCEPT ![s] = <<Head(queue[s])>>]
      /\ queue' = [queue EXCEPT ![s] = Tail(queue[s])]
  BY DEF Take, settleVars
<1>2. PICK q \in Seq(Event) : q = queue[s] /\ q # <<>>  BY <1>1, BookTypes DEF Base
<1>3. PICK t \in Seq(Event) : t = queue'[s] /\ t = Tail(q)
  BY <1>1, <1>2, HeadTailProperties DEF Base, TypeOK
<1>4. PICK h : h = hand'[s] /\ h = <<q[1]>> /\ Len(h) = 1 /\ h[1] = q[1]
  <2>1. hand'[s] = <<Head(q)>>  BY <1>1, <1>2 DEF Base, TypeOK
  <2>2. Head(q) = q[1]  BY <1>2
  <2>3. Len(<<q[1]>>) = 1 /\ <<q[1]>>[1] = q[1]  OBVIOUS
  <2> QED  BY <2>1, <2>2, <2>3
<1>5. /\ Len(q) \in Nat /\ Len(t) \in Nat /\ 1 \in 1..Len(q)
      /\ \A i \in 1..Len(t) : i \in Nat /\ i + 1 \in 1..Len(q) /\ t[i] = q[i + 1]
  <2>1. Len(q) \in Nat \ {0} /\ Len(t) = Len(q) - 1
    BY <1>2, <1>3, HeadTailProperties, EmptySeq
  <2>2. \A i \in 1..Len(t) : t[i] = q[i + 1]
    BY <1>2, <1>3
  <2> QED  BY <2>1, <2>2
<1>6. \A i \in 1..Len(t) : OwedInQueue(s, i)' => OwedInQueue(s, i + 1)
  BY <1>1, <1>2, <1>3, <1>5 DEF OwedInQueue
<1>7. OwedInHand(s)' => OwedInQueue(s, 1)
  <2>1. \A i \in 1..Len(h) : h[i] = q[1]  BY <1>4
  <2> QED  BY <1>1, <1>2, <1>4, <2>1 DEF OwedInHand, OwedInQueue
<1>8. InHand(s) = 0 /\ InHand(s)' = 1
  BY <1>1, <1>4, BookTypes DEF Base, InHand
<1>9. handled[s] \in Nat /\ settle.target \in Nat
  BY SettleRecord DEF Base, TypeOK
<1>10. ~Stopped(s)  BY <1>1 DEF Stopped
<1>11. Clear(s) => Clear(s)'
  BY <1>2, <1>3, <1>5, <1>6, <1>7, <1>10 DEF Clear
<1>12. ASSUME Within(s) PROVE Within(s)'
  <2>1. \A i \in 1..Len(q) : OwedInQueue(s, i) => handled[s] + 0 + i <= settle.target
    BY <1>2, <1>8, <1>10, <1>12 DEF Within
  <2>2. OwedInHand(s)' => handled[s] + 1 <= settle.target
    BY <1>5, <1>7, <1>9, <2>1
  <2>3. \A i \in 1..Len(t) : OwedInQueue(s, i)' => handled[s] + 1 + i <= settle.target
    BY <1>5, <1>6, <1>9, <2>1
  <2> QED  BY <1>1, <1>3, <1>8, <2>2, <2>3 DEF Within
<1> QED  BY <1>11, <1>12

\* A delivery empties the hand and counts it, or ends the goroutine.
LEMMA DeliveryStands ==
  ASSUME Base, NEW s \in Sink, Delivery(s)
  PROVE  (Clear(s) => Clear(s)') /\ (Within(s) => Within(s)')
<1>1. /\ UNCHANGED <<queue, settle, owed>> /\ hand[s] # <<>>
      /\ hand' = [hand EXCEPT ![s] = <<>>]
      /\ \/ handled' = [handled EXCEPT ![s] = handled[s] + 1]
         \/ run' = [run EXCEPT ![s] = "panicked"]
  BY DEF Delivery, Deliver, DeliverFails, DeliverPanics, settleVars
<1>2. run[s] = "running"  BY <1>1 DEF Base, Places, Place
<1>3. CASE run' = [run EXCEPT ![s] = "panicked"]
  <2>1. Stopped(s)'  BY <1>3 DEF Stopped, Base, TypeOK
  <2> QED  BY <2>1 DEF Clear, Within
<1>4. CASE handled' = [handled EXCEPT ![s] = handled[s] + 1]
  <2>1. hand'[s] = <<>> /\ handled'[s] = handled[s] + 1
    BY <1>1, <1>4 DEF Base, TypeOK
  <2>2. ~OwedInHand(s)' /\ InHand(s)' = 0  BY <2>1 DEF OwedInHand, InHand
  <2>3. \A i \in 1..Len(queue[s]) : OwedInQueue(s, i)' <=> OwedInQueue(s, i)
    BY <1>1 DEF OwedInQueue
  <2>4. InHand(s) = 1
    <3>1. InHand(s) \in Nat /\ InHand(s) <= 1 /\ InHand(s) # 0
      BY <1>1, BookTypes DEF Base, InHand
    <3> QED  BY <3>1
  <2>5. handled[s] \in Nat /\ settle.target \in Nat
    BY SettleRecord DEF Base, TypeOK
  <2>6. ~Stopped(s)  BY <1>2 DEF Stopped
  <2>7. Clear(s) => Clear(s)'  BY <1>1, <2>2, <2>3, <2>6 DEF Clear
  <2>8. ASSUME Within(s) PROVE Within(s)'
    <3>1. PICK n \in Nat : n = Len(queue[s])  BY BookTypes DEF Base
    <3>2. \A i \in 1..n : OwedInQueue(s, i) => handled[s] + 1 + i <= settle.target
      BY <2>4, <2>6, <2>8, <3>1 DEF Within
    <3>3. \A i \in 1..n : OwedInQueue(s, i)' => handled'[s] + InHand(s)' + i <= settle.target
      BY <2>1, <2>2, <2>3, <2>5, <3>1, <3>2
    <3> QED  BY <1>1, <2>2, <3>1, <3>3 DEF Within
  <2> QED  BY <2>7, <2>8
<1> QED  BY <1>1, <1>3, <1>4

\* The steps of Settle itself.  With no send uncounted, the counter it loads
\* is what the sink has handled, has in hand and has waiting.
LEMMA SettleCalledBarrier == ASSUME Base, Barrier, SettleCalled PROVE Barrier'
<1>1. /\ UNCHANGED <<emit, seq, sinks>>
      /\ settle' = SettleAt(1, sinks)
      /\ owed' = (1..seq) \ {emit[e].num : e \in Emitter}
  BY DEF SettleCalled, emitVars
<1>2. sinks \in 0..MaxSinks /\ sinks \in Nat  BY BusAssumption DEF Base, TypeOK
<1>3. /\ settle'.upto = sinks
      /\ sinks < 1 \/ (settle'.pc = "load" /\ settle'.at = 1)
  BY <1>1, <1>2, SettleAtType
<1>4. ASSUME NEW s \in Sink, s <= settle'.upto
      PROVE  ~Passed(s)' /\ settle'.pc # "wait"
  <2>1. s \in Nat /\ 1 <= s  BY BusAssumption DEF Sink
  <2>2. settle'.pc = "load" /\ settle'.at = 1 /\ ~(s < 1)  BY <1>2, <1>3, <1>4, <2>1
  <2> QED  BY <2>2 DEF Passed
<1> QED  BY <1>1, <1>4 DEF Barrier

LEMMA SettleLoadsBarrier == ASSUME Base, Books, Barrier, SettleLoads PROVE Barrier'
<1>1. /\ UNCHANGED <<emit, seq, owed, queue, hand, handled, run>>
      /\ settle.pc = "load"
      /\ settle' = [settle EXCEPT !.pc = "wait", !.target = queued[settle.at]]
      /\ exact' = (exact /\ Uncounted(settle.at) = {})
  BY DEF SettleLoads, emitVars, sinkVars
<1>2. settle.at \in Sink /\ settle.at <= sinks
  BY <1>1, SettleRecord, BusAssumption DEF Base, Listed, Sink, TypeOK
<1>3. settle'.pc = "wait" /\ settle'.at = settle.at /\ settle'.upto = settle.upto
      /\ settle'.target = queued[settle.at]
  BY <1>1, SettleRecord DEF Base, SettleStates
<1>4. ASSUME NEW s \in Sink
      PROVE  (Passed(s)' <=> Passed(s)) /\ (Clear(s) => Clear(s)')
  <2>1. Passed(s)' <=> Passed(s)  BY <1>1, <1>3 DEF Passed
  <2>2. Clear(s) => Clear(s)'
    BY <1>1 DEF Clear, OwedInHand, OwedInQueue, Stopped
  <2> QED  BY <2>1, <2>2
<1>5. ASSUME NEW s \in Sink, s = settle.at, Uncounted(s) = {}, ~Stopped(s)
      PROVE  Within(s)'
  <2>1. Numerical(s) /\ Balanced(s)  BY BooksOf
  <2>2. Cardinality(Uncounted(s)) = 0  BY <1>5, FS_EmptySet
  <2>3. queued[s] = handled[s] + InHand(s) + Waiting(s)
    BY <1>5, <2>1, <2>2 DEF Numerical, Balanced, Stopped
  <2>4. UNCHANGED InHand(s) /\ InHand(s) \in Nat /\ handled[s] \in Nat /\ Waiting(s) \in Nat
    BY <1>1, <2>1 DEF InHand, Numerical
  <2>5. OwedInHand(s)' => handled[s] + 1 <= queued[s]
    <3>1. OwedInHand(s)' => InHand(s) # 0  BY <1>1, BookTypes DEF Base, OwedInHand, InHand
    <3> QED  BY <2>3, <2>4, <3>1
  <2>6. \A i \in 1..Waiting(s) : handled[s] + InHand(s) + i <= queued[s]
    BY <2>3, <2>4
  <2>7. Waiting(s) = Len(queue'[s])  BY <1>1 DEF Waiting
  <2> QED  BY <1>1, <1>3, <1>5, <2>4, <2>5, <2>6, <2>7 DEF Within
<1>6. ASSUME NEW s \in Sink, Stopped(s) PROVE Within(s)'
  BY <1>1, <1>6 DEF Within, Stopped
<1> QED  BY <1>1, <1>3, <1>4, <1>5, <1>6 DEF Barrier

LEMMA SettlePassesBarrier == ASSUME Base, Barrier, SettlePasses PROVE Barrier'
<1>1. /\ UNCHANGED <<emit, seq, owed, exact, queue, hand, handled, run>>
      /\ settle.pc = "wait"
      /\ handled[settle.at] >= settle.target \/ Stopped(settle.at)
      /\ settle' = SettleAt(settle.at + 1, settle.upto)
  BY DEF SettlePasses, emitVars, sinkVars
<1>2. settle.at \in Nat /\ settle.upto \in 0..MaxSinks /\ settle.upto \in Nat
      /\ settle.target \in Nat
  BY SettleRecord DEF Base
<1>3. /\ settle'.upto = settle.upto
      /\ settle'.pc # "wait"
      /\ settle.at + 1 > settle.upto \/ (settle'.pc # "done" /\ settle'.at = settle.at + 1)
  BY <1>1, <1>2, SettleAtType
<1>4. ASSUME NEW s \in Sink PROVE Clear(s) => Clear(s)'
  BY <1>1 DEF Clear, OwedInHand, OwedInQueue, Stopped
<1>5. ASSUME NEW s \in Sink, s = settle.at, Within(s) PROVE Clear(s)
  <2>1. CASE Stopped(s)  BY <2>1 DEF Clear
  <2>2. CASE ~Stopped(s)
    <3>1. handled[s] \in Nat /\ InHand(s) \in Nat /\ handled[s] >= settle.target
      BY <1>1, <1>5, <2>2, BookTypes DEF Base
    <3>2. PICK n \in Nat : n = Len(queue[s])  BY BookTypes DEF Base
    <3>3. ~(handled[s] + 1 <= settle.target)  BY <1>2, <3>1
    <3>4. \A i \in 1..n : ~(handled[s] + InHand(s) + i <= settle.target)
      BY <1>2, <3>1, <3>2
    <3> QED  BY <1>5, <2>2, <3>2, <3>3, <3>4 DEF Within, Clear
  <2> QED  BY <2>1, <2>2
<1>6. ASSUME NEW s \in Sink, s <= settle.upto, Passed(s)'
      PROVE  Passed(s) \/ s = settle.at
  <2>1. s \in Nat  BY BusAssumption DEF Sink
  <2>2. s < settle.at + 1  BY <1>2, <1>3, <1>6, <2>1 DEF Passed
  <2> QED  BY <1>1, <1>2, <2>1, <2>2 DEF Passed
<1> QED  BY <1>1, <1>3, <1>4, <1>5, <1>6 DEF Barrier

LEMMA SettleContextEndsBarrier == ASSUME Base, Barrier, SettleContextEnds PROVE Barrier'
<1>1. /\ UNCHANGED <<emit, seq, owed>>
      /\ settle' = [pc |-> "ended", at |-> 0, upto |-> 0, target |-> 0]
  BY DEF SettleContextEnds, emitVars
<1>2. settle'.upto = 0  BY <1>1
<1>3. \A s \in Sink : ~(s <= 0)  BY BusAssumption DEF Sink
<1> QED  BY <1>1, <1>2, <1>3 DEF Barrier

LEMMA StepBarrier == ASSUME Base, Books, Barrier, [Next]_vars PROVE Barrier'
<1>0. \A s \in Sink : s \in Nat /\ settle.upto \in Nat /\ sinks \in Nat /\ settle.upto <= sinks
  BY SettleRecord, BusAssumption DEF Base, Listed, Sink, TypeOK
<1>1. CASE \E e \in Emitter : EmitStep(e)
  <2>1. PICK e \in Emitter : EmitStep(e)  BY <1>1
  <2>2. \A f \in Emitter : emit'[f].pc # "idle" => emit'[f].num \notin owed
    BY <2>1, EmitNotOwed
  <2>3. UNCHANGED <<settle, owed, exact, hand, handled, run>>
    BY <2>1 DEF EmitStep, Emit, Numbered, Send, Count, Drop, SendOnClosed,
                sinkVars, settleVars
  <2>4. seq' \in Nat /\ seq <= seq'
    BY <2>1, SeqNat DEF EmitStep, Emit, Send, Count, Drop, SendOnClosed
  <2>5. ASSUME NEW s \in Sink PROVE (Clear(s) => Clear(s)') /\ (Within(s) => Within(s)')
    <3>1. CASE Send(e)  BY <3>1, SendStands
    <3>2. CASE ~Send(e)
      <4>1. queue' = queue
        BY <2>1, <3>2 DEF EmitStep, Emit, Numbered, Count, Drop, SendOnClosed
      <4>2. Stopped(s) => Stopped(s)'  BY <2>3 DEF Stopped
      <4> QED  BY <2>3, <4>1, <4>2, SinkStands
    <3> QED  BY <3>1, <3>2
  <2> QED  BY <2>2, <2>3, <2>4, <2>5, BarrierKept
<1>2. CASE \E s \in Sink : RunStep(s)
  <2>1. PICK s \in Sink : RunStep(s)  BY <1>2
  <2>2. UNCHANGED <<emit, seq, settle, owed, exact>>
    BY <2>1 DEF RunStep, Take, Delivery, Deliver, DeliverFails, DeliverPanics, RunEnds,
                emitVars, settleVars
  <2>3. seq' \in Nat /\ seq <= seq'  BY <2>2, SeqNat
  <2>4. ASSUME NEW t \in Sink PROVE (Clear(t) => Clear(t)') /\ (Within(t) => Within(t)')
    <3>1. CASE t = s /\ (Take(s) \/ Delivery(s))
      BY <3>1, TakeStands, DeliveryStands
    <3>2. CASE t # s /\ (Take(s) \/ Delivery(s))
      <4>1. UNCHANGED <<queue[t], hand[t], handled[t], run[t]>>
        BY <3>2 DEF Take, Delivery, Deliver, DeliverFails, DeliverPanics, Base, TypeOK
      <4>2. Stopped(t) => Stopped(t)'  BY <4>1 DEF Stopped
      <4> QED  BY <2>2, <4>1, <4>2, SinkStands
    <3>3. CASE RunEnds(s)
      <4>1. UNCHANGED <<queue, hand, handled>>  BY <3>3 DEF RunEnds
      <4>2. Stopped(t) => Stopped(t)'  BY <3>3 DEF RunEnds, Stopped, Base, TypeOK
      <4> QED  BY <2>2, <4>1, <4>2, SinkStands
    <3> QED  BY <2>1, <3>1, <3>2, <3>3 DEF RunStep
  <2>5. \A e \in Emitter : emit'[e].pc # "idle" => emit'[e].num \notin owed
    BY <2>2 DEF Barrier
  <2> QED  BY <2>2, <2>3, <2>4, <2>5, BarrierKept
<1>3. CASE \/ AddSink \/ \E n \in Resumes : ResumeSequence(n)
           \/ CloseCalled \/ CloseStep \/ UNCHANGED vars
  <2>1. UNCHANGED <<emit, queue, hand, handled, settle, owed, exact>>
    BY <1>3 DEF AddSink, ResumeSequence, CloseCalled, CloseStep, CloseQueue, CloseWaited,
                CloseSink, CloseReturns, emitVars, sinkVars, settleVars, vars
  <2>2. seq' \in Nat /\ seq <= seq'
    <3>1. CASE \E n \in Resumes : ResumeSequence(n)
      BY <3>1, SeqNat, BusAssumption DEF ResumeSequence
    <3>2. CASE AddSink \/ CloseCalled \/ CloseStep \/ UNCHANGED vars
      <4>1. seq' = seq
        BY <3>2 DEF AddSink, CloseCalled, CloseStep, CloseQueue, CloseWaited, CloseSink,
                    CloseReturns, emitVars, vars
      <4> QED  BY <4>1, SeqNat
    <3> QED  BY <1>3, <3>1, <3>2
  <2>3. ASSUME NEW s \in Sink, s <= settle.upto PROVE Stopped(s) => Stopped(s)'
    <3>1. s # sinks + 1  BY <1>0, <2>3
    <3>2. run'[s] = run[s]
      BY <1>3, <3>1 DEF AddSink, ResumeSequence, CloseCalled, CloseStep, CloseQueue,
           CloseWaited, CloseSink, CloseReturns, sinkVars, vars, Base, TypeOK
    <3> QED  BY <3>2 DEF Stopped
  <2>4. \A s \in Sink : s <= settle.upto =>
          (Clear(s) => Clear(s)') /\ (Within(s) => Within(s)')
    BY <2>1, <2>3, SinkStands
  <2>5. \A e \in Emitter : emit'[e].pc # "idle" => emit'[e].num \notin owed
    BY <2>1 DEF Barrier
  <2> QED  BY <2>1, <2>2, <2>4, <2>5, BarrierKept
<1> QED
  BY <1>1, <1>2, <1>3, SettleCalledBarrier, SettleLoadsBarrier, SettlePassesBarrier,
     SettleContextEndsBarrier DEF Next, SettleStep

-----------------------------------------------------------------------------
(* The theorems *)

\* The inductive invariant.
IInv == Base /\ Books /\ Ordered /\ Barrier

LEMMA Invariant == Spec => []IInv
<1>1. Init => IInv  BY InitBase, InitBooks, InitOrdered, InitBarrier DEF IInv
<1>2. IInv /\ [Next]_vars => IInv'
  BY StepBase, StepBooks, StepOrdered, StepBarrier DEF IInv
<1> QED  BY <1>1, <1>2, PTL DEF Spec

\* The variables of the bus keep their types, whatever emits, settles, closes
\* and panics beside each other.
THEOREM TypeCorrect == Spec => []TypeOK
<1>1. IInv => TypeOK  BY DEF IInv, Base
<1> QED  BY <1>1, Invariant, PTL

\* When Close has closed a sink whose goroutine ran to its end, and no Emit
\* raced it, delivered and dropped are all that was accepted for the sink.
THEOREM LossesAreCounted == Spec => []NothingLostSilently
<1>1. ASSUME IInv, NEW s \in Sink, shut[s], run[s] = "ended", ~racing
      PROVE  offered[s] = Len(got[s]) + dropped[s]
  <2>1. Base /\ Books /\ Place(s) /\ close.pc # "idle" /\ closed
    BY <1>1 DEF IInv, Base, Places, Place
  <2>2. \A e \in Emitter : emit[e].pc = "idle"
    BY <1>1, <2>1 DEF Base, UnderWay, Call
  <2>3. StillToOffer(s) = {}  BY <2>2 DEF StillToOffer
  <2>4. Cardinality(StillToOffer(s)) = 0  BY <2>3, FS_EmptySet
  <2>5. queue[s] = <<>> /\ hand[s] = <<>>  BY <1>1, <2>1 DEF Place
  <2>6. Waiting(s) = 0 /\ InHand(s) = 0  BY <2>5 DEF Waiting, InHand
  <2>7. offered[s] = Delivered(s) + dropped[s]
    BY <2>1, <2>4, <2>6, BooksOf DEF Numerical, Accounted
  <2> QED  BY <2>7 DEF Delivered
<1>2. IInv => NothingLostSilently  BY <1>1 DEF NothingLostSilently
<1> QED  BY <1>2, Invariant, PTL

\* A sink's Close is called only when its goroutine is over and its hand is
\* empty: wg.Wait stands between the two.
THEOREM ClosedSinksAreQuiet == Spec => []NoDeliveryAfterClose
<1>1. ASSUME IInv, NEW s \in Sink, shut[s] PROVE Stopped(s) /\ hand[s] = <<>>
  <2>1. Place(s)  BY <1>1 DEF IInv, Base, Places
  <2> QED  BY <1>1, <2>1 DEF Place, Stopped
<1>2. IInv => NoDeliveryAfterClose  BY <1>1 DEF NoDeliveryAfterClose
<1> QED  BY <1>2, Invariant, PTL

\* A sink receives what one goroutine emits in the order of its calls, and no
\* number twice, although the sends happen outside the mutex.
THEOREM DeliveryIsInOrder == Spec => []EmitterOrder
<1>1. IInv => EmitterOrder
  BY DEF IInv, Ordered, InOrder, Rising, Prec, EmitterOrder
<1> QED  BY <1>1, Invariant, PTL

\* No send meets a closed channel unless Close began while an Emit was under way.
THEOREM PanicsAreRaces == Spec => []OnlyRacingEmitsPanic
<1>1. IInv => OnlyRacingEmitsPanic
  BY DEF IInv, Base, UnderWay, Call, OnlyRacingEmitsPanic
<1> QED  BY <1>1, Invariant, PTL

\* When Settle returns nil, no sink of its list has an event waiting or in
\* hand whose Emit had returned before the call, unless it loaded a counter
\* that lagged its queue.
THEOREM SettleWaits == Spec => []SettleIsBarrier
<1>1. ASSUME IInv, settle.pc = "done", exact PROVE ~Unsettled
  <2>1. ASSUME NEW s \in 1..settle.upto PROVE Clear(s)
    <3>1. s \in Sink /\ s <= settle.upto
      BY SettleRecord, <1>1, BusAssumption DEF IInv, Base, Sink
    <3>2. Passed(s)  BY <1>1 DEF Passed
    <3> QED  BY <1>1, <3>1, <3>2 DEF IInv, Barrier
  <2> QED  BY <2>1 DEF Unsettled, Clear, OwedInHand, OwedInQueue
<1>2. IInv => SettleIsBarrier  BY <1>1 DEF SettleIsBarrier
<1> QED  BY <1>2, Invariant, PTL

=============================================================================

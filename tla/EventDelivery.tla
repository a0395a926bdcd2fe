----------------------------- MODULE EventDelivery ----------------------------
(***************************************************************************)
(* How the events of one environment reach the control plane, over the     *)
(* commands (processes) that work on it: the durable sequence they number  *)
(* from (telemetry/sequence.go), the sink that buffers and flushes         *)
(* (controlplane/sink.go) and the spool directory the commands share       *)
(* (telemetry/spool.go), attached and closed by telemetry/telemetry.go.    *)
(*                                                                         *)
(* A statement on the state database, a listing, rename or removal in the  *)
(* spool and a request are one step each.  The control plane is external: it takes a *)
(* batch or it does not, and knows an event it already has.                *)
(***************************************************************************)
EXTENDS Integers, Sequences, FiniteSets

CONSTANTS
  Cmd,         \* commands, each a process that runs once
  Locked,      \* those that hold the environment's lock, unlike af test
  Thread,      \* goroutines that may call Flush
  Closer,      \* the one that calls Close
  Deliverer,   \* the bus's goroutine, that calls Deliver
  BlockSize,   \* sequence numbers reserved at once
  Capacity,    \* events the sink holds in memory
  BatchSize,   \* events in one request
  MaxFiles,    \* the spool's budget, in batches rather than bytes
  MaxBatches,  \* maxBatchesPerFlush
  MaxEmit,     \* bound: events each command emits
  Unreadable,  \* commands that may find the state database unreadable
  Spoolless,   \* commands that may fail to open the spool
  Garbled      \* events whose line in the spool redaction leaves unparsable

Event == [num : Nat, by : Cmd]

ASSUME DeliveryAssumption ==
  /\ Locked \subseteq Cmd
  /\ Closer \in Thread
  /\ Deliverer \notin Thread
  /\ BlockSize \in Nat
  /\ MaxEmit \in [Cmd -> 0..BlockSize]
  /\ Capacity \in Nat \ {0}
  /\ BatchSize \in Nat \ {0}
  /\ MaxFiles \in Nat \ {0}
  /\ MaxBatches \in Nat \ {0}
  /\ Unreadable \subseteq Cmd
  /\ Spoolless \subseteq Cmd
  /\ Garbled \subseteq Event

VARIABLES
  phase,     \* where each command is between Attach and its end
  meta,      \* the stored sequence: the meta row events.sequence.<env>
  base,      \* where a command's numbers continue from
  seqno,     \* bus.Seq of a command
  durable,   \* whether t.sequence is set
  overflow,  \* whether the sink has a spool
  ctr,       \* Spool.seq of a command
  pending,   \* Sink.pending
  spilling,  \* the batch Deliver is writing to the spool
  flush,     \* each goroutine inside Flush
  files,     \* the spool directory
  trim,      \* each goroutine inside enforceBudget
  received,  \* history: events the control plane has
  counted,   \* history: events some dropped counter stands for
  died,      \* history: events lost with a killed process
  uncounted, \* history: events the spool removed and no counter stands for
  behind,    \* history: commands that continued below a finished command
  overlapped,\* history: two commands were open at once
  fellBack,  \* history: a command numbered from the log
  released   \* history: claims of live goroutines put back by a new spool

vars == <<phase, meta, base, seqno, durable, overflow, ctr, pending, spilling,
          flush, files, trim, received, counted, died, uncounted,
          behind, overlapped, fellBack, released>>

seqVars   == <<meta, base, durable, behind, overlapped, fellBack>>
fateVars  == <<received, counted, died, uncounted>>
putVars   == <<ctr, trim>>

Flusher == Cmd \X Thread
Goroutine == Cmd \X (Thread \cup {Deliverer})

NoName == <<>>
Name == Nat \X Cmd

\* A spooled batch.  Its name carries the counter and the writer.
File == [name : Name, batch : Seq(Event), claimed : BOOLEAN, locked : BOOLEAN]

NoFlush == [pc |-> "idle", list |-> {}, name |-> NoName, batch |-> <<>>, left |-> 0]
FlushStates ==
  [pc : {"idle", "list", "claim", "read", "discard", "send", "ack", "unack",
         "take", "sendPending", "put"},
   list : SUBSET Name, name : Name \cup {NoName}, batch : Seq(Event),
   left : 0..MaxBatches]

\* The batches enforceBudget has still to visit, those in its total, and the
\* one it is removing with the lines it counted.
NoTrim == [pc |-> "idle", list |-> {}, total |-> {}, name |-> NoName, lines |-> {}]
TrimStates ==
  [pc : {"idle", "count", "remove"}, list : SUBSET Name, total : SUBSET Name,
   name : Name \cup {NoName}, lines : SUBSET Event]

TypeOK ==
  /\ phase \in [Cmd -> {"new", "open", "closing", "last", "settling",
                        "ended", "killed"}]
  /\ meta \in Nat
  /\ base \in [Cmd -> Nat]
  /\ seqno \in [Cmd -> Nat]
  /\ durable \in [Cmd -> BOOLEAN]
  /\ overflow \in [Cmd -> BOOLEAN]
  /\ ctr \in [Cmd -> Nat]
  /\ pending \in [Cmd -> Seq(Event)]
  /\ \A c \in Cmd : Len(pending[c]) <= Capacity
  /\ spilling \in [Cmd -> Seq(Event)]
  /\ flush \in [Flusher -> FlushStates]
  /\ files \subseteq File
  /\ \A f, g \in files : f.name = g.name => f = g
  /\ trim \in [Goroutine -> TrimStates]
  /\ received \subseteq Event /\ counted \subseteq Event /\ died \subseteq Event
  /\ uncounted \subseteq Event
  /\ behind \subseteq Cmd
  /\ overlapped \in BOOLEAN
  /\ fellBack \in BOOLEAN
  /\ released \subseteq Name

Init ==
  /\ phase = [c \in Cmd |-> "new"]
  /\ meta = 0
  /\ base = [c \in Cmd |-> 0]
  /\ seqno = [c \in Cmd |-> 0]
  /\ durable = [c \in Cmd |-> FALSE]
  /\ overflow = [c \in Cmd |-> FALSE]
  /\ ctr = [c \in Cmd |-> 0]
  /\ pending = [c \in Cmd |-> <<>>]
  /\ spilling = [c \in Cmd |-> <<>>]
  /\ flush = [f \in Flusher |-> NoFlush]
  /\ files = {}
  /\ trim = [g \in Goroutine |-> NoTrim]
  /\ received = {} /\ counted = {} /\ died = {} /\ uncounted = {}
  /\ behind = {}
  /\ overlapped = FALSE
  /\ fellBack = FALSE
  /\ released = {}

Events(batch) == {batch[i] : i \in 1..Len(batch)}
Least(a, b) == IF a < b THEN a ELSE b
First(s, n) == SubSeq(s, 1, Least(n, Len(s)))
Rest(s, n) == SubSeq(s, n + 1, Len(s))

Running(c) == phase[c] \in {"open", "closing", "last", "settling"}
Over(c) == phase[c] \in {"ended", "killed"}

\* Every number a command has issued.
Issued(c) == base[c] + 1 .. seqno[c]

-----------------------------------------------------------------------------
(* Attach *)

\* Commands that hold the environment's lock exclude each other.
MayStart(c) ==
  /\ phase[c] = "new"
  /\ c \in Locked => \A d \in Locked : ~Running(d)

\* What both outcomes of Reserve have in common: bus.ResumeSequence(from).
Resume(c, from) ==
  /\ phase' = [phase EXCEPT ![c] = "open"]
  /\ base' = [base EXCEPT ![c] = from]
  /\ seqno' = [seqno EXCEPT ![c] = from]
  /\ behind' = IF \E d \in Cmd : Over(d) /\ \E n \in Issued(d) : from < n
               THEN behind \cup {c} ELSE behind
  /\ overlapped' = (overlapped \/ \E d \in Cmd : Running(d))

\* Bug: the block is not written before the first number is issued.
ReserveUnwritten(c) ==
  /\ Resume(c, meta)
  /\ durable' = [durable EXCEPT ![c] = TRUE]
  /\ UNCHANGED <<meta, fellBack>>

\* Reserve reads the counter and writes the ceiling in one transaction.
Reserve(c) ==
  /\ Resume(c, meta)
  /\ meta' = meta + BlockSize
  /\ durable' = [durable EXCEPT ![c] = TRUE]
  /\ UNCHANGED fellBack

\* The last number in the local log, which every event goes to as well.
LastSequence ==
  LET logged == {0} \cup UNION {Issued(d) : d \in Cmd} IN
  CHOOSE n \in logged : \A m \in logged : m <= n

\* Reserve failed: numbers go on from the last one the local log holds, and
\* nothing is settled at the end.
ReserveFailed(c) ==
  /\ c \in Unreadable
  /\ Resume(c, LastSequence)
  /\ fellBack' = TRUE
  /\ UNCHANGED <<meta, durable>>

\* Names some running goroutine has claimed.
Held == {flush[f].name : f \in {g \in Flusher :
           flush[g].pc \in {"read", "send", "ack", "unack", "discard"}}}

\* recoverStaleClaims renames every claimed batch back and removes the locks
\* it takes for old; highestCounter then reads the directory.
SpoolOpened(c) ==
  /\ \E stale \in SUBSET {f \in files : f.locked} :
       files' = {[f EXCEPT !.claimed = FALSE,
                           !.locked = f.locked /\ f \notin stale] : f \in files}
  /\ ctr' = [ctr EXCEPT ![c] = CHOOSE n \in {0} \cup {f.name[1] : f \in files} :
                                 \A f \in files : f.name[1] <= n]
  /\ overflow' = [overflow EXCEPT ![c] = TRUE]
  /\ released' = released \cup {f.name : f \in {g \in files : g.claimed /\ g.name \in Held}}

SpoolUnavailable(c) ==
  /\ c \in Spoolless
  /\ UNCHANGED <<files, ctr, overflow, released>>

Attach(c) ==
  /\ MayStart(c)
  /\ Reserve(c) \/ ReserveFailed(c)
  /\ SpoolOpened(c) \/ SpoolUnavailable(c)
  /\ UNCHANGED <<pending, spilling, flush, trim, fateVars>>

-----------------------------------------------------------------------------
(* The spool *)

Unclaimed(F) == {f \in F : ~f.claimed}
UnclaimedAs(n) == {f \in Unclaimed(files) : f.name = n}
Names(F) == {f.name : f \in F}

\* The first name in order: they sort by counter, ties by a random tag.
Foremost(n, names) == n \in names /\ \A m \in names : n[1] <= m[1]

\* enforceBudget's loop: it ends when the total fits, or when every listed
\* batch was visited.
NextItem(list, total) ==
  IF list # {} /\ Cardinality(total) > MaxFiles
  THEN [NoTrim EXCEPT !.pc = "count", !.list = list, !.total = total]
  ELSE NoTrim

(* Put redacts the lines, renames the batch into place under the next name *)
(* and lists the directory for enforceBudget.                              *)
Put(g, batch) ==
  LET c == g[1]
      there == Names(Unclaimed(files')) IN
  /\ ctr' = [ctr EXCEPT ![c] = @ + 1]
  /\ files' = files \cup {[name |-> <<ctr[c] + 1, c>>, batch |-> batch,
                           claimed |-> FALSE, locked |-> FALSE]}
  /\ trim' = [trim EXCEPT ![g] = NextItem(there, there)]
  /\ UNCHANGED counted

\* Put fails and the caller counts the batch.
PutFails(g, batch) ==
  /\ ctr' = [ctr EXCEPT ![g[1]] = @ + 1]
  /\ counted' = counted \cup Events(batch)
  /\ UNCHANGED <<files, trim>>

-----------------------------------------------------------------------------
(* enforceBudget, at the end of every Put *)

keepAllButTrim == <<phase, seqVars, seqno, overflow, ctr, pending, spilling, flush,
                    received, died, released>>

Trimming(g, pc) == trim[g].pc = pc

\* These events leave the spool; no counter stands for those among them that
\* are not accounted for by now.
Forget(events) == uncounted' = uncounted \cup (events \ (received \cup counted \cup died))

\* countLines found these lines in the batch to be removed next.
Counted(g, n, lines) ==
  trim' = [trim EXCEPT ![g] = [pc |-> "remove", list |-> trim[g].list \ {n},
                               total |-> trim[g].total, name |-> n, lines |-> lines]]

(* countLines reads the oldest batch not visited yet.                      *)
TrimCounts(g) ==
  \E n \in trim[g].list, f \in files :
    /\ Trimming(g, "count")
    /\ Foremost(n, trim[g].list)
    /\ f \in UnclaimedAs(n)
    /\ Counted(g, n, Events(f.batch))
    /\ UNCHANGED <<keepAllButTrim, files, counted, uncounted>>

(* countLines finds no file, because somebody has claimed or removed it,   *)
(* or cannot open it: it counts none.                                      *)
TrimCannotCount(g) ==
  \E n \in trim[g].list :
    /\ Trimming(g, "count")
    /\ Foremost(n, trim[g].list)
    /\ Counted(g, n, {})
    /\ UNCHANGED <<keepAllButTrim, files, counted, uncounted>>

(* The batch is removed and the lines counted before are dropped.  One     *)
(* that was claimed at the count and has been put back goes uncounted.     *)
TrimRemoves(g) ==
  \E f \in UnclaimedAs(trim[g].name) :
    /\ Trimming(g, "remove")
    /\ files' = files \ {f}
    /\ counted' = counted \cup trim[g].lines
    /\ Forget(Events(f.batch) \ trim[g].lines)
    /\ trim' = [trim EXCEPT ![g] = NextItem(trim[g].list, trim[g].total \ {trim[g].name})]
    /\ UNCHANGED keepAllButTrim

(* The batch is not there: the total stays and the next one is visited.    *)
TrimSkips(g) ==
  /\ Trimming(g, "remove")
  /\ UnclaimedAs(trim[g].name) = {}
  /\ trim' = [trim EXCEPT ![g] = NextItem(trim[g].list, trim[g].total)]
  /\ UNCHANGED <<keepAllButTrim, files, counted, uncounted>>

EnforceBudget(g) == TrimCounts(g) \/ TrimCannotCount(g) \/ TrimRemoves(g) \/ TrimSkips(g)

-----------------------------------------------------------------------------
(* Emit and Deliver *)

DeliverReturned(c) == spilling[c] = <<>> /\ Trimming(<<c, Deliverer>>, "idle")

(* An event is numbered and reaches Sink.Deliver.  A full buffer gives its *)
(* oldest batch to the spool, or drops its oldest event and counts it.     *)
Emit(c) ==
  LET full == Len(pending[c]) >= Capacity
      event == [num |-> seqno[c] + 1, by |-> c] IN
  /\ phase[c] = "open"
  /\ DeliverReturned(c)
  /\ seqno[c] < base[c] + MaxEmit[c]
  /\ seqno' = [seqno EXCEPT ![c] = @ + 1]
  /\ \/ /\ ~full
        /\ pending' = [pending EXCEPT ![c] = Append(@, event)]
        /\ UNCHANGED <<spilling, counted>>
     \/ /\ full /\ overflow[c]
        /\ spilling' = [spilling EXCEPT ![c] = First(pending[c], BatchSize)]
        /\ pending' = [pending EXCEPT ![c] = Append(Rest(@, BatchSize), event)]
        /\ UNCHANGED counted
     \/ /\ full /\ ~overflow[c]
        /\ pending' = [pending EXCEPT ![c] = Append(Tail(@), event)]
        /\ counted' = counted \cup {Head(pending[c])}
        /\ UNCHANGED spilling
  /\ UNCHANGED <<phase, seqVars, overflow, putVars, flush, files, received, died, uncounted,
                 released>>

(* Deliver's spill, with no lock held.                                     *)
Spill(c) ==
  /\ Running(c)
  /\ spilling[c] # <<>>
  /\ Put(<<c, Deliverer>>, spilling[c]) \/ PutFails(<<c, Deliverer>>, spilling[c])
  /\ spilling' = [spilling EXCEPT ![c] = <<>>]
  /\ UNCHANGED <<phase, seqVars, seqno, overflow, pending, flush, received, died, uncounted,
                 released>>

-----------------------------------------------------------------------------
(* Flush *)

At(f, pc) == flush[f].pc = pc
Goto(f, pc) == flush' = [flush EXCEPT ![f].pc = pc]
FlushOver(f) == flush' = [flush EXCEPT ![f] = NoFlush]

keepAllButFlush == <<phase, seqVars, seqno, overflow, pending, spilling, released>>

FlushReturned(f) == At(f, "idle") /\ Trimming(f, "idle")

(* Flush drains the spool first, when there is one.  A throttled sink      *)
(* returns at once, which is no step.                                      *)
Begin(f) ==
  flush' = [flush EXCEPT ![f] =
              [NoFlush EXCEPT !.pc = IF overflow[f[1]] THEN "list" ELSE "take",
                              !.left = MaxBatches]]

FlushBegins(f) ==
  /\ FlushReturned(f)
  /\ phase[f[1]] = "open"
  /\ Begin(f)
  /\ UNCHANGED <<keepAllButFlush, putVars, files, fateVars>>

(* Take lists the unclaimed batches.                                       *)
TakeLists(f) ==
  /\ At(f, "list")
  /\ flush' = [flush EXCEPT ![f].list = Names(Unclaimed(files)),
                            ![f].pc = "claim"]
  /\ UNCHANGED <<keepAllButFlush, putVars, files, fateVars>>

Claimable(g, n) == g.name = n /\ ~g.claimed /\ ~g.locked

\* Bug: the batch is read and sent without being claimed.
TakeClaimsNothing(f) ==
  \E n \in flush[f].list, g \in files :
    /\ At(f, "claim")
    /\ Foremost(n, flush[f].list)
    /\ Claimable(g, n)
    /\ flush' = [flush EXCEPT ![f] =
                   [flush[f] EXCEPT !.list = flush[f].list \ {n}, !.name = n,
                                    !.batch = g.batch, !.pc = "send"]]
    /\ UNCHANGED <<keepAllButFlush, putVars, files, fateVars>>

(* The lock is made, the batch renamed and the lock removed.               *)
TakeClaims(f) ==
  \E n \in flush[f].list, g \in files :
    /\ At(f, "claim")
    /\ Foremost(n, flush[f].list)
    /\ Claimable(g, n)
    /\ files' = (files \ {g}) \cup {[g EXCEPT !.claimed = TRUE]}
    /\ flush' = [flush EXCEPT ![f] =
                   [flush[f] EXCEPT !.list = flush[f].list \ {n}, !.name = n,
                                    !.batch = g.batch, !.pc = "read"]]
    /\ UNCHANGED <<keepAllButFlush, putVars, fateVars>>

(* Somebody else holds the lock, or has claimed or removed the batch.      *)
TakeSkips(f) ==
  \E n \in flush[f].list :
    /\ At(f, "claim")
    /\ Foremost(n, flush[f].list)
    /\ ~\E g \in files : Claimable(g, n)
    /\ flush' = [flush EXCEPT ![f].list = @ \ {n}]
    /\ UNCHANGED <<keepAllButFlush, putVars, files, fateVars>>

(* Nothing is left to claim: the spool is done with.                       *)
TakeFindsNone(f) ==
  /\ At(f, "claim")
  /\ flush[f].list = {}
  /\ Goto(f, "take")
  /\ UNCHANGED <<keepAllButFlush, putVars, files, fateVars>>

ClaimedAs(n) == {g \in files : g.name = n /\ g.claimed}

\* readBatch returns what parses of a batch and counts nothing of the rest.
Parsed(batch) == Events(batch) \ Garbled

TakeReads(f) ==
  /\ At(f, "read")
  /\ ClaimedAs(flush[f].name) # {}
  /\ Parsed(flush[f].batch) # {}
  /\ Goto(f, "send")
  /\ UNCHANGED <<keepAllButFlush, putVars, files, fateVars>>

(* No line parses: the file is to be removed, and nothing is counted.      *)
TakeReadsNothing(f) ==
  /\ At(f, "read")
  /\ ClaimedAs(flush[f].name) # {}
  /\ Parsed(flush[f].batch) = {}
  /\ Goto(f, "discard")
  /\ UNCHANGED <<keepAllButFlush, putVars, files, fateVars>>

(* readBatch fails: the file is unreadable, or is not there because a new  *)
(* spool has put it back.  One drop is counted, however many events it has.*)
TakeCannotRead(f) ==
  \E e \in Events(flush[f].batch) :
    /\ At(f, "read")
    /\ counted' = counted \cup {e}
    /\ Goto(f, "discard")
    /\ UNCHANGED <<keepAllButFlush, putVars, files, received, died, uncounted>>

(* Whatever is claimed under the name by now is removed.                   *)
TakeDiscards(f) ==
  /\ At(f, "discard")
  /\ files' = files \ ClaimedAs(flush[f].name)
  /\ Forget(UNION {Events(g.batch) : g \in ClaimedAs(flush[f].name)})
  /\ flush' = [flush EXCEPT ![f] = [flush[f] EXCEPT !.name = NoName, !.batch = <<>>,
                                                    !.pc = "claim"]]
  /\ UNCHANGED <<keepAllButFlush, putVars, received, counted, died>>

SendSpooled(f) ==
  /\ At(f, "send")
  /\ received' = received \cup Parsed(flush[f].batch)
  /\ Goto(f, "ack")
  /\ UNCHANGED <<keepAllButFlush, putVars, files, counted, died, uncounted>>

SendSpooledFails(f) ==
  /\ At(f, "send")
  /\ Goto(f, "unack")
  /\ UNCHANGED <<keepAllButFlush, putVars, files, fateVars>>

(* ack(nil) removes the batch, with the lines that did not parse;          *)
(* drainOverflow goes on up to its bound.                                  *)
Ack(f) ==
  /\ At(f, "ack")
  /\ files' = files \ ClaimedAs(flush[f].name)
  /\ Forget(Garbled \cap UNION {Events(g.batch) : g \in ClaimedAs(flush[f].name)})
  /\ flush' = [flush EXCEPT ![f] =
                 [NoFlush EXCEPT !.left = flush[f].left - 1,
                                 !.pc = IF flush[f].left = 1 THEN "take" ELSE "list"]]
  /\ UNCHANGED <<keepAllButFlush, putVars, received, counted, died>>

\* Bug: the batch is removed whether or not it was sent.
UnackRemoves(f) ==
  /\ At(f, "unack")
  /\ files' = files \ ClaimedAs(flush[f].name)
  /\ FlushOver(f)
  /\ UNCHANGED <<keepAllButFlush, putVars, fateVars>>

\* Bug: the batch stays claimed.
UnackForgets(f) ==
  /\ At(f, "unack")
  /\ FlushOver(f)
  /\ UNCHANGED <<keepAllButFlush, putVars, files, fateVars>>

(* ack(err) renames the batch back and Flush returns the error.            *)
Unack(f) ==
  /\ At(f, "unack")
  /\ files' = {IF g \in ClaimedAs(flush[f].name) THEN [g EXCEPT !.claimed = FALSE]
               ELSE g : g \in files}
  /\ FlushOver(f)
  /\ UNCHANGED <<keepAllButFlush, putVars, fateVars>>

(* Flush takes the oldest batch out of the buffer, or returns.             *)
TakePending(f) ==
  LET c == f[1] IN
  /\ At(f, "take")
  /\ pending[c] # <<>>
  /\ flush' = [flush EXCEPT ![f] = [NoFlush EXCEPT !.pc = "sendPending",
                                      !.batch = First(pending[c], BatchSize)]]
  /\ pending' = [pending EXCEPT ![c] = Rest(@, BatchSize)]
  /\ UNCHANGED <<phase, seqVars, seqno, overflow, spilling, putVars, files, fateVars, released>>

FlushReturns(f) ==
  /\ At(f, "take")
  /\ pending[f[1]] = <<>>
  /\ FlushOver(f)
  /\ UNCHANGED <<keepAllButFlush, putVars, files, fateVars>>

SendPending(f) ==
  /\ At(f, "sendPending")
  /\ received' = received \cup Events(flush[f].batch)
  /\ flush' = [flush EXCEPT ![f] = [NoFlush EXCEPT !.pc = "take"]]
  /\ UNCHANGED <<keepAllButFlush, putVars, files, counted, died, uncounted>>

\* Bug: what is put back is not held against the capacity.
PutBackUnbounded(batch, held) == [kept |-> batch \o held, gone |-> <<>>]

\* Over a sink without a spool, a batch put back may not fit: the oldest go.
PutBack(batch, held) ==
  LET all == batch \o held
      over == Len(all) - Capacity IN
  [kept |-> IF over > 0 THEN Rest(all, over) ELSE all,
   gone |-> IF over > 0 THEN First(all, over) ELSE <<>>]

(* A batch that could not be sent goes to the spool, or back to the front  *)
(* of the buffer when there is none.                                       *)
SendPendingFails(f) ==
  LET c == f[1]
      back == PutBack(flush[f].batch, pending[c]) IN
  /\ At(f, "sendPending")
  /\ \/ overflow[c] /\ Goto(f, "put") /\ UNCHANGED <<pending, counted>>
     \/ /\ ~overflow[c]
        /\ pending' = [pending EXCEPT ![c] = back.kept]
        /\ counted' = counted \cup Events(back.gone)
        /\ FlushOver(f)
  /\ UNCHANGED <<phase, seqVars, seqno, overflow, spilling, putVars, files, received, died,
                 uncounted, released>>

(* The spill of a failed batch; Flush returns once the budget is enforced. *)
FlushSpills(f) ==
  /\ At(f, "put")
  /\ Put(f, flush[f].batch) \/ PutFails(f, flush[f].batch)
  /\ FlushOver(f)
  /\ UNCHANGED <<keepAllButFlush, received, died, uncounted>>

-----------------------------------------------------------------------------
(* Close and the end of a command *)

\* bus.Close has drained the queues into the sink: nothing is emitted now.
CloseBegins(c) ==
  /\ phase[c] = "open"
  /\ DeliverReturned(c)
  /\ phase' = [phase EXCEPT ![c] = "closing"]
  /\ UNCHANGED <<seqVars, seqno, overflow, putVars, pending, spilling, flush, files, fateVars, released>>

\* The flusher has stopped; Close makes its last Flush.
LastFlush(c) ==
  /\ phase[c] = "closing"
  /\ \A t \in Thread : FlushReturned(<<c, t>>)
  /\ phase' = [phase EXCEPT ![c] = "last"]
  /\ Begin(<<c, Closer>>)
  /\ UNCHANGED <<seqVars, seqno, overflow, putVars, pending, spilling, files, fateVars, released>>

\* What is still held goes to the spool, or is counted when there is none.
CloseSpills(c) ==
  /\ phase[c] = "last"
  /\ FlushReturned(<<c, Closer>>)
  /\ \/ pending[c] = <<>> /\ UNCHANGED <<files, putVars, counted>>
     \/ /\ pending[c] # <<>> /\ overflow[c]
        /\ Put(<<c, Closer>>, pending[c]) \/ PutFails(<<c, Closer>>, pending[c])
     \/ /\ pending[c] # <<>> /\ ~overflow[c]
        /\ counted' = counted \cup Events(pending[c])
        /\ UNCHANGED <<files, putVars>>
  /\ pending' = [pending EXCEPT ![c] = <<>>]
  /\ phase' = [phase EXCEPT ![c] = "settling"]
  /\ UNCHANGED <<seqVars, seqno, overflow, spilling, flush, received, died, uncounted, released>>

\* Settle writes the number reached, unconditionally, or fails and leaves the
\* ceiling; a command that fell back, or issued nothing at all, writes nothing.
Settle(c) ==
  /\ phase[c] = "settling"
  /\ FlushReturned(<<c, Closer>>)
  /\ \/ durable[c] /\ seqno[c] # 0 /\ meta' = seqno[c]
     \/ UNCHANGED meta
  /\ phase' = [phase EXCEPT ![c] = "ended"]
  /\ UNCHANGED <<base, durable, behind, overlapped, fellBack, seqno, overflow, putVars, pending,
                 spilling, flush, files, fateVars, released>>

\* Events a command holds in memory and nowhere else.
InMemory(c) ==
  UNION ({Events(pending[c]), Events(spilling[c])} \cup
         {Events(flush[<<c, t>>].batch) :
            t \in {u \in Thread : flush[<<c, u>>].pc \in {"sendPending", "put"}}})

(* The process is killed.  Batches it claimed stay claimed, and a lock it  *)
(* was about to remove stays.                                              *)
Kill(c) ==
  LET claiming == {f \in files : \E t \in Thread :
                     /\ At(<<c, t>>, "claim")
                     /\ Foremost(f.name, flush[<<c, t>>].list)
                     /\ Claimable(f, f.name)} IN
  /\ Running(c)
  /\ phase' = [phase EXCEPT ![c] = "killed"]
  /\ \E left \in SUBSET claiming :
       files' = {[f EXCEPT !.locked = @ \/ f \in left] : f \in files}
  /\ died' = died \cup (InMemory(c) \ received)
  /\ pending' = [pending EXCEPT ![c] = <<>>]
  /\ spilling' = [spilling EXCEPT ![c] = <<>>]
  /\ flush' = [f \in Flusher |-> IF f[1] = c THEN NoFlush ELSE flush[f]]
  /\ trim' = [g \in Goroutine |-> IF g[1] = c THEN NoTrim ELSE trim[g]]
  /\ UNCHANGED <<seqVars, seqno, overflow, ctr, received, counted, uncounted, released>>

-----------------------------------------------------------------------------
Take(f) ==
  \/ TakeLists(f) \/ TakeClaims(f) \/ TakeSkips(f) \/ TakeFindsNone(f)
  \/ TakeReads(f) \/ TakeReadsNothing(f) \/ TakeCannotRead(f) \/ TakeDiscards(f)

Drain(f) == SendSpooled(f) \/ SendSpooledFails(f) \/ Ack(f) \/ Unack(f)

Flush(f) ==
  \/ Take(f) \/ Drain(f)
  \/ TakePending(f) \/ FlushReturns(f)
  \/ SendPending(f) \/ SendPendingFails(f) \/ FlushSpills(f)

Close(c) == LastFlush(c) \/ CloseSpills(c) \/ Settle(c)

Next ==
  \/ \E c \in Cmd : \/ Attach(c) \/ Emit(c) \/ Spill(c)
                    \/ CloseBegins(c) \/ Close(c) \/ Kill(c)
  \/ \E f \in Flusher : FlushBegins(f) \/ Flush(f)
  \/ \E g \in Goroutine : EnforceBudget(g)

Spec == Init /\ [][Next]_vars

\* What a goroutine does by itself.
Flushing(f) == FlushBegins(f) \/ Flush(f) \/ EnforceBudget(f)
Delivering(c) == Spill(c) \/ EnforceBudget(<<c, Deliverer>>)

(***************************************************************************)
(* The ticker flushes again and again, a Flush, a spill or a Close under   *)
(* way goes on, and a request that is tried again and again is answered in *)
(* the end.  Nothing obliges a command to start, to emit or to close.      *)
(***************************************************************************)
FairSpec ==
  /\ Spec
  /\ \A f \in Flusher : WF_vars(Flushing(f)) /\ SF_vars(SendSpooled(f) \/ SendPending(f))
  /\ \A c \in Cmd : WF_vars(Delivering(c) \/ Close(c))

-----------------------------------------------------------------------------
(* Properties *)

\* Where an event can be between Emit and the control plane.
Somewhere ==
  UNION ({Events(f.batch) : f \in files} \cup {InMemory(c) : c \in Cmd})

Account ==
  INSTANCE Outbox WITH
    owed <- Somewhere \ (received \cup counted \cup died \cup uncounted),
    received <- received,
    writtenOff <- counted \cup died,
    lost <- uncounted

\* Sink and spool implement the outbox, through full buffers, spills, claims,
\* crossed drains of several commands, the budget, failed writes and kills: an
\* event goes unaccounted for only in a batch that leaves the spool, as a line
\* that does not parse (readBatch skips it), with the rest of a batch that
\* cannot be read (one drop for all), or when the budget could not count it.
ImplementsOutbox == Account!Spec

\* A batch is in the hands of two goroutines only if a command opened the
\* spool while the first of them was sending it.
ClaimIsExclusive ==
  \A f, g \in Flusher :
    /\ f # g
    /\ flush[f].pc \in {"send", "ack"} /\ flush[g].pc \in {"send", "ack"}
    /\ flush[f].name = flush[g].name
    => flush[f].name \in released

\* A command continues above every number a finished command used, even a
\* killed one, unless commands overlapped or the counter could not be read.
NumbersRiseUnlessOverlapped == behind # {} => overlapped \/ fellBack

\* sequence.go: the reserver "keeps an environment's event sequence monotonic
\* across the processes that make it up".
NumbersRise == behind = {}

\* Events still owed that a drain can get at: not in a batch claimed or locked
\* by a command that is gone.
Stranded(f) ==
  /\ f.locked \/ (f.claimed /\ f.name \notin Held)
  /\ \E c \in Cmd : phase[c] = "killed"

Backlog ==
  (UNION ({Events(f.batch) : f \in {g \in files : ~Stranded(g)}}
          \cup {InMemory(c) : c \in Cmd}))
  \ (received \cup counted \cup died \cup uncounted)

\* The backlog drains again and again while a command with a spool is open:
\* what waits in the spool or in a buffer is not starved by failed requests,
\* by the bound on a drain or by other commands' claims.
BacklogDrains ==
  []<>(Backlog = {} \/ ~\E c \in Cmd : phase[c] = "open" /\ overflow[c])

=============================================================================

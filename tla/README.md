# A TLA+ development of the Antifailure engine

Antifailure brings up a throw-away copy of a project's environment (database
branch, datastores, networks, services) for a branch of its code, tests it and
takes it away again. The engine (`engine/`, Go) is a command line program: every
command is a process of its own, several may run at once on one machine, any of
them may be killed, and what they share lies in lock files, a SQLite database, a
Docker daemon and hosted database providers. What makes such a program correct
is what happens *between* those processes, and that is what is modelled here.

## 1. Inventory

| Part | State it keeps | Operations | What is hard about it |
|---|---|---|---|
| Branch lock `lock/lock.go` | one lock file per environment, holding pid, host, command, time | `Acquire`, `AcquireWithin`, `Release`, `Holder`, `Alive` | check-then-remove over a file system; holders that die; half written files; other hosts |
| Resource journal `journal/journal.go` | table `journal`: one row per create (intent, committed, compensated, failed) | `Intent`, `Commit`, `Compensated`, `Failed`, `Pending`, `Replay` | a crash between any two calls; retries; partial failure |
| Up and down `env/env.go`, `env/datastores.go`, `env/reconcile.go` | the session, `Teardown.Pending` | `Up`, `branchFrom`, `datastoreGolden`, `Down`, `teardown`, `reconcile` | order of creates and deletes; a manifest that changed since; cancellation |
| Local runtime `runtime/local` | containers and networks with labels | `Up`, `ensureNetworks`, `startService`, `Down`, `Inventory` | reuse of what stands; a sweep that fails half way |
| Database providers `db/*` | branches, by name or by reference | `Branch`, `Destroy` | late failures, references lost in a crash |
| Leases `lease/lease.go` | table `env_leases` | `Extend`, `Drop`, `Expiries` | a bound that must survive many extensions |
| Reaper `reaper/reaper.go`, `env/reap.go` | none; an inventory snapshot | `Plan`, `Sweep`, `Reap`, `Extend` | acts on a snapshot beside running commands; irreversible |
| Test runs `env/test.go`, `env/reporting.go` | none that is locked | `Test`, `openReporting` | drives an environment without holding its lock |
| Event bus `events/bus.go` | a counter per environment, a bounded queue and a goroutine per sink | `AddSink`, `ResumeSequence`, `Emit`, `Settle`, `Close` | sends after the unlock, overflow, sinks that panic |
| Durable sequence `telemetry/sequence.go`, `telemetry.go` | one meta row per environment | `Reserve`, `Settle`, the fallback to the log | numbers used twice, processes that overlap or die |
| Control plane sink `controlplane/sink.go` | bounded buffer, a flusher | `Deliver`, `Flush`, `drainOverflow`, `Close` | loss, duplication, requests that fail |
| Spool `telemetry/spool.go` | a directory of batches shared by every command | `NewSpool`, `Put`, `Take`, `ack`, `recoverStaleClaims` | claims of live and of dead processes, a budget |
| MCP server `mcp/runs.go`, `engine.go`, `serve.go` | table `mcp_runs`, a goroutine per run | `Submit`, `Start`, `Finish`, `Fail`, `MarkCancelled`, `RequestCancel`, `recoverInterrupted`, `Serve` | two servers on one table; cancel racing the end; failing writes |
| State database `state/state.go` | the SQLite file | `Open`, `Tx`, rebuild | corruption forgets journal and leases |
| Scheduler, golden schedule | none | `Plan`; `Next`, `Due` | pure, with edge cases |
| Rolling check, Kubernetes runtime | further environments and objects | `rollingDown`; `Up`, `Down` | records nobody replays |

How they interact: a command takes the branch lock (`openLocking`), opens the
state database, and then creates or removes resources; `Up` hands the runtime a
callback that journals each create; `Down` and the reaper share `teardown`,
whose last act is to replay the journal; the reaper reads the daemon's inventory
and the leases, and takes each environment's lock before it removes it. Every
command attaches a bus to the durable sequence and, when a control plane is
configured, a sink to the bus; the sinks of all commands share one spool. An MCP
server runs experiments, each of which is a command, and records them.

What correctness means, part by part: at most one process works on an
environment; a dead process does not keep it locked; nothing exists that the
journal has forgotten; a command that says "clean" is right; repeated `af down`
gets there; a sweep takes only what is overdue by its own statement and never
what somebody is using; extensions are bounded; an event that was accepted
arrives or is accounted for, in order and under a number of its own; a
rehearsal submitted once runs once and keeps its verdict; whoever waits for a
sink, a run or a server gets an answer.

`PROJECT.json` lists every part with its status and, under `hazards`, every
place where the above can go wrong and a test would hardly see it.

## 2. Modules

| Module | Models | Extended by |
|---|---|---|
| `BranchLock` | the lock file, one step per file system call | `MCBranchLock`, `BranchLockProofs` |
| `EnvJournal` | one environment's ups and downs over its journal, providers and runtime | `MCEnvJournal`, `EnvJournalProofs` |
| `EnvLifetime` | environments on one machine: labels, leases, commands, tests, sweeps | `MCEnvLifetime`, `EnvLifetimeProofs` |
| `EventBus` | the bus of one process, one step per access to something shared | `MCEventBus`, `EventBusProofs` |
| `Outbox` | abstract: an accepted event is owed until it arrived or was written off | instantiated by `EventDelivery` |
| `EventDelivery` | the commands of one environment: numbers, sink, spool, control plane | `MCEventDelivery`, `EventDeliveryProofs` |
| `RunLedger` | abstract: one run per key, and a verdict that stays | instantiated by `McpRuns` |
| `McpRuns` | MCP servers on one run table, with a goroutine per run | `MCMcpRuns`, `McpRunsProofs` |

How they compose. `EnvJournal` assumes one session at a time, `EnvLifetime` one
command per environment and checkout, and `EventDelivery` that the commands in
`Locked` exclude each other. `BranchLock` shows under which condition the lock
file provides that. A teardown is one step of `EnvLifetime` that may leave
anything; what it does leave is `EnvJournal`'s subject. In `EventDelivery` the way
of an event from `Emit` to `Sink.Deliver` is one step; that way, with what is
dropped on it, is `EventBus`. `EventDelivery` and `McpRuns` each instantiate the
abstract specification of what they promise and implement it.

### BranchLock

`file` is what the lock path names: nothing, an owner's record, or a file whose
contents were never written. `pc[p]` is where process `p` is in `Acquire` or
`Release`; `at`, `reclaims` and `looks` are the locals of the source. Each
action is one system call with the decision taken on its result: `PublishLink`
and `PublishDirect` are the two ways of `publish`, `ReadGone`, `ReadRefused` and
`ReadStale` the three outcomes of looking at the holder, `Reclaim` the
`os.Remove` that follows, `ReleaseRead` and `ReleaseRemove` the two halves of
`Release`. A restarted engine is another process, so `Proc` counts processes
over time. A read of the file may be refused although the file is whole
(`ReadFails`, `ReleaseUnread`), which `Acquire` takes for a torn file, and the pid
of a dead holder may come back under another program (`Recycle`), which makes it
look alive. Two history variables: `overlapped` (two processes were once both
between finding a lock stale and removing it) and `misread` (a refused read sent
a process to remove a lock that was not stale).

Abstracted: the waiting times of `AcquireWithin` and of the settle loop (a
refused process may begin again; `MaxLooks` stands for the deadline); the
Windows build, where removal can be transiently refused.

### EnvJournal

`journal` is the table, a row's id being its position. `exists[r]` is the
provider's reference of a standing resource, 0 when there is none; references
are never used twice. Resources are named by the key their records carry: a
database branch by its provider, so that a manifest that moves from one provider
to another (`SelectProvider`) is in the model. `RefOnly` are the providers whose
`Destroy` does nothing without the recorded reference (Neon, Supabase, Xata).
`server` is the local ClickHouse or MySQL container the stores live on.

`Up` is the loop *record intent, create, commit* in the source's order
(database, stores, networks, containers); every create may succeed, fail before
or after having made the resource (`UpStops`, `CreateFailsLate`), or return the
reference although it failed (`CommitPartial`); the runtime's creates are never
committed, as in the source; a standing network is used without a record
(`ReuseNetwork`). `Down` is `Sweep`, `DestroyBranch`, `DestroyStores`, then the
registry of deleters and the replay, record by record, newest first, with the
delete and the update of its record as two steps. `Crash` may come between any
two. Builds, secrets, personas and telemetry inside `Up` appear only as reasons
for it to stop.

The world does not stand still: `RemovedByHand` takes a container, an unused
network, or the stores' server with all it holds, at any moment; and a command
that begins may find the state database corrupt, in which case `OpenState`
replaces it by an empty one. `lost` is a history variable: the references of
what stood when that happened. `outcome` is how the last `af down` of the present
manifest ended.

### EnvLifetime

`things[e]` are the resources the daemon holds for environment `e`, each with
its creation time and stated expiry (0: none stated). `cmd[r][e]` is the locked
command checkout `r` runs on `e`; `tests` are environments `af test` drives,
which takes no lock while it does. `leases[r]` is the checkout's table, and
`spc`, `inv`, `plan`, `cur` the process holding its reaper lock, which is either
an extension or a sweep. The sweep is `ReadInventory`, `PlanSweep`, then per
environment `Destroy` (take the lock or defer), `Teardown`, `DropLease`, so that
everything else can happen between the inventory and the destruction. A teardown
removes any subset of what stands; how it does so is `EnvJournal`'s subject.
`life`, `began` and `torn` are history variables, and a lease carries the life
it was first taken out in; no action's guard depends on them, except that
`MaxLives` bounds the number of lives.

### EventBus

The bus of one process as one environment sees it. `emit[e]` is an emitter inside
`Emit`: numbered under the mutex (`Emit`), then at each sink of the list it read
either sending (`Send`, followed by `Count`, because the queue and its counter are
two accesses) or dropping (`Drop`). `run`, `hand` and `queue` are a sink's
goroutine, the event it has taken and its channel; `Deliver`, `DeliverFails` and
`DeliverPanics` are what the sink may do. `settle` and `close` are the callers of
`Settle` and `Close`, at the sink they have come to. A send on a closed channel
panics the emitter (`SendOnClosed`). History variables: `got`, `offered`, `owed`,
`exact`, `racing`.

Abstracted: events carry their number and their emitter; the log records and the
other environments, which have counters of their own and share the queues; one
`Settle` at a time; `Settle`'s polling interval.

### EventDelivery and Outbox

`Cmd` are processes, each of which attaches, emits, closes and ends, or is
killed. `meta` is the stored counter; `Reserve` reads it and writes the ceiling in
one transaction, `ReserveFailed` is the fallback to the local log, `Settle` the
unconditional write at the end. `pending` is the sink's buffer, `spilling` the
batch `Deliver` writes after it let go of the mutex, `flush[<<c, t>>]` goroutine
`t` of command `c` inside `Flush`, at the listing, the claim, the read, the request
or the acknowledgement. `files` is the spool directory; a batch's name is the
counter and the writer, and a batch may be claimed (renamed) or locked.
`SpoolOpened` includes `recoverStaleClaims`, which cannot tell a live claim from a
dead one. The control plane is external: it takes a batch or not, and knows an
event again.

`Put` ends in `enforceBudget`, whose loop is `trim[g]`, for the goroutine that
delivers (`Deliverer`) as for those that flush: it visits the batches it listed,
oldest first, counts the lines of one in one step and removes it in the next,
and goes on until its total fits or the list is used up. Drains of any command
run in between. A batch that is claimed at the count has no lines
(`TrimCannotCount`); put back before the remove, it goes uncounted.

`Put` also redacts the marshalled lines, and redaction cuts long ones and may
replace text across quotes. What matters of it is which events leave a line
that does not parse, the constant `Garbled`. `readBatch` skips such a line:
`SendSpooled` sends `Parsed(batch)`, `Ack` removes the line with the batch, and a
batch none of whose lines parse is removed at once (`TakeReadsNothing`). A batch
that cannot be read at all adds one to the drop count, so `TakeCannotRead` counts
one of its events and the others go with the file.

`Outbox` says what the two promise: events move from *owed* to *received*, to
*written off* (counted as dropped, or lost with a killed process) or to *lost*,
and nowhere else; only what is owed can be lost. The mapping takes `owed` from
wherever an event can be. `lost` is the exception to the promise that every
event is accounted for, and `uncounted` collects it: the lines that do not parse,
the rest of an unreadable batch, and the batches the budget could not count.
Everything else that could make an event disappear is excluded by
`ImplementsOutbox`.

Abstracted: the budget counts batches rather than bytes; throttling is a flush
that takes no step; the rename of `Put` with the listing of `enforceBudget`, and
the recovery of a new spool, are one step each; the log holds every number. Left
out: errors of listing and renaming, errors of removing a file that is there, and
an event `json.Marshal` refuses, which `Put` counts.

### McpRuns and RunLedger

`row` is the table, `srv[p]` the server under process id `p` (ids come back, with
another server behind them), `job[r]` the goroutine of a run, `outcome[r]` what its
experiment returned, `cancelling[p]` the run a server has read and is about to
flag. Every statement is a step of its own and may fail, which the code only
logs; a server is killed at any step. `Decide` reads the flag after the
experiment returned, and the write that follows is another step, so that a
cancel can come between. `RunLedger` has runs that are absent, open or concluded;
the mapping reads what `view` shows a caller.

Abstracted: the experiment itself, and canonical arguments as values of `Input`.
`Phase`, `Get` and the listings change nothing a property is about.

## 3. Runs

| Run | Shows | Instance |
|---|---|---|
| `lock_safety` | with hard links, two holders need two overlapping reclaims or a refused read of a lock that was not stale; short of that a live lock is removed by its holder only | 4 processes, 2 hosts, failing reads, recycled pids |
| `lock_stale` | a dead process's lock, half written ones included, goes once somebody of its host looked at it, unless its pid is in use again | 3 processes, no hard links |
| `lock_race` (violation) | two reclaimers of one stale lock both hold it | 3 processes |
| `journal_named` | nothing forgotten, no doubled record, "clean" is clean | 2 providers, network, container, 2 ups, removals by hand, corrupt databases |
| `journal_hosted` | a record with a reference is compensated only when that branch is gone; repeated downs end clean | a reference-only provider, a store and its server, a container, 2 ups, interrupts, removals by hand, corrupt databases |
| `journal_crash` (violation) | a crash before the commit makes a hosted branch an orphan | Neon |
| `lifetime_sweep` | sweeps spare commands and stated lifetimes; extensions are bounded; overdue environments go | 1 environment, 2 lives, 3 instants |
| `lifetime_test` (violation) | a sweep takes an environment from under `af test` | 1 environment |
| `bus` | every event delivered or counted, order and numbers kept, `Settle` a barrier, nothing after `Close`; `Settle` and `Close` return | 2 emitters, 1 sink, queue of 1, 3 numbers |
| `mcp_runs` | the ledger is implemented; verdicts are earned; nobody settles a run somebody works on; runs and servers end | 2 process ids, 2 runs, 1 key, 2 arguments |
| `spool` | the outbox is implemented, with the three ways to lose an event it allows; claims are exclusive up to a new spool; numbers rise; the backlog drains | 2 commands, 2 events, the second garbled, buffer, batch and budget of 1 |
| `sequence_overlap` (violation) | an `af test` that overlaps moves the counter back | 3 commands |

Why the bounds are enough to be interesting. *Lock*: a reclaim race needs a dead
holder, two reclaimers and one more process on the other host, four in all; one
`Acquire` per process suffices since a second call is another process. *Journal*:
two ups and two providers give a second life with records of the first, and a
manifest that changed in between; downs, failures, crashes, removals and
corruptions are not bounded. *Lifetime*: three instants put a resource before, at
and after its expiry, two lives let a lease or an inventory of the first meet the
second. One environment is enough for the safety properties because each speaks
of one environment; the theorems below hold for any number. *Bus*: with a queue
of one, two emitters fill it and overflow it; three numbers, one of which may be
resumed past, let an event wait, one be in hand and one be dropped. One sink,
because sinks share nothing but the order in which `Emit`, `Settle` and `Close` come
to them; the invariants hold with two sinks and two numbers as well. *Runs*: two identifiers, so
that a second run would be there to open for a taken key, and two process ids,
so that a server recovers beside a living one and under an id that came back.
*Spool*: with everything of size one, the second event spills the first, and a
second batch exceeds the budget; one command reports, the other comes to drain.
The second event does not survive redaction, so batches with and without a line
that parses are drained, and the budget meets claimed, removed and put back ones.

Fairness. `BranchLock`: `Acquire` never waits for another process, so a living
process finishes the call it is in; nothing is assumed of releases. `EnvJournal`:
a started command runs on unless it dies, and `af down` is run again and again,
by hand or by schedule. `EnvLifetime`: the sweep is run on a schedule and runs on
once started. `EventuallyClean` and `OverdueGoes` are conditional on what the
engine cannot influence: their `CalmStep` says that from some point on providers
answer and nobody kills or cancels the process. `EventBus`: a runnable goroutine
runs, and a sink's `Deliver` returns; nobody has to emit, settle or close.
`McpRuns`: a run's goroutine runs and its experiment returns, which is what
`Engine.Wait` counts on as well, and a drained server exits; writes may fail for
ever. `EventDelivery`:
the ticker flushes again and again, calls under way go on, those inside
`enforceBudget` among them, and a request tried
for ever is answered at some time (strong fairness, because between two attempts
it is not being made); `BacklogDrains` asks nothing of commands that closed.

Deadlock is checked in the journal and lifetime runs. In the others the system
may stop: every process has used up its one call or is dead, the bus is closed,
every run is over and no server starts, every command has ended.

Every property of a passing run has a mutant in `PROJECT.json`: a definition of
the module written with a plausible bug (`IntentReusesAny` for `Intent`,
`GrantAfresh` for `Grant`, `CloseDoesNotWait` for `CloseWaited`,
`InterruptedAnyOwner` for `Interrupted`, `UnackRemoves` for `Unack`, ...), under which
TLC finds the property violated.

## 4. What the violations say

* `lock_race`, `lock.go:114`: the removal of a stale lock takes whatever the path
  names by then. Exclusion holds exactly up to overlapping reclaims and misread
  files.
* `journal_crash`, `neon.go:418`: `Destroy` without a reference succeeds, so a crash
  between the branch and its commit loses the branch. Providers that also find a
  branch by name are safe.
* `lifetime_test`, `reap.go:152`: the documentation says a sweep defers to `af test`;
  it takes no lock the sweep could see.
* `sequence_overlap`, `sequence.go:111`: `Settle` writes unconditionally on the
  ground that the commands hold the lock, and `af test` does not. Its late, lower
  number makes the next command continue below numbers that are in use, and the
  control plane ignores the events.

Further observations made with the same modules, not kept as runs:

*Lock.* The comment at `lock.go:107`, that an unreadable lock file can only come
from a crash, does not cover reads refused for want of permission or descriptors,
nor file systems without hard links; `misread` marks the behaviours where that
costs a live holder its lock.

*Journal.*

* `journal_named` with `Interrupts = TRUE` violates `CleanExitMeansGone`:
  of all ways in which a replay can fail, cancellation before the listing
  (`reconcile.go:66`) is the one that is not reported. `CleanExitByName` says what
  even then is true.
* `journal_named` with `DbProviders = {docker, dblab}` violates
  `NoForgottenResource`: `reconcile.go:172` registers the legacy name "docker"
  with whatever provider is selected, so a docker branch's record is compensated
  by another provider. Hence the second conjunct of `EveryHandleReaches`.
* `journal_hosted` with `Deletable = FALSE`, which is the Kubernetes runtime
  (`reconcile.go:137` registers "local" only), violates `EventuallyClean`: the
  records are skipped by every replay.
* Stores whose server is gone (`datastores.go:163`) are passed over in silence by
  the teardown, but their records have no deleter then: every later `af down`
  reports them pending until an `af up` starts the server again. That is the
  exception in `EventuallyClean`.
* After a corrupt state database was replaced, `af down` is what the user is told
  to run (`state.go:405`). It finds everything with a derived name; a branch at a
  hosted provider, or at one the manifest no longer selects, stays, and the exit
  says clean. That is the exception in `CleanExitMeansGone`.
* Records are replayed by id, and a reused record keeps its old id: after a
  replay that failed on a container only, a network can come before the
  container on it (`journal.go:280`). `EventuallyClean` shows it costs at most
  another `af down`.

*Lifetime.*

* `Down` does not drop the lease (`env.go:3020`), although `lease.go:166` says `Drop`
  is called on teardown: a new environment of the same name inherits it. The
  lease's `life` and the condition in `ExtensionsAreBounded` are there for that.
* `lifetime_sweep` with two checkouts violates `SweepSparesCommands`:
  `reap.go:151` looks for the lock in the sweeping checkout's own directory,
  while the environment id and the daemon are shared.
* `DropLease` drops the lease also when the teardown left something
  (`reap.go:175`, against the comment at `reap.go:171`), and a sweep destroys on
  an inventory older than the environment's present life (`reap.go:88`). That is
  why `SweepHonoursStatedLifetime` speaks of environments unchanged since the
  sweep looked.

*Events.*

* The comment at `bus.go:165`, that any `Settle` called after an `Emit` returned
  counts its event, fails while another emitter's send is not counted yet: the
  sink handles that one first and reaches the target one event early. Hence
  `exact` in `SettleIsBarrier`.
* A command that could not reserve settles nothing (`telemetry.go:193`), so the
  next one reserves from the old counter, below what was issued. Hence
  `fellBack` in `NumbersRiseUnlessOverlapped`.
* Events in the buffer can overtake events in the spool: a drain is bounded
  (32 batches), and `Deliver` may spill while a flush is past the spool.
* A new spool puts back claims that are alive (`spool.go:222`), and the batch is
  sent twice; the control plane knows the events again.
* The spool loses events that `Dropped` (`spool.go:354`) does not count. The
  comment at `spool.go:240`, on an event that does not marshal, says "Skipped and
  counted, the same rule the read side applies to one unreadable line"; the
  read side skips and does not count (`spool.go:465`), and removes a batch that
  parsed to nothing without a count (`spool.go:330`). A batch that cannot be read
  counts as one event, whatever it held (`spool.go:319`). And `enforceBudget` counts
  before it removes (`spool.go:421`): of a batch it could not open at the count, or
  that another drain held then and puts back before the remove, nothing is counted.
  Hence `lost` in `Outbox`. The instance of `spool` reaches the first and the last
  of these losses; its batches hold one event, so the rest of an unreadable batch
  is empty there, and only the theorem covers that case.

*MCP.*

* A run whose last write failed stays "running" until its server exits and another
  one recovers it; if the process id is in use again, for longer.
* A cancel is acknowledged although the run finished between the read and the
  write; the flag then stands on a finished run and changes nothing.

## 5. Theorems

All proofs are checked by TLAPS, for every value of the constants that satisfies
the named assumptions (`LockAssumption`, `JournalAssumption`,
`LifetimeAssumption`, `RunsAssumption`, `BusAssumption`, `DeliveryAssumption`) and
what a theorem adds to them. The assumptions give the constants their types and
make sizes positive; one says more: `DeliveryAssumption` has no command emit more
events than its block has numbers (65536 in the code, which sets it so that no
command exhausts it and does not check).

* `BranchLockProofs`: `TypeCorrect`; `SerialReclaimsExclude` and
  `SerialReclaimsSpareTheLiving`. Exclusion is not inductive. The strengthening
  says that, as long as things are `Orderly` (links work, reclaims have not
  overlapped, no live lock was misread), whoever holds the lock is recorded in
  the file, whoever is about to remove a file is alone in that and looks at one
  whose owner is dead, and no file is torn.
* `EnvJournalProofs`: `TypeCorrect`; `OneRecordPerResource` and `CleanExitByName`
  without further assumptions; `CompensationIsTrue` where docker is not mixed with
  other providers (`LegacyAlone`); `NothingForgotten` where besides no provider
  needs a reference (`EveryHandleReaches`); `CleanExitIsClean` where besides nobody
  interrupts. The inductive invariant joins the position of the session to the
  journal (`Working`), the uniqueness of live records and what replay has still to
  come to (`RecordInv`), what the phases of a teardown have made go as long as
  nothing is pending (`ClearInv`), and that a record about to be marked
  compensated names something gone (`ReachInv`), or at least a reference that is
  (`RefInv`). The violations and the first two observations on the journal are
  these assumptions: none can be dropped.
* `EnvLifetimeProofs`: `TypeCorrect`; `OneCheckoutSparesCommands` for a machine
  with one checkout; `StatedLifetimeHonoured` and `ExtensionsStayBounded` for any
  number. The first needs that a lock is held by a command or by the sweep and
  never by both, the second that a planned environment is due by the inventory it
  was planned on and the lease it had then (`PlanDue`), the third that every
  resource and every inventory entry of the present life is at least as old as
  that life and that a lease of this life has its ceiling under the longest
  `max_ttl` from its beginning (`AgeInv`).
* `McpRunsProofs`: `TypeCorrect`, `VerdictsAreEarned`, `AnswersFit`,
  `WorkStaysInFlight`, `CancelsAreNotFailures`, and `LedgerIsImplemented`, the
  refinement. The inductive invariant says that a goroutine's run is recorded, in
  flight and owned by a living process id (`Attended`: this is what keeps every
  recovery away from it), that a run has a verdict exactly when it is in flight no
  more (`Settled`), what was returned where the goroutine is (`Returned`), and that
  a flag set in time leads to no failure but that of a panic (`Flagged`). For the
  refinement every action is a step of the ledger or leaves it as it is: `Submit`
  opens, the three last writes conclude, a recovery concludes many at once.
* `EventBusProofs`: `TypeCorrect`, `LossesAreCounted`, `ClosedSinksAreQuiet`,
  `DeliveryIsInOrder`, `PanicsAreRaces`, `SettleWaits`, for any emitters, sinks and
  queue sizes. The inductive invariant has four parts. `Base`: where a sink, its
  goroutine and its queue can be for each position of `Close`, and how far an
  `Emit` under way has come. `Books`: what was accepted for a sink is delivered,
  dropped, waiting, in hand or still to be offered by an `Emit`, and the counter of
  sends lags the queue by the sends not yet counted. `Ordered`: delivered, in hand
  and waiting follow one another, and all of it is older than what its emitter
  holds. `Barrier`: while `Settle` waits at a sink, an event it owes is within the
  count it loaded; the sinks it passed are clear. The last is why the theorem
  excludes a counter that lagged when it was loaded (`exact`).
* `EventDeliveryProofs`: `TypeCorrect`, `ClaimsAreExclusive`, `NumbersRiseAlone`, and
  `OutboxIsImplemented`, the refinement. `Base` adds to the types that a command's
  counter is not below any name it gave a batch, so that a name is never used
  again, and that a highest counter exists for a new spool to find. `Claims`: a
  goroutine that holds a claim whose name was not released finds the batch claimed;
  whatever has the name is the batch it read; before it acknowledges it, what parses
  of it was received; two holders of one name mean a released name. `Numbers`:
  without overlap and fallback one command runs, inside its block, above
  everything the finished ones issued, and what they issued is not above the
  stored counter. For the refinement, `Accounted` is shown of every step: what was
  on its way, received, counted or lost still is one of these, only what was
  accepted arrives, and only what is in a batch and not accounted for is lost
  (`Loses`). The budget removes a batch nobody has claimed, so that no claim is
  disturbed. `Claims` is needed for it, since an acknowledgement removes
  whatever is claimed under the name by then, be it another command's claim.

Only model-checked: the liveness properties (`StaleLockReclaimed`,
`EventuallyClean`, `OverdueGoes`, `CloseCompletes`, `SettleCompletes`, `RunsSettle`,
`ServersExit`, `BacklogDrains`), since TLAPS 1.4.5 does not reason about fairness.
Every invariant, action property and refinement that a passing run checks is
stated by a theorem.

## 6. Plan

1. `EnvJournal` with several environment ids, for `rollingDown`, whose
   environments' records nobody replays.
2. Composition: an abstract lock that `BranchLock` implements while `Orderly`, as
   the guard of the other modules.
3. Pure algorithms: `scheduler.Plan` and `golden/schedule.go` as functions against
   a reference definition over bounded inputs.

## 7. Not modelled

What is modelled is the engine's shared, durable and concurrent state, and that
is a small part of the repository's lines. Manifest validation, masking,
subsetting, verification, egress policy, detection, reports and rendering are
sequential computations over data and text, where a model would repeat the code;
large parts are generated (documentation pages, error codes, proxy sources) or
fakes and conformance suites for tests; load and fault experiments measure time;
the agent runner, the console and the hosted control plane are other programs.
They are listed in `PROJECT.json` with the reason for each.

Some hazards have no property, because the code does what the hazard says and a
property can only step around it: `reconcile.go:66`, `reap.go:88`, `reap.go:175`,
`engine.go:183` and `telemetry.go:199`, all described in section 4. `rolling.go:838`
has none yet (plan, 1). The notes of the hazards in `PROJECT.json` say where a
property exempts part of what it is listed for.

## 8. Running

    tlc -workers 2 -config BranchLock_safety.cfg MCBranchLock
    tlapm BranchLockProofs.tla

Each run of the table names its configuration in `PROJECT.json`. The largest,
`lock_safety` (5.4 million states) and `spool` (0.7 million, with liveness), take two
to three minutes each.

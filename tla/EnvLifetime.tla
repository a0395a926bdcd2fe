------------------------------ MODULE EnvLifetime ------------------------------
(***************************************************************************)
(* How long environments live on one machine: the expiry stamped on each   *)
(* resource (local.go managed), the extensions of af env extend            *)
(* (lease.go), and the sweep of af env reap (reaper.go, env/reap.go),      *)
(* running beside af up, af down and af test.                              *)
(*                                                                         *)
(* The Docker daemon is shared by every checkout on the machine.  Locks    *)
(* and leases live in a checkout's own .antifailure directory, and an      *)
(* environment's id comes from project and branch alone.  Within one       *)
(* checkout the lock files are taken as exclusive; BranchLock says when.   *)
(***************************************************************************)
EXTENDS Integers, FiniteSets

CONSTANTS
  Env,       \* environment ids
  Root,      \* checkouts on this machine
  TTLs,      \* runtime.ttl of the manifests; 0: a release that states none
  MaxTTLs,   \* runtime.max_ttl of the manifests
  Asks,      \* durations af env extend is asked for
  MaxTime,   \* bound: the last instant of the clock
  MaxLives   \* bound: times an environment is brought up anew

ASSUME LifetimeAssumption ==
  /\ TTLs \subseteq Nat
  /\ MaxTTLs \subseteq Nat \ {0}
  /\ \E m \in MaxTTLs : \A n \in MaxTTLs : n <= m
  /\ Asks \subseteq Nat \ {0}
  /\ MaxTime \in Nat \ {0}
  /\ MaxLives \in Nat

VARIABLES
  now,     \* the clock
  things,  \* the resources the daemon holds for each environment
  cmd,     \* the locked command each checkout runs on each environment
  tests,   \* environments af test is driving
  leases,  \* each checkout's env_leases table
  spc,     \* where the process holding the checkout's reaper lock is
  inv,     \* the inventory it read
  plan,    \* environments it has still to come to
  cur,     \* the environment it holds the lock of, as a set
  until,   \* the instant an extension asks for
  life,    \* history: how often the environment was brought up anew
  began,   \* history: when its present life began
  torn     \* history: a teardown was run on that life

vars == <<now, things, cmd, tests, leases, spc, inv, plan, cur, until, life,
          began, torn>>
reaping == <<spc, inv, plan, cur, until>>
history == <<life, began, torn>>

Time == 1..MaxTime
Thing == [part : {"network", "container"}, born : Time, until : Nat]
NoLease == [at |-> 0, ceiling |-> 0, life |-> 0]
Lease == [at : Nat, ceiling : Nat, life : 0..MaxLives]

TypeOK ==
  /\ now \in Time
  /\ things \in [Env -> SUBSET Thing]
  /\ cmd \in [Root -> [Env -> {"none", "network", "container", "down"}]]
  /\ tests \subseteq Env
  /\ leases \in [Root -> [Env -> Lease]]
  /\ spc \in [Root -> {"idle", "extend", "listed", "sweep", "destroy", "drop"}]
  /\ inv \in [Root -> [Env -> SUBSET Thing]]
  /\ plan \in [Root -> SUBSET Env]
  /\ cur \in [Root -> SUBSET Env]
  /\ until \in [Root -> Nat]
  /\ life \in [Env -> 0..MaxLives]
  /\ began \in [Env -> 0..MaxTime]
  /\ torn \in [Env -> BOOLEAN]

Nothing == [e \in Env |-> {}]

Init ==
  /\ now = 1
  /\ things = Nothing
  /\ cmd = [r \in Root |-> [e \in Env |-> "none"]]
  /\ tests = {}
  /\ leases = [r \in Root |-> [e \in Env |-> NoLease]]
  /\ spc = [r \in Root |-> "idle"]
  /\ inv = [r \in Root |-> Nothing]
  /\ plan = [r \in Root |-> {}]
  /\ cur = [r \in Root |-> {}]
  /\ until = [r \in Root |-> 0]
  /\ life = [e \in Env |-> 0]
  /\ began = [e \in Env |-> 0]
  /\ torn = [e \in Env |-> TRUE]

Tick ==
  /\ now < MaxTime
  /\ now' = now + 1
  /\ UNCHANGED <<things, cmd, tests, leases, reaping, history>>

\* The lock file of the environment, in this checkout's state directory.
LockFree(r, e) == cmd[r][e] = "none" /\ e \notin cur[r]

-----------------------------------------------------------------------------
(* Commands *)

Command(r, e, c) == cmd' = [cmd EXCEPT ![r][e] = c]

BeginUp(r, e) ==
  /\ LockFree(r, e)
  /\ Command(r, e, "network")
  /\ UNCHANGED <<now, things, tests, leases, reaping, history>>

\* Bug: the creation label is left out, and its absence reads as the epoch.
StampedUndated(p, ttl) ==
  [part |-> p, born |-> 0, until |-> IF ttl = 0 THEN 0 ELSE now + ttl]

\* The label set of a resource about to be created.
Stamped(p, ttl) ==
  [part |-> p, born |-> now, until |-> IF ttl = 0 THEN 0 ELSE now + ttl]

Part(S, p) == {x \in S : x.part = p}

\* After a teardown the environment begins anew.
NewLife(e) ==
  \/ /\ torn[e] /\ life[e] < MaxLives
     /\ life' = [life EXCEPT ![e] = @ + 1]
     /\ began' = [began EXCEPT ![e] = now]
     /\ torn' = [torn EXCEPT ![e] = FALSE]
  \/ ~torn[e] /\ UNCHANGED history

(* A network that is there is used as it is.                               *)
EnsureNetwork(r, e) ==
  /\ cmd[r][e] = "network"
  /\ IF Part(things[e], "network") # {}
     THEN UNCHANGED things
     ELSE \E ttl \in TTLs :
            things' = [things EXCEPT ![e] = @ \cup {Stamped("network", ttl)}]
  /\ NewLife(e)
  /\ Command(r, e, "container")
  /\ UNCHANGED <<now, tests, leases, reaping>>

(* A running container of the same configuration is kept, any other is     *)
(* replaced; with that the command is over.                                *)
StartService(r, e) ==
  /\ cmd[r][e] = "container"
  /\ \/ Part(things[e], "container") # {} /\ UNCHANGED things
     \/ \E ttl \in TTLs :
          things' = [things EXCEPT ![e] =
                       Part(@, "network") \cup {Stamped("container", ttl)}]
  /\ Command(r, e, "none")
  /\ UNCHANGED <<now, tests, leases, reaping, history>>

BeginDown(r, e) ==
  /\ LockFree(r, e)
  /\ Command(r, e, "down")
  /\ UNCHANGED <<now, things, tests, leases, reaping, history>>

\* What teardown leaves: nothing, or what would not go.
TornDown(e) ==
  /\ \E kept \in SUBSET things[e] : things' = [things EXCEPT ![e] = kept]
  /\ torn' = [torn EXCEPT ![e] = TRUE]
  /\ UNCHANGED <<life, began>>

(* af down leaves the lease where it is.                                   *)
Down(r, e) ==
  /\ cmd[r][e] = "down"
  /\ TornDown(e)
  /\ Command(r, e, "none")
  /\ UNCHANGED <<now, tests, leases, reaping>>

(* A command fails or is killed; its lock file is released or goes stale.  *)
CommandStops(r, e) ==
  /\ cmd[r][e] # "none"
  /\ Command(r, e, "none")
  /\ UNCHANGED <<now, things, tests, leases, reaping, history>>

(* af test needs something running and holds no lock while it drives it.   *)
BeginTest(e) ==
  /\ Part(things[e], "container") # {}
  /\ tests' = tests \cup {e}
  /\ UNCHANGED <<now, things, cmd, leases, reaping, history>>

EndTest(e) ==
  /\ e \in tests
  /\ tests' = tests \ {e}
  /\ UNCHANGED <<now, things, cmd, leases, reaping, history>>

-----------------------------------------------------------------------------
(* af env extend *)

Step(r, l) == spc' = [spc EXCEPT ![r] = l]

(* Orchestrator.Extend under the checkout's reaper lock: the environment   *)
(* has to be in the inventory.                                             *)
BeginExtend(r, e) ==
  /\ spc[r] = "idle"
  /\ things[e] # {}
  /\ \E d \in Asks : until' = [until EXCEPT ![r] = now + d]
  /\ inv' = [inv EXCEPT ![r] = things]
  /\ plan' = [plan EXCEPT ![r] = {e}]
  /\ Step(r, "extend")
  /\ UNCHANGED <<now, things, cmd, tests, leases, cur, history>>

\* createdAt: the oldest resource.
CreatedAt(S) == CHOOSE t \in {x.born : x \in S} : \A x \in S : t <= x.born

\* Bug: the ceiling is measured anew at every extension.
GrantAfresh(l, stock, max, ask, lf) ==
  LET ceiling == now + max
  IN [at |-> IF ask > ceiling THEN ceiling ELSE ask, ceiling |-> ceiling,
      life |-> lf]

(* Store.Extend: the ceiling is set by the first extension and kept by     *)
(* every other; what is granted never passes it.                           *)
Grant(l, stock, max, ask, lf) ==
  LET ceiling == IF l # NoLease THEN l.ceiling ELSE CreatedAt(stock) + max
  IN [at |-> IF ask > ceiling THEN ceiling ELSE ask, ceiling |-> ceiling,
      life |-> IF l # NoLease THEN l.life ELSE lf]

\* The process lets go of the reaper lock.
Idle(r) ==
  /\ Step(r, "idle")
  /\ inv' = [inv EXCEPT ![r] = Nothing]
  /\ plan' = [plan EXCEPT ![r] = {}]
  /\ cur' = [cur EXCEPT ![r] = {}]
  /\ until' = [until EXCEPT ![r] = 0]

Extend(r) ==
  /\ spc[r] = "extend"
  /\ \E e \in plan[r], max \in MaxTTLs :
       leases' = [leases EXCEPT ![r][e] =
                    Grant(@, inv[r][e], max, until[r],
                          IF torn[e] THEN 0 ELSE life[e])]
  /\ Idle(r)
  /\ UNCHANGED <<now, things, cmd, tests, history>>

-----------------------------------------------------------------------------
(* af env reap *)

ReadInventory(r) ==
  /\ spc[r] = "idle"
  /\ inv' = [inv EXCEPT ![r] = things]
  /\ Step(r, "listed")
  /\ UNCHANGED <<now, things, cmd, tests, leases, plan, cur, until, history>>

\* Expiries: a lease is read as at most its ceiling.
LeaseExpiry(l) == IF l.at > l.ceiling THEN l.ceiling ELSE l.at

StatedExpiries(S) == {x.until : x \in S} \ {0}

\* Bug: the first resource to expire takes the environment with it.
ExpiredEarliest(S, l, t) ==
  LET stated == IF l # NoLease THEN {LeaseExpiry(l)} ELSE StatedExpiries(S)
  IN S # {} /\ \E x \in stated : x < t

\* Bug: one resource that states nothing keeps the environment for ever.
ExpiredUnanimous(S, l, t) ==
  LET stated == IF l # NoLease THEN {LeaseExpiry(l)} ELSE StatedExpiries(S)
  IN /\ S # {} /\ stated # {} /\ \A x \in stated : x < t
     /\ \A x \in S : x.until # 0

(* reaper.Plan for one environment: a lease overrides the labels, among    *)
(* labels the latest counts, and what states nothing never expires.        *)
Expired(S, l, t) ==
  LET stated == IF l # NoLease THEN {LeaseExpiry(l)} ELSE StatedExpiries(S)
  IN S # {} /\ stated # {} /\ \A x \in stated : x < t

(* Expiries and Plan: nobody else writes this checkout's leases while the  *)
(* reaper lock is held, so reading them and the clock is one step.         *)
PlanSweep(r) ==
  /\ spc[r] = "listed"
  /\ plan' = [plan EXCEPT ![r] =
                {e \in Env : Expired(inv[r][e], leases[r][e], now)}]
  /\ Step(r, "sweep")
  /\ UNCHANGED <<now, things, cmd, tests, leases, inv, cur, until, history>>

\* Bug: the environment's own lock is not taken.
DestroyUnlocked(r, e) ==
  /\ spc[r] = "sweep"
  /\ e \in plan[r]
  /\ cur' = [cur EXCEPT ![r] = {e}]
  /\ Step(r, "destroy")
  /\ plan' = [plan EXCEPT ![r] = @ \ {e}]
  /\ UNCHANGED <<now, things, cmd, tests, leases, inv, until, history>>

(* sweeper.Destroy takes the environment's lock, or defers it to the next  *)
(* sweep.                                                                  *)
Destroy(r, e) ==
  /\ spc[r] = "sweep"
  /\ e \in plan[r]
  /\ \/ LockFree(r, e) /\ cur' = [cur EXCEPT ![r] = {e}] /\ Step(r, "destroy")
     \/ ~LockFree(r, e) /\ UNCHANGED <<cur, spc>>
  /\ plan' = [plan EXCEPT ![r] = @ \ {e}]
  /\ UNCHANGED <<now, things, cmd, tests, leases, inv, until, history>>

Teardown(r, e) ==
  /\ spc[r] = "destroy"
  /\ e \in cur[r]
  /\ TornDown(e)
  /\ Step(r, "drop")
  /\ UNCHANGED <<now, cmd, tests, leases, inv, plan, cur, until>>

(* The lease goes, whatever the teardown left, and the lock is released; a *)
(* refused write keeps the lease.                                          *)
DropLease(r, e) ==
  /\ spc[r] = "drop"
  /\ e \in cur[r]
  /\ leases' \in {leases, [leases EXCEPT ![r][e] = NoLease]}
  /\ cur' = [cur EXCEPT ![r] = {}]
  /\ Step(r, "sweep")
  /\ UNCHANGED <<now, things, cmd, tests, inv, plan, until, history>>

SweepEnds(r) ==
  /\ spc[r] = "sweep"
  /\ plan[r] = {}
  /\ Idle(r)
  /\ UNCHANGED <<now, things, cmd, tests, leases, history>>

(* The holder of the reaper lock is killed or fails; a cancelled sweep     *)
(* stops between two environments.                                         *)
SweepStops(r) ==
  /\ spc[r] # "idle"
  /\ Idle(r)
  /\ UNCHANGED <<now, things, cmd, tests, leases, history>>

-----------------------------------------------------------------------------
UserCommand(r, e) ==
  \/ BeginUp(r, e) \/ EnsureNetwork(r, e) \/ StartService(r, e)
  \/ BeginDown(r, e) \/ Down(r, e) \/ CommandStops(r, e)

Reaper(r) ==
  \/ ReadInventory(r) \/ PlanSweep(r) \/ SweepEnds(r)
  \/ \E e \in Env : Destroy(r, e) \/ Teardown(r, e) \/ DropLease(r, e)

Next ==
  \/ Tick
  \/ \E e \in Env : BeginTest(e) \/ EndTest(e)
  \/ \E r \in Root :
       \/ \E e \in Env : UserCommand(r, e) \/ BeginExtend(r, e)
       \/ Extend(r)
       \/ Reaper(r)
       \/ SweepStops(r)

Spec == Init /\ [][Next]_vars

(* The sweep runs on a schedule and, like an extension, runs on once it is *)
(* started.                                                                *)
FairSpec == Spec /\ \A r \in Root : WF_vars(Reaper(r) \/ Extend(r))

-----------------------------------------------------------------------------
(* Properties *)

\* The sweep of checkout r is taking environment e away.
Taking(r, e) == spc[r] \in {"destroy", "drop"} /\ e \in cur[r]

(* An environment some command holds, in whatever checkout it runs, is     *)
(* deferred and not pulled out from under it, and no two sweeps take the   *)
(* same environment: reap.go Destroy takes its lock for the whole teardown.*)
SweepSparesCommands ==
  \A r \in Root, e \in Env : Taking(r, e) =>
    \A q \in Root : cmd[q][e] = "none" /\ (Taking(q, e) => q = r)

(* An environment af test is driving is deferred too, as the reaper's      *)
(* documentation promises.                                                 *)
SweepSparesTests ==
  \A r \in Root, e \in Env : Taking(r, e) => e \notin tests

\* By its lease, or else by the latest expiry its resources state.
Overdue(r, e) ==
  IF leases[r][e] # NoLease
  THEN leases[r][e].at < now
  ELSE /\ \E x \in things[e] : x.until # 0
       /\ \A x \in things[e] : x.until < now

(* As long as nobody changed the environment since the sweep looked, only  *)
(* one that is overdue by its own statements, this checkout's lease before *)
(* its labels, loses a resource to a sweep; one that states nothing never. *)
SweepHonoursStatedLifetime ==
  [][\A r \in Root, e \in Env :
       /\ spc[r] = "destroy" /\ spc'[r] = "drop" /\ e \in cur[r]
       /\ inv[r][e] = things[e]
       => Overdue(r, e)]_vars

\* The most generous manifest.
LongestTTL == CHOOSE m \in MaxTTLs : \A n \in MaxTTLs : n <= m

(* Extensions, however many, from whatever manifests and whatever was      *)
(* replaced in between, never take a lease beyond max_ttl measured from    *)
(* when this life of the environment began.                                *)
ExtensionsAreBounded ==
  \A r \in Root, e \in Env :
    leases[r][e] # NoLease /\ leases[r][e].life = life[e] /\ life[e] > 0
      => leases[r][e].at <= began[e] + LongestTTL

\* Nothing is killed, no command or extension keeps the sweep from its
\* locks, teardowns succeed.
CalmStep ==
  /\ \A r \in Root : SweepStops(r) => spc[r] = "extend" \/ SweepEnds(r)
  /\ \A r \in Root, e \in Env : ~BeginExtend(r, e)
  /\ cmd' = cmd /\ \A r \in Root, e \in Env : cmd[r][e] = "none"
  /\ \A r \in Root, e \in Env :
       Taking(r, e) /\ spc[r] # spc'[r] => things'[e] = {}

(* Being deferred, killed half way or failed is no reprieve: once sweeps   *)
(* run undisturbed, every overdue environment goes, those included in      *)
(* which some resource states no lifetime.                                 *)
OverdueGoes ==
  <>[][CalmStep]_vars =>
    \A r \in Root, e \in Env : <>[](things[e] = {} \/ ~Overdue(r, e))

=============================================================================

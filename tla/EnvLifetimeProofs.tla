--------------------------- MODULE EnvLifetimeProofs ---------------------------
(* What holds of EnvLifetime for every set of environments, checkouts,     *)
(* lifetimes and extensions.                                               *)
EXTENDS EnvLifetime, WellFoundedInduction, TLAPS

-----------------------------------------------------------------------------
(* Helpers *)

LEMMA TornDownLemma ==
  ASSUME TypeOK, NEW e \in Env, TornDown(e)
  PROVE  /\ things' \in [Env -> SUBSET Thing]
         /\ torn' \in [Env -> BOOLEAN]
         /\ UNCHANGED <<life, began>>
         /\ \A d \in Env : things'[d] \subseteq things[d]
         /\ \A d \in Env : ~torn'[d] => ~torn[d] /\ things'[d] = things[d]
<1>1. PICK kept \in SUBSET things[e] : things' = [things EXCEPT ![e] = kept]
  BY DEF TornDown
<1>2. torn' = [torn EXCEPT ![e] = TRUE] /\ UNCHANGED <<life, began>>
  BY DEF TornDown
<1>3. things \in [Env -> SUBSET Thing] /\ torn \in [Env -> BOOLEAN]
  BY DEF TypeOK
<1>4. things' \in [Env -> SUBSET Thing]
  BY <1>1, <1>3
<1>5. torn' \in [Env -> BOOLEAN]
  BY <1>2, <1>3, Zenon
<1>6. \A d \in Env : ~torn'[d] => d # e /\ ~torn[d]
  BY <1>2, <1>3
<1>. QED BY <1>1, <1>2, <1>3, <1>4, <1>5, <1>6

LEMMA StampedLemma ==
  ASSUME TypeOK, NEW ttl \in TTLs, NEW p \in {"network", "container"}
  PROVE  Stamped(p, ttl) \in Thing /\ Stamped(p, ttl).born = now
         /\ Stamped(p, ttl).part = p
BY LifetimeAssumption DEF TypeOK, Stamped, Thing, Time

(* createdAt is defined on every inventory that holds something, and is    *)
(* not later than anything in it.                                          *)
LEMMA CreatedAtLemma ==
  ASSUME NEW S \in SUBSET Thing, S # {}
  PROVE  CreatedAt(S) \in Nat /\ \A x \in S : CreatedAt(S) <= x.born
<1>. DEFINE T == {x.born : x \in S}
<1>1. T \subseteq Nat /\ T # {}
  BY LifetimeAssumption DEF Thing, Time
<1>2. PICK t \in T : \A u \in T : ~ (<<u, t>> \in OpToRel(<, Nat))
  <2>. HIDE DEF T
  <2>. QED BY <1>1, NatLessThanWellFounded, WFMin
<1>3. \A x \in S : t <= x.born
  <2>. SUFFICES ASSUME NEW x \in S PROVE t <= x.born
    OBVIOUS
  <2>1. x.born \in T /\ x.born \in Nat /\ t \in Nat
    BY <1>1
  <2>2. ~(x.born < t)
    BY <1>2, <2>1 DEF OpToRel
  <2>. QED BY <2>1, <2>2
<1>4. \E u \in T : \A x \in S : u <= x.born
  BY <1>3
<1>5. CreatedAt(S) \in T /\ \A x \in S : CreatedAt(S) <= x.born
  BY <1>4 DEF CreatedAt
<1>. QED BY <1>1, <1>5

LEMMA IdleLemma ==
  ASSUME TypeOK, NEW r \in Root, Idle(r)
  PROVE  /\ spc' \in [Root -> {"idle", "extend", "listed", "sweep", "destroy", "drop"}]
         /\ inv' \in [Root -> [Env -> SUBSET Thing]]
         /\ plan' \in [Root -> SUBSET Env]
         /\ cur' \in [Root -> SUBSET Env]
         /\ until' \in [Root -> Nat]
         /\ spc'[r] = "idle" /\ cur'[r] = {} /\ plan'[r] = {}
         /\ \A q \in Root \ {r} : spc'[q] = spc[q] /\ inv'[q] = inv[q]
              /\ plan'[q] = plan[q] /\ cur'[q] = cur[q] /\ until'[q] = until[q]
BY DEF TypeOK, Idle, Step, Nothing

-----------------------------------------------------------------------------
(* Types *)

LEMMA GrantLemma ==
  ASSUME TypeOK, NEW l \in Lease, NEW stock \in SUBSET Thing,
         l # NoLease \/ stock # {}, NEW max \in MaxTTLs, NEW ask \in Nat,
         NEW lf \in 0..MaxLives
  PROVE  /\ Grant(l, stock, max, ask, lf) \in Lease
         /\ Grant(l, stock, max, ask, lf).at <= Grant(l, stock, max, ask, lf).ceiling
<1>. DEFINE ceiling == IF l # NoLease THEN l.ceiling ELSE CreatedAt(stock) + max
            lived == IF l # NoLease THEN l.life ELSE lf
<1>1. ceiling \in Nat /\ lived \in 0..MaxLives
  <2>1. max \in Nat
    BY LifetimeAssumption
  <2>2. stock # {} => CreatedAt(stock) \in Nat
    BY CreatedAtLemma
  <2>. QED BY <2>1, <2>2 DEF Lease
<1>2. Grant(l, stock, max, ask, lf) =
        [at |-> IF ask > ceiling THEN ceiling ELSE ask, ceiling |-> ceiling,
         life |-> lived]
  BY DEF Grant
<1>. HIDE DEF ceiling, lived
<1>. QED BY <1>1, <1>2 DEF Lease

\* An extension is planned only for what its inventory holds.
Listed ==
  \A r \in Root : spc[r] = "extend" =>
    \A e \in plan[r] : inv[r][e] # {}

\* No lease is granted beyond its ceiling.
UnderCeiling ==
  \A r \in Root, e \in Env : leases[r][e].at <= leases[r][e].ceiling

TypeInv == TypeOK /\ Listed /\ UnderCeiling

LEMMA InitType == Init => TypeInv
<1>. SUFFICES ASSUME Init PROVE TypeInv
  OBVIOUS
<1>1. NoLease \in Lease /\ NoLease.at <= NoLease.ceiling
  BY LifetimeAssumption DEF NoLease, Lease
<1>2. torn \in [Env -> BOOLEAN]
  BY Zenon DEF Init
<1>3. TypeOK
  BY <1>1, <1>2, LifetimeAssumption DEF Init, TypeOK, Nothing, Time
<1>. QED BY <1>1, <1>3 DEF Init, TypeInv, Listed, UnderCeiling

LEMMA TypeStep == TypeInv /\ [Next]_vars => TypeInv'
<1>. SUFFICES ASSUME TypeInv, [Next]_vars PROVE TypeInv'
  OBVIOUS
<1>. USE DEF TypeInv
<1>1. ASSUME NEW r \in Root, NEW e \in Env, UserCommand(r, e)
      PROVE  TypeInv'
  <2>1. cmd' \in [Root -> [Env -> {"none", "network", "container", "down"}]]
    <3>1. PICK c \in {"none", "network", "container", "down"} :
            cmd' = [cmd EXCEPT ![r][e] = c]
      BY <1>1 DEF UserCommand, BeginUp, EnsureNetwork, StartService,
                  BeginDown, Down, CommandStops, Command
    <3>. QED BY <3>1 DEF TypeOK
  <2>2. things' \in [Env -> SUBSET Thing]
    <3>1. CASE EnsureNetwork(r, e)
      <4>1. \/ things' = things
            \/ \E ttl \in TTLs :
                 things' = [things EXCEPT ![e] = @ \cup {Stamped("network", ttl)}]
        BY <3>1 DEF EnsureNetwork
      <4>2. \A ttl \in TTLs : Stamped("network", ttl) \in Thing
        BY StampedLemma
      <4>3. things \in [Env -> SUBSET Thing]
        BY DEF TypeOK
      <4>. QED BY <4>1, <4>2, <4>3
    <3>2. CASE StartService(r, e)
      <4>1. \/ things' = things
            \/ \E ttl \in TTLs :
                 things' = [things EXCEPT ![e] =
                              Part(@, "network") \cup {Stamped("container", ttl)}]
        BY <3>2 DEF StartService
      <4>2. \A ttl \in TTLs : Stamped("container", ttl) \in Thing
        BY StampedLemma
      <4>3. things \in [Env -> SUBSET Thing] /\ Part(things[e], "network") \subseteq Thing
        BY DEF TypeOK, Part
      <4>. QED BY <4>1, <4>2, <4>3
    <3>3. CASE Down(r, e)
      BY <3>3, TornDownLemma DEF Down
    <3>. QED BY <1>1, <3>1, <3>2, <3>3
             DEF UserCommand, BeginUp, BeginDown, CommandStops, TypeOK
  <2>3. torn' \in [Env -> BOOLEAN]
    <3>1. CASE EnsureNetwork(r, e)
      <4>1. torn' = [torn EXCEPT ![e] = FALSE] \/ torn' = torn
        BY <3>1 DEF EnsureNetwork, NewLife, history
      <4>. QED BY <4>1, Zenon DEF TypeOK
    <3>2. CASE Down(r, e)
      BY <3>2, TornDownLemma DEF Down
    <3>. QED BY <1>1, <3>1, <3>2
             DEF UserCommand, BeginUp, BeginDown, CommandStops, StartService,
                 history, TypeOK
  <2>4. life' \in [Env -> 0..MaxLives] /\ began' \in [Env -> 0..MaxTime]
    <3>1. CASE EnsureNetwork(r, e)
      <4>1. \/ /\ life[e] < MaxLives
               /\ life' = [life EXCEPT ![e] = @ + 1]
               /\ began' = [began EXCEPT ![e] = now]
            \/ UNCHANGED <<life, began>>
        BY <3>1 DEF EnsureNetwork, NewLife, history
      <4>2. /\ now \in 0..MaxTime /\ began \in [Env -> 0..MaxTime]
            /\ life \in [Env -> 0..MaxLives]
        BY LifetimeAssumption DEF TypeOK, Time
      <4>3. life[e] < MaxLives => life[e] + 1 \in 0..MaxLives
        BY <4>2, LifetimeAssumption
      <4>. QED BY <4>1, <4>2, <4>3
    <3>2. CASE Down(r, e)
      BY <3>2 DEF Down, TornDown, TypeOK
    <3>. QED BY <1>1, <3>1, <3>2
             DEF UserCommand, BeginUp, BeginDown, CommandStops, StartService,
                 history, TypeOK
  <2>5. UNCHANGED <<now, tests, leases, reaping>>
    BY <1>1 DEF UserCommand, BeginUp, EnsureNetwork, StartService, BeginDown,
                Down, CommandStops
  <2>. QED BY <2>1, <2>2, <2>3, <2>4, <2>5
           DEF TypeOK, Listed, UnderCeiling, reaping
<1>2. ASSUME NEW r \in Root, NEW e \in Env, BeginExtend(r, e)
      PROVE  TypeInv'
  <2>1. until' \in [Root -> Nat]
    BY <1>2, LifetimeAssumption DEF BeginExtend, TypeOK, Time
  <2>2. TypeOK'
    BY <1>2, <2>1 DEF BeginExtend, TypeOK, Step, history
  <2>3. Listed'
    BY <1>2 DEF BeginExtend, TypeOK, Listed, Step
  <2>. QED BY <1>2, <2>2, <2>3 DEF BeginExtend, UnderCeiling
<1>3. ASSUME NEW r \in Root, Extend(r)
      PROVE  TypeInv'
  <2>1. PICK e \in plan[r], max \in MaxTTLs :
          leases' = [leases EXCEPT ![r][e] =
                       Grant(@, inv[r][e], max, until[r],
                             IF torn[e] THEN 0 ELSE life[e])]
    BY <1>3 DEF Extend
  <2>. DEFINE g == Grant(leases[r][e], inv[r][e], max, until[r],
                         IF torn[e] THEN 0 ELSE life[e])
  <2>2. e \in Env /\ leases[r][e] \in Lease /\ inv[r][e] \in SUBSET Thing
        /\ inv[r][e] # {} /\ until[r] \in Nat
        /\ (IF torn[e] THEN 0 ELSE life[e]) \in 0..MaxLives
    BY <1>3, LifetimeAssumption DEF Extend, TypeOK, Listed
  <2>3. g \in Lease /\ g.at <= g.ceiling
    <3>. HIDE DEF TypeInv
    <3>. QED BY <2>2, GrantLemma DEF TypeInv
  <2>4. leases' = [leases EXCEPT ![r][e] = g]
    BY <2>1, <2>2 DEF TypeOK
  <2>5. Idle(r) /\ UNCHANGED <<now, things, cmd, tests, history>>
    BY <1>3 DEF Extend
  <2>. HIDE DEF g
  <2>6. leases' \in [Root -> [Env -> Lease]] /\ UnderCeiling'
    BY <2>2, <2>3, <2>4 DEF TypeOK, UnderCeiling
  <2>7. TypeOK'
    BY <2>5, <2>6, IdleLemma DEF TypeOK, history
  <2>8. Listed'
    <3>1. /\ spc'[r] = "idle"
          /\ \A q \in Root \ {r} :
               spc'[q] = spc[q] /\ inv'[q] = inv[q] /\ plan'[q] = plan[q]
      BY <2>5, IdleLemma
    <3>. QED BY <3>1 DEF Listed
  <2>. QED BY <2>6, <2>7, <2>8
<1>4. ASSUME NEW r \in Root, SweepEnds(r) \/ SweepStops(r)
      PROVE  TypeInv'
  <2>1. Idle(r) /\ UNCHANGED <<now, things, cmd, tests, leases, history>>
    BY <1>4 DEF SweepEnds, SweepStops
  <2>2. TypeOK'
    BY <2>1, IdleLemma DEF TypeOK, history
  <2>3. Listed'
    <3>1. /\ spc'[r] = "idle"
          /\ \A q \in Root \ {r} :
               spc'[q] = spc[q] /\ inv'[q] = inv[q] /\ plan'[q] = plan[q]
      BY <2>1, IdleLemma
    <3>. QED BY <3>1 DEF Listed
  <2>. QED BY <2>1, <2>2, <2>3 DEF UnderCeiling
<1>5. ASSUME NEW r \in Root, ReadInventory(r) \/ PlanSweep(r)
      PROVE  TypeInv'
  <2>1. TypeOK'
    <3>1. CASE ReadInventory(r)
      BY <3>1 DEF ReadInventory, TypeOK, Step, history
    <3>2. CASE PlanSweep(r)
      <4>1. PICK P \in SUBSET Env : plan' = [plan EXCEPT ![r] = P]
        BY <3>2 DEF PlanSweep
      <4>. QED BY <3>2, <4>1 DEF PlanSweep, TypeOK, Step, history
    <3>. QED BY <1>5, <3>1, <3>2
  <2>2. Listed'
    BY <1>5 DEF ReadInventory, PlanSweep, TypeOK, Step, Listed
  <2>. QED BY <1>5, <2>1, <2>2 DEF ReadInventory, PlanSweep, UnderCeiling
<1>6. ASSUME NEW r \in Root, NEW e \in Env, Destroy(r, e)
      PROVE  TypeInv'
  <2>1. TypeOK'
    <3>1. /\ plan' = [plan EXCEPT ![r] = @ \ {e}]
          /\ \/ cur' = [cur EXCEPT ![r] = {e}]
                /\ spc' = [spc EXCEPT ![r] = "destroy"]
             \/ cur' = cur /\ spc' = spc
          /\ UNCHANGED <<now, things, cmd, tests, leases, inv, until, history>>
      BY <1>6 DEF Destroy, Step
    <3>2. plan' \in [Root -> SUBSET Env] /\ cur' \in [Root -> SUBSET Env]
      <4>1. plan \in [Root -> SUBSET Env] /\ cur \in [Root -> SUBSET Env]
        BY DEF TypeOK
      <4>2. plan[r] \ {e} \in SUBSET Env /\ {e} \in SUBSET Env
        BY <4>1
      <4>3. plan' \in [Root -> SUBSET Env]
        BY <3>1, <4>1, <4>2
      <4>. QED BY <3>1, <4>1, <4>2, <4>3
    <3>3. spc' \in [Root -> {"idle", "extend", "listed", "sweep", "destroy", "drop"}]
      BY <3>1 DEF TypeOK
    <3>. QED BY <3>1, <3>2, <3>3 DEF TypeOK, history
  <2>2. Listed'
    BY <1>6 DEF Destroy, TypeOK, Step, Listed
  <2>. QED BY <1>6, <2>1, <2>2 DEF Destroy, UnderCeiling
<1>7. ASSUME NEW r \in Root, NEW e \in Env, Teardown(r, e)
      PROVE  TypeInv'
  <2>1. TornDown(e) /\ Step(r, "drop")
        /\ UNCHANGED <<now, cmd, tests, leases, inv, plan, cur, until>>
    BY <1>7 DEF Teardown
  <2>2. TypeOK'
    BY <2>1, TornDownLemma DEF TypeOK, Step
  <2>3. Listed'
    BY <2>1 DEF TypeOK, Step, Listed
  <2>. QED BY <2>1, <2>2, <2>3 DEF UnderCeiling
<1>8. ASSUME NEW r \in Root, NEW e \in Env, DropLease(r, e)
      PROVE  TypeInv'
  <2>1. NoLease \in Lease /\ NoLease.at <= NoLease.ceiling
    BY LifetimeAssumption DEF NoLease, Lease
  <2>2. leases' \in [Root -> [Env -> Lease]] /\ UnderCeiling'
    <3>1. leases' = leases \/ leases' = [leases EXCEPT ![r][e] = NoLease]
      BY <1>8 DEF DropLease
    <3>2. leases \in [Root -> [Env -> Lease]]
      BY DEF TypeOK
    <3>3. CASE leases' = leases
      BY <3>2, <3>3 DEF UnderCeiling
    <3>4. CASE leases' = [leases EXCEPT ![r][e] = NoLease]
      BY <2>1, <3>2, <3>4 DEF UnderCeiling
    <3>. QED BY <3>1, <3>3, <3>4
  <2>3. TypeOK'
    BY <1>8, <2>2 DEF DropLease, TypeOK, Step, history
  <2>4. Listed'
    BY <1>8 DEF DropLease, TypeOK, Step, Listed
  <2>. QED BY <2>2, <2>3, <2>4
<1>9. CASE Tick
  BY <1>9, LifetimeAssumption
     DEF Tick, TypeOK, Listed, UnderCeiling, reaping, history, Time
<1>10. ASSUME NEW e \in Env, BeginTest(e) \/ EndTest(e)
       PROVE  TypeInv'
  BY <1>10 DEF BeginTest, EndTest, TypeOK, Listed, UnderCeiling, reaping, history
<1>11. CASE UNCHANGED vars
  BY <1>11 DEF vars, TypeOK, Listed, UnderCeiling
<1>. QED BY <1>1, <1>2, <1>3, <1>4, <1>5, <1>6, <1>7, <1>8, <1>9, <1>10, <1>11
         DEF Next, Reaper

(* Every variable keeps its type, for every set of environments, checkouts *)
(* and lifetimes; in particular createdAt is never asked of an empty       *)
(* inventory (reap.go Extend refuses an environment it did not find).      *)
THEOREM TypeCorrect == Spec => []TypeOK
<1>. QED BY InitType, TypeStep, PTL DEF Spec, TypeInv

-----------------------------------------------------------------------------
(* The sweep *)

\* Within one checkout the sweep and a command never share a lock file.
Excluded == \A r \in Root, e \in Env : e \in cur[r] => cmd[r][e] = "none"

\* What the sweep is on its way to was expired when it was planned; what it
\* has come to is no longer on the plan, and between environments it holds none.
Due(r, e) == Expired(inv[r][e], leases[r][e], now)

PlanDue ==
  \A r \in Root :
    /\ spc[r] \in {"sweep", "destroy", "drop"} => \A e \in plan[r] : Due(r, e)
    /\ spc[r] = "destroy" => \A e \in cur[r] : Due(r, e)
    /\ spc[r] \notin {"destroy", "drop"} => cur[r] = {}
    /\ \A e \in cur[r] : e \notin plan[r]

SweepInv == TypeInv /\ Excluded /\ PlanDue

\* What has expired stays expired.
LEMMA ExpiredLater ==
  ASSUME NEW S \in SUBSET Thing, NEW l \in Lease, NEW t \in Nat, NEW u \in Nat,
         t <= u, Expired(S, l, t)
  PROVE  Expired(S, l, u)
<1>. DEFINE stated == IF l # NoLease THEN {LeaseExpiry(l)} ELSE StatedExpiries(S)
<1>1. stated \subseteq Nat
  BY DEF LeaseExpiry, Lease, StatedExpiries, Thing
<1>2. S # {} /\ stated # {} /\ \A x \in stated : x < t
  BY DEF Expired
<1>3. S # {} /\ stated # {} /\ \A x \in stated : x < u
  <2>. HIDE DEF stated
  <2>. QED BY <1>1, <1>2
<1>. QED BY <1>3 DEF Expired

LEMMA InitSweep == Init => SweepInv
BY InitType DEF Init, SweepInv, Excluded, PlanDue

LEMMA ExcludedStep == SweepInv /\ [Next]_vars => Excluded'
<1>. SUFFICES ASSUME SweepInv, [Next]_vars PROVE Excluded'
  OBVIOUS
<1>0. /\ cmd \in [Root -> [Env -> {"none", "network", "container", "down"}]]
      /\ cur \in [Root -> SUBSET Env] /\ Excluded
  BY DEF SweepInv, TypeInv, TypeOK
<1>1. ASSUME NEW r \in Root, NEW e \in Env, UserCommand(r, e)
      PROVE  Excluded'
  <2>1. cur' = cur
    BY <1>1 DEF UserCommand, BeginUp, EnsureNetwork, StartService, BeginDown,
                Down, CommandStops, reaping
  <2>2. PICK c : cmd' = [cmd EXCEPT ![r][e] = c]
    BY <1>1 DEF UserCommand, BeginUp, EnsureNetwork, StartService, BeginDown,
                Down, CommandStops, Command
  <2>3. e \notin cur[r]
    BY <1>0, <1>1 DEF UserCommand, BeginUp, EnsureNetwork, StartService,
                BeginDown, Down, CommandStops, LockFree, Excluded
  <2>. QED BY <1>0, <2>1, <2>2, <2>3 DEF Excluded
<1>2. ASSUME NEW r \in Root, NEW e \in Env, Destroy(r, e)
      PROVE  Excluded'
  <2>1. /\ cmd' = cmd
        /\ \/ cmd[r][e] = "none" /\ cur' = [cur EXCEPT ![r] = {e}]
           \/ cur' = cur
    BY <1>2 DEF Destroy, LockFree
  <2>. QED BY <1>0, <2>1 DEF Excluded
<1>3. ASSUME NEW r \in Root,
             Extend(r) \/ SweepEnds(r) \/ SweepStops(r) \/ \E e \in Env : DropLease(r, e)
      PROVE  Excluded'
  <2>1. cmd' = cmd /\ cur' = [cur EXCEPT ![r] = {}]
    BY <1>3 DEF Extend, SweepEnds, SweepStops, DropLease, Idle
  <2>. QED BY <1>0, <2>1 DEF Excluded
<1>4. CASE \/ Tick \/ UNCHANGED vars
           \/ \E e \in Env : BeginTest(e) \/ EndTest(e)
           \/ \E r \in Root : \/ ReadInventory(r) \/ PlanSweep(r)
                              \/ \E e \in Env : BeginExtend(r, e) \/ Teardown(r, e)
  <2>1. cmd' = cmd /\ cur' = cur
    BY <1>4 DEF Tick, vars, BeginTest, EndTest, ReadInventory, PlanSweep,
                BeginExtend, Teardown, reaping
  <2>. QED BY <1>0, <2>1 DEF Excluded
<1>. QED BY <1>1, <1>2, <1>3, <1>4 DEF Next, Reaper

LEMMA PlanDueStep == SweepInv /\ [Next]_vars => PlanDue'
<1>. SUFFICES ASSUME SweepInv, [Next]_vars PROVE PlanDue'
  OBVIOUS
<1>0. /\ TypeOK /\ PlanDue
      /\ cur \in [Root -> SUBSET Env] /\ plan \in [Root -> SUBSET Env]
      /\ spc \in [Root -> {"idle", "extend", "listed", "sweep", "destroy", "drop"}]
      /\ inv \in [Root -> [Env -> SUBSET Thing]]
      /\ leases \in [Root -> [Env -> Lease]] /\ now \in Nat
  BY LifetimeAssumption DEF SweepInv, TypeInv, TypeOK, Time
<1>1. CASE UNCHANGED <<now, leases, reaping>>
  BY <1>0, <1>1 DEF PlanDue, Due, reaping
<1>2. CASE Tick
  <2>1. now' = now + 1 /\ UNCHANGED <<leases, spc, inv, plan, cur>>
    BY <1>2 DEF Tick, reaping
  <2>2. ASSUME NEW r \in Root, NEW e \in Env, Due(r, e)
        PROVE  Due(r, e)'
    <3>1. Expired(inv[r][e], leases[r][e], now')
      BY <1>0, <2>1, <2>2, ExpiredLater DEF Due
    <3>. QED BY <2>1, <3>1 DEF Due
  <2>. QED BY <1>0, <2>1, <2>2 DEF PlanDue
<1>3. ASSUME NEW r \in Root, NEW e \in Env, BeginExtend(r, e)
      PROVE  PlanDue'
  <2>1. /\ spc[r] = "idle" /\ spc' = [spc EXCEPT ![r] = "extend"]
        /\ inv' = [inv EXCEPT ![r] = things] /\ plan' = [plan EXCEPT ![r] = {e}]
        /\ UNCHANGED <<now, leases, cur>>
    BY <1>3 DEF BeginExtend, Step
  <2>. QED BY <1>0, <2>1 DEF PlanDue, Due
<1>4. ASSUME NEW r \in Root, Idle(r), now' = now,
             \A q \in Root \ {r} : leases'[q] = leases[q]
      PROVE  PlanDue'
  <2>1. /\ spc'[r] = "idle" /\ cur'[r] = {} /\ plan'[r] = {}
        /\ \A q \in Root \ {r} : spc'[q] = spc[q] /\ inv'[q] = inv[q]
             /\ plan'[q] = plan[q] /\ cur'[q] = cur[q]
    BY <1>0, <1>4, IdleLemma
  <2>. QED BY <1>0, <1>4, <2>1 DEF PlanDue, Due
<1>5. ASSUME NEW r \in Root, ReadInventory(r)
      PROVE  PlanDue'
  <2>1. /\ spc[r] = "idle" /\ spc' = [spc EXCEPT ![r] = "listed"]
        /\ inv' = [inv EXCEPT ![r] = things]
        /\ UNCHANGED <<now, leases, cur, plan>>
    BY <1>5 DEF ReadInventory, Step
  <2>. QED BY <1>0, <2>1 DEF PlanDue, Due
<1>6. ASSUME NEW r \in Root, PlanSweep(r)
      PROVE  PlanDue'
  <2>1. /\ spc[r] = "listed" /\ spc' = [spc EXCEPT ![r] = "sweep"]
        /\ plan' = [plan EXCEPT ![r] = {e \in Env : Due(r, e)}]
        /\ UNCHANGED <<now, leases, cur, inv>>
    BY <1>6 DEF PlanSweep, Step, Due
  <2>2. plan'[r] = {e \in Env : Due(r, e)}
    BY <1>0, <2>1
  <2>. QED BY <1>0, <2>1, <2>2 DEF PlanDue, Due
<1>7. ASSUME NEW r \in Root, NEW e \in Env, Destroy(r, e)
      PROVE  PlanDue'
  <2>1. /\ spc[r] = "sweep" /\ e \in plan[r] /\ plan' = [plan EXCEPT ![r] = @ \ {e}]
        /\ \/ /\ cur' = [cur EXCEPT ![r] = {e}]
              /\ spc' = [spc EXCEPT ![r] = "destroy"]
           \/ UNCHANGED <<cur, spc>>
        /\ UNCHANGED <<now, leases, inv>>
    BY <1>7 DEF Destroy, Step
  <2>. QED BY <1>0, <2>1 DEF PlanDue, Due
<1>8. ASSUME NEW r \in Root, NEW e \in Env, Teardown(r, e)
      PROVE  PlanDue'
  <2>1. /\ spc[r] = "destroy" /\ spc' = [spc EXCEPT ![r] = "drop"]
        /\ UNCHANGED <<now, leases, inv, plan, cur>>
    BY <1>8 DEF Teardown, Step
  <2>. QED BY <1>0, <2>1 DEF PlanDue, Due
<1>9. ASSUME NEW r \in Root, NEW e \in Env, DropLease(r, e)
      PROVE  PlanDue'
  <2>1. /\ spc[r] = "drop" /\ spc' = [spc EXCEPT ![r] = "sweep"] /\ e \in cur[r]
        /\ cur' = [cur EXCEPT ![r] = {}]
        /\ leases' = leases \/ leases' = [leases EXCEPT ![r][e] = NoLease]
        /\ UNCHANGED <<now, inv, plan>>
    BY <1>9 DEF DropLease, Step
  <2>2. \A d \in Env, q \in Root : d # e \/ q # r => leases'[q][d] = leases[q][d]
    BY <1>0, <2>1
  <2>. QED BY <1>0, <2>1, <2>2 DEF PlanDue, Due
<1>10. ASSUME NEW r \in Root, Extend(r)
       PROVE  PlanDue'
  <2>1. Idle(r) /\ now' = now
    BY <1>10 DEF Extend
  <2>2. \A q \in Root \ {r} : leases'[q] = leases[q]
    BY <1>0, <1>10 DEF Extend
  <2>. QED BY <1>4, <2>1, <2>2
<1>11. ASSUME NEW r \in Root, SweepEnds(r) \/ SweepStops(r)
       PROVE  PlanDue'
  BY <1>4, <1>11 DEF SweepEnds, SweepStops
<1>12. CASE \/ \E r \in Root, e \in Env : UserCommand(r, e)
            \/ \E e \in Env : BeginTest(e) \/ EndTest(e)
            \/ UNCHANGED vars
  BY <1>1, <1>12 DEF UserCommand, BeginUp, EnsureNetwork, StartService, BeginDown,
                Down, CommandStops, BeginTest, EndTest, vars, reaping
<1>. QED BY <1>2, <1>3, <1>5, <1>6, <1>7, <1>8, <1>9, <1>10, <1>11, <1>12
         DEF Next, Reaper

LEMMA SweepStep == SweepInv /\ [Next]_vars => SweepInv'
BY TypeStep, ExcludedStep, PlanDueStep DEF SweepInv

(* Where every command on the machine runs from one checkout, a sweep      *)
(* never takes an environment a command holds, whatever their number and   *)
(* however they interleave: reap.go Destroy holds the environment's lock   *)
(* from before the teardown until after the lease is dropped.              *)
THEOREM OneCheckoutSparesCommands ==
  ASSUME NEW here, Root = {here}
  PROVE  Spec => []SweepSparesCommands
<1>1. SweepInv => SweepSparesCommands
  BY DEF SweepInv, Excluded, SweepSparesCommands, Taking
<1>. QED BY <1>1, InitSweep, SweepStep, PTL DEF Spec

(* From however many checkouts: an environment nobody changed since the    *)
(* sweep looked loses its resources to that sweep only when its own lease, *)
(* or failing that every expiry it states, has passed (reaper.go Plan).    *)
THEOREM StatedLifetimeHonoured == Spec => SweepHonoursStatedLifetime
<1>1. SweepInv /\ [Next]_vars =>
        [\A r \in Root, e \in Env :
           /\ spc[r] = "destroy" /\ spc'[r] = "drop" /\ e \in cur[r]
           /\ inv[r][e] = things[e]
           => Overdue(r, e)]_vars
  <2>. SUFFICES ASSUME SweepInv, NEW r \in Root, NEW e \in Env,
                       spc[r] = "destroy", e \in cur[r], inv[r][e] = things[e]
                PROVE  Overdue(r, e)
    OBVIOUS
  <2>1. Expired(things[e], leases[r][e], now)
    BY DEF SweepInv, PlanDue, Due
  <2>2. /\ things[e] \in SUBSET Thing /\ now \in Nat /\ now > 0
        /\ leases[r][e] \in Lease /\ leases[r][e].at <= leases[r][e].ceiling
    BY LifetimeAssumption DEF SweepInv, TypeInv, TypeOK, Time, UnderCeiling
  <2>3. CASE leases[r][e] # NoLease
    BY <2>1, <2>2, <2>3 DEF Expired, LeaseExpiry, Lease, Overdue
  <2>4. CASE leases[r][e] = NoLease
    <3>1. StatedExpiries(things[e]) # {} /\ \A x \in StatedExpiries(things[e]) : x < now
      BY <2>1, <2>4 DEF Expired
    <3>2. \E x \in things[e] : x.until # 0
      BY <3>1 DEF StatedExpiries
    <3>3. \A x \in things[e] : x.until = 0 \/ x.until < now
      BY <3>1 DEF StatedExpiries
    <3>. QED BY <2>2, <2>4, <3>2, <3>3 DEF Overdue
  <2>. QED BY <2>3, <2>4
<1>. QED BY <1>1, InitSweep, SweepStep, PTL DEF Spec, SweepHonoursStatedLifetime

-----------------------------------------------------------------------------
(* Extensions *)

\* Nothing is younger than now.
Born == \A e \in Env : \A x \in things[e] : x.born <= now
BornInv == \A r \in Root, e \in Env : \A x \in inv[r][e] : x.born <= now

\* A network that is used as it is survives every af up: the age of this life
\* can be read off the resources, and off every inventory an extension uses.
Old(S, e) == \E x \in S : x.born <= began[e]
Rooted == \A e \in Env : ~torn[e] => Old(Part(things[e], "network"), e)
Seen ==
  \A r \in Root : spc[r] = "extend" =>
    \A e \in plan[r] : ~torn[e] => Old(inv[r][e], e)

\* A lease belongs to a life that has begun; one of the present life ends
\* within the longest max_ttl of it.
Bounded ==
  \A r \in Root, e \in Env :
    /\ leases[r][e].life <= life[e]
    /\ leases[r][e].life = life[e] /\ life[e] > 0
         => leases[r][e].ceiling <= began[e] + LongestTTL

AgeInv == TypeInv /\ Born /\ BornInv /\ Rooted /\ Seen /\ Bounded

LEMMA LongestLemma == LongestTTL \in Nat /\ \A m \in MaxTTLs : m <= LongestTTL
<1>1. \E m \in MaxTTLs : \A n \in MaxTTLs : n <= m
  BY LifetimeAssumption
<1>2. LongestTTL \in MaxTTLs /\ \A n \in MaxTTLs : n <= LongestTTL
  BY <1>1 DEF LongestTTL
<1>. QED BY <1>2, LifetimeAssumption

LEMMA InitAge == Init => AgeInv
<1>. SUFFICES ASSUME Init PROVE AgeInv
  OBVIOUS
<1>1. Born /\ BornInv /\ Rooted /\ Seen
  BY DEF Init, Nothing, Born, BornInv, Rooted, Seen
<1>2. Bounded
  BY DEF Init, NoLease, Bounded
<1>. QED BY <1>1, <1>2, InitType DEF AgeInv

LEMMA AgeTypes ==
  ASSUME AgeInv
  PROVE  /\ TypeOK
         /\ now \in Nat /\ things \in [Env -> SUBSET Thing]
         /\ leases \in [Root -> [Env -> Lease]]
         /\ spc \in [Root -> {"idle", "extend", "listed", "sweep", "destroy", "drop"}]
         /\ inv \in [Root -> [Env -> SUBSET Thing]]
         /\ plan \in [Root -> SUBSET Env]
         /\ life \in [Env -> Nat] /\ began \in [Env -> Nat]
         /\ torn \in [Env -> BOOLEAN]
         /\ \A x \in Thing : x.born \in Nat
BY LifetimeAssumption DEF AgeInv, TypeInv, TypeOK, Time, Thing

\* A step that neither ages, adds nor takes anything and starts no life.
LEMMA AgeKept ==
  ASSUME AgeInv, UNCHANGED <<now, things, life, began, torn>>,
         \A r \in Root : \/ spc'[r] # "extend"
                         \/ UNCHANGED <<spc[r], plan[r], inv[r]>>,
         \A r \in Root : inv'[r] \in {inv[r], things, Nothing},
         \A r \in Root, e \in Env : leases'[r][e] \in {leases[r][e], NoLease},
         TypeInv'
  PROVE  AgeInv'
<1>1. Born' /\ Rooted'
  BY DEF AgeInv, Born, Rooted, Old
<1>2. BornInv'
  <2>. SUFFICES ASSUME NEW r \in Root, NEW e \in Env, NEW x \in inv'[r][e]
                PROVE  x.born <= now
    BY DEF BornInv, AgeInv
  <2>1. inv'[r] = inv[r] \/ inv'[r] = things \/ inv'[r] = Nothing
    OBVIOUS
  <2>2. x \in inv[r][e] \/ x \in things[e]
    BY <2>1 DEF Nothing
  <2>. QED BY <2>2 DEF AgeInv, Born, BornInv
<1>3. Seen'
  BY DEF AgeInv, Seen, Old
<1>4. Bounded'
  <2>. SUFFICES ASSUME NEW r \in Root, NEW e \in Env
                PROVE  /\ leases'[r][e].life <= life[e]
                       /\ leases'[r][e].life = life[e] /\ life[e] > 0
                            => leases'[r][e].ceiling <= began[e] + LongestTTL
    BY DEF Bounded
  <2>1. NoLease.life = 0
    BY DEF NoLease
  <2>2. life[e] \in Nat
    BY AgeTypes
  <2>. QED BY <2>1, <2>2 DEF AgeInv, Bounded
<1>. QED BY <1>1, <1>2, <1>3, <1>4 DEF AgeInv

\* A step of af up or a teardown: what changes is one environment's resources
\* and its life.
LEMMA AgeOfLives ==
  ASSUME AgeInv, TypeInv', UNCHANGED <<now, leases, reaping>>, Born', Rooted',
         NEW e \in Env, UNCHANGED <<life, began>>
                        \/ /\ life' = [life EXCEPT ![e] = @ + 1]
                           /\ began' = [began EXCEPT ![e] = now],
         \A d \in Env : \/ torn'[d]
                        \/ ~torn[d] /\ began'[d] = began[d]
                        \/ began'[d] = now
  PROVE  AgeInv'
<1>1. UNCHANGED <<now, leases, spc, inv, plan>>
  BY DEF reaping
<1>2. BornInv'
  BY <1>1 DEF AgeInv, BornInv
<1>3. Seen'
  <2>. SUFFICES ASSUME NEW r \in Root, spc[r] = "extend", NEW d \in plan[r], ~torn'[d]
                PROVE  Old(inv[r][d], d)'
    BY <1>1 DEF Seen, Old
  <2>1. d \in Env
    BY AgeTypes
  <2>2. CASE ~torn[d] /\ began'[d] = began[d]
    BY <1>1, <2>2 DEF AgeInv, Seen, Old
  <2>3. CASE began'[d] = now
    <3>1. inv[r][d] # {}
      BY DEF AgeInv, TypeInv, Listed
    <3>2. \A x \in inv[r][d] : x.born <= now
      BY <2>1 DEF AgeInv, BornInv
    <3>. QED BY <1>1, <2>3, <3>1, <3>2 DEF Old
  <2>. QED BY <2>1, <2>2, <2>3
<1>4. Bounded'
  <2>1. CASE UNCHANGED <<life, began>>
    BY <1>1, <2>1 DEF AgeInv, Bounded
  <2>2. CASE /\ life' = [life EXCEPT ![e] = @ + 1]
             /\ began' = [began EXCEPT ![e] = now]
    <3>. SUFFICES ASSUME NEW r \in Root, NEW d \in Env
                  PROVE  /\ leases[r][d].life <= life'[d]
                         /\ leases[r][d].life = life'[d] /\ life'[d] > 0
                              => leases[r][d].ceiling <= began'[d] + LongestTTL
      BY <1>1 DEF Bounded
    <3>1. life[d] \in Nat /\ life \in [Env -> Nat] /\ began \in [Env -> Nat]
          /\ leases[r][d].life <= life[d] /\ leases[r][d].life \in Nat
      BY AgeTypes, LifetimeAssumption DEF AgeInv, Bounded, Lease
    <3>2. CASE d = e
      <4>1. life'[d] = life[d] + 1
        BY <2>2, <3>1, <3>2
      <4>. QED BY <3>1, <4>1
    <3>3. CASE d # e
      <4>1. life'[d] = life[d] /\ began'[d] = began[d]
        BY <2>2, <3>1, <3>3
      <4>. QED BY <4>1 DEF AgeInv, Bounded
    <3>. QED BY <3>2, <3>3
  <2>. QED BY <2>1, <2>2
<1>. QED BY <1>2, <1>3, <1>4 DEF AgeInv

LEMMA AgeEnsureNetwork ==
  ASSUME AgeInv, TypeInv', NEW r \in Root, NEW e \in Env, EnsureNetwork(r, e)
  PROVE  AgeInv'
<1>1. UNCHANGED <<now, leases, reaping>>
  BY DEF EnsureNetwork
<1>2. \/ Part(things[e], "network") # {} /\ things' = things
      \/ \E ttl \in TTLs :
           things' = [things EXCEPT ![e] = @ \cup {Stamped("network", ttl)}]
  BY DEF EnsureNetwork
<1>3. \A ttl \in TTLs : /\ Stamped("network", ttl).born = now
                        /\ Stamped("network", ttl).part = "network"
  BY AgeTypes, StampedLemma
<1>4. /\ Born' /\ Part(things'[e], "network") # {}
      /\ \A d \in Env : things[d] \subseteq things'[d]
  <2>1. things \in [Env -> SUBSET Thing] /\ now \in Nat
    BY AgeTypes
  <2>2. CASE things' = things /\ Part(things[e], "network") # {}
    BY <1>1, <2>2 DEF AgeInv, Born
  <2>3. ASSUME NEW ttl \in TTLs,
               things' = [things EXCEPT ![e] = @ \cup {Stamped("network", ttl)}]
        PROVE  /\ Born' /\ Part(things'[e], "network") # {}
               /\ \A d \in Env : things[d] \subseteq things'[d]
    <3>1. things'[e] = things[e] \cup {Stamped("network", ttl)}
          /\ \A d \in Env \ {e} : things'[d] = things[d]
      BY <2>1, <2>3
    <3>2. Born'
      BY <1>1, <1>3, <2>1, <3>1 DEF AgeInv, Born
    <3>3. Part(things'[e], "network") # {}
      BY <1>3, <3>1 DEF Part
    <3>. QED BY <3>1, <3>2, <3>3
  <2>. QED BY <1>2, <2>2, <2>3
<1>5. \/ /\ life' = [life EXCEPT ![e] = @ + 1]
         /\ began' = [began EXCEPT ![e] = now]
         /\ torn' = [torn EXCEPT ![e] = FALSE]
      \/ UNCHANGED <<life, began, torn>> /\ ~torn[e]
  BY DEF EnsureNetwork, NewLife, history
<1>6. \A d \in Env : \/ torn'[d]
                     \/ ~torn[d] /\ began'[d] = began[d]
                     \/ d = e /\ began'[d] = now
  <2>1. torn \in [Env -> BOOLEAN] /\ began \in [Env -> Nat]
    BY AgeTypes
  <2>. QED BY <1>5, <2>1
<1>7. Rooted'
  <2>. SUFFICES ASSUME NEW d \in Env, ~torn'[d]
                PROVE  Old(Part(things[d], "network"), d)'
    BY DEF Rooted
  <2>1. CASE ~torn[d] /\ began'[d] = began[d]
    <3>1. Old(Part(things[d], "network"), d)
      BY <2>1 DEF AgeInv, Rooted
    <3>. QED BY <1>4, <2>1, <3>1 DEF Old, Part
  <2>2. CASE d = e /\ began'[d] = now
    <3>1. \A x \in things'[e] : x.born <= now
      BY <1>1, <1>4 DEF Born
    <3>. QED BY <1>4, <2>2, <3>1 DEF Old, Part
  <2>. QED BY <1>6, <2>1, <2>2
<1>8. UNCHANGED <<life, began>> \/ /\ life' = [life EXCEPT ![e] = @ + 1]
                                   /\ began' = [began EXCEPT ![e] = now]
  BY <1>5
<1>. QED BY <1>1, <1>4, <1>6, <1>7, <1>8, AgeOfLives

LEMMA AgeStartService ==
  ASSUME AgeInv, TypeInv', NEW r \in Root, NEW e \in Env, StartService(r, e)
  PROVE  AgeInv'
<1>1. UNCHANGED <<now, leases, reaping>> /\ UNCHANGED <<life, began, torn>>
  BY DEF StartService, history
<1>2. \/ things' = things
      \/ \E ttl \in TTLs :
           things' = [things EXCEPT ![e] =
                        Part(@, "network") \cup {Stamped("container", ttl)}]
  BY DEF StartService
<1>3. \A ttl \in TTLs : Stamped("container", ttl).born = now
  BY AgeTypes, StampedLemma
<1>4. Born' /\ \A d \in Env : Part(things[d], "network") \subseteq things'[d]
  <2>1. things \in [Env -> SUBSET Thing] /\ now \in Nat
    BY AgeTypes
  <2>2. CASE things' = things
    BY <1>1, <2>2 DEF AgeInv, Born, Part
  <2>3. ASSUME NEW ttl \in TTLs,
               things' = [things EXCEPT ![e] =
                            Part(@, "network") \cup {Stamped("container", ttl)}]
        PROVE  Born' /\ \A d \in Env : Part(things[d], "network") \subseteq things'[d]
    <3>1. things'[e] = Part(things[e], "network") \cup {Stamped("container", ttl)}
          /\ \A d \in Env \ {e} : things'[d] = things[d]
      BY <2>1, <2>3
    <3>2. Born'
      BY <1>1, <1>3, <2>1, <3>1 DEF AgeInv, Born, Part
    <3>. QED BY <3>1, <3>2 DEF Part
  <2>. QED BY <1>2, <2>2, <2>3
<1>5. Rooted'
  <2>. SUFFICES ASSUME NEW d \in Env, ~torn[d]
                PROVE  Old(Part(things[d], "network"), d)'
    BY <1>1 DEF Rooted
  <2>1. Old(Part(things[d], "network"), d)
    BY DEF AgeInv, Rooted
  <2>. QED BY <1>1, <1>4, <2>1 DEF Old, Part
<1>6. \A d \in Env : torn'[d] \/ (~torn[d] /\ began'[d] = began[d]) \/ began'[d] = now
  BY <1>1
<1>. QED BY <1>1, <1>4, <1>5, <1>6, AgeOfLives

LEMMA AgeTornDown ==
  ASSUME AgeInv, TypeInv', NEW e \in Env, TornDown(e),
         UNCHANGED <<now, leases, inv, plan>>,
         \A r \in Root : spc'[r] = spc[r] \/ spc'[r] # "extend"
  PROVE  AgeInv'
<1>1. /\ UNCHANGED <<life, began>>
      /\ \A d \in Env : things'[d] \subseteq things[d]
      /\ \A d \in Env : ~torn'[d] => ~torn[d] /\ things'[d] = things[d]
  BY AgeTypes, TornDownLemma
<1>2. Born' /\ BornInv'
  BY <1>1 DEF AgeInv, Born, BornInv
<1>3. Rooted'
  <2>. SUFFICES ASSUME NEW d \in Env, ~torn'[d]
                PROVE  Old(Part(things[d], "network"), d)'
    BY DEF Rooted
  <2>1. Old(Part(things[d], "network"), d) /\ things'[d] = things[d]
    BY <1>1 DEF AgeInv, Rooted
  <2>. QED BY <1>1, <2>1 DEF Old, Part
<1>4. Seen'
  <2>. SUFFICES ASSUME NEW r \in Root, spc'[r] = "extend", NEW d \in plan[r], ~torn'[d]
                PROVE  Old(inv[r][d], d)'
    BY DEF Seen, Old
  <2>1. d \in Env
    BY AgeTypes
  <2>2. Old(inv[r][d], d)
    BY <1>1, <2>1 DEF AgeInv, Seen
  <2>. QED BY <1>1, <2>2 DEF Old
<1>5. Bounded'
  BY <1>1 DEF AgeInv, Bounded
<1>. QED BY <1>2, <1>3, <1>4, <1>5 DEF AgeInv

LEMMA AgeExtend ==
  ASSUME AgeInv, TypeInv', NEW r \in Root, Extend(r)
  PROVE  AgeInv'
<1>1. PICK e \in plan[r], max \in MaxTTLs :
        leases' = [leases EXCEPT ![r][e] =
                     Grant(@, inv[r][e], max, until[r],
                           IF torn[e] THEN 0 ELSE life[e])]
  BY DEF Extend
<1>. DEFINE lf == IF torn[e] THEN 0 ELSE life[e]
            g == Grant(leases[r][e], inv[r][e], max, until[r], lf)
<1>2. /\ Idle(r) /\ UNCHANGED <<now, things>> /\ UNCHANGED <<life, began, torn>>
      /\ spc[r] = "extend"
  BY DEF Extend, history
<1>3. /\ e \in Env /\ leases[r][e] \in Lease /\ inv[r][e] \in SUBSET Thing
      /\ leases \in [Root -> [Env -> Lease]] /\ life[e] \in Nat /\ began[e] \in Nat
      /\ inv[r][e] # {}
  BY <1>2, AgeTypes DEF AgeInv, TypeInv, Listed
<1>4. /\ leases'[r][e] = g
      /\ \A q \in Root, d \in Env : q # r \/ d # e => leases'[q][d] = leases[q][d]
  BY <1>1, <1>3
<1>5. /\ spc'[r] = "idle"
      /\ \A q \in Root \ {r} : spc'[q] = spc[q] /\ inv'[q] = inv[q] /\ plan'[q] = plan[q]
  BY <1>2, AgeTypes, IdleLemma
<1>6. inv'[r] = Nothing
  BY <1>2, AgeTypes DEF Idle
<1>7. Born' /\ Rooted'
  BY <1>2 DEF AgeInv, Born, Rooted, Old
<1>8. BornInv'
  BY <1>2, <1>5, <1>6 DEF AgeInv, BornInv, Nothing
<1>9. Seen'
  BY <1>2, <1>5 DEF AgeInv, Seen, Old
<1>10. /\ g.life <= life[e]
       /\ g.life = life[e] /\ life[e] > 0 => g.ceiling <= began[e] + LongestTTL
  <2>1. CASE leases[r][e] # NoLease
    <3>1. g.life = leases[r][e].life /\ g.ceiling = leases[r][e].ceiling
      BY <2>1 DEF Grant
    <3>. HIDE DEF g
    <3>. QED BY <1>3, <3>1 DEF AgeInv, Bounded
  <2>2. CASE leases[r][e] = NoLease
    <3>1. g.life = lf /\ g.ceiling = CreatedAt(inv[r][e]) + max
      BY <2>2 DEF Grant
    <3>2. max \in Nat /\ max <= LongestTTL /\ LongestTTL \in Nat
      BY LongestLemma, LifetimeAssumption
    <3>3. CreatedAt(inv[r][e]) \in Nat
          /\ \A x \in inv[r][e] : CreatedAt(inv[r][e]) <= x.born
      BY <1>3, CreatedAtLemma
    <3>. HIDE DEF g
    <3>4. CASE torn[e]
      BY <1>3, <3>1, <3>4
    <3>5. CASE ~torn[e]
      <4>1. PICK x \in inv[r][e] : x.born <= began[e]
        BY <1>2, <3>5 DEF AgeInv, Seen, Old
      <4>2. x.born \in Nat
        BY <1>3, AgeTypes
      <4>3. CreatedAt(inv[r][e]) <= began[e]
        BY <1>3, <3>3, <4>1, <4>2
      <4>4. g.ceiling <= began[e] + LongestTTL
        BY <1>3, <3>1, <3>2, <3>3, <4>3
      <4>. QED BY <1>3, <3>1, <3>5, <4>4
    <3>. QED BY <3>4, <3>5
  <2>. QED BY <2>1, <2>2
<1>11. Bounded'
  <2>. HIDE DEF g
  <2>. QED BY <1>2, <1>3, <1>4, <1>10 DEF AgeInv, Bounded
<1>. QED BY <1>7, <1>8, <1>9, <1>11 DEF AgeInv

LEMMA AgeStep == AgeInv /\ [Next]_vars => AgeInv'
<1>. SUFFICES ASSUME AgeInv, [Next]_vars PROVE AgeInv'
  OBVIOUS
<1>0. TypeInv' /\ TypeOK
  BY TypeStep, AgeTypes DEF AgeInv
<1>1. ASSUME NEW r \in Root, NEW e \in Env, UserCommand(r, e)
      PROVE  AgeInv'
  <2>1. CASE EnsureNetwork(r, e)
    BY <1>0, <2>1, AgeEnsureNetwork
  <2>2. CASE StartService(r, e)
    BY <1>0, <2>2, AgeStartService
  <2>3. CASE Down(r, e)
    BY <1>0, <2>3, AgeTornDown DEF Down, reaping
  <2>4. CASE BeginUp(r, e) \/ BeginDown(r, e) \/ CommandStops(r, e)
    <3>1. UNCHANGED <<now, things, life, began, torn, leases, spc, plan, inv>>
      BY <2>4 DEF BeginUp, BeginDown, CommandStops, reaping, history
    <3>. QED BY <1>0, <3>1, AgeKept
  <2>. QED BY <1>1, <2>1, <2>2, <2>3, <2>4 DEF UserCommand
<1>2. ASSUME NEW r \in Root, NEW e \in Env, BeginExtend(r, e)
      PROVE  AgeInv'
  <2>1. /\ inv' = [inv EXCEPT ![r] = things] /\ plan' = [plan EXCEPT ![r] = {e}]
        /\ spc' = [spc EXCEPT ![r] = "extend"]
        /\ UNCHANGED <<now, things, leases>> /\ UNCHANGED <<life, began, torn>>
    BY <1>2 DEF BeginExtend, Step, history
  <2>2. /\ inv'[r] = things /\ plan'[r] = {e}
        /\ \A q \in Root \ {r} : spc'[q] = spc[q] /\ inv'[q] = inv[q] /\ plan'[q] = plan[q]
    BY <2>1, AgeTypes
  <2>3. Born' /\ Rooted' /\ Bounded'
    BY <2>1 DEF AgeInv, Born, Rooted, Old, Bounded
  <2>4. BornInv'
    BY <2>1, <2>2 DEF AgeInv, Born, BornInv
  <2>5. Seen'
    <3>1. ~torn[e] => Old(things[e], e)
      BY DEF AgeInv, Rooted, Old, Part
    <3>. QED BY <2>1, <2>2, <3>1 DEF AgeInv, Seen, Old
  <2>. QED BY <1>0, <2>3, <2>4, <2>5 DEF AgeInv
<1>3. ASSUME NEW r \in Root, Extend(r)
      PROVE  AgeInv'
  BY <1>0, <1>3, AgeExtend
<1>4. ASSUME NEW r \in Root, SweepEnds(r) \/ SweepStops(r)
      PROVE  AgeInv'
  <2>1. Idle(r) /\ UNCHANGED <<now, things, leases>> /\ UNCHANGED <<life, began, torn>>
    BY <1>4 DEF SweepEnds, SweepStops, history
  <2>2. /\ spc'[r] = "idle"
        /\ \A q \in Root \ {r} : spc'[q] = spc[q] /\ inv'[q] = inv[q] /\ plan'[q] = plan[q]
    BY <1>0, <2>1, IdleLemma
  <2>3. inv'[r] = Nothing
    BY <2>1, AgeTypes DEF Idle
  <2>. QED BY <1>0, <2>1, <2>2, <2>3, AgeKept
<1>5. ASSUME NEW r \in Root,
             \/ ReadInventory(r) \/ PlanSweep(r)
             \/ \E e \in Env : Destroy(r, e) \/ DropLease(r, e)
      PROVE  AgeInv'
  <2>1. UNCHANGED <<now, things>> /\ UNCHANGED <<life, began, torn>>
    BY <1>5 DEF ReadInventory, PlanSweep, Destroy, DropLease, history
  <2>2. spc'[r] # "extend" /\ \A q \in Root \ {r} : spc'[q] = spc[q] /\ plan'[q] = plan[q]
    BY <1>5, AgeTypes DEF ReadInventory, PlanSweep, Destroy, DropLease, Step
  <2>3. inv' = inv \/ inv' = [inv EXCEPT ![r] = things]
    BY <1>5 DEF ReadInventory, PlanSweep, Destroy, DropLease
  <2>4. \A q \in Root : inv'[q] = inv[q] \/ (q = r /\ inv'[q] = things)
    BY <2>3, AgeTypes
  <2>5. \A q \in Root, e \in Env : leases'[q][e] \in {leases[q][e], NoLease}
    <3>1. leases' = leases \/ \E e \in Env : leases' = [leases EXCEPT ![r][e] = NoLease]
      BY <1>5 DEF ReadInventory, PlanSweep, Destroy, DropLease
    <3>2. leases \in [Root -> [Env -> Lease]]
      BY AgeTypes
    <3>3. ASSUME NEW d \in Env, leases' = [leases EXCEPT ![r][d] = NoLease],
                 NEW q \in Root, NEW e \in Env
          PROVE  leases'[q][e] = leases[q][e] \/ leases'[q][e] = NoLease
      BY <3>2, <3>3
    <3>. QED BY <3>1, <3>3
  <2>. QED BY <1>0, <2>1, <2>2, <2>4, <2>5, AgeKept
<1>6. ASSUME NEW r \in Root, NEW e \in Env, Teardown(r, e)
      PROVE  AgeInv'
  <2>1. TornDown(e) /\ UNCHANGED <<now, leases, inv, plan>>
        /\ spc' = [spc EXCEPT ![r] = "drop"]
    BY <1>6 DEF Teardown, Step
  <2>2. \A q \in Root : spc'[q] = spc[q] \/ spc'[q] # "extend"
    BY <2>1, AgeTypes
  <2>. QED BY <1>0, <2>1, <2>2, AgeTornDown
<1>7. CASE Tick
  <2>1. now' = now + 1 /\ now \in Nat /\ UNCHANGED <<things, leases, life, began, torn>>
        /\ UNCHANGED <<spc, inv, plan>>
    BY <1>7, AgeTypes DEF Tick, reaping, history
  <2>2. Born' /\ BornInv'
    BY <2>1, AgeTypes DEF AgeInv, Born, BornInv
  <2>3. Rooted' /\ Seen' /\ Bounded'
    BY <2>1 DEF AgeInv, Rooted, Seen, Bounded, Old
  <2>. QED BY <1>0, <2>2, <2>3 DEF AgeInv
<1>8. CASE UNCHANGED vars \/ \E e \in Env : BeginTest(e) \/ EndTest(e)
  <2>1. UNCHANGED <<now, things, life, began, torn, leases, spc, plan, inv>>
    BY <1>8 DEF vars, BeginTest, EndTest, reaping, history
  <2>. QED BY <1>0, <2>1, AgeKept
<1>. QED BY <1>1, <1>2, <1>3, <1>4, <1>5, <1>6, <1>7, <1>8 DEF Next, Reaper

(* However many extensions are taken out, from however many checkouts and  *)
(* with whatever max_ttl their manifests state, and whatever af up and the *)
(* sweeps replace or remove in between, no lease outlasts the longest      *)
(* max_ttl counted from when this life of the environment began (lease.go  *)
(* Extend keeps the first ceiling; createdAt is the oldest resource).      *)
THEOREM ExtensionsStayBounded == Spec => []ExtensionsAreBounded
<1>1. AgeInv => ExtensionsAreBounded
  <2>. SUFFICES ASSUME AgeInv, NEW r \in Root, NEW e \in Env,
                       leases[r][e].life = life[e], life[e] > 0
                PROVE  leases[r][e].at <= began[e] + LongestTTL
    BY DEF ExtensionsAreBounded
  <2>1. leases[r][e].ceiling <= began[e] + LongestTTL
    BY DEF AgeInv, Bounded
  <2>2. leases[r][e].at <= leases[r][e].ceiling
    BY DEF AgeInv, TypeInv, UnderCeiling
  <2>3. leases[r][e] \in Lease /\ began[e] \in Nat /\ LongestTTL \in Nat
    BY AgeTypes, LongestLemma
  <2>. QED BY <2>1, <2>2, <2>3 DEF Lease
<1>. QED BY <1>1, InitAge, AgeStep, PTL DEF Spec

=============================================================================

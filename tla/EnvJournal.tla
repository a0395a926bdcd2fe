------------------------------ MODULE EnvJournal ------------------------------
(***************************************************************************)
(* One environment's life as seen by its resource journal: af up records   *)
(* an intent before every create and a commit after some of them           *)
(* (journal.go, env.go Up and branchFrom, datastores.go), af down sweeps,  *)
(* destroys and finally replays the journal (env.go teardown,              *)
(* reconcile.go, journal.go Replay).  Providers fail at will and the       *)
(* process dies between any two calls.                                     *)
(*                                                                         *)
(* The environment lock is taken as exclusive here: one session at a time. *)
(* BranchLock says when it is.                                             *)
(***************************************************************************)
EXTENDS Integers, Sequences, FiniteSets

CONSTANTS
  DbProviders,  \* database providers a manifest selects in the course of time
  Docker,       \* the provider name older records carry, whoever made them
  RefOnly,      \* providers whose Destroy needs the recorded reference
  Stores,       \* datastores besides the database
  Networks,     \* networks the runtime creates
  Containers,   \* containers it starts on them
  Deletable,    \* whether replay has deleters for this runtime's kinds
  Interrupts,   \* whether somebody may interrupt af down
  Meddling,     \* whether somebody may remove containers by hand
  Corrupts,     \* whether the state database may be found corrupt
  MaxUps        \* bound: times af up is run

(* A resource is named by the key its records carry: the database branch   *)
(* by the provider that makes it.                                          *)
Swept == Networks \cup Containers
Res == DbProviders \cup Stores \cup Swept

ASSUME JournalAssumption ==
  /\ DbProviders # {}
  /\ RefOnly \subseteq DbProviders
  /\ DbProviders \cap (Stores \cup Swept) = {}
  /\ Stores \cap Swept = {}
  /\ Networks \cap Containers = {}
  /\ Docker \notin Stores \cup Swept
  /\ Deletable \in BOOLEAN
  /\ Interrupts \in BOOLEAN
  /\ Meddling \in BOOLEAN
  /\ Corrupts \in BOOLEAN
  /\ MaxUps \in Nat

VARIABLES
  journal,  \* the journal table, a record's id being its position
  exists,   \* the reference each resource exists under, 0 when it does not
  nextRef,  \* the reference the next created resource gets
  server,   \* whether the local server the stores live on is there
  sel,      \* the database provider the manifest selects
  ups,      \* how often af up was run
  pc,       \* where the session is
  todo,     \* resources Up has not come to
  id,       \* the record Up works on
  made,     \* the reference the provider returned for it
  open,     \* the kinds of resource replay has a deleter for
  left,     \* the records replay has not come to
  pending,  \* whether td.Pending is non-empty
  outcome,  \* how the last af down ended, of this manifest
  lost      \* history: references of what stood when the journal was lost

vars == <<journal, exists, nextRef, server, sel, ups, pc, todo, id, made, open,
          left, pending, outcome, lost>>
session == <<todo, id, made, open, left, pending>>

States == {"intent", "committed", "compensated", "failed"}
Record == [key : Res, state : States, ref : Nat]

PcValues == {"idle", "next", "create", "commit", "partial", "sweep", "destroy",
             "stores", "registry", "replay", "compensate"}

TypeOK ==
  /\ journal \in Seq(Record)
  /\ exists \in [Res -> Nat]
  /\ nextRef \in Nat \ {0}
  /\ sel \in DbProviders
  /\ ups \in 0..MaxUps
  /\ pc \in PcValues
  /\ todo \subseteq Res
  /\ id \in Nat
  /\ made \in Nat
  /\ open \subseteq Res
  /\ left \subseteq DOMAIN journal
  /\ pending \in BOOLEAN
  /\ outcome \in {"none", "clean", "pending"}
  /\ server \in BOOLEAN
  /\ lost \subseteq Nat

Init ==
  /\ journal = <<>>
  /\ exists = [r \in Res |-> 0]
  /\ nextRef = 1
  /\ sel \in DbProviders
  /\ ups = 0
  /\ pc = "idle"
  /\ todo = {} /\ id = 0 /\ made = 0 /\ open = {} /\ left = {}
  /\ pending = FALSE
  /\ outcome = "none"
  /\ server \in {FALSE, Stores # {}}
  /\ lost = {}

-----------------------------------------------------------------------------
(* The journal table *)

Live(i) == journal[i].state # "compensated"
LiveIds == {i \in DOMAIN journal : Live(i)}
LiveFor(r) == {i \in LiveIds : journal[i].key = r}

\* Bug: a deleted resource is filed under a state no query knows.
SetStateDeleted(i, s) ==
  journal' = [journal EXCEPT ![i].state =
                IF s = "compensated" THEN "deleted" ELSE s]

\* Commit, Compensated and Failed each update one row by its id.
SetState(i, s) == journal' = [journal EXCEPT ![i].state = s]

\* Bug: byIdem does not leave compensated records out.
IntentReusesAny(r) ==
  LET known == {i \in DOMAIN journal : journal[i].key = r}
  IN IF known # {}
     THEN id' \in known /\ UNCHANGED journal
     ELSE /\ journal' = Append(journal, [key |-> r, state |-> "intent", ref |-> 0])
          /\ id' = Len(journal) + 1

\* Bug: a retry records a second intent.
IntentTwice(r) ==
  /\ journal' = Append(journal, [key |-> r, state |-> "intent", ref |-> 0])
  /\ id' = Len(journal) + 1

(* Intent: a live record under the key is handed back, otherwise one is    *)
(* inserted; the unique index covers live records only.                    *)
Intent(r) ==
  IF LiveFor(r) # {}
  THEN id' \in LiveFor(r) /\ UNCHANGED journal
  ELSE /\ journal' = Append(journal, [key |-> r, state |-> "intent", ref |-> 0])
       /\ id' = Len(journal) + 1

Commit(i, ref) ==
  journal' = [journal EXCEPT ![i].state = "committed", ![i].ref = ref]

-----------------------------------------------------------------------------
(* The world *)

Removed(S) == [r \in Res |-> IF r \in S THEN 0 ELSE exists[r]]
Standing(S) == {r \in S : exists[r] # 0}

-----------------------------------------------------------------------------
(* af up *)

\* The session ends and its local state with it.
EndSession ==
  /\ pc' = "idle"
  /\ todo' = {} /\ id' = 0 /\ made' = 0 /\ open' = {} /\ left' = {}
  /\ pending' = FALSE

(* Opening the state database.  One that fails its integrity check is      *)
(* moved aside, and an empty one takes its place.                          *)
OpenState ==
  \/ UNCHANGED <<journal, lost>>
  \/ /\ Corrupts
     /\ journal' = <<>>
     /\ lost' = lost \cup {exists[r] : r \in Standing(Res)}

(* The manifest is edited between two commands.                            *)
SelectProvider ==
  /\ pc = "idle"
  /\ sel' \in DbProviders \ {sel}
  /\ outcome' = "none"
  /\ UNCHANGED <<journal, exists, nextRef, ups, pc, session, server, lost>>

BeginUp ==
  /\ pc = "idle"
  /\ ups < MaxUps
  /\ OpenState
  /\ ups' = ups + 1
  /\ pc' = "next"
  /\ todo' = {sel} \cup Stores \cup Swept
  /\ outcome' = "none"
  /\ UNCHANGED <<exists, nextRef, server, sel, id, made, open, left, pending>>

(* The database comes first, then the stores, the networks and last what   *)
(* runs on them.                                                           *)
Phase(r) == IF r \in DbProviders THEN 1
            ELSE IF r \in Stores THEN 2
            ELSE IF r \in Networks THEN 3 ELSE 4

\* Up comes to r next.
Reaches(r) == r \in todo /\ \A q \in todo : Phase(r) <= Phase(q)

(* A network that is there is used without a record of its own.            *)
ReuseNetwork ==
  /\ pc = "next"
  /\ \E r \in Standing(Networks) : Reaches(r) /\ todo' = todo \ {r}
  /\ UNCHANGED <<journal, exists, nextRef, sel, ups, pc, id, made, open, left,
                 pending, outcome, server, lost>>

(* Every create is recorded before it is attempted.  The first store opens *)
(* them all, and with them the server they live on.                        *)
RecordIntent ==
  /\ pc = "next"
  /\ \E r \in todo \ Standing(Networks) :
       /\ Reaches(r)
       /\ Intent(r)
       /\ todo' = todo \ {r}
       /\ server' = (server \/ (r \in Stores /\ Stores \subseteq todo))
  /\ pc' = "create"
  /\ UNCHANGED <<exists, nextRef, sel, ups, made, open, left, pending, outcome,
                 lost>>

UpReady ==
  /\ pc = "next"
  /\ todo = {}
  /\ EndSession
  /\ UNCHANGED <<journal, exists, nextRef, sel, ups, outcome, server, lost>>

\* A build, a secret, a golden or the journal itself turns Up away.
UpStops ==
  /\ pc \in {"next", "create", "commit", "partial"}
  /\ EndSession
  /\ UNCHANGED <<journal, exists, nextRef, sel, ups, outcome, server, lost>>

Key == journal[id].key

\* A store needs its server.
Hosted(r) == r \in Stores => server

(* Creating what already exists finds it: by name, or by the environment   *)
(* it was annotated with.                                                  *)
Ensure(r) ==
  IF exists[r] # 0
  THEN UNCHANGED <<exists, nextRef>>
  ELSE exists' = [exists EXCEPT ![r] = nextRef] /\ nextRef' = nextRef + 1

(* The provider makes the resource.  Only branches are committed: the      *)
(* runtime has no call after its create.                                   *)
CreateSucceeds ==
  /\ pc = "create"
  /\ Hosted(Key)
  /\ Ensure(Key)
  /\ IF Key \in Swept
     THEN pc' = "next" /\ UNCHANGED made
     ELSE pc' = "commit" /\ made' = exists'[Key]
  /\ UNCHANGED <<journal, sel, ups, todo, id, open, left, pending, outcome,
                 server, lost>>

(* The call fails although the resource was made.  The provider may still  *)
(* have returned its reference, which branchFrom then commits and          *)
(* datastoreGolden does not.                                               *)
CreateFailsLate ==
  /\ pc = "create"
  /\ Hosted(Key)
  /\ Ensure(Key)
  /\ \/ /\ EndSession
     \/ /\ Key \in DbProviders
        /\ pc' = "partial" /\ made' = exists'[Key]
        /\ UNCHANGED <<todo, id, open, left, pending>>
  /\ UNCHANGED <<journal, sel, ups, outcome, server, lost>>

(* An emulator that never answers makes the runtime sweep its own work     *)
(* away before it fails; the records stay.                                 *)
EmulatorFails ==
  /\ pc = "next"
  /\ todo \cap (DbProviders \cup Stores \cup Networks) = {}
  /\ \E kept \in SUBSET Standing(Swept) : exists' = Removed(Swept \ kept)
  /\ EndSession
  /\ UNCHANGED <<journal, nextRef, sel, ups, outcome, server, lost>>

CommitBranch ==
  /\ pc = "commit"
  /\ Commit(id, made)
  /\ pc' = "next"
  /\ UNCHANGED <<exists, nextRef, sel, ups, session, outcome, server, lost>>

CommitPartial ==
  /\ pc = "partial"
  /\ Commit(id, made)
  /\ EndSession
  /\ UNCHANGED <<exists, nextRef, sel, ups, outcome, server, lost>>

-----------------------------------------------------------------------------
(* af down *)

BeginDown ==
  /\ pc = "idle"
  /\ OpenState
  /\ pc' = "sweep"
  /\ outcome' = "none"
  /\ UNCHANGED <<exists, nextRef, server, sel, ups, session>>

(* runtime.Down: what carries the environment's label goes, each on its    *)
(* own; what would not go, or a list that could not be had, is pending.    *)
Sweep ==
  /\ pc = "sweep"
  /\ \E kept \in SUBSET Standing(Swept) :
       /\ exists' = Removed(Swept \ kept)
       /\ pending' \in {kept # {}, TRUE}
  /\ pc' = "destroy"
  /\ UNCHANGED <<journal, nextRef, sel, ups, todo, id, made, open, left,
                 outcome, server, lost>>

(* dbProv.Destroy with the environment's name and no reference: a provider *)
(* that needs the reference has nothing to do and says so with success.    *)
DestroyBranch ==
  /\ pc = "destroy"
  /\ \/ /\ exists' = IF sel \in RefOnly THEN exists ELSE Removed({sel})
        /\ UNCHANGED pending
     \/ /\ sel \notin RefOnly
        /\ pending' = TRUE
        /\ UNCHANGED exists
  /\ pc' = "stores"
  /\ UNCHANGED <<journal, nextRef, sel, ups, todo, id, made, open, left,
                 outcome, server, lost>>

(* datastoreTeardown: stores that cannot be opened are left, and leave     *)
(* replay without their deleters; so do stores whose server is gone, and   *)
(* that is not reported.                                                   *)
DestroyStores ==
  /\ pc = "stores"
  /\ \/ \E kept \in SUBSET Stores :
          /\ server
          /\ exists' = Removed(Stores \ kept)
          /\ pending' = (pending \/ kept # {})
          /\ open' = Stores
     \/ /\ Stores # {}
        /\ pending' = TRUE
        /\ UNCHANGED <<exists, open>>
     \/ ~server /\ UNCHANGED <<exists, open, pending>>
  /\ pc' = "registry"
  /\ UNCHANGED <<journal, nextRef, server, sel, ups, todo, id, made, left,
                 outcome, lost>>

(* deleters, then Pending: the selected provider answers for its own name  *)
(* and for the legacy one; the runtime's kinds need a deleter and a        *)
(* reachable daemon.                                                       *)
Registered(daemon) ==
  open \cup ({sel, Docker} \cap Res)
       \cup (IF Deletable /\ daemon THEN Swept ELSE {})

\* Bug: Pending leaves out the records whose compensation failed before.
BeginReplayOnce ==
  /\ pc = "registry"
  /\ \E daemon \in BOOLEAN : open' = Registered(daemon)
  /\ left' = {i \in LiveIds : journal[i].state # "failed"}
  /\ pc' = "replay"
  /\ UNCHANGED <<journal, exists, nextRef, sel, ups, todo, id, made, pending,
                 outcome, server, lost>>

BeginReplay ==
  /\ pc = "registry"
  /\ \E daemon \in BOOLEAN : open' = Registered(daemon)
  /\ left' = LiveIds
  /\ pc' = "replay"
  /\ UNCHANGED <<journal, exists, nextRef, sel, ups, todo, id, made, pending,
                 outcome, server, lost>>

(* The records cannot be read.  That is reported, unless it is because the *)
(* context was cancelled: reconcile then goes on as after an empty replay. *)
ListFails ==
  /\ pc = "registry"
  /\ \/ outcome' = "pending"
     \/ Interrupts /\ outcome' = IF pending THEN "pending" ELSE "clean"
  /\ EndSession
  /\ UNCHANGED <<journal, exists, nextRef, sel, ups, server, lost>>

\* Newest first.
NextRecord == CHOOSE i \in left : \A j \in left : j <= i

\* Bug: a record without a deleter is passed over silently.
SkipSilently ==
  /\ pc = "replay"
  /\ left # {}
  /\ journal[NextRecord].key \notin open
  /\ left' = left \ {NextRecord}
  /\ UNCHANGED <<journal, exists, nextRef, sel, ups, pc, todo, id, made, open,
                 pending, outcome, server, lost>>

Skip ==
  /\ pc = "replay"
  /\ left # {}
  /\ journal[NextRecord].key \notin open
  /\ left' = left \ {NextRecord}
  /\ pending' = TRUE
  /\ UNCHANGED <<journal, exists, nextRef, sel, ups, pc, todo, id, made, open,
                 outcome, server, lost>>

\* Bug: the deleter is handed the environment and not the reference.
ReachedByName(rec) ==
  IF rec.key \notin DbProviders THEN {rec.key}
  ELSE IF sel \notin RefOnly THEN {sel} ELSE {}

(* What a deleter makes go.  A branch record is handed to the selected     *)
(* provider, whoever made the branch, with the reference it carries.       *)
Reached(rec) ==
  IF rec.key \notin DbProviders THEN {rec.key}
  ELSE IF sel \notin RefOnly \/ exists[sel] = rec.ref THEN {sel} ELSE {}

\* A network with containers on it is refused by the daemon.
Removable(r) == r \in Networks => Standing(Containers) = {}

DeleteSucceeds ==
  /\ pc = "replay"
  /\ left # {}
  /\ journal[NextRecord].key \in open
  /\ Removable(journal[NextRecord].key)
  /\ Hosted(journal[NextRecord].key)
  /\ exists' = Removed(Reached(journal[NextRecord]))
  /\ id' = NextRecord
  /\ left' = left \ {NextRecord}
  /\ pc' = "compensate"
  /\ UNCHANGED <<journal, nextRef, sel, ups, todo, made, open, pending,
                 outcome, server, lost>>

(* A write the database refuses leaves the record live and is reported.    *)
MarkCompensated ==
  /\ pc = "compensate"
  /\ \/ SetState(id, "compensated") /\ UNCHANGED pending
     \/ pending' = TRUE /\ UNCHANGED journal
  /\ pc' = "replay"
  /\ UNCHANGED <<exists, nextRef, sel, ups, todo, id, made, open, left,
                 outcome, server, lost>>

\* Without a reference such a provider does not even call out.
NothingToCall(rec) == rec.key \in DbProviders /\ sel \in RefOnly /\ rec.ref = 0

(* The deleter fails; the record stays live, marked failed if that can be  *)
(* written, and replay goes on.                                            *)
DeleteFails ==
  /\ pc = "replay"
  /\ left # {}
  /\ journal[NextRecord].key \in open
  /\ ~NothingToCall(journal[NextRecord])
  /\ SetState(NextRecord, "failed") \/ UNCHANGED journal
  /\ left' = left \ {NextRecord}
  /\ pending' = TRUE
  /\ UNCHANGED <<exists, nextRef, sel, ups, pc, todo, id, made, open, outcome,
                 server, lost>>

DownEnds ==
  /\ pc = "replay"
  /\ left = {}
  /\ outcome' = IF pending THEN "pending" ELSE "clean"
  /\ EndSession
  /\ UNCHANGED <<journal, exists, nextRef, sel, ups, server, lost>>

\* A cancelled context stops the replay between two records.
ReplayCancelled ==
  /\ pc = "replay"
  /\ left # {}
  /\ outcome' = "pending"
  /\ EndSession
  /\ UNCHANGED <<journal, exists, nextRef, sel, ups, server, lost>>

(* The process dies; the lock it leaves is reclaimed by the next command.  *)
Crash ==
  /\ pc # "idle"
  /\ EndSession
  /\ outcome' = "none"
  /\ UNCHANGED <<journal, exists, nextRef, sel, ups, server, lost>>

(* Somebody removes a container, a network nothing is on, or the server of *)
(* the stores with all they hold.                                          *)
RemovedByHand ==
  /\ Meddling
  /\ \/ \E r \in Standing(Swept) : /\ Removable(r)
                                   /\ exists' = Removed({r})
                                   /\ UNCHANGED server
     \/ server /\ server' = FALSE /\ exists' = Removed(Stores)
  /\ UNCHANGED <<journal, nextRef, sel, ups, pc, session, outcome, lost>>

-----------------------------------------------------------------------------
Up == BeginUp \/ ReuseNetwork \/ RecordIntent \/ UpReady \/ CreateSucceeds
      \/ CommitBranch \/ CreateFailsLate \/ CommitPartial \/ EmulatorFails \/ UpStops

Down == BeginDown \/ Sweep \/ DestroyBranch \/ DestroyStores \/ BeginReplay
        \/ Skip \/ DeleteSucceeds \/ MarkCompensated \/ DeleteFails \/ DownEnds
        \/ ReplayCancelled \/ ListFails

Next == SelectProvider \/ Up \/ Down \/ Crash \/ RemovedByHand

Spec == Init /\ [][Next]_vars

(* A command that was started runs on unless it dies, and af down is run   *)
(* again and again, by hand or on the reaper's schedule.                   *)
FairSpec ==
  /\ Spec
  /\ WF_vars((Up /\ ~BeginUp) \/ (Down /\ ~BeginDown))
  /\ WF_vars(BeginDown)

-----------------------------------------------------------------------------
(* Properties *)

(* Everything that is created has a recorded, compensating deletion: no    *)
(* resource exists whose journal record is missing or marked compensated,  *)
(* at any instant of any up, down or crash, but for those that stood when  *)
(* a corrupt state database took their records with it.                    *)
NoForgottenResource ==
  \A r \in Res : exists[r] # 0 => LiveFor(r) # {} \/ exists[r] \in lost

(* Retries and reruns find the existing intent: one live record per key.   *)
OneLiveRecord ==
  \A i, j \in LiveIds : journal[i].key = journal[j].key => i = j

(* An af down that reports nothing pending (exit 0) left no resource       *)
(* standing and no record live, other providers' resources included.  Even *)
(* a lost journal costs no more than branches at providers the manifest no *)
(* longer selects or that know them by reference only.                     *)
CleanExitMeansGone ==
  outcome = "clean" =>
    /\ LiveIds = {}
    /\ \A r \in Res : exists[r] # 0 =>
         exists[r] \in lost /\ r \in DbProviders /\ (r # sel \/ r \in RefOnly)

(* A record leaves the journal's live set only when the resource it names  *)
(* by reference is gone, also where that reference is the only handle.     *)
CompensatedRefIsGone ==
  [][\A i \in LiveIds :
       i \in DOMAIN journal' /\ ~Live(i)' /\ journal[i].ref # 0
         => exists'[journal[i].key] # journal[i].ref]_vars

(* A down in which providers answer, nothing is killed or cancelled and    *)
(* the daemon is there.  (The end of an up looks like its death.)          *)
CalmStep ==
  /\ Crash => Up
  /\ ~ReplayCancelled /\ ~ListFails /\ ~DeleteFails
  /\ Sweep => \A r \in Swept : exists'[r] = 0
  /\ DestroyBranch => sel \in RefOnly \/ exists'[sel] = 0
  /\ DestroyStores /\ server => open' = Stores /\ \A r \in Stores : exists'[r] = 0
  /\ BeginReplay /\ Deletable => Swept \subseteq open'
  /\ MarkCompensated => ~Live(id)'

\* What a teardown can name without its records.
Named ==
  Stores \cup Swept \cup ((IF lost = {} THEN DbProviders ELSE {sel}) \ RefOnly)

(* Once providers stay reachable, repeated af down reaches the state where *)
(* nothing stands that has a derived name and nothing is recorded but the  *)
(* stores of a server that is gone, whatever crashes, failures, removals   *)
(* by hand and rebuilt databases went before.                              *)
EventuallyClean ==
  <>[][CalmStep]_vars =>
    <>[](/\ \A i \in LiveIds : journal[i].key \in Stores /\ ~server
         /\ \A r \in Named : exists[r] = 0)

=============================================================================

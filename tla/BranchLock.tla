------------------------------ MODULE BranchLock ------------------------------
(***************************************************************************)
(* The advisory lock file of package lock (engine/internal/lock/lock.go)   *)
(* that keeps two engine processes from operating on one environment.      *)
(*                                                                         *)
(* One lock path, any number of processes on any number of hosts.  Every   *)
(* file system call is a step of its own, because nothing makes the pair   *)
(* "read the holder, then remove the file" atomic.  The model follows the  *)
(* Unix build, where transient(err) is always false.                       *)
(***************************************************************************)
EXTENDS Integers, FiniteSets

CONSTANTS
  Proc,        \* engine processes; a restarted engine is another process
  Hosts,       \* machines sharing the file system the lock lives on
  HostOf,      \* the machine each process runs on
  NoOwner,     \* not a process: the pid of no file
  CanLink,     \* whether the file system supports hard links
  ReadsFail,   \* whether reading the lock file may be refused
  MaxRounds,   \* bound: calls of Acquire one process makes
  MaxLooks     \* bound: looks that fit in settleWithin

ASSUME LockAssumption ==
  /\ HostOf \in [Proc -> Hosts]
  /\ NoOwner \notin Proc
  /\ CanLink \in BOOLEAN
  /\ ReadsFail \in BOOLEAN
  /\ MaxRounds \in Nat
  /\ MaxLooks \in Nat

VARIABLES
  file,      \* what the lock path names
  pc,        \* where each process is in Acquire or Release
  at,        \* AcquiredAt of the process's current Owner record
  reclaims,  \* local variable reclaims of Acquire
  looks,     \* settle.looks of Acquire
  recycled,  \* dead processes whose pid another process has now
  overlapped,\* history: two live processes were once both about to reclaim
  misread    \* history: a read failed on a path with no stale lock at it

history == <<overlapped, misread>>
vars == <<file, pc, at, reclaims, looks, recycled, history>>

(***************************************************************************)
(* A file is the Owner it records.  One whose contents were never written  *)
(* does not parse; pid and at then only identify the inode.                *)
(***************************************************************************)
NoFile == [pid |-> NoOwner, at |-> 0, torn |-> FALSE]
OwnerFile(p) == [pid |-> p, at |-> at[p], torn |-> FALSE]
TornFile(p)  == [pid |-> p, at |-> at[p], torn |-> TRUE]
Files == [pid : Proc, at : 0..MaxRounds, torn : BOOLEAN] \cup {NoFile}

\* Outside a call, and what the last call returned: nothing or a lock since
\* released, a refusal, or an error of the file system.
Resting == {"idle", "refused", "failed"}
PcValues == Resting \cup {"publish", "write", "read", "remove",
                          "held", "unlink", "dead"}

TypeOK ==
  /\ file \in Files
  /\ pc \in [Proc -> PcValues]
  /\ at \in [Proc -> 0..MaxRounds]
  /\ reclaims \in [Proc -> 0..2]
  /\ looks \in [Proc -> 0..MaxLooks]
  /\ recycled \subseteq Proc
  /\ overlapped \in BOOLEAN
  /\ misread \in BOOLEAN

Init ==
  /\ file = NoFile
  /\ pc = [p \in Proc |-> "idle"]
  /\ at = [p \in Proc |-> 0]
  /\ reclaims = [p \in Proc |-> 0]
  /\ looks = [p \in Proc |-> 0]
  /\ recycled = {}
  /\ overlapped = FALSE
  /\ misread = FALSE

Goto(p, l) == pc' = [pc EXCEPT ![p] = l]

\* Bug: the recorded pid is looked up here, wherever it was recorded.
AliveHereOnly(p, q) == HostOf[q] = HostOf[p] /\ pc[q] # "dead"

(***************************************************************************)
(* Alive, asked by process p of the process recorded in a lock file: a     *)
(* process on another machine cannot be checked and counts as alive, and a *)
(* pid that is in use again is no longer told from its first user.         *)
(***************************************************************************)
Alive(p, q) == HostOf[q] # HostOf[p] \/ pc[q] # "dead" \/ q \in recycled

-----------------------------------------------------------------------------
(* Acquire *)

(* The Owner record is stamped and the loop entered with fresh locals.     *)
(* AcquireWithin calls again after a refusal, until its wait is over.      *)
BeginAcquire(p) ==
  /\ pc[p] \in Resting
  /\ at[p] < MaxRounds
  /\ at' = [at EXCEPT ![p] = @ + 1]
  /\ reclaims' = [reclaims EXCEPT ![p] = 0]
  /\ looks' = [looks EXCEPT ![p] = 0]
  /\ Goto(p, "publish")
  /\ UNCHANGED <<file, recycled, history>>

\* Bug: the staged file is renamed over the lock's name instead of linked.
PublishRename(p) ==
  /\ pc[p] = "publish"
  /\ CanLink
  /\ file' = OwnerFile(p) /\ Goto(p, "held")
  /\ UNCHANGED <<at, reclaims, looks, recycled, history>>

(* publish where the staged file can be linked: the lock's name appears    *)
(* with its contents in place.                                             *)
PublishLink(p) ==
  /\ pc[p] = "publish"
  /\ CanLink
  /\ \/ file = NoFile /\ file' = OwnerFile(p) /\ Goto(p, "held")
     \/ file # NoFile /\ Goto(p, "read") /\ UNCHANGED file
  /\ UNCHANGED <<at, reclaims, looks, recycled, history>>

(* publish where it cannot: the name is created first and written after.   *)
PublishDirect(p) ==
  /\ pc[p] = "publish"
  /\ ~CanLink
  /\ \/ file = NoFile /\ file' = TornFile(p) /\ Goto(p, "write")
     \/ file # NoFile /\ Goto(p, "read") /\ UNCHANGED file
  /\ UNCHANGED <<at, reclaims, looks, recycled, history>>

(* writeOwner writes through its handle: when the name was taken away      *)
(* meanwhile the write reaches a nameless file and still succeeds.         *)
WriteOwner(p) ==
  /\ pc[p] = "write"
  /\ file' = IF file = TornFile(p) THEN OwnerFile(p) ELSE file
  /\ Goto(p, "held")
  /\ UNCHANGED <<at, reclaims, looks, recycled, history>>

(* A failed write removes the name, whatever it names by then, and Acquire *)
(* returns the error.                                                      *)
WriteOwnerFails(p) ==
  /\ pc[p] = "write"
  /\ file' = NoFile
  /\ Goto(p, "failed")
  /\ UNCHANGED <<at, reclaims, looks, recycled, history>>

\* Bug: the looks are not counted against a deadline.
ReadGoneForever(p) ==
  /\ pc[p] = "read"
  /\ file = NoFile
  /\ looks' = [looks EXCEPT ![p] = @ + 1]
  /\ Goto(p, "publish")
  /\ UNCHANGED <<file, at, reclaims, recycled, history>>

(* The path was taken at the last attempt and is free at this look.        *)
ReadGone(p) ==
  /\ pc[p] = "read"
  /\ file = NoFile
  /\ \/ /\ looks[p] < MaxLooks
        /\ looks' = [looks EXCEPT ![p] = @ + 1]
        /\ Goto(p, "publish")
     \/ /\ looks[p] = MaxLooks
        /\ Goto(p, "failed")
        /\ UNCHANGED looks
  /\ UNCHANGED <<file, at, reclaims, recycled, history>>

\* Bug: an unreadable file counts as held.
HeldIfUnreadable(p) == file # NoFile /\ (file.torn \/ Alive(p, file.pid))

(* The refusal of Acquire: a readable file whose process is alive.         *)
HeldByLive(p) == file # NoFile /\ ~file.torn /\ Alive(p, file.pid)

(* A live holder is AF-RUN-003; so is a holder found dead after two        *)
(* reclaims, and a file still unreadable then is an error in its place.    *)
ReadRefused(p) ==
  /\ pc[p] = "read"
  /\ file # NoFile
  /\ HeldByLive(p) \/ reclaims[p] = 2
  /\ Goto(p, "refused")
  /\ UNCHANGED <<file, at, reclaims, looks, recycled, history>>

Overlaps(p) ==
  overlapped' = (overlapped \/ \E q \in Proc \ {p} : pc[q] = "remove")

(* The file is stale or unreadable: the decision to remove it is taken on  *)
(* what was read here.                                                     *)
ReadStale(p) ==
  /\ pc[p] = "read"
  /\ file # NoFile
  /\ ~HeldByLive(p)
  /\ reclaims[p] < 2
  /\ Goto(p, "remove")
  /\ Overlaps(p)
  /\ UNCHANGED <<file, at, reclaims, looks, recycled, misread>>

(* The file cannot be read for a reason other than its absence, a shortage *)
(* of descriptors say: Acquire takes it for the trace of a crash.          *)
ReadFails(p) ==
  /\ ReadsFail
  /\ pc[p] = "read"
  /\ \/ /\ reclaims[p] < 2
        /\ Goto(p, "remove")
        /\ Overlaps(p)
        /\ misread' = (misread \/ file = NoFile \/ HeldByLive(p))
     \/ /\ reclaims[p] = 2
        /\ Goto(p, "failed")
        /\ UNCHANGED history
  /\ UNCHANGED <<file, at, reclaims, looks, recycled>>

(* os.Remove takes away whatever the path names now.                       *)
Reclaim(p) ==
  /\ pc[p] = "remove"
  /\ file' = NoFile
  /\ reclaims' = [reclaims EXCEPT ![p] = @ + 1]
  /\ Goto(p, "publish")
  /\ UNCHANGED <<at, looks, recycled, history>>

(* Staging, creating or removing fails for a reason of the file system's.  *)
AcquireFails(p) ==
  /\ pc[p] \in {"publish", "remove"}
  /\ Goto(p, "failed")
  /\ UNCHANGED <<file, at, reclaims, looks, recycled, history>>

-----------------------------------------------------------------------------
(* Release *)

(* Only a file that records this Owner is removed, one step later.         *)
ReleaseRead(p) ==
  /\ pc[p] = "held"
  /\ Goto(p, IF file = OwnerFile(p) THEN "unlink" ELSE "idle")
  /\ UNCHANGED <<file, at, reclaims, looks, recycled, history>>

(* A file that cannot be read is not this process's to remove: it stays.   *)
ReleaseUnread(p) ==
  /\ ReadsFail
  /\ pc[p] = "held"
  /\ Goto(p, "idle")
  /\ UNCHANGED <<file, at, reclaims, looks, recycled, history>>

(* The remove takes away what the path names now; it may also fail and     *)
(* leave a file that records a live process which no longer uses it.       *)
ReleaseRemove(p) ==
  /\ pc[p] = "unlink"
  /\ file' \in {NoFile, file}
  /\ Goto(p, "idle")
  /\ UNCHANGED <<at, reclaims, looks, recycled, history>>

(* The process is killed; a lock file it published stays behind.           *)
Crash(p) ==
  /\ pc[p] # "dead"
  /\ Goto(p, "dead")
  /\ UNCHANGED <<file, at, reclaims, looks, recycled, history>>

(* The system gives the pid of a dead process to a new one, not            *)
(* necessarily an engine, and that one ends in turn.                       *)
Recycle(q) ==
  /\ pc[q] = "dead"
  /\ recycled' \in {recycled \cup {q}, recycled \ {q}}
  /\ recycled' # recycled
  /\ UNCHANGED <<file, pc, at, reclaims, looks, history>>

-----------------------------------------------------------------------------
AcquireStep(p) ==
  \/ PublishLink(p) \/ PublishDirect(p) \/ WriteOwner(p)
  \/ ReadGone(p) \/ ReadRefused(p) \/ ReadStale(p) \/ Reclaim(p)

ReleaseStep(p) == ReleaseRead(p) \/ ReleaseUnread(p) \/ ReleaseRemove(p)

Next ==
  \E p \in Proc :
    \/ BeginAcquire(p)
    \/ AcquireStep(p)
    \/ WriteOwnerFails(p)
    \/ AcquireFails(p)
    \/ ReadFails(p)
    \/ ReleaseStep(p)
    \/ Crash(p)
    \/ Recycle(p)

Spec == Init /\ [][Next]_vars

(* Acquire is straight line code that never waits for another process, so  *)
(* a process that lives finishes the call it is in.  Nothing is assumed    *)
(* of when it releases, fails or is killed.                                *)
FairSpec == Spec /\ \A p \in Proc : WF_vars(AcquireStep(p))

-----------------------------------------------------------------------------
(* Properties *)

\* Between Acquire returning the lock and Release having removed it.
Holding(p) == pc[p] \in {"held", "unlink"}

(* At most one live process is between a successful Acquire and its        *)
(* Release: what the package is for.                                       *)
MutualExclusion == \A p, q \in Proc : Holding(p) /\ Holding(q) => p = q

\* What the exclusion rests on: contents that appear with the name, reclaims
\* one at a time, and reads that say what is there.
Orderly == CanLink /\ ~overlapped /\ ~misread

(* Two live holders exist only if links do not work, if two processes were *)
(* once both between finding a lock stale and removing it, or if a read    *)
(* was refused where there was nothing stale to see: crashes, releases,    *)
(* remote holders, recycled pids, refused reads of stale locks and any     *)
(* number of reclaims one after the other are never enough.                *)
ExclusionUnlessReclaimsOverlap == Orderly => MutualExclusion

(* A lock file that records a live holder disappears or changes only by    *)
(* that holder's own Release or death, under the same conditions: no       *)
(* reclaim and no slow Release takes it away.                              *)
LiveLockTakenOnlyByItsOwner ==
  [][\A q \in Proc :
       /\ Orderly'
       /\ Holding(q)
       /\ file = OwnerFile(q)
       /\ file' # file
       => pc[q] = "unlink" /\ pc'[q] = "idle"]_vars

Stale(q) == file.pid = q /\ pc[q] = "dead"

(* A lock left by a killed process, half written ones included, does not   *)
(* keep its environment locked: once a process of the same host has looked *)
(* at the path, the dead process's file goes away, unless the process that *)
(* looked dies too or reports a file system error, or the file is whole    *)
(* and its pid has come into use again.                                    *)
StaleLockReclaimed ==
  \A p, q \in Proc :
    HostOf[p] = HostOf[q] =>
      (pc[p] = "read" /\ reclaims[p] = 0 /\ Stale(q)
         ~> \/ ~Stale(q)
            \/ pc[p] \in {"dead", "failed"}
            \/ q \in recycled /\ ~file.torn)

=============================================================================

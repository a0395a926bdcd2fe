--------------------------- MODULE BranchLockProofs ---------------------------
(* What holds of BranchLock for every set of processes and hosts, with     *)
(* and without hard links, and for every bound.                            *)
EXTENDS BranchLock, TLAPS

-----------------------------------------------------------------------------
(* Type correctness.  A process about to reclaim has a reclaim left, which *)
(* is what keeps the counter within its bound.                             *)

ReclaimLeft == \A p \in Proc : pc[p] = "remove" => reclaims[p] < 2

TypeInv == TypeOK /\ ReclaimLeft

LEMMA FilesOfProcesses ==
  ASSUME NEW p \in Proc, TypeOK
  PROVE  OwnerFile(p) \in Files /\ TornFile(p) \in Files
  BY DEF TypeOK, OwnerFile, TornFile, Files

LEMMA TypeInvInit == Init => TypeInv
<1> SUFFICES ASSUME Init PROVE TypeInv
  OBVIOUS
<1>1. file \in Files
  BY DEF Init, Files
<1>2. /\ at \in [Proc -> 0..MaxRounds]
      /\ reclaims \in [Proc -> 0..2]
      /\ looks \in [Proc -> 0..MaxLooks]
  BY LockAssumption DEF Init
<1>3. pc \in [Proc -> PcValues] /\ ReclaimLeft
  BY DEF Init, PcValues, Resting, ReclaimLeft
<1>. QED
  BY <1>1, <1>2, <1>3 DEF Init, TypeInv, TypeOK

LEMMA TypeInvStep == TypeInv /\ [Next]_vars => TypeInv'
<1> SUFFICES ASSUME TypeInv, [Next]_vars PROVE TypeInv'
  OBVIOUS
<1> USE LockAssumption
    DEF TypeInv, TypeOK, ReclaimLeft, PcValues, Resting, Goto, history
<1>1. CASE UNCHANGED vars
  BY <1>1 DEF vars, history
<1>2. ASSUME NEW p \in Proc, BeginAcquire(p) PROVE TypeInv'
  BY <1>2 DEF BeginAcquire
<1>3. ASSUME NEW p \in Proc, PublishLink(p) PROVE TypeInv'
  BY <1>3, FilesOfProcesses DEF PublishLink
<1>4. ASSUME NEW p \in Proc, PublishDirect(p) PROVE TypeInv'
  BY <1>4, FilesOfProcesses DEF PublishDirect
<1>5. ASSUME NEW p \in Proc, WriteOwner(p) PROVE TypeInv'
  BY <1>5, FilesOfProcesses DEF WriteOwner
<1>6. ASSUME NEW p \in Proc, WriteOwnerFails(p) PROVE TypeInv'
  BY <1>6 DEF WriteOwnerFails, Files
<1>7. ASSUME NEW p \in Proc, ReadGone(p) PROVE TypeInv'
  BY <1>7 DEF ReadGone
<1>8. ASSUME NEW p \in Proc, ReadRefused(p) PROVE TypeInv'
  BY <1>8 DEF ReadRefused
<1>9. ASSUME NEW p \in Proc, ReadStale(p) PROVE TypeInv'
  BY <1>9 DEF ReadStale, Overlaps
<1>10. ASSUME NEW p \in Proc, Reclaim(p) PROVE TypeInv'
  BY <1>10 DEF Reclaim, Files
<1>11. ASSUME NEW p \in Proc, AcquireFails(p) PROVE TypeInv'
  BY <1>11 DEF AcquireFails
<1>12. ASSUME NEW p \in Proc, ReleaseRead(p) PROVE TypeInv'
  BY <1>12 DEF ReleaseRead
<1>13. ASSUME NEW p \in Proc, ReleaseRemove(p) PROVE TypeInv'
  BY <1>13 DEF ReleaseRemove, Files
<1>14. ASSUME NEW p \in Proc, Crash(p) PROVE TypeInv'
  BY <1>14 DEF Crash
<1>15. ASSUME NEW p \in Proc, ReadFails(p) PROVE TypeInv'
  BY <1>15 DEF ReadFails, Overlaps
<1>16. ASSUME NEW p \in Proc, ReleaseUnread(p) PROVE TypeInv'
  BY <1>16 DEF ReleaseUnread
<1>17. ASSUME NEW p \in Proc, Recycle(p) PROVE TypeInv'
  BY <1>17 DEF Recycle
<1>. QED
  BY <1>1, <1>2, <1>3, <1>4, <1>5, <1>6, <1>7, <1>8, <1>9, <1>10, <1>11,
     <1>12, <1>13, <1>14, <1>15, <1>16, <1>17 DEF Next, AcquireStep, ReleaseStep

(* The variables of the lock protocol keep their types; in particular a    *)
(* call of Acquire reclaims at most twice.                                 *)
THEOREM TypeCorrect == Spec => []TypeOK
<1>1. TypeInv => TypeOK
  BY DEF TypeInv
<1>. QED
  BY TypeInvInit, TypeInvStep, <1>1, PTL DEF Spec

-----------------------------------------------------------------------------
(* Mutual exclusion.  While no two reclaims have overlapped and reads were *)
(* right about what is stale, whoever holds the lock finds its own record  *)
(* at the path, and whoever is about to reclaim is alone and is looking at *)
(* a dead process's file.                                                  *)

HoldersOwnTheFile == \A p \in Proc : Holding(p) => file = OwnerFile(p)

ReclaimersSeeTheDead ==
  \A p \in Proc : pc[p] = "remove" => file # NoFile /\ pc[file.pid] = "dead"

OneReclaimer ==
  \A p, q \in Proc : pc[p] = "remove" /\ pc[q] = "remove" => p = q

NothingTorn == ~file.torn /\ \A p \in Proc : pc[p] # "write"

SerialInv ==
  Orderly =>
    /\ HoldersOwnTheFile
    /\ ReclaimersSeeTheDead
    /\ OneReclaimer
    /\ NothingTorn

LEMMA SerialInit == Init => SerialInv
  BY DEF Init, SerialInv, Orderly, HoldersOwnTheFile, ReclaimersSeeTheDead,
         OneReclaimer, NothingTorn, Holding, NoFile

LEMMA SerialStep == TypeInv /\ SerialInv /\ [Next]_vars => SerialInv'
<1> SUFFICES ASSUME TypeInv, SerialInv, [Next]_vars PROVE SerialInv'
  OBVIOUS
<1> USE LockAssumption
    DEF TypeInv, TypeOK, Goto, SerialInv, HoldersOwnTheFile, Holding,
        ReclaimersSeeTheDead, OneReclaimer, NothingTorn, Orderly, history
<1>1. CASE UNCHANGED vars
  BY <1>1 DEF vars, history, OwnerFile
<1>2. ASSUME NEW p \in Proc, BeginAcquire(p) PROVE SerialInv'
  BY <1>2 DEF BeginAcquire, Resting, OwnerFile
<1>3. ASSUME NEW p \in Proc, PublishLink(p) PROVE SerialInv'
  <2>1. CASE file # NoFile
    BY <1>3, <2>1 DEF PublishLink, OwnerFile, Files
  <2>2. CASE file = NoFile
    <3>1. \A q \in Proc : OwnerFile(q) # NoFile /\ ~OwnerFile(q).torn
      BY DEF OwnerFile, NoFile
    <3>2. Orderly
             => \A q \in Proc : ~Holding(q) /\ pc[q] # "remove"
      BY <2>2, <3>1
    <3>3. file' = OwnerFile(p) /\ pc' = [pc EXCEPT ![p] = "held"]
      BY <1>3, <2>2 DEF PublishLink
    <3>4. OwnerFile(p)' = OwnerFile(p)
      BY <1>3 DEF PublishLink, OwnerFile
    <3>. QED
      BY <1>3, <3>1, <3>2, <3>3, <3>4 DEF PublishLink
  <2>. QED
    BY <2>1, <2>2
<1>4. ASSUME NEW p \in Proc, PublishDirect(p) PROVE SerialInv'
  BY <1>4 DEF PublishDirect
<1>5. ASSUME NEW p \in Proc, WriteOwner(p) PROVE SerialInv'
  BY <1>5 DEF WriteOwner
<1>6. ASSUME NEW p \in Proc, WriteOwnerFails(p) PROVE SerialInv'
  BY <1>6 DEF WriteOwnerFails
<1>7. ASSUME NEW p \in Proc, ReadGone(p) PROVE SerialInv'
  BY <1>7 DEF ReadGone, OwnerFile
<1>8. ASSUME NEW p \in Proc, ReadRefused(p) PROVE SerialInv'
  BY <1>8 DEF ReadRefused, OwnerFile
<1>9. ASSUME NEW p \in Proc, ReadStale(p) PROVE SerialInv'
  BY <1>9 DEF ReadStale, Overlaps, HeldByLive, Alive, OwnerFile, Files
<1>10. ASSUME NEW p \in Proc, Reclaim(p) PROVE SerialInv'
  BY <1>10 DEF Reclaim, OwnerFile, NoFile
<1>11. ASSUME NEW p \in Proc, AcquireFails(p) PROVE SerialInv'
  BY <1>11 DEF AcquireFails, OwnerFile
<1>12. ASSUME NEW p \in Proc, ReleaseRead(p) PROVE SerialInv'
  BY <1>12 DEF ReleaseRead, OwnerFile
<1>13. ASSUME NEW p \in Proc, ReleaseRemove(p) PROVE SerialInv'
  BY <1>13 DEF ReleaseRemove, OwnerFile, NoFile
<1>14. ASSUME NEW p \in Proc, Crash(p) PROVE SerialInv'
  BY <1>14 DEF Crash, OwnerFile, Files
<1>15. ASSUME NEW p \in Proc, ReadFails(p) PROVE SerialInv'
  <2>1. CASE reclaims[p] < 2
    <3>1. /\ pc[p] = "read"
          /\ pc' = [pc EXCEPT ![p] = "remove"]
          /\ UNCHANGED <<file, at>>
          /\ Orderly' =>
               /\ Orderly
               /\ \A q \in Proc \ {p} : pc[q] # "remove"
               /\ file # NoFile /\ ~HeldByLive(p)
      BY <1>15, <2>1 DEF ReadFails, Overlaps
    <3>2. Orderly' => file \in Files \ {NoFile} /\ pc[file.pid] = "dead"
      BY <3>1 DEF HeldByLive, Alive, Files
    <3>3. \A q \in Proc : OwnerFile(q)' = OwnerFile(q)
      BY <3>1 DEF OwnerFile
    <3>. QED
      BY <3>1, <3>2, <3>3 DEF Files
  <2>2. CASE reclaims[p] = 2
    <3>1. pc' = [pc EXCEPT ![p] = "failed"] /\ UNCHANGED <<file, at, history>>
      BY <1>15, <2>2 DEF ReadFails
    <3>. QED
      BY <1>15, <3>1 DEF ReadFails, OwnerFile, Files
  <2>. QED
    BY <1>15, <2>1, <2>2 DEF ReadFails
<1>16. ASSUME NEW p \in Proc, ReleaseUnread(p) PROVE SerialInv'
  BY <1>16 DEF ReleaseUnread, OwnerFile
<1>17. ASSUME NEW p \in Proc, Recycle(p) PROVE SerialInv'
  BY <1>17 DEF Recycle, OwnerFile
<1>. QED
  BY <1>1, <1>2, <1>3, <1>4, <1>5, <1>6, <1>7, <1>8, <1>9, <1>10, <1>11,
     <1>12, <1>13, <1>14, <1>15, <1>16, <1>17 DEF Next, AcquireStep, ReleaseStep

(* Where hard links work, the lock excludes as long as no two processes    *)
(* were ever both between finding a stale lock and removing it and no read *)
(* was refused where nothing was stale.                                    *)
THEOREM SerialReclaimsExclude == Spec => []ExclusionUnlessReclaimsOverlap
<1>1. SerialInv => ExclusionUnlessReclaimsOverlap
  BY DEF SerialInv, HoldersOwnTheFile, ExclusionUnlessReclaimsOverlap,
         MutualExclusion, OwnerFile
<1>. QED
  BY TypeInvInit, TypeInvStep, SerialInit, SerialStep, <1>1, PTL DEF Spec

(* Under the same condition nobody but the owner takes a live lock away.   *)
THEOREM SerialReclaimsSpareTheLiving == Spec => LiveLockTakenOnlyByItsOwner
<1> DEFINE Spared == \A q \in Proc :
               /\ Orderly'
               /\ Holding(q)
               /\ file = OwnerFile(q)
               /\ file' # file
               => pc[q] = "unlink" /\ pc'[q] = "idle"
<1>1. TypeInv /\ SerialInv /\ [Next]_vars => [Spared]_vars
  <2> SUFFICES ASSUME TypeInv, SerialInv, Next PROVE Spared
    BY DEF vars, history
  <2> SUFFICES ASSUME NEW q \in Proc, Orderly', Holding(q),
                      file = OwnerFile(q), file' # file
               PROVE pc[q] = "unlink" /\ pc'[q] = "idle"
    OBVIOUS
  <2>1. PICK p \in Proc : \/ PublishLink(p) \/ PublishDirect(p)
                          \/ WriteOwner(p) \/ WriteOwnerFails(p)
                          \/ Reclaim(p) \/ ReleaseRemove(p)
    BY DEF Next, AcquireStep, ReleaseStep, BeginAcquire, ReadGone, Crash,
           ReadRefused, ReadStale, ReadFails, AcquireFails, ReleaseRead,
           ReleaseUnread, Recycle
  <2>2. Orderly
    BY <2>1 DEF Orderly, history, PublishLink, PublishDirect, WriteOwner, WriteOwnerFails,
                Reclaim, ReleaseRemove
  <2>3. pc[q] # "dead" /\ file # NoFile /\ file.pid = q /\ pc[p] # "write"
    BY <2>2, LockAssumption
    DEF Holding, OwnerFile, NoFile, SerialInv, NothingTorn
  <2>4. ReleaseRemove(p)
    BY <2>1, <2>2, <2>3
    DEF PublishLink, PublishDirect, WriteOwner, WriteOwnerFails, Reclaim,
        SerialInv, ReclaimersSeeTheDead
  <2>5. p = q
    BY <2>2, <2>3, <2>4
    DEF ReleaseRemove, SerialInv, HoldersOwnTheFile, Holding, OwnerFile
  <2>. QED
    BY <2>4, <2>5 DEF ReleaseRemove, Goto, TypeInv, TypeOK
<1>. QED
  BY TypeInvInit, TypeInvStep, SerialInit, SerialStep, <1>1, PTL
  DEF Spec, LiveLockTakenOnlyByItsOwner

=============================================================================

--------------------------- MODULE EnvJournalProofs ---------------------------
(* What holds of EnvJournal for every set of providers, stores, networks   *)
(* and containers and any number of commands, crashes and failures.        *)
EXTENDS EnvJournal, SequenceTheorems, WellFoundedInduction, TLAPS

-----------------------------------------------------------------------------
(* The three updates of the journal table.                                 *)

LEMMA SetStateLemma ==
  ASSUME journal \in Seq(Record), NEW i \in DOMAIN journal,
         NEW s \in States, SetState(i, s)
  PROVE  /\ journal' \in Seq(Record)
         /\ DOMAIN journal' = DOMAIN journal
         /\ \A j \in DOMAIN journal : journal'[j].key = journal[j].key
         /\ \A j \in DOMAIN journal : journal'[j].ref = journal[j].ref
         /\ \A j \in DOMAIN journal \ {i} : journal'[j] = journal[j]
         /\ journal'[i].state = s
<1>1. /\ Len(journal) \in Nat
      /\ DOMAIN journal = 1..Len(journal)
      /\ journal \in [1..Len(journal) -> Record]
  BY SMT
<1>2. journal' = [journal EXCEPT ![i] = [journal[i] EXCEPT !.state = s]]
  BY DEF SetState
<1>3. [journal[i] EXCEPT !.state = s] \in Record
  BY <1>1 DEF Record
<1>4. journal' \in [1..Len(journal) -> Record]
  BY <1>1, <1>2, <1>3
<1>5. journal' \in Seq(Record)
  BY <1>1, <1>4, SeqDef
<1>. QED
  BY <1>1, <1>2, <1>3, <1>5 DEF Record

LEMMA CommitLemma ==
  ASSUME journal \in Seq(Record), NEW i \in DOMAIN journal,
         NEW r \in Nat, Commit(i, r)
  PROVE  /\ journal' \in Seq(Record)
         /\ DOMAIN journal' = DOMAIN journal
         /\ \A j \in DOMAIN journal : journal'[j].key = journal[j].key
         /\ \A j \in DOMAIN journal \ {i} : journal'[j] = journal[j]
         /\ journal'[i].state = "committed"
<1>1. /\ Len(journal) \in Nat
      /\ DOMAIN journal = 1..Len(journal)
      /\ journal \in [1..Len(journal) -> Record]
  BY SMT
<1>2. journal' = [journal EXCEPT ![i] =
                    [journal[i] EXCEPT !.state = "committed", !.ref = r]]
  BY DEF Commit
<1>3. [journal[i] EXCEPT !.state = "committed", !.ref = r] \in Record
  BY <1>1 DEF Record, States
<1>4. journal' \in [1..Len(journal) -> Record]
  BY <1>1, <1>2, <1>3
<1>5. journal' \in Seq(Record)
  BY <1>1, <1>4, SeqDef
<1>. QED
  BY <1>1, <1>2, <1>3, <1>5 DEF Record

LEMMA InsertLemma ==
  ASSUME journal \in Seq(Record), NEW r \in Res,
         journal' = Append(journal, [key |-> r, state |-> "intent", ref |-> 0])
  PROVE  /\ journal' \in Seq(Record)
         /\ DOMAIN journal' = DOMAIN journal \cup {Len(journal) + 1}
         /\ Len(journal) + 1 \notin DOMAIN journal
         /\ \A j \in DOMAIN journal : journal'[j] = journal[j]
         /\ journal'[Len(journal) + 1].key = r
         /\ journal'[Len(journal) + 1].state = "intent"
<1>1. [key |-> r, state |-> "intent", ref |-> 0] \in Record
  BY DEF Record, States
<1>. QED
  BY <1>1

-----------------------------------------------------------------------------
(* Replay's order is defined: a non-empty set of record ids has a newest.  *)

Smaller == OpToRel(<, Nat)

LEMMA NextRecordLemma ==
  ASSUME journal \in Seq(Record), left \subseteq DOMAIN journal, left # {}
  PROVE  NextRecord \in left /\ \A j \in left : j <= NextRecord
<1>1. Len(journal) \in Nat /\ DOMAIN journal = 1..Len(journal)
  BY SMT
<1>. DEFINE T == {Len(journal) - i : i \in left}
<1>2. T \subseteq Nat /\ T # {}
  BY <1>1
<1>3. \E x \in T : \A y \in T : ~ (<<y, x>> \in Smaller)
  <2>. HIDE DEF T
  <2>. QED BY <1>2, NatLessThanWellFounded, WFMin DEF Smaller
<1>4. PICK i \in left : \A y \in T : ~ (<<y, Len(journal) - i>> \in Smaller)
  BY <1>3
<1>5. ASSUME NEW j \in left PROVE j <= i
  <2>1. <<Len(journal) - j, Len(journal) - i>> \notin Smaller
    BY <1>4
  <2>2. /\ Len(journal) - j \in Nat /\ Len(journal) - i \in Nat
        /\ i \in Nat /\ j \in Nat
    BY <1>1
  <2>3. ~(Len(journal) - j < Len(journal) - i)
    BY <2>1, <2>2 DEF Smaller, OpToRel
  <2>. QED BY <1>1, <2>2, <2>3
<1>. QED
  BY <1>5 DEF NextRecord

-----------------------------------------------------------------------------
(* Type correctness.  An update needs a row to update: the record a        *)
(* session works on is one it has found or inserted, and stays in place;   *)
(* only a command that begins finds the table replaced.                    *)

Working ==
  /\ pc \in {"create", "commit", "partial"} => id \in LiveIds
  /\ pc = "compensate" => id \in DOMAIN journal
  /\ pc = "idle" => left = {}

LEMMA ResLemma ==
  /\ DbProviders \subseteq Res /\ Stores \subseteq Res /\ Swept \subseteq Res
  /\ \A d \in BOOLEAN : open \subseteq Res => Registered(d) \subseteq Res
BY DEF Res, Swept, Registered

LEMMA RemovedLemma ==
  ASSUME exists \in [Res -> Nat], NEW S
  PROVE  /\ Removed(S) \in [Res -> Nat]
         /\ \A r \in Res : Removed(S)[r] = IF r \in S THEN 0 ELSE exists[r]
BY DEF Removed

LEMMA EnsureLemma ==
  ASSUME exists \in [Res -> Nat], nextRef \in Nat \ {0}, NEW r \in Res, Ensure(r)
  PROVE  /\ exists' \in [Res -> Nat] /\ nextRef' \in Nat \ {0}
         /\ \A q \in Res \ {r} : exists'[q] = exists[q]
BY DEF Ensure

LEMMA OpenStateLemma ==
  ASSUME TypeOK, OpenState
  PROVE  /\ journal' \in Seq(Record) /\ lost' \subseteq Nat
         /\ lost \subseteq lost'
         /\ \/ UNCHANGED <<journal, lost>>
            \/ /\ journal' = <<>>
               /\ \A r \in Res : exists[r] # 0 => exists[r] \in lost'
<1>1. CASE UNCHANGED <<journal, lost>>
  BY <1>1 DEF TypeOK
<1>2. CASE journal' = <<>> /\ lost' = lost \cup {exists[r] : r \in Standing(Res)}
  <2>1. <<>> \in Seq(Record)
    OBVIOUS
  <2>2. \A r \in Res : exists[r] # 0 => exists[r] \in lost'
    BY <1>2 DEF Standing
  <2>3. lost' \subseteq Nat
    BY <1>2 DEF TypeOK, Standing
  <2>. QED BY <1>2, <2>1, <2>2, <2>3
<1>. QED BY <1>1, <1>2 DEF OpenState

LEMMA IntentLemma ==
  ASSUME journal \in Seq(Record), NEW r \in Res, Intent(r)
  PROVE  /\ journal' \in Seq(Record)
         /\ DOMAIN journal \subseteq DOMAIN journal'
         /\ \A j \in DOMAIN journal : journal'[j] = journal[j]
         /\ id' \in Nat /\ id' \in DOMAIN journal'
         /\ journal'[id'].key = r /\ journal'[id'].state # "compensated"
         /\ \A j \in DOMAIN journal' \ DOMAIN journal : j = id' /\ LiveFor(r) = {}
<1>1. CASE LiveFor(r) # {}
  <2>1. id' \in LiveFor(r) /\ journal' = journal
    BY <1>1 DEF Intent
  <2>. QED BY <2>1 DEF LiveFor, LiveIds, Live
<1>2. CASE LiveFor(r) = {}
  <2>1. /\ journal' = Append(journal, [key |-> r, state |-> "intent", ref |-> 0])
        /\ id' = Len(journal) + 1
    BY <1>2 DEF Intent
  <2>2. Len(journal) + 1 \in Nat
    BY SMT
  <2>. QED BY <1>2, <2>1, <2>2, InsertLemma
<1>. QED BY <1>1, <1>2

LEMMA EndLemma ==
  ASSUME TypeOK, EndSession, sel' = sel, ups' = ups,
         journal' \in Seq(Record), exists' \in [Res -> Nat], nextRef' \in Nat \ {0},
         outcome' \in {"none", "clean", "pending"}, server' = server, lost' = lost
  PROVE  TypeOK' /\ Working'
<1>1. pc' = "idle" /\ pc' \in PcValues
  BY DEF EndSession, PcValues
<1>2. pending' \in BOOLEAN
  BY Zenon DEF EndSession
<1>3. /\ todo' \subseteq Res /\ open' \subseteq Res /\ left' \subseteq DOMAIN journal'
      /\ id' \in Nat /\ made' \in Nat /\ left' = {}
  BY DEF EndSession
<1>. QED BY <1>1, <1>2, <1>3 DEF TypeOK, Working

LEMMA UpTypes ==
  ASSUME TypeOK, Working, Up
  PROVE  TypeOK' /\ Working'
<1>. USE JournalAssumption
<1>1. CASE BeginUp
  <2>1. journal' \in Seq(Record) /\ lost' \subseteq Nat
    BY <1>1, OpenStateLemma DEF BeginUp
  <2>2. left' = {}
    BY <1>1 DEF BeginUp, Working
  <2>. QED BY <1>1, <2>1, <2>2, ResLemma
           DEF BeginUp, TypeOK, Working, PcValues
<1>2. CASE RecordIntent
  <2>1. PICK r \in todo : Intent(r) /\ todo' = todo \ {r}
    BY <1>2 DEF RecordIntent
  <2>2. r \in Res
    BY <2>1 DEF TypeOK
  <2>3. /\ journal' \in Seq(Record)
        /\ DOMAIN journal \subseteq DOMAIN journal'
        /\ id' \in Nat /\ id' \in DOMAIN journal'
        /\ journal'[id'].state # "compensated"
    BY <2>1, <2>2, IntentLemma DEF TypeOK
  <2>4. server' \in BOOLEAN
    BY <1>2 DEF RecordIntent
  <2>. QED BY <1>2, <2>1, <2>3, <2>4
           DEF RecordIntent, TypeOK, Working, LiveIds, Live, PcValues
<1>3. CASE UpReady \/ UpStops
  <2>1. EndSession /\ UNCHANGED <<journal, exists, nextRef, sel, ups, outcome, server, lost>>
    BY <1>3 DEF UpReady, UpStops
  <2>. QED BY <2>1, EndLemma DEF TypeOK
<1>4. CASE CreateSucceeds \/ CreateFailsLate
  <2>1. id \in DOMAIN journal /\ Key \in Res
    <3>1. id \in DOMAIN journal
      BY <1>4 DEF CreateSucceeds, CreateFailsLate, Working, LiveIds
    <3>2. journal[id] \in Record
      BY <3>1 DEF TypeOK
    <3>. QED BY <3>1, <3>2 DEF Key, Record
  <2>2. exists' \in [Res -> Nat] /\ nextRef' \in Nat \ {0}
    BY <1>4, <2>1, EnsureLemma DEF CreateSucceeds, CreateFailsLate, TypeOK
  <2>3. exists'[Key] \in Nat
    BY <2>1, <2>2
  <2>4. CASE CreateSucceeds
    BY <2>2, <2>3, <2>4 DEF CreateSucceeds, TypeOK, Working, LiveIds, Live, PcValues
  <2>5. CASE CreateFailsLate
    <3>1. CASE EndSession
      BY <2>2, <2>5, <3>1, EndLemma DEF CreateFailsLate, TypeOK
    <3>2. CASE pc' = "partial" /\ made' = exists'[Key]
               /\ UNCHANGED <<todo, id, open, left, pending>>
      BY <2>2, <2>3, <2>5, <3>2
         DEF CreateFailsLate, TypeOK, Working, LiveIds, Live, PcValues
    <3>. QED BY <2>5, <3>1, <3>2 DEF CreateFailsLate
  <2>. QED BY <1>4, <2>4, <2>5
<1>5. CASE CommitBranch \/ CommitPartial
  <2>1. id \in DOMAIN journal /\ Commit(id, made) /\ made \in Nat
    BY <1>5 DEF CommitBranch, CommitPartial, Working, LiveIds, TypeOK
  <2>2. journal' \in Seq(Record) /\ DOMAIN journal' = DOMAIN journal
    BY <2>1, CommitLemma DEF TypeOK
  <2>3. CASE CommitBranch
    BY <2>2, <2>3 DEF CommitBranch, session, TypeOK, Working, PcValues
  <2>4. CASE CommitPartial
    BY <2>2, <2>4, EndLemma DEF CommitPartial, TypeOK
  <2>. QED BY <1>5, <2>3, <2>4
<1>6. CASE EmulatorFails
  BY <1>6, RemovedLemma, EndLemma DEF EmulatorFails, TypeOK
<1>7. CASE ReuseNetwork
  BY <1>7 DEF ReuseNetwork, TypeOK, Working, LiveIds, Live
<1>. QED BY <1>1, <1>2, <1>3, <1>4, <1>5, <1>6, <1>7 DEF Up

LEMMA DownTypes ==
  ASSUME TypeOK, Working, Down
  PROVE  TypeOK' /\ Working'
<1>. USE JournalAssumption
<1>1. CASE BeginDown
  <2>1. journal' \in Seq(Record) /\ lost' \subseteq Nat
    BY <1>1, OpenStateLemma DEF BeginDown
  <2>2. left' = {}
    BY <1>1 DEF BeginDown, session, Working
  <2>. QED BY <1>1, <2>1, <2>2
           DEF BeginDown, session, TypeOK, Working, PcValues
<1>2. CASE Sweep \/ DestroyBranch \/ DestroyStores
  <2>1. exists' \in [Res -> Nat]
    <3>1. exists' = exists \/ \E S : exists' = Removed(S)
      BY <1>2 DEF Sweep, DestroyBranch, DestroyStores
    <3>. QED BY <3>1, RemovedLemma DEF TypeOK
  <2>2. open' \subseteq Res
    BY <1>2, ResLemma DEF Sweep, DestroyBranch, DestroyStores, TypeOK
  <2>3. pending' \in BOOLEAN
    BY <1>2 DEF Sweep, DestroyBranch, DestroyStores, TypeOK
  <2>. QED BY <1>2, <2>1, <2>2, <2>3
           DEF Sweep, DestroyBranch, DestroyStores, TypeOK, Working, LiveIds, Live, PcValues
<1>3. CASE BeginReplay
  BY <1>3, ResLemma DEF BeginReplay, TypeOK, Working, LiveIds, Live, PcValues
<1>4. CASE Skip
  BY <1>4 DEF Skip, TypeOK, Working, LiveIds, Live, PcValues
<1>5. CASE DeleteSucceeds
  <2>1. NextRecord \in DOMAIN journal
    BY <1>5, NextRecordLemma DEF DeleteSucceeds, TypeOK
  <2>2. NextRecord \in Nat
    BY <2>1 DEF TypeOK
  <2>. QED BY <1>5, <2>1, <2>2, RemovedLemma
           DEF DeleteSucceeds, TypeOK, Working, LiveIds, Live, PcValues
<1>6. CASE MarkCompensated
  <2>1. journal' \in Seq(Record) /\ DOMAIN journal' = DOMAIN journal
    BY <1>6, SetStateLemma DEF MarkCompensated, Working, TypeOK, States
  <2>. QED BY <1>6, <2>1 DEF MarkCompensated, TypeOK, Working, PcValues
<1>7. CASE DeleteFails
  <2>1. NextRecord \in DOMAIN journal
    BY <1>7, NextRecordLemma DEF DeleteFails, TypeOK
  <2>2. journal' \in Seq(Record) /\ DOMAIN journal' = DOMAIN journal
    BY <1>7, <2>1, SetStateLemma DEF DeleteFails, TypeOK, States
  <2>. QED BY <1>7, <2>2 DEF DeleteFails, TypeOK, Working, PcValues
<1>8. CASE DownEnds \/ ReplayCancelled \/ ListFails
  BY <1>8, EndLemma DEF DownEnds, ReplayCancelled, ListFails, TypeOK
<1>. QED BY <1>1, <1>2, <1>3, <1>4, <1>5, <1>6, <1>7, <1>8 DEF Down

(* Whatever crashes and failures interleave, the tables keep their shape   *)
(* and every update finds its row.                                         *)
THEOREM TypeCorrect == Spec => [](TypeOK /\ Working)
<1>1. Init => TypeOK /\ Working
  <2>. SUFFICES ASSUME Init PROVE TypeOK /\ Working
    OBVIOUS
  <2>1. pending \in BOOLEAN
    BY Zenon DEF Init
  <2>2. journal \in Seq(Record) /\ exists \in [Res -> Nat]
    BY DEF Init
  <2>3. pc = "idle" /\ pc \in PcValues
    BY DEF Init, PcValues
  <2>4. server \in BOOLEAN
    BY Zenon DEF Init
  <2>. QED BY <2>1, <2>2, <2>3, <2>4, JournalAssumption DEF Init, TypeOK, Working
<1>2. TypeOK /\ Working /\ [Next]_vars => TypeOK' /\ Working'
  <2>. SUFFICES ASSUME TypeOK, Working, [Next]_vars PROVE TypeOK' /\ Working'
    OBVIOUS
  <2>1. CASE SelectProvider
    BY <2>1 DEF SelectProvider, session, TypeOK, Working, LiveIds, Live
  <2>2. CASE Crash
    BY <2>2, EndLemma DEF Crash, TypeOK
  <2>3. CASE UNCHANGED vars
    BY <2>3 DEF vars, TypeOK, Working, LiveIds, Live
  <2>4. CASE RemovedByHand
    <3>1. exists' \in [Res -> Nat]
      <4>1. \E S : exists' = Removed(S)
        BY <2>4 DEF RemovedByHand
      <4>. QED BY <4>1, RemovedLemma DEF TypeOK
    <3>2. server' \in BOOLEAN
      BY <2>4 DEF RemovedByHand, TypeOK
    <3>. QED BY <2>4, <3>1, <3>2
             DEF RemovedByHand, session, TypeOK, Working, LiveIds, Live
  <2>. QED BY <2>1, <2>2, <2>3, <2>4, UpTypes, DownTypes DEF Next
<1>. QED BY <1>1, <1>2, PTL DEF Spec

-----------------------------------------------------------------------------
(* What a step does to the live records: none of them changes its key, and *)
(* only Intent adds one, only a compensation takes one away, and a lost    *)
(* journal takes all.                                                      *)

SameRecords == LiveIds' = LiveIds /\ \A r : LiveFor(r)' = LiveFor(r)

LEMMA UnchangedRecords ==
  ASSUME UNCHANGED journal
  PROVE  SameRecords
BY DEF SameRecords, LiveFor, LiveIds, Live

LEMMA LostRecords ==
  ASSUME journal' = <<>>
  PROVE  LiveIds' = {} /\ \A r : LiveFor(r)' = {}
BY DEF LiveFor, LiveIds

LEMMA FailedRecords ==
  ASSUME journal \in Seq(Record), NEW i \in LiveIds, SetState(i, "failed")
  PROVE  SameRecords
<1>1. i \in DOMAIN journal
  BY DEF LiveIds
<1>2. /\ DOMAIN journal' = DOMAIN journal
      /\ \A j \in DOMAIN journal : journal'[j].key = journal[j].key
      /\ \A j \in DOMAIN journal \ {i} : journal'[j] = journal[j]
      /\ journal'[i].state = "failed"
  BY <1>1, SetStateLemma DEF States
<1>. QED BY <1>1, <1>2 DEF SameRecords, LiveFor, LiveIds, Live

LEMMA CommittedRecords ==
  ASSUME journal \in Seq(Record), NEW i \in LiveIds, NEW r \in Nat, Commit(i, r)
  PROVE  SameRecords
<1>1. i \in DOMAIN journal
  BY DEF LiveIds
<1>2. /\ DOMAIN journal' = DOMAIN journal
      /\ \A j \in DOMAIN journal : journal'[j].key = journal[j].key
      /\ \A j \in DOMAIN journal \ {i} : journal'[j] = journal[j]
      /\ journal'[i].state = "committed"
  BY <1>1, CommitLemma
<1>. QED BY <1>1, <1>2 DEF SameRecords, LiveFor, LiveIds, Live

LEMMA CompensatedRecords ==
  ASSUME journal \in Seq(Record), NEW i \in DOMAIN journal, SetState(i, "compensated")
  PROVE  /\ LiveIds' = LiveIds \ {i}
         /\ \A r : LiveFor(r)' = LiveFor(r) \ {i}
<1>1. /\ DOMAIN journal' = DOMAIN journal
      /\ \A j \in DOMAIN journal : journal'[j].key = journal[j].key
      /\ \A j \in DOMAIN journal \ {i} : journal'[j] = journal[j]
      /\ journal'[i].state = "compensated"
  BY SetStateLemma DEF States
<1>. QED BY <1>1 DEF LiveFor, LiveIds, Live

LEMMA IntentRecords ==
  ASSUME journal \in Seq(Record), NEW r \in Res, Intent(r)
  PROVE  /\ LiveIds' = LiveIds \cup {id'}
         /\ LiveFor(r)' = LiveFor(r) \cup {id'}
         /\ \A q : q # r => LiveFor(q)' = LiveFor(q)
         /\ id' \notin LiveIds => LiveFor(r) = {}
<1>1. /\ DOMAIN journal \subseteq DOMAIN journal'
      /\ \A j \in DOMAIN journal : journal'[j] = journal[j]
      /\ id' \in DOMAIN journal'
      /\ journal'[id'].key = r /\ journal'[id'].state # "compensated"
      /\ \A j \in DOMAIN journal' \ DOMAIN journal : j = id' /\ LiveFor(r) = {}
  BY IntentLemma
<1>2. LiveIds' = LiveIds \cup {id'}
  BY <1>1 DEF LiveIds, Live
<1>3. \A q : LiveFor(q)' = {j \in LiveIds' : journal'[j].key = q}
  BY DEF LiveFor
<1>4. \A j \in LiveIds : journal'[j].key = journal[j].key
  BY <1>1 DEF LiveIds
<1>5. id' \notin LiveIds => LiveFor(r) = {}
  BY <1>1 DEF LiveIds, Live
<1>. QED BY <1>1, <1>2, <1>3, <1>4, <1>5 DEF LiveFor

-----------------------------------------------------------------------------
(* The unique index, and that replay never revives what it compensated:    *)
(* the records still to come are live ones.                                *)

OneFor == \A r : \A i, j \in LiveFor(r) : i = j

LeftLive == left \subseteq LiveIds /\ (pc = "compensate" => id \notin left)

(* Until something is reported pending, what is live is still to come; and *)
(* a clean end means that nothing is, if nobody interrupted.               *)
Remaining ==
  pc \in {"replay", "compensate"} /\ ~pending =>
    LiveIds \subseteq left \cup (IF pc = "compensate" THEN {id} ELSE {})

CleanEnd == outcome = "clean" => pc = "idle" /\ (Interrupts \/ LiveIds = {})

RecordInv == OneFor /\ LeftLive /\ Remaining /\ CleanEnd

LEMMA OneForIsOneLiveRecord == OneFor <=> OneLiveRecord
BY DEF OneFor, OneLiveRecord, LiveFor

LEMMA EndRecords ==
  ASSUME RecordInv, SameRecords, EndSession,
         outcome' = "clean" => Interrupts \/ LiveIds = {}
  PROVE  RecordInv'
<1>1. OneFor'
  BY DEF RecordInv, OneFor, SameRecords
<1>2. pc' = "idle" /\ left' = {}
  BY DEF EndSession
<1>. QED BY <1>1, <1>2 DEF RecordInv, LeftLive, Remaining, CleanEnd, SameRecords

LEMMA RecordStep ==
  ASSUME TypeOK, Working, RecordInv, Next
  PROVE  RecordInv'
<1>1. CASE SelectProvider
  BY <1>1, UnchangedRecords
     DEF SelectProvider, session, RecordInv, OneFor, LeftLive, Remaining, CleanEnd, SameRecords
<1>2. CASE BeginUp \/ BeginDown
  <2>1. /\ OpenState /\ left' = {} /\ outcome' = "none"
        /\ pc' \in {"next", "sweep"}
    BY <1>2 DEF BeginUp, BeginDown, session, Working
  <2>2. OneFor'
    <3>1. CASE UNCHANGED journal
      BY <3>1, UnchangedRecords DEF RecordInv, OneFor, SameRecords
    <3>2. CASE journal' = <<>>
      BY <3>2, LostRecords DEF OneFor
    <3>. QED BY <2>1, <3>1, <3>2, OpenStateLemma
  <2>. QED BY <2>1, <2>2 DEF RecordInv, LeftLive, Remaining, CleanEnd
<1>14. CASE ReuseNetwork \/ RemovedByHand
  BY <1>14, UnchangedRecords
     DEF ReuseNetwork, RemovedByHand, session, RecordInv, OneFor, LeftLive,
         Remaining, CleanEnd, SameRecords
<1>3. CASE RecordIntent
  <2>1. PICK r \in todo : Intent(r)
    BY <1>3 DEF RecordIntent
  <2>2. /\ LiveIds' = LiveIds \cup {id'}
        /\ LiveFor(r)' = LiveFor(r) \cup {id'}
        /\ \A q : q # r => LiveFor(q)' = LiveFor(q)
        /\ id' \notin LiveIds => LiveFor(r) = {}
    BY <2>1, IntentRecords DEF TypeOK
  <2>3. id' \in LiveIds => id' \in LiveFor(r)
    <3>1. journal'[id'].key = r /\ \A j \in DOMAIN journal : journal'[j] = journal[j]
      BY <2>1, IntentLemma DEF TypeOK
    <3>. QED BY <3>1 DEF LiveFor, LiveIds
  <2>4. OneFor'
    BY <2>2, <2>3 DEF RecordInv, OneFor
  <2>. QED BY <1>3, <2>2, <2>4 DEF RecordIntent, RecordInv, LeftLive, Remaining, CleanEnd
<1>4. CASE UpReady \/ UpStops \/ EmulatorFails \/ ReplayCancelled \/ ListFails \/ Crash
  BY <1>4, UnchangedRecords, EndRecords
     DEF UpReady, UpStops, EmulatorFails, ReplayCancelled, ListFails, Crash, RecordInv,
         CleanEnd
<1>5. CASE CreateSucceeds \/ CreateFailsLate
  <2>1. SameRecords
    BY <1>5, UnchangedRecords DEF CreateSucceeds, CreateFailsLate
  <2>2. CASE EndSession
    BY <1>5, <2>1, <2>2, EndRecords DEF CreateSucceeds, CreateFailsLate, RecordInv, CleanEnd
  <2>3. CASE ~EndSession
    BY <1>5, <2>1, <2>3
       DEF CreateSucceeds, CreateFailsLate, RecordInv, OneFor, LeftLive, Remaining,
           CleanEnd, SameRecords
  <2>. QED BY <2>2, <2>3
<1>6. CASE CommitBranch \/ CommitPartial
  <2>1. SameRecords
    BY <1>6, CommittedRecords DEF CommitBranch, CommitPartial, Working, TypeOK
  <2>2. CASE CommitBranch
    BY <2>1, <2>2 DEF CommitBranch, session, RecordInv, OneFor, LeftLive, Remaining,
                      CleanEnd, SameRecords
  <2>3. CASE CommitPartial
    BY <2>1, <2>3, EndRecords DEF CommitPartial, RecordInv, CleanEnd
  <2>. QED BY <1>6, <2>2, <2>3
<1>7. CASE Sweep \/ DestroyBranch \/ DestroyStores
  <2>1. /\ pc \in {"sweep", "destroy", "stores"}
        /\ pc' \in {"destroy", "stores", "registry"}
        /\ UNCHANGED <<journal, left, outcome>>
    BY <1>7 DEF Sweep, DestroyBranch, DestroyStores
  <2>. QED BY <2>1, UnchangedRecords
           DEF RecordInv, OneFor, LeftLive, Remaining, CleanEnd, SameRecords
<1>8. CASE BeginReplay
  BY <1>8, UnchangedRecords
     DEF BeginReplay, RecordInv, OneFor, LeftLive, Remaining, CleanEnd, SameRecords
<1>9. CASE Skip
  BY <1>9, UnchangedRecords
     DEF Skip, RecordInv, OneFor, LeftLive, Remaining, CleanEnd, SameRecords
<1>10. CASE DeleteSucceeds
  <2>1. NextRecord \in left
    BY <1>10, NextRecordLemma DEF DeleteSucceeds, TypeOK
  <2>. QED BY <1>10, <2>1, UnchangedRecords
           DEF DeleteSucceeds, RecordInv, OneFor, LeftLive, Remaining, CleanEnd, SameRecords
<1>11. CASE MarkCompensated
  <2>1. CASE SetState(id, "compensated") /\ pending' = pending
    <3>1. LiveIds' = LiveIds \ {id} /\ \A r : LiveFor(r)' = LiveFor(r) \ {id}
      BY <1>11, <2>1, CompensatedRecords DEF MarkCompensated, Working, TypeOK
    <3>. QED BY <1>11, <2>1, <3>1
             DEF MarkCompensated, RecordInv, OneFor, LeftLive, Remaining, CleanEnd
  <2>2. CASE pending' = TRUE /\ UNCHANGED journal
    BY <1>11, <2>2, UnchangedRecords
       DEF MarkCompensated, RecordInv, OneFor, LeftLive, Remaining, CleanEnd, SameRecords
  <2>. QED BY <1>11, <2>1, <2>2 DEF MarkCompensated
<1>12. CASE DeleteFails
  <2>1. NextRecord \in LiveIds
    BY <1>12, NextRecordLemma DEF DeleteFails, TypeOK, RecordInv, LeftLive
  <2>2. SameRecords
    BY <1>12, <2>1, FailedRecords, UnchangedRecords DEF DeleteFails, TypeOK
  <2>. QED BY <1>12, <2>2
           DEF DeleteFails, RecordInv, OneFor, LeftLive, Remaining, CleanEnd, SameRecords
<1>13. CASE DownEnds
  <2>1. outcome' = "clean" => LiveIds = {}
    BY <1>13 DEF DownEnds, RecordInv, Remaining
  <2>. QED BY <1>13, <2>1, UnchangedRecords, EndRecords DEF DownEnds
<1>. QED BY <1>1, <1>2, <1>3, <1>4, <1>5, <1>6, <1>7, <1>8, <1>9, <1>10, <1>11,
            <1>12, <1>13, <1>14 DEF Next, Up, Down

LEMMA RecordsInvariant == Spec => []RecordInv
<1>1. Init => RecordInv
  BY DEF Init, RecordInv, OneFor, LeftLive, Remaining, CleanEnd, LiveFor, LiveIds
<1>2. TypeOK /\ Working /\ RecordInv /\ [Next]_vars => RecordInv'
  <2>1. ASSUME RecordInv, UNCHANGED vars PROVE RecordInv'
    BY <2>1, UnchangedRecords
       DEF vars, RecordInv, OneFor, LeftLive, Remaining, CleanEnd, SameRecords
  <2>. QED BY <2>1, RecordStep
<1>. QED BY <1>1, <1>2, TypeCorrect, PTL DEF Spec

(* Retries, reruns after a crash and reruns after a failed down never      *)
(* leave two live records for one resource (the unique index of the        *)
(* journal table), however many resources there are.                       *)
THEOREM OneRecordPerResource == Spec => []OneLiveRecord
<1>1. RecordInv => OneLiveRecord
  BY OneForIsOneLiveRecord DEF RecordInv
<1>. QED BY <1>1, RecordsInvariant, PTL

-----------------------------------------------------------------------------
(* Nothing is forgotten where every handle reaches: no provider needs a    *)
(* recorded reference to destroy, and the legacy name is either the only   *)
(* provider or not one at all.                                             *)

EveryHandleReaches ==
  RefOnly = {} /\ (Docker \in DbProviders => DbProviders = {Docker})

\* What replay may delete: its branches are the selected provider's.
OpenKnown ==
  /\ open \subseteq Stores \cup Swept \cup {sel, Docker}
  /\ pc = "idle" => open = {}

\* A record is only marked compensated when its resource is gone.
Deleted == pc = "compensate" => exists[journal[id].key] = 0

ReachInv == NoForgottenResource /\ OpenKnown /\ Deleted

\* A step that creates nothing and keeps the records.
OnlyRemoves ==
  /\ SameRecords
  /\ lost' = lost
  /\ \A r \in Res : exists'[r] # 0 => exists'[r] = exists[r]

LEMMA RemovalOnlyRemoves ==
  ASSUME TypeOK, UNCHANGED <<journal, lost>>,
         exists' = exists \/ \E S : exists' = Removed(S)
  PROVE  OnlyRemoves
<1>1. SameRecords
  BY UnchangedRecords
<1>2. \A r \in Res : exists'[r] # 0 => exists'[r] = exists[r]
  BY RemovedLemma DEF TypeOK
<1>. QED BY <1>1, <1>2 DEF OnlyRemoves

LEMMA RemovalForgetsNothing ==
  ASSUME NoForgottenResource, OnlyRemoves
  PROVE  NoForgottenResource'
BY DEF NoForgottenResource, OnlyRemoves, SameRecords

LEMMA EndReach ==
  ASSUME NoForgottenResource', EndSession
  PROVE  ReachInv'
BY DEF EndSession, ReachInv, OpenKnown, Deleted

LEMMA ReachStep ==
  ASSUME EveryHandleReaches, TypeOK, Working, RecordInv, ReachInv, Next
  PROVE  ReachInv'
<1>1. CASE SelectProvider \/ ReuseNetwork
  <2>1. OnlyRemoves
    BY <1>1, UnchangedRecords DEF SelectProvider, ReuseNetwork, OnlyRemoves
  <2>. QED BY <1>1, <2>1, RemovalForgetsNothing
           DEF SelectProvider, ReuseNetwork, session, ReachInv, OpenKnown, Deleted
<1>13. CASE BeginUp \/ BeginDown
  <2>1. /\ OpenState /\ UNCHANGED <<exists, open, sel>>
        /\ pc = "idle" /\ pc' \in {"next", "sweep"}
    BY <1>13 DEF BeginUp, BeginDown, session
  <2>2. NoForgottenResource'
    <3>1. CASE UNCHANGED <<journal, lost>>
      BY <2>1, <3>1, UnchangedRecords DEF SameRecords, ReachInv, NoForgottenResource
    <3>2. CASE \A r \in Res : exists[r] # 0 => exists[r] \in lost'
      BY <2>1, <3>2 DEF NoForgottenResource
    <3>. QED BY <2>1, <3>1, <3>2, OpenStateLemma
  <2>. QED BY <2>1, <2>2 DEF ReachInv, OpenKnown, Deleted
<1>14. CASE RemovedByHand
  <2>1. OnlyRemoves
    <3>1. UNCHANGED <<journal, lost>> /\ \E S : exists' = Removed(S)
      BY <1>14 DEF RemovedByHand
    <3>. QED BY <3>1, RemovalOnlyRemoves
  <2>2. Deleted'
    <3>1. pc = "compensate" => journal[id].key \in Res
      <4>1. pc = "compensate" => journal[id] \in Record
        BY DEF Working, TypeOK
      <4>. QED BY <4>1 DEF Record
    <3>. QED BY <1>14, <2>1, <3>1
             DEF RemovedByHand, session, ReachInv, Deleted, OnlyRemoves
  <2>. QED BY <1>14, <2>1, <2>2, RemovalForgetsNothing
           DEF RemovedByHand, session, ReachInv, OpenKnown
<1>2. CASE RecordIntent
  <2>1. PICK r \in todo : Intent(r)
    BY <1>2 DEF RecordIntent
  <2>2. /\ LiveFor(r)' = LiveFor(r) \cup {id'}
        /\ \A q : q # r => LiveFor(q)' = LiveFor(q)
    BY <2>1, IntentRecords DEF TypeOK
  <2>3. NoForgottenResource'
    BY <1>2, <2>2 DEF RecordIntent, ReachInv, NoForgottenResource
  <2>. QED BY <1>2, <2>3 DEF RecordIntent, ReachInv, OpenKnown, Deleted
<1>3. CASE UpReady \/ UpStops \/ ReplayCancelled \/ ListFails \/ DownEnds \/ Crash
  <2>1. OnlyRemoves
    BY <1>3, UnchangedRecords
       DEF UpReady, UpStops, ReplayCancelled, ListFails, DownEnds, Crash, OnlyRemoves
  <2>. QED BY <1>3, <2>1, RemovalForgetsNothing, EndReach
           DEF UpReady, UpStops, ReplayCancelled, ListFails, DownEnds, Crash, ReachInv
<1>4. CASE EmulatorFails
  <2>1. OnlyRemoves
    BY <1>4, UnchangedRecords, RemovedLemma DEF EmulatorFails, OnlyRemoves, TypeOK
  <2>. QED BY <1>4, <2>1, RemovalForgetsNothing, EndReach DEF EmulatorFails, ReachInv
<1>5. CASE CreateSucceeds \/ CreateFailsLate
  <2>1. id \in LiveIds /\ Ensure(Key) /\ UNCHANGED <<journal, lost>>
    BY <1>5 DEF CreateSucceeds, CreateFailsLate, Working
  <2>2. Key \in Res /\ id \in LiveFor(Key)
    <3>1. journal[id] \in Record
      BY <2>1 DEF TypeOK, LiveIds
    <3>. QED BY <2>1, <3>1 DEF Key, Record, LiveFor
  <2>3. \A q \in Res \ {Key} : exists'[q] = exists[q]
    BY <2>1, <2>2, EnsureLemma DEF TypeOK
  <2>4. SameRecords
    BY <2>1, UnchangedRecords
  <2>5. NoForgottenResource'
    BY <2>1, <2>2, <2>3, <2>4 DEF SameRecords, ReachInv, NoForgottenResource
  <2>6. CASE EndSession
    BY <2>5, <2>6, EndReach
  <2>7. CASE ~EndSession
    BY <1>5, <2>5, <2>7
       DEF CreateSucceeds, CreateFailsLate, ReachInv, OpenKnown, Deleted
  <2>. QED BY <2>6, <2>7
<1>6. CASE CommitBranch \/ CommitPartial
  <2>1. OnlyRemoves
    BY <1>6, CommittedRecords DEF CommitBranch, CommitPartial, Working, TypeOK, OnlyRemoves
  <2>2. CASE CommitBranch
    BY <2>1, <2>2, RemovalForgetsNothing
       DEF CommitBranch, session, ReachInv, OpenKnown, Deleted
  <2>3. CASE CommitPartial
    BY <2>1, <2>3, RemovalForgetsNothing, EndReach DEF CommitPartial, ReachInv
  <2>. QED BY <1>6, <2>2, <2>3
<1>7. CASE Sweep \/ DestroyBranch \/ DestroyStores
  <2>1. /\ pc \in {"sweep", "destroy", "stores"}
        /\ pc' \in {"destroy", "stores", "registry"}
        /\ UNCHANGED <<journal, sel, lost>>
        /\ exists' = exists \/ \E S : exists' = Removed(S)
        /\ open' = open \/ open' = Stores
    BY <1>7 DEF Sweep, DestroyBranch, DestroyStores
  <2>2. OnlyRemoves
    BY <2>1, RemovalOnlyRemoves
  <2>. QED BY <2>1, <2>2, RemovalForgetsNothing DEF ReachInv, OpenKnown, Deleted
<1>8. CASE BeginReplay
  <2>1. OnlyRemoves
    BY <1>8, UnchangedRecords DEF BeginReplay, OnlyRemoves
  <2>. QED BY <1>8, <2>1, RemovalForgetsNothing
           DEF BeginReplay, Registered, ReachInv, OpenKnown, Deleted
<1>9. CASE Skip
  <2>1. OnlyRemoves
    BY <1>9, UnchangedRecords DEF Skip, OnlyRemoves
  <2>. QED BY <1>9, <2>1, RemovalForgetsNothing DEF Skip, ReachInv, OpenKnown, Deleted
<1>10. CASE DeleteSucceeds
  <2>1. NextRecord \in DOMAIN journal
    BY <1>10, NextRecordLemma DEF DeleteSucceeds, TypeOK
  <2>2. journal[NextRecord].key \in Res
    <3>1. journal[NextRecord] \in Record
      BY <2>1 DEF TypeOK
    <3>. QED BY <3>1 DEF Record
  <2>3. OnlyRemoves
    BY <1>10, UnchangedRecords, RemovedLemma DEF DeleteSucceeds, OnlyRemoves, TypeOK
  <2>4. journal[NextRecord].key \in Reached(journal[NextRecord])
    <3>1. CASE journal[NextRecord].key \notin DbProviders
      BY <3>1 DEF Reached
    <3>2. CASE journal[NextRecord].key \in DbProviders
      <4>1. journal[NextRecord].key = sel
        BY <1>10, <3>2, JournalAssumption
           DEF DeleteSucceeds, ReachInv, OpenKnown, EveryHandleReaches, TypeOK
      <4>. QED BY <3>2, <4>1 DEF Reached, EveryHandleReaches
    <3>. QED BY <3>1, <3>2
  <2>5. exists'[journal[NextRecord].key] = 0
    BY <1>10, <2>2, <2>4, RemovedLemma DEF DeleteSucceeds, TypeOK
  <2>. QED BY <1>10, <2>3, <2>5, RemovalForgetsNothing
           DEF DeleteSucceeds, ReachInv, OpenKnown, Deleted
<1>11. CASE MarkCompensated
  <2>1. CASE SetState(id, "compensated")
    <3>1. \A r : LiveFor(r)' = LiveFor(r) \ {id}
      BY <1>11, <2>1, CompensatedRecords DEF MarkCompensated, Working, TypeOK
    <3>2. \A r \in Res : exists[r] # 0 => id \notin LiveFor(r)
      BY <1>11 DEF MarkCompensated, ReachInv, Deleted, LiveFor
    <3>3. NoForgottenResource'
      BY <1>11, <3>1, <3>2 DEF MarkCompensated, ReachInv, NoForgottenResource
    <3>. QED BY <1>11, <3>3 DEF MarkCompensated, ReachInv, OpenKnown, Deleted
  <2>2. CASE UNCHANGED journal
    <3>1. OnlyRemoves
      BY <1>11, <2>2, UnchangedRecords DEF MarkCompensated, OnlyRemoves
    <3>. QED BY <1>11, <3>1, RemovalForgetsNothing
             DEF MarkCompensated, ReachInv, OpenKnown, Deleted
  <2>. QED BY <1>11, <2>1, <2>2 DEF MarkCompensated
<1>12. CASE DeleteFails
  <2>1. NextRecord \in LiveIds
    BY <1>12, NextRecordLemma DEF DeleteFails, TypeOK, RecordInv, LeftLive
  <2>2. OnlyRemoves
    BY <1>12, <2>1, FailedRecords, UnchangedRecords DEF DeleteFails, TypeOK, OnlyRemoves
  <2>. QED BY <1>12, <2>2, RemovalForgetsNothing DEF DeleteFails, ReachInv, OpenKnown, Deleted
<1>. QED BY <1>1, <1>2, <1>3, <1>4, <1>5, <1>6, <1>7, <1>8, <1>9, <1>10, <1>11,
            <1>12, <1>13, <1>14 DEF Next, Up, Down

LEMMA ReachInvariant ==
  ASSUME EveryHandleReaches
  PROVE  Spec => []ReachInv
<1>1. Init => ReachInv
  BY DEF Init, ReachInv, NoForgottenResource, OpenKnown, Deleted
<1>2. TypeOK /\ Working /\ RecordInv /\ ReachInv /\ [Next]_vars => ReachInv'
  <2>1. ASSUME ReachInv, UNCHANGED vars PROVE ReachInv'
    <3>1. OnlyRemoves
      BY <2>1, UnchangedRecords DEF vars, OnlyRemoves
    <3>. QED BY <2>1, <3>1, RemovalForgetsNothing
             DEF vars, ReachInv, OpenKnown, Deleted
  <2>. QED BY <2>1, ReachStep
<1>. QED BY <1>1, <1>2, TypeCorrect, RecordsInvariant, PTL DEF Spec

(* The journal's promise: where every deleter can reach what it is asked   *)
(* to delete, every resource that exists has a live record, at every       *)
(* instant of every up, down, failure and crash.                           *)
THEOREM NothingForgotten ==
  ASSUME EveryHandleReaches
  PROVE  Spec => []NoForgottenResource
<1>1. ReachInv => NoForgottenResource
  BY DEF ReachInv
<1>. QED BY <1>1, ReachInvariant, PTL

-----------------------------------------------------------------------------
(* A teardown reaches what has a derived name without the journal: until   *)
(* something is reported pending, what its phases have come to is gone.    *)

Gone(S) == \A r \in S : exists[r] = 0

AfterStores == {"registry", "replay", "compensate"}
AfterDestroy == {"stores"} \cup AfterStores
AfterSweep == {"destroy"} \cup AfterDestroy

Cleared ==
  /\ pc \in AfterSweep /\ ~pending => Gone(Swept)
  /\ pc \in AfterDestroy /\ ~pending => Gone({sel} \ RefOnly)
  /\ pc \in AfterStores /\ ~pending => Gone(Stores)

\* A store stands on its server.
StoresHosted == Gone(Stores) \/ server

ByName == outcome = "clean" => Gone(Swept \cup Stores \cup ({sel} \ RefOnly))

ClearInv == Cleared /\ StoresHosted /\ ByName

\* A step that makes nothing, of which the same manifest stays in force.
OnlyGoes ==
  sel' = sel /\ (exists' = exists \/ \E S : exists' = Removed(S))

LEMMA GoneStaysGone ==
  ASSUME TypeOK, OnlyGoes
  PROVE  /\ Gone(Swept) => Gone(Swept)'
         /\ Gone(Stores) => Gone(Stores)'
         /\ Gone({sel} \ RefOnly) => Gone({sel} \ RefOnly)'
<1>1. \A r \in Res : exists[r] = 0 => exists'[r] = 0
  BY RemovedLemma DEF OnlyGoes, TypeOK
<1>. QED BY <1>1, ResLemma DEF Gone, OnlyGoes, TypeOK

LEMMA GoneAfterRemoval ==
  ASSUME TypeOK, NEW S \in SUBSET Res, exists' = Removed(S)
  PROVE  Gone(S)'
BY RemovedLemma DEF Gone, TypeOK

\* Outside a teardown only the stores' server is at issue.
LEMMA ClearOutside ==
  ASSUME pc' \notin AfterSweep, outcome' # "clean", StoresHosted'
  PROVE  ClearInv'
BY DEF ClearInv, Cleared, ByName, AfterSweep, AfterDestroy, AfterStores

LEMMA ClearStep ==
  ASSUME TypeOK, Working, RecordInv, ClearInv, Next
  PROVE  ClearInv'
<1>1. pc # "idle" => outcome # "clean"
  BY DEF RecordInv, CleanEnd
<1>2. CASE SelectProvider \/ BeginUp \/ BeginDown \/ ReuseNetwork \/ RecordIntent
           \/ UpReady \/ UpStops \/ Crash \/ CommitBranch \/ CommitPartial
           \/ ReplayCancelled
  <2>1. exists' = exists /\ outcome' # "clean" /\ (RecordIntent \/ server' = server)
    BY <1>1, <1>2 DEF SelectProvider, BeginUp, BeginDown, ReuseNetwork, RecordIntent,
       UpReady, UpStops, Crash, CommitBranch, CommitPartial, ReplayCancelled
  <2>2. pc' \notin AfterSweep
    BY <1>2 DEF SelectProvider, BeginUp, BeginDown, ReuseNetwork, RecordIntent,
       UpReady, UpStops, Crash, CommitBranch, CommitPartial, ReplayCancelled,
       EndSession, AfterSweep, AfterDestroy, AfterStores
  <2>3. StoresHosted'
    <3>1. server => server'
      <4>1. ASSUME RecordIntent, server PROVE server'
        BY <4>1, Zenon DEF RecordIntent
      <4>. QED BY <2>1, <4>1
    <3>. QED BY <2>1, <3>1 DEF ClearInv, StoresHosted, Gone
  <2>. QED BY <2>1, <2>2, <2>3, ClearOutside
<1>3. CASE EmulatorFails
  <2>1. pc' = "idle" /\ OnlyGoes /\ server' = server /\ outcome' # "clean"
    BY <1>1, <1>3 DEF EmulatorFails, EndSession, OnlyGoes
  <2>2. StoresHosted'
    BY <2>1, GoneStaysGone DEF ClearInv, StoresHosted
  <2>. QED BY <2>1, <2>2, ClearOutside DEF AfterSweep, AfterDestroy, AfterStores
<1>4. CASE CreateSucceeds \/ CreateFailsLate
  <2>1. /\ id \in DOMAIN journal /\ Ensure(Key) /\ Hosted(Key) /\ server' = server
        /\ outcome' # "clean" /\ pc' \in {"next", "commit", "partial", "idle"}
    BY <1>1, <1>4 DEF CreateSucceeds, CreateFailsLate, EndSession, Working, LiveIds
  <2>2. Key \in Res
    <3>1. journal[id] \in Record
      BY <2>1 DEF TypeOK
    <3>. QED BY <3>1 DEF Key, Record
  <2>3. \A q \in Res \ {Key} : exists'[q] = exists[q]
    BY <2>1, <2>2, EnsureLemma DEF TypeOK
  <2>4. StoresHosted'
    BY <2>1, <2>3, ResLemma DEF ClearInv, StoresHosted, Gone, Hosted
  <2>. QED BY <2>1, <2>4, ClearOutside DEF AfterSweep, AfterDestroy, AfterStores
<1>5. CASE Sweep
  <2>1. PICK kept \in SUBSET Standing(Swept) :
          exists' = Removed(Swept \ kept) /\ pending' \in {kept # {}, TRUE}
    BY <1>5 DEF Sweep
  <2>2. ~pending' => Gone(Swept)'
    <3>1. ~pending' => exists' = Removed(Swept)
      BY <2>1
    <3>. QED BY <3>1, GoneAfterRemoval, ResLemma
  <2>3. pc' = "destroy" /\ OnlyGoes /\ server' = server /\ outcome' # "clean"
    BY <1>1, <1>5, <2>1 DEF Sweep, OnlyGoes
  <2>4. StoresHosted'
    BY <2>3, GoneStaysGone DEF ClearInv, StoresHosted
  <2>. QED BY <2>2, <2>3, <2>4
           DEF ClearInv, Cleared, ByName, AfterDestroy, AfterStores
<1>6. CASE DestroyBranch
  <2>1. /\ pc = "destroy" /\ pc' = "stores" /\ OnlyGoes /\ server' = server
        /\ outcome' # "clean" /\ (~pending' => ~pending)
    BY <1>1, <1>6 DEF DestroyBranch, OnlyGoes
  <2>2. ~pending' => Gone({sel} \ RefOnly)'
    <3>1. CASE sel \in RefOnly
      BY <2>1, <3>1 DEF Gone, OnlyGoes
    <3>2. CASE sel \notin RefOnly
      <4>1. ~pending' => exists' = Removed({sel})
        BY <1>6, <3>2 DEF DestroyBranch
      <4>2. {sel} \subseteq Res
        BY ResLemma DEF TypeOK
      <4>3. ~pending' => Gone({sel})'
        BY <4>1, <4>2, <2>1, GoneAfterRemoval DEF OnlyGoes, Gone
      <4>. QED BY <4>3 DEF Gone
    <3>. QED BY <3>1, <3>2
  <2>. QED BY <2>1, <2>2, GoneStaysGone
           DEF ClearInv, Cleared, StoresHosted, ByName, AfterSweep, AfterDestroy, AfterStores
<1>7. CASE DestroyStores
  <2>1. /\ pc = "stores" /\ pc' = "registry" /\ OnlyGoes /\ server' = server
        /\ outcome' # "clean"
    BY <1>1, <1>7 DEF DestroyStores, OnlyGoes
  <2>3. ~pending' => ~pending
    BY <1>7, Zenon DEF DestroyStores
  <2>2. ~pending' => Gone(Stores)'
    <3>1. ASSUME ~pending' PROVE exists' = Removed(Stores) \/ (~server /\ exists' = exists)
      BY <1>7, <3>1 DEF DestroyStores
    <3>2. ASSUME exists' = Removed(Stores) PROVE Gone(Stores)'
      BY <3>2, GoneAfterRemoval, ResLemma
    <3>3. ASSUME ~server PROVE Gone(Stores)'
      BY <2>1, <3>3, GoneStaysGone DEF ClearInv, StoresHosted
    <3>. QED BY <3>1, <3>2, <3>3
  <2>. QED BY <2>1, <2>2, <2>3, GoneStaysGone
           DEF ClearInv, Cleared, StoresHosted, ByName, AfterSweep, AfterDestroy, AfterStores
<1>8. CASE BeginReplay \/ Skip \/ DeleteSucceeds \/ MarkCompensated \/ DeleteFails
  <2>1. /\ pc \in AfterStores /\ pc' \in AfterStores /\ OnlyGoes /\ server' = server
        /\ outcome' # "clean" /\ (~pending' => ~pending)
    BY <1>1, <1>8 DEF BeginReplay, Skip, DeleteSucceeds, MarkCompensated, DeleteFails,
       OnlyGoes, AfterStores
  <2>. QED BY <2>1, GoneStaysGone
           DEF ClearInv, Cleared, StoresHosted, ByName, AfterSweep, AfterDestroy
<1>9. CASE DownEnds \/ ListFails
  <2>1. /\ pc \in AfterStores /\ pc' = "idle" /\ exists' = exists /\ sel' = sel
        /\ server' = server /\ (outcome' = "clean" => ~pending)
    BY <1>9 DEF DownEnds, ListFails, EndSession, AfterStores
  <2>2. Gone(Swept \cup Stores \cup ({sel} \ RefOnly))' \/ outcome' # "clean"
    BY <2>1 DEF ClearInv, Cleared, AfterSweep, AfterDestroy, Gone
  <2>. QED BY <2>1, <2>2
           DEF ClearInv, Cleared, StoresHosted, ByName, Gone, AfterSweep, AfterDestroy, AfterStores
<1>10. CASE RemovedByHand
  <2>1. /\ OnlyGoes /\ UNCHANGED <<pc, pending, outcome>>
        /\ server' = server \/ exists' = Removed(Stores)
    BY <1>10 DEF RemovedByHand, OnlyGoes, session
  <2>2. StoresHosted'
    BY <2>1, GoneStaysGone, GoneAfterRemoval, ResLemma DEF ClearInv, StoresHosted
  <2>3. ByName'
    <3>1. outcome' = "clean" => Gone(Swept)' /\ Gone(Stores)' /\ Gone({sel} \ RefOnly)'
      BY <2>1, GoneStaysGone DEF ClearInv, ByName, Gone
    <3>. QED BY <3>1 DEF ByName, Gone
  <2>4. Cleared'
    BY <2>1, GoneStaysGone DEF ClearInv, Cleared
  <2>. QED BY <2>2, <2>3, <2>4 DEF ClearInv
<1>. QED BY <1>2, <1>3, <1>4, <1>5, <1>6, <1>7, <1>8, <1>9, <1>10 DEF Next, Up, Down

(* An af down that exits 0 has removed the containers, the networks, the   *)
(* stores and the selected provider's branch, unless that provider knows   *)
(* it by reference only: interrupted or not, with or without its records.  *)
THEOREM CleanExitByName == Spec => []ClearInv
<1>1. Init => ClearInv
  BY ResLemma DEF Init, ClearInv, Cleared, StoresHosted, ByName, Gone, AfterSweep,
     AfterDestroy, AfterStores
<1>2. TypeOK /\ Working /\ RecordInv /\ ClearInv /\ [Next]_vars => ClearInv'
  <2>1. ASSUME ClearInv, UNCHANGED vars PROVE ClearInv'
    BY <2>1 DEF vars, ClearInv, Cleared, StoresHosted, ByName, Gone
  <2>. QED BY <2>1, ClearStep
<1>. QED BY <1>1, <1>2, TypeCorrect, RecordsInvariant, PTL DEF Spec

(* Besides, where every deleter can reach what it is asked to delete, an   *)
(* af down that nobody interrupts and that exits 0 has left no record and  *)
(* nothing that ever had one, although it looked only at the selected      *)
(* provider and at the records.                                            *)
THEOREM CleanExitIsClean ==
  ASSUME EveryHandleReaches, ~Interrupts
  PROVE  Spec => []CleanExitMeansGone
<1>1. TypeOK /\ RecordInv /\ ReachInv /\ ClearInv => CleanExitMeansGone
  <2>. SUFFICES ASSUME RecordInv, ReachInv, ClearInv, outcome = "clean"
                PROVE  /\ LiveIds = {}
                       /\ \A r \in Res : exists[r] # 0 =>
                            /\ exists[r] \in lost
                            /\ r \in DbProviders
                            /\ r # sel \/ r \in RefOnly
    BY DEF CleanExitMeansGone
  <2>1. LiveIds = {}
    BY DEF RecordInv, CleanEnd
  <2>2. \A r \in Res : exists[r] # 0 => exists[r] \in lost
    BY <2>1 DEF ReachInv, NoForgottenResource, LiveFor
  <2>3. \A r \in Res : exists[r] # 0 => r \in DbProviders /\ (r # sel \/ r \in RefOnly)
    BY DEF ClearInv, ByName, Gone, Res
  <2>. QED BY <2>1, <2>2, <2>3
<1>. QED BY <1>1, TypeCorrect, RecordsInvariant, ReachInvariant, CleanExitByName, PTL

-----------------------------------------------------------------------------
(* A record that carries a reference is compensated by whom the reference  *)
(* belongs to, as long as the legacy name is not mixed with others.        *)

LegacyAlone == Docker \in DbProviders => DbProviders = {Docker}

RefGone ==
  pc = "compensate" =>
    /\ journal[id].key \in Res
    /\ journal[id].ref # 0 => exists[journal[id].key] # journal[id].ref

RefInv == OpenKnown /\ RefGone

LEMMA RefStep ==
  ASSUME LegacyAlone, TypeOK, Working, RefInv, Next
  PROVE  RefInv'
<1>1. CASE pc' = "compensate" /\ ~RemovedByHand
  <2>1. DeleteSucceeds
    BY <1>1 DEF Next, Up, Down, SelectProvider, BeginUp, ReuseNetwork, RecordIntent,
       UpReady, CreateSucceeds, CommitBranch, CreateFailsLate, CommitPartial,
       EmulatorFails, UpStops, BeginDown, Sweep, DestroyBranch, DestroyStores,
       BeginReplay, Skip, MarkCompensated, DeleteFails, DownEnds, ReplayCancelled,
       ListFails, Crash, EndSession
  <2>. DEFINE rec == journal[NextRecord]
  <2>2. rec \in Record
    BY <2>1, NextRecordLemma DEF DeleteSucceeds, TypeOK
  <2>3. rec.key \in Res /\ rec.ref \in Nat
    BY <2>2 DEF Record
  <2>4. exists' = Removed(Reached(rec)) /\ journal' = journal /\ id' = NextRecord
    BY <2>1 DEF DeleteSucceeds
  <2>5. rec.key \in Reached(rec) \/ exists[rec.key] # rec.ref
    <3>1. CASE rec.key \notin DbProviders
      BY <3>1 DEF Reached
    <3>2. CASE rec.key \in DbProviders
      <4>1. rec.key = sel
        BY <2>1, <3>2, JournalAssumption
           DEF DeleteSucceeds, RefInv, OpenKnown, LegacyAlone, TypeOK
      <4>. QED BY <3>2, <4>1 DEF Reached
    <3>. QED BY <3>1, <3>2
  <2>6. rec.ref # 0 => exists'[rec.key] # rec.ref
    <3>. HIDE DEF rec
    <3>. QED BY <2>3, <2>4, <2>5, RemovedLemma DEF TypeOK
  <2>. QED BY <2>1, <2>3, <2>4, <2>6 DEF DeleteSucceeds, RefInv, RefGone, OpenKnown
<1>2. CASE RemovedByHand
  <2>1. UNCHANGED <<journal, id, pc, open, sel>> /\ \E S : exists' = Removed(S)
    BY <1>2 DEF RemovedByHand, session
  <2>2. \A r \in Res : exists'[r] = 0 \/ exists'[r] = exists[r]
    BY <2>1, RemovedLemma DEF TypeOK
  <2>. QED BY <2>1, <2>2 DEF RefInv, RefGone, OpenKnown
<1>3. CASE pc' # "compensate" /\ ~RemovedByHand
  <2>1. OpenKnown'
    <3>1. CASE SelectProvider \/ Up
      BY <1>3, <3>1 DEF SelectProvider, Up, BeginUp, ReuseNetwork, RecordIntent,
         UpReady, CreateSucceeds, CommitBranch, CreateFailsLate, CommitPartial,
         EmulatorFails, UpStops, EndSession, session, RefInv, OpenKnown
    <3>2. CASE Down \/ Crash
      BY <1>3, <3>2 DEF Down, BeginDown, Sweep, DestroyBranch, DestroyStores,
         BeginReplay, Registered, Skip, DeleteSucceeds, MarkCompensated, DeleteFails,
         DownEnds, ReplayCancelled, ListFails, Crash, EndSession, session, RefInv,
         OpenKnown
    <3>. QED BY <1>3, <3>1, <3>2 DEF Next
  <2>. QED BY <1>3, <2>1 DEF RefInv, RefGone
<1>. QED BY <1>1, <1>2, <1>3

LEMMA RefsInvariant ==
  ASSUME LegacyAlone
  PROVE  Spec => []RefInv
<1>1. Init => RefInv
  BY DEF Init, RefInv, OpenKnown, RefGone
<1>2. TypeOK /\ Working /\ RefInv /\ [Next]_vars => RefInv'
  <2>1. ASSUME RefInv, UNCHANGED vars PROVE RefInv'
    BY <2>1 DEF vars, RefInv, OpenKnown, RefGone
  <2>. QED BY <2>1, RefStep
<1>. QED BY <1>1, <1>2, TypeCorrect, PTL DEF Spec

(* Only a compensation, or the loss of the whole journal, ends a record.   *)
LEMMA RecordsEnd ==
  ASSUME TypeOK, Working, RecordInv, Next
  PROVE  \/ LiveIds \subseteq LiveIds'
         \/ journal' = <<>>
         \/ /\ pc = "compensate" /\ SetState(id, "compensated")
            /\ UNCHANGED exists
<1>1. CASE RecordIntent
  BY <1>1, IntentRecords DEF RecordIntent, TypeOK
<1>2. CASE BeginUp \/ BeginDown
  <2>1. OpenState
    BY <1>2 DEF BeginUp, BeginDown
  <2>2. CASE UNCHANGED journal
    BY <2>2, UnchangedRecords DEF SameRecords
  <2>. QED BY <2>1, <2>2, OpenStateLemma
<1>3. CASE CommitBranch \/ CommitPartial
  BY <1>3, CommittedRecords DEF CommitBranch, CommitPartial, Working, TypeOK, SameRecords
<1>4. CASE DeleteFails
  <2>1. NextRecord \in LiveIds
    BY <1>4, NextRecordLemma DEF DeleteFails, TypeOK, RecordInv, LeftLive
  <2>. QED BY <1>4, <2>1, FailedRecords, UnchangedRecords
           DEF DeleteFails, TypeOK, SameRecords
<1>5. CASE MarkCompensated
  BY <1>5, UnchangedRecords DEF MarkCompensated, SameRecords
<1>6. CASE SelectProvider \/ ReuseNetwork \/ UpReady \/ CreateSucceeds
           \/ CreateFailsLate \/ EmulatorFails \/ UpStops \/ Sweep \/ DestroyBranch
           \/ DestroyStores \/ BeginReplay \/ Skip \/ DeleteSucceeds \/ DownEnds
           \/ ReplayCancelled \/ ListFails \/ Crash \/ RemovedByHand
  <2>1. UNCHANGED journal
    BY <1>6 DEF SelectProvider, ReuseNetwork, UpReady, CreateSucceeds,
       CreateFailsLate, EmulatorFails, UpStops, Sweep, DestroyBranch, DestroyStores,
       BeginReplay, Skip, DeleteSucceeds, DownEnds, ReplayCancelled, ListFails,
       Crash, RemovedByHand
  <2>. QED BY <2>1, UnchangedRecords DEF SameRecords
<1>. QED BY <1>1, <1>2, <1>3, <1>4, <1>5, <1>6 DEF Next, Up, Down

(* No step takes a record that carries a reference out of the live set     *)
(* while the branch of that reference stands, with providers that destroy  *)
(* by reference only as well, whatever else is running late or has failed. *)
THEOREM CompensationIsTrue ==
  ASSUME LegacyAlone
  PROVE  Spec => CompensatedRefIsGone
<1>. DEFINE A == \A i \in LiveIds :
                   i \in DOMAIN journal' /\ ~Live(i)' /\ journal[i].ref # 0
                     => exists'[journal[i].key] # journal[i].ref
<1>1. TypeOK /\ Working /\ RecordInv /\ RefInv /\ [Next]_vars => [A]_vars
  <2>. SUFFICES ASSUME TypeOK, Working, RecordInv, RefInv, Next,
                       NEW i \in LiveIds, i \in DOMAIN journal', ~Live(i)',
                       journal[i].ref # 0
                PROVE  exists'[journal[i].key] # journal[i].ref
    OBVIOUS
  <2>1. i \notin LiveIds'
    BY DEF LiveIds
  <2>2. /\ pc = "compensate" /\ SetState(id, "compensated")
        /\ UNCHANGED exists
    BY <2>1, RecordsEnd
  <2>3. LiveIds' = LiveIds \ {id}
    BY <2>2, CompensatedRecords DEF Working, TypeOK
  <2>4. i = id
    BY <2>1, <2>3
  <2>. QED BY <2>2, <2>4 DEF RefInv, RefGone
<1>. QED BY <1>1, TypeCorrect, RecordsInvariant, RefsInvariant, PTL
         DEF Spec, CompensatedRefIsGone

=============================================================================

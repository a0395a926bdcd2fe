------------------------- MODULE EventDeliveryProofs --------------------------
(***************************************************************************)
(* Proofs about EventDelivery, for any commands, threads, block, buffer,   *)
(* batch and spool sizes.                                                  *)
(***************************************************************************)
EXTENDS EventDelivery, SequenceTheorems, WellFoundedInduction, TLAPS

-----------------------------------------------------------------------------
(* The greatest number of a bounded set *)

Less == {p \in Nat \X Nat : p[1] < p[2]}

LEMMA LessIsWellFounded == IsWellFoundedOn(Less, Nat)
<1>1. Less = OpToRel(<, Nat)  BY DEF Less, OpToRel
<1> QED  BY <1>1, NatLessThanWellFounded

LEMMA LeastNumber ==
  ASSUME NEW T \in SUBSET Nat, T # {}
  PROVE  \E x \in T : \A y \in T : x <= y
<1>1. PICK x \in T : \A y \in T : ~(<<y, x>> \in Less)
  BY LessIsWellFounded, WFMin
<1>2. \A y \in T : ~(y < x)  BY <1>1 DEF Less
<1> QED  BY <1>2

\* The least upper bound of a set of numbers is one of them.
LEMMA Greatest ==
  ASSUME NEW S \in SUBSET Nat, S # {}, NEW b \in Nat, \A n \in S : n <= b
  PROVE  \E x \in S : \A y \in S : y <= x
<1> DEFINE T == {n \in Nat : \A m \in S : m <= n}
<1>1. PICK x \in T : \A y \in T : x <= y  BY LeastNumber, b \in T
<1>2. CASE x \in S  BY <1>2
<1>3. CASE x \notin S
  <2>1. PICK m \in S : TRUE  OBVIOUS
  <2>2. x # 0  BY <1>3, <2>1
  <2>3. x - 1 \in T  BY <1>3, <2>2
  <2> QED  BY <1>1, <2>3
<1> QED  BY <1>2, <1>3

-----------------------------------------------------------------------------
(* Batches: what is in them when they are split, joined and put back *)

LEMMA EventsType ==
  ASSUME NEW s \in Seq(Event) PROVE Events(s) \subseteq Event
BY ElementOfSeq DEF Events

LEMMA EventsEmpty == Events(<<>>) = {}
BY DEF Events

LEMMA EventsAppend ==
  ASSUME NEW s \in Seq(Event), NEW e \in Event
  PROVE  /\ Append(s, e) \in Seq(Event) /\ Len(Append(s, e)) = Len(s) + 1
         /\ Events(Append(s, e)) = Events(s) \cup {e}
<1>1. PICK t : t = Append(s, e)  OBVIOUS
<1>2. /\ t \in Seq(Event) /\ Len(t) = Len(s) + 1 /\ Len(s) \in Nat
      /\ \A i \in 1..Len(s) : t[i] = s[i] /\ i \in 1..Len(t)
      /\ t[Len(s) + 1] = e /\ Len(s) + 1 \in 1..Len(t)
      /\ \A i \in 1..Len(t) : i \in 1..Len(s) \/ i = Len(s) + 1
  BY <1>1, AppendProperties, LenProperties
<1>3. Events(t) = Events(s) \cup {e}  BY <1>2 DEF Events
<1> QED  BY <1>1, <1>2, <1>3

LEMMA EventsConcat ==
  ASSUME NEW s \in Seq(Event), NEW t \in Seq(Event)
  PROVE  /\ s \o t \in Seq(Event) /\ Len(s \o t) = Len(s) + Len(t)
         /\ Events(s \o t) = Events(s) \cup Events(t)
<1>1. PICK u : u = s \o t  OBVIOUS
<1>a. PICK m \in Nat : m = Len(s)  BY LenProperties
<1>b. PICK n \in Nat : n = Len(t)  BY LenProperties
<1>2. /\ u \in Seq(Event) /\ Len(u) = m + n
      /\ \A i \in 1..m + n : u[i] = IF i <= m THEN s[i] ELSE t[i - m]
  BY <1>1, <1>a, <1>b, ConcatProperties
<1>3. /\ \A i \in 1..m : i \in 1..m + n /\ u[i] = s[i]
      /\ \A i \in 1..n : i + m \in 1..m + n /\ u[i + m] = t[i]
  <2>1. \A i \in 1..m : i \in 1..m + n /\ i <= m  OBVIOUS
  <2>2. ASSUME NEW i \in 1..n PROVE i + m \in 1..m + n /\ u[i + m] = t[i]
    <3>1. i + m \in 1..m + n /\ ~(i + m <= m) /\ (i + m) - m = i  OBVIOUS
    <3> QED  BY <1>2, <3>1
  <2> QED  BY <1>2, <2>1, <2>2
<1>4. \A i \in 1..m + n : \/ i \in 1..m /\ u[i] = s[i]
                          \/ i - m \in 1..n /\ u[i] = t[i - m]
  BY <1>2
<1>5. Events(u) \subseteq Events(s) \cup Events(t)
  BY <1>a, <1>b, <1>2, <1>4 DEF Events
<1>6. Events(s) \subseteq Events(u)  BY <1>a, <1>2, <1>3 DEF Events
<1>7. Events(t) \subseteq Events(u)
  <2> SUFFICES ASSUME NEW i \in 1..n PROVE t[i] \in Events(u)  BY <1>b DEF Events
  <2>1. i + m \in 1..Len(u) /\ u[i + m] = t[i]  BY <1>2, <1>3
  <2> QED  BY <2>1 DEF Events
<1> QED  BY <1>1, <1>a, <1>b, <1>2, <1>5, <1>6, <1>7

\* First and Rest divide a sequence.
LEMMA Divided ==
  ASSUME NEW s \in Seq(Event), NEW n \in Nat
  PROVE  /\ First(s, n) \in Seq(Event) /\ Rest(s, n) \in Seq(Event)
         /\ Events(s) = Events(First(s, n)) \cup Events(Rest(s, n))
         /\ Len(Rest(s, n)) = IF n <= Len(s) THEN Len(s) - n ELSE 0
<1>1. PICK l \in Nat : l = Len(s)  BY LenProperties
<1>2. PICK k \in Nat : k = Least(n, l) /\ k <= l /\ (k = n \/ (k = l /\ l <= n))
  <2>1. CASE n < l  BY <2>1 DEF Least
  <2>2. CASE ~(n < l)  BY <2>2 DEF Least
  <2> QED  BY <2>1, <2>2
<1>3. \A i \in 1..l : s[i] \in Event  BY <1>1, ElementOfSeq
<1>4. PICK a : a = SubSeq(s, 1, k)  OBVIOUS
<1>5. PICK b : b = SubSeq(s, n + 1, l)  OBVIOUS
<1>6. /\ a \in Seq(Event) /\ Len(a) = IF 1 <= k THEN k - 1 + 1 ELSE 0
      /\ \A i \in 1..k - 1 + 1 : a[i] = s[1 + i - 1]
  <2>1. \A i \in 1..k : s[i] \in Event  BY <1>2, <1>3
  <2> QED  BY <1>4, <2>1, SubSeqProperties
<1>7. /\ b \in Seq(Event) /\ Len(b) = IF n + 1 <= l THEN l - (n + 1) + 1 ELSE 0
      /\ \A i \in 1..l - (n + 1) + 1 : b[i] = s[n + 1 + i - 1]
  <2>1. \A i \in n + 1..l : s[i] \in Event  BY <1>3
  <2> QED  BY <1>5, <2>1, SubSeqProperties
<1>8. Len(a) = k /\ \A i \in 1..k : a[i] = s[i]  BY <1>6
<1>9. /\ Len(b) = IF n <= l THEN l - n ELSE 0
      /\ \A i \in 1..Len(b) : i + n \in 1..l /\ b[i] = s[i + n]
  BY <1>7
<1>10. \A i \in 1..l : i \in 1..k \/ (i - n \in 1..Len(b) /\ s[i] = b[i - n])
  BY <1>2, <1>9
<1>11. Events(a) \cup Events(b) \subseteq Events(s)
  BY <1>1, <1>2, <1>8, <1>9 DEF Events
<1>12. Events(s) \subseteq Events(a) \cup Events(b)
  BY <1>1, <1>8, <1>10 DEF Events
<1>13. First(s, n) = a /\ Rest(s, n) = b
  BY <1>1, <1>2, <1>4, <1>5 DEF First, Rest
<1> QED  BY <1>1, <1>6, <1>7, <1>9, <1>11, <1>12, <1>13

LEMMA EventsHeadTail ==
  ASSUME NEW s \in Seq(Event), s # <<>>
  PROVE  /\ Head(s) \in Event /\ Tail(s) \in Seq(Event) /\ Len(Tail(s)) = Len(s) - 1
         /\ Events(s) = {Head(s)} \cup Events(Tail(s))
<1>1. PICK t : t = Tail(s)  OBVIOUS
<1>2. /\ Head(s) \in Event /\ t \in Seq(Event) /\ Len(t) = Len(s) - 1
      /\ \A i \in 1..Len(t) : t[i] = s[i + 1]
      /\ Head(s) = s[1] /\ Len(s) \in Nat /\ 1 \in 1..Len(s)
  BY <1>1, HeadTailProperties, EmptySeq, LenProperties
<1>3. /\ \A i \in 1..Len(t) : i + 1 \in 1..Len(s)
      /\ \A i \in 1..Len(s) : i = 1 \/ (i - 1 \in 1..Len(t) /\ t[i - 1] = s[i])
  BY <1>2
<1>4. Events(s) \subseteq {Head(s)} \cup Events(t)  BY <1>2, <1>3 DEF Events
<1>5. {Head(s)} \cup Events(t) \subseteq Events(s)  BY <1>2, <1>3 DEF Events
<1> QED  BY <1>1, <1>2, <1>4, <1>5

\* What is put back is kept, within the capacity, or gone.
LEMMA PutBackDivides ==
  ASSUME NEW b \in Seq(Event), NEW h \in Seq(Event)
  PROVE  /\ PutBack(b, h).kept \in Seq(Event) /\ PutBack(b, h).gone \in Seq(Event)
         /\ Events(b) \cup Events(h)
              = Events(PutBack(b, h).kept) \cup Events(PutBack(b, h).gone)
         /\ Len(PutBack(b, h).kept) <= Capacity
<1>1. PICK all \in Seq(Event) : all = b \o h /\ Events(all) = Events(b) \cup Events(h)
  BY EventsConcat
<1>2. PICK l \in Nat : l = Len(all)  BY LenProperties
<1>3. Capacity \in Nat  BY DeliveryAssumption
<1>4. CASE l - Capacity > 0
  <2>1. PICK n \in Nat : n = l - Capacity /\ n <= l /\ l - n = Capacity  BY <1>2, <1>3, <1>4
  <2>2. PutBack(b, h).kept = Rest(all, n) /\ PutBack(b, h).gone = First(all, n)
    BY <1>1, <1>2, <1>4, <2>1 DEF PutBack
  <2>3. Len(Rest(all, n)) = IF n <= Len(all) THEN Len(all) - n ELSE 0  BY Divided
  <2>4. Len(Rest(all, n)) = Capacity  BY <1>2, <2>1, <2>3
  <2>5. Capacity <= Capacity  BY <1>3
  <2>6. /\ First(all, n) \in Seq(Event) /\ Rest(all, n) \in Seq(Event)
        /\ Events(all) = Events(First(all, n)) \cup Events(Rest(all, n))
    BY Divided
  <2> QED  BY <1>1, <2>2, <2>4, <2>5, <2>6
<1>5. CASE ~(l - Capacity > 0)
  <2>1. PutBack(b, h).kept = all /\ PutBack(b, h).gone = <<>>
    BY <1>1, <1>2, <1>5 DEF PutBack
  <2>2. Len(all) <= Capacity  BY <1>2, <1>3, <1>5
  <2> QED  BY <1>1, <2>1, <2>2, EventsEmpty, EmptySeq
<1> QED  BY <1>4, <1>5

-----------------------------------------------------------------------------
(* What a step of a goroutine inside Flush does to it *)

FlushPcs == {"idle", "list", "claim", "read", "discard", "send", "ack", "unack",
             "take", "sendPending", "put"}

\* Where a goroutine inside Flush is.
IsFlush(r, p, a, n, b, l) ==
  /\ r \in FlushStates
  /\ r.pc = p /\ r.list = a /\ r.name = n /\ r.batch = b /\ r.left = l

LEMMA FieldSet ==
  ASSUME NEW r \in FlushStates
  PROVE  /\ \A v \in FlushPcs :
              IsFlush([r EXCEPT !.pc = v], v, r.list, r.name, r.batch, r.left)
         /\ \A v \in SUBSET Name :
              IsFlush([r EXCEPT !.list = v], r.pc, v, r.name, r.batch, r.left)
         /\ \A v \in Name \cup {NoName} :
              IsFlush([r EXCEPT !.name = v], r.pc, r.list, v, r.batch, r.left)
         /\ \A v \in Seq(Event) :
              IsFlush([r EXCEPT !.batch = v], r.pc, r.list, r.name, v, r.left)
         /\ \A v \in 0..MaxBatches :
              IsFlush([r EXCEPT !.left = v], r.pc, r.list, r.name, r.batch, v)
<1>1. \A v \in FlushPcs : IsFlush([r EXCEPT !.pc = v], v, r.list, r.name, r.batch, r.left)
  BY DEF IsFlush, FlushStates, FlushPcs
<1>2. \A v \in SUBSET Name : IsFlush([r EXCEPT !.list = v], r.pc, v, r.name, r.batch, r.left)
  BY DEF IsFlush, FlushStates
<1>3. \A v \in Name \cup {NoName} :
        IsFlush([r EXCEPT !.name = v], r.pc, r.list, v, r.batch, r.left)
  BY DEF IsFlush, FlushStates
<1>4. \A v \in Seq(Event) : IsFlush([r EXCEPT !.batch = v], r.pc, r.list, r.name, v, r.left)
  BY DEF IsFlush, FlushStates
<1>5. \A v \in 0..MaxBatches :
        IsFlush([r EXCEPT !.left = v], r.pc, r.list, r.name, r.batch, v)
  BY DEF IsFlush, FlushStates
<1> QED  BY <1>1, <1>2, <1>3, <1>4, <1>5

LEMMA PcSet ==
  ASSUME NEW r, NEW p, NEW a, NEW n, NEW b, NEW l, IsFlush(r, p, a, n, b, l),
         NEW q \in FlushPcs
  PROVE  IsFlush([r EXCEPT !.pc = q], q, a, n, b, l)
<1>1. /\ r \in FlushStates /\ r.list = a /\ r.name = n /\ r.batch = b /\ r.left = l
  BY DEF IsFlush
<1>2. IsFlush([r EXCEPT !.pc = q], q, r.list, r.name, r.batch, r.left)  BY <1>1, FieldSet
<1> QED  BY <1>1, <1>2

LEMMA NoFlushIs == IsFlush(NoFlush, "idle", {}, NoName, <<>>, 0)
BY DeliveryAssumption, EmptySeq DEF IsFlush, NoFlush, FlushStates

\* The goroutine f is now there; the others are where they were.
NowIn(f, p, a, n, b, l) ==
  /\ flush' \in [Flusher -> FlushStates]
  /\ \A g \in Flusher : g # f => flush'[g] = flush[g]
  /\ flush'[f].pc = p /\ flush'[f].list = a /\ flush'[f].name = n
  /\ flush'[f].batch = b /\ flush'[f].left = l

LEMMA FlushSet ==
  ASSUME TypeOK, NEW f \in Flusher, NEW r, NEW p, NEW a, NEW n, NEW b, NEW l,
         IsFlush(r, p, a, n, b, l), flush' = [flush EXCEPT ![f] = r]
  PROVE  NowIn(f, p, a, n, b, l)
<1>1. flush \in [Flusher -> FlushStates]  BY DEF TypeOK
<1> QED  BY <1>1 DEF NowIn, IsFlush

\* The parts of a goroutine's state.
LEMMA FlushRecord ==
  ASSUME TypeOK, NEW f \in Flusher
  PROVE  /\ flush[f] \in FlushStates /\ flush[f].pc \in FlushPcs
         /\ flush[f].list \in SUBSET Name /\ flush[f].name \in Name \cup {NoName}
         /\ flush[f].batch \in Seq(Event)
         /\ flush[f].left \in 0..MaxBatches /\ flush[f].left \in Nat
         /\ f[1] \in Cmd /\ f[2] \in Thread /\ f = <<f[1], f[2]>>
<1>1. flush[f] \in FlushStates  BY DEF TypeOK
<1>2. f[1] \in Cmd /\ f[2] \in Thread /\ f = <<f[1], f[2]>>  BY DEF Flusher
<1> QED  BY <1>1, <1>2, DeliveryAssumption DEF FlushStates, FlushPcs

LEMMA GotoSets ==
  ASSUME TypeOK, NEW f \in Flusher, NEW p \in FlushPcs, Goto(f, p)
  PROVE  NowIn(f, p, flush[f].list, flush[f].name, flush[f].batch, flush[f].left)
<1> DEFINE r == [flush[f] EXCEPT !.pc = p]
<1>1. IsFlush(r, p, flush[f].list, flush[f].name, flush[f].batch, flush[f].left)
  BY FlushRecord, FieldSet
<1>2. flush' = [flush EXCEPT ![f] = r]  BY DEF Goto
<1> HIDE DEF r
<1> QED  BY <1>1, <1>2, FlushSet

LEMMA FlushOverSets ==
  ASSUME TypeOK, NEW f \in Flusher, FlushOver(f)
  PROVE  NowIn(f, "idle", {}, NoName, <<>>, 0)
BY NoFlushIs, FlushSet DEF FlushOver

\* A new Flush, and one that goes on to the next batch.
LEMMA NewFlush ==
  ASSUME NEW p \in FlushPcs, NEW l \in 0..MaxBatches
  PROVE  /\ IsFlush([NoFlush EXCEPT !.pc = p, !.left = l], p, {}, NoName, <<>>, l)
         /\ IsFlush([NoFlush EXCEPT !.left = l, !.pc = p], p, {}, NoName, <<>>, l)
<1> DEFINE r0 == NoFlush
           r1 == [r0 EXCEPT !.pc = p]
           r2 == [r1 EXCEPT !.left = l]
           q1 == [r0 EXCEPT !.left = l]
           q2 == [q1 EXCEPT !.pc = p]
<1>1. IsFlush(r0, "idle", {}, NoName, <<>>, 0)  BY NoFlushIs
<1>2. [NoFlush EXCEPT !.pc = p, !.left = l] = r2  OBVIOUS
<1>3. [NoFlush EXCEPT !.left = l, !.pc = p] = q2  OBVIOUS
<1> HIDE DEF r0
<1>4. IsFlush(r1, p, {}, NoName, <<>>, 0)  BY <1>1, FieldSet DEF IsFlush
<1>5. IsFlush(q1, "idle", {}, NoName, <<>>, l)  BY <1>1, FieldSet DEF IsFlush
<1> HIDE DEF r1, q1
<1>6. IsFlush(r2, p, {}, NoName, <<>>, l)  BY <1>4, FieldSet DEF IsFlush
<1>7. IsFlush(q2, p, {}, NoName, <<>>, l)  BY <1>5, FieldSet DEF IsFlush
<1> QED  BY <1>2, <1>3, <1>6, <1>7

LEMMA BeginSets ==
  ASSUME TypeOK, NEW f \in Flusher, Begin(f)
  PROVE  NowIn(f, IF overflow[f[1]] THEN "list" ELSE "take", {}, NoName, <<>>, MaxBatches)
<1> DEFINE p == IF overflow[f[1]] THEN "list" ELSE "take"
           r == [NoFlush EXCEPT !.pc = p, !.left = MaxBatches]
<1>1. p \in FlushPcs /\ MaxBatches \in 0..MaxBatches  BY DeliveryAssumption DEF FlushPcs
<1>2. flush' = [flush EXCEPT ![f] = r]  BY DEF Begin
<1> HIDE DEF p
<1>3. IsFlush(r, p, {}, NoName, <<>>, MaxBatches)  BY <1>1, NewFlush
<1> HIDE DEF r
<1>4. NowIn(f, p, {}, NoName, <<>>, MaxBatches)  BY <1>2, <1>3, FlushSet
<1> QED  BY <1>4 DEF p

\* The files have names, batches and two flags.
LEMMA FileRecord ==
  ASSUME TypeOK, NEW g \in files
  PROVE  /\ g \in File /\ g.name \in Name /\ g.name[1] \in Nat /\ g.name[2] \in Cmd
         /\ g.batch \in Seq(Event) /\ g.claimed \in BOOLEAN /\ g.locked \in BOOLEAN
BY DEF TypeOK, File, Name

LEMMA TakeListsSets ==
  ASSUME TypeOK, NEW f \in Flusher, TakeLists(f)
  PROVE  NowIn(f, "claim", Names(Unclaimed(files)), flush[f].name,
               flush[f].batch, flush[f].left)
<1> DEFINE S == Names(Unclaimed(files))
           r1 == [flush[f] EXCEPT !.list = S]
           r2 == [r1 EXCEPT !.pc = "claim"]
<1>1. S \in SUBSET Name  BY FileRecord DEF Names, Unclaimed
<1>2. flush' = [flush EXCEPT ![f].list = S, ![f].pc = "claim"]  BY DEF TakeLists
<1> HIDE DEF S
<1>3. flush' = [flush EXCEPT ![f] = r2]  BY <1>2 DEF TypeOK
<1>4. IsFlush(r1, flush[f].pc, S, flush[f].name, flush[f].batch, flush[f].left)
  BY <1>1, FlushRecord, FieldSet
<1> HIDE DEF r1
<1>5. IsFlush(r2, "claim", S, flush[f].name, flush[f].batch, flush[f].left)
  <2>1. "claim" \in FlushPcs  BY DEF FlushPcs
  <2> QED  BY <1>4, <2>1, PcSet
<1> HIDE DEF r2
<1>6. NowIn(f, "claim", S, flush[f].name, flush[f].batch, flush[f].left)
  BY <1>3, <1>5, FlushSet
<1> QED  BY <1>6 DEF S

LEMMA ClaimSets ==
  ASSUME TypeOK, NEW f \in Flusher, NEW n \in Name, NEW b \in Seq(Event),
         flush' = [flush EXCEPT ![f] =
                     [flush[f] EXCEPT !.list = flush[f].list \ {n}, !.name = n,
                                      !.batch = b, !.pc = "read"]]
  PROVE  NowIn(f, "read", flush[f].list \ {n}, n, b, flush[f].left)
<1> DEFINE r1 == [flush[f] EXCEPT !.list = flush[f].list \ {n}]
           r2 == [r1 EXCEPT !.name = n]
           r3 == [r2 EXCEPT !.batch = b]
           r4 == [r3 EXCEPT !.pc = "read"]
<1>0. flush[f] \in FlushStates /\ flush[f].list \ {n} \in SUBSET Name  BY FlushRecord
<1>1. flush' = [flush EXCEPT ![f] = r4]  OBVIOUS
<1>2. IsFlush(r1, flush[f].pc, flush[f].list \ {n}, flush[f].name, flush[f].batch,
              flush[f].left)
  BY <1>0, FieldSet
<1> HIDE DEF r1
<1>3. IsFlush(r2, flush[f].pc, flush[f].list \ {n}, n, flush[f].batch, flush[f].left)
  BY <1>2, FieldSet DEF IsFlush
<1> HIDE DEF r2
<1>4. IsFlush(r3, flush[f].pc, flush[f].list \ {n}, n, b, flush[f].left)
  BY <1>3, FieldSet DEF IsFlush
<1> HIDE DEF r3
<1>5. IsFlush(r4, "read", flush[f].list \ {n}, n, b, flush[f].left)
  <2>1. r3 \in FlushStates /\ "read" \in FlushPcs  BY <1>4 DEF IsFlush, FlushPcs
  <2>2. IsFlush(r4, "read", r3.list, r3.name, r3.batch, r3.left)  BY <2>1, FieldSet
  <2> HIDE DEF r4
  <2> QED  BY <1>4, <2>2 DEF IsFlush
<1> HIDE DEF r4
<1> QED  BY <1>1, <1>5, FlushSet

LEMMA SkipSets ==
  ASSUME TypeOK, NEW f \in Flusher, NEW n,
         flush' = [flush EXCEPT ![f].list = flush[f].list \ {n}]
  PROVE  NowIn(f, flush[f].pc, flush[f].list \ {n}, flush[f].name, flush[f].batch,
               flush[f].left)
<1> DEFINE r == [flush[f] EXCEPT !.list = flush[f].list \ {n}]
<1>0. flush[f] \in FlushStates /\ flush[f].list \ {n} \in SUBSET Name  BY FlushRecord
<1>1. IsFlush(r, flush[f].pc, flush[f].list \ {n}, flush[f].name, flush[f].batch,
              flush[f].left)
  BY <1>0, FieldSet
<1>2. flush' = [flush EXCEPT ![f] = r]  OBVIOUS
<1> HIDE DEF r
<1> QED  BY <1>1, <1>2, FlushSet

LEMMA DiscardSets ==
  ASSUME TypeOK, NEW f \in Flusher, TakeDiscards(f)
  PROVE  NowIn(f, "claim", flush[f].list, NoName, <<>>, flush[f].left)
<1> DEFINE r1 == [flush[f] EXCEPT !.name = NoName]
           r2 == [r1 EXCEPT !.batch = <<>>]
           r3 == [r2 EXCEPT !.pc = "claim"]
<1>1. flush' = [flush EXCEPT ![f] = r3]  BY DEF TakeDiscards
<1>2. IsFlush(r1, flush[f].pc, flush[f].list, NoName, flush[f].batch, flush[f].left)
  BY FlushRecord, FieldSet
<1> HIDE DEF r1
<1>3. IsFlush(r2, flush[f].pc, flush[f].list, NoName, <<>>, flush[f].left)
  <2>1. r1 \in FlushStates /\ <<>> \in Seq(Event)  BY <1>2, EmptySeq DEF IsFlush
  <2>2. IsFlush(r2, r1.pc, r1.list, r1.name, <<>>, r1.left)  BY <2>1, FieldSet
  <2> HIDE DEF r2
  <2> QED  BY <1>2, <2>2 DEF IsFlush
<1> HIDE DEF r2
<1>4. IsFlush(r3, "claim", flush[f].list, NoName, <<>>, flush[f].left)
  <2>1. "claim" \in FlushPcs  BY DEF FlushPcs
  <2> QED  BY <1>3, <2>1, PcSet
<1> HIDE DEF r3
<1> QED  BY <1>1, <1>4, FlushSet

LEMMA AckSets ==
  ASSUME TypeOK, NEW f \in Flusher, Ack(f), flush[f].left >= 1
  PROVE  NowIn(f, IF flush[f].left = 1 THEN "take" ELSE "list", {}, NoName, <<>>,
               flush[f].left - 1)
<1> DEFINE p == IF flush[f].left = 1 THEN "take" ELSE "list"
           l == flush[f].left - 1
           r == [NoFlush EXCEPT !.left = l, !.pc = p]
<1>1. p \in FlushPcs /\ l \in 0..MaxBatches
  BY FlushRecord, DeliveryAssumption DEF FlushPcs
<1>2. flush' = [flush EXCEPT ![f] = r]  BY DEF Ack
<1> HIDE DEF p, l
<1>3. IsFlush(r, p, {}, NoName, <<>>, l)  BY <1>1, NewFlush
<1> HIDE DEF r
<1>4. NowIn(f, p, {}, NoName, <<>>, l)  BY <1>2, <1>3, FlushSet
<1> QED  BY <1>4 DEF p, l

LEMMA TakePendingSets ==
  ASSUME TypeOK, NEW f \in Flusher, TakePending(f)
  PROVE  NowIn(f, "sendPending", {}, NoName, First(pending[f[1]], BatchSize), 0)
<1> DEFINE b == First(pending[f[1]], BatchSize)
           r0 == NoFlush
           r1 == [r0 EXCEPT !.pc = "sendPending"]
           r2 == [r1 EXCEPT !.batch = b]
<1>0. b \in Seq(Event)  BY FlushRecord, Divided, DeliveryAssumption DEF TypeOK
<1>1. flush' = [flush EXCEPT ![f] = r2]  BY DEF TakePending
<1>2. IsFlush(r0, "idle", {}, NoName, <<>>, 0)  BY NoFlushIs
<1> HIDE DEF r0, b
<1>3. IsFlush(r1, "sendPending", {}, NoName, <<>>, 0)
  <2>1. "sendPending" \in FlushPcs  BY DEF FlushPcs
  <2> QED  BY <1>2, <2>1, PcSet
<1> HIDE DEF r1
<1>4. IsFlush(r2, "sendPending", {}, NoName, b, 0)  BY <1>0, <1>3, FieldSet DEF IsFlush
<1> HIDE DEF r2
<1>5. NowIn(f, "sendPending", {}, NoName, b, 0)  BY <1>1, <1>4, FlushSet
<1> QED  BY <1>5 DEF b

LEMMA SendPendingSets ==
  ASSUME TypeOK, NEW f \in Flusher, SendPending(f)
  PROVE  NowIn(f, "take", {}, NoName, <<>>, 0)
<1> DEFINE r0 == NoFlush
           r1 == [r0 EXCEPT !.pc = "take"]
<1>1. flush' = [flush EXCEPT ![f] = r1]  BY DEF SendPending
<1>2. IsFlush(r0, "idle", {}, NoName, <<>>, 0)  BY NoFlushIs
<1> HIDE DEF r0
<1>3. IsFlush(r1, "take", {}, NoName, <<>>, 0)
  <2>1. "take" \in FlushPcs  BY DEF FlushPcs
  <2> QED  BY <1>2, <2>1, PcSet
<1> HIDE DEF r1
<1> QED  BY <1>1, <1>3, FlushSet

-----------------------------------------------------------------------------
(* The names of the spool, and types *)

\* Counters and numbers have a bound, so that a highest one exists.
Bounded == \E b \in Nat : \A c \in Cmd : ctr[c] <= b /\ seqno[c] <= b

\* The counter of a command is not below any name it has used.
Named == \A g \in files : g.name[1] <= ctr[g.name[2]]

\* A command that has not started has not counted.
NotYet == \A c \in Cmd : phase[c] = "new" => ctr[c] = 0

UniqueNames == \A g, h \in files : g.name = h.name => g = h

\* Who trims the spool, and what is lost from it.
Trims == trim \in [Goroutine -> TrimStates] /\ uncounted \subseteq Event

Spool ==
  /\ ctr \in [Cmd -> Nat] /\ files \subseteq File
  /\ UniqueNames /\ Bounded /\ Named /\ NotYet /\ Trims

\* Goroutines flush for a command that has started, and drain up to a bound.
Draining == {"list", "claim", "read", "discard", "send", "ack", "unack"}
Engaged(f) ==
  flush[f].pc # "idle" =>
    /\ phase[f[1]] # "new"
    /\ flush[f].pc \in Draining => flush[f].left >= 1

\* The part of the invariant the others rest on.
Base == TypeOK /\ Spool /\ \A f \in Flusher : Engaged(f)

Same(g, h) == g.name = h.name /\ g.batch = h.batch

\* Every file there is now was there, or has a name never used before.
Inherits == \A h \in files' : (\E g \in files : Same(g, h))
                              \/ h.name[1] > ctr[h.name[2]]

\* No command becomes new again.
NoneNew == \A c \in Cmd : phase'[c] = "new" => phase[c] = "new"

LEMMA TrimsKept == ASSUME Base, UNCHANGED <<trim, uncounted>> PROVE Trims'
BY DEF Base, Spool, Trims

LEMMA SpoolFrame ==
  ASSUME Base, UNCHANGED <<files, ctr, seqno, trim, uncounted>>, NoneNew
  PROVE  Spool'
BY DEF Base, Spool, UniqueNames, Bounded, Named, NotYet, NoneNew, Trims

LEMMA SpoolShrinks ==
  ASSUME Base, files' \subseteq files, UNCHANGED <<ctr, seqno>>, NoneNew, Trims'
  PROVE  Spool'
BY DEF Base, Spool, UniqueNames, Bounded, Named, NotYet, NoneNew

\* The files are the same batches under the same names, with other flags.
Marked ==
  /\ files' \subseteq File /\ UniqueNames'
  /\ \A h \in files' : \E g \in files : Same(g, h)
  /\ \A g \in files : \E h \in files' : Same(g, h)

LEMMA Remade ==
  ASSUME Base, NEW m \in [files -> File], files' = {m[g] : g \in files},
         \A g \in files : Same(g, m[g])
  PROVE  Marked
<1>1. UniqueNames'
  <2> SUFFICES ASSUME NEW g \in files, NEW h \in files, m[g].name = m[h].name
               PROVE  m[g] = m[h]
    BY DEF UniqueNames
  <2>1. g.name = h.name  BY DEF Same
  <2> QED  BY <2>1 DEF Base, Spool, UniqueNames
<1> QED  BY <1>1 DEF Marked

LEMMA SpoolMarked ==
  ASSUME Base, Marked, UNCHANGED <<ctr, seqno>>, NoneNew, Trims'
  PROVE  Spool'
BY DEF Base, Spool, Marked, Same, Bounded, Named, NotYet, NoneNew

\* A counter that goes up keeps the bound.
LEMMA BoundKept ==
  ASSUME Base, NEW c \in Cmd, NEW n \in Nat, NEW k \in Nat,
         ctr' = [ctr EXCEPT ![c] = n], seqno' = [seqno EXCEPT ![c] = k]
  PROVE  Bounded'
<1>1. PICK b \in Nat : \A d \in Cmd : ctr[d] <= b /\ seqno[d] <= b
  BY DEF Base, Spool, Bounded
<1>2. ctr \in [Cmd -> Nat] /\ seqno \in [Cmd -> Nat]  BY DEF Base, TypeOK
<1>3. ASSUME NEW d \in Cmd PROVE ctr'[d] <= b + n + k /\ seqno'[d] <= b + n + k
  <2>1. ctr[d] \in Nat /\ seqno[d] \in Nat /\ ctr[d] <= b /\ seqno[d] <= b  BY <1>1, <1>2
  <2>2. ctr'[d] = n \/ ctr'[d] = ctr[d]  BY <1>2
  <2>3. seqno'[d] = k \/ seqno'[d] = seqno[d]  BY <1>2
  <2> QED  BY <2>1, <2>2, <2>3
<1>4. b + n + k \in Nat  OBVIOUS
<1> QED  BY <1>3, <1>4 DEF Bounded

\* Goroutines inside enforceBudget.
LEMMA NoTrimIs == NoTrim \in TrimStates
BY DEF NoTrim, TrimStates

LEMMA NextItemType ==
  ASSUME NEW list \in SUBSET Name, NEW total \in SUBSET Name
  PROVE  NextItem(list, total) \in TrimStates
<1> DEFINE r == [NoTrim EXCEPT !.pc = "count", !.list = list, !.total = total]
<1>1. r \in TrimStates  BY DEF NoTrim, TrimStates
<1> HIDE DEF r
<1>2. NextItem(list, total) = r \/ NextItem(list, total) = NoTrim  BY DEF NextItem, r
<1> QED  BY <1>1, <1>2, NoTrimIs

\* What Put does: the batch is in the spool under a new name, or counted.
PutDone(batch) ==
  /\ Inherits
  /\ \A d \in Cmd : ctr[d] <= ctr'[d]
  /\ counted \subseteq counted' /\ counted' \subseteq Event
  /\ files \subseteq files'
  /\ (\E h \in files' : h.batch = batch) \/ Events(batch) \subseteq counted'

LEMMA PutSpools ==
  ASSUME Base, NEW q \in Goroutine, phase[q[1]] # "new", NEW batch \in Seq(Event),
         Put(q, batch) \/ PutFails(q, batch), UNCHANGED <<seqno, uncounted>>, NoneNew
  PROVE  Spool' /\ PutDone(batch)
<1>0. PICK c \in Cmd : c = q[1]  BY DEF Goroutine
<1>1. ctr \in [Cmd -> Nat] /\ seqno \in [Cmd -> Nat] /\ files \subseteq File
      /\ counted \subseteq Event /\ trim \in [Goroutine -> TrimStates]
  BY DEF Base, TypeOK
<1>2. ctr' = [ctr EXCEPT ![c] = ctr[c] + 1]  BY <1>0 DEF Put, PutFails
<1>3. ctr' \in [Cmd -> Nat] /\ (\A d \in Cmd : ctr[d] <= ctr'[d]) /\ ctr'[c] = ctr[c] + 1
  BY <1>1, <1>2
<1>4. Bounded'
  <2>1. seqno' = [seqno EXCEPT ![c] = seqno[c]] /\ seqno[c] \in Nat /\ ctr[c] + 1 \in Nat
    BY <1>1
  <2> QED  BY <1>2, <2>1, BoundKept
<1>5. NotYet'  BY <1>0, <1>1, <1>2 DEF Base, Spool, NotYet, NoneNew
<1>6. \A g \in files : g.name[1] \in Nat /\ g.name[2] \in Cmd /\ g.name \in Name
  BY FileRecord DEF Base
<1>7. \A g \in files : g.name[1] <= ctr[g.name[2]] /\ g.name[1] <= ctr'[g.name[2]]
  BY <1>1, <1>3, <1>6 DEF Base, Spool, Named
<1>8. CASE PutFails(q, batch)
  <2>1. UNCHANGED <<files, trim>> /\ counted' = counted \cup Events(batch)
    BY <1>8 DEF PutFails
  <2>2. UniqueNames' /\ Named'  BY <1>7, <2>1 DEF Base, Spool, UniqueNames, Named
  <2>3. Inherits  BY <2>1 DEF Inherits, Same
  <2>4. counted' \subseteq Event  BY <1>1, <2>1, EventsType
  <2>5. Trims'  BY <2>1, TrimsKept
  <2> QED  BY <1>1, <1>3, <1>4, <1>5, <2>1, <2>2, <2>3, <2>4, <2>5 DEF Spool, PutDone
<1>9. CASE Put(q, batch)
  <2> DEFINE name == <<ctr[c] + 1, c>>
             new == [name |-> name, batch |-> batch, claimed |-> FALSE, locked |-> FALSE]
             there == Names(Unclaimed(files'))
  <2>1. /\ files' = files \cup {new} /\ UNCHANGED counted
        /\ trim' = [trim EXCEPT ![q] = NextItem(there, there)]
    BY <1>0, <1>9 DEF Put
  <2>2. /\ new \in File /\ new.name = name /\ new.batch = batch /\ name \in Name
        /\ name[1] = ctr[c] + 1 /\ name[2] = c
    BY <1>1 DEF File, Name
  <2> HIDE DEF new, name
  <2>3. \A g \in files' : g \in files \/ g = new  BY <2>1
  <2>4. \A g \in files : g.name # name  BY <1>1, <1>7, <2>2
  <2>5. files' \subseteq File  BY <1>1, <2>1, <2>2
  <2>6. UniqueNames'  BY <2>2, <2>3, <2>4 DEF UniqueNames, Base, Spool
  <2>7. Named'  BY <1>1, <1>3, <1>7, <2>2, <2>3 DEF Named
  <2>8. Inherits
    <3>1. new.name[1] > ctr[new.name[2]]  BY <1>1, <2>2
    <3> QED  BY <2>3, <3>1 DEF Inherits, Same
  <2>9. Trims'
    <3>1. there \in SUBSET Name  BY <1>6, <2>2, <2>3 DEF Names, Unclaimed
    <3> HIDE DEF there
    <3>2. NextItem(there, there) \in TrimStates  BY <3>1, NextItemType
    <3> QED  BY <1>1, <2>1, <3>2 DEF Trims, Base, Spool
  <2>10. \E h \in files' : h.batch = batch  BY <2>1, <2>2
  <2> QED  BY <1>1, <1>3, <1>4, <1>5, <2>1, <2>5, <2>6, <2>7, <2>8, <2>9, <2>10
           DEF Spool, PutDone
<1> QED  BY <1>8, <1>9

\* Steps inside Flush.
LEMMA FlushBase ==
  ASSUME Base, NEW f \in Flusher, flush[f].pc # "idle",
         NEW p, NEW a, NEW n, NEW b, NEW l, NowIn(f, p, a, n, b, l),
         p \in Draining => l >= 1,
         UNCHANGED <<phase, seqVars, seqno, overflow, spilling, released, died>>,
         pending' \in [Cmd -> Seq(Event)], \A c \in Cmd : Len(pending'[c]) <= Capacity,
         received' \subseteq Event, counted' \subseteq Event, Spool'
  PROVE  Base'
<1>1. TypeOK'  BY DEF Base, TypeOK, NowIn, Spool, Trims, UniqueNames, seqVars
<1>2. ASSUME NEW g \in Flusher PROVE Engaged(g)'
  BY DEF Base, NowIn, Engaged
<1> QED  BY <1>1, <1>2 DEF Base

\* What FlushBase asks of the variables a step leaves alone.
LEMMA Kept ==
  ASSUME Base
  PROVE  /\ pending \in [Cmd -> Seq(Event)] /\ \A c \in Cmd : Len(pending[c]) <= Capacity
         /\ received \subseteq Event /\ counted \subseteq Event
BY DEF Base, TypeOK

LEMMA EngagedLeft ==
  ASSUME Base, NEW f \in Flusher, flush[f].pc \in Draining
  PROVE  flush[f].pc # "idle" /\ flush[f].left >= 1
BY DEF Base, Engaged, Draining

\* Steps that move within Flush and touch neither spool nor events.
LEMMA MoveBase ==
  ASSUME Base, NEW f \in Flusher,
         \/ TakeLists(f) \/ TakeSkips(f) \/ TakeFindsNone(f) \/ TakeReads(f)
         \/ TakeReadsNothing(f) \/ SendSpooledFails(f) \/ FlushReturns(f)
  PROVE  Base'
<1>0. TypeOK  BY DEF Base
<1>1. /\ UNCHANGED <<phase, seqVars, seqno, overflow, spilling, released, died, pending,
                     received, counted, files, ctr, trim, uncounted>>
      /\ flush[f].pc # "idle"
  BY DEF TakeLists, TakeSkips, TakeFindsNone, TakeReads, SendSpooledFails, FlushReturns,
         TakeReadsNothing, keepAllButFlush, fateVars, putVars, At
<1>2. Spool'
  <2>1. NoneNew  BY <1>1 DEF NoneNew
  <2> QED  BY <1>1, <2>1, SpoolFrame
<1>3. /\ pending' \in [Cmd -> Seq(Event)] /\ \A c \in Cmd : Len(pending'[c]) <= Capacity
      /\ received' \subseteq Event /\ counted' \subseteq Event
  BY <1>1, Kept
<1>4. CASE TakeLists(f)
  <2>1. flush[f].left >= 1  BY <1>4, EngagedLeft DEF TakeLists, At, Draining
  <2> QED  BY <1>0, <1>1, <1>2, <1>3, <1>4, <2>1, TakeListsSets, FlushBase
<1>5. CASE TakeSkips(f)
  <2>1. flush[f].left >= 1  BY <1>5, EngagedLeft DEF TakeSkips, At, Draining
  <2>2. PICK n \in flush[f].list : flush' = [flush EXCEPT ![f].list = flush[f].list \ {n}]
    BY <1>5 DEF TakeSkips
  <2>3. NowIn(f, flush[f].pc, flush[f].list \ {n}, flush[f].name, flush[f].batch,
              flush[f].left)
    BY <1>0, <2>2, SkipSets
  <2> QED  BY <1>1, <1>2, <1>3, <2>1, <2>3, FlushBase
<1>6. CASE TakeFindsNone(f) \/ TakeReads(f) \/ TakeReadsNothing(f) \/ SendSpooledFails(f)
  <2>1. flush[f].left >= 1
    BY <1>6, EngagedLeft DEF TakeFindsNone, TakeReads, TakeReadsNothing, SendSpooledFails, At,
                            Draining
  <2>2. PICK p \in FlushPcs : Goto(f, p)
    BY <1>6 DEF TakeFindsNone, TakeReads, TakeReadsNothing, SendSpooledFails, FlushPcs
  <2>3. NowIn(f, p, flush[f].list, flush[f].name, flush[f].batch, flush[f].left)
    BY <1>0, <2>2, GotoSets
  <2> QED  BY <1>1, <1>2, <1>3, <2>1, <2>3, FlushBase
<1>7. CASE FlushReturns(f)
  <2>1. NowIn(f, "idle", {}, NoName, <<>>, 0)
    BY <1>0, <1>7, FlushOverSets DEF FlushReturns
  <2>2. "idle" \notin Draining  BY DEF Draining
  <2> QED  BY <1>1, <1>2, <1>3, <2>1, <2>2, FlushBase
<1> QED  BY <1>4, <1>5, <1>6, <1>7

\* The flags of a file.
LEMMA FlagSet ==
  ASSUME NEW g \in File, NEW b \in BOOLEAN
  PROVE  /\ [g EXCEPT !.claimed = b] \in File /\ Same(g, [g EXCEPT !.claimed = b])
         /\ [g EXCEPT !.claimed = b].claimed = b
         /\ [g EXCEPT !.locked = b] \in File /\ Same(g, [g EXCEPT !.locked = b])
         /\ [g EXCEPT !.locked = b].claimed = g.claimed
<1>1. /\ [g EXCEPT !.claimed = b] \in File /\ Same(g, [g EXCEPT !.claimed = b])
      /\ [g EXCEPT !.claimed = b].claimed = b
  BY DEF File, Same
<1>2. /\ [g EXCEPT !.locked = b] \in File /\ Same(g, [g EXCEPT !.locked = b])
      /\ [g EXCEPT !.locked = b].claimed = g.claimed
  BY DEF File, Same
<1> QED  BY <1>1, <1>2

\* A claim marks the file it is for.
ClaimStep(f, n, g) ==
  /\ g \in files /\ g.name = n /\ ~g.claimed /\ n \in Name
  /\ At(f, "claim")
  /\ files' = (files \ {g}) \cup {[g EXCEPT !.claimed = TRUE]}
  /\ NowIn(f, "read", flush[f].list \ {n}, n, g.batch, flush[f].left)

LEMMA ClaimMarks ==
  ASSUME Base, NEW f, NEW n, NEW g, ClaimStep(f, n, g)
  PROVE  /\ Marked
         /\ \A h \in files : h.claimed => h \in files'
         /\ \E h \in files' : h.name = n /\ h.claimed
<1>1. PICK k : k = [g EXCEPT !.claimed = TRUE]  OBVIOUS
<1>2. g \in files /\ files \subseteq File /\ g.name = n /\ ~g.claimed
  BY DEF ClaimStep, Base, Spool
<1>3. k \in File /\ Same(g, k) /\ k.claimed
  BY <1>1, <1>2, FlagSet
<1>4. files' = (files \ {g}) \cup {k}  BY <1>1 DEF ClaimStep
<1>5. Marked
  BY <1>2, <1>3, <1>4 DEF Marked, Same, UniqueNames, Base, Spool
<1> QED  BY <1>2, <1>3, <1>4, <1>5 DEF Same

LEMMA TakeClaimsStep ==
  ASSUME Base, NEW f \in Flusher, TakeClaims(f)
  PROVE  \E n \in Name : \E g \in files : ClaimStep(f, n, g)
<1>1. PICK n \in flush[f].list, g \in files :
        /\ At(f, "claim") /\ Claimable(g, n)
        /\ files' = (files \ {g}) \cup {[g EXCEPT !.claimed = TRUE]}
        /\ flush' = [flush EXCEPT ![f] =
                       [flush[f] EXCEPT !.list = flush[f].list \ {n}, !.name = n,
                                        !.batch = g.batch, !.pc = "read"]]
  BY DEF TakeClaims
<1>2. TypeOK  BY DEF Base
<1>3. g.name = n /\ ~g.claimed /\ n \in Name /\ g.batch \in Seq(Event)
  BY <1>1, <1>2, FileRecord DEF Claimable
<1>4. NowIn(f, "read", flush[f].list \ {n}, n, g.batch, flush[f].left)
  BY <1>1, <1>2, <1>3, ClaimSets
<1> QED  BY <1>1, <1>3, <1>4 DEF ClaimStep

LEMMA TakeClaimsBase == ASSUME Base, NEW f \in Flusher, TakeClaims(f) PROVE Base'
<1>1. PICK n \in Name, g \in files : ClaimStep(f, n, g)  BY TakeClaimsStep
<1>2. UNCHANGED <<phase, seqVars, seqno, overflow, spilling, released, died, pending,
                  received, counted, ctr, trim, uncounted>>
  BY DEF TakeClaims, keepAllButFlush, fateVars, putVars
<1>3. NoneNew  BY <1>2 DEF NoneNew
<1>4. Spool'  BY <1>1, <1>2, <1>3, ClaimMarks, SpoolMarked, TrimsKept
<1>5. flush[f].pc # "idle" /\ flush[f].left >= 1
  BY <1>1, EngagedLeft DEF ClaimStep, At, Draining
<1>6. /\ pending' \in [Cmd -> Seq(Event)] /\ \A c \in Cmd : Len(pending'[c]) <= Capacity
      /\ received' \subseteq Event /\ counted' \subseteq Event
  BY <1>2, Kept
<1> QED  BY <1>1, <1>2, <1>4, <1>5, <1>6, FlushBase DEF ClaimStep

\* Steps of a drain after the claim.
LEMMA TakeCannotReadBase == ASSUME Base, NEW f \in Flusher, TakeCannotRead(f) PROVE Base'
<1>0. TypeOK  BY DEF Base
<1>1. /\ UNCHANGED <<phase, seqVars, seqno, overflow, spilling, released, died, pending,
                     received, ctr, files, trim, uncounted>>
      /\ flush[f].pc = "read" /\ Goto(f, "discard")
  BY DEF TakeCannotRead, keepAllButFlush, putVars, At
<1>2. Spool'
  <2>1. NoneNew  BY <1>1 DEF NoneNew
  <2> QED  BY <1>1, <2>1, SpoolFrame
<1>3. flush[f].pc # "idle" /\ flush[f].left >= 1  BY <1>1, EngagedLeft DEF Draining
<1>4. NowIn(f, "discard", flush[f].list, flush[f].name, flush[f].batch, flush[f].left)
  BY <1>0, <1>1, GotoSets DEF FlushPcs
<1>5. counted' \subseteq Event
  <2>1. PICK e \in Events(flush[f].batch) : counted' = counted \cup {e}  BY DEF TakeCannotRead
  <2>2. Events(flush[f].batch) \subseteq Event  BY <1>0, FlushRecord, EventsType
  <2> QED  BY <2>1, <2>2, Kept
<1> QED  BY <1>1, <1>2, <1>3, <1>4, <1>5, Kept, FlushBase

LEMMA SendSpooledBase == ASSUME Base, NEW f \in Flusher, SendSpooled(f) PROVE Base'
<1>0. TypeOK  BY DEF Base
<1>1. /\ UNCHANGED <<phase, seqVars, seqno, overflow, spilling, released, died, pending,
                     counted, ctr, files, trim, uncounted>>
      /\ flush[f].pc = "send" /\ received' = received \cup Parsed(flush[f].batch)
      /\ Goto(f, "ack")
  BY DEF SendSpooled, keepAllButFlush, putVars, At
<1>2. Spool'
  <2>1. NoneNew  BY <1>1 DEF NoneNew
  <2> QED  BY <1>1, <2>1, SpoolFrame
<1>3. flush[f].pc # "idle" /\ flush[f].left >= 1  BY <1>1, EngagedLeft DEF Draining
<1>4. NowIn(f, "ack", flush[f].list, flush[f].name, flush[f].batch, flush[f].left)
  BY <1>0, <1>1, GotoSets DEF FlushPcs
<1>5. received' \subseteq Event
  <2>1. Parsed(flush[f].batch) \subseteq Event
    BY <1>0, FlushRecord, EventsType DEF Parsed
  <2> QED  BY <1>1, <2>1, Kept
<1> QED  BY <1>1, <1>2, <1>3, <1>4, <1>5, Kept, FlushBase

\* Events that leave the spool uncounted were in a batch, and not accounted for.
Loses ==
  /\ uncounted \subseteq uncounted'
  /\ uncounted' \ uncounted \subseteq
       (UNION {Events(g.batch) : g \in files}) \ (received \cup counted \cup died)

LEMMA Forgotten ==
  ASSUME Base, NEW E, Forget(E), E \subseteq UNION {Events(g.batch) : g \in files}
  PROVE  Loses /\ uncounted' \subseteq Event
<1>1. PICK S : S = UNION {Events(g.batch) : g \in files}  OBVIOUS
<1>2. S \subseteq Event
  <2>1. \A g \in files : Events(g.batch) \subseteq Event
    BY FileRecord, EventsType DEF Base
  <2> QED  BY <1>1, <2>1
<1>3. uncounted \subseteq Event  BY DEF Base, TypeOK
<1>4. E \subseteq S /\ uncounted' = uncounted \cup (E \ (received \cup counted \cup died))
  BY <1>1 DEF Forget
<1>5. Loses  BY <1>1, <1>4 DEF Loses
<1> QED  BY <1>2, <1>3, <1>4, <1>5

LEMMA RemoveForgets ==
  ASSUME Base, NEW f \in Flusher, TakeDiscards(f) \/ Ack(f)
  PROVE  Loses /\ uncounted' \subseteq Event
<1> DEFINE E == UNION {Events(g.batch) : g \in ClaimedAs(flush[f].name)}
<1>1. E \subseteq UNION {Events(g.batch) : g \in files}  BY DEF ClaimedAs
<1>2. Forget(E) \/ Forget(Garbled \cap E)  BY DEF TakeDiscards, Ack
<1> HIDE DEF E
<1> QED  BY <1>1, <1>2, Forgotten

LEMMA RemoveBase == ASSUME Base, NEW f \in Flusher, TakeDiscards(f) \/ Ack(f) PROVE Base'
<1>0. TypeOK  BY DEF Base
<1>1. /\ UNCHANGED <<phase, seqVars, seqno, overflow, spilling, released, died, pending,
                     received, counted, ctr, trim>>
      /\ flush[f].pc \in {"discard", "ack"} /\ files' \subseteq files
  BY DEF TakeDiscards, Ack, keepAllButFlush, putVars, At
<1>2. Spool'
  <2>1. NoneNew  BY <1>1 DEF NoneNew
  <2>2. uncounted' \subseteq Event  BY RemoveForgets
  <2>3. Trims'  BY <1>1, <2>2 DEF Base, Spool, Trims
  <2> QED  BY <1>1, <2>1, <2>3, SpoolShrinks
<1>3. flush[f].pc # "idle" /\ flush[f].left >= 1 /\ flush[f].left \in Nat
  BY <1>0, <1>1, EngagedLeft, FlushRecord DEF Draining
<1>4. /\ pending' \in [Cmd -> Seq(Event)] /\ \A c \in Cmd : Len(pending'[c]) <= Capacity
      /\ received' \subseteq Event /\ counted' \subseteq Event
  BY <1>1, Kept
<1>5. CASE TakeDiscards(f)
  BY <1>0, <1>1, <1>2, <1>3, <1>4, <1>5, DiscardSets, FlushBase
<1>6. CASE Ack(f)
  <2> DEFINE p == IF flush[f].left = 1 THEN "take" ELSE "list"
  <2>1. NowIn(f, p, {}, NoName, <<>>, flush[f].left - 1)  BY <1>0, <1>3, <1>6, AckSets
  <2>2. p \in Draining => flush[f].left - 1 >= 1  BY <1>3 DEF Draining
  <2> HIDE DEF p
  <2> QED  BY <1>1, <1>2, <1>3, <1>4, <2>1, <2>2, FlushBase
<1> QED  BY <1>5, <1>6

\* A batch that could not be sent is renamed back.
LEMMA UnackMarks ==
  ASSUME Base, NEW f \in Flusher, Unack(f)
  PROVE  /\ Marked
         /\ \A h \in files : h.claimed /\ h.name # flush[f].name => h \in files'
<1> DEFINE m == [g \in files |->
                   IF g \in ClaimedAs(flush[f].name) THEN [g EXCEPT !.claimed = FALSE] ELSE g]
<1>1. files' = {m[g] : g \in files}  BY DEF Unack
<1>2. files \subseteq File  BY DEF Base, Spool
<1>3. ASSUME NEW g \in files
      PROVE m[g] \in File /\ Same(g, m[g]) /\ (g.name # flush[f].name => m[g] = g)
  <2>1. [g EXCEPT !.claimed = FALSE] \in File /\ Same(g, [g EXCEPT !.claimed = FALSE])
    BY <1>2, FlagSet
  <2>2. Same(g, g)  BY DEF Same
  <2> QED  BY <1>2, <2>1, <2>2 DEF ClaimedAs
<1>4. m \in [files -> File]  BY <1>3
<1> HIDE DEF m
<1>5. Marked  BY <1>1, <1>3, <1>4, Remade
<1> QED  BY <1>1, <1>3, <1>5

LEMMA UnackBase == ASSUME Base, NEW f \in Flusher, Unack(f) PROVE Base'
<1>0. TypeOK  BY DEF Base
<1>1. /\ UNCHANGED <<phase, seqVars, seqno, overflow, spilling, released, died, pending,
                     received, counted, ctr, trim, uncounted>>
      /\ flush[f].pc # "idle" /\ FlushOver(f)
  BY DEF Unack, keepAllButFlush, fateVars, putVars, At
<1>2. Spool'
  <2>1. NoneNew  BY <1>1 DEF NoneNew
  <2> QED  BY <1>1, <2>1, UnackMarks, SpoolMarked, TrimsKept
<1>3. /\ pending' \in [Cmd -> Seq(Event)] /\ \A c \in Cmd : Len(pending'[c]) <= Capacity
      /\ received' \subseteq Event /\ counted' \subseteq Event
  BY <1>1, Kept
<1>4. NowIn(f, "idle", {}, NoName, <<>>, 0) /\ "idle" \notin Draining
  BY <1>0, <1>1, FlushOverSets DEF Draining
<1> QED  BY <1>1, <1>2, <1>3, <1>4, FlushBase

\* Taking from the buffer only makes it shorter.
LEMMA RestFits ==
  ASSUME Base, NEW c \in Cmd
  PROVE  /\ Rest(pending[c], BatchSize) \in Seq(Event)
         /\ Len(Rest(pending[c], BatchSize)) \in Nat
         /\ Len(Rest(pending[c], BatchSize)) <= Capacity
         /\ pending[c] # <<>> => Len(Rest(pending[c], BatchSize)) < Len(pending[c])
<1>1. PICK s \in Seq(Event) : s = pending[c] /\ Len(s) <= Capacity  BY Kept
<1>2. PICK n \in Nat : n = Len(s) /\ (s # <<>> => n # 0)  BY LenProperties, EmptySeq
<1>3. BatchSize \in Nat /\ BatchSize # 0 /\ Capacity \in Nat  BY DeliveryAssumption
<1>4. PICK r \in Seq(Event) :
        r = Rest(s, BatchSize) /\ Len(r) = IF BatchSize <= n THEN n - BatchSize ELSE 0
  BY <1>2, <1>3, Divided
<1>5. Len(r) \in Nat /\ Len(r) <= Capacity /\ (n # 0 => Len(r) < n)
  BY <1>1, <1>2, <1>3, <1>4
<1> QED  BY <1>1, <1>2, <1>4, <1>5

LEMMA TakePendingBase == ASSUME Base, NEW f \in Flusher, TakePending(f) PROVE Base'
<1>0. TypeOK /\ f[1] \in Cmd  BY FlushRecord DEF Base
<1>1. /\ UNCHANGED <<phase, seqVars, seqno, overflow, spilling, released, died, received,
                     counted, ctr, files, trim, uncounted>>
      /\ flush[f].pc # "idle"
      /\ pending' = [pending EXCEPT ![f[1]] = Rest(pending[f[1]], BatchSize)]
  BY DEF TakePending, fateVars, putVars, At
<1>2. Spool'
  <2>1. NoneNew  BY <1>1 DEF NoneNew
  <2> QED  BY <1>1, <2>1, SpoolFrame
<1>3. pending' \in [Cmd -> Seq(Event)] /\ \A c \in Cmd : Len(pending'[c]) <= Capacity
  BY <1>0, <1>1, RestFits, Kept
<1>4. "sendPending" \notin Draining  BY DEF Draining
<1> QED  BY <1>0, <1>1, <1>2, <1>3, <1>4, Kept, TakePendingSets, FlushBase

LEMMA SendPendingBase == ASSUME Base, NEW f \in Flusher, SendPending(f) PROVE Base'
<1>0. TypeOK  BY DEF Base
<1>1. /\ UNCHANGED <<phase, seqVars, seqno, overflow, spilling, released, died, pending,
                     counted, ctr, files, trim, uncounted>>
      /\ flush[f].pc # "idle" /\ received' = received \cup Events(flush[f].batch)
  BY DEF SendPending, keepAllButFlush, putVars, At
<1>2. Spool'
  <2>1. NoneNew  BY <1>1 DEF NoneNew
  <2> QED  BY <1>1, <2>1, SpoolFrame
<1>3. received' \subseteq Event  BY <1>0, <1>1, Kept, FlushRecord, EventsType
<1>4. "take" \notin Draining  BY DEF Draining
<1> QED  BY <1>0, <1>1, <1>2, <1>3, <1>4, Kept, SendPendingSets, FlushBase

LEMMA SendPendingFailsBase ==
  ASSUME Base, NEW f \in Flusher, SendPendingFails(f) PROVE Base'
<1>0. TypeOK /\ f[1] \in Cmd /\ flush[f].batch \in Seq(Event)  BY FlushRecord DEF Base
<1>1. /\ UNCHANGED <<phase, seqVars, seqno, overflow, spilling, released, died, received,
                     ctr, files, trim, uncounted>>
      /\ flush[f].pc # "idle"
  BY DEF SendPendingFails, putVars, At
<1>2. Spool'
  <2>1. NoneNew  BY <1>1 DEF NoneNew
  <2> QED  BY <1>1, <2>1, SpoolFrame
<1>3. CASE Goto(f, "put") /\ UNCHANGED <<pending, counted>>
  <2>1. NowIn(f, "put", flush[f].list, flush[f].name, flush[f].batch, flush[f].left)
        /\ "put" \notin Draining
    BY <1>0, <1>3, GotoSets DEF FlushPcs, Draining
  <2>2. /\ pending' \in [Cmd -> Seq(Event)] /\ \A c \in Cmd : Len(pending'[c]) <= Capacity
        /\ received' \subseteq Event /\ counted' \subseteq Event
    BY <1>1, <1>3, Kept
  <2> QED  BY <1>1, <1>2, <2>1, <2>2, FlushBase
<1>4. CASE /\ pending' = [pending EXCEPT ![f[1]] = PutBack(flush[f].batch, pending[f[1]]).kept]
           /\ counted' = counted \cup Events(PutBack(flush[f].batch, pending[f[1]]).gone)
           /\ FlushOver(f)
  <2>1. NowIn(f, "idle", {}, NoName, <<>>, 0) /\ "idle" \notin Draining
    BY <1>0, <1>4, FlushOverSets DEF Draining
  <2>2. PICK k \in Seq(Event), x \in Seq(Event) :
          /\ k = PutBack(flush[f].batch, pending[f[1]]).kept /\ Len(k) <= Capacity
          /\ x = PutBack(flush[f].batch, pending[f[1]]).gone
    BY <1>0, Kept, PutBackDivides
  <2>3. pending' \in [Cmd -> Seq(Event)] /\ \A c \in Cmd : Len(pending'[c]) <= Capacity
    BY <1>0, <1>4, <2>2, Kept
  <2>4. counted' \subseteq Event /\ received' \subseteq Event
    BY <1>1, <1>4, <2>2, Kept, EventsType
  <2> QED  BY <1>1, <1>2, <2>1, <2>3, <2>4, FlushBase
<1> QED  BY <1>3, <1>4 DEF SendPendingFails

LEMMA FlushSpillsBase ==
  ASSUME Base, NEW f \in Flusher, FlushSpills(f)
  PROVE  Base' /\ PutDone(flush[f].batch)
<1>0. TypeOK /\ f[1] \in Cmd /\ flush[f].batch \in Seq(Event)  BY FlushRecord DEF Base
<1>1. /\ UNCHANGED <<phase, seqVars, seqno, overflow, spilling, released, died, pending,
                     received, uncounted>>
      /\ flush[f].pc # "idle" /\ FlushOver(f)
      /\ Put(f, flush[f].batch) \/ PutFails(f, flush[f].batch)
  BY DEF FlushSpills, keepAllButFlush, At
<1>2. Spool' /\ PutDone(flush[f].batch)
  <2>1. NoneNew /\ phase[f[1]] # "new"  BY <1>1 DEF NoneNew, Base, Engaged
  <2>2. f \in Goroutine  BY DEF Flusher, Goroutine
  <2> QED  BY <1>0, <1>1, <2>1, <2>2, PutSpools
<1>3. /\ pending' \in [Cmd -> Seq(Event)] /\ \A c \in Cmd : Len(pending'[c]) <= Capacity
      /\ received' \subseteq Event
  BY <1>1, Kept
<1>4. NowIn(f, "idle", {}, NoName, <<>>, 0) /\ "idle" \notin Draining
  BY <1>0, <1>1, FlushOverSets DEF Draining
<1>5. counted' \subseteq Event  BY <1>2 DEF PutDone
<1> QED  BY <1>1, <1>2, <1>3, <1>4, <1>5, FlushBase

LEMMA FlushStepBase == ASSUME Base, NEW f \in Flusher, Flush(f) PROVE Base'
BY MoveBase, TakeClaimsBase, TakeCannotReadBase, SendSpooledBase, RemoveBase, UnackBase,
   TakePendingBase, SendPendingBase, SendPendingFailsBase, FlushSpillsBase
   DEF Flush, Take, Drain

LEMMA EngagedFrame ==
  ASSUME Base, UNCHANGED flush, NoneNew PROVE \A f \in Flusher : Engaged(f)'
<1>1. \A f \in Flusher : f[1] \in Cmd  BY DEF Flusher
<1> QED  BY <1>1 DEF Base, Engaged, NoneNew

\* Numbers continue from what was stored, or from the highest number logged.
LEMMA LastSequenceIsNumber ==
  ASSUME Base PROVE LastSequence \in Nat
<1> DEFINE logged == {0} \cup UNION {Issued(d) : d \in Cmd}
<1>1. PICK b \in Nat : \A d \in Cmd : seqno[d] <= b  BY DEF Base, Spool, Bounded
<1>2. \A d \in Cmd : base[d] \in Nat /\ seqno[d] \in Nat  BY DEF Base, TypeOK
<1>3. \A d \in Cmd : \A n \in Issued(d) : n \in Nat /\ n <= b
  BY <1>1, <1>2 DEF Issued
<1>4. logged \in SUBSET Nat /\ \A n \in logged : n <= b  BY <1>3
<1>5. logged # {}  OBVIOUS
<1> HIDE DEF logged
<1>6. \E n \in logged : \A m \in logged : m <= n  BY <1>4, <1>5, Greatest
<1>7. (CHOOSE n \in logged : \A m \in logged : m <= n) \in logged  BY <1>6
<1> QED  BY <1>4, <1>7 DEF LastSequence, logged

LEMMA ResumeTypes ==
  ASSUME Base, NEW c \in Cmd, NEW from \in Nat, Resume(c, from)
  PROVE  /\ phase' \in [Cmd -> {"new", "open", "closing", "last", "settling",
                                "ended", "killed"}]
         /\ base' \in [Cmd -> Nat] /\ seqno' \in [Cmd -> Nat]
         /\ behind' \subseteq Cmd /\ overlapped' \in BOOLEAN
         /\ NoneNew /\ phase'[c] = "open" /\ seqno' = [seqno EXCEPT ![c] = from]
<1>1. phase' = [phase EXCEPT ![c] = "open"]  BY DEF Resume
<1>2. phase \in [Cmd -> {"new", "open", "closing", "last", "settling", "ended", "killed"}]
  BY DEF Base, TypeOK
<1>3. NoneNew /\ phase'[c] = "open"  BY <1>1, <1>2 DEF NoneNew
<1>4. base' \in [Cmd -> Nat] /\ seqno' \in [Cmd -> Nat]  BY DEF Resume, Base, TypeOK
<1>5. behind' \subseteq Cmd /\ overlapped' \in BOOLEAN  BY DEF Resume, Base, TypeOK
<1> QED  BY <1>1, <1>2, <1>3, <1>4, <1>5 DEF Resume

\* A new spool puts every claimed batch back and counts on from the highest.
LEMMA SpoolOpens ==
  ASSUME Base, NEW c \in Cmd, phase[c] = "new", SpoolOpened(c)
  PROVE  /\ Marked
         /\ \E n \in Nat : /\ ctr' = [ctr EXCEPT ![c] = n]
                           /\ \A g \in files : g.name[1] <= n
         /\ overflow' \in [Cmd -> BOOLEAN]
         /\ released \subseteq released' /\ released' \subseteq Name
         /\ \A g \in files : g.claimed /\ g.name \in Held => g.name \in released'
<1>1. TypeOK /\ files \subseteq File  BY DEF Base, TypeOK
<1>2. Marked
  <2>1. PICK stale \in SUBSET {f \in files : f.locked} :
          files' = {[f EXCEPT !.claimed = FALSE,
                              !.locked = f.locked /\ f \notin stale] : f \in files}
    BY DEF SpoolOpened
  <2> DEFINE m == [f \in files |-> [f EXCEPT !.claimed = FALSE,
                                             !.locked = f.locked /\ f \notin stale]]
  <2>2. files' = {m[g] : g \in files}  BY <2>1
  <2>3. ASSUME NEW g \in files PROVE m[g] \in File /\ Same(g, m[g])
    <3> DEFINE b == g.locked /\ g \notin stale
               k == [g EXCEPT !.claimed = FALSE]
               h == [k EXCEPT !.locked = b]
    <3>1. m[g] = h  OBVIOUS
    <3>2. b \in BOOLEAN  OBVIOUS
    <3>3. k \in File /\ Same(g, k)  BY <1>1, FlagSet
    <3> HIDE DEF k, b
    <3>4. h \in File /\ Same(k, h)  BY <3>2, <3>3, FlagSet
    <3> HIDE DEF h, m
    <3> QED  BY <3>1, <3>3, <3>4 DEF Same
  <2>4. m \in [files -> File]  BY <2>3
  <2> HIDE DEF m
  <2> QED  BY <2>2, <2>3, <2>4, Remade
<1>3. \E n \in Nat : ctr' = [ctr EXCEPT ![c] = n] /\ \A g \in files : g.name[1] <= n
  <2> DEFINE S == {0} \cup {f.name[1] : f \in files}
             top == CHOOSE n \in S : \A f \in files : f.name[1] <= n
  <2>1. PICK b \in Nat : \A d \in Cmd : ctr[d] <= b  BY DEF Base, Spool, Bounded
  <2>2. \A g \in files : g.name[1] \in Nat /\ g.name[2] \in Cmd  BY <1>1, FileRecord
  <2>3. \A g \in files : g.name[1] <= b
    BY <2>1, <2>2 DEF Base, Spool, Named
  <2>4. S \in SUBSET Nat /\ S # {} /\ \A n \in S : n <= b  BY <2>2, <2>3
  <2>5. PICK x \in S : \A y \in S : y <= x
    <3> HIDE DEF S
    <3> QED  BY <2>4, Greatest
  <2>6. \A f \in files : f.name[1] \in S  OBVIOUS
  <2>7. top \in S /\ \A f \in files : f.name[1] <= top
    <3> HIDE DEF S
    <3>1. \E n \in S : \A f \in files : f.name[1] <= n  BY <2>5, <2>6
    <3> QED  BY <3>1
  <2>8. ctr' = [ctr EXCEPT ![c] = top]  BY DEF SpoolOpened
  <2> HIDE DEF top, S
  <2> QED  BY <2>4, <2>7, <2>8
<1>4. overflow' \in [Cmd -> BOOLEAN]  BY <1>1 DEF SpoolOpened, TypeOK
<1>5. released' = released \cup {f.name : f \in {g \in files : g.claimed /\ g.name \in Held}}
  BY DEF SpoolOpened
<1>6. released \subseteq Name  BY <1>1 DEF TypeOK
<1>7. \A g \in files : g.name \in Name  BY <1>1, FileRecord
<1> QED  BY <1>2, <1>3, <1>4, <1>5, <1>6, <1>7

\* What attaching does to the spool: the files stay, the counter only rises, and
\* the claims put back from under a goroutine are released.
AttachDone ==
  /\ UNCHANGED files \/ Marked
  /\ \A d \in Cmd : ctr[d] <= ctr'[d]
  /\ released \subseteq released'
  /\ UNCHANGED files \/ \A g \in files : g.claimed /\ g.name \in Held => g.name \in released'

LEMMA AttachBase == ASSUME Base, NEW c \in Cmd, Attach(c) PROVE Base' /\ AttachDone
<1>0. TypeOK /\ phase[c] = "new" /\ ctr[c] = 0 /\ ctr \in [Cmd -> Nat]
  BY DEF Attach, MayStart, Base, Spool, NotYet
<1>1. UNCHANGED <<pending, spilling, flush, received, counted, died, trim, uncounted>>
  BY DEF Attach, fateVars
<1>2. PICK from \in Nat : Resume(c, from)
  <2>1. meta \in Nat  BY <1>0 DEF TypeOK
  <2> QED  BY <2>1, LastSequenceIsNumber DEF Attach, Reserve, ReserveFailed
<1>3. meta' \in Nat /\ durable' \in [Cmd -> BOOLEAN] /\ fellBack' \in BOOLEAN
  <2>1. meta \in Nat /\ durable \in [Cmd -> BOOLEAN] /\ fellBack \in BOOLEAN
    BY <1>0 DEF TypeOK
  <2>2. CASE Reserve(c)  BY <2>1, <2>2, DeliveryAssumption DEF Reserve
  <2>3. CASE ReserveFailed(c)  BY <2>1, <2>3 DEF ReserveFailed
  <2> QED  BY <2>2, <2>3 DEF Attach
<1>4. /\ phase' \in [Cmd -> {"new", "open", "closing", "last", "settling",
                             "ended", "killed"}]
      /\ base' \in [Cmd -> Nat] /\ seqno' \in [Cmd -> Nat]
      /\ behind' \subseteq Cmd /\ overlapped' \in BOOLEAN
      /\ NoneNew /\ phase'[c] = "open" /\ seqno' = [seqno EXCEPT ![c] = from]
  BY <1>2, ResumeTypes
<1>5. PICK n \in Nat : /\ ctr' = [ctr EXCEPT ![c] = n]
                       /\ UNCHANGED files \/ (Marked /\ \A g \in files : g.name[1] <= n)
  <2>1. CASE SpoolOpened(c)  BY <1>0, <2>1, SpoolOpens
  <2>2. CASE SpoolUnavailable(c)
    <3>1. UNCHANGED <<files, ctr>>  BY <2>2 DEF SpoolUnavailable
    <3>2. ctr' = [ctr EXCEPT ![c] = 0]  BY <1>0, <3>1
    <3> QED  BY <3>1, <3>2
  <2> QED  BY <2>1, <2>2 DEF Attach
<1>6. /\ overflow' \in [Cmd -> BOOLEAN] /\ released' \subseteq Name /\ released \subseteq released'
      /\ UNCHANGED files \/ \A g \in files : g.claimed /\ g.name \in Held => g.name \in released'
  <2>1. CASE SpoolOpened(c)  BY <1>0, <2>1, SpoolOpens
  <2>2. CASE SpoolUnavailable(c)  BY <1>0, <2>2 DEF SpoolUnavailable, TypeOK
  <2> QED  BY <2>1, <2>2 DEF Attach
<1>7. ctr' \in [Cmd -> Nat] /\ \A d \in Cmd : ctr[d] <= ctr'[d]
  BY <1>0, <1>5
<1>8. Spool'
  <2>1. files' \subseteq File /\ UniqueNames'
    BY <1>5 DEF Marked, Base, Spool, UniqueNames
  <2>2. Bounded'  BY <1>4, <1>5, BoundKept
  <2>3. NotYet'  BY <1>0, <1>4, <1>5 DEF NotYet, NoneNew, Base, Spool
  <2>4. Named'
    <3>1. \A g \in files : /\ g.name[1] \in Nat /\ g.name[2] \in Cmd
                           /\ g.name[1] <= ctr[g.name[2]]
      BY <1>0, FileRecord DEF Base, Spool, Named
    <3>2. \A g \in files : g.name[1] <= ctr'[g.name[2]]  BY <1>0, <1>7, <3>1
    <3> QED  BY <1>5, <3>2 DEF Named, Marked, Same
  <2> QED  BY <1>1, <1>7, <2>1, <2>2, <2>3, <2>4, TrimsKept DEF Spool
<1>9. TypeOK'
  BY <1>0, <1>1, <1>3, <1>4, <1>6, <1>7, <1>8 DEF TypeOK, Spool, Trims, UniqueNames
<1>10. \A f \in Flusher : Engaged(f)'  BY <1>1, <1>4, EngagedFrame
<1>11. AttachDone  BY <1>5, <1>6, <1>7 DEF AttachDone
<1> QED  BY <1>8, <1>9, <1>10, <1>11 DEF Base

\* The new event is an event, and the buffer stays within its capacity.
LEMMA EmitBase == ASSUME Base, NEW c \in Cmd, Emit(c) PROVE Base'
<1>0. TypeOK  BY DEF Base
<1>1. UNCHANGED <<phase, seqVars, overflow, ctr, flush, files, received, died, released, trim,
                  uncounted>>
      /\ seqno' = [seqno EXCEPT ![c] = seqno[c] + 1]
  BY DEF Emit, putVars
<1>2. PICK e \in Event : e = [num |-> seqno[c] + 1, by |-> c]
  <2>1. seqno[c] + 1 \in Nat  BY <1>0 DEF TypeOK
  <2>2. [num |-> seqno[c] + 1, by |-> c] \in Event  BY <2>1 DEF Event
  <2> QED  BY <2>2
<1>3. PICK s \in Seq(Event) : s = pending[c] /\ Len(s) \in Nat /\ Len(s) <= Capacity
  BY Kept, LenProperties
<1>4. Capacity \in Nat \ {0} /\ BatchSize \in Nat  BY DeliveryAssumption
<1>5. /\ pending' \in [Cmd -> Seq(Event)] /\ \A d \in Cmd : Len(pending'[d]) <= Capacity
      /\ spilling' \in [Cmd -> Seq(Event)] /\ counted' \subseteq Event
  <2>0. /\ pending \in [Cmd -> Seq(Event)] /\ \A d \in Cmd : Len(pending[d]) <= Capacity
        /\ spilling \in [Cmd -> Seq(Event)] /\ counted \subseteq Event
    BY <1>0, Kept DEF TypeOK
  <2>1. CASE /\ Len(s) < Capacity /\ UNCHANGED <<spilling, counted>>
             /\ pending' = [pending EXCEPT ![c] = Append(s, e)]
    <3>1. Append(s, e) \in Seq(Event) /\ Len(Append(s, e)) <= Capacity
      BY <1>3, <1>4, <2>1, EventsAppend
    <3> QED  BY <2>0, <2>1, <3>1
  <2>2. CASE /\ Len(s) >= Capacity /\ UNCHANGED counted
             /\ spilling' = [spilling EXCEPT ![c] = First(s, BatchSize)]
             /\ pending' = [pending EXCEPT ![c] = Append(Rest(s, BatchSize), e)]
    <3>1. s # <<>>  BY <1>3, <1>4, <2>2, EmptySeq
    <3>2. PICK r \in Seq(Event) :
            r = Rest(s, BatchSize) /\ Len(r) \in Nat /\ Len(r) < Len(s)
      BY <1>3, <3>1, RestFits
    <3>3. Append(r, e) \in Seq(Event) /\ Len(Append(r, e)) <= Capacity
      BY <1>3, <1>4, <3>2, EventsAppend
    <3>4. First(s, BatchSize) \in Seq(Event)  BY <1>4, Divided
    <3> QED  BY <2>0, <2>2, <3>2, <3>3, <3>4
  <2>3. CASE /\ Len(s) >= Capacity /\ UNCHANGED spilling
             /\ pending' = [pending EXCEPT ![c] = Append(Tail(s), e)]
             /\ counted' = counted \cup {Head(s)}
    <3>1. s # <<>>  BY <1>3, <1>4, <2>3, EmptySeq
    <3>2. PICK r \in Seq(Event) : r = Tail(s) /\ Len(r) = Len(s) - 1 /\ Head(s) \in Event
      BY <3>1, EventsHeadTail
    <3>3. Append(r, e) \in Seq(Event) /\ Len(Append(r, e)) <= Capacity
      BY <1>3, <1>4, <3>2, EventsAppend
    <3> QED  BY <2>0, <2>3, <3>2, <3>3
  <2> QED  BY <1>2, <1>3, <1>4, <2>1, <2>2, <2>3 DEF Emit
<1>6. seqno' \in [Cmd -> Nat]  BY <1>0, <1>1 DEF TypeOK
<1>7. NoneNew  BY <1>1 DEF NoneNew
<1>8. Spool'
  <2>1. ctr' = [ctr EXCEPT ![c] = ctr[c]] /\ ctr[c] \in Nat /\ seqno[c] + 1 \in Nat
    BY <1>0, <1>1 DEF TypeOK
  <2>2. Bounded'  BY <1>1, <2>1, BoundKept
  <2> QED  BY <1>1, <2>2, TrimsKept DEF Base, Spool, UniqueNames, Named, NotYet
<1>9. TypeOK'  BY <1>0, <1>1, <1>5, <1>6 DEF TypeOK, seqVars
<1>10. \A f \in Flusher : Engaged(f)'  BY <1>1, <1>7, EngagedFrame
<1> QED  BY <1>8, <1>9, <1>10 DEF Base

LEMMA SpillBase == ASSUME Base, NEW c \in Cmd, Spill(c) PROVE Base' /\ PutDone(spilling[c])
<1>0. TypeOK  BY DEF Base
<1>1. /\ UNCHANGED <<phase, seqVars, seqno, overflow, pending, flush, received, died, released,
                     uncounted>>
      /\ phase[c] # "new"
      /\ Put(<<c, Deliverer>>, spilling[c]) \/ PutFails(<<c, Deliverer>>, spilling[c])
      /\ spilling' = [spilling EXCEPT ![c] = <<>>]
  BY DEF Spill, Running
<1>2. NoneNew /\ spilling[c] \in Seq(Event)  BY <1>0, <1>1 DEF NoneNew, TypeOK
<1>3. Spool' /\ PutDone(spilling[c])
  <2>1. PICK g \in Goroutine : g = <<c, Deliverer>> /\ g[1] = c
    <3>1. <<c, Deliverer>> \in Goroutine  BY DEF Goroutine
    <3> QED  BY <3>1
  <2> QED  BY <1>1, <1>2, <2>1, PutSpools
<1>4. spilling' \in [Cmd -> Seq(Event)]  BY <1>0, <1>1, EmptySeq DEF TypeOK
<1>5. TypeOK'
  BY <1>0, <1>1, <1>3, <1>4 DEF TypeOK, seqVars, Spool, Trims, UniqueNames, PutDone
<1>6. \A f \in Flusher : Engaged(f)'  BY <1>1, <1>2, EngagedFrame
<1> QED  BY <1>3, <1>5, <1>6 DEF Base

\* A Flush begins for a command that is open, or closing.
LEMMA BeginBase ==
  ASSUME Base, NEW f \in Flusher, Begin(f), phase[f[1]] # "new",
         phase' \in [Cmd -> {"new", "open", "closing", "last", "settling",
                             "ended", "killed"}],
         \A c \in Cmd : phase'[c] = "new" <=> phase[c] = "new",
         UNCHANGED <<seqVars, seqno, overflow, putVars, pending, spilling, files, fateVars,
                     released>>
  PROVE  Base'
<1>0. TypeOK /\ f[1] \in Cmd  BY FlushRecord DEF Base
<1> DEFINE p == IF overflow[f[1]] THEN "list" ELSE "take"
<1>1. NowIn(f, p, {}, NoName, <<>>, MaxBatches)  BY <1>0, BeginSets
<1> HIDE DEF p
<1>2. NoneNew  BY DEF NoneNew
<1>3. Spool'  BY <1>2, SpoolFrame DEF putVars, fateVars
<1>4. TypeOK'  BY <1>0, <1>1 DEF TypeOK, NowIn, seqVars, fateVars, putVars
<1>5. ASSUME NEW g \in Flusher PROVE Engaged(g)'
  <2>1. g[1] \in Cmd  BY <1>0, FlushRecord
  <2>2. MaxBatches >= 1  BY DeliveryAssumption
  <2> QED  BY <1>0, <1>1, <2>1, <2>2 DEF NowIn, Engaged, Base
<1> QED  BY <1>3, <1>4, <1>5 DEF Base

LEMMA PhaseType ==
  ASSUME Base, NEW c \in Cmd, phase[c] # "new",
         NEW p \in {"closing", "last", "settling", "ended", "killed"},
         phase' = [phase EXCEPT ![c] = p]
  PROVE  /\ phase' \in [Cmd -> {"new", "open", "closing", "last", "settling",
                                "ended", "killed"}]
         /\ \A d \in Cmd : phase'[d] = "new" <=> phase[d] = "new"
         /\ NoneNew
<1>1. phase \in [Cmd -> {"new", "open", "closing", "last", "settling", "ended", "killed"}]
  BY DEF Base, TypeOK
<1> QED  BY <1>1 DEF NoneNew

LEMMA CloseBase ==
  ASSUME Base, NEW c \in Cmd, CloseBegins(c) \/ LastFlush(c) \/ Settle(c)
  PROVE  Base'
<1>0. TypeOK  BY DEF Base
<1>1. CASE CloseBegins(c)
  <2>1. /\ UNCHANGED <<seqVars, seqno, overflow, putVars, pending, spilling, flush, files,
                       fateVars, released>>
        /\ phase[c] # "new" /\ phase' = [phase EXCEPT ![c] = "closing"]
    BY <1>1 DEF CloseBegins
  <2>2. NoneNew /\ phase' \in [Cmd -> {"new", "open", "closing", "last", "settling",
                                       "ended", "killed"}]
    BY <2>1, PhaseType
  <2>3. Spool' /\ \A f \in Flusher : Engaged(f)'
    BY <2>1, <2>2, SpoolFrame, EngagedFrame DEF putVars, fateVars
  <2>4. TypeOK'  BY <1>0, <2>1, <2>2 DEF TypeOK, seqVars, fateVars, putVars
  <2> QED  BY <2>3, <2>4 DEF Base
<1>2. CASE LastFlush(c)
  <2>1. /\ UNCHANGED <<seqVars, seqno, overflow, putVars, pending, spilling, files, fateVars,
                       released>>
        /\ phase[c] # "new" /\ phase' = [phase EXCEPT ![c] = "last"]
        /\ Begin(<<c, Closer>>)
    BY <1>2 DEF LastFlush
  <2>2. PICK f \in Flusher : f = <<c, Closer>> /\ f[1] = c
    <3>1. <<c, Closer>> \in Flusher  BY DeliveryAssumption DEF Flusher
    <3> QED  BY <3>1
  <2>3. /\ \A d \in Cmd : phase'[d] = "new" <=> phase[d] = "new"
        /\ phase' \in [Cmd -> {"new", "open", "closing", "last", "settling",
                               "ended", "killed"}]
    BY <2>1, PhaseType
  <2> QED  BY <2>1, <2>2, <2>3, BeginBase
<1>3. CASE Settle(c)
  <2>1. /\ UNCHANGED <<base, durable, behind, overlapped, fellBack, seqno, overflow, putVars,
                       pending, spilling, flush, files, fateVars, released>>
        /\ phase[c] # "new" /\ phase' = [phase EXCEPT ![c] = "ended"]
        /\ meta' = seqno[c] \/ meta' = meta
    BY <1>3 DEF Settle
  <2>2. NoneNew /\ phase' \in [Cmd -> {"new", "open", "closing", "last", "settling",
                                       "ended", "killed"}]
    BY <2>1, PhaseType
  <2>3. Spool' /\ \A f \in Flusher : Engaged(f)'
    BY <2>1, <2>2, SpoolFrame, EngagedFrame DEF putVars, fateVars
  <2>4. meta' \in Nat  BY <1>0, <2>1 DEF TypeOK
  <2>5. TypeOK'  BY <1>0, <2>1, <2>2, <2>4 DEF TypeOK, fateVars, putVars
  <2> QED  BY <2>3, <2>5 DEF Base
<1> QED  BY <1>1, <1>2, <1>3

\* What is left when Close has flushed goes to the spool or is counted.
LEMMA CloseSpillsBase ==
  ASSUME Base, NEW c \in Cmd, CloseSpills(c)
  PROVE  /\ Base'
         /\ \/ UNCHANGED <<files, putVars>> /\ counted' = counted \cup Events(pending[c])
            \/ PutDone(pending[c])
<1>0. TypeOK /\ pending[c] \in Seq(Event)  BY Kept DEF Base
<1>1. /\ UNCHANGED <<seqVars, seqno, overflow, spilling, flush, received, died, released,
                     uncounted>>
      /\ phase[c] # "new" /\ phase' = [phase EXCEPT ![c] = "settling"]
      /\ pending' = [pending EXCEPT ![c] = <<>>]
  BY DEF CloseSpills
<1>2. NoneNew /\ phase' \in [Cmd -> {"new", "open", "closing", "last", "settling",
                                     "ended", "killed"}]
  BY <1>1, PhaseType
<1>3. \/ UNCHANGED <<files, putVars>> /\ counted' = counted \cup Events(pending[c])
      \/ Put(<<c, Closer>>, pending[c]) \/ PutFails(<<c, Closer>>, pending[c])
  BY EventsEmpty DEF CloseSpills
<1>4. /\ Spool' /\ counted' \subseteq Event
      /\ \/ UNCHANGED <<files, putVars>> /\ counted' = counted \cup Events(pending[c])
         \/ PutDone(pending[c])
  <2>1. CASE UNCHANGED <<files, putVars>> /\ counted' = counted \cup Events(pending[c])
    BY <1>0, <1>1, <1>2, <2>1, SpoolFrame, EventsType, Kept DEF putVars
  <2>2. CASE Put(<<c, Closer>>, pending[c]) \/ PutFails(<<c, Closer>>, pending[c])
    <3>1. PICK g \in Goroutine : g = <<c, Closer>> /\ g[1] = c
      <4>1. <<c, Closer>> \in Goroutine  BY DeliveryAssumption DEF Goroutine
      <4> QED  BY <4>1
    <3> QED  BY <1>0, <1>1, <1>2, <2>2, <3>1, PutSpools DEF PutDone
  <2> QED  BY <1>3, <2>1, <2>2
<1>5. pending' \in [Cmd -> Seq(Event)] /\ \A d \in Cmd : Len(pending'[d]) <= Capacity
  <2>1. <<>> \in Seq(Event) /\ Len(<<>>) = 0 /\ 0 <= Capacity
    BY EmptySeq, DeliveryAssumption
  <2> QED  BY <1>1, <2>1, Kept
<1>6. TypeOK'  BY <1>0, <1>1, <1>2, <1>4, <1>5 DEF TypeOK, seqVars, Spool, Trims, UniqueNames
<1>7. \A f \in Flusher : Engaged(f)'  BY <1>1, <1>2, EngagedFrame
<1> QED  BY <1>4, <1>6, <1>7 DEF Base

\* A process that is killed leaves its files, some of them locked.
LEMMA KillMarks ==
  ASSUME Base, NEW c \in Cmd, Kill(c)
  PROVE  Marked /\ \A g \in files : \E h \in files' : Same(g, h) /\ h.claimed = g.claimed
<1>1. PICK left : files' = {[f EXCEPT !.locked = f.locked \/ f \in left] : f \in files}
  BY DEF Kill
<1> DEFINE m == [f \in files |-> [f EXCEPT !.locked = f.locked \/ f \in left]]
<1>2. files' = {m[g] : g \in files}  BY <1>1
<1>3. ASSUME NEW g \in files
      PROVE  m[g] \in File /\ Same(g, m[g]) /\ m[g].claimed = g.claimed
  <2>1. g \in File  BY DEF Base, Spool
  <2>2. PICK b \in BOOLEAN : b = (g.locked \/ g \in left)  OBVIOUS
  <2>3. m[g] = [g EXCEPT !.locked = b]  BY <2>2
  <2> HIDE DEF m
  <2>4. /\ [g EXCEPT !.locked = b] \in File /\ Same(g, [g EXCEPT !.locked = b])
        /\ [g EXCEPT !.locked = b].claimed = g.claimed
    BY <2>1, FlagSet
  <2> QED  BY <2>3, <2>4
<1>4. m \in [files -> File]  BY <1>3
<1> HIDE DEF m
<1>5. Marked  BY <1>2, <1>3, <1>4, Remade
<1> QED  BY <1>2, <1>3, <1>5

LEMMA KillBase == ASSUME Base, NEW c \in Cmd, Kill(c) PROVE Base'
<1>0. TypeOK  BY DEF Base
<1>1. /\ UNCHANGED <<seqVars, seqno, overflow, ctr, received, counted, released, uncounted>>
      /\ phase[c] # "new" /\ phase' = [phase EXCEPT ![c] = "killed"]
      /\ died' = died \cup (InMemory(c) \ received)
      /\ pending' = [pending EXCEPT ![c] = <<>>]
      /\ spilling' = [spilling EXCEPT ![c] = <<>>]
      /\ flush' = [f \in Flusher |-> IF f[1] = c THEN NoFlush ELSE flush[f]]
      /\ trim' = [g \in Goroutine |-> IF g[1] = c THEN NoTrim ELSE trim[g]]
  BY DEF Kill, Running
<1>2. NoneNew /\ phase' \in [Cmd -> {"new", "open", "closing", "last", "settling",
                                     "ended", "killed"}]
  BY <1>1, PhaseType
<1>3. Spool'
  <2>1. Trims'  BY <1>1, NoTrimIs DEF Base, Spool, Trims
  <2> QED  BY <1>1, <1>2, <2>1, KillMarks, SpoolMarked
<1>4. pending' \in [Cmd -> Seq(Event)] /\ \A d \in Cmd : Len(pending'[d]) <= Capacity
      /\ spilling' \in [Cmd -> Seq(Event)]
  <2>1. <<>> \in Seq(Event) /\ Len(<<>>) = 0 /\ 0 <= Capacity
    BY EmptySeq, DeliveryAssumption
  <2>2. pending' \in [Cmd -> Seq(Event)] /\ \A d \in Cmd : Len(pending'[d]) <= Capacity
    BY <1>1, <2>1, Kept
  <2> QED  BY <1>0, <1>1, <2>1, <2>2 DEF TypeOK
<1>5. flush' \in [Flusher -> FlushStates]  BY <1>0, <1>1, NoFlushIs DEF IsFlush, TypeOK
<1>6. died' \subseteq Event
  <2>1. Events(pending[c]) \subseteq Event /\ Events(spilling[c]) \subseteq Event
    BY <1>0, EventsType DEF TypeOK
  <2>2. \A t \in Thread : Events(flush[<<c, t>>].batch) \subseteq Event
    <3>1. \A t \in Thread : <<c, t>> \in Flusher  BY DEF Flusher
    <3> QED  BY <1>0, <3>1, FlushRecord, EventsType
  <2>3. InMemory(c) \subseteq Event  BY <2>1, <2>2 DEF InMemory
  <2> QED  BY <1>0, <1>1, <2>3 DEF TypeOK
<1>7. TypeOK'
  BY <1>0, <1>1, <1>2, <1>3, <1>4, <1>5, <1>6 DEF TypeOK, seqVars, Spool, Trims, UniqueNames
<1>8. ASSUME NEW f \in Flusher PROVE Engaged(f)'
  <2>1. NoFlush.pc = "idle" /\ f[1] \in Cmd  BY <1>0, FlushRecord DEF NoFlush
  <2>2. flush'[f] = flush[f] \/ flush'[f].pc = "idle"  BY <1>1, <2>1
  <2> QED  BY <1>2, <2>1, <2>2 DEF Engaged, Base, NoneNew
<1> QED  BY <1>3, <1>7, <1>8 DEF Base

LEMMA FlushBeginsBase == ASSUME Base, NEW f \in Flusher, FlushBegins(f) PROVE Base'
<1>0. TypeOK  BY DEF Base
<1>1. phase' = phase /\ phase[f[1]] # "new" /\ Begin(f)
      /\ UNCHANGED <<seqVars, seqno, overflow, putVars, pending, spilling, files, fateVars, released>>
  BY DEF FlushBegins, keepAllButFlush
<1> QED  BY <1>0, <1>1, BeginBase DEF TypeOK

LEMMA InitBase == Init => Base
<1> SUFFICES ASSUME Init PROVE Base  OBVIOUS
<1>1. flush \in [Flusher -> FlushStates] /\ \A f \in Flusher : flush[f].pc = "idle"
  BY NoFlushIs DEF Init, IsFlush
<1>2. /\ pending \in [Cmd -> Seq(Event)] /\ spilling \in [Cmd -> Seq(Event)]
      /\ \A c \in Cmd : Len(pending[c]) <= Capacity
  BY EmptySeq, DeliveryAssumption DEF Init
<1>t. Trims  BY NoTrimIs DEF Init, Trims
<1>3. TypeOK  BY <1>1, <1>2, <1>t DEF Init, TypeOK, Trims
<1>4. Bounded
  <2>1. \A c \in Cmd : ctr[c] <= 0 /\ seqno[c] <= 0  BY DEF Init
  <2> QED  BY <2>1 DEF Bounded
<1>5. Spool  BY <1>4, <1>t DEF Init, Spool, UniqueNames, Named, NotYet
<1>6. \A f \in Flusher : Engaged(f)  BY <1>1 DEF Engaged
<1> QED  BY <1>3, <1>5, <1>6 DEF Base

LEMMA StutterBase == ASSUME Base, UNCHANGED vars PROVE Base'
<1>1. NoneNew /\ UNCHANGED <<flush, files, ctr, seqno, trim, uncounted>>  BY DEF NoneNew, vars
<1>2. TypeOK'  BY DEF Base, TypeOK, vars
<1> QED  BY <1>1, <1>2, SpoolFrame, EngagedFrame DEF Base

\* enforceBudget: it visits batches, and removes one that nobody has claimed.
LEMMA TrimRecord ==
  ASSUME Base, NEW g \in Goroutine
  PROVE  /\ trim[g] \in TrimStates /\ trim[g].list \in SUBSET Name
         /\ trim[g].total \in SUBSET Name /\ trim[g].lines \in SUBSET Event
         /\ trim \in [Goroutine -> TrimStates]
<1>1. trim \in [Goroutine -> TrimStates]  BY DEF Base, Spool, Trims
<1> QED  BY <1>1 DEF TrimStates

\* What a step of enforceBudget does: nothing to the batches, or it removes one.
Visits ==
  /\ trim' \in [Goroutine -> TrimStates]
  /\ UNCHANGED <<files, counted, uncounted>>

Evicts ==
  /\ trim' \in [Goroutine -> TrimStates]
  /\ counted \subseteq counted' /\ counted' \subseteq Event
  /\ Loses /\ uncounted' \subseteq Event
  /\ \E b \in Unclaimed(files) :
       /\ files' = files \ {b}
       /\ Events(b.batch) \subseteq received \cup counted' \cup died \cup uncounted'

LEMMA EnforceBudgetSteps ==
  ASSUME Base, NEW g \in Goroutine, EnforceBudget(g)
  PROVE  (Visits \/ Evicts) /\ UNCHANGED keepAllButTrim
<1>0. /\ trim[g] \in TrimStates /\ trim[g].list \in SUBSET Name
      /\ trim[g].total \in SUBSET Name /\ trim[g].lines \in SUBSET Event
      /\ trim \in [Goroutine -> TrimStates]
  BY TrimRecord
<1>1. ASSUME NEW n \in trim[g].list, NEW lines \in SUBSET Event, Counted(g, n, lines)
      PROVE  trim' \in [Goroutine -> TrimStates]
  <2> DEFINE r == [pc |-> "remove", list |-> trim[g].list \ {n}, total |-> trim[g].total,
                   name |-> n, lines |-> lines]
  <2>1. r \in TrimStates  BY <1>0, <1>1 DEF TrimStates
  <2>2. trim' = [trim EXCEPT ![g] = r]  BY <1>1 DEF Counted
  <2> HIDE DEF r
  <2> QED  BY <1>0, <2>1, <2>2
<1>2. CASE TrimCounts(g)
  <2>1. PICK n \in trim[g].list, b \in files :
          /\ Counted(g, n, Events(b.batch))
          /\ UNCHANGED <<keepAllButTrim, files, counted, uncounted>>
    BY <1>2 DEF TrimCounts
  <2>2. Events(b.batch) \in SUBSET Event  BY FileRecord, EventsType DEF Base
  <2> QED  BY <1>1, <2>1, <2>2 DEF Visits
<1>3. CASE TrimCannotCount(g)
  <2>1. PICK n \in trim[g].list :
          Counted(g, n, {}) /\ UNCHANGED <<keepAllButTrim, files, counted, uncounted>>
    BY <1>3 DEF TrimCannotCount
  <2> QED  BY <1>1, <2>1 DEF Visits
<1>4. CASE TrimRemoves(g)
  <2>1. PICK b \in UnclaimedAs(trim[g].name) :
          /\ files' = files \ {b} /\ counted' = counted \cup trim[g].lines
          /\ Forget(Events(b.batch) \ trim[g].lines)
          /\ trim' = [trim EXCEPT ![g] = NextItem(trim[g].list,
                                                  trim[g].total \ {trim[g].name})]
          /\ UNCHANGED keepAllButTrim
    BY <1>4 DEF TrimRemoves
  <2>2. b \in Unclaimed(files) /\ b \in files  BY DEF UnclaimedAs, Unclaimed
  <2>3. PICK r \in TrimStates : r = NextItem(trim[g].list, trim[g].total \ {trim[g].name})
    <3>1. trim[g].total \ {trim[g].name} \in SUBSET Name  BY <1>0
    <3> QED  BY <1>0, <3>1, NextItemType
  <2>4. trim' \in [Goroutine -> TrimStates]  BY <1>0, <2>1, <2>3
  <2>5. Loses /\ uncounted' \subseteq Event  BY <2>1, <2>2, Forgotten
  <2>6. counted \subseteq counted' /\ counted' \subseteq Event  BY <1>0, <2>1, Kept
  <2>7. Events(b.batch) \subseteq received \cup counted' \cup died \cup uncounted'
    BY <2>1 DEF Forget
  <2> QED  BY <2>1, <2>2, <2>4, <2>5, <2>6, <2>7 DEF Evicts
<1>5. CASE TrimSkips(g)
  <2>1. /\ trim' = [trim EXCEPT ![g] = NextItem(trim[g].list, trim[g].total)]
        /\ UNCHANGED <<keepAllButTrim, files, counted, uncounted>>
    BY <1>5 DEF TrimSkips
  <2>2. NextItem(trim[g].list, trim[g].total) \in TrimStates  BY <1>0, NextItemType
  <2> QED  BY <1>0, <2>1, <2>2 DEF Visits
<1> QED  BY <1>2, <1>3, <1>4, <1>5 DEF EnforceBudget

LEMMA EnforceBudgetBase == ASSUME Base, NEW g \in Goroutine, EnforceBudget(g) PROVE Base'
<1>0. TypeOK  BY DEF Base
<1>1. (Visits \/ Evicts) /\ UNCHANGED keepAllButTrim  BY EnforceBudgetSteps
<1>2. UNCHANGED <<phase, seqVars, seqno, overflow, ctr, pending, spilling, flush, received,
                  died, released>>
  BY <1>1 DEF keepAllButTrim
<1>3. Trims' /\ counted' \subseteq Event /\ files' \subseteq files
  BY <1>1, Kept DEF Visits, Evicts, Trims, Base, Spool
<1>4. NoneNew  BY <1>2 DEF NoneNew
<1>5. Spool'  BY <1>2, <1>3, <1>4, SpoolShrinks
<1>6. TypeOK'  BY <1>0, <1>2, <1>3, <1>5 DEF TypeOK, seqVars, Spool, Trims, UniqueNames
<1>7. \A f \in Flusher : Engaged(f)'  BY <1>2, <1>4, EngagedFrame
<1> QED  BY <1>5, <1>6, <1>7 DEF Base

LEMMA StepBase == ASSUME Base, [Next]_vars PROVE Base'
<1>1. CASE \E c \in Cmd : Attach(c)  BY <1>1, AttachBase
<1>2. CASE \E c \in Cmd : Emit(c)  BY <1>2, EmitBase
<1>3. CASE \E c \in Cmd : Spill(c)  BY <1>3, SpillBase
<1>4. CASE \E c \in Cmd : CloseBegins(c) \/ Close(c)
  BY <1>4, CloseBase, CloseSpillsBase DEF Close
<1>5. CASE \E c \in Cmd : Kill(c)  BY <1>5, KillBase
<1>6. CASE \E f \in Flusher : FlushBegins(f) \/ Flush(f)
  BY <1>6, FlushBeginsBase, FlushStepBase
<1>7. CASE \E g \in Goroutine : EnforceBudget(g)  BY <1>7, EnforceBudgetBase
<1> QED  BY <1>1, <1>2, <1>3, <1>4, <1>5, <1>6, <1>7, StutterBase DEF Next

-----------------------------------------------------------------------------
(* Where the events are *)

\* On its way, arrived, counted, lost with a process or lost uncounted.
Known == Somewhere \cup received \cup counted \cup died \cup uncounted

Active == {"sendPending", "put"}

\* The places the events of Known are in, now and after a step.
LEMMA Places ==
  /\ \A g \in files : Events(g.batch) \subseteq Known
  /\ \A c \in Cmd : Events(pending[c]) \cup Events(spilling[c]) \subseteq Known
  /\ \A f \in Flusher : flush[f].pc \in Active => Events(flush[f].batch) \subseteq Known
<1>1. \A g \in files : Events(g.batch) \subseteq Somewhere  BY DEF Somewhere
<1>2. \A c \in Cmd : InMemory(c) \subseteq Somewhere  BY DEF Somewhere
<1>3. \A c \in Cmd : Events(pending[c]) \cup Events(spilling[c]) \subseteq InMemory(c)
  BY DEF InMemory
<1>4. ASSUME NEW f \in Flusher, flush[f].pc \in Active
      PROVE  Events(flush[f].batch) \subseteq Somewhere
  <2>1. PICK c \in Cmd, t \in Thread : f = <<c, t>>  BY DEF Flusher
  <2>2. Events(flush[<<c, t>>].batch) \subseteq InMemory(c)
    BY <1>4, <2>1 DEF InMemory, Active
  <2> QED  BY <1>2, <2>1, <2>2
<1> QED  BY <1>1, <1>2, <1>3, <1>4 DEF Known

LEMMA PlacesNext ==
  /\ \A g \in files' : Events(g.batch) \subseteq Known'
  /\ \A c \in Cmd : Events(pending'[c]) \cup Events(spilling'[c]) \subseteq Known'
  /\ \A f \in Flusher : flush'[f].pc \in Active => Events(flush'[f].batch) \subseteq Known'
  /\ received' \cup counted' \cup died' \cup uncounted' \subseteq Known'
<1>1. \A g \in files' : Events(g.batch) \subseteq Somewhere'  BY DEF Somewhere
<1>2. \A c \in Cmd : InMemory(c)' \subseteq Somewhere'  BY DEF Somewhere
<1>3. \A c \in Cmd : Events(pending'[c]) \cup Events(spilling'[c]) \subseteq InMemory(c)'
  BY DEF InMemory
<1>4. ASSUME NEW f \in Flusher, flush'[f].pc \in Active
      PROVE  Events(flush'[f].batch) \subseteq Somewhere'
  <2>1. PICK c \in Cmd, t \in Thread : f = <<c, t>>  BY DEF Flusher
  <2>2. Events(flush'[<<c, t>>].batch) \subseteq InMemory(c)'
    BY <1>4, <2>1 DEF InMemory, Active
  <2> QED  BY <1>2, <2>1, <2>2
<1> QED  BY <1>1, <1>2, <1>3, <1>4 DEF Known

\* What is accepted is not forgotten, only what was accepted arrives, and only
\* what was owed is lost.
Accounted ==
  /\ received \subseteq received' /\ counted \subseteq counted' /\ died \subseteq died'
  /\ Known \subseteq Known' /\ received' \subseteq Known /\ Loses

LEMMA NoneLost == ASSUME UNCHANGED uncounted PROVE Loses
BY DEF Loses

\* An event that is in one of its places stays known.
LEMMA Conserved ==
  ASSUME \A g \in files : (\E h \in files' : h.batch = g.batch)
                          \/ Events(g.batch) \subseteq Known',
         \A c \in Cmd : Events(pending[c]) \cup Events(spilling[c]) \subseteq Known',
         \A f \in Flusher : flush[f].pc \in Active => Events(flush[f].batch) \subseteq Known',
         received \subseteq received', counted \subseteq counted', died \subseteq died',
         received' \subseteq Known, Loses
  PROVE  Accounted
<1>1. \A g \in files : Events(g.batch) \subseteq Known'  BY PlacesNext
<1>2. ASSUME NEW c \in Cmd PROVE InMemory(c) \subseteq Known'
  <2>1. \A t \in Thread : <<c, t>> \in Flusher  BY DEF Flusher
  <2>2. \A t \in {u \in Thread : flush[<<c, u>>].pc \in {"sendPending", "put"}} :
           Events(flush[<<c, t>>].batch) \subseteq Known'
    BY <2>1 DEF Active
  <2> QED  BY <2>2 DEF InMemory
<1>3. Somewhere \subseteq Known'  BY <1>1, <1>2 DEF Somewhere
<1>4. received \cup counted \cup died \cup uncounted \subseteq Known'
  BY PlacesNext DEF Loses
<1> QED  BY <1>3, <1>4 DEF Known, Accounted

-----------------------------------------------------------------------------
(* Claims *)

Holders == {"read", "send", "ack", "unack", "discard"}
Holding(f) == flush[f].pc \in Holders

\* What a goroutine that holds a claim can rely on: nobody else's batch has the
\* name, and while the claim is not released the batch is there.
Claim(f) ==
  Holding(f) =>
    /\ flush[f].name \in Name /\ flush[f].name[1] <= ctr[flush[f].name[2]]
    /\ flush[f].name \notin released =>
         \E g \in files : g.name = flush[f].name /\ g.claimed
    /\ \A g \in files : g.name = flush[f].name => g.batch = flush[f].batch
    /\ flush[f].pc = "ack" => Parsed(flush[f].batch) \subseteq received
    /\ Events(flush[f].batch) \subseteq Known

Apart(f, g) ==
  f # g /\ Holding(f) /\ Holding(g) /\ flush[f].name = flush[g].name
    => flush[f].name \in released

Claims ==
  /\ \A f \in Flusher : Claim(f)
  /\ \A f, g \in Flusher : Apart(f, g)

\* A step leaves the claim of f as it is, moves on with it, or gives it up.
Moves(f) ==
  Holding(f)' =>
    /\ Holding(f) /\ flush'[f].name = flush[f].name /\ flush'[f].batch = flush[f].batch
    /\ flush'[f].pc = "ack" =>
         flush[f].pc = "ack" \/ Parsed(flush[f].batch) \subseteq received'

\* The batch f has claimed stays claimed, unless the claim is released.
Stays(f) ==
  Holding(f) /\ Holding(f)' =>
    \A g \in files : g.claimed /\ g.name = flush[f].name =>
      g.name \in released' \/ \E h \in files' : h.name = g.name /\ h.claimed

Steady ==
  /\ Inherits /\ released \subseteq released'
  /\ \A d \in Cmd : ctr[d] <= ctr'[d]

LEMMA ClaimKept ==
  ASSUME Base, Base', Steady, Accounted, NEW f \in Flusher, Claim(f), Moves(f), Stays(f)
  PROVE  Claim(f)'
<1> SUFFICES ASSUME Holding(f)'
             PROVE  /\ flush'[f].name \in Name /\ flush'[f].name[1] <= ctr'[flush'[f].name[2]]
                    /\ flush'[f].name \notin released' =>
                         \E g \in files' : g.name = flush'[f].name /\ g.claimed
                    /\ \A g \in files' : g.name = flush'[f].name => g.batch = flush'[f].batch
                    /\ flush'[f].pc = "ack" => Parsed(flush'[f].batch) \subseteq received'
                    /\ Events(flush'[f].batch) \subseteq Known'
  BY DEF Claim
<1>1. PICK n : n = flush[f].name /\ n = flush'[f].name  BY DEF Moves
<1>2. PICK b : b = flush[f].batch /\ b = flush'[f].batch  BY DEF Moves
<1>3. /\ Holding(f) /\ n \in Name /\ n[1] <= ctr[n[2]]
      /\ n \notin released => \E g \in files : g.name = n /\ g.claimed
      /\ \A g \in files : g.name = n => g.batch = b
      /\ flush[f].pc = "ack" => Parsed(b) \subseteq received
      /\ Events(b) \subseteq Known
  BY <1>1, <1>2 DEF Claim, Moves
<1>4. n[1] \in Nat /\ n[2] \in Cmd  BY <1>3 DEF Name
<1>5. ctr[n[2]] \in Nat /\ ctr'[n[2]] \in Nat /\ ctr[n[2]] <= ctr'[n[2]]
  BY <1>4 DEF Base, TypeOK, Steady
<1>6. n[1] <= ctr'[n[2]] /\ ~(n[1] > ctr[n[2]])  BY <1>3, <1>4, <1>5
<1>7. n \notin released' => \E g \in files' : g.name = n /\ g.claimed
  <2> SUFFICES ASSUME n \notin released' PROVE \E g \in files' : g.name = n /\ g.claimed
    OBVIOUS
  <2>1. PICK g \in files : g.name = n /\ g.claimed  BY <1>3 DEF Steady
  <2> QED  BY <1>1, <1>3, <2>1 DEF Stays
<1>8. \A g \in files' : g.name = n => g.batch = b
  <2> SUFFICES ASSUME NEW h \in files', h.name = n PROVE h.batch = b  OBVIOUS
  <2>1. PICK g \in files : Same(g, h)  BY <1>6 DEF Steady, Inherits
  <2> QED  BY <1>3, <2>1 DEF Same
<1>9. flush'[f].pc = "ack" => Parsed(b) \subseteq received'
  BY <1>2, <1>3 DEF Moves, Accounted
<1> QED  BY <1>1, <1>2, <1>3, <1>6, <1>7, <1>8, <1>9 DEF Accounted

LEMMA ApartKept ==
  ASSUME Steady, NEW f \in Flusher, NEW g \in Flusher, Apart(f, g), Moves(f), Moves(g)
  PROVE  Apart(f, g)'
BY DEF Steady, Apart, Moves

LEMMA ClaimsKept ==
  ASSUME Base, Base', Claims, Steady, Accounted,
         \A f \in Flusher : Moves(f) /\ Stays(f)
  PROVE  Claims'
BY ClaimKept, ApartKept DEF Claims

\* What every step but a claim does to the claims and the events.
Orderly == Steady /\ Accounted /\ \A f \in Flusher : Moves(f) /\ Stays(f)

\* Steps that leave the spool alone, or only change flags other than claimed.
LEMMA SpoolAlone ==
  ASSUME Base, UNCHANGED <<files, ctr, released>>
  PROVE  /\ Steady /\ \A f \in Flusher : Stays(f)
         /\ \A g \in files : \E h \in files' : h.batch = g.batch
<1>1. \A d \in Cmd : ctr[d] <= ctr'[d]  BY DEF Base, TypeOK
<1>2. Inherits  BY DEF Inherits, Same
<1> QED  BY <1>1, <1>2 DEF Steady, Stays

LEMMA SpoolRemarked ==
  ASSUME Base, Marked, released \subseteq released', \A d \in Cmd : ctr[d] <= ctr'[d]
  PROVE  /\ Steady
         /\ \A g \in files : \E h \in files' : h.batch = g.batch
BY DEF Marked, Steady, Inherits, Same

\* One goroutine moves.
LEMMA OneMoves ==
  ASSUME NEW f \in Flusher, NEW p, NEW a, NEW n, NEW b, NEW l, NowIn(f, p, a, n, b, l),
         Moves(f)
  PROVE  \A g \in Flusher : Moves(g)
<1> SUFFICES ASSUME NEW g \in Flusher, g # f PROVE Moves(g)  OBVIOUS
<1>1. flush'[g] = flush[g]  BY DEF NowIn
<1> QED  BY <1>1 DEF Moves, Holding

LEMMA LetsGo ==
  ASSUME NEW f \in Flusher, NEW p, NEW a, NEW n, NEW b, NEW l, NowIn(f, p, a, n, b, l),
         p \notin Holders
  PROVE  (\A g \in Flusher : Moves(g)) /\ ~Holding(f)'
<1>1. ~Holding(f)'  BY DEF NowIn, Holding
<1>2. Moves(f)  BY <1>1 DEF Moves
<1> QED  BY <1>1, <1>2, OneMoves

\* The batches other goroutines send stay where they are.
LEMMA OthersSend ==
  ASSUME NEW f \in Flusher, NEW p, NEW a, NEW n, NEW b, NEW l, NowIn(f, p, a, n, b, l),
         flush[f].pc \in Active => Events(flush[f].batch) \subseteq Known'
  PROVE  \A g \in Flusher : flush[g].pc \in Active => Events(flush[g].batch) \subseteq Known'
<1> SUFFICES ASSUME NEW g \in Flusher, g # f, flush[g].pc \in Active
             PROVE  Events(flush[g].batch) \subseteq Known'
  OBVIOUS
<1>1. flush'[g] = flush[g]  BY DEF NowIn
<1> QED  BY <1>1, PlacesNext

LEMMA BuffersAlone ==
  ASSUME UNCHANGED <<pending, spilling>>
  PROVE  \A c \in Cmd : Events(pending[c]) \cup Events(spilling[c]) \subseteq Known'
BY PlacesNext

LEMMA QuietOrderly ==
  ASSUME Base, NEW f \in Flusher, NEW p, NEW a, NEW n, NEW b, NEW l,
         NowIn(f, p, a, n, b, l), flush[f].pc \notin Active,
         p \notin Holders
           \/ (Holding(f) /\ n = flush[f].name /\ b = flush[f].batch /\ p # "ack"),
         UNCHANGED <<files, ctr, released, pending, spilling, received, counted, died, uncounted>>
  PROVE  Orderly
<1>1. \A g \in Flusher : Moves(g)
  <2>1. CASE p \notin Holders  BY <2>1, LetsGo
  <2>2. CASE Holding(f) /\ n = flush[f].name /\ b = flush[f].batch /\ p # "ack"
    <3>1. Moves(f)  BY <2>2 DEF Moves, NowIn
    <3> QED  BY <3>1, OneMoves
  <2> QED  BY <2>1, <2>2
<1>2. Accounted
  <2>1. received' \subseteq Known  BY DEF Known
  <2> QED  BY <2>1, SpoolAlone, BuffersAlone, OthersSend, Conserved, NoneLost
<1> QED  BY <1>1, <1>2, SpoolAlone DEF Orderly

LEMMA MoveOrderly ==
  ASSUME Base, NEW f \in Flusher,
         \/ TakeLists(f) \/ TakeSkips(f) \/ TakeFindsNone(f) \/ TakeReads(f)
         \/ TakeReadsNothing(f) \/ SendSpooledFails(f) \/ FlushReturns(f)
  PROVE  Orderly
<1>0. TypeOK  BY DEF Base
<1>1. /\ UNCHANGED <<files, ctr, released, pending, spilling, received, counted, died, uncounted>>
      /\ flush[f].pc \notin Active
  BY DEF TakeLists, TakeSkips, TakeFindsNone, TakeReads, SendSpooledFails, FlushReturns,
         TakeReadsNothing, keepAllButFlush, fateVars, putVars, At, Active
<1>2. CASE TakeLists(f)
  BY <1>0, <1>1, <1>2, TakeListsSets, QuietOrderly DEF Holders
<1>3. CASE TakeSkips(f)
  <2>1. PICK n \in flush[f].list : flush' = [flush EXCEPT ![f].list = flush[f].list \ {n}]
    BY <1>3 DEF TakeSkips
  <2>2. NowIn(f, flush[f].pc, flush[f].list \ {n}, flush[f].name, flush[f].batch,
              flush[f].left)
    BY <1>0, <2>1, SkipSets
  <2>3. flush[f].pc \notin Holders  BY <1>3 DEF TakeSkips, At, Holders
  <2> QED  BY <1>1, <2>2, <2>3, QuietOrderly
<1>4. CASE TakeFindsNone(f)
  <2>1. NowIn(f, "take", flush[f].list, flush[f].name, flush[f].batch, flush[f].left)
    BY <1>0, <1>4, GotoSets DEF TakeFindsNone, FlushPcs
  <2> QED  BY <1>1, <2>1, QuietOrderly DEF Holders
<1>5. CASE TakeReads(f)
  <2>1. NowIn(f, "send", flush[f].list, flush[f].name, flush[f].batch, flush[f].left)
    BY <1>0, <1>5, GotoSets DEF TakeReads, FlushPcs
  <2>2. Holding(f)  BY <1>5 DEF TakeReads, At, Holding, Holders
  <2> QED  BY <1>1, <2>1, <2>2, QuietOrderly
<1>6. CASE SendSpooledFails(f)
  <2>1. NowIn(f, "unack", flush[f].list, flush[f].name, flush[f].batch, flush[f].left)
    BY <1>0, <1>6, GotoSets DEF SendSpooledFails, FlushPcs
  <2>2. Holding(f)  BY <1>6 DEF SendSpooledFails, At, Holding, Holders
  <2> QED  BY <1>1, <2>1, <2>2, QuietOrderly
<1>7. CASE FlushReturns(f)
  <2>1. NowIn(f, "idle", {}, NoName, <<>>, 0)
    BY <1>0, <1>7, FlushOverSets DEF FlushReturns
  <2> QED  BY <1>1, <2>1, QuietOrderly DEF Holders
<1>8. CASE TakeReadsNothing(f)
  <2>1. NowIn(f, "discard", flush[f].list, flush[f].name, flush[f].batch, flush[f].left)
    BY <1>0, <1>8, GotoSets DEF TakeReadsNothing, FlushPcs
  <2>2. Holding(f)  BY <1>8 DEF TakeReadsNothing, At, Holding, Holders
  <2> QED  BY <1>1, <2>1, <2>2, QuietOrderly
<1> QED  BY <1>2, <1>3, <1>4, <1>5, <1>6, <1>7, <1>8

LEMMA TakeCannotReadOrderly ==
  ASSUME Base, NEW f \in Flusher, TakeCannotRead(f) PROVE Orderly
<1>0. TypeOK  BY DEF Base
<1>1. /\ UNCHANGED <<files, ctr, released, pending, spilling, received, died, uncounted>>
      /\ flush[f].pc = "read" /\ counted \subseteq counted' /\ Goto(f, "discard")
  BY DEF TakeCannotRead, keepAllButFlush, putVars, At
<1>2. NowIn(f, "discard", flush[f].list, flush[f].name, flush[f].batch, flush[f].left)
  BY <1>0, <1>1, GotoSets DEF FlushPcs
<1>3. Moves(f)  BY <1>1, <1>2 DEF Moves, NowIn, Holding, Holders
<1>4. \A g \in Flusher : Moves(g)  BY <1>2, <1>3, OneMoves
<1>5. Accounted
  <2>1. received' \subseteq Known /\ flush[f].pc \notin Active  BY <1>1 DEF Known, Active
  <2> QED  BY <1>1, <1>2, <2>1, SpoolAlone, BuffersAlone, OthersSend, Conserved, NoneLost
<1> QED  BY <1>1, <1>4, <1>5, SpoolAlone DEF Orderly

LEMMA SendSpooledOrderly ==
  ASSUME Base, Claims, NEW f \in Flusher, SendSpooled(f) PROVE Orderly
<1>0. TypeOK  BY DEF Base
<1>1. /\ UNCHANGED <<files, ctr, released, pending, spilling, counted, died, uncounted>>
      /\ flush[f].pc = "send" /\ received' = received \cup Parsed(flush[f].batch)
      /\ Goto(f, "ack")
  BY DEF SendSpooled, keepAllButFlush, putVars, At
<1>2. NowIn(f, "ack", flush[f].list, flush[f].name, flush[f].batch, flush[f].left)
  BY <1>0, <1>1, GotoSets DEF FlushPcs
<1>3. Moves(f)  BY <1>1, <1>2 DEF Moves, NowIn, Holding, Holders
<1>4. \A g \in Flusher : Moves(g)  BY <1>2, <1>3, OneMoves
<1>5. Accounted
  <2>1. Events(flush[f].batch) \subseteq Known  BY <1>1 DEF Claims, Claim, Holding, Holders
  <2>2. received' \subseteq Known /\ flush[f].pc \notin Active
    BY <1>1, <2>1 DEF Known, Active, Parsed
  <2> QED  BY <1>1, <1>2, <2>2, SpoolAlone, BuffersAlone, OthersSend, Conserved, NoneLost
<1> QED  BY <1>1, <1>4, <1>5, SpoolAlone DEF Orderly

\* What is removed with a batch has arrived, is counted or is lost.
LEMMA RemovedEvents ==
  ASSUME NEW f \in Flusher, TakeDiscards(f) \/ Ack(f), UNCHANGED <<received, counted, died>>,
         NEW g \in files, g \notin files', g.batch = flush[f].batch,
         flush[f].pc = "ack" => Parsed(flush[f].batch) \subseteq received
  PROVE  Events(g.batch) \subseteq received' \cup counted' \cup died' \cup uncounted'
<1> DEFINE E == UNION {Events(h.batch) : h \in ClaimedAs(flush[f].name)}
<1>1. files' = files \ ClaimedAs(flush[f].name)  BY DEF TakeDiscards, Ack
<1>2. Events(g.batch) \subseteq E  BY <1>1
<1>3. CASE TakeDiscards(f)
  <2>1. Forget(E)  BY <1>3 DEF TakeDiscards
  <2> HIDE DEF E
  <2> QED  BY <1>2, <2>1 DEF Forget
<1>4. CASE Ack(f)
  <2>1. Forget(Garbled \cap E) /\ flush[f].pc = "ack"  BY <1>4 DEF Ack, At
  <2> HIDE DEF E
  <2>2. Events(g.batch) \ Garbled \subseteq received  BY <2>1 DEF Parsed
  <2> QED  BY <1>2, <2>1, <2>2 DEF Forget
<1> QED  BY <1>3, <1>4

\* Another goroutine that holds the name of a batch that is removed
\* has had its claim released.
LEMMA RemoveOrderly ==
  ASSUME Base, Claims, NEW f \in Flusher, TakeDiscards(f) \/ Ack(f) PROVE Orderly
<1>0. TypeOK  BY DEF Base
<1>1. /\ UNCHANGED <<ctr, released, pending, spilling, received, counted, died>>
      /\ flush[f].pc \in {"discard", "ack"} /\ files' = files \ ClaimedAs(flush[f].name)
  BY DEF TakeDiscards, Ack, keepAllButFlush, putVars, At
<1>2. flush[f].left >= 1  BY <1>1, EngagedLeft DEF Draining
<1>3. PICK p, a, n, b, l : NowIn(f, p, a, n, b, l) /\ p \notin Holders
  <2>1. CASE TakeDiscards(f)  BY <1>0, <2>1, DiscardSets DEF Holders
  <2>2. CASE Ack(f)
    <3> DEFINE p == IF flush[f].left = 1 THEN "take" ELSE "list"
    <3>1. NowIn(f, p, {}, NoName, <<>>, flush[f].left - 1)  BY <1>0, <1>2, <2>2, AckSets
    <3>2. p \notin Holders  BY DEF Holders
    <3> HIDE DEF p
    <3> QED  BY <3>1, <3>2
  <2> QED  BY <2>1, <2>2
<1>4. (\A g \in Flusher : Moves(g)) /\ ~Holding(f)'  BY <1>3, LetsGo
<1>5. Steady
  <2>1. \A d \in Cmd : ctr[d] <= ctr'[d]  BY <1>0, <1>1 DEF TypeOK
  <2>2. Inherits  BY <1>1 DEF Inherits, Same
  <2> QED  BY <1>1, <2>1, <2>2 DEF Steady
<1>6. Holding(f)  BY <1>1 DEF Holding, Holders
<1>7. ASSUME NEW g \in Flusher PROVE Stays(g)
  <2> SUFFICES ASSUME Holding(g), Holding(g)', NEW h \in files, h.claimed,
                      h.name = flush[g].name
               PROVE  h.name \in released' \/ \E k \in files' : k.name = h.name /\ k.claimed
    BY DEF Stays
  <2>1. CASE h.name = flush[f].name
    <3>1. g # f /\ flush[f].name = flush[g].name  BY <1>4, <2>1
    <3> QED  BY <1>1, <1>6, <3>1 DEF Claims, Apart
  <2>2. CASE h.name # flush[f].name  BY <1>1, <2>2 DEF ClaimedAs
  <2> QED  BY <2>1, <2>2
<1>8. Accounted
  <2>1. ASSUME NEW g \in files
        PROVE  (\E h \in files' : h.batch = g.batch) \/ Events(g.batch) \subseteq Known'
    <3>1. CASE g \in files'  BY <3>1
    <3>2. CASE g \notin files'
      <4>1. g.name = flush[f].name  BY <1>1, <3>2 DEF ClaimedAs
      <4>2. g.batch = flush[f].batch  BY <1>6, <4>1 DEF Claims, Claim
      <4>3. Events(g.batch) \subseteq received' \cup counted' \cup died' \cup uncounted'
        BY <1>1, <1>6, <3>2, <4>2, RemovedEvents DEF Claims, Claim
      <4> QED  BY <4>3, PlacesNext
    <3> QED  BY <3>1, <3>2
  <2>2. received' \subseteq Known /\ flush[f].pc \notin Active  BY <1>1 DEF Known, Active
  <2> QED  BY <1>1, <1>3, <2>1, <2>2, BuffersAlone, OthersSend, Conserved, RemoveForgets
<1> QED  BY <1>4, <1>5, <1>7, <1>8 DEF Orderly

LEMMA UnackOrderly ==
  ASSUME Base, Claims, NEW f \in Flusher, Unack(f) PROVE Orderly
<1>0. TypeOK  BY DEF Base
<1>1. /\ UNCHANGED <<ctr, released, pending, spilling, received, counted, died, uncounted>>
      /\ flush[f].pc = "unack" /\ FlushOver(f)
  BY DEF Unack, keepAllButFlush, fateVars, putVars, At
<1>2. NowIn(f, "idle", {}, NoName, <<>>, 0)  BY <1>0, <1>1, FlushOverSets
<1>3. (\A g \in Flusher : Moves(g)) /\ ~Holding(f)'  BY <1>2, LetsGo DEF Holders
<1>4. Steady /\ \A g \in files : \E h \in files' : h.batch = g.batch
  <2>1. \A d \in Cmd : ctr[d] <= ctr'[d]  BY <1>0, <1>1 DEF TypeOK
  <2> QED  BY <1>1, <2>1, UnackMarks, SpoolRemarked
<1>5. Holding(f)  BY <1>1 DEF Holding, Holders
<1>6. ASSUME NEW g \in Flusher PROVE Stays(g)
  <2> SUFFICES ASSUME Holding(g), Holding(g)', NEW h \in files, h.claimed,
                      h.name = flush[g].name
               PROVE  h.name \in released' \/ \E k \in files' : k.name = h.name /\ k.claimed
    BY DEF Stays
  <2>1. CASE h.name = flush[f].name
    <3>1. g # f /\ flush[f].name = flush[g].name  BY <1>3, <2>1
    <3> QED  BY <1>1, <1>5, <3>1 DEF Claims, Apart
  <2>2. CASE h.name # flush[f].name  BY <2>2, UnackMarks
  <2> QED  BY <2>1, <2>2
<1>7. Accounted
  <2>1. received' \subseteq Known /\ flush[f].pc \notin Active  BY <1>1 DEF Known, Active
  <2> QED  BY <1>1, <1>2, <1>4, <2>1, BuffersAlone, OthersSend, Conserved, NoneLost
<1> QED  BY <1>3, <1>4, <1>6, <1>7 DEF Orderly

\* A claim: nobody holds the batch, unless their claim was released.
LEMMA TakeClaimsClaims ==
  ASSUME Base, Base', Claims, NEW f \in Flusher, TakeClaims(f) PROVE Accounted /\ Claims'
<1>1. PICK n \in Name, g \in files : ClaimStep(f, n, g)  BY TakeClaimsStep
<1>2. UNCHANGED <<ctr, released, pending, spilling, received, counted, died, uncounted>>
  BY DEF TakeClaims, keepAllButFlush, fateVars, putVars
<1>3. /\ g.name = n /\ ~g.claimed /\ flush[f].pc = "claim"
      /\ NowIn(f, "read", flush[f].list \ {n}, n, g.batch, flush[f].left)
  BY <1>1 DEF ClaimStep, At
<1>4. /\ Marked /\ (\A h \in files : h.claimed => h \in files')
      /\ \E h \in files' : h.name = n /\ h.claimed
  BY <1>1, ClaimMarks
<1>5. Steady /\ \A h \in files : \E k \in files' : k.batch = h.batch
  <2>1. \A d \in Cmd : ctr[d] <= ctr'[d]  BY <1>2 DEF Base, TypeOK
  <2> QED  BY <1>2, <1>4, <2>1, SpoolRemarked
<1>6. Accounted
  <2>1. received' \subseteq Known /\ flush[f].pc \notin Active
    BY <1>2, <1>3 DEF Known, Active
  <2> QED  BY <1>2, <1>3, <1>5, <2>1, BuffersAlone, OthersSend, Conserved, NoneLost
<1>7. \A k \in Flusher : k # f => Moves(k) /\ Stays(k)
  <2> SUFFICES ASSUME NEW k \in Flusher, k # f PROVE Moves(k) /\ Stays(k)  OBVIOUS
  <2>1. flush'[k] = flush[k]  BY <1>3 DEF NowIn
  <2>2. Moves(k)  BY <2>1 DEF Moves, Holding
  <2>3. Stays(k)  BY <1>4 DEF Stays
  <2> QED  BY <2>2, <2>3
<1>8. \A h \in files : h.name = n => h = g
  BY <1>3 DEF Base, Spool, UniqueNames
<1>9. Claim(f)'
  <2>1. flush'[f].name = n /\ flush'[f].batch = g.batch /\ flush'[f].pc = "read"
    BY <1>3 DEF NowIn
  <2>2. n[1] <= ctr'[n[2]]  BY <1>2, <1>3 DEF Base, Spool, Named
  <2>3. \A h \in files' : h.name = n => h.batch = g.batch
    BY <1>4, <1>8 DEF Marked, Same
  <2>4. Events(g.batch) \subseteq Known'  BY <1>6, Places DEF Accounted
  <2>5. flush'[f].pc # "ack"  BY <2>1
  <2> QED  BY <1>4, <2>1, <2>2, <2>3, <2>4, <2>5 DEF Claim
<1>10. ASSUME NEW k \in Flusher, k # f, Holding(k)', flush'[k].name = n
       PROVE  n \in released'
  <2>1. Holding(k) /\ flush[k].name = n  BY <1>7, <1>10 DEF Moves
  <2>2. n \notin released => \E h \in files : h.name = n /\ h.claimed
    BY <2>1 DEF Claims, Claim
  <2>3. ~\E h \in files : h.name = n /\ h.claimed  BY <1>3, <1>8
  <2>4. released' = released  BY <1>2
  <2> QED  BY <2>2, <2>3, <2>4
<1>11. \A h, k \in Flusher : Apart(h, k)'
  <2> SUFFICES ASSUME NEW h \in Flusher, NEW k \in Flusher PROVE Apart(h, k)'  OBVIOUS
  <2>0. flush'[f].name = n  BY <1>3 DEF NowIn
  <2>1. CASE h = f  BY <1>10, <2>0, <2>1 DEF Apart
  <2>2. CASE k = f  BY <1>10, <2>0, <2>2 DEF Apart
  <2>3. CASE h # f /\ k # f  BY <1>5, <1>7, <2>3, ApartKept DEF Claims
  <2> QED  BY <2>1, <2>2, <2>3
<1>12. \A k \in Flusher : Claim(k)'
  <2> SUFFICES ASSUME NEW k \in Flusher, k # f PROVE Claim(k)'  BY <1>9
  <2> QED  BY <1>5, <1>6, <1>7, ClaimKept DEF Claims
<1> QED  BY <1>6, <1>11, <1>12 DEF Claims

\* What leaves the buffer is being sent.
LEMMA TakePendingOrderly ==
  ASSUME Base, NEW f \in Flusher, TakePending(f) PROVE Orderly
<1>0. TypeOK /\ f[1] \in Cmd  BY FlushRecord DEF Base
<1>1. /\ UNCHANGED <<files, ctr, released, spilling, received, counted, died, uncounted>>
      /\ flush[f].pc = "take"
      /\ pending' = [pending EXCEPT ![f[1]] = Rest(pending[f[1]], BatchSize)]
  BY DEF TakePending, fateVars, putVars, At
<1>2. NowIn(f, "sendPending", {}, NoName, First(pending[f[1]], BatchSize), 0)
  BY <1>0, TakePendingSets
<1>3. \A g \in Flusher : Moves(g)  BY <1>2, LetsGo DEF Holders
<1>4. ASSUME NEW c \in Cmd PROVE Events(pending[c]) \cup Events(spilling[c]) \subseteq Known'
  <2>1. pending \in [Cmd -> Seq(Event)] /\ BatchSize \in Nat  BY Kept, DeliveryAssumption
  <2>2. CASE c = f[1]
    <3>0. pending[c] \in Seq(Event)  BY <2>1
    <3>1. PICK x, y : /\ x = First(pending[c], BatchSize) /\ y = Rest(pending[c], BatchSize)
                      /\ Events(pending[c]) = Events(x) \cup Events(y)
      <4>1. Events(pending[c]) = Events(First(pending[c], BatchSize))
                                 \cup Events(Rest(pending[c], BatchSize))
        BY <2>1, <3>0, Divided
      <4> QED  BY <4>1
    <3>2. pending'[c] = y  BY <1>1, <2>1, <2>2, <3>1
    <3>3. flush'[f].pc \in Active /\ flush'[f].batch = x
      BY <1>2, <2>2, <3>1 DEF NowIn, Active
    <3> QED  BY <1>1, <3>1, <3>2, <3>3, PlacesNext
  <2>3. CASE c # f[1]
    <3>1. pending'[c] = pending[c]  BY <1>1, <2>1, <2>3
    <3> QED  BY <1>1, <3>1, PlacesNext
  <2> QED  BY <2>2, <2>3
<1>5. Accounted
  <2>1. received' \subseteq Known /\ flush[f].pc \notin Active  BY <1>1 DEF Known, Active
  <2> QED  BY <1>1, <1>2, <1>4, <2>1, SpoolAlone, OthersSend, Conserved, NoneLost
<1> QED  BY <1>1, <1>3, <1>5, SpoolAlone DEF Orderly

LEMMA SendPendingOrderly ==
  ASSUME Base, NEW f \in Flusher, SendPending(f) PROVE Orderly
<1>0. TypeOK  BY DEF Base
<1>1. /\ UNCHANGED <<files, ctr, released, pending, spilling, counted, died, uncounted>>
      /\ flush[f].pc = "sendPending" /\ received' = received \cup Events(flush[f].batch)
  BY DEF SendPending, keepAllButFlush, putVars, At
<1>2. NowIn(f, "take", {}, NoName, <<>>, 0)  BY <1>0, SendPendingSets
<1>3. \A g \in Flusher : Moves(g)  BY <1>2, LetsGo DEF Holders
<1>4. Accounted
  <2>1. Events(flush[f].batch) \subseteq Known  BY <1>1, Places DEF Active
  <2>2. received' \subseteq Known  BY <1>1, <2>1 DEF Known
  <2>3. Events(flush[f].batch) \subseteq Known'  BY <1>1, PlacesNext
  <2> QED  BY <1>1, <1>2, <2>2, <2>3, SpoolAlone, BuffersAlone, OthersSend, Conserved, NoneLost
<1> QED  BY <1>1, <1>3, <1>4, SpoolAlone DEF Orderly

LEMMA SendPendingFailsOrderly ==
  ASSUME Base, NEW f \in Flusher, SendPendingFails(f) PROVE Orderly
<1>0. TypeOK /\ f[1] \in Cmd /\ flush[f].batch \in Seq(Event)  BY FlushRecord DEF Base
<1>1. /\ UNCHANGED <<files, ctr, released, spilling, received, died, uncounted>>
      /\ flush[f].pc = "sendPending"
  BY DEF SendPendingFails, putVars, At
<1>2. received' \subseteq Known  BY <1>1 DEF Known
<1>3. CASE Goto(f, "put") /\ UNCHANGED <<pending, counted>>
  <2>1. NowIn(f, "put", flush[f].list, flush[f].name, flush[f].batch, flush[f].left)
    BY <1>0, <1>3, GotoSets DEF FlushPcs
  <2>2. \A g \in Flusher : Moves(g)  BY <2>1, LetsGo DEF Holders
  <2>3. Events(flush[f].batch) \subseteq Known'
    <3>1. flush'[f].pc \in Active /\ flush'[f].batch = flush[f].batch
      BY <2>1 DEF NowIn, Active
    <3> QED  BY <3>1, PlacesNext
  <2>4. Accounted
    BY <1>1, <1>2, <1>3, <2>1, <2>3, SpoolAlone, BuffersAlone, OthersSend, Conserved, NoneLost
  <2> QED  BY <1>1, <2>2, <2>4, SpoolAlone DEF Orderly
<1>4. CASE /\ pending' = [pending EXCEPT ![f[1]] = PutBack(flush[f].batch, pending[f[1]]).kept]
           /\ counted' = counted \cup Events(PutBack(flush[f].batch, pending[f[1]]).gone)
           /\ FlushOver(f)
  <2>1. NowIn(f, "idle", {}, NoName, <<>>, 0)  BY <1>0, <1>4, FlushOverSets
  <2>2. \A g \in Flusher : Moves(g)  BY <2>1, LetsGo DEF Holders
  <2>3. PICK k, x :
          /\ k = PutBack(flush[f].batch, pending[f[1]]).kept
          /\ x = PutBack(flush[f].batch, pending[f[1]]).gone
          /\ Events(flush[f].batch) \cup Events(pending[f[1]]) = Events(k) \cup Events(x)
    BY <1>0, Kept, PutBackDivides
  <2>4. pending \in [Cmd -> Seq(Event)]  BY Kept
  <2>5. pending'[f[1]] = k /\ counted' = counted \cup Events(x)
    BY <1>0, <1>4, <2>3, <2>4
  <2>6. Events(flush[f].batch) \subseteq Known' /\ Events(pending[f[1]]) \subseteq Known'
    BY <1>0, <2>3, <2>5, PlacesNext
  <2>7. ASSUME NEW c \in Cmd
        PROVE  Events(pending[c]) \cup Events(spilling[c]) \subseteq Known'
    <3>1. c # f[1] => pending'[c] = pending[c]  BY <1>0, <1>4, <2>4
    <3> QED  BY <1>1, <2>6, <3>1, PlacesNext
  <2>8. counted \subseteq counted'  BY <2>5
  <2>9. Accounted
    BY <1>1, <1>2, <2>1, <2>6, <2>7, <2>8, SpoolAlone, OthersSend, Conserved, NoneLost
  <2> QED  BY <1>1, <2>2, <2>9, SpoolAlone DEF Orderly
<1> QED  BY <1>3, <1>4 DEF SendPendingFails

\* A batch that is spilled is in the spool or counted.
LEMMA PutOrderly ==
  ASSUME Base, NEW batch, PutDone(batch), UNCHANGED released
  PROVE  /\ Steady /\ \A f \in Flusher : Stays(f)
         /\ \A g \in files : (\E h \in files' : h.batch = g.batch)
                             \/ Events(g.batch) \subseteq Known'
         /\ Events(batch) \subseteq Known' /\ counted \subseteq counted'
<1>1. Steady  BY DEF PutDone, Steady
<1>2. \A f \in Flusher : Stays(f)  BY DEF PutDone, Stays
<1>3. ASSUME NEW g \in files
      PROVE (\E h \in files' : h.batch = g.batch) \/ Events(g.batch) \subseteq Known'
  BY PlacesNext DEF PutDone
<1>4. Events(batch) \subseteq Known'  BY PlacesNext DEF PutDone
<1> QED  BY <1>1, <1>2, <1>3, <1>4 DEF PutDone

LEMMA FlushSpillsOrderly ==
  ASSUME Base, NEW f \in Flusher, FlushSpills(f) PROVE Orderly
<1>0. TypeOK  BY DEF Base
<1>1. UNCHANGED <<released, pending, spilling, received, died, uncounted>> /\ FlushOver(f)
  BY DEF FlushSpills, keepAllButFlush
<1>2. PutDone(flush[f].batch)  BY FlushSpillsBase
<1>3. NowIn(f, "idle", {}, NoName, <<>>, 0)  BY <1>0, <1>1, FlushOverSets
<1>4. \A g \in Flusher : Moves(g)  BY <1>3, LetsGo DEF Holders
<1>5. /\ Steady /\ \A g \in Flusher : Stays(g)
      /\ \A g \in files : (\E h \in files' : h.batch = g.batch)
                          \/ Events(g.batch) \subseteq Known'
      /\ Events(flush[f].batch) \subseteq Known' /\ counted \subseteq counted'
  BY <1>1, <1>2, PutOrderly
<1>6. Accounted
  <2>1. received' \subseteq Known  BY <1>1 DEF Known
  <2> QED  BY <1>1, <1>3, <1>5, <2>1, BuffersAlone, OthersSend, Conserved, NoneLost
<1> QED  BY <1>4, <1>5, <1>6 DEF Orderly

LEMMA FlushStepClaims ==
  ASSUME Base, Base', Claims, NEW f \in Flusher, Flush(f) PROVE Accounted /\ Claims'
<1>1. CASE TakeClaims(f)  BY <1>1, TakeClaimsClaims
<1>2. CASE Orderly  BY <1>2, ClaimsKept DEF Orderly
<1>3. Orderly \/ TakeClaims(f)
  BY MoveOrderly, TakeCannotReadOrderly, SendSpooledOrderly, RemoveOrderly, UnackOrderly,
     TakePendingOrderly, SendPendingOrderly, SendPendingFailsOrderly, FlushSpillsOrderly
     DEF Flush, Take, Drain
<1> QED  BY <1>1, <1>2, <1>3

LEMMA FlushAlone ==
  ASSUME UNCHANGED flush
  PROVE  /\ \A f \in Flusher : Moves(f)
         /\ \A f \in Flusher : flush[f].pc \in Active => Events(flush[f].batch) \subseteq Known'
<1>1. \A f \in Flusher : Moves(f)  BY DEF Moves, Holding
<1> QED  BY <1>1, PlacesNext

LEMMA StutterOrderly ==
  ASSUME Base,
         UNCHANGED <<files, ctr, released, pending, spilling, flush, received, counted, died,
                     uncounted>>
  PROVE  Orderly
<1>1. Accounted
  <2>1. received' \subseteq Known  BY DEF Known
  <2> QED  BY <2>1, SpoolAlone, BuffersAlone, FlushAlone, Conserved, NoneLost
<1> QED  BY <1>1, SpoolAlone, FlushAlone DEF Orderly

LEMMA BeginOrderly ==
  ASSUME Base, NEW f \in Flusher, Begin(f), At(f, "idle"),
         UNCHANGED <<files, ctr, released, pending, spilling, received, counted, died, uncounted>>
  PROVE  Orderly
<1> DEFINE p == IF overflow[f[1]] THEN "list" ELSE "take"
<1>1. NowIn(f, p, {}, NoName, <<>>, MaxBatches)  BY BeginSets DEF Base
<1>2. p \notin Holders  BY DEF Holders
<1>3. flush[f].pc \notin Active  BY DEF At, Active
<1> HIDE DEF p
<1> QED  BY <1>1, <1>2, <1>3, QuietOrderly

\* A new spool releases the claims it puts back.
LEMMA AttachOrderly == ASSUME Base, NEW c \in Cmd, Attach(c) PROVE Orderly
<1>1. UNCHANGED <<pending, spilling, flush, received, counted, died, uncounted>>
  BY DEF Attach, fateVars
<1>2. /\ UNCHANGED files \/ Marked
      /\ \A d \in Cmd : ctr[d] <= ctr'[d]
      /\ released \subseteq released'
      /\ UNCHANGED files \/ \A g \in files : g.claimed /\ g.name \in Held => g.name \in released'
  BY AttachBase DEF AttachDone
<1>3. Steady /\ \A g \in files : \E h \in files' : h.batch = g.batch
  <2>1. CASE Marked  BY <1>2, <2>1, SpoolRemarked
  <2>2. CASE UNCHANGED files
    <3>1. Inherits  BY <2>2 DEF Inherits, Same
    <3> QED  BY <1>2, <2>2, <3>1 DEF Steady
  <2> QED  BY <1>2, <2>1, <2>2
<1>4. ASSUME NEW f \in Flusher PROVE Stays(f)
  <2>1. CASE UNCHANGED files  BY <2>1 DEF Stays
  <2>2. CASE \A g \in files : g.claimed /\ g.name \in Held => g.name \in released'
    <3>1. Holding(f) => flush[f].name \in Held  BY DEF Holding, Holders, Held
    <3> QED  BY <2>2, <3>1 DEF Stays
  <2> QED  BY <1>2, <2>1, <2>2
<1>5. Accounted
  <2>1. received' \subseteq Known  BY <1>1 DEF Known
  <2> QED  BY <1>1, <1>3, <2>1, BuffersAlone, FlushAlone, Conserved, NoneLost
<1> QED  BY <1>1, <1>3, <1>4, <1>5, FlushAlone DEF Orderly

\* What a full buffer gives up is being spilled or is counted.
LEMMA EmitOrderly == ASSUME Base, NEW c \in Cmd, Emit(c) PROVE Orderly
<1>0. TypeOK /\ pending \in [Cmd -> Seq(Event)] /\ spilling \in [Cmd -> Seq(Event)]
  BY DEF Base, TypeOK
<1>1. UNCHANGED <<files, ctr, released, flush, received, died, uncounted>> /\ spilling[c] = <<>>
  BY DEF Emit, DeliverReturned, putVars
<1>2. PICK s \in Seq(Event) : s = pending[c]  BY <1>0
<1>3. PICK e \in Event : e = [num |-> seqno[c] + 1, by |-> c]
  <2>1. seqno[c] + 1 \in Nat  BY <1>0 DEF TypeOK
  <2>2. [num |-> seqno[c] + 1, by |-> c] \in Event  BY <2>1 DEF Event
  <2> QED  BY <2>2
<1>4. \/ /\ UNCHANGED <<spilling, counted>>
         /\ pending' = [pending EXCEPT ![c] = Append(s, e)]
      \/ /\ UNCHANGED counted
         /\ spilling' = [spilling EXCEPT ![c] = First(s, BatchSize)]
         /\ pending' = [pending EXCEPT ![c] = Append(Rest(s, BatchSize), e)]
      \/ /\ UNCHANGED spilling /\ Len(s) >= Capacity
         /\ pending' = [pending EXCEPT ![c] = Append(Tail(s), e)]
         /\ counted' = counted \cup {Head(s)}
  BY <1>2, <1>3 DEF Emit
<1>5. Events(s) \subseteq Known' /\ counted \subseteq counted'
      /\ \A d \in Cmd : d # c => pending'[d] = pending[d] /\ spilling'[d] = spilling[d]
  <2>1. CASE /\ UNCHANGED <<spilling, counted>>
             /\ pending' = [pending EXCEPT ![c] = Append(s, e)]
    <3>1. Events(s) \subseteq Events(pending'[c])  BY <1>0, <2>1, EventsAppend
    <3> QED  BY <1>0, <2>1, <3>1, PlacesNext
  <2>2. CASE /\ UNCHANGED counted
             /\ spilling' = [spilling EXCEPT ![c] = First(s, BatchSize)]
             /\ pending' = [pending EXCEPT ![c] = Append(Rest(s, BatchSize), e)]
    <3>1. PICK x \in Seq(Event), y \in Seq(Event) :
            /\ x = First(s, BatchSize) /\ y = Rest(s, BatchSize)
            /\ Events(s) = Events(x) \cup Events(y)
      <4>1. /\ First(s, BatchSize) \in Seq(Event) /\ Rest(s, BatchSize) \in Seq(Event)
            /\ Events(s) = Events(First(s, BatchSize)) \cup Events(Rest(s, BatchSize))
        BY Divided, DeliveryAssumption
      <4> QED  BY <4>1
    <3>2. spilling'[c] = x /\ pending'[c] = Append(y, e)  BY <1>0, <2>2, <3>1
    <3>3. Events(y) \subseteq Events(pending'[c])  BY <3>2, EventsAppend
    <3> QED  BY <1>0, <2>2, <3>1, <3>2, <3>3, PlacesNext
  <2>3. CASE /\ UNCHANGED spilling /\ Len(s) >= Capacity
             /\ pending' = [pending EXCEPT ![c] = Append(Tail(s), e)]
             /\ counted' = counted \cup {Head(s)}
    <3>1. s # <<>>  BY <2>3, EmptySeq, DeliveryAssumption
    <3>2. PICK y \in Seq(Event) : y = Tail(s) /\ Events(s) = {Head(s)} \cup Events(y)
      BY <3>1, EventsHeadTail
    <3>3. pending'[c] = Append(y, e)  BY <1>0, <2>3, <3>2
    <3>4. Events(y) \subseteq Events(pending'[c])  BY <3>3, EventsAppend
    <3> QED  BY <1>0, <2>3, <3>2, <3>4, PlacesNext
  <2> QED  BY <1>4, <2>1, <2>2, <2>3
<1>6. ASSUME NEW d \in Cmd PROVE Events(pending[d]) \cup Events(spilling[d]) \subseteq Known'
  <2>1. CASE d = c  BY <1>1, <1>2, <1>5, <2>1, EventsEmpty
  <2>2. CASE d # c  BY <1>5, <2>2, PlacesNext
  <2> QED  BY <2>1, <2>2
<1>7. Accounted
  <2>1. received' \subseteq Known  BY <1>1 DEF Known
  <2> QED  BY <1>1, <1>5, <1>6, <2>1, SpoolAlone, FlushAlone, Conserved, NoneLost
<1> QED  BY <1>1, <1>7, SpoolAlone, FlushAlone DEF Orderly

LEMMA SpillOrderly == ASSUME Base, NEW c \in Cmd, Spill(c) PROVE Orderly
<1>0. spilling \in [Cmd -> Seq(Event)]  BY DEF Base, TypeOK
<1>1. /\ UNCHANGED <<released, pending, flush, received, died, uncounted>>
      /\ spilling' = [spilling EXCEPT ![c] = <<>>]
  BY DEF Spill
<1>2. /\ Steady /\ \A g \in Flusher : Stays(g)
      /\ \A g \in files : (\E h \in files' : h.batch = g.batch)
                          \/ Events(g.batch) \subseteq Known'
      /\ Events(spilling[c]) \subseteq Known' /\ counted \subseteq counted'
  BY <1>1, SpillBase, PutOrderly
<1>3. ASSUME NEW d \in Cmd PROVE Events(pending[d]) \cup Events(spilling[d]) \subseteq Known'
  <2>1. d # c => spilling'[d] = spilling[d]  BY <1>0, <1>1
  <2> QED  BY <1>1, <1>2, <2>1, PlacesNext
<1>4. Accounted
  <2>1. received' \subseteq Known  BY <1>1 DEF Known
  <2> QED  BY <1>1, <1>2, <1>3, <2>1, FlushAlone, Conserved, NoneLost
<1> QED  BY <1>1, <1>2, <1>4, FlushAlone DEF Orderly

LEMMA CloseOrderly ==
  ASSUME Base, NEW c \in Cmd, CloseBegins(c) \/ Close(c) PROVE Orderly
<1>1. CASE CloseBegins(c) \/ Settle(c)
  BY <1>1, StutterOrderly DEF CloseBegins, Settle, fateVars, putVars
<1>2. CASE LastFlush(c)
  <2>1. PICK f \in Flusher : f = <<c, Closer>>
    <3>1. <<c, Closer>> \in Flusher  BY DeliveryAssumption DEF Flusher
    <3> QED  BY <3>1
  <2>2. Begin(f) /\ At(f, "idle")  BY <1>2, <2>1, DeliveryAssumption DEF LastFlush, FlushReturned
  <2>3. UNCHANGED <<files, ctr, released, pending, spilling, received, counted, died, uncounted>>
    BY <1>2 DEF LastFlush, fateVars, putVars
  <2> QED  BY <2>2, <2>3, BeginOrderly
<1>3. CASE CloseSpills(c)
  <2>0. pending \in [Cmd -> Seq(Event)]  BY Kept
  <2>1. /\ UNCHANGED <<released, spilling, flush, received, died, uncounted>>
        /\ pending' = [pending EXCEPT ![c] = <<>>]
    BY <1>3 DEF CloseSpills
  <2>2. /\ Steady /\ \A g \in Flusher : Stays(g)
        /\ \A g \in files : (\E h \in files' : h.batch = g.batch)
                            \/ Events(g.batch) \subseteq Known'
        /\ Events(pending[c]) \subseteq Known' /\ counted \subseteq counted'
    <3>1. CASE UNCHANGED <<files, putVars>> /\ counted' = counted \cup Events(pending[c])
      <4>1. Events(pending[c]) \subseteq Known'  BY <3>1, PlacesNext
      <4> QED  BY <2>1, <3>1, <4>1, SpoolAlone DEF putVars
    <3>2. CASE PutDone(pending[c])  BY <2>1, <3>2, PutOrderly
    <3> QED  BY <1>3, <3>1, <3>2, CloseSpillsBase
  <2>3. ASSUME NEW d \in Cmd
        PROVE  Events(pending[d]) \cup Events(spilling[d]) \subseteq Known'
    <3>1. d # c => pending'[d] = pending[d]  BY <2>0, <2>1
    <3> QED  BY <2>1, <2>2, <3>1, PlacesNext
  <2>4. Accounted
    <3>1. received' \subseteq Known  BY <2>1 DEF Known
    <3> QED  BY <2>1, <2>2, <2>3, <3>1, FlushAlone, Conserved, NoneLost
  <2> QED  BY <2>1, <2>2, <2>4, FlushAlone DEF Orderly
<1> QED  BY <1>1, <1>2, <1>3 DEF Close

\* What a killed process held in memory alone is lost with it; what it had
\* claimed stays claimed.
LEMMA KillOrderly == ASSUME Base, NEW c \in Cmd, Kill(c) PROVE Orderly
<1>0. pending \in [Cmd -> Seq(Event)] /\ spilling \in [Cmd -> Seq(Event)]
  BY DEF Base, TypeOK
<1>1. /\ UNCHANGED <<ctr, received, counted, released, uncounted>>
      /\ died' = died \cup (InMemory(c) \ received)
      /\ pending' = [pending EXCEPT ![c] = <<>>]
      /\ spilling' = [spilling EXCEPT ![c] = <<>>]
      /\ flush' = [f \in Flusher |-> IF f[1] = c THEN NoFlush ELSE flush[f]]
  BY DEF Kill
<1>2. Marked /\ \A g \in files : \E h \in files' : Same(g, h) /\ h.claimed = g.claimed
  BY KillMarks
<1>3. Steady /\ \A g \in files : \E h \in files' : h.batch = g.batch
  <2>1. \A d \in Cmd : ctr[d] <= ctr'[d]  BY <1>1 DEF Base, TypeOK
  <2> QED  BY <1>1, <1>2, <2>1, SpoolRemarked
<1>4. \A f \in Flusher : Stays(f)  BY <1>2 DEF Stays, Same
<1>5. ASSUME NEW f \in Flusher PROVE Moves(f)
  <2>1. NoFlush.pc = "idle"  BY DEF NoFlush
  <2>2. flush'[f] = flush[f] \/ flush'[f].pc = "idle"  BY <1>1, <2>1
  <2>3. CASE flush'[f] = flush[f]  BY <2>3 DEF Moves, Holding
  <2>4. CASE flush'[f].pc = "idle"  BY <2>4 DEF Moves, Holding, Holders
  <2> QED  BY <2>2, <2>3, <2>4
<1>6. InMemory(c) \subseteq Known'
  <2>1. InMemory(c) \subseteq died' \cup received'  BY <1>1
  <2> QED  BY <2>1, PlacesNext
<1>7. ASSUME NEW d \in Cmd PROVE Events(pending[d]) \cup Events(spilling[d]) \subseteq Known'
  <2>1. CASE d = c  BY <1>6, <2>1 DEF InMemory
  <2>2. CASE d # c
    <3>1. pending'[d] = pending[d] /\ spilling'[d] = spilling[d]  BY <1>0, <1>1, <2>2
    <3> QED  BY <3>1, PlacesNext
  <2> QED  BY <2>1, <2>2
<1>8. ASSUME NEW f \in Flusher, flush[f].pc \in Active
      PROVE  Events(flush[f].batch) \subseteq Known'
  <2>1. PICK d \in Cmd, t \in Thread : f = <<d, t>>  BY DEF Flusher
  <2>2. CASE d = c
    <3>1. Events(flush[<<c, t>>].batch) \subseteq InMemory(c)
      BY <1>8, <2>1, <2>2 DEF InMemory, Active
    <3> QED  BY <1>6, <2>1, <2>2, <3>1
  <2>3. CASE d # c
    <3>1. flush'[f] = flush[f]  BY <1>1, <2>1, <2>3
    <3> QED  BY <1>8, <3>1, PlacesNext
  <2> QED  BY <2>2, <2>3
<1>9. Accounted
  <2>1. received' \subseteq Known  BY <1>1 DEF Known
  <2> QED  BY <1>1, <1>3, <1>7, <1>8, <2>1, Conserved, NoneLost
<1> QED  BY <1>3, <1>4, <1>5, <1>9 DEF Orderly

\* The budget removes a batch nobody has claimed.
LEMMA EnforceBudgetOrderly ==
  ASSUME Base, NEW g \in Goroutine, EnforceBudget(g) PROVE Orderly
<1>1. (Visits \/ Evicts) /\ UNCHANGED keepAllButTrim  BY EnforceBudgetSteps
<1>2. UNCHANGED <<ctr, released, pending, spilling, flush, received, died>>
  BY <1>1 DEF keepAllButTrim
<1>3. CASE Visits
  <2>1. UNCHANGED <<files, counted, uncounted>>  BY <1>3 DEF Visits
  <2> QED  BY <1>2, <2>1, StutterOrderly
<1>4. CASE Evicts
  <2>1. PICK b \in files :
          /\ ~b.claimed /\ files' = files \ {b}
          /\ Events(b.batch) \subseteq received \cup counted' \cup died \cup uncounted'
    BY <1>4 DEF Evicts, Unclaimed
  <2>2. counted \subseteq counted' /\ Loses  BY <1>4 DEF Evicts
  <2>3. \A d \in Cmd : ctr[d] <= ctr'[d]  BY <1>2 DEF Base, TypeOK
  <2>4. Steady  BY <1>2, <2>1, <2>3 DEF Steady, Inherits, Same
  <2>5. \A f \in Flusher : Stays(f)  BY <2>1 DEF Stays
  <2>6. ASSUME NEW h \in files
        PROVE  (\E k \in files' : k.batch = h.batch) \/ Events(h.batch) \subseteq Known'
    <3>1. CASE h = b  BY <1>2, <2>1, <3>1, PlacesNext
    <3>2. CASE h # b  BY <2>1, <3>2
    <3> QED  BY <3>1, <3>2
  <2>7. Accounted
    <3>1. received' \subseteq Known  BY <1>2 DEF Known
    <3> QED  BY <1>2, <2>2, <2>6, <3>1, BuffersAlone, FlushAlone, Conserved
  <2> QED  BY <1>2, <2>4, <2>5, <2>7, FlushAlone DEF Orderly
<1> QED  BY <1>1, <1>3, <1>4

LEMMA StepClaims == ASSUME Base, Base', Claims, [Next]_vars PROVE Accounted /\ Claims'
<1>1. CASE \E f \in Flusher : Flush(f)  BY <1>1, FlushStepClaims
<1>2. CASE Orderly  BY <1>2, ClaimsKept DEF Orderly
<1>3. CASE \E c \in Cmd : Attach(c) \/ Emit(c) \/ Spill(c) \/ CloseBegins(c) \/ Close(c)
                          \/ Kill(c)
  BY <1>2, <1>3, AttachOrderly, EmitOrderly, SpillOrderly, CloseOrderly, KillOrderly
<1>4. CASE \E f \in Flusher : FlushBegins(f)
  <2>1. PICK f \in Flusher : FlushBegins(f)  BY <1>4
  <2>2. /\ Begin(f) /\ At(f, "idle")
        /\ UNCHANGED <<files, ctr, released, pending, spilling, received, counted, died,
                     uncounted>>
    BY <2>1 DEF FlushBegins, FlushReturned, keepAllButFlush, fateVars, putVars
  <2> QED  BY <1>2, <2>2, BeginOrderly
<1>5. CASE UNCHANGED vars  BY <1>2, <1>5, StutterOrderly DEF vars
<1>6. CASE \E g \in Goroutine : EnforceBudget(g)  BY <1>2, <1>6, EnforceBudgetOrderly
<1> QED  BY <1>1, <1>3, <1>4, <1>5, <1>6 DEF Next

-----------------------------------------------------------------------------
(* Numbers *)

\* A running command numbers within the block it has reserved, above every
\* number of the commands that are over.
OwnBlock(c) ==
  /\ base[c] <= seqno[c] /\ seqno[c] <= base[c] + MaxEmit[c]
  /\ base[c] + BlockSize <= meta
  /\ \A d \in Cmd : Over(d) => seqno[d] <= base[c]

Alone == \A c, d \in Cmd : Running(c) /\ Running(d) => c = d
Stored == \A c \in Cmd : Over(c) => seqno[c] <= meta
InBlocks == \A c \in Cmd : Running(c) => OwnBlock(c)

Numbers ==
  ~overlapped /\ ~fellBack => behind = {} /\ Alone /\ Stored /\ InBlocks

LEMMA NumbersKept ==
  ASSUME Numbers, UNCHANGED <<meta, base, behind, overlapped, fellBack, seqno>>,
         \A c \in Cmd : (Running(c)' <=> Running(c)) /\ (Over(c)' <=> Over(c))
  PROVE  Numbers'
<1> SUFFICES ASSUME ~overlapped /\ ~fellBack
             PROVE  behind' = {} /\ Alone' /\ Stored' /\ InBlocks'
  BY DEF Numbers
<1>1. behind = {} /\ Alone /\ Stored /\ InBlocks  BY DEF Numbers
<1>2. Alone' /\ Stored'  BY <1>1 DEF Alone, Stored
<1>3. InBlocks'  BY <1>1 DEF InBlocks, OwnBlock
<1> QED  BY <1>1, <1>2, <1>3

LEMMA SamePhase ==
  ASSUME UNCHANGED phase
  PROVE  \A c \in Cmd : (Running(c)' <=> Running(c)) /\ (Over(c)' <=> Over(c))
BY DEF Running, Over

LEMMA AttachNumbers ==
  ASSUME Base, Base', Numbers, NEW c \in Cmd, Attach(c) PROVE Numbers'
<1> SUFFICES ASSUME ~overlapped', ~fellBack'
             PROVE  behind' = {} /\ Alone' /\ Stored' /\ InBlocks'
  BY DEF Numbers
<1>1. Reserve(c) /\ phase[c] = "new"  BY DEF Attach, ReserveFailed, MayStart
<1>2. /\ phase' = [phase EXCEPT ![c] = "open"]
      /\ base' = [base EXCEPT ![c] = meta] /\ seqno' = [seqno EXCEPT ![c] = meta]
      /\ behind' = IF \E d \in Cmd : Over(d) /\ \E n \in Issued(d) : meta < n
                   THEN behind \cup {c} ELSE behind
      /\ overlapped' = (overlapped \/ \E d \in Cmd : Running(d))
      /\ meta' = meta + BlockSize /\ fellBack' = fellBack
  BY <1>1 DEF Reserve, Resume
<1>3. behind = {} /\ Alone /\ Stored /\ InBlocks /\ \A d \in Cmd : ~Running(d)
  BY <1>2 DEF Numbers
<1>4. /\ meta \in Nat /\ BlockSize \in Nat /\ MaxEmit[c] \in Nat
      /\ \A d \in Cmd : seqno[d] \in Nat /\ base[d] \in Nat
      /\ phase \in [Cmd -> {"new", "open", "closing", "last", "settling", "ended", "killed"}]
      /\ seqno \in [Cmd -> Nat] /\ base \in [Cmd -> Nat]
  BY DeliveryAssumption DEF Base, TypeOK
<1>5. behind' = {}
  <2>1. ASSUME NEW d \in Cmd, Over(d), NEW n \in Issued(d) PROVE ~(meta < n)
    <3>1. seqno[d] <= meta  BY <1>3, <2>1 DEF Stored
    <3>2. n <= seqno[d] /\ n \in Int  BY <1>4 DEF Issued
    <3> QED  BY <1>4, <3>1, <3>2
  <2> QED  BY <1>2, <1>3, <2>1
<1>6. /\ phase'[c] = "open" /\ base'[c] = meta /\ seqno'[c] = meta
      /\ \A d \in Cmd : d # c => phase'[d] = phase[d] /\ seqno'[d] = seqno[d]
  BY <1>2, <1>4
<1>7. /\ \A d \in Cmd : Running(d)' => d = c
      /\ \A d \in Cmd : Over(d)' => d # c /\ Over(d)
  BY <1>3, <1>6 DEF Running, Over
<1>8. Alone'  BY <1>7 DEF Alone
<1>9. \A d \in Cmd : Over(d)' => seqno'[d] <= meta
  BY <1>3, <1>6, <1>7 DEF Stored
<1>10. Stored'
  <2> SUFFICES ASSUME NEW d \in Cmd, Over(d)' PROVE seqno'[d] <= meta'  BY DEF Stored
  <2>1. seqno'[d] \in Nat /\ seqno'[d] <= meta  BY <1>4, <1>6, <1>7, <1>9
  <2> QED  BY <1>2, <1>4, <2>1
<1>11. OwnBlock(c)'
  <2>1. meta <= meta /\ meta <= meta + MaxEmit[c] /\ meta + BlockSize <= meta'
    BY <1>2, <1>4
  <2> QED  BY <1>6, <1>9, <2>1 DEF OwnBlock
<1>12. InBlocks'  BY <1>7, <1>11 DEF InBlocks
<1> QED  BY <1>5, <1>8, <1>10, <1>12

LEMMA EmitNumbers == ASSUME Base, Numbers, NEW c \in Cmd, Emit(c) PROVE Numbers'
<1> SUFFICES ASSUME ~overlapped', ~fellBack'
             PROVE  behind' = {} /\ Alone' /\ Stored' /\ InBlocks'
  BY DEF Numbers
<1>1. /\ UNCHANGED <<phase, meta, base, behind, overlapped, fellBack>>
      /\ phase[c] = "open" /\ seqno[c] < base[c] + MaxEmit[c]
      /\ seqno' = [seqno EXCEPT ![c] = seqno[c] + 1]
  BY DEF Emit, seqVars
<1>2. behind = {} /\ Alone /\ Stored /\ InBlocks  BY <1>1 DEF Numbers
<1>3. seqno \in [Cmd -> Nat] /\ base \in [Cmd -> Nat] /\ MaxEmit[c] \in Nat
  BY DeliveryAssumption DEF Base, TypeOK
<1>4. seqno'[c] = seqno[c] + 1 /\ \A d \in Cmd : d # c => seqno'[d] = seqno[d]
  BY <1>1, <1>3
<1>5. Running(c) /\ ~Over(c)  BY <1>1 DEF Running, Over
<1>6. \A d \in Cmd : (Running(d)' <=> Running(d)) /\ (Over(d)' <=> Over(d))
  BY <1>1, SamePhase
<1>7. Alone'  BY <1>2, <1>6 DEF Alone
<1>8. \A d \in Cmd : Over(d)' => seqno'[d] = seqno[d]  BY <1>4, <1>5, <1>6
<1>9. Stored'  BY <1>1, <1>2, <1>6, <1>8 DEF Stored
<1>10. OwnBlock(c)'
  <2>1. OwnBlock(c)  BY <1>2, <1>5 DEF InBlocks
  <2>2. base'[c] <= seqno'[c] /\ seqno'[c] <= base'[c] + MaxEmit[c]
    <3>1. base[c] \in Nat /\ seqno[c] \in Nat /\ base[c] <= seqno[c]
      BY <1>3, <2>1 DEF OwnBlock
    <3> QED  BY <1>1, <1>3, <1>4, <3>1
  <2>3. base'[c] + BlockSize <= meta'  BY <1>1, <2>1 DEF OwnBlock
  <2>4. \A d \in Cmd : Over(d)' => seqno'[d] <= base'[c]
    BY <1>1, <1>6, <1>8, <2>1 DEF OwnBlock
  <2> QED  BY <2>2, <2>3, <2>4 DEF OwnBlock
<1>11. \A d \in Cmd : Running(d)' => d = c  BY <1>2, <1>5, <1>6 DEF Alone
<1>12. InBlocks'  BY <1>10, <1>11 DEF InBlocks
<1> QED  BY <1>1, <1>2, <1>7, <1>9, <1>12

\* A command that ends leaves at least its last number stored.
LEMMA EndNumbers ==
  ASSUME Base, Numbers, NEW c \in Cmd, Settle(c) \/ Kill(c) PROVE Numbers'
<1> SUFFICES ASSUME ~overlapped', ~fellBack'
             PROVE  behind' = {} /\ Alone' /\ Stored' /\ InBlocks'
  BY DEF Numbers
<1>1. /\ UNCHANGED <<base, behind, overlapped, fellBack, seqno>> /\ Running(c)
      /\ meta' = meta \/ meta' = seqno[c]
      /\ \E p \in {"ended", "killed"} : phase' = [phase EXCEPT ![c] = p]
  BY DEF Settle, Kill, seqVars, Running
<1>2. behind = {} /\ Alone /\ Stored /\ InBlocks  BY <1>1 DEF Numbers
<1>3. phase \in [Cmd -> {"new", "open", "closing", "last", "settling", "ended", "killed"}]
  BY DEF Base, TypeOK
<1>4. /\ Over(c)' /\ ~Running(c)'
      /\ \A d \in Cmd : d # c => phase'[d] = phase[d]
  BY <1>1, <1>3 DEF Over, Running
<1>5. \A d \in Cmd : ~Running(d)'
  <2> SUFFICES ASSUME NEW d \in Cmd, d # c PROVE ~Running(d)'  BY <1>4
  <2>1. ~Running(d)  BY <1>1, <1>2 DEF Alone
  <2> QED  BY <1>4, <2>1 DEF Running
<1>6. Alone' /\ InBlocks'  BY <1>5 DEF Alone, InBlocks
<1>7. PICK b \in Nat, s \in Nat, m \in Nat, k \in Nat :
        b = base[c] /\ s = seqno[c] /\ m = MaxEmit[c] /\ k = meta /\ m <= BlockSize
  <2>1. base[c] \in Nat /\ seqno[c] \in Nat /\ meta \in Nat  BY DEF Base, TypeOK
  <2>2. MaxEmit[c] \in Nat /\ MaxEmit[c] <= BlockSize  BY DeliveryAssumption
  <2> QED  BY <2>1, <2>2
<1>8. b <= s /\ s <= k /\ \A d \in Cmd : Over(d) => seqno[d] <= b
  <2>1. OwnBlock(c)  BY <1>1, <1>2 DEF InBlocks
  <2>2. b <= s /\ s <= b + m /\ b + BlockSize <= k  BY <1>7, <2>1 DEF OwnBlock
  <2>3. s <= k  BY <1>7, <2>2, DeliveryAssumption
  <2> QED  BY <1>7, <2>1, <2>2, <2>3 DEF OwnBlock
<1>9. Stored'
  <2> SUFFICES ASSUME NEW d \in Cmd, Over(d)' PROVE seqno[d] <= meta'
    BY <1>1 DEF Stored
  <2>1. seqno[d] \in Nat  BY DEF Base, TypeOK
  <2>2. CASE d = c
    <3>1. seqno[d] = s /\ (meta' = k \/ meta' = s)  BY <1>1, <1>7, <2>2
    <3> QED  BY <1>8, <3>1
  <2>3. CASE d # c
    <3>1. Over(d)  BY <1>4, <2>3 DEF Over
    <3>2. seqno[d] <= b /\ seqno[d] <= k  BY <1>2, <1>7, <1>8, <3>1 DEF Stored
    <3>3. meta' = k \/ meta' = s  BY <1>1, <1>7
    <3> QED  BY <1>8, <2>1, <3>2, <3>3
  <2> QED  BY <2>2, <2>3
<1> QED  BY <1>1, <1>2, <1>6, <1>9

LEMMA CloseNumbers ==
  ASSUME Base, Numbers, NEW c \in Cmd, CloseBegins(c) \/ LastFlush(c) \/ CloseSpills(c)
  PROVE  Numbers'
<1>1. /\ UNCHANGED <<meta, base, behind, overlapped, fellBack, seqno>> /\ Running(c)
      /\ \E p \in {"closing", "last", "settling"} : phase' = [phase EXCEPT ![c] = p]
  BY DEF CloseBegins, LastFlush, CloseSpills, seqVars, Running
<1>2. phase \in [Cmd -> {"new", "open", "closing", "last", "settling", "ended", "killed"}]
  BY DEF Base, TypeOK
<1>3. \A d \in Cmd : (Running(d)' <=> Running(d)) /\ (Over(d)' <=> Over(d))
  BY <1>1, <1>2 DEF Running, Over
<1> QED  BY <1>1, <1>3, NumbersKept

LEMMA StepNumbers == ASSUME Base, Base', Numbers, [Next]_vars PROVE Numbers'
<1>1. CASE \E c \in Cmd : Attach(c)  BY <1>1, AttachNumbers
<1>2. CASE \E c \in Cmd : Emit(c)  BY <1>2, EmitNumbers
<1>3. CASE \E c \in Cmd : CloseBegins(c) \/ Close(c) \/ Kill(c)
  BY <1>3, CloseNumbers, EndNumbers DEF Close
<1>4. CASE UNCHANGED <<phase, seqVars, seqno>>
  BY <1>4, SamePhase, NumbersKept DEF seqVars
<1>5. CASE \E c \in Cmd : Spill(c)
  <2>1. UNCHANGED <<phase, seqVars, seqno>>  BY <1>5 DEF Spill
  <2> QED  BY <1>4, <2>1
<1>6. CASE \E f \in Flusher : FlushBegins(f) \/ Flush(f)
  <2>1. UNCHANGED <<phase, seqVars, seqno>>
    BY <1>6 DEF FlushBegins, Flush, Take, Drain, TakeLists, TakeClaims, TakeSkips,
       TakeFindsNone, TakeReads, TakeReadsNothing, TakeCannotRead, TakeDiscards, SendSpooled,
       SendSpooledFails, Ack, Unack, TakePending, FlushReturns, SendPending,
       SendPendingFails, FlushSpills, keepAllButFlush
  <2> QED  BY <1>4, <2>1
<1>7. CASE UNCHANGED vars
  <2>1. UNCHANGED <<phase, seqVars, seqno>>  BY <1>7 DEF vars, seqVars
  <2> QED  BY <1>4, <2>1
<1>8. CASE \E g \in Goroutine : EnforceBudget(g)
  <2>1. UNCHANGED <<phase, seqVars, seqno>>
    BY <1>8, EnforceBudgetSteps DEF keepAllButTrim
  <2> QED  BY <1>4, <2>1
<1> QED  BY <1>1, <1>2, <1>3, <1>5, <1>6, <1>7, <1>8 DEF Next

-----------------------------------------------------------------------------
(* The invariant, and what follows from it *)

IInv == Base /\ Claims /\ Numbers

LEMMA InitIInv == Init => IInv
<1> SUFFICES ASSUME Init PROVE IInv  OBVIOUS
<1>1. \A f \in Flusher : ~Holding(f)
  <2>1. NoFlush.pc \notin Holders  BY DEF NoFlush, Holders
  <2> QED  BY <2>1 DEF Init, Holding
<1>2. Claims  BY <1>1 DEF Claims, Claim, Apart
<1>3. \A c \in Cmd : ~Running(c) /\ ~Over(c)  BY DEF Init, Running, Over
<1>4. Numbers  BY <1>3 DEF Init, Numbers, Alone, Stored, InBlocks
<1> QED  BY <1>2, <1>4, InitBase DEF IInv

LEMMA Invariant == Spec => []IInv
<1>1. IInv /\ [Next]_vars => IInv'  BY StepBase, StepClaims, StepNumbers DEF IInv
<1> QED  BY <1>1, InitIInv, PTL DEF Spec

\* The variables of commands, sinks and spool keep their types: no two batches
\* share a name, and no buffer outgrows its capacity.
THEOREM TypeCorrect == Spec => []TypeOK
<1>1. IInv => TypeOK  BY DEF IInv, Base
<1> QED  BY <1>1, Invariant, PTL

\* Two goroutines send one spooled batch only when a command that opened the
\* spool had put it back while the first of them held it.
THEOREM ClaimsAreExclusive == Spec => []ClaimIsExclusive
<1>1. IInv => ClaimIsExclusive
  BY DEF IInv, Claims, Apart, Holding, Holders, ClaimIsExclusive
<1> QED  BY <1>1, Invariant, PTL

\* A command continues above every number of the commands that are over, the
\* killed ones among them, while no two overlap and the counter can be read.
THEOREM NumbersRiseAlone == Spec => []NumbersRiseUnlessOverlapped
<1>1. IInv => NumbersRiseUnlessOverlapped
  <2>1. TypeOK => overlapped \in BOOLEAN /\ fellBack \in BOOLEAN  BY DEF TypeOK
  <2> QED  BY <2>1 DEF IInv, Base, Numbers, NumbersRiseUnlessOverlapped
<1> QED  BY <1>1, Invariant, PTL

\* Every step of sink and spool is a step of the outbox.
LEMMA StepRefines == IInv /\ [Next]_vars => Account!Next
<1> SUFFICES ASSUME IInv, [Next]_vars PROVE Account!Next  OBVIOUS
<1>1. Base' /\ Accounted  BY StepBase, StepClaims DEF IInv
<1>2. received \subseteq received' /\ counted \cup died \subseteq counted' \cup died'
  BY <1>1 DEF Accounted
<1>3. Somewhere \subseteq Somewhere' \cup received' \cup counted' \cup died' \cup uncounted'
  BY <1>1 DEF Accounted, Known
<1>4. received' \subseteq Somewhere \cup received \cup counted \cup died \cup uncounted
  BY <1>1 DEF Accounted, Known
<1>5. /\ uncounted \subseteq uncounted'
      /\ uncounted' \ uncounted \subseteq
           Somewhere \ (received \cup counted \cup died \cup uncounted)
  <2>1. PICK S : S = UNION {Events(g.batch) : g \in files}  OBVIOUS
  <2>2. S \subseteq Somewhere  BY <2>1 DEF Somewhere
  <2>3. /\ uncounted \subseteq uncounted'
        /\ uncounted' \ uncounted \subseteq S \ (received \cup counted \cup died)
    BY <1>1, <2>1 DEF Accounted, Loses
  <2> QED  BY <2>2, <2>3
<1> QED  BY <1>2, <1>3, <1>4, <1>5 DEF Account!Next

\* Sink and spool implement the outbox, for any number of commands, goroutines
\* and kills: an accepted event is on its way, has arrived, is counted as
\* dropped, was lost with the process that held it, or left the spool uncounted:
\* its line did not parse, its batch could not be read and another event was
\* the one counted for it, or enforceBudget could not count its batch.
THEOREM OutboxIsImplemented == Spec => ImplementsOutbox
<1>1. Init => Account!Init
  <2> SUFFICES ASSUME Init PROVE Account!Init  OBVIOUS
  <2>1. ASSUME NEW c \in Cmd PROVE InMemory(c) = {}
    <3>1. \A t \in Thread : flush[<<c, t>>].pc = "idle"
      <4>1. \A t \in Thread : <<c, t>> \in Flusher  BY DEF Flusher
      <4> QED  BY <4>1 DEF Init, NoFlush
    <3>2. Events(pending[c]) = {} /\ Events(spilling[c]) = {}
      BY EventsEmpty DEF Init
    <3> QED  BY <3>1, <3>2 DEF InMemory
  <2>2. files = {} /\ received = {} /\ counted = {} /\ died = {} /\ uncounted = {}  BY DEF Init
  <2>3. Somewhere = {}  BY <2>1, <2>2 DEF Somewhere
  <2> QED  BY <2>2, <2>3 DEF Account!Init
<1>2. IInv /\ [Next]_vars => [Account!Next]_(Account!vars)
  BY StepRefines
<1> QED  BY <1>1, <1>2, Invariant, PTL DEF Spec, ImplementsOutbox, Account!Spec

=============================================================================

----------------------------- MODULE ExecProofs -----------------------------
(***************************************************************************)
(* Proofs about Exec, for every program, every size of the queues and the  *)
(* schedulers and every latency of the multiplier.                         *)
(***************************************************************************)
EXTENDS Exec, SequenceTheorems, WellFoundedInduction, TLAPS

-----------------------------------------------------------------------------
(* The inductive invariant.                                                *)
SchedEntry(n) == [u : Pos \cup {0}, waits : SUBSET Pos, older : SUBSET (0 .. n - 1)]
Scheduler(n) == [0 .. n - 1 -> SchedEntry(n)]
Schedulers == /\ sched \in Scheduler(NS0) /\ sched2 \in Scheduler(NS1)
              /\ schedm \in Scheduler(NSM)

(* The data under way have their place in the queue of the L1D.            *)
DataHasRoom == mem_dq # 0 => Len(r_mdq) < NQ

(* A queue holds uops in program order, handed over and not more.          *)
Sorted(q, bound) ==
  /\ \A i, j \in DOMAIN q : i < j => q[i] < q[j]
  /\ \A i \in DOMAIN q : q[i] < bound
QueuesSorted == Sorted(r_uq, next) /\ Sorted(r_mem_uq, next)

(* What a scheduler holds is older than what still waits for it.           *)
Precede(s, q) == \A i \in Valid(s) : \A k \in DOMAIN q : s[i].u < q[k]
Bounded(s, bound) == \A i \in Valid(s) : s[i].u < bound
Dispatched(s, q, bound) == Precede(s, q) /\ Bounded(s, bound)
DispatchedInOrder == /\ Dispatched(sched, r_uq, next) /\ Dispatched(sched2, r_uq, next)
                     /\ Dispatched(schedm, r_mem_uq, next)

Rows(s) == \A i \in Valid(s) : s[i].older = {j \in Valid(s) : s[j].u < s[i].u}

(* Nothing is left to start when the path begins again.                    *)
Cleared == mode = "RAT" =>
  /\ r_uq = <<>> /\ r_mem_uq = <<>>
  /\ Valid(sched) = {} /\ Valid(sched2) = {} /\ Valid(schedm) = {}

IInv == /\ TypeOK /\ Schedulers /\ DataHasRoom /\ QueuesSorted /\ DispatchedInOrder
        /\ OldestFirst /\ Cleared

LEMMA Sizes ==
  /\ LEN \in Nat /\ LEN > 0 /\ NROB \in Nat /\ NROB > 0 /\ NQ \in Nat /\ NQ > 1
  /\ NS0 \in Nat /\ NS0 > 0 /\ NS1 \in Nat /\ NS1 > 0 /\ NSM \in Nat /\ NSM > 0
  /\ MUL_LAT \in Nat /\ MUL_LAT > 0
  /\ \A g \in PROGRAMS : g \in [Pos -> [k : IntOps \cup MemOps, a : 0 .. LEN, b : 0 .. LEN]]
  BY ExecAssumption

LEMMA OldestFirstRows == OldestFirst <=> Rows(sched) /\ Rows(sched2) /\ Rows(schedm)
  BY DEF OldestFirst, Rows

-----------------------------------------------------------------------------
(* Schedulers.                                                             *)

(* find_first_set finds a member of any nonempty set of entries.           *)
LEMMA FirstMember ==
  ASSUME NEW n \in Nat, NEW S \in SUBSET (0 .. n - 1), S # {}
  PROVE  First(S) \in S
<1> DEFINE T == {n - p : p \in S}
           R == OpToRel(<, Nat)
<1>1. T \subseteq Nat /\ T # {}
  OBVIOUS
<1>2. IsWellFoundedOn(R, Nat)
  BY NatLessThanWellFounded
<1>3. \A y, z \in Nat : y < z => <<y, z>> \in R
  BY DEF OpToRel
<1> HIDE DEF R
<1>4. PICK x \in T : \A y \in T : ~ (<<y, x>> \in R)
  BY <1>1, <1>2, WFMin, Zenon
<1>5. PICK p \in S : x = n - p
  OBVIOUS
<1>6. \A q \in S : ~ (n - q < x)
  BY <1>1, <1>3, <1>4
<1>7. \A q \in S : p \geq q
  BY <1>5, <1>6
<1>8. First(S) = CHOOSE m \in S : \A q \in S : m \geq q
  BY DEF First
<1> QED
  BY <1>7, <1>8, Zenon

LEMMA FirstType ==
  ASSUME NEW n \in Nat, n > 0, NEW S \in SUBSET (0 .. n - 1)
  PROVE  First(S) \in 0 .. n - 1
<1>1. CASE S = {}
  BY <1>1 DEF First
<1>2. CASE S # {}
  BY <1>2, FirstMember
<1> QED
  BY <1>1, <1>2

(* What a clock edge makes of a scheduler s: u enters, sel leaves.         *)
LEMMA UpdateStep ==
  ASSUME NEW n \in Nat, n > 0, NEW s \in Scheduler(n), NEW u \in Pos \cup {0},
         NEW waits, NEW sel \in SUBSET (0 .. n - 1), NEW w,
         r_prf_inflight \subseteq Pos,
         u # 0 => Avail(s), Rows(s), u # 0 => Bounded(s, u)
  PROVE  LET t == Update(s, u, waits, sel, w) IN
         /\ t \in Scheduler(n)
         /\ Rows(t)
         /\ \A i \in Valid(t) : t[i].u = u \/ (i \in Valid(s) /\ t[i].u = s[i].u)
         /\ ds_done => Valid(t) = {}
<1> DEFINE t == Update(s, u, waits, sel, w)
           new == IF u = 0 THEN {} ELSE {First(DOMAIN s \ Valid(s))}
<1>0. DOMAIN s = 0 .. n - 1 /\ Valid(s) = {i \in 0 .. n - 1 : s[i].u # 0}
  BY DEF Scheduler, Valid
<1>1. new \subseteq (0 .. n - 1) \ Valid(s)
  <2>1. CASE u = 0
    BY <2>1
  <2>2. CASE u # 0
    <3>1. (DOMAIN s \ Valid(s)) \in SUBSET (0 .. n - 1) /\ DOMAIN s \ Valid(s) # {}
      BY <1>0, <2>2 DEF Avail
    <3>2. First(DOMAIN s \ Valid(s)) \in DOMAIN s \ Valid(s)
      BY <3>1, FirstMember
    <3> QED
      BY <1>0, <2>2, <3>2
  <2> QED
    BY <2>1, <2>2
<1>u. new # {} => u # 0
  OBVIOUS
<1>2. t = [i \in 0 .. n - 1 |->
             IF ds_done THEN None
             ELSE IF i \in new THEN [u |-> u, waits |-> (waits \cap r_prf_inflight) \ w,
                                     older |-> Valid(s) \ sel]
             ELSE IF i \in sel THEN None
             ELSE [s[i] EXCEPT !.waits = @ \ w, !.older = @ \ sel]]
  BY <1>0 DEF Update, Mask
<1> HIDE DEF t, new
<1>3. None \in SchedEntry(n) /\ None.u = 0
  BY DEF None, SchedEntry
<1>4. ASSUME NEW i \in 0 .. n - 1
      PROVE  LET e == [s[i] EXCEPT !.waits = @ \ w, !.older = @ \ sel] IN
             e \in SchedEntry(n) /\ e.u = s[i].u /\ e.older = s[i].older \ sel
  <2>1. s[i] \in SchedEntry(n)
    BY DEF Scheduler
  <2>2. s[i].waits \ w \in SUBSET Pos /\ s[i].older \ sel \in SUBSET (0 .. n - 1)
    BY <2>1 DEF SchedEntry
  <2> QED
    BY <2>1, <2>2 DEF SchedEntry
<1>5. [u |-> u, waits |-> (waits \cap r_prf_inflight) \ w, older |-> Valid(s) \ sel]
        \in SchedEntry(n)
  BY <1>0 DEF SchedEntry
<1>6. t \in Scheduler(n)
  BY <1>2, <1>3, <1>4, <1>5 DEF Scheduler
<1>7. Valid(t) = {i \in 0 .. n - 1 : t[i].u # 0}
  BY <1>6 DEF Scheduler, Valid
<1>8. CASE ds_done
  <2>1. Valid(t) = {}
    BY <1>8, <1>2, <1>3, <1>7
  <2> QED
    BY <2>1, <1>6 DEF Rows, t
<1>9. CASE ~ds_done
  <2>1. \A i \in new : t[i].u = u /\ t[i].older = Valid(s) \ sel
    BY <1>9, <1>1, <1>2
  <2>2. \A i \in (0 .. n - 1) \ new : i \in sel => t[i].u = 0
    BY <1>9, <1>2, <1>3
  <2>3. \A i \in (0 .. n - 1) \ new : i \notin sel =>
          t[i].u = s[i].u /\ t[i].older = s[i].older \ sel
    BY <1>9, <1>2, <1>4
  <2>4. Valid(t) = (Valid(s) \ sel) \cup new
    <3>1. \A i \in new : i \in Valid(t)
      BY <1>1, <1>7, <1>u, <2>1
    <3>2. \A i \in (0 .. n - 1) \ new : i \in Valid(t) <=> i \in Valid(s) \ sel
      BY <1>0, <1>7, <2>2, <2>3
    <3> QED
      BY <1>0, <1>1, <1>7, <3>1, <3>2
  <2>5. \A i \in Valid(s) \ sel : t[i].u = s[i].u /\ t[i].older = s[i].older \ sel
    BY <1>0, <1>1, <2>3
  <2>6. \A i \in Valid(t) : t[i].u = u \/ (i \in Valid(s) /\ t[i].u = s[i].u)
    BY <2>1, <2>4, <2>5
  <2>7. \A i \in Valid(s) : s[i].u \in Nat
    BY <1>0 DEF Scheduler, SchedEntry, Pos
  <2>8. u \in Nat
    BY DEF Pos
  <2>9. \A i \in Valid(s), j \in new : s[i].u < u
    BY <1>u DEF Bounded
  <2>10. Rows(t)
    <3> SUFFICES ASSUME NEW i \in Valid(t)
                 PROVE  t[i].older = {j \in Valid(t) : t[j].u < t[i].u}
      BY DEF Rows
    <3>1. CASE i \in new
      <4>1. t[i].u = u /\ t[i].older = Valid(s) \ sel
        BY <2>1, <3>1
      <4>2. \A j \in Valid(s) \ sel : t[j].u < t[i].u
        BY <2>5, <2>9, <3>1, <4>1
      <4>3. \A j \in new : ~(t[j].u < t[i].u)
        BY <2>1, <2>8, <4>1
      <4> QED
        BY <2>4, <4>1, <4>2, <4>3
    <3>2. CASE i \in Valid(s) \ sel
      <4>1. t[i].u = s[i].u /\ t[i].older = s[i].older \ sel
        BY <2>5, <3>2
      <4>2. s[i].older = {j \in Valid(s) : s[j].u < s[i].u}
        BY <3>2 DEF Rows
      <4>3. \A j \in Valid(s) \ sel : t[j].u < t[i].u <=> s[j].u < s[i].u
        BY <2>5, <4>1
      <4>4. \A j \in new : ~(t[j].u < t[i].u)
        BY <2>1, <2>7, <2>8, <2>9, <3>2, <4>1
      <4> QED
        BY <2>4, <4>1, <4>2, <4>3, <4>4
    <3> QED
      BY <2>4, <3>1, <3>2
  <2> QED
    BY <1>6, <1>9, <2>6, <2>10 DEF t
<1> QED
  BY <1>8, <1>9

(* What is picked is an entry, and what is started is a uop or nothing.    *)
LEMMA PickType ==
  ASSUME NEW n \in Nat, n > 0, NEW s \in Scheduler(n), NEW rdy \in SUBSET (0 .. n - 1)
  PROVE  /\ Pick(s, rdy) \in SUBSET (0 .. n - 1)
         /\ Picked(s, Pick(s, rdy)) \in Pos \cup {0}
<1>1. Oldest(s, rdy) \in SUBSET (0 .. n - 1)
  BY DEF Oldest
<1>2. First(Oldest(s, rdy)) \in 0 .. n - 1
  BY <1>1, FirstType
<1>3. Pick(s, rdy) \in SUBSET (0 .. n - 1)
  BY <1>2 DEF Pick
<1>4. First(Pick(s, rdy)) \in 0 .. n - 1
  BY <1>3, FirstType
<1> QED
  BY <1>3, <1>4 DEF Picked, Scheduler, SchedEntry

LEMMA MemPickType ==
  ASSUME NEW w, NEW ack, Schedulers
  PROVE  /\ MemPick(w, ack) \in SUBSET (0 .. NSM - 1)
         /\ Picked(schedm, MemPick(w, ack)) \in Pos \cup {0}
<1> DEFINE rdy == MemReady(w, ack)
           old == IF SomeStore THEN {i \in rdy : schedm[i].older = {}}
                  ELSE Oldest(schedm, rdy)
<1>1. DOMAIN schedm = 0 .. NSM - 1
  BY DEF Schedulers, Scheduler
<1>2. old \in SUBSET (0 .. NSM - 1)
  BY <1>1 DEF MemReady, Woken, Valid, Oldest
<1>3. MemPick(w, ack) = IF old = {} THEN {} ELSE {First(old)}
  BY DEF MemPick
<1> HIDE DEF old
<1>4. MemPick(w, ack) \in SUBSET (0 .. NSM - 1)
  <2>1. NSM \in Nat
    BY Sizes
  <2>2. old # {} => First(old) \in old
    BY <1>2, <2>1, FirstMember
  <2> QED
    BY <1>2, <1>3, <2>2
<1>5. First(MemPick(w, ack)) \in 0 .. NSM - 1
  BY <1>4, Sizes, FirstType
<1> QED
  BY <1>4, <1>5 DEF Picked, Schedulers, Scheduler, SchedEntry

-----------------------------------------------------------------------------
(* Queues.                                                                 *)

(* A queue from which k uops leave and which the core gives n more.        *)
Refilled(q, k, n, kinds, t) ==
  /\ t \in Seq(Pos) /\ Len(t) \leq (Len(q) - k) + n
  /\ Sorted(t, next + n)
  /\ \A i \in DOMAIN t : t[i] \geq next \/ \E j \in DOMAIN q : j > k /\ t[i] = q[j]

LEMMA RefillStep ==
  ASSUME NEW q \in Seq(Pos), NEW k \in 0 .. Len(q), NEW n \in 0 .. 2, NEW kinds,
         next \in Nat, next > 0, next + n \leq LEN + 1, Sorted(q, next)
  PROVE  Refilled(q, k, n, kinds, From(q, k) \o Pushed(n, kinds))
<1> DEFINE a == From(q, k)
           b == Put(n, 1, kinds)
           c == Put(n, 2, kinds)
           d == b \o c
           t == a \o d
<1>1. /\ a \in Seq(Pos) /\ Len(a) = Len(q) - k
      /\ \A i \in 1 .. Len(a) : a[i] = q[k + i]
  <2>1. k + 1 \in Int /\ Len(q) \in Nat /\ DOMAIN q = 1 .. Len(q)
    BY LenProperties
  <2>2. \A i \in k + 1 .. Len(q) : q[i] \in Pos
    BY <2>1, LenProperties
  <2>3. /\ a \in Seq(Pos)
        /\ Len(a) = IF k + 1 <= Len(q) THEN (Len(q) - (k + 1)) + 1 ELSE 0
        /\ \A i \in 1 .. (Len(q) - (k + 1)) + 1 : a[i] = q[((k + 1) + i) - 1]
    BY <2>1, <2>2, SubSeqProperties DEF From
  <2> HIDE DEF a
  <2>0. k \in Int /\ 0 <= k /\ k <= Len(q) /\ Len(q) \in Int
    BY <2>1
  <2>4. Len(a) = Len(q) - k
    <3>1. CASE k + 1 <= Len(q)
      BY <2>0, <2>3, <3>1
    <3>2. CASE ~(k + 1 <= Len(q))
      <4>1. Len(a) = 0
        BY <2>3, <3>2
      <4>2. k = Len(q)
        BY <2>0, <3>2
      <4> QED
        BY <2>0, <4>1, <4>2
    <3> QED
      BY <3>1, <3>2
  <2>5. \A i \in 1 .. Len(a) : ((k + 1) + i) - 1 = k + i
    BY <2>4, <2>1
  <2> QED
    BY <2>1, <2>3, <2>4, <2>5
<1>2. b = <<>> \/ (n >= 1 /\ b = <<next>>)
  BY DEF Put
<1>3. c = <<>> \/ (n >= 2 /\ c = <<next + 1>>)
  BY DEF Put
<1>4. (n >= 1 => next \in Pos) /\ (n >= 2 => next + 1 \in Pos)
  BY Sizes DEF Pos
<1> HIDE DEF a, b, c
<1>5. /\ b \in Seq(Pos) /\ c \in Seq(Pos) /\ d \in Seq(Pos)
      /\ Len(d) = Len(b) + Len(c) /\ Len(b) + Len(c) \leq n
      /\ \A i \in 1 .. Len(d) : d[i] \geq next /\ d[i] < next + n
      /\ \A i, j \in 1 .. Len(d) : i < j => d[i] < d[j]
  <2>1. CASE b = <<>> /\ c = <<>>
    BY <2>1
  <2>2. CASE n >= 1 /\ b = <<next>> /\ c = <<>>
    <3>1. d = <<next>>
      BY <2>2, <1>4
    <3> QED
      BY <2>2, <3>1, <1>4
  <2>3. CASE n >= 2 /\ b = <<>> /\ c = <<next + 1>>
    <3>1. d = <<next + 1>>
      BY <2>3, <1>4
    <3> QED
      BY <2>3, <3>1, <1>4
  <2>4. CASE n >= 2 /\ b = <<next>> /\ c = <<next + 1>>
    <3>1. /\ b \in Seq(Pos) /\ c \in Seq(Pos) /\ Len(b) = 1 /\ Len(c) = 1
          /\ b[1] = next /\ c[1] = next + 1
      BY <2>4, <1>4
    <3>2. /\ d \in Seq(Pos) /\ Len(d) = 1 + 1
          /\ \A i \in 1 .. 1 + 1 : d[i] = IF i <= 1 THEN b[i] ELSE c[i - 1]
      <4>1. /\ d \in Seq(Pos) /\ Len(d) = Len(b) + Len(c)
            /\ \A i \in 1 .. Len(b) + Len(c) : d[i] = IF i <= Len(b) THEN b[i] ELSE c[i - Len(b)]
        BY <3>1, ConcatProperties, Zenon DEF d
      <4> QED
        BY <3>1, <4>1
    <3>3. Len(d) = 2 /\ d[1] = next /\ d[2] = next + 1
      BY <3>1, <3>2
    <3>4. 1 .. Len(d) = {1, 2}
      BY <3>3
    <3> QED
      BY <2>4, <3>1, <3>2, <3>3, <3>4
  <2> QED
    BY <1>2, <1>3, <2>1, <2>2, <2>3, <2>4
<1> HIDE DEF d
<1>6. /\ t \in Seq(Pos) /\ Len(t) = Len(a) + Len(d)
      /\ \A i \in 1 .. Len(t) : t[i] = IF i <= Len(a) THEN a[i] ELSE d[i - Len(a)]
  <2>1. /\ t \in Seq(Pos) /\ Len(t) = Len(a) + Len(d)
        /\ \A i \in 1 .. Len(a) + Len(d) :
             t[i] = IF i <= Len(a) THEN a[i] ELSE d[i - Len(a)]
    <3>1. a \in Seq(Pos) /\ d \in Seq(Pos)
      BY <1>1, <1>5
    <3> QED
      BY <3>1, ConcatProperties, Zenon
  <2> QED
    BY <2>1
<1>7. From(q, k) \o Pushed(n, kinds) = t
  BY DEF Pushed, a, b, c, d
<1> HIDE DEF t
<1>8. Len(q) \in Nat /\ Len(a) \in Nat /\ Len(d) \in Nat
      /\ DOMAIN t = 1 .. Len(t) /\ DOMAIN q = 1 .. Len(q)
  BY <1>1, <1>5, <1>6, LenProperties
<1>9. Len(t) \leq (Len(q) - k) + n
  BY <1>1, <1>5, <1>6, <1>8
<1>10. ASSUME NEW i \in 1 .. Len(t), i <= Len(a)
       PROVE  k + i \in DOMAIN q /\ k + i > k /\ t[i] = q[k + i]
  <2>1. i \in 1 .. Len(a) /\ t[i] = a[i]
    BY <1>6, <1>8, <1>10
  <2> QED
    BY <1>1, <1>8, <2>1
<1>11. ASSUME NEW i \in 1 .. Len(t), ~(i <= Len(a))
       PROVE  i - Len(a) \in 1 .. Len(d) /\ t[i] = d[i - Len(a)]
  BY <1>6, <1>8, <1>11
<1>12. \A i \in DOMAIN q : q[i] \in Nat /\ q[i] < next
  BY <1>8, LenProperties, Sizes DEF Sorted, Pos
<1>13. \A i, j \in DOMAIN t : i < j => t[i] < t[j]
  <2> SUFFICES ASSUME NEW i \in 1 .. Len(t), NEW j \in 1 .. Len(t), i < j
               PROVE  t[i] < t[j]
    BY <1>8
  <2>1. CASE j <= Len(a)
    <3>1. i <= Len(a)
      BY <1>8, <2>1
    <3>2. k + i \in DOMAIN q /\ k + j \in DOMAIN q /\ t[i] = q[k + i] /\ t[j] = q[k + j]
      BY <1>10, <2>1, <3>1
    <3>3. k + i < k + j
      BY <1>8
    <3> QED
      BY <3>2, <3>3 DEF Sorted
  <2>2. CASE i <= Len(a) /\ ~(j <= Len(a))
    <3>1. k + i \in DOMAIN q /\ t[i] = q[k + i]
      BY <1>10, <2>2
    <3>2. t[j] = d[j - Len(a)] /\ j - Len(a) \in 1 .. Len(d)
      BY <1>11, <2>2
    <3>3. t[i] \in Nat /\ t[i] < next
      BY <1>12, <3>1
    <3>4. t[j] \geq next /\ t[j] \in Nat
      <4>1. t[j] \in Pos
        BY <1>6, LenProperties
      <4> QED
        <5>1. Pos \subseteq Nat
          BY Sizes DEF Pos
        <5>2. t[j] \in Nat
          BY <4>1, <5>1
        <5>3. d[j - Len(a)] \geq next
          BY <1>5, <3>2
        <5> QED
          BY <3>2, <5>2, <5>3
    <3> QED
      BY <3>3, <3>4
  <2>3. CASE ~(i <= Len(a))
    <3>1. ~(j <= Len(a))
      BY <1>8, <2>3
    <3>2. /\ i - Len(a) \in 1 .. Len(d) /\ t[i] = d[i - Len(a)]
          /\ j - Len(a) \in 1 .. Len(d) /\ t[j] = d[j - Len(a)]
      BY <1>11, <2>3, <3>1
    <3>3. i - Len(a) < j - Len(a)
      BY <1>8
    <3> QED
      BY <1>5, <3>2, <3>3
  <2> QED
    BY <1>8, <2>1, <2>2, <2>3
<1>14. \A i \in DOMAIN t : t[i] < next + n
  <2> SUFFICES ASSUME NEW i \in 1 .. Len(t) PROVE t[i] < next + n
    BY <1>8
  <2>1. CASE i <= Len(a)
    <3>1. k + i \in DOMAIN q /\ t[i] = q[k + i]
      BY <1>10, <2>1
    <3>2. t[i] \in Nat /\ t[i] < next
      BY <1>12, <3>1
    <3> QED
      BY <3>2
  <2>2. CASE ~(i <= Len(a))
    BY <1>5, <1>11, <2>2
  <2> QED
    BY <2>1, <2>2
<1>15. \A i \in DOMAIN t : t[i] \geq next \/ \E j \in DOMAIN q : j > k /\ t[i] = q[j]
  <2> SUFFICES ASSUME NEW i \in 1 .. Len(t)
               PROVE  t[i] \geq next \/ \E j \in DOMAIN q : j > k /\ t[i] = q[j]
    BY <1>8
  <2>1. CASE i <= Len(a)
    BY <1>10, <2>1
  <2>2. CASE ~(i <= Len(a))
    BY <1>5, <1>11, <2>2
  <2> QED
    BY <2>1, <2>2
<1> QED
  BY <1>6, <1>7, <1>9, <1>13, <1>14, <1>15 DEF Refilled, Sorted

(* A scheduler and its queue: the uop that enters is one of those that     *)
(* leave the queue.                                                        *)
LEMMA DispatchStep ==
  ASSUME NEW m \in Nat, m > 0, NEW s \in Scheduler(m), NEW q \in Seq(Pos),
         NEW k \in 0 .. Len(q), NEW n \in 0 .. 2, NEW kinds, NEW u \in Pos \cup {0},
         NEW waits, NEW sel \in SUBSET (0 .. m - 1), NEW w,
         r_prf_inflight \subseteq Pos, next \in Nat, next > 0, next + n \leq LEN + 1,
         u # 0 => Avail(s) /\ \E j \in DOMAIN q : j <= k /\ u = q[j],
         Rows(s), Sorted(q, next), Dispatched(s, q, next)
  PROVE  LET t == Update(s, u, waits, sel, w)
             p == From(q, k) \o Pushed(n, kinds)
         IN /\ t \in Scheduler(m) /\ Rows(t)
            /\ Refilled(q, k, n, kinds, p)
            /\ Dispatched(t, p, next + n)
            /\ ds_done => Valid(t) = {}
<1> DEFINE t == Update(s, u, waits, sel, w)
           p == From(q, k) \o Pushed(n, kinds)
<1>0. Pos \subseteq Nat /\ DOMAIN q = 1 .. Len(q) /\ \A j \in DOMAIN q : q[j] \in Pos
  BY Sizes, LenProperties DEF Pos
<1>1. u # 0 => Bounded(s, u)
  BY DEF Dispatched, Precede, Bounded
<1>2. /\ t \in Scheduler(m) /\ Rows(t) /\ (ds_done => Valid(t) = {})
      /\ \A i \in Valid(t) : t[i].u = u \/ (i \in Valid(s) /\ t[i].u = s[i].u)
  BY <1>1, UpdateStep
<1>3. Refilled(q, k, n, kinds, p)
  BY RefillStep
<1> HIDE DEF t, p
<1>4. \A i \in Valid(t) : t[i].u # 0 /\ t[i].u \in Nat
  BY <1>0, <1>2 DEF Valid, Scheduler, SchedEntry
<1>5. ASSUME NEW i \in Valid(t)
      PROVE  t[i].u < next /\ \A j \in DOMAIN q : j > k => t[i].u < q[j]
  <2>1. CASE t[i].u = u
    <3>1. PICK j \in DOMAIN q : j <= k /\ u = q[j]
      BY <1>4, <2>1
    <3>2. \A l \in DOMAIN q : l > k => q[j] < q[l]
      <4>1. \A l \in DOMAIN q : l > k => j < l
        BY <1>0, <3>1
      <4> QED
        BY <4>1 DEF Sorted
    <3> QED
      BY <2>1, <3>1, <3>2 DEF Sorted
  <2>2. CASE i \in Valid(s) /\ t[i].u = s[i].u
    BY <2>2 DEF Dispatched, Precede, Bounded
  <2> QED
    BY <1>2, <2>1, <2>2
<1>6. Precede(t, p)
  <2> SUFFICES ASSUME NEW i \in Valid(t), NEW l \in DOMAIN p PROVE t[i].u < p[l]
    BY DEF Precede
  <2>1. p[l] \in Nat
    <3>1. p \in Seq(Pos)
      BY <1>3 DEF Refilled
    <3>2. p[l] \in Pos
      BY <3>1, LenProperties
    <3> QED
      BY <1>0, <3>2
  <2>2. CASE p[l] \geq next
    BY <1>4, <1>5, <2>1, <2>2
  <2>3. CASE \E j \in DOMAIN q : j > k /\ p[l] = q[j]
    BY <1>5, <2>3
  <2> QED
    BY <1>3, <2>2, <2>3 DEF Refilled
<1>7. Bounded(t, next + n)
  <2>1. \A i \in Valid(t) : t[i].u < next + n
    BY <1>4, <1>5
  <2> QED
    BY <2>1 DEF Bounded
<1> QED
  BY <1>2, <1>3, <1>6, <1>7 DEF Dispatched, t, p

(* The two oldest integer uops leave the queue only for a scheduler.       *)
LEMMA DispatchUops ==
  ASSUME TypeOK
  PROVE  /\ popped \in 0 .. Len(r_uq)
         /\ Dispatch[1] \in Pos \cup {0} /\ Dispatch[2] \in Pos \cup {0}
         /\ Dispatch[1] # 0 => /\ Avail(sched)
                               /\ \E j \in DOMAIN r_uq : j <= popped /\ Dispatch[1] = r_uq[j]
         /\ Dispatch[2] # 0 => /\ Avail(sched2)
                               /\ \E j \in DOMAIN r_uq : j <= popped /\ Dispatch[2] = r_uq[j]
<1>1. r_uq \in Seq(Pos) /\ Len(r_uq) \in Nat /\ DOMAIN r_uq = 1 .. Len(r_uq)
      /\ \A j \in 1 .. Len(r_uq) : r_uq[j] \in Pos
  BY LenProperties DEF TypeOK
<1>2. r_uq # <<>> => Len(r_uq) >= 1
  BY <1>1
<1>3. CASE TwoUops
  <2>1. popped = 2 /\ 1 \in DOMAIN r_uq /\ 2 \in DOMAIN r_uq
        /\ Avail(sched) /\ Avail(sched2)
    BY <1>1, <1>3 DEF popped, TwoUops
  <2>2. Dispatch = <<r_uq[2], r_uq[1]>> \/ Dispatch = <<r_uq[1], r_uq[2]>>
    BY <1>3 DEF Dispatch
  <2> QED
    BY <1>1, <2>1, <2>2
<1>4. CASE ~TwoUops /\ (OnSched1 \/ OnSched2)
  <2>1. popped = 1 /\ 1 \in DOMAIN r_uq
    BY <1>1, <1>2, <1>4 DEF popped, OnSched1, OnSched2
  <2>2. \/ Dispatch = <<0, r_uq[1]>> /\ OnSched2
        \/ Dispatch = <<r_uq[1], 0>> /\ OnSched1
    BY <1>4 DEF Dispatch
  <2> QED
    BY <1>1, <2>1, <2>2 DEF OnSched1, OnSched2
<1>5. CASE ~TwoUops /\ ~(OnSched1 \/ OnSched2)
  <2>1. popped = 0 /\ Dispatch = <<0, 0>>
    BY <1>5 DEF popped, Dispatch
  <2> QED
    BY <1>1, <2>1
<1> QED
  BY <1>3, <1>4, <1>5

-----------------------------------------------------------------------------
(* A clock edge of the units.  The core hands over what there is room for. *)
Handed(n) == /\ n \in 0 .. 2 /\ next + n \leq LEN + 1
             /\ n > 0 => ~ds_done /\ Room(n)

LEMMA Announced ==
  ASSUME TypeOK, NEW ans \in Answer
  PROVE  /\ wake(ans) \subseteq Pos /\ wr0 \subseteq Pos /\ mem_rsp(ans) \subseteq Pos
         /\ t_wr_int_prf \subseteq Pos /\ t_wr_int_prf2 \subseteq Pos
         /\ t_mul_complete \subseteq Pos
         /\ Completed(ans) \subseteq Pos
<1>1. \A p \in Pos \cup {0} : Some(p) \subseteq Pos
  BY DEF Some
<1>2. /\ int_uop \in Pos \cup {0} /\ int_uop2 \in Pos \cup {0} /\ ans \in Pos \cup {0}
      /\ mul[MUL_LAT] \in Pos \cup {0}
  BY Sizes DEF TypeOK, Answer
<1>3. /\ Some(int_uop) \subseteq Pos /\ Some(int_uop2) \subseteq Pos
      /\ Some(ans) \subseteq Pos /\ Some(mul[MUL_LAT]) \subseteq Pos
  BY <1>1, <1>2
<1>4. /\ t_wr_int_prf \subseteq Pos /\ t_wr_int_prf2 \subseteq Pos
      /\ t_mul_complete \subseteq Pos /\ mem_rsp(ans) \subseteq Pos
  BY <1>3 DEF t_wr_int_prf, t_wr_int_prf2, t_mul_complete, mem_rsp
<1> QED
  BY <1>3, <1>4 DEF wake, wr0, Completed

(* The schedulers and the queues before them.                              *)
LEMMA IssueStep ==
  ASSUME IInv, NEW n, Handed(n), NEW ans \in Answer, NEW ack, NEW dack,
         Issue(ans, ack), Enqueue(n, dack)
  PROVE  /\ Schedulers' /\ Rows(sched)' /\ Rows(sched2)' /\ Rows(schedm)'
         /\ {int_uop', int_uop2', mem_uop'} \subseteq Pos \cup {0}
         /\ r_uq' \in Seq(Pos) /\ Len(r_uq') <= NQ /\ Sorted(r_uq', next + n)
         /\ r_mem_uq' \in Seq(Pos) /\ Len(r_mem_uq') <= NQ
         /\ Sorted(r_mem_uq', next + n)
         /\ Dispatched(sched', r_uq', next + n) /\ Dispatched(sched2', r_uq', next + n)
         /\ Dispatched(schedm', r_mem_uq', next + n)
         /\ ds_done => /\ r_uq' = <<>> /\ r_mem_uq' = <<>>
                       /\ Valid(sched') = {} /\ Valid(sched2') = {} /\ Valid(schedm') = {}
<1> DEFINE w == wake(ans)
           sel == Pick(sched, Ready(w))  sel2 == Pick(sched2, Ready2(w))
           selm == MemPick(w, ack)
           newm == IF r_mem_uq # <<>> /\ Avail(schedm) THEN Head(r_mem_uq) ELSE 0
           poppedm == IF r_mem_uq # <<>> /\ Avail(schedm) THEN 1 ELSE 0
           Waits(p) == IF p = 0 THEN {} ELSE IF IsMem(p) THEN Addr(p) ELSE Operands(p)
<1>1. TypeOK /\ Schedulers /\ QueuesSorted /\ DispatchedInOrder
      /\ Rows(sched) /\ Rows(sched2) /\ Rows(schedm)
  BY OldestFirstRows DEF IInv
<1>2. /\ sched \in Scheduler(NS0) /\ sched2 \in Scheduler(NS1)
      /\ schedm \in Scheduler(NSM)
      /\ Ready(w) \in SUBSET (0 .. NS0 - 1) /\ Ready2(w) \in SUBSET (0 .. NS1 - 1)
  BY <1>1 DEF Schedulers, Scheduler, Ready, Ready2, Woken, Valid
<1>3. /\ sel \in SUBSET (0 .. NS0 - 1) /\ Picked(sched, sel) \in Pos \cup {0}
      /\ sel2 \in SUBSET (0 .. NS1 - 1) /\ Picked(sched2, sel2) \in Pos \cup {0}
      /\ selm \in SUBSET (0 .. NSM - 1) /\ Picked(schedm, selm) \in Pos \cup {0}
  BY <1>1, <1>2, Sizes, PickType, MemPickType
<1>4. /\ r_uq \in Seq(Pos) /\ Len(r_uq) \in Nat /\ Len(r_uq) <= NQ
      /\ r_mem_uq \in Seq(Pos) /\ Len(r_mem_uq) \in Nat /\ Len(r_mem_uq) <= NQ
      /\ r_prf_inflight \subseteq Pos /\ next \in Nat /\ next > 0
  <2>1. r_uq \in Seq(Pos) /\ r_mem_uq \in Seq(Pos) /\ Len(r_uq) <= NQ /\ Len(r_mem_uq) <= NQ
    BY <1>1 DEF TypeOK
  <2>2. next \in 1 .. LEN + 1 /\ r_prf_inflight \subseteq Pos
    BY <1>1 DEF TypeOK
  <2> QED
    BY <2>1, <2>2, LenProperties, Sizes
<1>5. n \in 0 .. 2 /\ next + n \leq LEN + 1
  BY DEF Handed
<1>6. /\ poppedm \in 0 .. Len(r_mem_uq) /\ newm \in Pos \cup {0}
      /\ newm # 0 => /\ Avail(schedm)
                     /\ \E j \in DOMAIN r_mem_uq : j <= poppedm /\ newm = r_mem_uq[j]
  <2>1. CASE r_mem_uq # <<>> /\ Avail(schedm)
    <3>1. Len(r_mem_uq) >= 1 /\ 1 \in DOMAIN r_mem_uq /\ Head(r_mem_uq) = r_mem_uq[1]
          /\ r_mem_uq[1] \in Pos
      BY <1>4, <2>1, LenProperties
    <3> QED
      BY <1>4, <2>1, <3>1
  <2>2. CASE ~(r_mem_uq # <<>> /\ Avail(schedm))
    BY <1>4, <2>2
  <2> QED
    BY <2>1, <2>2
<1>7. /\ sched' = Update(sched, Dispatch[1], Waits(Dispatch[1]), sel, w)
      /\ sched2' = Update(sched2, Dispatch[2], Waits(Dispatch[2]), sel2, w)
      /\ schedm' = Update(schedm, newm, Waits(newm), selm, w)
      /\ int_uop' = Picked(sched, sel) /\ int_uop2' = Picked(sched2, sel2)
      /\ mem_uop' = Picked(schedm, selm)
  BY DEF Issue
<1>8. /\ r_uq' = IF ds_done THEN <<>> ELSE From(r_uq, popped) \o Pushed(n, IntOps)
      /\ r_mem_uq' = IF ds_done THEN <<>> ELSE From(r_mem_uq, poppedm) \o Pushed(n, MemOps)
  BY DEF Enqueue, popped
<1> HIDE DEF w, sel, sel2, selm, newm, poppedm, Waits
<1> DEFINE p == From(r_uq, popped) \o Pushed(n, IntOps)
           pm == From(r_mem_uq, poppedm) \o Pushed(n, MemOps)
<1>9. /\ popped \in 0 .. Len(r_uq)
      /\ Sorted(r_uq, next) /\ Sorted(r_mem_uq, next)
      /\ Dispatched(sched, r_uq, next) /\ Dispatched(sched2, r_uq, next)
      /\ Dispatched(schedm, r_mem_uq, next)
  BY <1>1, DispatchUops DEF QueuesSorted, DispatchedInOrder
<1> HIDE DEF p, pm
<1>10. /\ sched' \in Scheduler(NS0) /\ Rows(sched')
       /\ Refilled(r_uq, popped, n, IntOps, p)
       /\ Dispatched(sched', p, next + n) /\ (ds_done => Valid(sched') = {})
  <2>1. /\ NS0 \in Nat /\ NS0 > 0 /\ sched \in Scheduler(NS0) /\ r_uq \in Seq(Pos)
        /\ popped \in 0 .. Len(r_uq) /\ n \in 0 .. 2 /\ Dispatch[1] \in Pos \cup {0}
        /\ sel \in SUBSET (0 .. NS0 - 1) /\ r_prf_inflight \subseteq Pos
        /\ next \in Nat /\ next > 0 /\ next + n \leq LEN + 1
        /\ Rows(sched) /\ Sorted(r_uq, next) /\ Dispatched(sched, r_uq, next)
    BY <1>1, <1>2, <1>3, <1>4, <1>5, <1>6, <1>9, Sizes, DispatchUops
  <2>2. Dispatch[1] # 0 => Avail(sched) /\ \E j \in DOMAIN r_uq : j <= popped /\ Dispatch[1] = r_uq[j]
    BY <1>1, <1>6, DispatchUops
  <2>3. LET t == Update(sched, Dispatch[1], Waits(Dispatch[1]), sel, w) IN
        /\ t \in Scheduler(NS0) /\ Rows(t) /\ Refilled(r_uq, popped, n, IntOps, p)
        /\ Dispatched(t, p, next + n) /\ (ds_done => Valid(t) = {})
    BY <2>1, <2>2, DispatchStep DEF p
  <2> QED
    BY <1>7, <2>3
<1>11. /\ sched2' \in Scheduler(NS1) /\ Rows(sched2')
       /\ Dispatched(sched2', p, next + n) /\ (ds_done => Valid(sched2') = {})
  <2>1. /\ NS1 \in Nat /\ NS1 > 0 /\ sched2 \in Scheduler(NS1) /\ r_uq \in Seq(Pos)
        /\ popped \in 0 .. Len(r_uq) /\ n \in 0 .. 2 /\ Dispatch[2] \in Pos \cup {0}
        /\ sel2 \in SUBSET (0 .. NS1 - 1) /\ r_prf_inflight \subseteq Pos
        /\ next \in Nat /\ next > 0 /\ next + n \leq LEN + 1
        /\ Rows(sched2) /\ Sorted(r_uq, next) /\ Dispatched(sched2, r_uq, next)
    BY <1>1, <1>2, <1>3, <1>4, <1>5, <1>6, <1>9, Sizes, DispatchUops
  <2>2. Dispatch[2] # 0 => Avail(sched2) /\ \E j \in DOMAIN r_uq : j <= popped /\ Dispatch[2] = r_uq[j]
    BY <1>1, <1>6, DispatchUops
  <2>3. LET t == Update(sched2, Dispatch[2], Waits(Dispatch[2]), sel2, w) IN
        /\ t \in Scheduler(NS1) /\ Rows(t) /\ Refilled(r_uq, popped, n, IntOps, p)
        /\ Dispatched(t, p, next + n) /\ (ds_done => Valid(t) = {})
    BY <2>1, <2>2, DispatchStep DEF p
  <2> QED
    BY <1>7, <2>3
<1>12. /\ schedm' \in Scheduler(NSM) /\ Rows(schedm')
       /\ Refilled(r_mem_uq, poppedm, n, MemOps, pm)
       /\ Dispatched(schedm', pm, next + n) /\ (ds_done => Valid(schedm') = {})
  <2>1. /\ NSM \in Nat /\ NSM > 0 /\ schedm \in Scheduler(NSM) /\ r_mem_uq \in Seq(Pos)
        /\ poppedm \in 0 .. Len(r_mem_uq) /\ n \in 0 .. 2 /\ newm \in Pos \cup {0}
        /\ selm \in SUBSET (0 .. NSM - 1) /\ r_prf_inflight \subseteq Pos
        /\ next \in Nat /\ next > 0 /\ next + n \leq LEN + 1
        /\ Rows(schedm) /\ Sorted(r_mem_uq, next) /\ Dispatched(schedm, r_mem_uq, next)
    BY <1>1, <1>2, <1>3, <1>4, <1>5, <1>6, <1>9, Sizes, DispatchUops
  <2>2. newm # 0 => Avail(schedm) /\ \E j \in DOMAIN r_mem_uq : j <= poppedm /\ newm = r_mem_uq[j]
    BY <1>1, <1>6, DispatchUops
  <2>3. LET t == Update(schedm, newm, Waits(newm), selm, w) IN
        /\ t \in Scheduler(NSM) /\ Rows(t) /\ Refilled(r_mem_uq, poppedm, n, MemOps, pm)
        /\ Dispatched(t, pm, next + n) /\ (ds_done => Valid(t) = {})
    BY <2>1, <2>2, DispatchStep DEF pm
  <2> QED
    BY <1>7, <2>3
<1>13. n > 0 => Len(r_uq) + n <= NQ /\ Len(r_mem_uq) + n <= NQ
  BY <1>4, <1>5, Sizes DEF Handed, Room, uq_full, uq_next_full, Full, NextFull
<1>14. Len(p) <= NQ /\ Len(pm) <= NQ
  <2>1. Len(p) <= (Len(r_uq) - popped) + n /\ Len(pm) <= (Len(r_mem_uq) - poppedm) + n
        /\ Len(p) \in Nat /\ Len(pm) \in Nat
    BY <1>10, <1>12, LenProperties DEF Refilled
  <2> QED
    BY <2>1, <1>4, <1>5, <1>6, <1>9, <1>13, Sizes
<1>15. CASE ds_done
  <2>1. r_uq' = <<>> /\ r_mem_uq' = <<>> /\ Valid(sched') = {} /\ Valid(sched2') = {}
        /\ Valid(schedm') = {}
    BY <1>8, <1>10, <1>11, <1>12, <1>15
  <2>2. <<>> \in Seq(Pos) /\ Len(<<>>) = 0 /\ Sorted(<<>>, next + n)
    BY DEF Sorted
  <2>3. Schedulers' /\ Rows(sched)' /\ Rows(sched2)' /\ Rows(schedm)'
    BY <1>10, <1>11, <1>12 DEF Schedulers, Rows, Valid
  <2>4. {int_uop', int_uop2', mem_uop'} \subseteq Pos \cup {0}
    BY <1>3, <1>7
  <2>5. /\ Dispatched(sched', <<>>, next + n) /\ Dispatched(sched2', <<>>, next + n)
        /\ Dispatched(schedm', <<>>, next + n)
    BY <2>1 DEF Dispatched, Precede, Bounded
  <2> QED
    BY <2>1, <2>2, <2>3, <2>4, <2>5, Sizes
<1>16. CASE ~ds_done
  <2>1. r_uq' = p /\ r_mem_uq' = pm
    BY <1>8, <1>16 DEF p, pm
  <2>2. /\ p \in Seq(Pos) /\ pm \in Seq(Pos)
        /\ Sorted(p, next + n) /\ Sorted(pm, next + n)
    BY <1>10, <1>12 DEF Refilled
  <2>3. Schedulers' /\ Rows(sched)' /\ Rows(sched2)' /\ Rows(schedm)'
    BY <1>10, <1>11, <1>12 DEF Schedulers, Rows, Valid
  <2>4. {int_uop', int_uop2', mem_uop'} \subseteq Pos \cup {0}
    BY <1>3, <1>7
  <2> QED
    BY <1>10, <1>11, <1>12, <1>14, <1>16, <2>1, <2>2, <2>3, <2>4
<1> QED
  BY <1>15, <1>16

(* Store data: counted before they enter the queue of the L1D.             *)
LEMMA DataStep ==
  ASSUME IInv, NEW n, Handed(n), NEW ans \in Answer, NEW ack,
         NEW dack, dack => TakesData,
         Issue(ans, ack), Enqueue(n, dack), EnqueueData(n, ans)
  PROVE  /\ mem_dq' \in Pos \cup {0} /\ DataHasRoom'
         /\ r_mdq' \in Seq(Pos) /\ Len(r_mdq') <= NQ
         /\ r_mem_dq' \in Seq(Pos) /\ Len(r_mem_dq') <= NQ
<1> DEFINE left == IF dack THEN 1 ELSE 0
           a == From(r_mdq, left)
           b == IF mem_dq = 0 THEN <<>> ELSE <<mem_dq>>
           out == IF DqReady(ans) THEN 1 ELSE 0
           d == From(r_mem_dq, out)
           e == Pushed(n, {"st"})
<1>1. /\ r_mdq \in Seq(Pos) /\ Len(r_mdq) \in Nat /\ Len(r_mdq) <= NQ
      /\ r_mem_dq \in Seq(Pos) /\ Len(r_mem_dq) \in Nat /\ Len(r_mem_dq) <= NQ
      /\ mem_dq \in Pos \cup {0} /\ next \in 1 .. LEN + 1
  BY LenProperties DEF IInv, TypeOK
<1>2. /\ n \in 0 .. 2 /\ next + n \leq LEN + 1
      /\ n > 0 => Len(r_mem_dq) + n <= NQ
  BY <1>1, Sizes DEF Handed, Room, uq_full, uq_next_full, Full, NextFull
<1>3. left \in 0 .. Len(r_mdq)
  <2>1. dack => r_mdq # <<>>
    BY DEF TakesData
  <2> QED
    BY <1>1, <2>1
<1>4. /\ mem_dq' = IF DqReady(ans) THEN Head(r_mem_dq) ELSE 0
      /\ r_mdq' = IF mem_dq_clr THEN <<>> ELSE a \o b
      /\ r_mem_dq' = IF mem_dq_clr THEN <<>> ELSE d \o e
  BY DEF Issue, Enqueue, EnqueueData
<1>5. a \in Seq(Pos) /\ Len(a) = Len(r_mdq) - left
  <2>1. left + 1 \in Int /\ DOMAIN r_mdq = 1 .. Len(r_mdq)
    BY <1>1, <1>3, LenProperties
  <2>2. \A i \in left + 1 .. Len(r_mdq) : r_mdq[i] \in Pos
    BY <1>1, <1>3, <2>1, LenProperties
  <2> HIDE DEF left
  <2>3. /\ a \in Seq(Pos)
        /\ Len(a) = IF left + 1 <= Len(r_mdq) THEN (Len(r_mdq) - (left + 1)) + 1 ELSE 0
    BY <1>1, <2>1, <2>2, SubSeqProperties DEF From
  <2> HIDE DEF a
  <2> QED
    BY <1>1, <1>3, <2>3
<1>6. b \in Seq(Pos) /\ Len(b) = IF mem_dq = 0 THEN 0 ELSE 1
  BY <1>1
<1>7. e \in Seq(Pos) /\ Len(e) <= n /\ Len(e) \in Nat
  <2> DEFINE x == Put(n, 1, {"st"})
             y == Put(n, 2, {"st"})
  <2>1. x = <<>> \/ (n >= 1 /\ x = <<next>>)
    BY <1>1, <1>2 DEF Put
  <2>2. y = <<>> \/ (n >= 2 /\ y = <<next + 1>>)
    BY <1>1, <1>2 DEF Put
  <2>3. (n >= 1 => next \in Pos) /\ (n >= 2 => next + 1 \in Pos)
    BY <1>1, <1>2, Sizes DEF Pos
  <2> HIDE DEF x, y
  <2>4. x \in Seq(Pos) /\ (Len(x) = 0 \/ (n >= 1 /\ Len(x) = 1))
    <3>1. CASE x = <<>>
      BY <3>1
    <3>2. CASE n >= 1 /\ x = <<next>>
      BY <2>3, <3>2
    <3> QED
      BY <2>1, <3>1, <3>2
  <2>5. y \in Seq(Pos) /\ (Len(y) = 0 \/ (n >= 2 /\ Len(y) = 1))
    <3>1. CASE y = <<>>
      BY <3>1
    <3>2. CASE n >= 2 /\ y = <<next + 1>>
      BY <2>3, <3>2
    <3> QED
      BY <2>2, <3>1, <3>2
  <2>6. x \o y \in Seq(Pos) /\ Len(x \o y) = Len(x) + Len(y)
    BY <2>4, <2>5, ConcatProperties
  <2>7. e = x \o y
    BY DEF Pushed, x, y
  <2>8. Len(x) + Len(y) <= n /\ Len(x) + Len(y) \in Nat
    <3>1. n \in 0 .. 2
      BY <1>2
    <3>2. PICK i \in 0 .. 1 : i = Len(x) /\ i <= n
      BY <2>4, <3>1
    <3>3. PICK j \in 0 .. 1 : j = Len(y) /\ (j = 1 => n >= 2)
      BY <2>5, <3>1
    <3>4. i + j <= n /\ i + j \in Nat
      BY <3>1, <3>2, <3>3
    <3> QED
      BY <3>2, <3>3, <3>4
  <2> QED
    BY <2>6, <2>7, <2>8
<1>8. DqReady(ans) => /\ r_mem_dq # <<>> /\ ~mem_dq_clr
                      /\ Len(r_mdq) # NQ /\ Len(r_mdq) # NQ - 1
  BY DEF DqReady, Full, NextFull
<1>9. out \in 0 .. Len(r_mem_dq)
  BY <1>1, <1>8
<1>10. d \in Seq(Pos) /\ Len(d) = Len(r_mem_dq) - out
  <2>1. out + 1 \in Int /\ DOMAIN r_mem_dq = 1 .. Len(r_mem_dq)
    BY <1>1, <1>9, LenProperties
  <2>2. \A i \in out + 1 .. Len(r_mem_dq) : r_mem_dq[i] \in Pos
    BY <1>1, <1>9, <2>1, LenProperties
  <2> HIDE DEF out
  <2>3. /\ d \in Seq(Pos)
        /\ Len(d) = IF out + 1 <= Len(r_mem_dq) THEN (Len(r_mem_dq) - (out + 1)) + 1 ELSE 0
    BY <1>1, <2>1, <2>2, SubSeqProperties DEF From
  <2> HIDE DEF d
  <2> QED
    BY <1>1, <1>9, <2>3
<1>11. mem_dq # 0 => Len(r_mdq) < NQ
  BY DEF IInv, DataHasRoom
<1> HIDE DEF a, b, d, e, left, out
<1>12. /\ a \o b \in Seq(Pos) /\ Len(a \o b) = Len(a) + Len(b)
       /\ d \o e \in Seq(Pos) /\ Len(d \o e) = Len(d) + Len(e)
  BY <1>5, <1>6, <1>7, <1>10, ConcatProperties
<1>13. /\ r_mdq' \in Seq(Pos) /\ Len(r_mdq') <= NQ
       /\ DqReady(ans) => Len(r_mdq') < NQ
  <2>1. CASE mem_dq_clr
    BY <1>4, <1>8, <2>1, Sizes
  <2>2. CASE ~mem_dq_clr
    <3>1. r_mdq' \in Seq(Pos) /\ Len(r_mdq') = (Len(r_mdq) - left)
                                              + (IF mem_dq = 0 THEN 0 ELSE 1)
      BY <1>4, <1>5, <1>6, <1>12, <2>2
    <3> QED
      BY <1>1, <1>3, <1>8, <1>11, <3>1, Sizes
  <2> QED
    BY <2>1, <2>2
<1>14. r_mem_dq' \in Seq(Pos) /\ Len(r_mem_dq') <= NQ
  <2>1. CASE mem_dq_clr
    BY <1>4, <2>1, Sizes
  <2>2. CASE ~mem_dq_clr
    <3>1. r_mem_dq' \in Seq(Pos) /\ Len(r_mem_dq') = (Len(r_mem_dq) - out) + Len(e)
      BY <1>4, <1>10, <1>12, <2>2
    <3> QED
      <4>1. Len(r_mem_dq) + n <= NQ \/ n = 0
        BY <1>2
      <4>2. (Len(r_mem_dq) - out) + Len(e) <= NQ
        BY <1>1, <1>2, <1>7, <1>9, <4>1, Sizes
      <4> QED
        BY <3>1, <4>2
  <2> QED
    BY <2>1, <2>2
<1>15. mem_dq' \in Pos \cup {0}
  BY <1>1, <1>4, <1>8, LenProperties
<1>16. DataHasRoom'
  BY <1>4, <1>13 DEF DataHasRoom
<1> QED
  BY <1>13, <1>14, <1>15, <1>16

(* The rest of a clock edge keeps to its domains.                          *)
LEMMA UnitsTypes ==
  ASSUME IInv, NEW n, Handed(n), NEW ans \in Answer, NEW ack, NEW dack, NEW complete,
         Units(n, ans, ack, dack, complete)
  PROVE  /\ prog' \in PROGRAMS /\ r_mem_req' \in Pos \cup {0}
         /\ mul' \in [0 .. MUL_LAT -> Pos \cup {0}] /\ r_wb_bitvec' \subseteq 0 .. MUL_LAT
         /\ r_prf_inflight' \cup prf' \cup l1d' \subseteq Pos
         /\ r_uq_wait' \cup r_mq_wait' \subseteq 0 .. NROB - 1
<1>0. TypeOK
  BY DEF IInv
<1>1. /\ int_uop \in Pos \cup {0} /\ mem_uop \in Pos \cup {0} /\ r_mem_req \in Pos \cup {0}
      /\ next \in 1 .. LEN + 1 /\ base \in 1 .. LEN + 1
      /\ mul \in [0 .. MUL_LAT -> Pos \cup {0}] /\ r_wb_bitvec \subseteq 0 .. MUL_LAT
      /\ r_prf_inflight \subseteq Pos /\ prf \subseteq Pos /\ l1d \subseteq Pos
      /\ r_uq_wait \subseteq 0 .. NROB - 1 /\ r_mq_wait \subseteq 0 .. NROB - 1
  BY <1>0 DEF TypeOK
<1>2. n \in 0 .. 2 /\ next + n \leq LEN + 1
  BY DEF Handed
<1>3. New(n) \subseteq Pos
  BY <1>1, <1>2, Sizes DEF New, Pos
<1>4. Request \in Pos \cup {0} /\ (ack => Request # 0)
  BY <1>1 DEF Request, Units, Memory
<1>5. r_mem_req' \in Pos \cup {0} /\ l1d' \subseteq Pos
  BY <1>1, <1>4 DEF Units, Memory
<1>6. mul' \in [0 .. MUL_LAT -> Pos \cup {0}]
  <2>1. \A i \in 0 .. MUL_LAT : i > 0 => mul[i - 1] \in Pos \cup {0}
    BY <1>1, Sizes
  <2> QED
    BY <1>1, <2>1 DEF Units, Multiply
<1>7. r_wb_bitvec' \subseteq 0 .. MUL_LAT
  BY <1>1, Sizes DEF Units, Multiply
<1>8. r_prf_inflight' \subseteq Pos /\ prf' \subseteq Pos
  BY <1>0, <1>1, <1>3, Announced DEF Units, Registers
<1>9. \A p \in Pos \cup {0} : Slot(p) \in 0 .. NROB - 1
  BY <1>1, Sizes DEF Slot, Pos
<1>10. r_uq_wait' \subseteq 0 .. NROB - 1 /\ r_mq_wait' \subseteq 0 .. NROB - 1
  BY <1>1, <1>3, <1>9 DEF Units, WaitBits
<1> QED
  BY <1>0, <1>5, <1>6, <1>7, <1>8, <1>10 DEF Units, TypeOK

-----------------------------------------------------------------------------
(* Inductive invariant: what every step of the core leaves.                *)
CoreTypes ==
  /\ mode \in {"ACTIVE", "DRAIN", "RAT"}
  /\ {next, head, base} \subseteq 1 .. LEN + 1 /\ base \leq head /\ head \leq next
  /\ r_rob_inflight \subseteq 0 .. NROB - 1

LEMMA EdgeStep ==
  ASSUME IInv, NEW n, Handed(n), NEW ans \in Answer, NEW ack, NEW dack, NEW complete,
         Units(n, ans, ack, dack, complete), CoreTypes',
         next' = next + n \/ ds_done, mode' = "RAT" => ds_done
  PROVE  IInv'
<1>0. Issue(ans, ack) /\ Enqueue(n, dack) /\ EnqueueData(n, ans) /\ (dack => TakesData)
  BY DEF Units
<1>1. /\ Schedulers' /\ Rows(sched)' /\ Rows(sched2)' /\ Rows(schedm)'
      /\ {int_uop', int_uop2', mem_uop'} \subseteq Pos \cup {0}
      /\ r_uq' \in Seq(Pos) /\ Len(r_uq') <= NQ /\ Sorted(r_uq', next + n)
      /\ r_mem_uq' \in Seq(Pos) /\ Len(r_mem_uq') <= NQ
      /\ Sorted(r_mem_uq', next + n)
      /\ Dispatched(sched', r_uq', next + n) /\ Dispatched(sched2', r_uq', next + n)
      /\ Dispatched(schedm', r_mem_uq', next + n)
      /\ ds_done => /\ r_uq' = <<>> /\ r_mem_uq' = <<>>
                    /\ Valid(sched') = {} /\ Valid(sched2') = {} /\ Valid(schedm') = {}
  BY <1>0, IssueStep
<1>2. /\ mem_dq' \in Pos \cup {0} /\ DataHasRoom'
      /\ r_mdq' \in Seq(Pos) /\ Len(r_mdq') <= NQ
      /\ r_mem_dq' \in Seq(Pos) /\ Len(r_mem_dq') <= NQ
  BY <1>0, DataStep
<1>3. /\ prog' \in PROGRAMS /\ r_mem_req' \in Pos \cup {0}
      /\ mul' \in [0 .. MUL_LAT -> Pos \cup {0}] /\ r_wb_bitvec' \subseteq 0 .. MUL_LAT
      /\ r_prf_inflight' \cup prf' \cup l1d' \subseteq Pos
      /\ r_uq_wait' \cup r_mq_wait' \subseteq 0 .. NROB - 1
  BY UnitsTypes
<1>4. QueuesSorted' /\ DispatchedInOrder'
  <2>1. CASE next' = next + n
    BY <1>1, <2>1 DEF QueuesSorted, DispatchedInOrder
  <2>2. CASE ds_done
    BY <1>1, <2>2 DEF QueuesSorted, DispatchedInOrder, Sorted, Dispatched, Precede, Bounded
  <2> QED
    BY <2>1, <2>2
<1>5. OldestFirst'
  <2>1. OldestFirst' <=> Rows(sched)' /\ Rows(sched2)' /\ Rows(schedm)'
    BY OldestFirstRows, PTL
  <2> QED
    BY <1>1, <2>1
<1>6. Cleared'
  BY <1>1 DEF Cleared, Valid
<1>7. TypeOK'
  <2>1. \A s \in {sched', sched2', schedm'}, i \in 0 .. NS0 + NS1 + NSM :
          i \in DOMAIN s =>
            s[i] \in [u : Pos \cup {0}, waits : SUBSET Pos, older : SUBSET DOMAIN s]
    BY <1>1 DEF Schedulers, Scheduler, SchedEntry
  <2>2. \A q \in {r_uq', r_mem_uq', r_mem_dq', r_mdq'} : q \in Seq(Pos) /\ Len(q) \leq NQ
    BY <1>1, <1>2
  <2>3. {int_uop', int_uop2', mem_uop', mem_dq', r_mem_req'} \subseteq Pos \cup {0}
    BY <1>1, <1>2, <1>3
  <2>4. r_rob_inflight' \cup r_uq_wait' \cup r_mq_wait' \subseteq 0 .. NROB - 1
    BY <1>3 DEF CoreTypes
  <2> QED
    BY <1>3, <2>1, <2>2, <2>3, <2>4 DEF TypeOK, CoreTypes
<1> QED
  BY <1>1, <1>2, <1>4, <1>5, <1>6, <1>7 DEF IInv

LEMMA IInvInit == Init => IInv
<1> SUFFICES ASSUME Init PROVE IInv
  OBVIOUS
<1> USE DEF Init
<1>1. None \in SchedEntry(NS0) /\ None \in SchedEntry(NS1) /\ None \in SchedEntry(NSM)
      /\ None.u = 0
  BY DEF None, SchedEntry
<1>2. Schedulers
  BY <1>1 DEF Schedulers, Scheduler, Empty
<1>3. Valid(sched) = {} /\ Valid(sched2) = {} /\ Valid(schedm) = {}
  BY <1>1 DEF Valid, Empty
<1>4. OldestFirst
  BY <1>3, OldestFirstRows DEF Rows
<1>5. QueuesSorted /\ DispatchedInOrder /\ Cleared /\ DataHasRoom
  BY <1>3 DEF QueuesSorted, Sorted, DispatchedInOrder, Dispatched, Precede, Bounded,
              Cleared, DataHasRoom
<1>6. TypeOK
  <2>1. \A s \in {sched, sched2, schedm}, i \in 0 .. NS0 + NS1 + NSM :
          i \in DOMAIN s =>
            s[i] \in [u : Pos \cup {0}, waits : SUBSET Pos, older : SUBSET DOMAIN s]
    <3>1. ASSUME NEW n, NEW s, s \in Scheduler(n), NEW i \in DOMAIN s
          PROVE  s[i] \in [u : Pos \cup {0}, waits : SUBSET Pos, older : SUBSET DOMAIN s]
      BY <3>1 DEF Scheduler, SchedEntry
    <3>2. sched \in Scheduler(NS0) /\ sched2 \in Scheduler(NS1) /\ schedm \in Scheduler(NSM)
      BY <1>2 DEF Schedulers
    <3> QED
      BY <3>1, <3>2
  <2>0. <<>> \in Seq(Pos) /\ Len(<<>>) = 0 /\ 0 \leq NQ
    BY Sizes
  <2>2. \A q \in {r_uq, r_mem_uq, r_mem_dq, r_mdq} : q \in Seq(Pos) /\ Len(q) \leq NQ
    BY <2>0
  <2>3. 1 \in 1 .. LEN + 1
    BY Sizes
  <2> QED
    BY <2>1, <2>2, <2>3, Sizes DEF TypeOK
<1> QED
  BY <1>2, <1>4, <1>5, <1>6 DEF IInv

(* How the core moves its pointers.                                        *)
LEMMA Pointers ==
  ASSUME TypeOK
  PROVE  /\ next \in Nat /\ head \in Nat /\ base \in Nat /\ base >= 1
         /\ base <= head /\ head <= next /\ next <= LEN + 1
         /\ Retired \in Nat /\ head + Retired <= next
         /\ Mispredicted => head + 1 <= next
         /\ \A p \in Pos : Slot(p) \in 0 .. NROB - 1
<1>1. /\ next \in 1 .. LEN + 1 /\ head \in 1 .. LEN + 1 /\ base \in 1 .. LEN + 1
      /\ base \leq head /\ head \leq next
  BY DEF TypeOK
<1>2. HeadComplete(head) => head + 1 <= next
  BY <1>1, Sizes DEF HeadComplete
<1>3. HeadComplete(head + 1) => head + 2 <= next
  BY <1>1, Sizes DEF HeadComplete
<1>4. Retired \in Nat /\ head + Retired <= next
  BY <1>1, <1>2, <1>3, Sizes DEF Retired
<1>5. Mispredicted => head + 1 <= next
  BY <1>2 DEF Mispredicted
<1>6. \A p \in Pos : Slot(p) \in 0 .. NROB - 1
  BY <1>1, Sizes DEF Slot, Pos
<1> QED
  BY <1>1, <1>4, <1>5, <1>6, Sizes

LEMMA IInvNext == IInv /\ [Next]_vars => IInv'
<1> SUFFICES ASSUME IInv, [Next]_vars PROVE IInv'
  OBVIOUS
<1>0. TypeOK
  BY DEF IInv
<1>t. /\ mode \in {"ACTIVE", "DRAIN", "RAT"} /\ r_rob_inflight \subseteq 0 .. NROB - 1
      /\ {next, head, base} \subseteq 1 .. LEN + 1
  BY <1>0 DEF TypeOK
<1>p. /\ next \in Nat /\ head \in Nat /\ base \in Nat /\ base >= 1
      /\ base <= head /\ head <= next /\ next <= LEN + 1
      /\ Retired \in Nat /\ head + Retired <= next
      /\ Mispredicted => head + 1 <= next
      /\ \A p \in Pos : Slot(p) \in 0 .. NROB - 1
  BY <1>0, Pointers
<1>h. Handed(0)
  BY <1>p DEF Handed
<1>1. ASSUME NEW n \in 0 .. 2, NEW ans \in Answer, NEW ack, NEW dack,
             Active(n, ans, ack, dack)
      PROVE  IInv'
  <2>1. mode = "ACTIVE" /\ ~ds_done /\ Room(n) /\ Units(n, ans, ack, dack, FALSE)
        /\ mode' = mode /\ base' = base /\ next' = next + n /\ head' = head + Retired
    BY <1>1 DEF Active, ds_done
  <2>2. next + n \leq LEN + 1 /\ Handed(n)
    BY <2>1 DEF Handed, Room
  <2>3. New(n) \subseteq Pos
    BY <1>p, <2>2, Sizes DEF New, Pos
  <2>4. r_rob_inflight' \subseteq 0 .. NROB - 1
    BY <1>1, <1>t, <1>p, <2>3 DEF Active
  <2>5. next' \in 1 .. LEN + 1 /\ head' \in 1 .. LEN + 1 /\ head' \leq next' /\ base' \leq head'
    BY <1>p, <2>1, <2>2, Sizes
  <2>6. CoreTypes'
    BY <1>t, <2>1, <2>4, <2>5 DEF CoreTypes
  <2> QED
    BY <2>1, <2>2, <2>6, EdgeStep
<1>2. ASSUME NEW ans \in Answer, NEW ack, NEW dack, Recover(ans, ack, dack)
      PROVE  IInv'
  <2>1. mode = "ACTIVE" /\ Mispredicted /\ Units(0, ans, ack, dack, FALSE)
        /\ mode' = "DRAIN" /\ base' = base /\ next' = next /\ head' = head + 1
    BY <1>2 DEF Recover
  <2>2. r_rob_inflight' \subseteq 0 .. NROB - 1
    BY <1>2, <1>t DEF Recover
  <2>3. CoreTypes'
    BY <1>p, <2>1, <2>2, Sizes DEF CoreTypes
  <2>4. next' = next + 0
    BY <1>p, <2>1
  <2> QED
    BY <1>h, <2>1, <2>3, <2>4, EdgeStep
<1>3. ASSUME NEW ans \in Answer, NEW ack, NEW dack, Drain(ans, ack, dack)
      PROVE  IInv'
  <2>1. mode = "DRAIN" /\ ds_done /\ Units(0, ans, ack, dack, FALSE)
        /\ mode' \in {"RAT", "DRAIN"} /\ base' = base /\ next' = next /\ head' = head
    BY <1>3 DEF Drain, ds_done
  <2>2. r_rob_inflight' \subseteq 0 .. NROB - 1
    BY <1>3, <1>t DEF Drain, ClearedInflight
  <2>3. CoreTypes'
    BY <1>t, <1>p, <2>1, <2>2 DEF CoreTypes
  <2> QED
    BY <1>h, <2>1, <2>3, EdgeStep
<1>4. ASSUME NEW ans \in Answer, NEW ack, NEW dack, RatCopy(ans, ack, dack)
      PROVE  IInv'
  <2>1. PICK acked \in BOOLEAN : /\ Units(0, ans, ack, dack, acked)
                                 /\ mode' = IF acked THEN "ACTIVE" ELSE "RAT"
    BY <1>4 DEF RatCopy
  <2>2. mode = "RAT" /\ ds_done /\ next' = head /\ base' = head /\ head' = head
    BY <1>4 DEF RatCopy, ds_done
  <2>3. r_rob_inflight' \subseteq 0 .. NROB - 1
    BY <1>4, <1>t DEF RatCopy, ClearedInflight
  <2>4. CoreTypes'
    BY <1>t, <1>p, <2>1, <2>2, <2>3 DEF CoreTypes
  <2> QED
    BY <1>h, <2>1, <2>2, <2>4, EdgeStep
<1>5. CASE UNCHANGED vars
  <2> USE <1>5 DEF vars, corevars
  <2>1. TypeOK'
    BY <1>0 DEF TypeOK
  <2>2. Schedulers' /\ DataHasRoom' /\ QueuesSorted' /\ Cleared'
    BY DEF IInv, Schedulers, DataHasRoom, QueuesSorted, Sorted, Cleared, Valid
  <2>3. DispatchedInOrder' /\ OldestFirst'
    BY DEF IInv, DispatchedInOrder, Dispatched, Precede, Bounded, Valid, OldestFirst
  <2> QED
    BY <2>1, <2>2, <2>3 DEF IInv
<1> QED
  BY <1>1, <1>2, <1>3, <1>4, <1>5 DEF Next, Clock

THEOREM Invariance == Spec => []IInv
  BY IInvInit, IInvNext, PTL DEF Spec

(* Every queue keeps to its size, those filled by the core and the one     *)
(* store data enter a cycle after they were read (w_dq_ready); the core's  *)
(* pointers stay in order.                                                 *)
THEOREM ExecTypeCorrect == Spec => []TypeOK
<1>1. IInv => TypeOK
  BY DEF IInv
<1> QED
  BY <1>1, Invariance, PTL

(* The matrices of the schedulers order their entries by age, whatever     *)
(* entries are freed and taken in the same cycle: dispatch is in program   *)
(* order, and the entry that leaves is masked out of the one that enters.  *)
THEOREM PicksOldest == Spec => []OldestFirst
<1>1. IInv => OldestFirst
  BY DEF IInv
<1> QED
  BY <1>1, Invariance, PTL
=============================================================================

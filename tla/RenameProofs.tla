---------------------------- MODULE RenameProofs ----------------------------
(***************************************************************************)
(* Proofs about Rename, for every number of architectural registers,       *)
(* physical registers and reorder buffer entries.                          *)
(***************************************************************************)
EXTENDS Rename, FiniteSetTheorems, WellFoundedInduction, TLAPS

-----------------------------------------------------------------------------
(* The renaming state as a record, its type and its ring arithmetic.       *)
RecType ==
  [arat : [ARegs -> PRegs], rrat : [ARegs -> PRegs],
   free : SUBSET PRegs, rfree : SUBSET PRegs,
   rob : [Slots -> Entry], head : Ptrs, tail : Ptrs]

Size(s) == Occ(s.head, s.tail)
Nth(s, k) == s.rob[Slot(Adv(s.head, k))]

LEMMA RingStep ==
  ASSUME NEW h \in Ptrs, NEW t \in Ptrs
  PROVE  /\ Occ(h, t) \in Nat
         /\ Adv(t, 1) \in Ptrs /\ Slot(t) \in Slots
         /\ Occ(h, t) < NROB => Occ(h, Adv(t, 1)) = Occ(h, t) + 1
         /\ Occ(h, t) > 0 => Occ(Adv(h, 1), t) = Occ(h, t) - 1
         /\ \A k \in 0 .. NROB :
              /\ Adv(h, k) \in Ptrs
              /\ Slot(Adv(h, k)) \in Slots
              /\ Adv(Adv(h, 1), k) = Adv(h, k + 1)
  BY RenameAssumption DEF Ptrs, Slots, Occ, Adv, Slot

(* The tail's slot is the one no live entry occupies.                      *)
LEMMA TailIsFree ==
  ASSUME NEW h \in Ptrs, NEW t \in Ptrs, Occ(h, t) < NROB
  PROVE  /\ Slot(Adv(h, Occ(h, t))) = Slot(t)
         /\ \A k \in 0 .. Occ(h, t) - 1 : Slot(Adv(h, k)) # Slot(t)
  BY RenameAssumption DEF Ptrs, Slots, Occ, Adv, Slot

(* find_first_set finds a member of any nonempty set of registers.         *)
LEMMA FirstSetMember ==
  ASSUME NEW S \in SUBSET PRegs, S # {}
  PROVE  find_first_set(S) \in S
<1> DEFINE T == {NPRF - p : p \in S}
           R == OpToRel(<, Nat)
<1>0. NPRF \in Nat /\ \A p \in S : p \in Nat /\ p < NPRF
  BY RenameAssumption DEF PRegs
<1>1. T \subseteq Nat /\ T # {}
  BY <1>0
<1>2. IsWellFoundedOn(R, Nat)
  BY NatLessThanWellFounded
<1>3. \A y, z \in Nat : y < z => <<y, z>> \in R
  BY DEF OpToRel
<1> HIDE DEF R
<1>4. PICK x \in T : \A y \in T : ~ (<<y, x>> \in R)
  BY <1>1, <1>2, WFMin, Zenon
<1>5. PICK p \in S : x = NPRF - p
  OBVIOUS
<1>6. \A q \in S : ~ (NPRF - q < x)
  BY <1>1, <1>3, <1>4
<1>7. \A q \in S : q <= p
  BY <1>5, <1>6, RenameAssumption DEF PRegs
<1>8. find_first_set(S) = CHOOSE m \in S : \A q \in S : q <= m
  BY DEF find_first_set
<1> QED
  BY <1>7, <1>8, Zenon

LEMMA FirstSetType ==
  ASSUME NEW S \in SUBSET PRegs
  PROVE  find_first_set(S) \in PRegs
<1>1. CASE S = {}
  BY <1>1, RenameAssumption DEF find_first_set, PRegs
<1>2. CASE S # {}
  BY <1>2, FirstSetMember
<1> QED
  BY <1>1, <1>2

(* A destination names at most one register, never the zero register.      *)
LEMMA DstMember ==
  ASSUME NEW d \in Dsts, d # {}
  PROVE  RegOf(d) \in ARegs \ {Zero}
  BY DEF Dsts, RegOf

-----------------------------------------------------------------------------
(* What one allocation does, field by field.                               *)
NewEntry(s, d, p) ==
  IF d = {} THEN NoDst
  ELSE [valid_dst |-> TRUE, ldst |-> RegOf(d), pdst |-> p,
        old_pdst |-> s.arat[RegOf(d)]]

Allocated(s, d, p, u) ==
  /\ u \in RecType
  /\ u.rrat = s.rrat /\ u.rfree = s.rfree
  /\ u.head = s.head /\ u.tail = Adv(s.tail, 1)
  /\ u.rob = [s.rob EXCEPT ![Slot(s.tail)] = NewEntry(s, d, p)]
  /\ u.arat = IF d = {} THEN s.arat ELSE [s.arat EXCEPT ![RegOf(d)] = p]
  /\ u.free = IF d = {} THEN s.free ELSE s.free \ {p}
  /\ NewEntry(s, d, p) \in Entry

LEMMA AllocFields ==
  ASSUME NEW s \in RecType, NEW d \in Dsts, NEW p \in PRegs
  PROVE  Allocated(s, d, p, Alloc(s, d, p))
<1> DEFINE u == Alloc(s, d, p)
           e == NewEntry(s, d, p)
<1>1. Slot(s.tail) \in Slots /\ Adv(s.tail, 1) \in Ptrs
  BY RingStep DEF RecType
<1>2. e \in Entry
  BY DstMember, RenameAssumption DEF NewEntry, NoDst, Entry, ARegs, PRegs, RecType
<1>3. CASE d = {}
  <2>1. e = NoDst
    BY <1>3 DEF NewEntry
  <2>2. u = [s EXCEPT !.rob[Slot(s.tail)] = e, !.tail = Adv(@, 1)]
    BY <1>3, <2>1 DEF Alloc
  <2> HIDE DEF e, u
  <2>3. /\ u.arat = s.arat /\ u.rrat = s.rrat
        /\ u.free = s.free /\ u.rfree = s.rfree
        /\ u.rob = [s.rob EXCEPT ![Slot(s.tail)] = e]
        /\ u.head = s.head /\ u.tail = Adv(s.tail, 1)
        /\ u = [arat |-> u.arat, rrat |-> u.rrat, free |-> u.free,
                rfree |-> u.rfree, rob |-> u.rob, head |-> u.head, tail |-> u.tail]
    BY <2>2 DEF RecType
  <2>4. u \in RecType
    BY <1>1, <1>2, <2>3 DEF RecType
  <2>5. Allocated(s, d, p, u)
    BY <1>2, <1>3, <2>3, <2>4 DEF e, Allocated
  <2> QED
    BY <2>5 DEF u
<1>4. CASE d # {}
  <2>1. RegOf(d) \in ARegs
    BY <1>4, DstMember
  <2>2. u = [s EXCEPT !.arat[RegOf(d)] = p, !.free = @ \ {p},
                      !.rob[Slot(s.tail)] = e, !.tail = Adv(@, 1)]
    BY <1>4 DEF Alloc, NewEntry
  <2> HIDE DEF e, u
  <2>3. /\ u.arat = [s.arat EXCEPT ![RegOf(d)] = p] /\ u.rrat = s.rrat
        /\ u.free = s.free \ {p} /\ u.rfree = s.rfree
        /\ u.rob = [s.rob EXCEPT ![Slot(s.tail)] = e]
        /\ u.head = s.head /\ u.tail = Adv(s.tail, 1)
        /\ u = [arat |-> u.arat, rrat |-> u.rrat, free |-> u.free,
                rfree |-> u.rfree, rob |-> u.rob, head |-> u.head, tail |-> u.tail]
    BY <2>2 DEF RecType
  <2>4. u \in RecType
    BY <1>1, <1>2, <2>1, <2>3 DEF RecType
  <2>5. Allocated(s, d, p, u)
    BY <1>2, <1>4, <2>3, <2>4 DEF e, Allocated
  <2> QED
    BY <2>5 DEF u
<1> QED
  BY <1>3, <1>4

(* What one retirement does, field by field.                               *)
LEMMA RetireFields ==
  ASSUME NEW s \in RecType, NEW u, u = Retire(s),
         NEW e, e = s.rob[Slot(s.head)]
  PROVE  /\ u \in RecType
         /\ u.arat = s.arat /\ u.rob = s.rob
         /\ u.head = Adv(s.head, 1) /\ u.tail = s.tail
         /\ ~ e.valid_dst => /\ u.rrat = s.rrat /\ u.rfree = s.rfree
                             /\ u.free = s.free
         /\ e.valid_dst => /\ u.rrat = [s.rrat EXCEPT ![e.ldst] = e.pdst]
                           /\ u.rfree = (s.rfree \ {e.pdst}) \cup {e.old_pdst}
                           /\ u.free = s.free \cup {e.old_pdst}
<1>1. Slot(s.head) \in Slots /\ Adv(s.head, 1) \in Ptrs
  BY RingStep DEF RecType
<1>2. e \in Entry
  BY <1>1 DEF RecType
<1>3. CASE ~ e.valid_dst
  BY <1>1, <1>3 DEF Retire, RecType
<1>4. CASE e.valid_dst
  BY <1>1, <1>2, <1>4 DEF Retire, RecType, Entry
<1> QED
  BY <1>3, <1>4

(* The types of the record, with at most NROB entries in the buffer.       *)
Typed(s) == s \in RecType /\ Size(s) <= NROB

LEMMA AllocTyped ==
  ASSUME NEW s, Typed(s), Size(s) < NROB, NEW d \in Dsts, NEW p \in PRegs
  PROVE  LET u == Alloc(s, d, p) IN
         /\ Typed(u) /\ Size(u) = Size(s) + 1
         /\ \A k \in 0 .. Size(s) - 1 : Nth(u, k) = Nth(s, k)
         /\ Nth(u, Size(s)) = NewEntry(s, d, p)
<1> DEFINE u == Alloc(s, d, p)
<1>2. s \in RecType /\ s.head \in Ptrs /\ s.tail \in Ptrs
  BY DEF Typed, RecType
<1>3. /\ u \in RecType /\ u.head = s.head /\ u.tail = Adv(s.tail, 1)
      /\ u.rob = [s.rob EXCEPT ![Slot(s.tail)] = NewEntry(s, d, p)]
  <2>1. Allocated(s, d, p, u)
    BY <1>2, AllocFields
  <2> QED
    BY <2>1 DEF Allocated
<1> HIDE DEF u
<1>4. Size(u) = Size(s) + 1 /\ Size(s) \in Nat
  BY <1>2, <1>3, RingStep DEF Size
<1>5. /\ Slot(Adv(s.head, Size(s))) = Slot(s.tail)
      /\ \A k \in 0 .. Size(s) - 1 : /\ Slot(Adv(s.head, k)) # Slot(s.tail)
                                     /\ Slot(Adv(s.head, k)) \in Slots
  <2>1. /\ Slot(Adv(s.head, Size(s))) = Slot(s.tail)
        /\ \A k \in 0 .. Size(s) - 1 : Slot(Adv(s.head, k)) # Slot(s.tail)
    BY <1>2, TailIsFree DEF Size
  <2>2. \A k \in 0 .. Size(s) - 1 : k \in 0 .. NROB
    BY <1>4, RenameAssumption
  <2> QED
    BY <1>2, <2>1, <2>2, RingStep
<1>6. s.rob \in [Slots -> Entry] /\ Slot(s.tail) \in Slots
  BY <1>2, RingStep DEF RecType
<1>7. /\ \A k \in 0 .. Size(s) - 1 : Nth(u, k) = Nth(s, k)
      /\ Nth(u, Size(s)) = NewEntry(s, d, p)
  BY <1>3, <1>5, <1>6 DEF Nth
<1>8. Typed(u)
  BY <1>3, <1>4, RenameAssumption DEF Typed
<1> QED
  BY <1>4, <1>7, <1>8 DEF u

LEMMA RetireTyped ==
  ASSUME NEW s, Typed(s), Size(s) > 0
  PROVE  LET u == Retire(s) IN
         /\ Typed(u) /\ Size(u) = Size(s) - 1
         /\ \A k \in 0 .. Size(s) - 2 : Nth(u, k) = Nth(s, k + 1)
         /\ Nth(s, 0) = s.rob[Slot(s.head)]
<1> DEFINE u == Retire(s)
<1>1. s \in RecType /\ s.head \in Ptrs /\ s.tail \in Ptrs
  BY DEF Typed, RecType
<1>2. /\ u \in RecType /\ u.rob = s.rob
      /\ u.head = Adv(s.head, 1) /\ u.tail = s.tail
  BY <1>1, RetireFields
<1> HIDE DEF u
<1>3. Size(u) = Size(s) - 1 /\ Size(s) \in Nat
  BY <1>1, <1>2, RingStep DEF Size
<1>4. \A k \in 0 .. Size(s) - 2 : Nth(u, k) = Nth(s, k + 1)
  <2> TAKE k \in 0 .. Size(s) - 2
  <2>1. k \in 0 .. NROB
    BY <1>3, RenameAssumption DEF Typed
  <2>2. Adv(u.head, k) = Adv(s.head, k + 1)
    BY <1>1, <1>2, <2>1, RingStep
  <2> QED
    BY <1>2, <2>2 DEF Nth
<1>5. Adv(s.head, 0) = s.head
  BY <1>1, RenameAssumption DEF Adv, Ptrs
<1>6. Typed(u)
  BY <1>2, <1>3, RenameAssumption DEF Typed
<1> QED
  BY <1>3, <1>4, <1>5, <1>6 DEF u, Nth

-----------------------------------------------------------------------------
(* Type correctness of the specification.                                  *)
LEMMA StateTyped == TypeOK <=> /\ Typed(State) /\ r_bank_sel \in {0, 1}
                               /\ recovering \in BOOLEAN
  BY DEF TypeOK, Typed, State, RecType, Size

LEMMA EntryType ==
  ASSUME TypeOK, NEW slot
  PROVE  n_prf_entry(slot) \in PRegs
  BY FirstSetType DEF TypeOK, n_prf_entry

LEMMA LatchState ==
  ASSUME NEW u \in RecType, Latch(u), r_bank_sel \in {0, 1}
  PROVE  State' = u /\ r_bank_sel' \in {0, 1}
  BY DEF Latch, State, RecType

(* A group of allocations, then of retirements, keeps any property that    *)
(* single ones keep; here it is the type.                                  *)
LEMMA RunTyped ==
  ASSUME TypeOK, NEW ds \in Groups, CanAlloc(ds), NEW n \in 0 .. 2, CanRetire(n)
  PROVE  Typed(RetireN(AllocN(State, ds), n))
<1> DEFINE a == AllocN(State, ds)
<1>0. Typed(State) /\ Size(State) \in Nat /\ Size(State) >= n
  BY StateTyped, RingStep DEF CanRetire, State, Size, TypeOK
<1>1. Typed(a) /\ Size(a) \in Nat /\ Size(a) >= n
  <2>1. CASE ds = <<>>
    BY <1>0, <2>1 DEF AllocN
  <2>2. CASE \E d \in Dsts : ds = <<d>>
    <3> PICK d \in Dsts : ds = <<d>>
      BY <2>2
    <3>1. Size(State) < NROB
      BY <1>0, RenameAssumption DEF CanAlloc, Size, State
    <3> QED
      BY <1>0, <3>1, AllocTyped, EntryType DEF AllocN
  <2>3. CASE \E d, e \in Dsts : ds = <<d, e>>
    <3> PICK d \in Dsts, e \in Dsts : ds = <<d, e>>
      BY <2>3
    <3>1. Size(State) + 2 <= NROB
      BY DEF CanAlloc, Size, State
    <3> DEFINE b == Alloc(State, d, n_prf_entry(1))
    <3>2. Typed(b) /\ Size(b) = Size(State) + 1
      BY <1>0, <3>1, AllocTyped, EntryType, RenameAssumption
    <3> HIDE DEF b
    <3>3. LET c == Alloc(b, e, n_prf_entry(2))
          IN  Typed(c) /\ Size(c) = Size(b) + 1
      BY <1>0, <3>1, <3>2, AllocTyped, EntryType, RenameAssumption
    <3> QED
      BY <1>0, <3>2, <3>3 DEF AllocN, b
  <2> QED
    BY <2>1, <2>2, <2>3 DEF Groups
<1> HIDE DEF a
<1>2. CASE n = 0
  BY <1>1, <1>2 DEF RetireN, a
<1>3. CASE n = 1
  BY <1>1, <1>3, RetireTyped DEF RetireN, a
<1>4. CASE n = 2
  <2>1. Typed(Retire(a)) /\ Size(Retire(a)) > 0
    BY <1>1, <1>4, RetireTyped
  <2> QED
    BY <1>4, <2>1, RetireTyped DEF RetireN, a
<1> QED
  BY <1>2, <1>3, <1>4

(* Every step leaves a value of the record type with room to spare.        *)
LEMMA TypeStep == TypeOK /\ [Next]_rnvars => TypeOK'
<1> SUFFICES ASSUME TypeOK, [Next]_rnvars PROVE TypeOK'
  OBVIOUS
<1>0. /\ Typed(State) /\ r_bank_sel \in {0, 1} /\ recovering \in BOOLEAN
      /\ State.head = r_rob_head_ptr /\ State.tail = r_rob_tail_ptr
  BY StateTyped DEF State
<1>1. ASSUME NEW u, Typed(u), Latch(u), recovering' \in BOOLEAN
      PROVE  TypeOK'
  <2>1. State' = u /\ r_bank_sel' \in {0, 1}
    BY <1>0, <1>1, LatchState DEF Typed
  <2>2. Typed(State')
    BY <1>1, <2>1
  <2> QED
    BY <1>1, <2>1, <2>2 DEF TypeOK, Typed, State, RecType, Size
<1>2. ASSUME NEW ds \in Groups, NEW n \in 0 .. 2, Run(ds, n)
      PROVE  TypeOK'
  BY <1>0, <1>1, <1>2, RunTyped DEF Run
<1>3. ASSUME NEW d \in Dsts, SerialAlloc(d)
      PROVE  TypeOK'
  <2>1. Size(State) < NROB
    BY <1>0, <1>3, RenameAssumption DEF SerialAlloc, Size
  <2> QED
    BY <1>0, <1>1, <1>3, <2>1, AllocTyped, EntryType DEF SerialAlloc
<1>4. ASSUME NEW n \in 0 .. 1, Flush(n)
      PROVE  TypeOK'
  <2>1. Size(State) > 0
    BY <1>0, <1>4 DEF Flush, Size
  <2>2. Typed(RetireN(State, n))
    BY <1>0, <2>1, RetireTyped DEF RetireN
  <2> QED
    BY <1>1, <1>4, <2>2 DEF Flush
<1>5. CASE BumpHead
  <2> DEFINE u == [State EXCEPT !.head = Adv(@, 1)]
  <2>1. /\ u \in RecType /\ u.head = Adv(State.head, 1) /\ u.tail = State.tail
    BY <1>0, RingStep DEF Typed, RecType
  <2>2. Size(u) = Size(State) - 1 /\ Size(State) \in Nat
    BY <1>0, <1>5, <2>1, RingStep DEF BumpHead, Size, Typed, RecType
  <2>3. Typed(u)
    BY <1>0, <2>1, <2>2, RenameAssumption DEF Typed
  <2> QED
    BY <1>0, <1>1, <1>5, <2>3 DEF BumpHead
<1>6. CASE RatCopy
  <2> DEFINE u == [State EXCEPT !.arat = r_retire_rat, !.free = r_retire_prf_free,
                                !.head = 0, !.tail = 0]
  <2>0. 0 \in Ptrs /\ r_retire_rat \in [ARegs -> PRegs]
        /\ r_retire_prf_free \in SUBSET PRegs
    BY RenameAssumption DEF Ptrs, TypeOK
  <2>1. u \in RecType /\ u.head = 0 /\ u.tail = 0
    BY <1>0, <2>0 DEF Typed, RecType
  <2>2. Typed(u)
    BY <2>1, RenameAssumption DEF Typed, Size, Occ
  <2> QED
    BY <1>1, <1>6, <2>2 DEF RatCopy
<1>7. CASE Drain
  BY <1>0, <1>1, <1>7 DEF Drain
<1>8. CASE UNCHANGED rnvars
  BY <1>8 DEF rnvars, TypeOK, Occ
<1> QED
  BY <1>2, <1>3, <1>4, <1>5, <1>6, <1>7, <1>8 DEF Next

LEMMA TypeInit == Init => TypeOK
<1> SUFFICES ASSUME Init PROVE TypeOK
  OBVIOUS
<1>1. InitRat \in [ARegs -> PRegs]
  BY RenameAssumption DEF InitRat, ARegs, PRegs, Zero
<1>2. NoDst \in Entry
  BY RenameAssumption DEF NoDst, Entry, ARegs, PRegs
<1>3. NARCH .. NPRF - 1 \subseteq PRegs
  BY RenameAssumption DEF PRegs
<1>4. 0 \in Ptrs /\ Occ(0, 0) <= NROB
  BY RenameAssumption DEF Ptrs, Occ
<1> QED
  BY <1>1, <1>2, <1>3, <1>4 DEF Init, TypeOK

(* Every register, map and pointer of core.sv's renaming stays in its      *)
(* range, and the buffer never holds more than NROB entries.               *)
THEOREM TypeCorrect == Spec => []TypeOK
  BY TypeInit, TypeStep, PTL DEF Spec

-----------------------------------------------------------------------------
(* The inductive invariant.  The maps along the buffer are the key: there  *)
(* is one register map before each uop in flight, from the architectural   *)
(* map to the speculative one, and each uop turns its map into the next by *)
(* giving its destination a register that the map does not name.           *)
Rats == [ARegs -> PRegs]
OneToOne(f) == \A r, q \in ARegs : f[r] = f[q] => r = q

Renames(e, f, g) ==
  IF e.valid_dst
  THEN /\ e.old_pdst = f[e.ldst]
       /\ e.pdst \notin RangeOf(f)
       /\ g = [f EXCEPT ![e.ldst] = e.pdst]
  ELSE g = f

History(s, M) ==
  /\ M \in [0 .. Size(s) -> Rats]
  /\ M[0] = s.rrat /\ M[Size(s)] = s.arat
  /\ \A k \in 0 .. Size(s) - 1 : Renames(Nth(s, k), M[k], M[k + 1])

Olds(s) ==
  {Nth(s, k).old_pdst : k \in {j \in 0 .. Size(s) - 1 : Nth(s, j).valid_dst}}

(* Every register has one owner.                                           *)
Owned(s) ==
  /\ s.free \cup RangeOf(s.arat) \cup Olds(s) = PRegs
  /\ s.free \cap RangeOf(s.arat) = {}
  /\ s.free \cap Olds(s) = {}
  /\ RangeOf(s.arat) \cap Olds(s) = {}
  /\ OneToOne(s.arat)
  /\ \A j, k \in 0 .. Size(s) - 1 :
       Nth(s, j).valid_dst /\ Nth(s, k).valid_dst
         /\ Nth(s, j).old_pdst = Nth(s, k).old_pdst => j = k

(* The architectural side is complete on its own.                          *)
Exact(s) == s.rfree = PRegs \ RangeOf(s.rrat) /\ OneToOne(s.rrat)

(* Nothing touches register 0.                                             *)
Pinned(s) ==
  /\ s.arat[Zero] = 0 /\ s.rrat[Zero] = 0
  /\ 0 \notin s.free /\ 0 \notin s.rfree
  /\ \A k \in 0 .. Size(s) - 1 :
       Nth(s, k).valid_dst =>
         /\ Nth(s, k).pdst # 0 /\ Nth(s, k).old_pdst # 0
         /\ Nth(s, k).ldst # Zero

Sound(s) ==
  Typed(s) /\ Owned(s) /\ Exact(s) /\ Pinned(s) /\ \E M : History(s, M)

(* The free lists and maps are sound whenever the core runs, and what      *)
(* recovery starts from is sound all the time.  Inductive as long as no    *)
(* serializing uop is given register 0.                                    *)
IInv ==
  /\ TypeOK
  /\ Exact(State) /\ Pinned(State) /\ OneToOne(State.arat)
  /\ ~ recovering => Sound(State)

(* What is left when one is.  The buffer was empty, so the uop that has    *)
(* register 0 is at the head until it retires (AtHead); until then the     *)
(* architectural side is intact and a flush repairs the rest.  When it has *)
(* retired, register 0 is the name of a register that is not Zero, or      *)
(* free, and stays so (Gone): that each uop replaces the name the map      *)
(* before it had (Trail) is enough for it.                                 *)
Replaces(e, f, g) ==
  IF e.valid_dst
  THEN /\ e.ldst # Zero /\ e.old_pdst = f[e.ldst]
       /\ g = [f EXCEPT ![e.ldst] = e.pdst]
  ELSE g = f

Trail(s, M) ==
  /\ M \in [0 .. Size(s) -> Rats]
  /\ M[0] = s.rrat /\ M[Size(s)] = s.arat
  /\ \A k \in 0 .. Size(s) - 1 : Replaces(Nth(s, k), M[k], M[k + 1])

Chained(s) == Typed(s) /\ \E M : Trail(s, M)
Gone(s)    == 0 \in s.rfree \/ \E r \in ARegs \ {Zero} : s.rrat[r] = 0
AtHead(s)  == Size(s) > 0 /\ Nth(s, 0).valid_dst /\ Nth(s, 0).pdst = 0
Intact(s)  == Exact(s) /\ s.rrat[Zero] = 0 /\ 0 \notin s.rfree

Good(s) == Sound(s) \/ (Chained(s) /\ (Gone(s) \/ (AtHead(s) /\ Intact(s))))

(* The inductive invariant of every behaviour.                             *)
GInv ==
  /\ TypeOK
  /\ Gone(State) \/ Intact(State)
  /\ ~ recovering => Good(State)

-----------------------------------------------------------------------------
(* Giving one register a new name replaces exactly its old one.            *)
LEMMA RangeUpdate ==
  ASSUME NEW f \in Rats, OneToOne(f), NEW l \in ARegs, NEW p \in PRegs,
         p \notin RangeOf(f), NEW g, g = [f EXCEPT ![l] = p]
  PROVE  /\ g \in Rats /\ OneToOne(g)
         /\ RangeOf(g) = (RangeOf(f) \ {f[l]}) \cup {p}
         /\ f[l] \in RangeOf(f) /\ f[l] # p
<1>1. /\ \A q \in ARegs : f[q] \in PRegs /\ f[q] \in RangeOf(f)
      /\ DOMAIN f = ARegs /\ g \in Rats /\ DOMAIN g = ARegs
      /\ \A q \in ARegs : g[q] = IF q = l THEN p ELSE f[q]
  BY DEF Rats, RangeOf
<1>2. OneToOne(g)
  BY <1>1 DEF OneToOne
<1>3. RangeOf(g) \subseteq (RangeOf(f) \ {f[l]}) \cup {p}
  BY <1>1 DEF RangeOf, OneToOne
<1>4. (RangeOf(f) \ {f[l]}) \cup {p} \subseteq RangeOf(g)
  BY <1>1 DEF RangeOf
<1> QED
  BY <1>1, <1>2, <1>3, <1>4

LEMMA EntryFields ==
  ASSUME NEW s, Typed(s), NEW k \in 0 .. Size(s) - 1
  PROVE  Nth(s, k) \in Entry
<1>1. s \in RecType /\ s.head \in Ptrs /\ Size(s) <= NROB /\ Size(s) \in Nat
  BY RingStep DEF Typed, RecType, Size
<1>2. k \in 0 .. NROB
  BY <1>1, RenameAssumption
<1> QED
  BY <1>1, <1>2, RingStep DEF Nth, RecType

(* Allocating a register from the free list keeps everything.              *)
LEMMA AllocSound ==
  ASSUME NEW s, Sound(s), Size(s) < NROB, NEW d \in Dsts, NEW p \in PRegs,
         d # {} => p \in s.free
  PROVE  LET u == Alloc(s, d, p) IN Sound(u) /\ Size(u) = Size(s) + 1
<1> DEFINE u == Alloc(s, d, p)
           N == Size(s)
           e == NewEntry(s, d, p)
           r == RegOf(d)
<1>1. /\ Typed(u) /\ Size(u) = N + 1 /\ Nth(u, N) = e
      /\ \A k \in 0 .. N - 1 : Nth(u, k) = Nth(s, k)
  BY AllocTyped DEF Sound
<1>2. Allocated(s, d, p, u)
  BY AllocFields DEF Sound, Typed
<1>3. s \in RecType /\ N \in Nat /\ s.arat \in Rats /\ s.rrat \in Rats
  BY RingStep DEF Sound, Typed, RecType, Size, Rats
<1> HIDE DEF u, N
<1>4. CASE d = {}
  <2>1. /\ u.arat = s.arat /\ u.rrat = s.rrat /\ u.free = s.free
        /\ u.rfree = s.rfree /\ ~ e.valid_dst
    BY <1>2, <1>4 DEF Allocated, NewEntry, NoDst
  <2>2. Olds(u) = Olds(s)
    BY <1>1, <1>3, <2>1 DEF Olds, N
  <2>3. Owned(u)
    BY <1>1, <1>3, <2>1, <2>2 DEF Owned, Sound, N
  <2>4. Exact(u) /\ Pinned(u)
    BY <1>1, <1>3, <2>1 DEF Exact, Pinned, Sound, N
  <2>5. \E M : History(u, M)
    <3> PICK M : History(s, M)
      BY DEF Sound
    <3> DEFINE L == [k \in 0 .. N + 1 |-> IF k <= N THEN M[k] ELSE u.arat]
    <3>1. L \in [0 .. N + 1 -> Rats] /\ L[0] = u.rrat /\ L[N + 1] = u.arat
      BY <1>3, <2>1 DEF History, N
    <3>2. \A k \in 0 .. N - 1 : Renames(Nth(u, k), L[k], L[k + 1])
      BY <1>1, <1>3 DEF History, N
    <3>3. Renames(e, s.arat, u.arat)
      BY <2>1 DEF Renames
    <3>4. L[N] = s.arat /\ L[N + 1] = u.arat
      BY <1>3 DEF History, N
    <3> HIDE DEF L, e
    <3>5. \A k \in 0 .. N : Renames(Nth(u, k), L[k], L[k + 1])
      BY <1>1, <1>3, <3>2, <3>3, <3>4
    <3>6. Size(u) = N + 1 /\ 0 .. Size(u) - 1 = 0 .. N
      BY <1>1, <1>3
    <3> QED
      BY <3>1, <3>5, <3>6 DEF History
  <2> QED
    BY <1>1, <2>3, <2>4, <2>5 DEF Sound, u, N
<1>5. CASE d # {}
  <2>0. r \in ARegs /\ r # Zero /\ Zero \in ARegs
    BY <1>5, DstMember, RenameAssumption DEF ARegs, Zero
  <2> HIDE DEF r
  <2>1. /\ u.arat = [s.arat EXCEPT ![r] = p] /\ u.rrat = s.rrat
        /\ u.free = s.free \ {p} /\ u.rfree = s.rfree
        /\ e.valid_dst /\ e.ldst = r /\ e.pdst = p /\ e.old_pdst = s.arat[r]
    BY <1>2, <1>5 DEF Allocated, NewEntry, r
  <2> HIDE DEF e
  <2>2. /\ p \in s.free /\ p \notin RangeOf(s.arat) /\ OneToOne(s.arat)
        /\ s.arat[r] \in RangeOf(s.arat)
    BY <1>3, <1>5, <2>0 DEF Sound, Owned, RangeOf, Rats
  <2>3. /\ u.arat \in Rats /\ OneToOne(u.arat) /\ s.arat[r] # p
        /\ RangeOf(u.arat) = (RangeOf(s.arat) \ {s.arat[r]}) \cup {p}
    BY <1>3, <2>0, <2>1, <2>2, RangeUpdate
  <2>4. Olds(u) = Olds(s) \cup {s.arat[r]}
    BY <1>1, <1>3, <2>1 DEF Olds, N
  <2>5. \A k \in 0 .. N - 1 : Nth(s, k).valid_dst => Nth(s, k).old_pdst \in Olds(s)
    BY DEF Olds, N
  <2>6. Owned(u)
    <3>1. /\ s.free \cup RangeOf(s.arat) \cup Olds(s) = PRegs
          /\ s.free \cap RangeOf(s.arat) = {} /\ s.free \cap Olds(s) = {}
          /\ RangeOf(s.arat) \cap Olds(s) = {}
      BY DEF Sound, Owned
    <3>2. /\ u.free \cup RangeOf(u.arat) \cup Olds(u) = PRegs
          /\ u.free \cap RangeOf(u.arat) = {} /\ u.free \cap Olds(u) = {}
          /\ RangeOf(u.arat) \cap Olds(u) = {}
      BY <2>1, <2>2, <2>3, <2>4, <3>1
    <3>3. \A j, k \in 0 .. N :
            Nth(u, j).valid_dst /\ Nth(u, k).valid_dst
              /\ Nth(u, j).old_pdst = Nth(u, k).old_pdst => j = k
      BY <1>1, <1>3, <2>1, <2>2, <2>5, <3>1 DEF Sound, Owned, N
    <3> QED
      BY <1>1, <1>3, <2>3, <3>2, <3>3 DEF Owned
  <2>7. Exact(u) /\ Pinned(u)
    <3>1. p # 0 /\ s.arat[r] # 0
      BY <2>0, <2>2 DEF Sound, Pinned, OneToOne
    <3>2. u.arat[Zero] = 0
      BY <1>3, <2>0, <2>1 DEF Sound, Pinned, Rats
    <3> QED
      BY <1>1, <1>3, <2>0, <2>1, <3>1, <3>2 DEF Exact, Pinned, Sound, N
  <2>8. \E M : History(u, M)
    <3> PICK M : History(s, M)
      BY DEF Sound
    <3> DEFINE L == [k \in 0 .. N + 1 |-> IF k <= N THEN M[k] ELSE u.arat]
    <3>1. L \in [0 .. N + 1 -> Rats] /\ L[0] = u.rrat /\ L[N + 1] = u.arat
      BY <1>3, <2>1, <2>3 DEF History, N
    <3>2. \A k \in 0 .. N - 1 : Renames(Nth(u, k), L[k], L[k + 1])
      BY <1>1, <1>3 DEF History, N
    <3>3. Renames(e, s.arat, u.arat)
      BY <2>1, <2>2 DEF Renames
    <3>4. L[N] = s.arat /\ L[N + 1] = u.arat
      BY <1>3 DEF History, N
    <3> HIDE DEF L
    <3>5. \A k \in 0 .. N : Renames(Nth(u, k), L[k], L[k + 1])
      BY <1>1, <1>3, <3>2, <3>3, <3>4
    <3>6. Size(u) = N + 1 /\ 0 .. Size(u) - 1 = 0 .. N
      BY <1>1, <1>3
    <3> QED
      BY <3>1, <3>5, <3>6 DEF History
  <2> QED
    BY <1>1, <2>6, <2>7, <2>8 DEF Sound, u, N
<1> QED
  BY <1>4, <1>5

(* Retiring the oldest uop keeps everything.                               *)
LEMMA RetireSound ==
  ASSUME NEW s, Sound(s), Size(s) > 0
  PROVE  LET u == Retire(s) IN Sound(u) /\ Size(u) = Size(s) - 1
<1> DEFINE u == Retire(s)
           N == Size(s)
           e == Nth(s, 0)
           l == e.ldst
           p == e.pdst
           o == e.old_pdst
<1>1. /\ Typed(u) /\ Size(u) = N - 1 /\ e = s.rob[Slot(s.head)]
      /\ \A k \in 0 .. N - 2 : Nth(u, k) = Nth(s, k + 1)
  BY RetireTyped DEF Sound
<1>2. /\ s \in RecType /\ N \in Nat /\ N > 0 /\ 0 \in 0 .. N - 1
      /\ s.arat \in Rats /\ s.rrat \in Rats
  BY RingStep DEF Sound, Typed, RecType, Size, Rats
<1>3. e \in Entry /\ l \in ARegs /\ p \in PRegs /\ o \in PRegs
  BY <1>2, EntryFields DEF Sound, Entry
<1>4. /\ u.arat = s.arat
      /\ ~ e.valid_dst => /\ u.rrat = s.rrat /\ u.rfree = s.rfree
                          /\ u.free = s.free
      /\ e.valid_dst => /\ u.rrat = [s.rrat EXCEPT ![l] = p]
                        /\ u.rfree = (s.rfree \ {p}) \cup {o}
                        /\ u.free = s.free \cup {o}
  BY <1>1, <1>2, RetireFields
<1>5. PICK M : History(s, M)
  BY DEF Sound
<1>6. Renames(e, s.rrat, M[1]) /\ M[1] \in Rats
  BY <1>2, <1>5 DEF History
<1>7. \A k \in 0 .. N - 1 : k = 0 \/ (k - 1 \in 0 .. N - 2 /\ Nth(s, k) = Nth(u, k - 1))
  BY <1>1, <1>2
<1> HIDE DEF u, N
<1>8. u.rrat = M[1]
  BY <1>4, <1>6 DEF Renames
<1>9. \E L : History(u, L)
  <2> DEFINE L == [k \in 0 .. N - 1 |-> M[k + 1]]
  <2>1. /\ M \in [0 .. N -> Rats] /\ M[N] = s.arat
        /\ \A k \in 0 .. N - 1 : Renames(Nth(s, k), M[k], M[k + 1])
    BY <1>5 DEF History, N
  <2>2. L \in [0 .. N - 1 -> Rats] /\ L[0] = M[1] /\ L[N - 1] = s.arat
    BY <1>2, <2>1
  <2>3. \A k \in 0 .. N - 2 : Renames(Nth(u, k), L[k], L[k + 1])
    <3> TAKE k \in 0 .. N - 2
    <3>1. k + 1 \in 0 .. N - 1 /\ k \in 0 .. N - 1
      BY <1>2
    <3>2. L[k] = M[k + 1] /\ L[k + 1] = M[k + 1 + 1]
      BY <3>1
    <3> HIDE DEF L
    <3> QED
      BY <1>1, <2>1, <3>1, <3>2
  <2> HIDE DEF L
  <2>4. Size(u) = N - 1 /\ 0 .. Size(u) - 1 = 0 .. N - 2
    BY <1>1, <1>2
  <2> QED
    BY <1>4, <1>8, <2>2, <2>3, <2>4 DEF History
<1> HIDE DEF e
<1>10. CASE ~ e.valid_dst
  <2>1. u.rrat = s.rrat /\ u.rfree = s.rfree /\ u.free = s.free
    BY <1>4, <1>10
  <2>2. Olds(u) = Olds(s)
    <3>1. Olds(u) \subseteq Olds(s)
      BY <1>1, <1>2 DEF Olds, N
    <3>2. Olds(s) \subseteq Olds(u)
      BY <1>1, <1>2, <1>7, <1>10 DEF Olds, N, e
    <3> QED
      BY <3>1, <3>2
  <2>3. \A j, k \in 0 .. N - 2 :
          Nth(u, j).valid_dst /\ Nth(u, k).valid_dst
            /\ Nth(u, j).old_pdst = Nth(u, k).old_pdst => j = k
    BY <1>1, <1>2 DEF Sound, Owned, N
  <2>4. Owned(u)
    BY <1>1, <1>2, <1>4, <2>1, <2>2, <2>3 DEF Owned, Sound
  <2>5. Exact(u) /\ Pinned(u)
    BY <1>1, <1>2, <1>4, <2>1 DEF Exact, Pinned, Sound, N
  <2> QED
    BY <1>1, <1>9, <2>4, <2>5 DEF Sound, u, N
<1>11. CASE e.valid_dst
  <2>1. /\ o = s.rrat[l] /\ p \notin RangeOf(s.rrat)
        /\ u.rrat = [s.rrat EXCEPT ![l] = p]
        /\ u.rfree = (s.rfree \ {p}) \cup {o}
        /\ u.free = s.free \cup {o}
    BY <1>4, <1>6, <1>11 DEF Renames
  <2>2. p # 0 /\ o # 0 /\ l # Zero
    BY <1>2, <1>11 DEF Sound, Pinned, N, e
  <2> HIDE DEF l, p, o
  <2>3. OneToOne(s.rrat) /\ s.rfree = PRegs \ RangeOf(s.rrat)
    BY DEF Sound, Exact
  <2>4. /\ OneToOne(u.rrat) /\ o # p /\ o \in RangeOf(s.rrat)
        /\ RangeOf(u.rrat) = (RangeOf(s.rrat) \ {o}) \cup {p}
    BY <1>2, <1>3, <2>1, <2>3, RangeUpdate
  <2>5. Exact(u)
    BY <1>3, <2>1, <2>3, <2>4 DEF Exact
  <2>6. Olds(s) = Olds(u) \cup {o}
    <3>1. Olds(u) \subseteq Olds(s)
      BY <1>1, <1>2 DEF Olds, N
    <3>2. Olds(s) \subseteq Olds(u) \cup {o}
      BY <1>1, <1>2, <1>7, <1>11 DEF Olds, N, e, o
    <3>3. o \in Olds(s)
      BY <1>2, <1>11 DEF Olds, N, e, o
    <3> QED
      BY <3>1, <3>2, <3>3
  <2>7. \A j, k \in 0 .. N - 1 :
          Nth(s, j).valid_dst /\ Nth(s, k).valid_dst
            /\ Nth(s, j).old_pdst = Nth(s, k).old_pdst => j = k
    BY DEF Sound, Owned, N
  <2>8. o \notin Olds(u)
    <3> SUFFICES ASSUME NEW k \in 0 .. N - 2, Nth(u, k).valid_dst,
                        o = Nth(u, k).old_pdst
                 PROVE  FALSE
      <4>1. 0 .. Size(u) - 1 = 0 .. N - 2
        BY <1>1, <1>2
      <4> QED
        BY <4>1 DEF Olds
    <3>1. k + 1 \in 0 .. N - 1 /\ k + 1 # 0 /\ Nth(s, k + 1) = Nth(u, k)
      BY <1>1, <1>2
    <3> QED
      BY <1>2, <1>11, <2>7, <3>1 DEF e, o
  <2>9. \A j, k \in 0 .. N - 2 :
          Nth(u, j).valid_dst /\ Nth(u, k).valid_dst
            /\ Nth(u, j).old_pdst = Nth(u, k).old_pdst => j = k
    <3> TAKE j, k \in 0 .. N - 2
    <3>1. j + 1 \in 0 .. N - 1 /\ k + 1 \in 0 .. N - 1
      BY <1>2
    <3> QED
      BY <1>1, <2>7, <3>1
  <2>10. Owned(u)
    <3>1. /\ s.free \cup RangeOf(s.arat) \cup Olds(s) = PRegs
          /\ s.free \cap RangeOf(s.arat) = {} /\ s.free \cap Olds(s) = {}
          /\ RangeOf(s.arat) \cap Olds(s) = {} /\ OneToOne(s.arat)
      BY DEF Sound, Owned
    <3>2. /\ u.free \cup RangeOf(u.arat) \cup Olds(u) = PRegs
          /\ u.free \cap RangeOf(u.arat) = {} /\ u.free \cap Olds(u) = {}
          /\ RangeOf(u.arat) \cap Olds(u) = {} /\ OneToOne(u.arat)
      BY <1>4, <2>1, <2>6, <2>8, <3>1
    <3>3. 0 .. Size(u) - 1 = 0 .. N - 2
      BY <1>1, <1>2
    <3> QED
      BY <2>9, <3>2, <3>3 DEF Owned
  <2>11. Pinned(u)
    <3>1. u.rrat[Zero] = 0 /\ u.arat[Zero] = 0
      BY <1>2, <1>4, <2>1, <2>2, RenameAssumption
         DEF Sound, Pinned, Rats, ARegs, Zero
    <3>2. 0 \notin u.free /\ 0 \notin u.rfree
      BY <2>1, <2>2 DEF Sound, Pinned
    <3>3. \A k \in 0 .. N - 2 :
            Nth(u, k).valid_dst =>
              /\ Nth(u, k).pdst # 0 /\ Nth(u, k).old_pdst # 0
              /\ Nth(u, k).ldst # Zero
      BY <1>1, <1>2 DEF Sound, Pinned, N
    <3>4. 0 .. Size(u) - 1 = 0 .. N - 2
      BY <1>1, <1>2
    <3> QED
      BY <3>1, <3>2, <3>3, <3>4 DEF Pinned
  <2> QED
    BY <1>1, <1>9, <2>5, <2>10, <2>11 DEF Sound, u, N
<1> QED
  BY <1>10, <1>11

-----------------------------------------------------------------------------
(* The weaker facts that outlive the loss of register 0.                   *)
LEMMA SoundWeaker ==
  ASSUME NEW s, Sound(s)
  PROVE  Chained(s) /\ Intact(s)
<1>1. PICK M : History(s, M)
  BY DEF Sound
<1>2. \A k \in 0 .. Size(s) - 1 : Replaces(Nth(s, k), M[k], M[k + 1])
  BY <1>1 DEF Sound, Pinned, History, Renames, Replaces
<1>3. Trail(s, M)
  BY <1>1, <1>2 DEF History, Trail
<1> QED
  BY <1>3 DEF Sound, Chained, Intact, Pinned

LEMMA AllocChained ==
  ASSUME NEW s, Chained(s), Size(s) < NROB, NEW d \in Dsts, NEW p \in PRegs
  PROVE  LET u == Alloc(s, d, p) IN
         /\ Chained(u) /\ Size(u) = Size(s) + 1
         /\ u.rrat = s.rrat /\ u.rfree = s.rfree
         /\ \A k \in 0 .. Size(s) - 1 : Nth(u, k) = Nth(s, k)
         /\ Nth(u, Size(s)) = NewEntry(s, d, p)
<1> DEFINE u == Alloc(s, d, p)
           N == Size(s)
           e == NewEntry(s, d, p)
<1>1. /\ Typed(u) /\ Size(u) = N + 1 /\ Nth(u, N) = e
      /\ \A k \in 0 .. N - 1 : Nth(u, k) = Nth(s, k)
  BY AllocTyped DEF Chained
<1>2. Allocated(s, d, p, u)
  BY AllocFields DEF Chained, Typed
<1>3. /\ s \in RecType /\ N \in Nat /\ s.arat \in Rats /\ s.rrat \in Rats
      /\ u.arat \in Rats
  BY <1>1, RingStep DEF Chained, Typed, RecType, Size, Rats
<1> HIDE DEF u, N
<1>4. Replaces(e, s.arat, u.arat)
  BY <1>2, DstMember DEF Allocated, NewEntry, NoDst, Replaces
<1> HIDE DEF e
<1>5. PICK M : Trail(s, M)
  BY DEF Chained
<1> DEFINE L == [k \in 0 .. N + 1 |-> IF k <= N THEN M[k] ELSE u.arat]
<1>6. L \in [0 .. N + 1 -> Rats] /\ L[0] = u.rrat /\ L[N + 1] = u.arat
  BY <1>2, <1>3, <1>5 DEF Trail, Allocated, N
<1>7. \A k \in 0 .. N - 1 : Replaces(Nth(u, k), L[k], L[k + 1])
  BY <1>1, <1>3, <1>5 DEF Trail, N
<1>8. L[N] = s.arat /\ L[N + 1] = u.arat
  BY <1>3, <1>5 DEF Trail, N
<1> HIDE DEF L
<1>9. \A k \in 0 .. N : Replaces(Nth(u, k), L[k], L[k + 1])
  BY <1>1, <1>3, <1>4, <1>7, <1>8
<1>10. 0 .. Size(u) - 1 = 0 .. N
  BY <1>1, <1>3
<1>11. Trail(u, L)
  BY <1>1, <1>6, <1>9, <1>10 DEF Trail
<1> QED
  BY <1>1, <1>2, <1>11 DEF Chained, Allocated, u, N, e

(* An allocation from a bank that has a register keeps soundness; one that *)
(* is given register 0 instead puts it at the head of an empty buffer.     *)
LEMMA AllocGood ==
  ASSUME NEW s, Good(s), Size(s) < NROB, NEW d \in Dsts, NEW p \in PRegs,
         d # {} => p \in s.free \/ (Size(s) = 0 /\ p = 0)
  PROVE  LET u == Alloc(s, d, p) IN
         /\ Good(u) /\ Size(u) = Size(s) + 1
         /\ Sound(s) /\ (d # {} => p \in s.free) => Sound(u)
<1> DEFINE u == Alloc(s, d, p)
<1>0. Chained(s)
  BY SoundWeaker DEF Good
<1>1. /\ Chained(u) /\ Size(u) = Size(s) + 1 /\ Size(s) \in Nat
      /\ u.rrat = s.rrat /\ u.rfree = s.rfree
      /\ \A k \in 0 .. Size(s) - 1 : Nth(u, k) = Nth(s, k)
      /\ Nth(u, Size(s)) = NewEntry(s, d, p)
  BY <1>0, AllocChained, RingStep DEF Chained, Typed, RecType, Size
<1>2. Gone(s) => Gone(u)
  BY <1>1 DEF Gone
<1>3. Intact(s) => Intact(u)
  BY <1>1 DEF Intact, Exact
<1>4. AtHead(s) => AtHead(u)
  BY <1>1 DEF AtHead
<1>5. ASSUME Sound(s), d # {} => p \in s.free PROVE Sound(u)
  BY <1>5, AllocSound
<1>6. ASSUME d # {}, p = 0, Size(s) = 0 PROVE AtHead(u)
  BY <1>1, <1>6 DEF AtHead, NewEntry
<1> HIDE DEF u
<1>7. Good(u)
  <2>1. CASE Sound(s)
    BY <1>1, <1>3, <1>5, <1>6, <2>1, SoundWeaker DEF Good
  <2>2. CASE ~ Sound(s)
    BY <1>1, <1>2, <1>3, <1>4, <2>2 DEF Good
  <2> QED
    BY <2>1, <2>2
<1> QED
  BY <1>1, <1>5, <1>7 DEF u

(* A retirement keeps what is lost lost, and loses register 0 if the head  *)
(* has it.                                                                 *)
LEMMA RetireChained ==
  ASSUME NEW s, Chained(s), Size(s) > 0
  PROVE  LET u == Retire(s) IN
         /\ Chained(u) /\ Size(u) = Size(s) - 1
         /\ Gone(s) \/ AtHead(s) => Gone(u)
<1> DEFINE u == Retire(s)
           N == Size(s)
           e == Nth(s, 0)
           l == e.ldst
           p == e.pdst
           o == e.old_pdst
<1>1. /\ Typed(u) /\ Size(u) = N - 1 /\ e = s.rob[Slot(s.head)]
      /\ \A k \in 0 .. N - 2 : Nth(u, k) = Nth(s, k + 1)
  BY RetireTyped DEF Chained
<1>2. /\ s \in RecType /\ N \in Nat /\ N > 0 /\ 0 \in 0 .. N - 1
      /\ s.arat \in Rats /\ s.rrat \in Rats
  BY RingStep DEF Chained, Typed, RecType, Size, Rats
<1>3. e \in Entry /\ l \in ARegs /\ p \in PRegs /\ o \in PRegs
  BY <1>2, EntryFields DEF Chained, Entry
<1>4. /\ u.arat = s.arat
      /\ ~ e.valid_dst => u.rrat = s.rrat /\ u.rfree = s.rfree
      /\ e.valid_dst => /\ u.rrat = [s.rrat EXCEPT ![l] = p]
                        /\ u.rfree = (s.rfree \ {p}) \cup {o}
  BY <1>1, <1>2, RetireFields
<1>5. PICK M : Trail(s, M)
  BY DEF Chained
<1>6. Replaces(e, s.rrat, M[1]) /\ M[1] \in Rats
  BY <1>2, <1>5 DEF Trail
<1> HIDE DEF u, N
<1>7. u.rrat = M[1]
  BY <1>4, <1>6 DEF Replaces
<1>8. \E L : Trail(u, L)
  <2> DEFINE L == [k \in 0 .. N - 1 |-> M[k + 1]]
  <2>1. /\ M \in [0 .. N -> Rats] /\ M[N] = s.arat
        /\ \A k \in 0 .. N - 1 : Replaces(Nth(s, k), M[k], M[k + 1])
    BY <1>5 DEF Trail, N
  <2>2. L \in [0 .. N - 1 -> Rats] /\ L[0] = M[1] /\ L[N - 1] = s.arat
    BY <1>2, <2>1
  <2>3. \A k \in 0 .. N - 2 : Replaces(Nth(u, k), L[k], L[k + 1])
    <3> TAKE k \in 0 .. N - 2
    <3>1. k + 1 \in 0 .. N - 1 /\ k \in 0 .. N - 1
      BY <1>2
    <3>2. L[k] = M[k + 1] /\ L[k + 1] = M[k + 1 + 1]
      BY <3>1
    <3> HIDE DEF L
    <3> QED
      BY <1>1, <2>1, <3>1, <3>2
  <2> HIDE DEF L
  <2>4. 0 .. Size(u) - 1 = 0 .. N - 2
    BY <1>1, <1>2
  <2> QED
    BY <1>1, <1>4, <1>7, <2>2, <2>3, <2>4 DEF Trail
<1>9. ASSUME e.valid_dst
      PROVE  /\ l # Zero /\ o = s.rrat[l]
             /\ u.rrat[l] = p /\ \A r \in ARegs \ {l} : u.rrat[r] = s.rrat[r]
             /\ o \in u.rfree /\ (0 \in s.rfree => 0 \in u.rfree \/ p = 0)
  BY <1>2, <1>3, <1>4, <1>6, <1>9 DEF Replaces, Rats
<1> HIDE DEF l, p, o
<1>10. Gone(s) => Gone(u)
  <2>1. CASE ~ e.valid_dst
    BY <1>4, <2>1 DEF Gone
  <2>2. CASE e.valid_dst
    BY <1>3, <1>9, <2>2 DEF Gone
  <2> QED
    BY <2>1, <2>2
<1>11. AtHead(s) => Gone(u)
  BY <1>3, <1>9 DEF AtHead, Gone, e, p
<1> QED
  BY <1>1, <1>8, <1>10, <1>11 DEF Chained, u, N

LEMMA RetireGood ==
  ASSUME NEW s, Good(s), Size(s) > 0
  PROVE  LET u == Retire(s) IN
         /\ Good(u) /\ Size(u) = Size(s) - 1
         /\ Sound(s) => Sound(u)
<1> DEFINE u == Retire(s)
<1>1. Chained(s)
  BY SoundWeaker DEF Good
<1>2. /\ Chained(u) /\ Size(u) = Size(s) - 1
      /\ Gone(s) \/ AtHead(s) => Gone(u)
  BY <1>1, RetireChained
<1>3. Sound(s) => Sound(u)
  BY RetireSound
<1> HIDE DEF u
<1>4. Good(u)
  BY <1>2, <1>3 DEF Good
<1> QED
  BY <1>2, <1>3, <1>4 DEF u

-----------------------------------------------------------------------------
(* A whole clock edge of renaming.                                         *)

(* The free registers of a bank, and the one the slot is given.            *)
LEMMA EntryFree ==
  ASSUME TypeOK, NEW slot \in {1, 2},
         r_prf_free \cap Bank(BankOf(slot)) # {}
  PROVE  /\ n_prf_entry(slot) \in r_prf_free
         /\ n_prf_entry(slot) \in Bank(BankOf(slot))
  BY FirstSetMember DEF n_prf_entry, TypeOK

LEMMA BanksDisjoint ==
  ASSUME TypeOK
  PROVE  Bank(BankOf(1)) \cap Bank(BankOf(2)) = {}
<1>1. BankOf(1) # BankOf(2)
  BY DEF BankOf, TypeOK
<1> QED
  BY <1>1 DEF Bank

LEMMA RunGood ==
  ASSUME TypeOK, Good(State),
         NEW ds \in Groups, CanAlloc(ds), NEW n \in 0 .. 2, CanRetire(n)
  PROVE  /\ Good(RetireN(AllocN(State, ds), n))
         /\ Sound(State) => Sound(RetireN(AllocN(State, ds), n))
<1> DEFINE a == AllocN(State, ds)
<1>0. /\ Size(State) \in Nat /\ Size(State) >= n
      /\ State.free = r_prf_free /\ 0 \in Nat
  BY RingStep DEF CanRetire, State, Size, TypeOK
<1>1. /\ Good(a) /\ Size(a) \in Nat /\ Size(a) >= n
      /\ Sound(State) => Sound(a)
  <2>1. CASE ds = <<>>
    BY <1>0, <2>1 DEF AllocN
  <2>2. CASE \E d \in Dsts : ds = <<d>>
    <3> PICK d \in Dsts : ds = <<d>>
      BY <2>2
    <3>1. Size(State) < NROB /\ EnoughPrf(1, d)
      BY <1>0, RenameAssumption DEF CanAlloc, Size, State
    <3>2. d # {} => n_prf_entry(1) \in State.free
      BY <1>0, <3>1, EntryFree DEF EnoughPrf
    <3>3. n_prf_entry(1) \in PRegs /\ a = Alloc(State, d, n_prf_entry(1))
      BY EntryType DEF AllocN
    <3> HIDE DEF a
    <3> QED
      BY <1>0, <3>1, <3>2, <3>3, AllocGood
  <2>3. CASE \E d, e \in Dsts : ds = <<d, e>>
    <3> PICK d \in Dsts, e \in Dsts : ds = <<d, e>>
      BY <2>3
    <3>1. Size(State) + 2 <= NROB /\ EnoughPrf(1, d) /\ EnoughPrf(2, e)
      BY DEF CanAlloc, Size, State
    <3> DEFINE p == n_prf_entry(1)
               q == n_prf_entry(2)
               b == Alloc(State, d, p)
    <3>2. /\ p \in PRegs /\ q \in PRegs
          /\ d # {} => p \in State.free
          /\ e # {} => q \in State.free
          /\ d # {} /\ e # {} => p # q
      BY <1>0, <3>1, EntryFree, EntryType, BanksDisjoint DEF EnoughPrf
    <3>3. State \in RecType
      BY StateTyped DEF Typed
    <3> HIDE DEF p, q
    <3>4. /\ Good(b) /\ Size(b) = Size(State) + 1
          /\ Sound(State) => Sound(b)
      BY <1>0, <3>1, <3>2, AllocGood, RenameAssumption
    <3>5. Allocated(State, d, p, b)
      BY <3>2, <3>3, AllocFields
    <3> HIDE DEF b
    <3>6. e # {} => q \in b.free
      BY <3>2, <3>5 DEF Allocated
    <3>7. LET c == Alloc(b, e, q)
          IN  Good(c) /\ Size(c) = Size(b) + 1 /\ (Sound(b) => Sound(c))
      BY <1>0, <3>1, <3>2, <3>4, <3>6, AllocGood, RenameAssumption
    <3>8. a = Alloc(b, e, q)
      BY DEF AllocN, b, p, q
    <3> HIDE DEF a
    <3> QED
      BY <1>0, <3>1, <3>4, <3>7, <3>8
  <2> QED
    BY <2>1, <2>2, <2>3 DEF Groups
<1> HIDE DEF a
<1>2. CASE n = 0
  BY <1>1, <1>2 DEF RetireN, a
<1>3. CASE n = 1
  BY <1>1, <1>3, RetireGood DEF RetireN, a
<1>4. CASE n = 2
  <2>1. Good(Retire(a)) /\ Size(Retire(a)) > 0 /\ (Sound(a) => Sound(Retire(a)))
    BY <1>1, <1>4, RetireGood
  <2>2. RetireN(AllocN(State, ds), n) = Retire(Retire(a))
    BY <1>4 DEF RetireN, a
  <2> QED
    BY <1>1, <2>1, <2>2, RetireGood
<1> QED
  BY <1>2, <1>3, <1>4

(* What SerialAlloc relies on and does not test: a uop with a destination  *)
(* finds a register in the bank whose turn it is.                          *)
SerialFinds == \A d \in Dsts : SerialAlloc(d) => EnoughPrf(1, d)

LEMMA SoundStep == IInv /\ [SerialFinds]_rnvars /\ [Next]_rnvars => IInv'
<1> SUFFICES ASSUME IInv, [SerialFinds]_rnvars, [Next]_rnvars PROVE IInv'
  OBVIOUS
<1>0. /\ TypeOK /\ TypeOK' /\ Typed(State) /\ Typed(State') /\ State \in RecType
      /\ Exact(State) /\ Pinned(State) /\ OneToOne(State.arat)
      /\ r_bank_sel \in {0, 1}
      /\ State.head = r_rob_head_ptr /\ State.tail = r_rob_tail_ptr
      /\ Size(State) \in Nat
  <2>1. TypeOK /\ TypeOK'
    BY TypeStep DEF IInv
  <2>2. Typed(State) /\ Typed(State') /\ r_bank_sel \in {0, 1}
    BY <2>1, StateTyped DEF TypeOK, Typed, State, RecType, Size
  <2> QED
    BY <2>1, <2>2, RingStep DEF IInv, State, Typed, RecType, Size
<1>1. ASSUME NEW u, Sound(u), Latch(u) PROVE IInv'
  <2>1. State' = u
    BY <1>0, <1>1, LatchState DEF Sound, Typed
  <2>2. Sound(State') /\ OneToOne(State'.arat)
    BY <1>1, <2>1 DEF Sound, Owned
  <2> QED
    BY <1>0, <2>2 DEF IInv, Sound
<1>2. ASSUME NEW u, u \in RecType, Latch(u), Exact(u), Pinned(u),
             OneToOne(u.arat), recovering'
      PROVE  IInv'
  <2>1. State' = u
    BY <1>0, <1>2, LatchState
  <2>2. Exact(State') /\ Pinned(State') /\ OneToOne(State'.arat)
    BY <1>2, <2>1
  <2> QED
    BY <1>0, <1>2, <2>2 DEF IInv
<1>3. ASSUME NEW ds \in Groups, NEW n \in 0 .. 2, Run(ds, n)
      PROVE  IInv'
  BY <1>0, <1>1, <1>3, RunGood DEF Run, IInv, Good
<1>4. ASSUME NEW d \in Dsts, SerialAlloc(d)
      PROVE  IInv'
  <2>1. Sound(State) /\ Size(State) < NROB /\ State.free = r_prf_free
    BY <1>0, <1>4, RenameAssumption DEF SerialAlloc, Size, IInv, State
  <2>2. SerialFinds
    BY <1>0, <1>4 DEF SerialAlloc, Latch, rnvars
  <2>3. EnoughPrf(1, d)
    BY <1>4, <2>2 DEF SerialFinds
  <2>4. (d # {} => n_prf_entry(1) \in State.free) /\ n_prf_entry(1) \in PRegs
    BY <1>0, <2>1, <2>3, EntryFree, EntryType DEF EnoughPrf
  <2> QED
    BY <1>1, <1>4, <2>1, <2>4, AllocSound DEF SerialAlloc
<1>5. ASSUME NEW n \in 0 .. 1, Flush(n)
      PROVE  IInv'
  <2>1. Sound(State) /\ Size(State) > 0
    BY <1>0, <1>5 DEF Flush, Size, IInv
  <2>2. Sound(RetireN(State, n))
    BY <2>1, RetireSound DEF RetireN
  <2> QED
    BY <1>1, <1>5, <2>2 DEF Flush
<1>6. CASE BumpHead
  <2> DEFINE u == [State EXCEPT !.head = Adv(@, 1)]
             N == Size(State)
  <2>1. /\ u \in RecType /\ u.head = Adv(State.head, 1) /\ u.tail = State.tail
        /\ u.rob = State.rob /\ u.arat = State.arat /\ u.rrat = State.rrat
        /\ u.free = State.free /\ u.rfree = State.rfree
    BY <1>0, RingStep DEF RecType
  <2>2. Size(u) = N - 1 /\ N > 0 /\ N <= NROB
    BY <1>0, <1>6, <2>1, RingStep DEF BumpHead, Size, Typed, RecType
  <2>3. Latch(u) /\ recovering'
    BY <1>6 DEF BumpHead
  <2> HIDE DEF u, N
  <2>4. \A k \in 0 .. N - 2 : Nth(u, k) = Nth(State, k + 1)
    <3> TAKE k \in 0 .. N - 2
    <3>1. k \in 0 .. NROB /\ State.head \in Ptrs
      BY <1>0, <2>2, RenameAssumption DEF RecType, N
    <3>2. Adv(u.head, k) = Adv(State.head, k + 1)
      BY <2>1, <3>1, RingStep
    <3> QED
      BY <2>1, <3>2 DEF Nth
  <2>5. \A k \in 0 .. N - 2 : k + 1 \in 0 .. N - 1
    BY <1>0 DEF N
  <2>6. 0 .. Size(u) - 1 = 0 .. N - 2
    BY <1>0, <2>2 DEF N
  <2>7. Exact(u) /\ OneToOne(u.arat)
    BY <1>0, <2>1 DEF Exact
  <2>8. Pinned(u)
    <3>1. \A k \in 0 .. N - 1 :
            Nth(State, k).valid_dst =>
              /\ Nth(State, k).pdst # 0 /\ Nth(State, k).old_pdst # 0
              /\ Nth(State, k).ldst # Zero
      BY <1>0 DEF Pinned, N
    <3>2. \A k \in 0 .. N - 2 :
            Nth(u, k).valid_dst =>
              /\ Nth(u, k).pdst # 0 /\ Nth(u, k).old_pdst # 0
              /\ Nth(u, k).ldst # Zero
      BY <2>4, <2>5, <3>1
    <3>3. /\ u.arat[Zero] = 0 /\ u.rrat[Zero] = 0
          /\ 0 \notin u.free /\ 0 \notin u.rfree
      BY <1>0, <2>1 DEF Pinned
    <3> QED
      BY <2>6, <3>2, <3>3 DEF Pinned
  <2> QED
    BY <1>2, <2>1, <2>3, <2>7, <2>8
<1>7. CASE RatCopy
  <2> DEFINE u == [State EXCEPT !.arat = r_retire_rat, !.free = r_retire_prf_free,
                                !.head = 0, !.tail = 0]
             f == State.rrat
  <2>1. /\ u.head = 0 /\ u.tail = 0 /\ u.rfree = State.rfree
        /\ u.rob = State.rob /\ u.arat = f /\ u.rrat = f
        /\ u.free = State.rfree /\ Latch(u)
    BY <1>0, <1>7 DEF RatCopy, State
  <2>2. u \in RecType /\ f \in Rats
    <3>1. 0 \in Ptrs /\ r_retire_rat \in [ARegs -> PRegs]
          /\ r_retire_prf_free \in SUBSET PRegs /\ f = r_retire_rat
      BY <1>0, RenameAssumption DEF Ptrs, TypeOK, State
    <3> QED
      BY <1>0, <3>1 DEF RecType, Rats
  <2> HIDE DEF u, f
  <2>3. Size(u) = 0 /\ 0 .. Size(u) - 1 = {} /\ Olds(u) = {}
    BY <2>1 DEF Size, Occ, Olds
  <2>4. Exact(u) /\ Pinned(u) /\ OneToOne(f) /\ u.rfree = PRegs \ RangeOf(f)
    BY <1>0, <2>1, <2>3 DEF Exact, Pinned, f
  <2>5. RangeOf(f) \subseteq PRegs
    BY <2>2 DEF Rats, RangeOf
  <2>6. Owned(u)
    BY <2>1, <2>3, <2>4, <2>5 DEF Owned
  <2>7. History(u, [k \in 0 .. 0 |-> f])
    BY <2>1, <2>2, <2>3 DEF History
  <2>8. Typed(u)
    BY <2>2, <2>3, RenameAssumption DEF Typed
  <2> QED
    BY <1>1, <2>1, <2>4, <2>6, <2>7, <2>8 DEF Sound
<1>8. CASE Drain
  BY <1>0, <1>2, <1>8 DEF Drain
<1>9. CASE UNCHANGED rnvars
  <2>1. State' = State /\ recovering' = recovering
    BY <1>9 DEF rnvars, State
  <2>2. /\ Exact(State') /\ Pinned(State') /\ OneToOne(State'.arat)
        /\ ~ recovering' => Sound(State')
    BY <2>1 DEF IInv
  <2> QED
    BY <1>0, <2>2 DEF IInv
<1> QED
  BY <1>3, <1>4, <1>5, <1>6, <1>7, <1>8, <1>9 DEF Next

LEMMA SoundInit == Init => IInv
<1> SUFFICES ASSUME Init PROVE IInv
  OBVIOUS
<1> DEFINE f == InitRat
<1>1. TypeOK /\ Typed(State)
  BY TypeInit, StateTyped
<1>2. /\ Zero \in ARegs /\ 0 \in ARegs /\ Zero # 0 /\ 0 \notin NARCH .. NPRF - 1
      /\ \A r \in ARegs : r \in Int
  BY RenameAssumption DEF ARegs, Zero
<1>3. /\ f \in Rats /\ f[Zero] = 0 /\ DOMAIN f = ARegs
      /\ \A r \in ARegs : f[r] = IF r = Zero THEN 0 ELSE IF r = 0 THEN Zero ELSE r
  BY <1>2, RenameAssumption DEF InitRat, Rats, ARegs, PRegs, Zero
<1>4. /\ State.arat = f /\ State.rrat = f /\ State.head = 0 /\ State.tail = 0
      /\ State.free = NARCH .. NPRF - 1 /\ State.rfree = NARCH .. NPRF - 1
  BY DEF Init, State
<1> HIDE DEF f
<1>5. OneToOne(f)
  BY <1>2, <1>3 DEF OneToOne
<1>6. RangeOf(f) = ARegs
  <2>1. \A r \in ARegs : f[r] \in ARegs
    BY <1>2, <1>3
  <2>2. \A q \in ARegs : \E r \in ARegs : f[r] = q
    <3> TAKE q \in ARegs
    <3>1. CASE q = Zero
      BY <1>2, <1>3, <3>1
    <3>2. CASE q = 0
      BY <1>2, <1>3, <3>2
    <3>3. CASE q # Zero /\ q # 0
      BY <1>3, <3>3
    <3> QED
      BY <3>1, <3>2, <3>3
  <2> QED
    BY <1>3, <2>1, <2>2 DEF RangeOf
<1>7. NARCH .. NPRF - 1 = PRegs \ ARegs /\ ARegs \subseteq PRegs
  BY RenameAssumption DEF PRegs, ARegs
<1>8. Size(State) = 0 /\ 0 .. Size(State) - 1 = {} /\ Olds(State) = {}
  BY <1>4 DEF Size, Occ, Olds
<1>9. Exact(State) /\ Pinned(State)
  BY <1>2, <1>3, <1>4, <1>5, <1>6, <1>7, <1>8 DEF Exact, Pinned
<1>10. Owned(State)
  BY <1>4, <1>5, <1>6, <1>7, <1>8 DEF Owned
<1>11. History(State, [k \in 0 .. 0 |-> f])
  BY <1>3, <1>4, <1>8 DEF History
<1> QED
  BY <1>1, <1>4, <1>5, <1>9, <1>10, <1>11 DEF IInv, Sound

(* The invariant says that register 0 is pinned.                           *)
LEMMA SoundImplies == IInv => ZeroRegisterPinned
<1> SUFFICES ASSUME IInv PROVE ZeroRegisterPinned
  OBVIOUS
<1>1. /\ State.arat = r_alloc_rat /\ State.rrat = r_retire_rat
      /\ State.free = r_prf_free /\ State.rfree = r_retire_prf_free
      /\ Window = 0 .. Size(State) - 1
      /\ \A k : Live(k) = Nth(State, k)
  BY DEF State, Window, Size, Live, Nth
<1> HIDE DEF State
<1>2. Zero \in ARegs
  BY RenameAssumption DEF ARegs, Zero
<1>3. /\ ZeroPinned(r_alloc_rat, r_prf_free)
      /\ ZeroPinned(r_retire_rat, r_retire_prf_free)
  BY <1>1, <1>2 DEF IInv, Pinned, Exact, OneToOne, ZeroPinned
<1> QED
  BY <1>1, <1>3 DEF IInv, Pinned, ZeroRegisterPinned

-----------------------------------------------------------------------------
(* What every step keeps, whether a serializing uop finds a register or    *)
(* not.                                                                    *)
LEMMA GoodStep == GInv /\ [Next]_rnvars => GInv'
<1> SUFFICES ASSUME GInv, [Next]_rnvars PROVE GInv'
  OBVIOUS
<1>0. /\ TypeOK /\ TypeOK' /\ Typed(State) /\ State \in RecType
      /\ (Gone(State) \/ Intact(State)) /\ r_bank_sel \in {0, 1}
      /\ State.head = r_rob_head_ptr /\ State.tail = r_rob_tail_ptr
      /\ Size(State) \in Nat
  <2>1. TypeOK /\ TypeOK'
    BY TypeStep DEF GInv
  <2>2. Typed(State) /\ r_bank_sel \in {0, 1}
    BY <2>1, StateTyped
  <2> QED
    BY <2>1, <2>2, RingStep DEF GInv, State, Typed, RecType, Size
<1>1. ASSUME NEW u, Good(u), Latch(u) PROVE GInv'
  <2>1. Chained(u) /\ (Gone(u) \/ Intact(u))
    BY <1>1, SoundWeaker DEF Good
  <2>2. State' = u
    BY <1>0, <1>1, <2>1, LatchState DEF Chained, Typed
  <2>3. Good(State') /\ (Gone(State') \/ Intact(State'))
    BY <1>1, <2>1, <2>2
  <2> QED
    BY <1>0, <2>3 DEF GInv
<1>2. ASSUME NEW u, u \in RecType, Latch(u), u.rrat = State.rrat,
             u.rfree = State.rfree, recovering'
      PROVE  GInv'
  <2>1. State' = u
    BY <1>0, <1>2, LatchState
  <2>2. Gone(u) \/ Intact(u)
    BY <1>0, <1>2 DEF Gone, Intact, Exact
  <2>3. Gone(State') \/ Intact(State')
    BY <2>1, <2>2
  <2> QED
    BY <1>0, <1>2, <2>3 DEF GInv
<1>3. ASSUME NEW ds \in Groups, NEW n \in 0 .. 2, Run(ds, n)
      PROVE  GInv'
  BY <1>0, <1>1, <1>3, RunGood DEF Run, GInv
<1>4. ASSUME NEW d \in Dsts, SerialAlloc(d)
      PROVE  GInv'
  <2>1. Good(State) /\ Size(State) = 0 /\ 0 < NROB /\ State.free = r_prf_free
    BY <1>0, <1>4, RenameAssumption DEF SerialAlloc, Size, GInv, State
  <2>2. /\ n_prf_entry(1) \in PRegs
        /\ n_prf_entry(1) \in State.free \/ n_prf_entry(1) = 0
    BY <1>0, <2>1, EntryFree, EntryType DEF n_prf_entry, find_first_set
  <2> QED
    BY <1>1, <1>4, <2>1, <2>2, AllocGood DEF SerialAlloc
<1>5. ASSUME NEW n \in 0 .. 1, Flush(n)
      PROVE  GInv'
  <2>1. Good(State) /\ Size(State) > 0
    BY <1>0, <1>5 DEF Flush, Size, GInv
  <2>2. Good(RetireN(State, n))
    BY <2>1, RetireGood DEF RetireN
  <2> QED
    BY <1>1, <1>5, <2>2 DEF Flush
<1>6. CASE BumpHead
  <2> DEFINE u == [State EXCEPT !.head = Adv(@, 1)]
  <2>1. u \in RecType /\ u.rrat = State.rrat /\ u.rfree = State.rfree
    BY <1>0, RingStep DEF RecType
  <2>2. Latch(u) /\ recovering'
    BY <1>6 DEF BumpHead
  <2> QED
    BY <1>2, <2>1, <2>2
<1>7. CASE RatCopy
  <2> DEFINE u == [State EXCEPT !.arat = r_retire_rat, !.free = r_retire_prf_free,
                                !.head = 0, !.tail = 0]
             f == State.rrat
  <2>1. /\ u.head = 0 /\ u.tail = 0 /\ u.rfree = State.rfree
        /\ u.arat = f /\ u.rrat = f
        /\ u.free = State.rfree /\ Latch(u)
    BY <1>0, <1>7 DEF RatCopy, State
  <2>2. u \in RecType /\ f \in Rats
    <3>1. 0 \in Ptrs /\ r_retire_rat \in [ARegs -> PRegs]
          /\ r_retire_prf_free \in SUBSET PRegs /\ f = r_retire_rat
      BY <1>0, RenameAssumption DEF Ptrs, TypeOK, State
    <3> QED
      BY <1>0, <3>1 DEF RecType, Rats
  <2> HIDE DEF u, f
  <2>3. Size(u) = 0 /\ 0 .. Size(u) - 1 = {} /\ Olds(u) = {}
    BY <2>1 DEF Size, Occ, Olds
  <2>4. Typed(u)
    BY <2>2, <2>3, RenameAssumption DEF Typed
  <2>5. Trail(u, [k \in 0 .. 0 |-> f]) /\ History(u, [k \in 0 .. 0 |-> f])
    BY <2>1, <2>2, <2>3 DEF History, Trail
  <2>6. CASE Gone(State)
    <3>1. Chained(u) /\ Gone(u)
      BY <2>1, <2>4, <2>5, <2>6 DEF Chained, Gone, f
    <3> QED
      BY <1>1, <2>1, <3>1 DEF Good
  <2>7. CASE Intact(State)
    <3>1. Exact(u) /\ Pinned(u) /\ OneToOne(f) /\ u.rfree = PRegs \ RangeOf(f)
      BY <2>1, <2>3, <2>7 DEF Intact, Exact, Pinned, f
    <3>2. RangeOf(f) \subseteq PRegs
      BY <2>2 DEF Rats, RangeOf
    <3>3. Owned(u)
      BY <2>1, <2>3, <3>1, <3>2 DEF Owned
    <3> QED
      BY <1>1, <2>1, <2>4, <2>5, <3>1, <3>3 DEF Sound, Good
  <2> QED
    BY <1>0, <2>6, <2>7
<1>8. CASE Drain
  BY <1>0, <1>2, <1>8 DEF Drain
<1>9. CASE UNCHANGED rnvars
  <2>1. State' = State /\ recovering' = recovering
    BY <1>9 DEF rnvars, State
  <2>2. /\ Gone(State') \/ Intact(State')
        /\ ~ recovering' => Good(State')
    BY <2>1 DEF GInv
  <2> QED
    BY <1>0, <2>2 DEF GInv
<1> QED
  BY <1>3, <1>4, <1>5, <1>6, <1>7, <1>8, <1>9 DEF Next

LEMMA GoodInit == Init => GInv
  BY SoundInit, SoundWeaker DEF IInv, GInv, Good, Intact, Pinned

(* While register 0 is pinned nothing has been lost.                       *)
LEMMA GoodImplies == GInv => NoRegisterLeak /\ RetireListExact
<1> SUFFICES ASSUME GInv PROVE NoRegisterLeak /\ RetireListExact
  OBVIOUS
<1>1. /\ State.arat = r_alloc_rat /\ State.rrat = r_retire_rat
      /\ State.free = r_prf_free /\ State.rfree = r_retire_prf_free
      /\ Window = 0 .. Size(State) - 1 /\ Size(State) \in Nat
      /\ \A k : Live(k) = Nth(State, k)
  BY RingStep DEF State, Window, Size, Live, Nth, GInv, TypeOK
<1>2. OldPdsts = Olds(State)
  BY <1>1 DEF OldPdsts, Olds
<1> HIDE DEF State
<1>3. ZeroPinned(r_retire_rat, r_retire_prf_free) => ~ Gone(State)
  BY <1>1 DEF ZeroPinned, Gone
<1>4. NoRegisterLeak
  <2> SUFFICES ASSUME ~ recovering, ZeroRegisterPinned
               PROVE  Owned(State)
    BY <1>1, <1>2 DEF Owned, NoRegisterLeak, OneToOne
  <2>1. ~ AtHead(State)
    BY <1>1 DEF AtHead, ZeroRegisterPinned
  <2>2. Sound(State)
    BY <1>3, <2>1 DEF GInv, Good, ZeroRegisterPinned
  <2> QED
    BY <2>2 DEF Sound
<1>5. RetireListExact
  BY <1>1, <1>3 DEF GInv, Intact, Exact, RetireListExact, OneToOne
<1> QED
  BY <1>4, <1>5

-----------------------------------------------------------------------------
(* Every physical register is free, or the name of one architectural       *)
(* register, or the old name one uop will release, until register 0 is     *)
(* given away: for every size of the register file and of the buffer.      *)
THEOREM NoLeak == Spec => []NoRegisterLeak
  BY GoodInit, GoodStep, GoodImplies, PTL DEF Spec

(* The free list that recovery installs is the complement of the map it    *)
(* installs, at whatever edge the flush comes, until a uop that was given  *)
(* register 0 retires: for every size.                                     *)
THEOREM RetireList == Spec => []RetireListExact
  BY GoodInit, GoodStep, GoodImplies, PTL DEF Spec

(* Register 0 stays the zero register in every behaviour in which no       *)
(* serializing uop with a destination is renamed from an empty bank, which *)
(* ALLOC_FOR_SERIALIZE means to test and does not.                         *)
THEOREM OnlySerialGivesZero ==
  Spec /\ [][SerialFinds]_rnvars => []ZeroRegisterPinned
  BY SoundInit, SoundStep, SoundImplies, PTL DEF Spec

(* The zero register's name is even, so where the odd bank has as many     *)
(* registers as the program has names, as in core.sv, it is never empty    *)
(* when a serializing uop is renamed: only the even bank can be.           *)
OddRoom ==
  ~ recovering /\ ZeroRegisterPinned /\ Occ(r_rob_head_ptr, r_rob_tail_ptr) = 0
    => r_prf_free \cap Bank(1) # {}

THEOREM OddBankNeverEmpty ==
  ASSUME Cardinality(Bank(1)) >= NARCH
  PROVE  Spec => []OddRoom
<1>1. NoRegisterLeak /\ TypeOK => OddRoom
  <2> SUFFICES ASSUME NoRegisterLeak, TypeOK, ~ recovering, ZeroRegisterPinned,
                      Occ(r_rob_head_ptr, r_rob_tail_ptr) = 0,
                      r_prf_free \cap Bank(1) = {}
               PROVE  FALSE
    BY DEF OddRoom
  <2> DEFINE B == Bank(1)
             D == ARegs \ {Zero}
             R == {r_alloc_rat[r] : r \in D}
             g == [r \in D |-> r_alloc_rat[r]]
  <2>1. B \subseteq PRegs /\ 0 \notin B
    BY DEF Bank
  <2>2. OldPdsts = {}
    BY DEF OldPdsts, Window
  <2>3. r_alloc_rat[Zero] = 0 /\ RangeOf(r_alloc_rat) \subseteq R \cup {0}
    <3>1. DOMAIN r_alloc_rat = ARegs /\ Zero \in ARegs
      BY RenameAssumption DEF TypeOK, ARegs, Zero
    <3>2. r_alloc_rat[Zero] = 0
      BY <3>1 DEF ZeroRegisterPinned, ZeroPinned
    <3> QED
      BY <3>1, <3>2 DEF RangeOf
  <2>4. B \subseteq R
    BY <2>1, <2>2, <2>3 DEF NoRegisterLeak
  <2>5. g \in Surjection(D, R)
    BY DEF Surjection
  <2>6. /\ IsFiniteSet(ARegs) /\ Cardinality(ARegs) = NARCH
        /\ Zero \in ARegs /\ NARCH \in Nat
    BY FS_Interval, RenameAssumption DEF ARegs, Zero
  <2>7. IsFiniteSet(D) /\ Cardinality(D) = NARCH - 1
    BY <2>6, FS_RemoveElement
  <2> HIDE DEF B, D, R, g
  <2>8. IsFiniteSet(R) /\ Cardinality(R) <= NARCH - 1
    BY <2>5, <2>7, FS_Surjection
  <2>9. IsFiniteSet(B) /\ Cardinality(B) <= Cardinality(R)
    BY <2>4, <2>8, FS_Subset
  <2>10. Cardinality(B) \in Nat /\ Cardinality(R) \in Nat
    BY <2>8, <2>9, FS_CardinalityType
  <2>11. Cardinality(B) >= NARCH
    BY DEF B
  <2> QED
    BY <2>6, <2>8, <2>9, <2>10, <2>11
<1> QED
  BY <1>1, NoLeak, TypeCorrect, PTL
=============================================================================

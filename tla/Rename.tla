------------------------------- MODULE Rename -------------------------------
(***************************************************************************)
(* Register renaming in core.sv: the speculative and the retirement        *)
(* register alias tables, the two free lists, and the destination fields   *)
(* of the reorder buffer that carry the old mappings between them.         *)
(*                                                                         *)
(* One step is one clock edge.  Which edges allocate, retire or recover is *)
(* decided by the core's state machine (module Core); here that choice is  *)
(* free, up to the conditions the state machine always respects.           *)
(*                                                                         *)
(* A physical register is its index in a bank of the register file.  The   *)
(* top bit of a pdst only says which of the two arrays (integer or load    *)
(* results) holds the value: the free lists drop it, and so do we.         *)
(***************************************************************************)
EXTENDS Integers, Sequences, FiniteSets

CONSTANTS
  NARCH,  \* architectural registers; the last one reads as zero
  NPRF,   \* physical registers
  NROB    \* reorder buffer entries

ASSUME RenameAssumption ==
  /\ NARCH \in Nat /\ NARCH >= 2
  /\ NPRF \in Nat /\ NPRF > NARCH
  /\ NROB \in Nat /\ NROB >= 2

VARIABLES
  r_alloc_rat,        \* speculative map, read and written at allocation
  r_retire_rat,       \* architectural map, written at retirement
  r_prf_free,         \* speculative free list
  r_retire_prf_free,  \* free list that matches r_retire_rat
  r_bank_sel,         \* which parity the first allocation slot takes
  r_rob,              \* destination fields of each reorder buffer entry
  r_rob_head_ptr,
  r_rob_tail_ptr,     \* ring pointers, one bit wider than an index
  recovering          \* the state machine is between a flush and RAT

rnvars == <<r_alloc_rat, r_retire_rat, r_prf_free, r_retire_prf_free,
            r_bank_sel, r_rob, r_rob_head_ptr, r_rob_tail_ptr, recovering>>

-----------------------------------------------------------------------------
ARegs == 0 .. NARCH - 1
Zero  == NARCH - 1
PRegs == 0 .. NPRF - 1
Ptrs  == 0 .. 2 * NROB - 1
Slots == 0 .. NROB - 1

(* A destination is the singleton of a register, or empty: the decoder     *)
(* clears dst_valid whenever the destination is the zero register.         *)
Dsts == {{}} \cup {{r} : r \in ARegs \ {Zero}}
RegOf(d) == CHOOSE r \in d : TRUE

Entry == [valid_dst : BOOLEAN, ldst : ARegs, pdst : PRegs, old_pdst : PRegs]
NoDst == [valid_dst |-> FALSE, ldst |-> 0, pdst |-> 0, old_pdst |-> 0]

(* Ring arithmetic on pointers that count to twice the number of slots.    *)
Adv(p, k)  == IF p + k < 2 * NROB THEN p + k ELSE p + k - 2 * NROB
Slot(p)    == IF p < NROB THEN p ELSE p - NROB
Occ(h, t)  == IF h <= t THEN t - h ELSE t + 2 * NROB - h

(* The renaming state as one value, so that the up to two allocations and  *)
(* two retirements of a cycle compose.                                     *)
State ==
  [arat |-> r_alloc_rat,  rrat  |-> r_retire_rat,
   free |-> r_prf_free,   rfree |-> r_retire_prf_free,
   rob  |-> r_rob, head |-> r_rob_head_ptr, tail |-> r_rob_tail_ptr]

Latch(s) ==
  /\ r_alloc_rat' = s.arat
  /\ r_retire_rat' = s.rrat
  /\ r_prf_free' = s.free
  /\ r_retire_prf_free' = s.rfree
  /\ r_rob' = s.rob
  /\ r_rob_head_ptr' = s.head
  /\ r_rob_tail_ptr' = s.tail
  /\ r_bank_sel' = 1 - r_bank_sel

-----------------------------------------------------------------------------
(* find_first_set returns the highest set bit; of an empty vector it       *)
(* returns its width, whose low bits - all that n_prf_entry keeps - are 0. *)
find_first_set(S) ==
  IF S = {} THEN 0 ELSE CHOOSE p \in S : \A q \in S : q <= p

Bank(b) == {p \in PRegs : p % 2 = b}

(* Slot 1 takes an even register when r_bank_sel is set, slot 2 an odd one;*)
(* the banks swap every cycle.                                             *)
BankOf(slot) == IF slot = 1 THEN 1 - r_bank_sel ELSE r_bank_sel

n_prf_entry(slot) == find_first_set(r_prf_free \cap Bank(BankOf(slot)))

EnoughPrf(slot, d) == d = {} \/ r_prf_free \cap Bank(BankOf(slot)) # {}

(* Rename one uop with destination d to physical register p.               *)
Alloc(s, d, p) ==
  LET r == RegOf(d) IN
  IF d = {}
  THEN [s EXCEPT !.rob[Slot(s.tail)] = NoDst, !.tail = Adv(@, 1)]
  ELSE [s EXCEPT
         !.arat[r] = p,
         !.free = @ \ {p},
         !.rob[Slot(s.tail)] = [valid_dst |-> TRUE, ldst |-> r,
                                pdst |-> p, old_pdst |-> s.arat[r]],
         !.tail = Adv(@, 1)]

(* Mutants: the old mapping never becomes free; the new one stays on the   *)
(* architectural free list.                                                *)
Retire_Leak(s) ==
  LET e == s.rob[Slot(s.head)] IN
  IF ~e.valid_dst THEN [s EXCEPT !.head = Adv(@, 1)]
  ELSE [s EXCEPT !.rrat[e.ldst] = e.pdst, !.head = Adv(@, 1),
                 !.rfree = (@ \ {e.pdst}) \cup {e.old_pdst}]
Retire_Stale(s) ==
  LET e == s.rob[Slot(s.head)] IN
  IF ~e.valid_dst THEN [s EXCEPT !.head = Adv(@, 1)]
  ELSE [s EXCEPT !.rrat[e.ldst] = e.pdst, !.head = Adv(@, 1),
                 !.rfree = @ \cup {e.old_pdst}, !.free = @ \cup {e.old_pdst}]

(* Retire the entry at the head: its mapping becomes architectural and the *)
(* mapping it replaced is free on both lists.                              *)
Retire(s) ==
  LET e == s.rob[Slot(s.head)] IN
  IF ~e.valid_dst
  THEN [s EXCEPT !.head = Adv(@, 1)]
  ELSE [s EXCEPT
         !.rrat[e.ldst] = e.pdst,
         !.rfree = (@ \ {e.pdst}) \cup {e.old_pdst},
         !.free = @ \cup {e.old_pdst},
         !.head = Adv(@, 1)]

AllocN(s, ds) ==
  CASE Len(ds) = 0 -> s
    [] Len(ds) = 1 -> Alloc(s, ds[1], n_prf_entry(1))
    [] OTHER -> Alloc(Alloc(s, ds[1], n_prf_entry(1)), ds[2], n_prf_entry(2))

RetireN(s, n) ==
  CASE n = 0 -> s
    [] n = 1 -> Retire(s)
    [] OTHER -> Retire(Retire(s))

-----------------------------------------------------------------------------
InitRat == [r \in ARegs |-> IF r = Zero THEN 0 ELSE IF r = 0 THEN Zero ELSE r]

Init ==
  /\ r_alloc_rat = InitRat
  /\ r_retire_rat = InitRat
  /\ r_prf_free = NARCH .. NPRF - 1
  /\ r_retire_prf_free = NARCH .. NPRF - 1
  /\ r_bank_sel = 0
  /\ r_rob = [i \in Slots |-> NoDst]
  /\ r_rob_head_ptr = 0
  /\ r_rob_tail_ptr = 0
  /\ recovering = FALSE

(* Mutant: t_rob_next_full is not consulted.                               *)
CanAlloc_NextFull(ds) ==
  /\ Occ(r_rob_head_ptr, r_rob_tail_ptr) < NROB \/ ds = <<>>
  /\ \A k \in 1 .. Len(ds) : EnoughPrf(k, ds[k])

(* What t_alloc and t_alloc_two require of the renaming state.             *)
CanAlloc(ds) ==
  /\ Occ(r_rob_head_ptr, r_rob_tail_ptr) + Len(ds) <= NROB
  /\ \A k \in 1 .. Len(ds) : EnoughPrf(k, ds[k])

CanRetire(n) == n <= Occ(r_rob_head_ptr, r_rob_tail_ptr)

(* An ordinary cycle: rename the uops ds, retire n entries.                *)
Run(ds, n) ==
  /\ ~recovering
  /\ CanAlloc(ds)
  /\ CanRetire(n)
  /\ Latch(RetireN(AllocN(State, ds), n))
  /\ UNCHANGED recovering

(* ALLOC_FOR_SERIALIZE: the buffer is empty and t_enough_iprfs is not      *)
(* consulted.  The test r_prf_free != 0 in its place never fails: the      *)
(* vector has a bit per pdst, and the upper half is set at reset for good. *)
SerialAlloc(d) ==
  /\ ~recovering
  /\ Occ(r_rob_head_ptr, r_rob_tail_ptr) = 0
  /\ Latch(Alloc(State, d, n_prf_entry(1)))
  /\ UNCHANGED recovering

(* The head ends speculation.  A mispredicted branch or a store that must  *)
(* set a dirty bit retires in this cycle (n = 1); an architectural fault   *)
(* does not (n = 0).                                                       *)
Flush(n) ==
  /\ ~recovering
  /\ n <= 1 /\ Occ(r_rob_head_ptr, r_rob_tail_ptr) > 0
  /\ Latch(RetireN(State, n))
  /\ recovering' = TRUE

(* ARCH_FAULT steps over the faulting entry without retiring it.           *)
BumpHead ==
  /\ recovering
  /\ Occ(r_rob_head_ptr, r_rob_tail_ptr) > 0
  /\ Latch([State EXCEPT !.head = Adv(@, 1)])
  /\ UNCHANGED recovering

(* State RAT: restore the speculative side from the architectural one and  *)
(* empty the buffer, every cycle until the front end acknowledges.         *)
RatCopy ==
  /\ recovering
  /\ Latch([State EXCEPT !.arat = r_retire_rat, !.free = r_retire_prf_free,
                         !.head = 0, !.tail = 0])
  /\ recovering' \in BOOLEAN

(* Any other cycle of the recovery only swaps the banks.                   *)
Drain ==
  /\ recovering
  /\ Latch(State)
  /\ UNCHANGED recovering

Groups == {<<>>} \cup {<<d>> : d \in Dsts} \cup (Dsts \X Dsts)

Next ==
  \/ \E ds \in Groups, n \in 0 .. 2 : Run(ds, n)
  \/ \E d \in Dsts : SerialAlloc(d)
  \/ \E n \in 0 .. 1 : Flush(n)
  \/ BumpHead
  \/ RatCopy
  \/ Drain

Spec == Init /\ [][Next]_rnvars

-----------------------------------------------------------------------------
(* The k-th oldest entry of the buffer.                                    *)
Live(k)  == r_rob[Slot(Adv(r_rob_head_ptr, k))]
Window   == 0 .. Occ(r_rob_head_ptr, r_rob_tail_ptr) - 1
OldPdsts == {Live(k).old_pdst : k \in {j \in Window : Live(j).valid_dst}}
RangeOf(f) == {f[x] : x \in DOMAIN f}

(* Every register of the renaming state is in its range.                   *)
TypeOK ==
  /\ r_alloc_rat \in [ARegs -> PRegs]
  /\ r_retire_rat \in [ARegs -> PRegs]
  /\ r_prf_free \subseteq PRegs
  /\ r_retire_prf_free \subseteq PRegs
  /\ r_bank_sel \in {0, 1}
  /\ r_rob \in [Slots -> Entry]
  /\ r_rob_head_ptr \in Ptrs
  /\ r_rob_tail_ptr \in Ptrs
  /\ Occ(r_rob_head_ptr, r_rob_tail_ptr) <= NROB
  /\ recovering \in BOOLEAN

(* The register file answers 0 for physical register 0, so 0 has to stay   *)
(* the name of the zero register and of no other, and never become free.   *)
ZeroPinned(rat, free) == 0 \notin free /\ \A r \in ARegs : rat[r] = 0 <=> r = Zero

(* Register 0 is never given to an instruction: "never renamed, never      *)
(* freed" (core.sv:1494).  SerialAlloc breaks this when the bank whose     *)
(* turn it is has no free register.                                        *)
ZeroRegisterPinned ==
  /\ ZeroPinned(r_alloc_rat, r_prf_free)
  /\ ZeroPinned(r_retire_rat, r_retire_prf_free)
  /\ \A k \in Window : Live(k).valid_dst => Live(k).pdst # 0

(* No physical register is leaked or has two owners: while the core runs,  *)
(* each one is either free, or the current name of exactly one             *)
(* architectural register, or the old name that exactly one in-flight uop  *)
(* will release when it retires.  Once register 0 has been given away it   *)
(* has two names for good; nothing but that breaks the rule.               *)
NoRegisterLeak ==
  ~recovering /\ ZeroRegisterPinned =>
    /\ r_prf_free \cup RangeOf(r_alloc_rat) \cup OldPdsts = PRegs
    /\ r_prf_free \cap RangeOf(r_alloc_rat) = {}
    /\ r_prf_free \cap OldPdsts = {}
    /\ RangeOf(r_alloc_rat) \cap OldPdsts = {}
    /\ \A r, q \in ARegs : r_alloc_rat[r] = r_alloc_rat[q] => r = q
    /\ \A j, k \in Window :
         Live(j).valid_dst /\ Live(k).valid_dst
           /\ Live(j).old_pdst = Live(k).old_pdst => j = k

(* A flush may come at any edge: the free list that RAT installs is always *)
(* exactly the complement of the architectural map it installs.  So a      *)
(* flush undoes even the loss of register 0 to a uop that has not retired. *)
RetireListExact ==
  ZeroPinned(r_retire_rat, r_retire_prf_free) =>
    /\ r_retire_prf_free = PRegs \ RangeOf(r_retire_rat)
    /\ \A r, q \in ARegs : r_retire_rat[r] = r_retire_rat[q] => r = q
=============================================================================

----------------------------- MODULE CoreProofs -----------------------------
(***************************************************************************)
(* Proofs about Core, for every size of the reorder buffer and the decode  *)
(* queue, every program and every behaviour of the parts around the core.  *)
(***************************************************************************)
EXTENDS Core, FiniteSetTheorems, SequenceTheorems, TLAPS

-----------------------------------------------------------------------------
(* The inductive invariant.                                                *)

(* A restart is asked for, being answered or answered: exactly one of them *)
(* while the core waits, none when it does not.                            *)
Asked == {"DRAIN", "RAT", "WAIT_FOR_ACK", "MONITOR_WAIT_FOR_ACK",
          "HALT_WAIT_FOR_RESTART"}
Handshake ==
  /\ r_state \in Asked =>
       /\ fe_req \/ restart_ack \/ r_got_restart_ack
       /\ ~(fe_req /\ (restart_ack \/ r_got_restart_ack))
       /\ ~(restart_ack /\ r_got_restart_ack)
       /\ restart_ack \/ r_got_restart_ack => fe_pos = r_restart_pc
  /\ r_state \notin Asked => ~fe_req /\ ~restart_ack
  /\ r_state \notin Asked \cup {"ACTIVE"} => ~r_got_restart_ack

(* Only a conditional move is cracked.                                     *)
Halves(u) == u.half # "whole" => u.kind = "cmov"
Whole == /\ \A s \in Slots : Halves(r_rob[s])
         /\ \A k \in DOMAIN r_dq : Halves(r_dq[k])

(* The states in which nothing new starts to execute.                      *)
Stopping == {"DRAIN", "RAT", "ARCH_FAULT", "WRITE_CSRS", "WAIT_FOR_CSR_WRITE",
             "WAIT_FOR_MMU", "FLUSH_FOR_HALT"}

(* What executes is counted: it is inflight, or the L1D has it, and what   *)
(* the multiplier has is not taken for something that never started.       *)
Counted ==
  /\ \A s \in Slots : unit[s] \notin {"idle", "mem"} => s \in r_rob_inflight
  /\ \A s \in Slots : unit[s] = "mul" => s \notin r_uq_wait
  /\ r_state = "RAT" => wrq = 0 /\ \A s \in Slots : unit[s] = "idle"
  /\ r_ds_done => r_state \in Stopping
Once(q) == \A i, j \in DOMAIN q : q[i] = q[j] => i = j
DataOnce == mem_dq \in Seq(Slots) /\ Once(mem_dq)

(* The ways of a serializing uop: before it is allocated, while it         *)
(* executes, and when the front end is restarted behind it.                *)
Before == {"FLUSH_CACHE", "ALLOC_FOR_SERIALIZE", "HANDLE_MONITOR", "ALLOC_FOR_MONITOR"}
Alone  == {"WAIT_FOR_SERIALIZE_AND_RESTART", "WAIT_FOR_MONITOR"}
After  == {"WAIT_FOR_ACK", "MONITOR_WAIT_FOR_ACK"}
Serial ==
  /\ r_state \in Before =>
       Occupancy = 0 /\ r_dq # <<>> /\ r_dq[1].kind \in Serializing
  /\ r_state = "FLUSH_CACHE" => ("l1d" \notin flushing => wrq = 0)
  /\ r_state \in {"HANDLE_MONITOR", "ALLOC_FOR_MONITOR"} => wrq = 0
  /\ r_state \in Alone \cup After => Occupancy = 1 /\ RobHead.kind \in Serializing
  /\ r_state \in After \cup {"ARCH_FAULT"} => Occupancy > 0 /\ HeadComplete(0)
  /\ r_state \notin Alone =>
       ((\E s \in Live : KindAt(s) \in Serializing) => HeadComplete(0))

(* Where the core is in the program while it is not running.               *)
InOrder ==
  /\ r_state = "ACTIVE" /\ Pipeline # <<>> => Pipeline[Len(Pipeline)].half # "lo"
  /\ r_state \in Before => r_dq[1].pos = arch_pos
  /\ r_state \in Alone \cup After \cup {"ARCH_FAULT"} => RobHead.pos = arch_pos
  /\ r_state \in After => r_restart_pc = Inc(arch_pos)
  /\ r_state = "ARCH_FAULT" => /\ RobHead.kind # "cmov" /\ r_epc = arch_pos
                               /\ r_irq <=> RobHead.kind = "irq"
  /\ r_state \in {"WRITE_CSRS", "WAIT_FOR_CSR_WRITE"} => arch_pos = HandlerReturn
  /\ r_state \in {"DRAIN", "RAT", "WAIT_FOR_MMU", "HALT_WAIT_FOR_RESTART"} =>
       r_restart_pc = arch_pos
  /\ r_state \in {"HALT", "FLUSH_FOR_HALT"} =>
       stopped \/ (Occupancy = 0 /\ arch_pos = 0 /\ r_dq = <<>> /\ ~fe_on)
  /\ r_state = "HALT_WAIT_FOR_RESTART" =>
       Occupancy = 0 /\ r_dq = <<>> /\ (fe_on => restart_ack)

IInv == /\ TypeOK /\ Handshake /\ Whole /\ NoLateCompletion /\ Counted /\ DataOnce
        /\ Serial /\ SerializingAlone /\ InOrder /\ ProgramOrder

-----------------------------------------------------------------------------
(* Ring arithmetic.                                                        *)
LEMMA Sizes == /\ NROB \in Nat /\ NROB >= 2 /\ NDQ \in Nat /\ NMRQ \in Nat
               /\ LEN \in Nat /\ LEN > 0 /\ Programs \subseteq Program
  BY CoreAssumption

Occ(h, t) == (t - h) % (2 * NROB)

LEMMA RingMoves ==
  ASSUME NEW h \in Ptrs, NEW t \in Ptrs, NEW a \in 0 .. 2, NEW b \in 0 .. 2,
         b <= Occ(h, t), Occ(h, t) + a <= NROB
  PROVE  /\ Occ(h, t) \in Nat
         /\ Adv(h, b) \in Ptrs /\ Adv(t, a) \in Ptrs
         /\ Occ(Adv(h, b), Adv(t, a)) = (Occ(h, t) - b) + a
  BY Sizes DEF Ptrs, Occ, Adv

LEMMA RingSlots ==
  ASSUME NEW h \in Ptrs, NEW k \in Nat, k <= 2 * NROB
  PROVE  /\ Adv(h, k) \in Ptrs /\ Slot(Adv(h, k)) \in Slots
         /\ \A b \in 0 .. 2 : b + k <= 2 * NROB => Adv(Adv(h, b), k) = Adv(h, b + k)
  BY Sizes DEF Ptrs, Adv, Slot, Slots

LEMMA RingTail ==
  ASSUME NEW h \in Ptrs, NEW t \in Ptrs, NEW k \in Nat, Occ(h, t) + k <= NROB
  PROVE  Occ(h, t) \in Nat /\ Adv(t, k) = Adv(h, Occ(h, t) + k)
  BY Sizes DEF Ptrs, Adv, Occ

LEMMA RingDistinct ==
  ASSUME NEW h \in Ptrs, NEW i \in 0 .. NROB - 1, NEW j \in 0 .. NROB - 1,
         Slot(Adv(h, i)) = Slot(Adv(h, j))
  PROVE  i = j
  BY Sizes DEF Ptrs, Adv, Slot

-----------------------------------------------------------------------------
(* What every edge may rely on of the state machine's outputs.             *)
Outputs == [alloc : 0 .. 2, heads : 0 .. 2, clr_rob : BOOLEAN, clr_dq : BOOLEAN,
            restart : BOOLEAN, restart_complete : BOOLEAN, calm : BOOLEAN,
            flush : BOOLEAN]
Good(c) ==
  /\ c \in Outputs
  /\ c.heads <= Occupancy /\ \A k \in 0 .. c.heads - 1 : HeadComplete(k)
  /\ c.alloc <= Len(r_dq) /\ Occupancy + c.alloc <= NROB
  /\ c.clr_rob => c.alloc = 0 /\ c.heads = 0
  /\ c.clr_rob <=> r_state = "RAT"
  /\ c.alloc > 0 => ~r_ds_done

(* The k-th oldest entry's slot, and those that retire.                    *)
Nth(k) == Slot(Adv(r_rob_head_ptr, k))
Retired(c) == {Nth(k) : k \in 0 .. c.heads - 1}

LEMMA Pointers ==
  ASSUME TypeOK
  PROVE  /\ r_rob_head_ptr \in Ptrs /\ r_rob_tail_ptr \in Ptrs
         /\ Occupancy = Occ(r_rob_head_ptr, r_rob_tail_ptr)
         /\ Occupancy \in 0 .. NROB /\ Live \subseteq Slots
         /\ \A k \in 0 .. NROB : Nth(k) \in Slots /\ Entry(k) = r_rob[Nth(k)]
         /\ Live = {Nth(k) : k \in 0 .. Occupancy - 1}
         /\ Occupancy > 0 => Nth(0) \in Live /\ RobHead = r_rob[Nth(0)]
         /\ Len(r_dq) \in 0 .. NDQ
<1>1. r_rob_head_ptr \in Ptrs /\ r_rob_tail_ptr \in Ptrs /\ Occupancy <= NROB
  BY DEF TypeOK
<1>2. Occupancy = Occ(r_rob_head_ptr, r_rob_tail_ptr) /\ Occupancy \in 0 .. NROB
  BY <1>1, Sizes DEF Occupancy, Occ, Ptrs
<1>3. \A k \in 0 .. NROB : Nth(k) \in Slots /\ Entry(k) = r_rob[Nth(k)]
  BY <1>1, RingSlots, Sizes DEF Nth, Entry
<1>5. Live = {Nth(k) : k \in 0 .. Occupancy - 1}
  BY DEF Live, Nth
<1>6. Occupancy > 0 => Nth(0) \in Live /\ RobHead = r_rob[Nth(0)]
  BY <1>2, <1>3, <1>5, Sizes DEF RobHead
<1>7. Len(r_dq) \in 0 .. NDQ
  BY LenProperties DEF TypeOK
<1> QED
  BY <1>1, <1>2, <1>3, <1>5, <1>6, <1>7, Sizes

LEMMA NthDistinct ==
  ASSUME TypeOK, NEW i \in 0 .. NROB - 1, NEW j \in 0 .. NROB - 1, Nth(i) = Nth(j)
  PROVE  i = j
  BY RingDistinct DEF TypeOK, Nth

LEMMA Shift ==
  ASSUME TypeOK, NEW c, Good(c), Buffer(c), ~c.clr_rob
  PROVE  /\ Occupancy' = (Occupancy - c.heads) + c.alloc
         /\ r_rob_head_ptr' \in Ptrs /\ r_rob_tail_ptr' \in Ptrs
         /\ \A k \in 0 .. NROB - c.heads : Nth(k)' = Nth(k + c.heads)
         /\ \A k \in 1 .. c.alloc :
              /\ Slot(Adv(r_rob_tail_ptr, k - 1)) = Nth(Occupancy + (k - 1))
              /\ NewUop(c, Slot(Adv(r_rob_tail_ptr, k - 1))) = r_dq[k]
         /\ NewSlots(c) \subseteq Slots \ Live
         /\ Live' = (Live \ Retired(c)) \cup NewSlots(c)
<1> DEFINE h == r_rob_head_ptr  t == r_rob_tail_ptr
<1>1. /\ c.alloc \in 0 .. 2 /\ c.heads \in 0 .. 2
      /\ c.heads <= Occupancy /\ Occupancy + c.alloc <= NROB
  BY DEF Good, Outputs
<1>0. Occupancy \in Nat /\ NROB \in Nat /\ NROB >= 2 /\ h \in Ptrs /\ t \in Ptrs
      /\ Occupancy = Occ(h, t)
  BY Pointers, Sizes
<1>2. h' = Adv(h, c.heads) /\ t' = Adv(t, c.alloc)
  BY DEF Buffer
<1>3. /\ h' \in Ptrs /\ t' \in Ptrs
      /\ Occupancy' = (Occupancy - c.heads) + c.alloc
  BY <1>0, <1>1, <1>2, RingMoves DEF Occupancy, Occ
<1>4. \A k \in 0 .. NROB - c.heads : Nth(k)' = Nth(k + c.heads)
  <2>1. ASSUME NEW k \in 0 .. NROB - c.heads
        PROVE  Adv(Adv(h, c.heads), k) = Adv(h, k + c.heads)
    <3>1. k \in Nat /\ k <= 2 * NROB /\ c.heads + k <= 2 * NROB
          /\ c.heads + k = k + c.heads
      BY <1>0, <1>1
    <3>2. \A b \in 0 .. 2 : b + k <= 2 * NROB => Adv(Adv(h, b), k) = Adv(h, b + k)
      BY <1>0, <3>1, RingSlots
    <3> QED
      BY <1>1, <3>1, <3>2
  <2> QED
    BY <1>2, <2>1 DEF Nth
<1>5. ASSUME NEW k \in 1 .. c.alloc
      PROVE  Slot(Adv(t, k - 1)) = Nth(Occupancy + (k - 1))
  <2>1. k - 1 \in Nat /\ Occ(h, t) + (k - 1) <= NROB
    BY <1>0, <1>1
  <2> QED
    BY <2>1, <1>0, RingTail DEF Nth
<1>6. ASSUME NEW i \in 1 .. c.alloc, NEW j \in 1 .. c.alloc,
             Slot(Adv(t, i - 1)) = Slot(Adv(t, j - 1))
      PROVE  i = j
  <2>1. Nth(Occupancy + (i - 1)) = Nth(Occupancy + (j - 1))
    BY <1>5, <1>6
  <2>2. Occupancy + (i - 1) \in 0 .. NROB - 1 /\ Occupancy + (j - 1) \in 0 .. NROB - 1
    BY <1>0, <1>1
  <2>3. Occupancy + (i - 1) = Occupancy + (j - 1)
    BY <2>1, <2>2, NthDistinct
  <2> QED
    BY <2>3, <1>0
<1>7. ASSUME NEW k \in 1 .. c.alloc
      PROVE  NewUop(c, Slot(Adv(t, k - 1))) = r_dq[k]
  BY <1>6 DEF NewUop
<1>8. NewSlots(c) = {Nth(Occupancy + (k - 1)) : k \in 1 .. c.alloc}
  BY <1>5 DEF NewSlots
<1>9. NewSlots(c) \subseteq Slots \ Live
  <2>1. ASSUME NEW k \in 1 .. c.alloc
        PROVE  /\ Occupancy + (k - 1) \in 0 .. NROB - 1
               /\ \A i \in 0 .. Occupancy - 1 : i \in 0 .. NROB - 1 /\ i # Occupancy + (k - 1)
    BY <1>0, <1>1
  <2>2. ASSUME NEW k \in 1 .. c.alloc
        PROVE  Nth(Occupancy + (k - 1)) \in Slots \ Live
    <3>1. Nth(Occupancy + (k - 1)) \in Slots
      BY <1>0, <2>1, Pointers
    <3>2. \A i \in 0 .. Occupancy - 1 : Nth(i) # Nth(Occupancy + (k - 1))
      BY <2>1, NthDistinct
    <3>3. Live = {Nth(i) : i \in 0 .. Occupancy - 1}
      BY Pointers
    <3> QED
      BY <3>1, <3>2, <3>3
  <2> QED
    BY <1>8, <2>2
<1>10. Live' = (Live \ Retired(c)) \cup NewSlots(c)
  <2>1. Live' = {Nth(k)' : k \in 0 .. ((Occupancy - c.heads) + c.alloc) - 1}
    BY <1>3 DEF Live, Nth
  <2>2. \A k \in 0 .. ((Occupancy - c.heads) + c.alloc) - 1 :
          k \in 0 .. NROB - c.heads
    BY <1>0, <1>1
  <2>3. Live' = {Nth(k + c.heads) : k \in 0 .. ((Occupancy - c.heads) + c.alloc) - 1}
    BY <2>1, <2>2, <1>4
  <2>4. \A i \in 0 .. Occupancy - 1, k \in 0 .. c.heads - 1 : Nth(i) = Nth(k) => i = k
    <3>1. \A i \in 0 .. Occupancy - 1 : i \in 0 .. NROB - 1
      BY <1>0, <1>1
    <3>2. \A k \in 0 .. c.heads - 1 : k \in 0 .. NROB - 1
      BY <1>0, <1>1
    <3> QED
      BY <3>1, <3>2, NthDistinct
  <2>5. Live \ Retired(c) = {Nth(i) : i \in c.heads .. Occupancy - 1}
    <3>1. Live = {Nth(k) : k \in 0 .. Occupancy - 1}
      BY Pointers
    <3>2. \A i \in 0 .. Occupancy - 1 : i \in c.heads .. Occupancy - 1 \/ i \in 0 .. c.heads - 1
      BY <1>0, <1>1
    <3>3. \A i \in c.heads .. Occupancy - 1 : i \in 0 .. Occupancy - 1 /\ i \notin 0 .. c.heads - 1
      BY <1>0, <1>1
    <3> QED
      BY <3>1, <3>2, <3>3, <2>4 DEF Retired
  <2>6. NewSlots(c) = {Nth(i) : i \in Occupancy .. (Occupancy + c.alloc) - 1}
    <3>1. \A i \in Occupancy .. (Occupancy + c.alloc) - 1 :
            /\ (i - Occupancy) + 1 \in 1 .. c.alloc
            /\ i = Occupancy + (((i - Occupancy) + 1) - 1)
      BY <1>0, <1>1
    <3>2. \A k \in 1 .. c.alloc : Occupancy + (k - 1) \in Occupancy .. (Occupancy + c.alloc) - 1
      BY <1>0, <1>1
    <3> QED
      BY <3>1, <3>2, <1>8
  <2>7. Live' = {Nth(i) : i \in c.heads .. (Occupancy + c.alloc) - 1}
    <3>1. \A i \in c.heads .. (Occupancy + c.alloc) - 1 :
            i - c.heads \in 0 .. ((Occupancy - c.heads) + c.alloc) - 1 /\ i = (i - c.heads) + c.heads
      BY <1>0, <1>1
    <3>2. \A k \in 0 .. ((Occupancy - c.heads) + c.alloc) - 1 :
            k + c.heads \in c.heads .. (Occupancy + c.alloc) - 1
      BY <1>0, <1>1
    <3> QED
      BY <3>1, <3>2, <2>3
  <2>8. c.heads .. (Occupancy + c.alloc) - 1 =
          (c.heads .. Occupancy - 1) \cup (Occupancy .. (Occupancy + c.alloc) - 1)
    BY <1>0, <1>1
  <2> QED
    BY <2>5, <2>6, <2>7, <2>8
<1> QED
  BY <1>3, <1>4, <1>5, <1>7, <1>9, <1>10

-----------------------------------------------------------------------------
(* Sequences that lose some of their first elements or gain last ones.     *)
LEMMA Dropped ==
  ASSUME NEW S, NEW q \in Seq(S), NEW m \in Nat, m <= Len(q)
  PROVE  /\ SubSeq(q, m + 1, Len(q)) \in Seq(S)
         /\ Len(SubSeq(q, m + 1, Len(q))) = Len(q) - m
         /\ \A i \in 1 .. Len(q) - m : SubSeq(q, m + 1, Len(q))[i] = q[i + m]
<1>0. Len(q) \in Nat
  BY LenProperties
<1>1. Len(q) \in Nat /\ DOMAIN q = 1 .. Len(q)
  BY LenProperties
<1>2. \A i \in m + 1 .. Len(q) : q[i] \in S
  BY <1>1, ElementOfSeq
<1>3. m + 1 \in 1 .. Len(q) + 1 /\ Len(q) \in m .. Len(q)
  BY <1>1
<1>4. /\ SubSeq(q, m + 1, Len(q)) \in Seq(S)
      /\ Len(SubSeq(q, m + 1, Len(q))) =
           IF m + 1 <= Len(q) THEN (Len(q) - (m + 1)) + 1 ELSE 0
      /\ \A i \in 1 .. (Len(q) - (m + 1)) + 1 :
           SubSeq(q, m + 1, Len(q))[i] = q[((m + 1) + i) - 1]
  BY <1>1, <1>3, SubSeqProperties
<1> DEFINE r == SubSeq(q, m + 1, Len(q))
<1>5. Len(r) = Len(q) - m
  <2>1. Len(r) = IF m + 1 <= Len(q) THEN (Len(q) - (m + 1)) + 1 ELSE 0
    BY <1>4
  <2>4. m = Len(q) \/ m < Len(q)
    BY <1>0
  <2> HIDE DEF r
  <2>2. CASE m = Len(q)
    BY <2>1, <2>2, <1>1
  <2>3. CASE m < Len(q)
    <3>1. m + 1 <= Len(q) /\ (Len(q) - (m + 1)) + 1 = Len(q) - m
      BY <2>3, <1>1
    <3> QED
      BY <2>1, <3>1
  <2> QED
    BY <2>2, <2>3, <2>4
<1>6. ASSUME NEW i \in 1 .. Len(q) - m
      PROVE  SubSeq(q, m + 1, Len(q))[i] = q[i + m]
  <2>1. i \in 1 .. (Len(q) - (m + 1)) + 1 /\ ((m + 1) + i) - 1 = i + m
    BY <1>1
  <2> QED
    BY <2>1, <1>4
<1> QED
  BY <1>4, <1>5, <1>6

LEMMA Joined ==
  ASSUME NEW S, NEW q \in Seq(S), NEW r \in Seq(S)
  PROVE  /\ q \o r \in Seq(S) /\ Len(q \o r) = Len(q) + Len(r)
         /\ Len(q) \in Nat /\ Len(r) \in Nat
         /\ \A i \in 1 .. Len(q) : (q \o r)[i] = q[i]
         /\ \A i \in 1 .. Len(r) : (q \o r)[Len(q) + i] = r[i]
<1>1. Len(q) \in Nat /\ Len(r) \in Nat
  BY LenProperties
<1>2. /\ q \o r \in Seq(S) /\ Len(q \o r) = Len(q) + Len(r)
      /\ \A i \in 1 .. Len(q) + Len(r) :
           (q \o r)[i] = IF i <= Len(q) THEN q[i] ELSE r[i - Len(q)]
  BY ConcatProperties
<1> QED
  BY <1>1, <1>2

LEMMA RangeOf ==
  ASSUME NEW S, NEW q \in Seq(S)
  PROVE  /\ DOMAIN q = 1 .. Len(q) /\ Len(q) \in Nat
         /\ SeqRange(q) \subseteq S
         /\ \A x : x \in SeqRange(q) <=> \E i \in 1 .. Len(q) : x = q[i]
<1>1. DOMAIN q = 1 .. Len(q) /\ Len(q) \in Nat
  BY LenProperties
<1>2. \A i \in 1 .. Len(q) : q[i] \in S
  BY ElementOfSeq
<1> QED
  BY <1>1, <1>2 DEF SeqRange

LEMMA JoinedOnce ==
  ASSUME NEW S, NEW q \in Seq(S), NEW r \in Seq(S), Once(q), Once(r),
         SeqRange(q) \cap SeqRange(r) = {}
  PROVE  Once(q \o r) /\ SeqRange(q \o r) = SeqRange(q) \cup SeqRange(r)
<1> DEFINE z == q \o r
<1>1. /\ z \in Seq(S) /\ Len(z) = Len(q) + Len(r) /\ Len(q) \in Nat /\ Len(r) \in Nat
      /\ \A i \in 1 .. Len(q) : z[i] = q[i]
      /\ \A i \in 1 .. Len(r) : z[Len(q) + i] = r[i]
  BY Joined
<1>2. DOMAIN z = 1 .. Len(q) + Len(r) /\ DOMAIN q = 1 .. Len(q) /\ DOMAIN r = 1 .. Len(r)
  BY <1>1, RangeOf
<1> HIDE DEF z
<1>3. ASSUME NEW i \in 1 .. Len(q) + Len(r)
      PROVE  \/ i \in 1 .. Len(q) /\ z[i] = q[i]
             \/ i - Len(q) \in 1 .. Len(r) /\ z[i] = r[i - Len(q)]
  <2>1. CASE i <= Len(q)
    BY <1>1, <2>1
  <2>2. CASE ~(i <= Len(q))
    <3>1. i - Len(q) \in 1 .. Len(r) /\ Len(q) + (i - Len(q)) = i
      BY <1>1, <2>2
    <3> QED
      BY <1>1, <3>1
  <2> QED
    BY <2>1, <2>2
<1>4. \A i \in 1 .. Len(q), j \in 1 .. Len(r) : q[i] # r[j]
  BY <1>2 DEF SeqRange
<1>5. Once(z)
  <2> SUFFICES ASSUME NEW i \in 1 .. Len(q) + Len(r), NEW j \in 1 .. Len(q) + Len(r),
                      z[i] = z[j]
               PROVE  i = j
    BY <1>2 DEF Once
  <2>1. CASE /\ i \in 1 .. Len(q) /\ z[i] = q[i]
             /\ j \in 1 .. Len(q) /\ z[j] = q[j]
    BY <1>2, <2>1 DEF Once
  <2>2. CASE /\ i - Len(q) \in 1 .. Len(r) /\ z[i] = r[i - Len(q)]
             /\ j - Len(q) \in 1 .. Len(r) /\ z[j] = r[j - Len(q)]
    <3>1. i - Len(q) = j - Len(q)
      BY <1>2, <2>2 DEF Once
    <3> QED
      BY <3>1, <1>1
  <2> QED
    BY <1>3, <1>4, <2>1, <2>2
<1>6. \A x : x \in SeqRange(z) <=> x \in SeqRange(q) \cup SeqRange(r)
  <2>1. ASSUME NEW x \in SeqRange(z) PROVE x \in SeqRange(q) \cup SeqRange(r)
    BY <1>2, <1>3 DEF SeqRange
  <2>2. ASSUME NEW x \in SeqRange(q) PROVE x \in SeqRange(z)
    <3>1. PICK i \in 1 .. Len(q) : x = q[i]
      BY <1>2 DEF SeqRange
    <3>2. i \in DOMAIN z /\ z[i] = x
      BY <1>1, <1>2, <3>1
    <3> QED
      BY <3>2 DEF SeqRange
  <2>3. ASSUME NEW x \in SeqRange(r) PROVE x \in SeqRange(z)
    <3>1. PICK i \in 1 .. Len(r) : x = r[i]
      BY <1>2 DEF SeqRange
    <3>2. Len(q) + i \in DOMAIN z /\ z[Len(q) + i] = x
      BY <1>1, <1>2, <3>1
    <3> QED
      BY <3>2 DEF SeqRange
  <2> QED
    BY <2>1, <2>2, <2>3
<1> QED
  BY <1>5, <1>6 DEF z

LEMMA DroppedOnce ==
  ASSUME NEW S, NEW q \in Seq(S), NEW m \in Nat, m <= Len(q), Once(q)
  PROVE  LET r == SubSeq(q, m + 1, Len(q)) IN
         /\ r \in Seq(S) /\ Once(r) /\ SeqRange(r) \subseteq SeqRange(q)
         /\ \A i \in 1 .. m : q[i] \notin SeqRange(r)
<1> DEFINE r == SubSeq(q, m + 1, Len(q))
<1>1. /\ r \in Seq(S) /\ Len(r) = Len(q) - m
      /\ \A i \in 1 .. Len(q) - m : r[i] = q[i + m]
  BY Dropped
<1>2. Len(q) \in Nat /\ DOMAIN q = 1 .. Len(q) /\ DOMAIN r = 1 .. Len(q) - m
  BY <1>1, RangeOf
<1> HIDE DEF r
<1>3. ASSUME NEW i \in 1 .. Len(q) - m
      PROVE  i + m \in 1 .. Len(q) /\ i + m \notin 1 .. m /\ r[i] = q[i + m]
  BY <1>1, <1>2
<1>4. Once(r)
  <2> SUFFICES ASSUME NEW i \in 1 .. Len(q) - m, NEW j \in 1 .. Len(q) - m, r[i] = r[j]
               PROVE  i = j
    BY <1>2 DEF Once
  <2>1. i + m = j + m
    BY <1>2, <1>3 DEF Once
  <2> QED
    BY <2>1, <1>2
<1>5. SeqRange(r) \subseteq SeqRange(q)
  BY <1>2, <1>3 DEF SeqRange
<1>6. ASSUME NEW i \in 1 .. m
      PROVE  q[i] \notin SeqRange(r)
  <2>1. i \in 1 .. Len(q)
    BY <1>2
  <2>2. \A j \in 1 .. Len(q) - m : r[j] # q[i]
    BY <1>2, <1>3, <2>1 DEF Once
  <2> QED
    BY <1>2, <2>2 DEF SeqRange
<1> QED
  BY <1>1, <1>4, <1>5, <1>6 DEF r

-----------------------------------------------------------------------------
(* One edge of the execution units.                                        *)
Added(c) == {s \in NewSlots(c) : NewUop(c, s).kind \notin Folded}
Started == {"start1", "start2", "mul", "mem"}
Gone == {"idle", "mem"}

(* Which completion bits an edge sets, and what it leaves in the units.     *)
Completes(c, done, sd) ==
  /\ done \subseteq {s \in Slots : unit[s] \in Started}
  /\ sd = {} \/ (mem_dq # <<>> /\ sd = {Head(mem_dq)})
  /\ r_rob_complete' =
       IF c.clr_rob THEN {}
       ELSE (r_rob_complete \ Added(c)) \cup (NewSlots(c) \ Added(c)) \cup done
  /\ r_rob_sd_complete' =
       IF c.clr_rob THEN {}
       ELSE (r_rob_sd_complete \ NewSlots(c)) \cup sd
              \cup {s \in NewSlots(c) : NewUop(c, s).kind \notin HasData}
  /\ mem_dq' =
       IF c.clr_rob THEN <<>>
       ELSE SubSeq(mem_dq, 1 + Cardinality(sd), Len(mem_dq))
              \o NewData(c, 1) \o NewData(c, 2)
  /\ r_rob_inflight' =
       IF r_ds_done THEN r_rob_inflight \ (WaitBits \cup done)
       ELSE (r_rob_inflight \ done) \cup Added(c)

Units(c, done) ==
  /\ unit' \in [Slots -> Where]
  /\ \A s \in Slots \ Added(c) :
       /\ unit'[s] # "idle" => unit[s] # "idle" /\ s \notin done
       /\ unit'[s] \notin Gone =>
            unit[s] \notin Gone /\ (r_ds_done => unit[s] = "mul")
       /\ unit'[s] = "mul" => s \notin r_uq_wait'
  /\ \A s \in Added(c) \cap Slots : unit'[s] = "queued"
  /\ r_uq_wait' \subseteq Slots
  /\ wrq' \in 0 .. NMRQ
  /\ wrq' > wrq => \E s \in At("mem") : KindAt(s) \in AckedEarly

LEMMA UnitsStep ==
  ASSUME TypeOK, Counted, NEW c, Execute(c), \A s \in Added(c) : unit[s] = "idle"
  PROVE  \E done, sd : Completes(c, done, sd) /\ Units(c, done)
<1>1. PICK p1 \in AtMostOne({s \in At("queued") : KindAt(s) \in OnePort \cup TwoPorts}),
     p2 \in AtMostOne({s \in At("queued") : KindAt(s) \in TwoPorts}),
     pm \in AtMostOne({s \in At("queued") : KindAt(s) \in Mem}),
     mul \in AtMostOne(At("mul")),
     rsp \in AtMostOne({s \in At("mem") : MayAnswer(s)}),
     sd \in {{}} \cup (IF mem_dq = <<>> THEN {} ELSE {{Head(mem_dq)}}),
     written \in BOOLEAN : Execute(c)!(p1, p2, pm, mul, rsp, sd, written)
  BY DEF Execute
<1> DEFINE mulop == {s \in At("start1") : KindAt(s) = "mul"}
           done  == (At("start1") \ mulop) \cup At("start2") \cup mul \cup rsp
<1>2. /\ mul \subseteq At("mul") /\ rsp \subseteq {s \in At("mem") : MayAnswer(s)}
      /\ p1 \subseteq At("queued") /\ p2 \subseteq At("queued") /\ pm \subseteq At("queued")
  BY DEF AtMostOne
<1>3. done \subseteq {s \in Slots : unit[s] \in Started}
  BY <1>2 DEF At, Started
<1>4. unit' = [s \in Slots |->
         CASE s \in Added(c) -> "queued"
           [] s \in p1    -> "start1"
           [] s \in p2    -> "start2"
           [] s \in pm    -> "startm"
           [] s \in done  -> "idle"
           [] s \in mulop -> IF r_ds_done THEN "idle" ELSE "mul"
           [] unit[s] = "startm" -> "mem"
           [] unit[s] = "queued" /\ r_ds_done -> "idle"
           [] OTHER -> unit[s]]
  BY <1>1 DEF Added
<1>5. r_ds_done => p1 = {} /\ p2 = {} /\ pm = {}
  BY <1>1
<1>6. unit \in [Slots -> Where]
  BY DEF TypeOK
<1>7. r_uq_wait' = IF c.restart_complete THEN {}
                   ELSE (r_uq_wait \cup At("start2")) \ At("start1")
  BY <1>1
<1>8. Completes(c, done, sd)
  <2>1. sd = {} \/ (mem_dq # <<>> /\ sd = {Head(mem_dq)})
    OBVIOUS
  <2> QED
    BY <1>1, <1>3, <2>1 DEF Completes, Added
<1>d. mulop \subseteq At("start1") /\ At("start1") \cup At("start2") \subseteq done \cup mulop
  OBVIOUS
<1>m. done \cap mulop = {}
  BY <1>2 DEF At
<1> HIDE DEF mulop, done
<1>k. /\ p1 \cap p2 = {} /\ pm \cap (p1 \cup p2) = {}
      /\ p1 \cup p2 \cup pm \subseteq At("queued")
  <2>1. p1 \cup p2 \subseteq {s \in At("queued") : KindAt(s) \in OnePort \cup TwoPorts}
    BY DEF AtMostOne
  <2>2. pm \subseteq {s \in At("queued") : KindAt(s) \in Mem}
    BY DEF AtMostOne
  <2>3. \A k \in Mem : k \notin OnePort \cup TwoPorts
    BY DEF Mem, OnePort, TwoPorts, FlushFirst, IsBr
  <2>4. p1 \cap p2 = {}
    BY <1>1
  <2> QED
    BY <2>1, <2>2, <2>3, <2>4
<1>9. ASSUME NEW s \in Slots
      PROVE  unit'[s] = IF s \in Added(c) THEN "queued"
                   ELSE IF s \in p1 THEN "start1"
                   ELSE IF s \in p2 THEN "start2"
                   ELSE IF s \in pm THEN "startm"
                   ELSE IF s \in done THEN "idle"
                   ELSE IF s \in mulop THEN IF r_ds_done THEN "idle" ELSE "mul"
                   ELSE IF unit[s] = "startm" THEN "mem"
                   ELSE IF unit[s] = "queued" /\ r_ds_done THEN "idle" ELSE unit[s]
  <2>1. s \in Added(c) => unit[s] = "idle"
    OBVIOUS
  <2>2. s \in p1 \cup p2 \cup pm => unit[s] = "queued" /\ ~r_ds_done
    BY <1>k, <1>5 DEF At
  <2>3. s \in done => unit[s] \in {"start1", "start2", "mul", "mem"} /\ s \notin mulop
    BY <1>3, <1>m DEF Started
  <2>4. s \in mulop => unit[s] = "start1"
    BY <1>d DEF At
  <2>5. ~(s \in p1 /\ s \in p2) /\ ~(s \in pm /\ s \in p1) /\ ~(s \in pm /\ s \in p2)
    BY <1>k
  <2>6. unit'[s] = CASE s \in Added(c) -> "queued"
           [] s \in p1    -> "start1"
           [] s \in p2    -> "start2"
           [] s \in pm    -> "startm"
           [] s \in done  -> "idle"
           [] s \in mulop -> IF r_ds_done THEN "idle" ELSE "mul"
           [] unit[s] = "startm" -> "mem"
           [] unit[s] = "queued" /\ r_ds_done -> "idle"
           [] OTHER -> unit[s]
    BY <1>4
  <2> QED
    BY <2>1, <2>2, <2>3, <2>4, <2>5, <2>6
<1>10. ASSUME NEW s \in Slots \ Added(c)
       PROVE  /\ unit'[s] # "idle" => unit[s] # "idle" /\ s \notin done
              /\ unit'[s] \notin Gone =>
                   unit[s] \notin Gone /\ (r_ds_done => unit[s] = "mul")
              /\ unit'[s] = "mul" => s \notin r_uq_wait'
  <2>1. unit[s] \in Where
    BY <1>6
  <2>2. CASE s \in p1 \cup p2 \cup pm
    <3>1. unit[s] = "queued"
      BY <1>2, <2>2 DEF At
    <3>2. unit'[s] \in {"start1", "start2", "startm"}
      BY <1>9, <2>2
    <3>3. s \notin done
      BY <1>3, <3>1 DEF Started
    <3> QED
      BY <3>1, <3>2, <3>3, <1>5, <2>2 DEF Gone
  <2>3. CASE s \notin p1 \cup p2 \cup pm /\ s \in done
    <3>1. unit'[s] = "idle"
      BY <1>9, <2>3
    <3> QED
      BY <3>1 DEF Gone
  <2>4. CASE s \notin p1 \cup p2 \cup pm /\ s \notin done /\ s \in mulop
    <3>1. unit[s] = "start1" /\ unit'[s] = IF r_ds_done THEN "idle" ELSE "mul"
      BY <1>9, <1>d, <2>4 DEF At
    <3>2. s \notin r_uq_wait'
      BY <1>7, <3>1 DEF At
    <3> QED
      BY <3>1, <3>2, <2>4 DEF Gone
  <2>5. CASE s \notin p1 \cup p2 \cup pm /\ s \notin done /\ s \notin mulop
    <3>1. unit[s] # "start1" /\ unit[s] # "start2"
      BY <1>d, <2>5 DEF At
    <3>2. unit'[s] = IF unit[s] = "startm" THEN "mem"
                     ELSE IF unit[s] = "queued" /\ r_ds_done THEN "idle" ELSE unit[s]
      BY <1>9, <2>5
    <3>3. unit[s] = "mul" => s \notin r_uq_wait'
      BY <1>7 DEF Counted, At
    <3> QED
      BY <3>1, <3>2, <3>3, <2>1, <2>5 DEF Gone, Where
  <2> QED
    BY <2>2, <2>3, <2>4, <2>5
<1>11. \A s \in Added(c) \cap Slots : unit'[s] = "queued"
  BY <1>9
<1>w. unit' \in [Slots -> Where]
  <2>1. \A x : x \in {"queued", "start1", "start2", "startm", "idle", "mul", "mem"} => x \in Where
    BY DEF Where
  <2>2. \A s \in Slots : unit'[s] \in Where
    BY <1>9, <1>6, <2>1
  <2> QED
    BY <1>4, <2>2
<1>12. wrq' \in 0 .. NMRQ /\ (wrq' > wrq => \E s \in At("mem") : KindAt(s) \in AckedEarly)
  <2>1. wrq \in 0 .. NMRQ /\ NMRQ \in Nat
    BY Sizes DEF TypeOK
  <2>2. wrq' = wrq - (IF written THEN 1 ELSE 0)
                  + (IF ~r_ds_done /\ \E s \in rsp : KindAt(s) \in AckedEarly
                     THEN 1 ELSE 0)
    BY <1>1
  <2>3. (\E s \in rsp : KindAt(s) \in AckedEarly) =>
          wrq < NMRQ /\ \E s \in At("mem") : KindAt(s) \in AckedEarly
    BY <1>2 DEF MayAnswer
  <2>4. written => wrq > 0
    <3>1. AckedUnretired \subseteq Slots
      BY Pointers DEF AckedUnretired
    <3>3. IsFiniteSet(0 .. NROB - 1)
      BY Sizes, FS_Interval
    <3>2. Cardinality(AckedUnretired) \in Nat
      BY <3>1, <3>3, FS_Subset, FS_CardinalityType DEF Slots
    <3> QED
      BY <1>1, <2>1, <3>2 DEF CanWrite
  <2> QED
    BY <2>1, <2>2, <2>3, <2>4
<1>13. r_uq_wait' \subseteq Slots
  BY <1>7 DEF TypeOK, At
<1>14. Units(c, done)
  BY <1>w, <1>10, <1>11, <1>12, <1>13 DEF Units
<1> QED
  BY <1>8, <1>14

-----------------------------------------------------------------------------
(* What executes, and whose data is awaited, after an edge.                 *)
LEMMA NewDataProperties ==
  ASSUME TypeOK, NEW c, Good(c), Buffer(c), ~c.clr_rob
  PROVE  /\ \A k \in {1, 2} :
              /\ NewData(c, k) \in Seq(Slots) /\ Once(NewData(c, k))
              /\ \A s \in SeqRange(NewData(c, k)) :
                   s \in NewSlots(c) /\ NewUop(c, s).kind \in HasData
         /\ SeqRange(NewData(c, 1)) \cap SeqRange(NewData(c, 2)) = {}
<1>1. c.alloc \in 0 .. 2 /\ Occupancy \in Nat /\ Occupancy + c.alloc <= NROB /\ NROB \in Nat
  BY Pointers, Sizes DEF Good, Outputs
<1> DEFINE new(k) == Slot(Adv(r_rob_tail_ptr, k - 1))
<1>2. \A k \in 1 .. c.alloc : new(k) = Nth(Occupancy + (k - 1)) /\ NewUop(c, new(k)) = r_dq[k]
  BY Shift
<1>3. NewSlots(c) \subseteq Slots /\ NewSlots(c) = {new(k) : k \in 1 .. c.alloc}
  BY Shift DEF NewSlots
<1>4. c.alloc = 2 => new(1) # new(2)
  <2> SUFFICES ASSUME c.alloc = 2 PROVE new(1) # new(2)
    OBVIOUS
  <2>1. 1 \in 1 .. c.alloc /\ 2 \in 1 .. c.alloc
    OBVIOUS
  <2>2. new(1) = Nth(Occupancy + (1 - 1)) /\ new(2) = Nth(Occupancy + (2 - 1))
    BY <1>2, <2>1
  <2>3. /\ Occupancy + (1 - 1) \in 0 .. NROB - 1 /\ Occupancy + (2 - 1) \in 0 .. NROB - 1
        /\ Occupancy + (1 - 1) # Occupancy + (2 - 1)
    BY <1>1
  <2> QED
    BY <2>2, <2>3, NthDistinct
<1> HIDE DEF new
<1>5. \A k \in {1, 2} : NewData(c, k) = IF k <= c.alloc /\ r_dq[k].kind \in HasData
                                        THEN <<new(k)>> ELSE <<>>
  BY DEF NewData, new
<1>6. \A x : Once(<<x>>) /\ SeqRange(<<x>>) = {x}
  BY DEF Once, SeqRange
<1>7. Once(<<>>) /\ SeqRange(<<>>) = {}
  BY DEF Once, SeqRange
<1>8. \A k \in {1, 2} : k <= c.alloc => k \in 1 .. c.alloc /\ new(k) \in NewSlots(c)
  BY <1>1, <1>3
<1>9. ASSUME NEW k \in {1, 2}
      PROVE  /\ NewData(c, k) \in Seq(Slots) /\ Once(NewData(c, k))
             /\ \A s \in SeqRange(NewData(c, k)) :
                  s \in NewSlots(c) /\ NewUop(c, s).kind \in HasData
  <2>1. CASE k <= c.alloc /\ r_dq[k].kind \in HasData
    <3>1. NewData(c, k) = <<new(k)>> /\ new(k) \in Slots
      BY <1>3, <1>5, <1>8, <2>1
    <3>2. <<new(k)>> \in Seq(Slots)
      BY <3>1
    <3> QED
      BY <1>2, <1>6, <1>8, <2>1, <3>1, <3>2
  <2>2. CASE ~(k <= c.alloc /\ r_dq[k].kind \in HasData)
    <3>1. NewData(c, k) = <<>>
      BY <1>5, <2>2
    <3>2. <<>> \in Seq(Slots)
      OBVIOUS
    <3> QED
      BY <1>7, <3>1, <3>2
  <2> QED
    BY <2>1, <2>2
<1>10. SeqRange(NewData(c, 1)) \cap SeqRange(NewData(c, 2)) = {}
  <2>1. SeqRange(NewData(c, 2)) # {} => c.alloc = 2 /\ SeqRange(NewData(c, 2)) = {new(2)}
    BY <1>1, <1>5, <1>6, <1>7
  <2>2. SeqRange(NewData(c, 1)) \subseteq {new(1)}
    BY <1>5, <1>6, <1>7
  <2> QED
    BY <1>4, <2>1, <2>2
<1> QED
  BY <1>9, <1>10


LEMMA ExecuteStep ==
  ASSUME TypeOK, NoLateCompletion, Counted, DataOnce, NEW c, Good(c), Execute(c), Buffer(c)
  PROVE  /\ NoLateCompletion' /\ DataOnce'
         /\ \A s \in Slots : unit'[s] \notin Gone => s \in r_rob_inflight'
         /\ \A s \in Slots : unit'[s] = "mul" => s \notin r_uq_wait'
         /\ unit' \in [Slots -> Where] /\ wrq' \in 0 .. NMRQ
         /\ r_uq_wait' \subseteq Slots /\ r_rob_inflight' \subseteq Slots
         /\ r_rob_complete' \subseteq Slots /\ r_rob_sd_complete' \subseteq Slots
<1>1. /\ c.alloc \in 0 .. 2 /\ c.heads \in 0 .. 2 /\ c.heads <= Occupancy
      /\ \A k \in 0 .. c.heads - 1 : HeadComplete(k)
      /\ c.clr_rob => c.alloc = 0 /\ r_state = "RAT"
      /\ c.alloc > 0 => ~r_ds_done
  BY DEF Good, Outputs
<1>2. NewSlots(c) \subseteq Slots \ Live
  <2>1. CASE c.alloc = 0
    BY <2>1 DEF NewSlots
  <2>2. CASE c.alloc # 0
    BY <1>1, <2>2, Shift
  <2> QED
    BY <2>1, <2>2
<1>3. Added(c) \subseteq NewSlots(c) /\ \A s \in NewSlots(c) : unit[s] = "idle"
  BY <1>2 DEF Added, NoLateCompletion
<1>4. PICK done, sd : Completes(c, done, sd) /\ Units(c, done)
  BY <1>3, UnitsStep
<1>5. /\ \A s \in Slots : unit[s] # "idle" => s \in Live /\ s \notin r_rob_complete
      /\ SeqRange(mem_dq) \subseteq Live \ r_rob_sd_complete
      /\ mem_dq \in Seq(Slots) /\ Once(mem_dq)
  BY DEF NoLateCompletion, DataOnce
<1>6. done \subseteq {s \in Slots : unit[s] # "idle"}
  BY <1>4 DEF Completes, Started
<1>7. sd \subseteq SeqRange(mem_dq)
  <2>1. mem_dq # <<>> => Head(mem_dq) \in SeqRange(mem_dq)
    <3> SUFFICES ASSUME mem_dq # <<>> PROVE Head(mem_dq) \in SeqRange(mem_dq)
      OBVIOUS
    <3>1. Len(mem_dq) \in Nat /\ Len(mem_dq) # 0
      BY <1>5, EmptySeq, LenProperties
    <3>2. Head(mem_dq) = mem_dq[1]
      BY <1>5, HeadTailProperties
    <3> QED
      BY <1>5, <3>1, <3>2, RangeOf
  <2> QED
    BY <1>4, <2>1 DEF Completes
<1>8. SeqRange(mem_dq) \subseteq Slots /\ Live \subseteq Slots
  BY <1>5, RangeOf, Pointers
<1>9. /\ r_rob_complete' \subseteq Slots /\ r_rob_sd_complete' \subseteq Slots
      /\ r_rob_inflight' \subseteq Slots
  <2>1. r_rob_complete \subseteq Slots /\ r_rob_sd_complete \subseteq Slots
        /\ r_rob_inflight \subseteq Slots
    BY DEF TypeOK
  <2> QED
    BY <1>2, <1>3, <1>4, <1>6, <1>7, <1>8, <2>1 DEF Completes
<1>10. ASSUME NEW s \in Slots, unit'[s] \notin Gone
       PROVE  s \in r_rob_inflight'
  <2>1. r_rob_inflight' = IF r_ds_done THEN r_rob_inflight \ (WaitBits \cup done)
                          ELSE (r_rob_inflight \ done) \cup Added(c)
    BY <1>4 DEF Completes
  <2>2. CASE s \in Added(c)
    <3>1. ~r_ds_done
      BY <1>1, <1>3, <2>2 DEF NewSlots
    <3> QED
      BY <2>1, <2>2, <3>1
  <2>3. CASE s \notin Added(c)
    <3>1. unit[s] \notin Gone /\ (r_ds_done => unit[s] = "mul") /\ s \notin done
      BY <1>4, <1>10, <2>3 DEF Units, Gone
    <3>2. s \in r_rob_inflight
      BY <3>1 DEF Counted, Gone
    <3>3. unit[s] = "mul" => s \notin WaitBits
      BY DEF Counted, WaitBits, At
    <3> QED
      BY <2>1, <3>1, <3>2, <3>3
  <2> QED
    BY <2>2, <2>3
<1>11. ASSUME NEW s \in Slots, unit'[s] = "mul"
       PROVE  s \notin r_uq_wait'
  BY <1>4, <1>11 DEF Units
<1>12. CASE c.clr_rob
  <2>1. NewSlots(c) = {} /\ Added(c) = {} /\ \A s \in Slots : unit[s] = "idle"
    BY <1>1, <1>12 DEF NewSlots, Added, Counted
  <2>2. \A s \in Slots : unit'[s] = "idle"
    BY <1>4, <2>1 DEF Units
  <2>3. mem_dq' = <<>>
    BY <1>4, <1>12 DEF Completes
  <2>4. SeqRange(<<>>) = {} /\ Once(<<>>)
    BY DEF SeqRange, Once
  <2>5. NoLateCompletion' /\ DataOnce'
    BY <2>2, <2>3, <2>4 DEF NoLateCompletion, DataOnce
  <2> QED
    BY <1>4, <1>9, <1>10, <1>11, <2>5 DEF Units
<1>13. CASE ~c.clr_rob
  <2>1. /\ Live' = (Live \ Retired(c)) \cup NewSlots(c)
        /\ \A s \in Retired(c) : s \in r_rob_complete /\ s \in r_rob_sd_complete
    BY <1>1, <1>13, Shift DEF Retired, HeadComplete, Nth
  <2>2. /\ r_rob_complete' =
             (r_rob_complete \ Added(c)) \cup (NewSlots(c) \ Added(c)) \cup done
        /\ r_rob_sd_complete' =
             (r_rob_sd_complete \ NewSlots(c)) \cup sd
                \cup {s \in NewSlots(c) : NewUop(c, s).kind \notin HasData}
        /\ mem_dq' = SubSeq(mem_dq, 1 + Cardinality(sd), Len(mem_dq))
                       \o NewData(c, 1) \o NewData(c, 2)
    BY <1>4, <1>13 DEF Completes
  <2>3. ASSUME NEW s \in Slots, unit'[s] # "idle"
        PROVE  s \in Live' \ r_rob_complete'
    <3>1. CASE s \in Added(c)
      BY <1>3, <1>6, <2>1, <2>2, <3>1
    <3>2. CASE s \notin Added(c)
      <4>1. unit[s] # "idle" /\ s \notin done
        BY <1>4, <2>3, <3>2 DEF Units
      <4> QED
        BY <1>2, <1>5, <2>1, <2>2, <4>1
    <3> QED
      BY <3>1, <3>2
  <2>4. /\ SubSeq(mem_dq, 1 + Cardinality(sd), Len(mem_dq)) \in Seq(Slots)
        /\ Once(SubSeq(mem_dq, 1 + Cardinality(sd), Len(mem_dq)))
        /\ SeqRange(SubSeq(mem_dq, 1 + Cardinality(sd), Len(mem_dq)))
             \subseteq SeqRange(mem_dq) \ sd
    <3>0. Len(mem_dq) \in Nat
      BY <1>5, LenProperties
    <3>1. CASE sd = {}
      <4>1. Cardinality(sd) = 0
        BY <3>1, FS_EmptySet
      <4>2. 0 \in Nat /\ 0 <= Len(mem_dq) /\ 1 + Cardinality(sd) = 0 + 1
        BY <3>0, <4>1
      <4> QED
        BY <1>5, <3>1, <4>2, DroppedOnce
    <3>2. CASE sd # {}
      <4>1. mem_dq # <<>> /\ sd = {Head(mem_dq)}
        BY <1>4, <3>2 DEF Completes
      <4>2. Cardinality(sd) = 1
        BY <4>1, FS_Singleton
      <4>3. Len(mem_dq) # 0 /\ Head(mem_dq) = mem_dq[1]
        BY <1>5, <4>1, EmptySeq, HeadTailProperties
      <4>4. 1 \in Nat /\ 1 <= Len(mem_dq) /\ 1 + Cardinality(sd) = 1 + 1 /\ 1 \in 1 .. 1
        BY <3>0, <4>2, <4>3
      <4>5. sd = {mem_dq[1]}
        BY <4>1, <4>3
      <4> DEFINE r == SubSeq(mem_dq, 1 + 1, Len(mem_dq))
      <4>6. /\ r \in Seq(Slots) /\ Once(r) /\ SeqRange(r) \subseteq SeqRange(mem_dq)
            /\ \A i \in 1 .. 1 : mem_dq[i] \notin SeqRange(r)
        BY <1>5, <4>4, DroppedOnce
      <4>7. SubSeq(mem_dq, 1 + Cardinality(sd), Len(mem_dq)) = r
        BY <4>4
      <4> HIDE DEF r
      <4>8. SeqRange(r) \subseteq SeqRange(mem_dq) \ sd
        BY <4>4, <4>5, <4>6
      <4> QED
        BY <4>6, <4>7, <4>8
    <3> QED
      BY <3>1, <3>2
  <2> DEFINE rest == SubSeq(mem_dq, 1 + Cardinality(sd), Len(mem_dq))
             d1 == NewData(c, 1)
             d2 == NewData(c, 2)
  <2>5. /\ d1 \in Seq(Slots) /\ Once(d1) /\ d2 \in Seq(Slots) /\ Once(d2)
        /\ SeqRange(d1) \cap SeqRange(d2) = {}
        /\ \A s \in SeqRange(d1) \cup SeqRange(d2) :
             s \in NewSlots(c) /\ NewUop(c, s).kind \in HasData
    BY <1>13, NewDataProperties
  <2>6. rest \in Seq(Slots) /\ Once(rest) /\ SeqRange(rest) \subseteq SeqRange(mem_dq) \ sd
    BY <2>4
  <2>7. mem_dq' = (rest \o d1) \o d2
    BY <2>2
  <2> HIDE DEF rest, d1, d2
  <2>8. SeqRange(rest) \cap (SeqRange(d1) \cup SeqRange(d2)) = {}
    BY <1>2, <1>5, <2>5, <2>6
  <2>9. Once(rest \o d1) /\ SeqRange(rest \o d1) = SeqRange(rest) \cup SeqRange(d1)
        /\ rest \o d1 \in Seq(Slots)
    BY <2>5, <2>6, <2>8, JoinedOnce, Joined
  <2>10. (SeqRange(rest) \cup SeqRange(d1)) \cap SeqRange(d2) = {}
    BY <2>5, <2>8
  <2>11. /\ Once(mem_dq') /\ mem_dq' \in Seq(Slots)
         /\ SeqRange(mem_dq') = SeqRange(rest) \cup SeqRange(d1) \cup SeqRange(d2)
    <3> DEFINE q == rest \o d1
    <3>1. q \in Seq(Slots) /\ Once(q) /\ SeqRange(q) \cap SeqRange(d2) = {}
          /\ SeqRange(q) = SeqRange(rest) \cup SeqRange(d1) /\ mem_dq' = q \o d2
      BY <2>7, <2>9, <2>10
    <3> HIDE DEF q
    <3>2. Once(q \o d2) /\ SeqRange(q \o d2) = SeqRange(q) \cup SeqRange(d2)
      BY <2>5, <3>1, JoinedOnce
    <3>3. q \o d2 \in Seq(Slots)
      BY <2>5, <3>1, Joined
    <3> QED
      BY <3>1, <3>2, <3>3
  <2>12. SeqRange(mem_dq') \subseteq Live' \ r_rob_sd_complete'
    <3>1. ASSUME NEW s \in SeqRange(rest)
          PROVE  s \in Live' \ r_rob_sd_complete'
      BY <1>2, <1>5, <2>1, <2>2, <2>6
    <3>2. ASSUME NEW s \in SeqRange(d1) \cup SeqRange(d2)
          PROVE  s \in Live' \ r_rob_sd_complete'
      BY <1>2, <1>5, <1>7, <2>1, <2>2, <2>5
    <3> QED
      BY <2>11, <3>1, <3>2
  <2>13. NoLateCompletion'
    <3>1. SeqRange(mem_dq)' = SeqRange(mem_dq')
      BY DEF SeqRange
    <3> QED
      BY <2>3, <2>12, <3>1 DEF NoLateCompletion
  <2>14. DataOnce'
    <3>1. Once(mem_dq)' = Once(mem_dq')
      BY DEF Once
    <3> QED
      BY <2>11, <3>1 DEF DataOnce
  <2> QED
    BY <1>4, <1>9, <1>10, <1>11, <2>13, <2>14 DEF Units
<1> QED
  BY <1>12, <1>13

-----------------------------------------------------------------------------
(* The state machine: what its 23 actions have in common, said of the       *)
(* outputs c they give to the edge.  Each of the invariant's conjuncts is   *)
(* then proved of an edge with such outputs.                                *)
Waits(c) == c.alloc = 0 /\ c.heads = 0
Recovering == {"DRAIN", "RAT", "WAIT_FOR_MMU", "HALT_WAIT_FOR_RESTART"}
Entering   == {"WRITE_CSRS", "WAIT_FOR_CSR_WRITE"}
Halting    == {"HALT", "FLUSH_FOR_HALT"}

(* The restart handshake.                                                   *)
Restarting(c) ==
  /\ r_got_restart_ack' = (r_state # "ACTIVE" /\ n_got_restart_ack)
  /\ c.restart <=> (r_state \notin Asked /\ r_state' \in Asked)
  /\ r_state \in Asked =>
       /\ r_restart_pc' = r_restart_pc
       /\ r_state' \in Asked \/ (n_got_restart_ack /\ r_state' = "ACTIVE")
  /\ r_state' = "ACTIVE" => r_state \in Asked \cup {"ACTIVE"}

(* What stops, and what is allocated when.                                  *)
Allocating(c) ==
  /\ r_ds_done' => r_state' \in Stopping
  /\ r_state' = "RAT" => c.alloc = 0 /\ (r_state = "RAT" \/ Drained)
  /\ c.alloc > 0 =>
       \/ /\ r_state = "ACTIVE" /\ r_state' = "ACTIVE"
          /\ \A k \in 1 .. c.alloc : r_dq[k].kind \notin Serializing
       \/ /\ r_state \in Before /\ r_state' \in Alone
          /\ c.alloc = 1 /\ c.heads = 0 /\ wrq = 0
  /\ t_can_retire_rob_head /\ c.heads = 0 => c.alloc = 0
  /\ r_state \in Alone => Waits(c) /\ (r_state' \notin Alone => HeadComplete(0))

(* The way of a serializing uop.                                            *)
Serializes(c) ==
  /\ r_state' \in Before =>
       /\ Waits(c) /\ ~c.clr_dq /\ ~c.clr_rob /\ Occupancy = 0
       /\ r_dq # <<>> /\ r_dq[1].kind \in Serializing /\ r_dq[1].pos = arch_pos
  /\ r_state' \in {"FLUSH_CACHE", "HANDLE_MONITOR", "ALLOC_FOR_MONITOR"} =>
       \/ r_state' = "FLUSH_CACHE" /\ c.flush
       \/ r_state = "FLUSH_CACHE" /\ ~c.flush /\ (r_state' = r_state \/ flushing' = {})
       \/ r_state = "HANDLE_MONITOR" /\ r_state' # "FLUSH_CACHE"
  /\ r_state' \in Alone =>
       \/ r_state \in Alone /\ Waits(c)
       \/ r_state \in Before /\ c.alloc = 1 /\ c.heads = 0
  /\ r_state' \in After =>
       /\ r_state \in Alone \cup After /\ Waits(c) /\ HeadComplete(0)
       /\ r_restart_pc' = Inc(RobHead.pos)

(* The ways out of ACTIVE and back.                                         *)
Recovers(c) ==
  /\ r_state' = "ARCH_FAULT" =>
       /\ r_state = "ACTIVE" /\ Waits(c) /\ t_can_retire_rob_head
       /\ RobHead.kind \in ArchFault /\ r_epc' = RobHead.pos
       /\ r_irq' <=> RobHead.kind = "irq"
  /\ r_state' \in Entering =>
       /\ r_epc' = r_epc /\ r_irq' = r_irq /\ c.alloc = 0
       /\ \/ r_state = "ARCH_FAULT" /\ c.heads = 1
          \/ r_state \in Entering /\ c.heads = 0
  /\ r_state' \in Recovering =>
       \/ /\ r_state = "ACTIVE" /\ t_can_retire_rob_head /\ c.heads = 1
          /\ RobHead.kind \in {"misbr"} \cup MarksDirty
          /\ r_restart_pc' = Inc(RobHead.pos)
       \/ r_state \in Recovering /\ c.heads = 0 /\ r_restart_pc' = r_restart_pc
       \/ r_state = "WAIT_FOR_CSR_WRITE" /\ c.heads = 0 /\ r_restart_pc' = HandlerReturn
       \/ r_state = "HALT" /\ ~stopped /\ c.heads = 0 /\ r_restart_pc' = 0
  /\ r_state' \in Halting =>
       stopped' \/ (r_state \in Halting /\ Waits(c) /\ stopped' = stopped)
  /\ r_state' = "HALT_WAIT_FOR_RESTART" =>
       /\ Waits(c)
       /\ \/ r_state = "HALT" /\ ~stopped
          \/ r_state = "HALT_WAIT_FOR_RESTART" /\ ~n_got_restart_ack
  /\ r_state' = "ACTIVE" =>
       \/ /\ r_state = "ACTIVE" /\ ~c.clr_dq
          /\ c.heads > 0 => RobHead.kind \notin Faulted \cup MarksDirty
          /\ c.heads > 1 => Entry(1).kind \notin Faulted
       \/ r_state \in {"RAT", "HALT_WAIT_FOR_RESTART"} /\ Waits(c)
       \/ r_state = "WAIT_FOR_ACK" /\ Waits(c) /\ c.clr_dq
       \/ r_state = "MONITOR_WAIT_FOR_ACK" /\ c.alloc = 0 /\ c.heads = 1 /\ c.clr_dq

(* The registers that only the state machine writes.                        *)
Registers(c) ==
  /\ r_state' \in States /\ r_ds_done' \in BOOLEAN
  /\ stopped' \in BOOLEAN /\ r_irq' \in BOOLEAN /\ r_epc' \in Positions
  /\ r_restart_pc' \in Positions \cup {OFF}

Controls(c) == Restarting(c) /\ Allocating(c) /\ Serializes(c) /\ Recovers(c) /\ Registers(c)

LEMMA Increments ==
  /\ \A p \in Positions : Inc(p) \in Positions
  /\ \A p \in Positions \cup {OFF} : Inc(p) \in Positions \cup {OFF}
  /\ \A u \in Uop : Follow(u) \in Positions \cup {OFF}
  /\ OFF \notin Positions /\ 0 \in Positions
<1>1. \A p \in Positions : Inc(p) \in Positions
  BY Sizes DEF Inc, Positions, OFF
<1>2. \A p \in Positions \cup {OFF} : Inc(p) \in Positions \cup {OFF}
  BY <1>1 DEF Inc
<1>3. OFF \notin Positions /\ 0 \in Positions
  BY Sizes DEF Positions, OFF
<1> QED
  BY <1>1, <1>2, <1>3 DEF Follow, Uop

(* The uops between retirement and fetch, as a function of the place.       *)
LEMMA PipelineProperties ==
  ASSUME TypeOK
  PROVE  /\ Pipeline \in Seq(Uop) /\ Len(Pipeline) = Occupancy + Len(r_dq)
         /\ Len(r_dq) \in Nat /\ Occupancy \in Nat
         /\ \A k \in 1 .. Occupancy : Pipeline[k] = r_rob[Nth(k - 1)]
         /\ \A k \in 1 .. Len(r_dq) : Pipeline[Occupancy + k] = r_dq[k]
         /\ Pipeline = <<>> <=> Occupancy = 0 /\ r_dq = <<>>
         /\ Len(Pipeline) = 0 <=> Pipeline = <<>>
<1> DEFINE b == [k \in 1 .. Occupancy |-> Entry(k - 1)]
<1>1. Occupancy \in 0 .. NROB /\ NROB \in Nat /\ r_dq \in Seq(Uop) /\ r_rob \in [Slots -> Uop]
  BY Pointers, Sizes DEF TypeOK
<1>2. \A k \in 1 .. Occupancy : k - 1 \in 0 .. NROB
  BY <1>1
<1>3. \A k \in 1 .. Occupancy : Entry(k - 1) = r_rob[Nth(k - 1)] /\ Entry(k - 1) \in Uop
  BY <1>1, <1>2, Pointers
<1>4. b \in Seq(Uop) /\ Len(b) = Occupancy /\ \A k \in 1 .. Occupancy : b[k] = r_rob[Nth(k - 1)]
  BY <1>1, <1>3
<1>5. Pipeline = b \o r_dq
  BY DEF Pipeline
<1> HIDE DEF b
<1>6. /\ Pipeline \in Seq(Uop) /\ Len(Pipeline) = Occupancy + Len(r_dq)
      /\ Len(r_dq) \in Nat
      /\ \A k \in 1 .. Occupancy : Pipeline[k] = r_rob[Nth(k - 1)]
      /\ \A k \in 1 .. Len(r_dq) : Pipeline[Occupancy + k] = r_dq[k]
  <2>1. /\ b \o r_dq \in Seq(Uop) /\ Len(b \o r_dq) = Len(b) + Len(r_dq)
        /\ Len(r_dq) \in Nat
        /\ \A i \in 1 .. Len(b) : (b \o r_dq)[i] = b[i]
        /\ \A i \in 1 .. Len(r_dq) : (b \o r_dq)[Len(b) + i] = r_dq[i]
    <3>1. b \in Seq(Uop) /\ r_dq \in Seq(Uop)
      BY <1>1, <1>4
    <3> QED
      BY <3>1, Joined
  <2> QED
    BY <1>4, <1>5, <2>1
<1>7. r_dq = <<>> <=> Len(r_dq) = 0
  BY <1>1, EmptySeq
<1>8. Pipeline = <<>> <=> Len(Pipeline) = 0
  BY <1>6, EmptySeq
<1>9. Pipeline = <<>> <=> Occupancy = 0 /\ r_dq = <<>>
  BY <1>1, <1>6, <1>7, <1>8
<1> QED
  BY <1>1, <1>6, <1>8, <1>9

LEMMA HeadOfOrder ==
  ASSUME TypeOK, ProgramOrder, r_state = "ACTIVE"
  PROVE  /\ Occupancy > 0 => RobHead.pos = arch_pos
         /\ Occupancy = 0 /\ r_dq # <<>> => r_dq[1].pos = arch_pos
<1>1. Pipeline # <<>> => Pipeline[1].pos = arch_pos
  BY DEF ProgramOrder
<1>2. CASE Occupancy > 0
  <2>1. Pipeline # <<>>
    BY <1>2, PipelineProperties
  <2>2. 1 \in 1 .. Occupancy /\ 1 - 1 = 0
    BY <1>2, PipelineProperties
  <2>3. Pipeline[1] = r_rob[Nth(0)]
    BY <2>2, PipelineProperties
  <2> QED
    BY <1>1, <1>2, <2>1, <2>3, Pointers
<1>3. CASE Occupancy = 0
  <2> SUFFICES ASSUME r_dq # <<>> PROVE r_dq[1].pos = arch_pos
    BY <1>3
  <2>1. Len(r_dq) \in Nat /\ Len(r_dq) # 0
    BY PipelineProperties, EmptySeq DEF TypeOK
  <2>2. 1 \in 1 .. Len(r_dq) /\ Occupancy + 1 = 1
    BY <1>3, <2>1
  <2>3. Pipeline[1] = r_dq[1] /\ Pipeline # <<>>
    BY <2>2, PipelineProperties
  <2> QED
    BY <1>1, <2>3
<1> QED
  BY <1>2, <1>3, Pointers

LEMMA WaitingOutputs ==
  /\ Quiet \in Outputs /\ ClearQueue \in Outputs /\ ClearAll \in Outputs
  /\ \A f \in BOOLEAN : /\ [Quiet EXCEPT !.heads = 1, !.restart = f] \in Outputs
                       /\ [Quiet EXCEPT !.heads = 1, !.flush = f] \in Outputs
  /\ \A h \in 0 .. 2 : [ClearQueue EXCEPT !.heads = h] \in Outputs
  /\ \A n \in 0 .. 2, h \in 0 .. 2 : [Quiet EXCEPT !.alloc = n, !.heads = h] \in Outputs
<1>1. Quiet \in Outputs
  BY DEF Quiet, Outputs
<1>2. ClearQueue \in Outputs
  BY <1>1 DEF ClearQueue, Outputs
<1>3. ClearAll \in Outputs
  BY <1>2 DEF ClearAll, Outputs
<1> DEFINE q == [Quiet EXCEPT !.heads = 1]
<1>4. q \in Outputs
  BY <1>1 DEF Outputs
<1>5. ASSUME NEW f \in BOOLEAN
      PROVE  [q EXCEPT !.restart = f] \in Outputs /\ [q EXCEPT !.flush = f] \in Outputs
  <2> HIDE DEF q
  <2> QED
    BY <1>4 DEF Outputs
<1>6. ASSUME NEW n \in 0 .. 2, NEW h \in 0 .. 2
      PROVE  [Quiet EXCEPT !.alloc = n, !.heads = h] \in Outputs
  <2> DEFINE a == [Quiet EXCEPT !.alloc = n]
  <2>1. a \in Outputs
    BY <1>1 DEF Outputs
  <2>2. [a EXCEPT !.heads = h] \in Outputs
    <3> HIDE DEF a
    <3> QED
      BY <2>1 DEF Outputs
  <2> QED
    BY <2>2
<1>7. \A h \in 0 .. 2 : [ClearQueue EXCEPT !.heads = h] \in Outputs
  BY <1>2 DEF Outputs
<1> QED
  BY <1>1, <1>2, <1>3, <1>5, <1>6, <1>7

(* Every action is an edge with such outputs.                               *)
LEMMA Acts ==
  ASSUME IInv, Next
  PROVE  \E c : Good(c) /\ Edge(c) /\ Controls(c)
<1> USE DEF IInv
<1>t. TypeOK /\ Handshake /\ Counted /\ Serial /\ InOrder /\ ProgramOrder
  OBVIOUS
<1>p. /\ Occupancy \in 0 .. NROB /\ NROB \in Nat /\ NROB >= 2
      /\ Len(r_dq) \in Nat /\ (r_dq # <<>> => Len(r_dq) >= 1)
  BY <1>t, Pointers, Sizes, EmptySeq DEF TypeOK
<1>e. \A k \in 0 .. NROB : Entry(k).pos \in Positions \cup {OFF}
  BY <1>t, Pointers DEF TypeOK, Uop
<1>h. /\ stopped \in BOOLEAN /\ r_irq \in BOOLEAN /\ r_epc \in Positions /\ r_ds_done \in BOOLEAN
      /\ r_restart_pc \in Positions \cup {OFF} /\ r_state \in States
      /\ arch_pos \in Positions
      /\ n_got_restart_ack \in BOOLEAN /\ prog.SYSCALL_EMU \in BOOLEAN
  BY <1>t, Sizes DEF TypeOK, n_got_restart_ack, Program
<1>r. /\ RobHead.pos \in Positions \cup {OFF}
      /\ Inc(RobHead.pos) \in Positions \cup {OFF}
      /\ HandlerReturn \in Positions \cup {OFF} /\ 0 \in Positions
      /\ r_state = "ACTIVE" /\ Occupancy > 0 => RobHead.pos \in Positions
  BY <1>t, <1>p, <1>e, <1>h, Increments, HeadOfOrder DEF RobHead, HandlerReturn
<1>s. /\ r_state \in Before =>
           /\ Occupancy = 0 /\ r_dq # <<>> /\ r_dq[1].kind \in Serializing
           /\ r_dq[1].pos = arch_pos
      /\ r_state \in {"HANDLE_MONITOR", "ALLOC_FOR_MONITOR"} => wrq = 0
      /\ r_state \in Alone \cup After =>
           Occupancy = 1 /\ RobHead.kind \in Serializing /\ RobHead.pos = arch_pos
      /\ r_state \in After \cup {"ARCH_FAULT"} => Occupancy > 0 /\ HeadComplete(0)
      /\ r_state \in After => r_restart_pc = Inc(RobHead.pos)
      /\ r_ds_done => r_state \in Stopping
  BY <1>t DEF Serial, InOrder, Counted
<1>d. r_state = "ACTIVE" /\ Occupancy = 0 /\ r_dq # <<>> => r_dq[1].pos = arch_pos
  BY <1>t, HeadOfOrder
<1>1. CASE ActiveFault
  <2> DEFINE c == Quiet
  <2>0. c \in Outputs
    BY WaitingOutputs DEF Outputs
  <2>1. /\ c \in Outputs
        /\ c.alloc = 0 /\ c.heads = 0 /\ ~c.clr_rob /\ ~c.clr_dq /\ ~c.restart /\ ~c.flush
    BY <2>0 DEF Quiet, ClearQueue, ClearAll
  <2>2. Edge(c)
    BY <1>1 DEF ActiveFault, Goto, Before
  <2> HIDE DEF c
  <2>3. Good(c)
    BY <2>1, <1>1, <1>p, <1>s DEF Good, ActiveFault, After, Before, t_can_retire_rob_head, Stopping
  <2>4. Restarting(c)
    BY <2>1, <1>1, <1>h DEF Restarting, ActiveFault, Asked, Goto, DropAck, LatchAck
  <2>5. Allocating(c)
    BY <2>1, <1>1, <1>s DEF Allocating, ActiveFault, Goto, Stopping, Before, Alone, After, Waits,
       memq_empty, t_can_retire_rob_head
  <2>6. Serializes(c)
    BY <2>1, <1>1, <1>s, <1>d DEF Serializes, ActiveFault, Goto, Before, Alone, After, Waits
  <2>7. Recovers(c)
    BY <2>1, <1>1 DEF Recovers, ActiveFault, Goto, Entering, Recovering, Halting, Waits, trap, Faulted, ArchFault
  <2>8. Registers(c)
    BY <2>1, <1>1, <1>h, <1>r DEF Registers, ActiveFault, Goto, States, t_can_retire_rob_head, trap
  <2> QED
    BY <2>2, <2>3, <2>4, <2>5, <2>6, <2>7, <2>8 DEF Controls
<1>2. CASE ActiveMispredict
  <2> DEFINE c == [Quiet EXCEPT !.heads = 1, !.restart = TRUE]
  <2>0. c \in Outputs
    BY WaitingOutputs DEF Outputs
  <2>1. /\ c \in Outputs
        /\ c.alloc = 0 /\ c.heads = 1 /\ ~c.clr_rob /\ ~c.clr_dq /\ c.restart /\ ~c.flush
    BY <2>0 DEF Quiet, ClearQueue, ClearAll
  <2>2. Edge(c)
    BY <1>2 DEF ActiveMispredict, Goto, Before
  <2> HIDE DEF c
  <2>3. Good(c)
    BY <2>1, <1>2, <1>p, <1>s DEF Good, ActiveMispredict, After, Before, t_can_retire_rob_head, Stopping
  <2>4. Restarting(c)
    BY <2>1, <1>2, <1>h DEF Restarting, ActiveMispredict, Asked, Goto, DropAck, LatchAck
  <2>5. Allocating(c)
    BY <2>1, <1>2, <1>s DEF Allocating, ActiveMispredict, Goto, Stopping, Before, Alone, After, Waits,
       memq_empty, t_can_retire_rob_head
  <2>6. Serializes(c)
    BY <2>1, <1>2, <1>s, <1>d DEF Serializes, ActiveMispredict, Goto, Before, Alone, After, Waits
  <2>7. Recovers(c)
    BY <2>1, <1>2 DEF Recovers, ActiveMispredict, Goto, Entering, Recovering, Halting, Waits, trap, Faulted, ArchFault
  <2>8. Registers(c)
    BY <2>1, <1>2, <1>h, <1>r DEF Registers, ActiveMispredict, Goto, States, t_can_retire_rob_head, trap
  <2> QED
    BY <2>2, <2>3, <2>4, <2>5, <2>6, <2>7, <2>8 DEF Controls
<1>3. CASE ActiveDirty
  <2> DEFINE c == [Quiet EXCEPT !.heads = 1]
  <2>0. c \in Outputs
    BY WaitingOutputs DEF Outputs
  <2>1. /\ c \in Outputs
        /\ c.alloc = 0 /\ c.heads = 1 /\ ~c.clr_rob /\ ~c.clr_dq /\ ~c.restart /\ ~c.flush
    BY <2>0 DEF Quiet, ClearQueue, ClearAll
  <2>2. Edge(c)
    BY <1>3 DEF ActiveDirty, Goto, Before
  <2> HIDE DEF c
  <2>3. Good(c)
    BY <2>1, <1>3, <1>p, <1>s DEF Good, ActiveDirty, After, Before, t_can_retire_rob_head, Stopping
  <2>4. Restarting(c)
    BY <2>1, <1>3, <1>h DEF Restarting, ActiveDirty, Asked, Goto, DropAck, LatchAck
  <2>5. Allocating(c)
    BY <2>1, <1>3, <1>s DEF Allocating, ActiveDirty, Goto, Stopping, Before, Alone, After, Waits,
       memq_empty, t_can_retire_rob_head
  <2>6. Serializes(c)
    BY <2>1, <1>3, <1>s, <1>d DEF Serializes, ActiveDirty, Goto, Before, Alone, After, Waits
  <2>7. Recovers(c)
    BY <2>1, <1>3 DEF Recovers, ActiveDirty, Goto, Entering, Recovering, Halting, Waits, trap, Faulted, ArchFault
  <2>8. Registers(c)
    BY <2>1, <1>3, <1>h, <1>r DEF Registers, ActiveDirty, Goto, States, t_can_retire_rob_head, trap
  <2> QED
    BY <2>2, <2>3, <2>4, <2>5, <2>6, <2>7, <2>8 DEF Controls
<1>4. CASE ActiveSerialize
  <2>1. CASE r_dq[1].kind \in FlushFirst
    <3> DEFINE c == [Quiet EXCEPT !.flush = TRUE]
    <3>0. c \in Outputs
      BY WaitingOutputs DEF Outputs
    <3>1. /\ c \in Outputs
          /\ c.alloc = 0 /\ c.heads = 0 /\ ~c.clr_rob /\ ~c.clr_dq /\ ~c.restart /\ c.flush
      BY <3>0 DEF Quiet, ClearQueue, ClearAll
    <3>2. Edge(c)
      BY <1>4, <2>1 DEF ActiveSerialize, Goto, Before
    <3> HIDE DEF c
    <3>3. Good(c)
      BY <3>1, <1>4, <2>1, <1>p, <1>s DEF Good, ActiveSerialize, After, Before, t_can_retire_rob_head, Stopping
    <3>4. Restarting(c)
      BY <3>1, <1>4, <2>1, <1>h DEF Restarting, ActiveSerialize, Asked, Goto, DropAck, LatchAck
    <3>5. Allocating(c)
      BY <3>1, <1>4, <2>1, <1>s DEF Allocating, ActiveSerialize, Goto, Stopping, Before, Alone, After, Waits,
         memq_empty, t_can_retire_rob_head
    <3>6. Serializes(c)
      BY <3>1, <1>4, <2>1, <1>s, <1>d DEF Serializes, ActiveSerialize, Goto, Before, Alone, After, Waits
    <3>7. Recovers(c)
      BY <3>1, <1>4, <2>1 DEF Recovers, ActiveSerialize, Goto, Entering, Recovering, Halting, Waits, trap, Faulted, ArchFault
    <3>8. Registers(c)
      BY <3>1, <1>4, <2>1, <1>h, <1>r DEF Registers, ActiveSerialize, Goto, States, t_can_retire_rob_head, trap
    <3> QED
      BY <3>2, <3>3, <3>4, <3>5, <3>6, <3>7, <3>8 DEF Controls
  <2>2. CASE r_dq[1].kind \notin FlushFirst
    <3> DEFINE c == Quiet
    <3>0. c \in Outputs
      BY WaitingOutputs DEF Outputs
    <3>1. /\ c \in Outputs
          /\ c.alloc = 0 /\ c.heads = 0 /\ ~c.clr_rob /\ ~c.clr_dq /\ ~c.restart /\ ~c.flush
      BY <3>0 DEF Quiet, ClearQueue, ClearAll
    <3>2. Edge(c)
      BY <1>4, <2>2 DEF ActiveSerialize, Goto, Before
    <3> HIDE DEF c
    <3>3. Good(c)
      BY <3>1, <1>4, <2>2, <1>p, <1>s DEF Good, ActiveSerialize, After, Before, t_can_retire_rob_head, Stopping
    <3>4. Restarting(c)
      BY <3>1, <1>4, <2>2, <1>h DEF Restarting, ActiveSerialize, Asked, Goto, DropAck, LatchAck
    <3>5. Allocating(c)
      BY <3>1, <1>4, <2>2, <1>s DEF Allocating, ActiveSerialize, Goto, Stopping, Before, Alone, After, Waits,
         memq_empty, t_can_retire_rob_head
    <3>6. Serializes(c)
      BY <3>1, <1>4, <2>2, <1>s, <1>d DEF Serializes, ActiveSerialize, Goto, Before, Alone, After, Waits
    <3>7. Recovers(c)
      BY <3>1, <1>4, <2>2 DEF Recovers, ActiveSerialize, Goto, Entering, Recovering, Halting, Waits, trap, Faulted, ArchFault
    <3>8. Registers(c)
      BY <3>1, <1>4, <2>2, <1>h, <1>r DEF Registers, ActiveSerialize, Goto, States, t_can_retire_rob_head, trap
    <3> QED
      BY <3>2, <3>3, <3>4, <3>5, <3>6, <3>7, <3>8 DEF Controls
  <2> QED
    BY <2>1, <2>2
<1>5. CASE Drain
  <2> DEFINE c == Quiet
  <2>0. c \in Outputs
    BY WaitingOutputs DEF Outputs
  <2>1. /\ c \in Outputs
        /\ c.alloc = 0 /\ c.heads = 0 /\ ~c.clr_rob /\ ~c.clr_dq /\ ~c.restart /\ ~c.flush
    BY <2>0 DEF Quiet, ClearQueue, ClearAll
  <2>2. Edge(c)
    BY <1>5 DEF Drain, Goto, Before
  <2> HIDE DEF c
  <2>3. Good(c)
    BY <2>1, <1>5, <1>p, <1>s DEF Good, Drain, After, Before, t_can_retire_rob_head, Stopping
  <2>4. Restarting(c)
    BY <2>1, <1>5, <1>h DEF Restarting, Drain, Asked, Goto, DropAck, LatchAck
  <2>5. Allocating(c)
    BY <2>1, <1>5, <1>s DEF Allocating, Drain, Goto, Stopping, Before, Alone, After, Waits,
       memq_empty, t_can_retire_rob_head
  <2>6. Serializes(c)
    BY <2>1, <1>5, <1>s, <1>d DEF Serializes, Drain, Goto, Before, Alone, After, Waits
  <2>7. Recovers(c)
    BY <2>1, <1>5 DEF Recovers, Drain, Goto, Entering, Recovering, Halting, Waits, trap, Faulted, ArchFault
  <2>8. Registers(c)
    BY <2>1, <1>5, <1>h, <1>r DEF Registers, Drain, Goto, States, t_can_retire_rob_head, trap
  <2> QED
    BY <2>2, <2>3, <2>4, <2>5, <2>6, <2>7, <2>8 DEF Controls
<1>6. CASE Rat
  <2>1. CASE n_got_restart_ack
    <3> DEFINE c == [ClearAll EXCEPT !.calm = TRUE, !.restart_complete = TRUE]
    <3>0. c \in Outputs
      BY WaitingOutputs DEF Outputs
    <3>1. /\ c \in Outputs
          /\ c.alloc = 0 /\ c.heads = 0 /\ c.clr_rob /\ c.clr_dq /\ ~c.restart /\ ~c.flush
      BY <3>0 DEF Quiet, ClearQueue, ClearAll
    <3>2. Edge(c)
      BY <1>6, <2>1 DEF Rat, Goto, Before
    <3> HIDE DEF c
    <3>3. Good(c)
      BY <3>1, <1>6, <2>1, <1>p, <1>s DEF Good, Rat, After, Before, t_can_retire_rob_head, Stopping
    <3>4. Restarting(c)
      BY <3>1, <1>6, <2>1, <1>h DEF Restarting, Rat, Asked, Goto, DropAck, LatchAck
    <3>5. Allocating(c)
      BY <3>1, <1>6, <2>1, <1>s DEF Allocating, Rat, Goto, Stopping, Before, Alone, After, Waits,
         memq_empty, t_can_retire_rob_head
    <3>6. Serializes(c)
      BY <3>1, <1>6, <2>1, <1>s, <1>d DEF Serializes, Rat, Goto, Before, Alone, After, Waits
    <3>7. Recovers(c)
      BY <3>1, <1>6, <2>1 DEF Recovers, Rat, Goto, Entering, Recovering, Halting, Waits, trap, Faulted, ArchFault
    <3>8. Registers(c)
      BY <3>1, <1>6, <2>1, <1>h, <1>r DEF Registers, Rat, Goto, States, t_can_retire_rob_head, trap
    <3> QED
      BY <3>2, <3>3, <3>4, <3>5, <3>6, <3>7, <3>8 DEF Controls
  <2>2. CASE ~n_got_restart_ack
    <3> DEFINE c == ClearAll
    <3>0. c \in Outputs
      BY WaitingOutputs DEF Outputs
    <3>1. /\ c \in Outputs
          /\ c.alloc = 0 /\ c.heads = 0 /\ c.clr_rob /\ c.clr_dq /\ ~c.restart /\ ~c.flush
      BY <3>0 DEF Quiet, ClearQueue, ClearAll
    <3>2. Edge(c)
      BY <1>6, <2>2 DEF Rat, Goto, Before
    <3> HIDE DEF c
    <3>3. Good(c)
      BY <3>1, <1>6, <2>2, <1>p, <1>s DEF Good, Rat, After, Before, t_can_retire_rob_head, Stopping
    <3>4. Restarting(c)
      BY <3>1, <1>6, <2>2, <1>h DEF Restarting, Rat, Asked, Goto, DropAck, LatchAck
    <3>5. Allocating(c)
      BY <3>1, <1>6, <2>2, <1>s DEF Allocating, Rat, Goto, Stopping, Before, Alone, After, Waits,
         memq_empty, t_can_retire_rob_head
    <3>6. Serializes(c)
      BY <3>1, <1>6, <2>2, <1>s, <1>d DEF Serializes, Rat, Goto, Before, Alone, After, Waits
    <3>7. Recovers(c)
      BY <3>1, <1>6, <2>2 DEF Recovers, Rat, Goto, Entering, Recovering, Halting, Waits, trap, Faulted, ArchFault
    <3>8. Registers(c)
      BY <3>1, <1>6, <2>2, <1>h, <1>r DEF Registers, Rat, Goto, States, t_can_retire_rob_head, trap
    <3> QED
      BY <3>2, <3>3, <3>4, <3>5, <3>6, <3>7, <3>8 DEF Controls
  <2> QED
    BY <2>1, <2>2
<1>7. CASE AllocForSerialize
  <2>1. CASE memq_empty /\ r_dq # <<>>
    <3> DEFINE c == [Quiet EXCEPT !.alloc = 1]
    <3>0. c \in Outputs
      BY WaitingOutputs DEF Outputs
    <3>1. /\ c \in Outputs
          /\ c.alloc = 1 /\ c.heads = 0 /\ ~c.clr_rob /\ ~c.clr_dq /\ ~c.restart /\ ~c.flush
      BY <3>0 DEF Quiet, ClearQueue, ClearAll
    <3>2. Edge(c)
      BY <1>7, <2>1 DEF AllocForSerialize, Goto, Before
    <3> HIDE DEF c
    <3>3. Good(c)
      BY <3>1, <1>7, <2>1, <1>p, <1>s DEF Good, AllocForSerialize, After, Before, t_can_retire_rob_head, Stopping
    <3>4. Restarting(c)
      BY <3>1, <1>7, <2>1, <1>h DEF Restarting, AllocForSerialize, Asked, Goto, DropAck, LatchAck
    <3>5. Allocating(c)
      BY <3>1, <1>7, <2>1, <1>s DEF Allocating, AllocForSerialize, Goto, Stopping, Before, Alone, After, Waits,
         memq_empty, t_can_retire_rob_head
    <3>6. Serializes(c)
      BY <3>1, <1>7, <2>1, <1>s, <1>d DEF Serializes, AllocForSerialize, Goto, Before, Alone, After, Waits
    <3>7. Recovers(c)
      BY <3>1, <1>7, <2>1 DEF Recovers, AllocForSerialize, Goto, Entering, Recovering, Halting, Waits, trap, Faulted, ArchFault
    <3>8. Registers(c)
      BY <3>1, <1>7, <2>1, <1>h, <1>r DEF Registers, AllocForSerialize, Goto, States, t_can_retire_rob_head, trap
    <3> QED
      BY <3>2, <3>3, <3>4, <3>5, <3>6, <3>7, <3>8 DEF Controls
  <2>2. CASE ~(memq_empty /\ r_dq # <<>>)
    <3> DEFINE c == Quiet
    <3>0. c \in Outputs
      BY WaitingOutputs DEF Outputs
    <3>1. /\ c \in Outputs
          /\ c.alloc = 0 /\ c.heads = 0 /\ ~c.clr_rob /\ ~c.clr_dq /\ ~c.restart /\ ~c.flush
      BY <3>0 DEF Quiet, ClearQueue, ClearAll
    <3>2. Edge(c)
      BY <1>7, <2>2 DEF AllocForSerialize, Goto, Before
    <3> HIDE DEF c
    <3>3. Good(c)
      BY <3>1, <1>7, <2>2, <1>p, <1>s DEF Good, AllocForSerialize, After, Before, t_can_retire_rob_head, Stopping
    <3>4. Restarting(c)
      BY <3>1, <1>7, <2>2, <1>h DEF Restarting, AllocForSerialize, Asked, Goto, DropAck, LatchAck
    <3>5. Allocating(c)
      BY <3>1, <1>7, <2>2, <1>s DEF Allocating, AllocForSerialize, Goto, Stopping, Before, Alone, After, Waits,
         memq_empty, t_can_retire_rob_head
    <3>6. Serializes(c)
      BY <3>1, <1>7, <2>2, <1>s, <1>d DEF Serializes, AllocForSerialize, Goto, Before, Alone, After, Waits
    <3>7. Recovers(c)
      BY <3>1, <1>7, <2>2 DEF Recovers, AllocForSerialize, Goto, Entering, Recovering, Halting, Waits, trap, Faulted, ArchFault
    <3>8. Registers(c)
      BY <3>1, <1>7, <2>2, <1>h, <1>r DEF Registers, AllocForSerialize, Goto, States, t_can_retire_rob_head, trap
    <3> QED
      BY <3>2, <3>3, <3>4, <3>5, <3>6, <3>7, <3>8 DEF Controls
  <2> QED
    BY <2>1, <2>2
<1>8. CASE WaitForSerialize
  <2>1. CASE HeadComplete(0)
    <3> DEFINE c == [Quiet EXCEPT !.restart = TRUE, !.calm = TRUE]
    <3>0. c \in Outputs
      BY WaitingOutputs DEF Outputs
    <3>1. /\ c \in Outputs
          /\ c.alloc = 0 /\ c.heads = 0 /\ ~c.clr_rob /\ ~c.clr_dq /\ c.restart /\ ~c.flush
      BY <3>0 DEF Quiet, ClearQueue, ClearAll
    <3>2. Edge(c)
      BY <1>8, <2>1 DEF WaitForSerialize, Goto, Before
    <3> HIDE DEF c
    <3>3. Good(c)
      BY <3>1, <1>8, <2>1, <1>p, <1>s DEF Good, WaitForSerialize, After, Before, t_can_retire_rob_head, Stopping
    <3>4. Restarting(c)
      BY <3>1, <1>8, <2>1, <1>h DEF Restarting, WaitForSerialize, Asked, Goto, DropAck, LatchAck
    <3>5. Allocating(c)
      BY <3>1, <1>8, <2>1, <1>s DEF Allocating, WaitForSerialize, Goto, Stopping, Before, Alone, After, Waits,
         memq_empty, t_can_retire_rob_head
    <3>6. Serializes(c)
      BY <3>1, <1>8, <2>1, <1>s, <1>d DEF Serializes, WaitForSerialize, Goto, Before, Alone, After, Waits
    <3>7. Recovers(c)
      BY <3>1, <1>8, <2>1 DEF Recovers, WaitForSerialize, Goto, Entering, Recovering, Halting, Waits, trap, Faulted, ArchFault
    <3>8. Registers(c)
      BY <3>1, <1>8, <2>1, <1>h, <1>r DEF Registers, WaitForSerialize, Goto, States, t_can_retire_rob_head, trap
    <3> QED
      BY <3>2, <3>3, <3>4, <3>5, <3>6, <3>7, <3>8 DEF Controls
  <2>2. CASE ~HeadComplete(0)
    <3> DEFINE c == Quiet
    <3>0. c \in Outputs
      BY WaitingOutputs DEF Outputs
    <3>1. /\ c \in Outputs
          /\ c.alloc = 0 /\ c.heads = 0 /\ ~c.clr_rob /\ ~c.clr_dq /\ ~c.restart /\ ~c.flush
      BY <3>0 DEF Quiet, ClearQueue, ClearAll
    <3>2. Edge(c)
      BY <1>8, <2>2 DEF WaitForSerialize, Goto, Before
    <3> HIDE DEF c
    <3>3. Good(c)
      BY <3>1, <1>8, <2>2, <1>p, <1>s DEF Good, WaitForSerialize, After, Before, t_can_retire_rob_head, Stopping
    <3>4. Restarting(c)
      BY <3>1, <1>8, <2>2, <1>h DEF Restarting, WaitForSerialize, Asked, Goto, DropAck, LatchAck
    <3>5. Allocating(c)
      BY <3>1, <1>8, <2>2, <1>s DEF Allocating, WaitForSerialize, Goto, Stopping, Before, Alone, After, Waits,
         memq_empty, t_can_retire_rob_head
    <3>6. Serializes(c)
      BY <3>1, <1>8, <2>2, <1>s, <1>d DEF Serializes, WaitForSerialize, Goto, Before, Alone, After, Waits
    <3>7. Recovers(c)
      BY <3>1, <1>8, <2>2 DEF Recovers, WaitForSerialize, Goto, Entering, Recovering, Halting, Waits, trap, Faulted, ArchFault
    <3>8. Registers(c)
      BY <3>1, <1>8, <2>2, <1>h, <1>r DEF Registers, WaitForSerialize, Goto, States, t_can_retire_rob_head, trap
    <3> QED
      BY <3>2, <3>3, <3>4, <3>5, <3>6, <3>7, <3>8 DEF Controls
  <2> QED
    BY <2>1, <2>2
<1>9. CASE WaitForAck
  <2> DEFINE c == ClearQueue
  <2>0. c \in Outputs
    BY WaitingOutputs DEF Outputs
  <2>1. /\ c \in Outputs
        /\ c.alloc = 0 /\ c.heads = 0 /\ ~c.clr_rob /\ c.clr_dq /\ ~c.restart /\ ~c.flush
    BY <2>0 DEF Quiet, ClearQueue, ClearAll
  <2>2. Edge(c)
    BY <1>9 DEF WaitForAck, Goto, Before
  <2> HIDE DEF c
  <2>3. Good(c)
    BY <2>1, <1>9, <1>p, <1>s DEF Good, WaitForAck, After, Before, t_can_retire_rob_head, Stopping
  <2>4. Restarting(c)
    BY <2>1, <1>9, <1>h DEF Restarting, WaitForAck, Asked, Goto, DropAck, LatchAck
  <2>5. Allocating(c)
    BY <2>1, <1>9, <1>s DEF Allocating, WaitForAck, Goto, Stopping, Before, Alone, After, Waits,
       memq_empty, t_can_retire_rob_head
  <2>6. Serializes(c)
    BY <2>1, <1>9, <1>s, <1>d DEF Serializes, WaitForAck, Goto, Before, Alone, After, Waits
  <2>7. Recovers(c)
    BY <2>1, <1>9 DEF Recovers, WaitForAck, Goto, Entering, Recovering, Halting, Waits, trap, Faulted, ArchFault
  <2>8. Registers(c)
    BY <2>1, <1>9, <1>h, <1>r DEF Registers, WaitForAck, Goto, States, t_can_retire_rob_head, trap
  <2> QED
    BY <2>2, <2>3, <2>4, <2>5, <2>6, <2>7, <2>8 DEF Controls
<1>10. CASE FlushCache
  <2> DEFINE c == Quiet
  <2>0. c \in Outputs
    BY WaitingOutputs DEF Outputs
  <2>1. /\ c \in Outputs
        /\ c.alloc = 0 /\ c.heads = 0 /\ ~c.clr_rob /\ ~c.clr_dq /\ ~c.restart /\ ~c.flush
    BY <2>0 DEF Quiet, ClearQueue, ClearAll
  <2>2. Edge(c)
    BY <1>10 DEF FlushCache, Goto, Before
  <2> HIDE DEF c
  <2>3. Good(c)
    BY <2>1, <1>10, <1>p, <1>s DEF Good, FlushCache, After, Before, t_can_retire_rob_head, Stopping
  <2>4. Restarting(c)
    BY <2>1, <1>10, <1>h DEF Restarting, FlushCache, Asked, Goto, DropAck, LatchAck
  <2>5. Allocating(c)
    BY <2>1, <1>10, <1>s DEF Allocating, FlushCache, Goto, Stopping, Before, Alone, After, Waits,
       memq_empty, t_can_retire_rob_head
  <2>6. Serializes(c)
    BY <2>1, <1>10, <1>s, <1>d DEF Serializes, FlushCache, Goto, Before, Alone, After, Waits
  <2>7. Recovers(c)
    BY <2>1, <1>10 DEF Recovers, FlushCache, Goto, Entering, Recovering, Halting, Waits, trap, Faulted, ArchFault
  <2>8. Registers(c)
    BY <2>1, <1>10, <1>h, <1>r DEF Registers, FlushCache, Goto, States, t_can_retire_rob_head, trap
  <2> QED
    BY <2>2, <2>3, <2>4, <2>5, <2>6, <2>7, <2>8 DEF Controls
<1>11. CASE HandleMonitor
  <2> DEFINE c == Quiet
  <2>0. c \in Outputs
    BY WaitingOutputs DEF Outputs
  <2>1. /\ c \in Outputs
        /\ c.alloc = 0 /\ c.heads = 0 /\ ~c.clr_rob /\ ~c.clr_dq /\ ~c.restart /\ ~c.flush
    BY <2>0 DEF Quiet, ClearQueue, ClearAll
  <2>2. Edge(c)
    BY <1>11 DEF HandleMonitor, Goto, Before
  <2> HIDE DEF c
  <2>3. Good(c)
    BY <2>1, <1>11, <1>p, <1>s DEF Good, HandleMonitor, After, Before, t_can_retire_rob_head, Stopping
  <2>4. Restarting(c)
    BY <2>1, <1>11, <1>h DEF Restarting, HandleMonitor, Asked, Goto, DropAck, LatchAck
  <2>5. Allocating(c)
    BY <2>1, <1>11, <1>s DEF Allocating, HandleMonitor, Goto, Stopping, Before, Alone, After, Waits,
       memq_empty, t_can_retire_rob_head
  <2>6. Serializes(c)
    BY <2>1, <1>11, <1>s, <1>d DEF Serializes, HandleMonitor, Goto, Before, Alone, After, Waits
  <2>7. Recovers(c)
    BY <2>1, <1>11 DEF Recovers, HandleMonitor, Goto, Entering, Recovering, Halting, Waits, trap, Faulted, ArchFault
  <2>8. Registers(c)
    BY <2>1, <1>11, <1>h, <1>r DEF Registers, HandleMonitor, Goto, States, t_can_retire_rob_head, trap
  <2> QED
    BY <2>2, <2>3, <2>4, <2>5, <2>6, <2>7, <2>8 DEF Controls
<1>12. CASE AllocForMonitor
  <2> DEFINE c == [Quiet EXCEPT !.alloc = 1]
  <2>0. c \in Outputs
    BY WaitingOutputs DEF Outputs
  <2>1. /\ c \in Outputs
        /\ c.alloc = 1 /\ c.heads = 0 /\ ~c.clr_rob /\ ~c.clr_dq /\ ~c.restart /\ ~c.flush
    BY <2>0 DEF Quiet, ClearQueue, ClearAll
  <2>2. Edge(c)
    BY <1>12, <1>s, <1>p DEF AllocForMonitor, Goto, Before
  <2> HIDE DEF c
  <2>3. Good(c)
    BY <2>1, <1>12, <1>p, <1>s DEF Good, AllocForMonitor, After, Before, t_can_retire_rob_head, Stopping
  <2>4. Restarting(c)
    BY <2>1, <1>12, <1>h DEF Restarting, AllocForMonitor, Asked, Goto, DropAck, LatchAck
  <2>5. Allocating(c)
    BY <2>1, <1>12, <1>s DEF Allocating, AllocForMonitor, Goto, Stopping, Before, Alone, After, Waits,
       memq_empty, t_can_retire_rob_head
  <2>6. Serializes(c)
    BY <2>1, <1>12, <1>s, <1>d DEF Serializes, AllocForMonitor, Goto, Before, Alone, After, Waits
  <2>7. Recovers(c)
    BY <2>1, <1>12 DEF Recovers, AllocForMonitor, Goto, Entering, Recovering, Halting, Waits, trap, Faulted, ArchFault
  <2>8. Registers(c)
    BY <2>1, <1>12, <1>h, <1>r DEF Registers, AllocForMonitor, Goto, States, t_can_retire_rob_head, trap
  <2> QED
    BY <2>2, <2>3, <2>4, <2>5, <2>6, <2>7, <2>8 DEF Controls
<1>13. CASE WaitForMonitor
  <2>1. CASE HeadComplete(0)
    <3> DEFINE c == [Quiet EXCEPT !.restart = TRUE, !.calm = TRUE]
    <3>0. c \in Outputs
      BY WaitingOutputs DEF Outputs
    <3>1. /\ c \in Outputs
          /\ c.alloc = 0 /\ c.heads = 0 /\ ~c.clr_rob /\ ~c.clr_dq /\ c.restart /\ ~c.flush
      BY <3>0 DEF Quiet, ClearQueue, ClearAll
    <3>2. Edge(c)
      BY <1>13, <2>1 DEF WaitForMonitor, Goto, Before
    <3> HIDE DEF c
    <3>3. Good(c)
      BY <3>1, <1>13, <2>1, <1>p, <1>s DEF Good, WaitForMonitor, After, Before, t_can_retire_rob_head, Stopping
    <3>4. Restarting(c)
      BY <3>1, <1>13, <2>1, <1>h DEF Restarting, WaitForMonitor, Asked, Goto, DropAck, LatchAck
    <3>5. Allocating(c)
      BY <3>1, <1>13, <2>1, <1>s DEF Allocating, WaitForMonitor, Goto, Stopping, Before, Alone, After, Waits,
         memq_empty, t_can_retire_rob_head
    <3>6. Serializes(c)
      BY <3>1, <1>13, <2>1, <1>s, <1>d DEF Serializes, WaitForMonitor, Goto, Before, Alone, After, Waits
    <3>7. Recovers(c)
      BY <3>1, <1>13, <2>1 DEF Recovers, WaitForMonitor, Goto, Entering, Recovering, Halting, Waits, trap, Faulted, ArchFault
    <3>8. Registers(c)
      BY <3>1, <1>13, <2>1, <1>h, <1>r DEF Registers, WaitForMonitor, Goto, States, t_can_retire_rob_head, trap
    <3> QED
      BY <3>2, <3>3, <3>4, <3>5, <3>6, <3>7, <3>8 DEF Controls
  <2>2. CASE ~HeadComplete(0)
    <3> DEFINE c == Quiet
    <3>0. c \in Outputs
      BY WaitingOutputs DEF Outputs
    <3>1. /\ c \in Outputs
          /\ c.alloc = 0 /\ c.heads = 0 /\ ~c.clr_rob /\ ~c.clr_dq /\ ~c.restart /\ ~c.flush
      BY <3>0 DEF Quiet, ClearQueue, ClearAll
    <3>2. Edge(c)
      BY <1>13, <2>2 DEF WaitForMonitor, Goto, Before
    <3> HIDE DEF c
    <3>3. Good(c)
      BY <3>1, <1>13, <2>2, <1>p, <1>s DEF Good, WaitForMonitor, After, Before, t_can_retire_rob_head, Stopping
    <3>4. Restarting(c)
      BY <3>1, <1>13, <2>2, <1>h DEF Restarting, WaitForMonitor, Asked, Goto, DropAck, LatchAck
    <3>5. Allocating(c)
      BY <3>1, <1>13, <2>2, <1>s DEF Allocating, WaitForMonitor, Goto, Stopping, Before, Alone, After, Waits,
         memq_empty, t_can_retire_rob_head
    <3>6. Serializes(c)
      BY <3>1, <1>13, <2>2, <1>s, <1>d DEF Serializes, WaitForMonitor, Goto, Before, Alone, After, Waits
    <3>7. Recovers(c)
      BY <3>1, <1>13, <2>2 DEF Recovers, WaitForMonitor, Goto, Entering, Recovering, Halting, Waits, trap, Faulted, ArchFault
    <3>8. Registers(c)
      BY <3>1, <1>13, <2>2, <1>h, <1>r DEF Registers, WaitForMonitor, Goto, States, t_can_retire_rob_head, trap
    <3> QED
      BY <3>2, <3>3, <3>4, <3>5, <3>6, <3>7, <3>8 DEF Controls
  <2> QED
    BY <2>1, <2>2
<1>14. CASE MonitorWaitForAck
  <2>1. CASE n_got_restart_ack
    <3> DEFINE c == [ClearQueue EXCEPT !.heads = 1]
    <3>0. c \in Outputs
      BY WaitingOutputs DEF Outputs
    <3>1. /\ c \in Outputs
          /\ c.alloc = 0 /\ c.heads = 1 /\ ~c.clr_rob /\ c.clr_dq /\ ~c.restart /\ ~c.flush
      BY <3>0 DEF Quiet, ClearQueue, ClearAll
    <3>2. Edge(c)
      BY <1>14, <2>1 DEF MonitorWaitForAck, Goto, Before
    <3> HIDE DEF c
    <3>3. Good(c)
      BY <3>1, <1>14, <2>1, <1>p, <1>s DEF Good, MonitorWaitForAck, After, Before, t_can_retire_rob_head, Stopping
    <3>4. Restarting(c)
      BY <3>1, <1>14, <2>1, <1>h DEF Restarting, MonitorWaitForAck, Asked, Goto, DropAck, LatchAck
    <3>5. Allocating(c)
      BY <3>1, <1>14, <2>1, <1>s DEF Allocating, MonitorWaitForAck, Goto, Stopping, Before, Alone, After, Waits,
         memq_empty, t_can_retire_rob_head
    <3>6. Serializes(c)
      BY <3>1, <1>14, <2>1, <1>s, <1>d DEF Serializes, MonitorWaitForAck, Goto, Before, Alone, After, Waits
    <3>7. Recovers(c)
      BY <3>1, <1>14, <2>1 DEF Recovers, MonitorWaitForAck, Goto, Entering, Recovering, Halting, Waits, trap, Faulted, ArchFault
    <3>8. Registers(c)
      BY <3>1, <1>14, <2>1, <1>h, <1>r DEF Registers, MonitorWaitForAck, Goto, States, t_can_retire_rob_head, trap
    <3> QED
      BY <3>2, <3>3, <3>4, <3>5, <3>6, <3>7, <3>8 DEF Controls
  <2>2. CASE ~n_got_restart_ack
    <3> DEFINE c == [ClearQueue EXCEPT !.heads = 0]
    <3>0. c \in Outputs
      <4>1. PICK h \in 0 .. 2 : h = 0
        OBVIOUS
      <4>2. [ClearQueue EXCEPT !.heads = h] \in Outputs
        BY WaitingOutputs
      <4> QED
        BY <4>1, <4>2
    <3>1. /\ c \in Outputs
          /\ c.alloc = 0 /\ c.heads = 0 /\ ~c.clr_rob /\ c.clr_dq /\ ~c.restart /\ ~c.flush
      BY <3>0 DEF Quiet, ClearQueue, ClearAll
    <3>2. Edge(c)
      BY <1>14, <2>2 DEF MonitorWaitForAck, Goto, Before
    <3> HIDE DEF c
    <3>3. Good(c)
      BY <3>1, <1>14, <2>2, <1>p, <1>s DEF Good, MonitorWaitForAck, After, Before, t_can_retire_rob_head, Stopping
    <3>4. Restarting(c)
      BY <3>1, <1>14, <2>2, <1>h DEF Restarting, MonitorWaitForAck, Asked, Goto, DropAck, LatchAck
    <3>5. Allocating(c)
      BY <3>1, <1>14, <2>2, <1>s DEF Allocating, MonitorWaitForAck, Goto, Stopping, Before, Alone, After, Waits,
         memq_empty, t_can_retire_rob_head
    <3>6. Serializes(c)
      BY <3>1, <1>14, <2>2, <1>s, <1>d DEF Serializes, MonitorWaitForAck, Goto, Before, Alone, After, Waits
    <3>7. Recovers(c)
      BY <3>1, <1>14, <2>2 DEF Recovers, MonitorWaitForAck, Goto, Entering, Recovering, Halting, Waits, trap, Faulted, ArchFault
    <3>8. Registers(c)
      BY <3>1, <1>14, <2>2, <1>h, <1>r DEF Registers, MonitorWaitForAck, Goto, States, t_can_retire_rob_head, trap
    <3> QED
      BY <3>2, <3>3, <3>4, <3>5, <3>6, <3>7, <3>8 DEF Controls
  <2> QED
    BY <2>1, <2>2
<1>15. CASE ArchitecturalFault
  <2>1. CASE prog.SYSCALL_EMU = TRUE
    <3> DEFINE c == [Quiet EXCEPT !.heads = 1, !.flush = TRUE]
    <3>0. c \in Outputs
      BY WaitingOutputs DEF Outputs
    <3>1. /\ c \in Outputs
          /\ c.alloc = 0 /\ c.heads = 1 /\ ~c.clr_rob /\ ~c.clr_dq /\ ~c.restart /\ c.flush
      BY <3>0 DEF Quiet, ClearQueue, ClearAll
    <3>2. Edge(c)
      BY <1>15, <2>1 DEF ArchitecturalFault, Goto, Before
    <3> HIDE DEF c
    <3>3. Good(c)
      BY <3>1, <1>15, <2>1, <1>p, <1>s DEF Good, ArchitecturalFault, After, Before, t_can_retire_rob_head, Stopping
    <3>4. Restarting(c)
      BY <3>1, <1>15, <2>1, <1>h DEF Restarting, ArchitecturalFault, Asked, Goto, DropAck, LatchAck
    <3>5. Allocating(c)
      BY <3>1, <1>15, <2>1, <1>s DEF Allocating, ArchitecturalFault, Goto, Stopping, Before, Alone, After, Waits,
         memq_empty, t_can_retire_rob_head
    <3>6. Serializes(c)
      BY <3>1, <1>15, <2>1, <1>s, <1>d DEF Serializes, ArchitecturalFault, Goto, Before, Alone, After, Waits
    <3>7. Recovers(c)
      BY <3>1, <1>15, <2>1 DEF Recovers, ArchitecturalFault, Goto, Entering, Recovering, Halting, Waits, trap, Faulted, ArchFault
    <3>8. Registers(c)
      BY <3>1, <1>15, <2>1, <1>h, <1>r DEF Registers, ArchitecturalFault, Goto, States, t_can_retire_rob_head, trap
    <3> QED
      BY <3>2, <3>3, <3>4, <3>5, <3>6, <3>7, <3>8 DEF Controls
  <2>2. CASE prog.SYSCALL_EMU = FALSE
    <3> DEFINE c == [Quiet EXCEPT !.heads = 1, !.flush = FALSE]
    <3>0. c \in Outputs
      BY WaitingOutputs DEF Outputs
    <3>1. /\ c \in Outputs
          /\ c.alloc = 0 /\ c.heads = 1 /\ ~c.clr_rob /\ ~c.clr_dq /\ ~c.restart /\ ~c.flush
      BY <3>0 DEF Quiet, ClearQueue, ClearAll
    <3>2. Edge(c)
      BY <1>15, <2>2 DEF ArchitecturalFault, Goto, Before
    <3> HIDE DEF c
    <3>3. Good(c)
      BY <3>1, <1>15, <2>2, <1>p, <1>s DEF Good, ArchitecturalFault, After, Before, t_can_retire_rob_head, Stopping
    <3>4. Restarting(c)
      BY <3>1, <1>15, <2>2, <1>h DEF Restarting, ArchitecturalFault, Asked, Goto, DropAck, LatchAck
    <3>5. Allocating(c)
      BY <3>1, <1>15, <2>2, <1>s DEF Allocating, ArchitecturalFault, Goto, Stopping, Before, Alone, After, Waits,
         memq_empty, t_can_retire_rob_head
    <3>6. Serializes(c)
      BY <3>1, <1>15, <2>2, <1>s, <1>d DEF Serializes, ArchitecturalFault, Goto, Before, Alone, After, Waits
    <3>7. Recovers(c)
      BY <3>1, <1>15, <2>2 DEF Recovers, ArchitecturalFault, Goto, Entering, Recovering, Halting, Waits, trap, Faulted, ArchFault
    <3>8. Registers(c)
      BY <3>1, <1>15, <2>2, <1>h, <1>r DEF Registers, ArchitecturalFault, Goto, States, t_can_retire_rob_head, trap
    <3> QED
      BY <3>2, <3>3, <3>4, <3>5, <3>6, <3>7, <3>8 DEF Controls
  <2> QED
    BY <2>1, <2>2, <1>h
<1>16. CASE WriteCsrs
  <2> DEFINE c == Quiet
  <2>0. c \in Outputs
    BY WaitingOutputs DEF Outputs
  <2>1. /\ c \in Outputs
        /\ c.alloc = 0 /\ c.heads = 0 /\ ~c.clr_rob /\ ~c.clr_dq /\ ~c.restart /\ ~c.flush
    BY <2>0 DEF Quiet, ClearQueue, ClearAll
  <2>2. Edge(c)
    BY <1>16 DEF WriteCsrs, Goto, Before
  <2> HIDE DEF c
  <2>3. Good(c)
    BY <2>1, <1>16, <1>p, <1>s DEF Good, WriteCsrs, After, Before, t_can_retire_rob_head, Stopping
  <2>4. Restarting(c)
    BY <2>1, <1>16, <1>h DEF Restarting, WriteCsrs, Asked, Goto, DropAck, LatchAck
  <2>5. Allocating(c)
    BY <2>1, <1>16, <1>s DEF Allocating, WriteCsrs, Goto, Stopping, Before, Alone, After, Waits,
       memq_empty, t_can_retire_rob_head
  <2>6. Serializes(c)
    BY <2>1, <1>16, <1>s, <1>d DEF Serializes, WriteCsrs, Goto, Before, Alone, After, Waits
  <2>7. Recovers(c)
    BY <2>1, <1>16 DEF Recovers, WriteCsrs, Goto, Entering, Recovering, Halting, Waits, trap, Faulted, ArchFault
  <2>8. Registers(c)
    BY <2>1, <1>16, <1>h, <1>r DEF Registers, WriteCsrs, Goto, States, t_can_retire_rob_head, trap
  <2> QED
    BY <2>2, <2>3, <2>4, <2>5, <2>6, <2>7, <2>8 DEF Controls
<1>17. CASE WaitForCsrWrite
  <2>1. CASE r_state' = "DRAIN"
    <3> DEFINE c == [Quiet EXCEPT !.restart = TRUE]
    <3>0. c \in Outputs
      BY WaitingOutputs DEF Outputs
    <3>1. /\ c \in Outputs
          /\ c.alloc = 0 /\ c.heads = 0 /\ ~c.clr_rob /\ ~c.clr_dq /\ c.restart /\ ~c.flush
      BY <3>0 DEF Quiet, ClearQueue, ClearAll
    <3>2. Edge(c)
      BY <1>17, <2>1 DEF WaitForCsrWrite, Goto, Before
    <3> HIDE DEF c
    <3>3. Good(c)
      BY <3>1, <1>17, <2>1, <1>p, <1>s DEF Good, WaitForCsrWrite, After, Before, t_can_retire_rob_head, Stopping
    <3>4. Restarting(c)
      BY <3>1, <1>17, <2>1, <1>h DEF Restarting, WaitForCsrWrite, Asked, Goto, DropAck, LatchAck
    <3>5. Allocating(c)
      BY <3>1, <1>17, <2>1, <1>s DEF Allocating, WaitForCsrWrite, Goto, Stopping, Before, Alone, After, Waits,
         memq_empty, t_can_retire_rob_head
    <3>6. Serializes(c)
      BY <3>1, <1>17, <2>1, <1>s, <1>d DEF Serializes, WaitForCsrWrite, Goto, Before, Alone, After, Waits
    <3>7. Recovers(c)
      BY <3>1, <1>17, <2>1 DEF Recovers, WaitForCsrWrite, Goto, Entering, Recovering, Halting, Waits, trap, Faulted, ArchFault
    <3>8. Registers(c)
      BY <3>1, <1>17, <2>1, <1>h, <1>r DEF Registers, WaitForCsrWrite, Goto, States, t_can_retire_rob_head, trap
    <3> QED
      BY <3>2, <3>3, <3>4, <3>5, <3>6, <3>7, <3>8 DEF Controls
  <2>2. CASE r_state' # "DRAIN"
    <3> DEFINE c == Quiet
    <3>0. c \in Outputs
      BY WaitingOutputs DEF Outputs
    <3>1. /\ c \in Outputs
          /\ c.alloc = 0 /\ c.heads = 0 /\ ~c.clr_rob /\ ~c.clr_dq /\ ~c.restart /\ ~c.flush
      BY <3>0 DEF Quiet, ClearQueue, ClearAll
    <3>2. Edge(c)
      BY <1>17, <2>2 DEF WaitForCsrWrite, Goto, Before
    <3> HIDE DEF c
    <3>3. Good(c)
      BY <3>1, <1>17, <2>2, <1>p, <1>s DEF Good, WaitForCsrWrite, After, Before, t_can_retire_rob_head, Stopping
    <3>4. Restarting(c)
      BY <3>1, <1>17, <2>2, <1>h DEF Restarting, WaitForCsrWrite, Asked, Goto, DropAck, LatchAck
    <3>5. Allocating(c)
      BY <3>1, <1>17, <2>2, <1>s DEF Allocating, WaitForCsrWrite, Goto, Stopping, Before, Alone, After, Waits,
         memq_empty, t_can_retire_rob_head
    <3>6. Serializes(c)
      BY <3>1, <1>17, <2>2, <1>s, <1>d DEF Serializes, WaitForCsrWrite, Goto, Before, Alone, After, Waits
    <3>7. Recovers(c)
      BY <3>1, <1>17, <2>2 DEF Recovers, WaitForCsrWrite, Goto, Entering, Recovering, Halting, Waits, trap, Faulted, ArchFault
    <3>8. Registers(c)
      BY <3>1, <1>17, <2>2, <1>h, <1>r DEF Registers, WaitForCsrWrite, Goto, States, t_can_retire_rob_head, trap
    <3> QED
      BY <3>2, <3>3, <3>4, <3>5, <3>6, <3>7, <3>8 DEF Controls
  <2> QED
    BY <2>1, <2>2
<1>18. CASE WaitForMmu
  <2>1. CASE r_state' = "DRAIN"
    <3> DEFINE c == [Quiet EXCEPT !.restart = TRUE]
    <3>0. c \in Outputs
      BY WaitingOutputs DEF Outputs
    <3>1. /\ c \in Outputs
          /\ c.alloc = 0 /\ c.heads = 0 /\ ~c.clr_rob /\ ~c.clr_dq /\ c.restart /\ ~c.flush
      BY <3>0 DEF Quiet, ClearQueue, ClearAll
    <3>2. Edge(c)
      BY <1>18, <2>1 DEF WaitForMmu, Goto, Before
    <3> HIDE DEF c
    <3>3. Good(c)
      BY <3>1, <1>18, <2>1, <1>p, <1>s DEF Good, WaitForMmu, After, Before, t_can_retire_rob_head, Stopping
    <3>4. Restarting(c)
      BY <3>1, <1>18, <2>1, <1>h DEF Restarting, WaitForMmu, Asked, Goto, DropAck, LatchAck
    <3>5. Allocating(c)
      BY <3>1, <1>18, <2>1, <1>s DEF Allocating, WaitForMmu, Goto, Stopping, Before, Alone, After, Waits,
         memq_empty, t_can_retire_rob_head
    <3>6. Serializes(c)
      BY <3>1, <1>18, <2>1, <1>s, <1>d DEF Serializes, WaitForMmu, Goto, Before, Alone, After, Waits
    <3>7. Recovers(c)
      BY <3>1, <1>18, <2>1 DEF Recovers, WaitForMmu, Goto, Entering, Recovering, Halting, Waits, trap, Faulted, ArchFault
    <3>8. Registers(c)
      BY <3>1, <1>18, <2>1, <1>h, <1>r DEF Registers, WaitForMmu, Goto, States, t_can_retire_rob_head, trap
    <3> QED
      BY <3>2, <3>3, <3>4, <3>5, <3>6, <3>7, <3>8 DEF Controls
  <2>2. CASE r_state' # "DRAIN"
    <3> DEFINE c == Quiet
    <3>0. c \in Outputs
      BY WaitingOutputs DEF Outputs
    <3>1. /\ c \in Outputs
          /\ c.alloc = 0 /\ c.heads = 0 /\ ~c.clr_rob /\ ~c.clr_dq /\ ~c.restart /\ ~c.flush
      BY <3>0 DEF Quiet, ClearQueue, ClearAll
    <3>2. Edge(c)
      BY <1>18, <2>2 DEF WaitForMmu, Goto, Before
    <3> HIDE DEF c
    <3>3. Good(c)
      BY <3>1, <1>18, <2>2, <1>p, <1>s DEF Good, WaitForMmu, After, Before, t_can_retire_rob_head, Stopping
    <3>4. Restarting(c)
      BY <3>1, <1>18, <2>2, <1>h DEF Restarting, WaitForMmu, Asked, Goto, DropAck, LatchAck
    <3>5. Allocating(c)
      BY <3>1, <1>18, <2>2, <1>s DEF Allocating, WaitForMmu, Goto, Stopping, Before, Alone, After, Waits,
         memq_empty, t_can_retire_rob_head
    <3>6. Serializes(c)
      BY <3>1, <1>18, <2>2, <1>s, <1>d DEF Serializes, WaitForMmu, Goto, Before, Alone, After, Waits
    <3>7. Recovers(c)
      BY <3>1, <1>18, <2>2 DEF Recovers, WaitForMmu, Goto, Entering, Recovering, Halting, Waits, trap, Faulted, ArchFault
    <3>8. Registers(c)
      BY <3>1, <1>18, <2>2, <1>h, <1>r DEF Registers, WaitForMmu, Goto, States, t_can_retire_rob_head, trap
    <3> QED
      BY <3>2, <3>3, <3>4, <3>5, <3>6, <3>7, <3>8 DEF Controls
  <2> QED
    BY <2>1, <2>2
<1>19. CASE FlushForHalt
  <2> DEFINE c == Quiet
  <2>0. c \in Outputs
    BY WaitingOutputs DEF Outputs
  <2>1. /\ c \in Outputs
        /\ c.alloc = 0 /\ c.heads = 0 /\ ~c.clr_rob /\ ~c.clr_dq /\ ~c.restart /\ ~c.flush
    BY <2>0 DEF Quiet, ClearQueue, ClearAll
  <2>2. Edge(c)
    BY <1>19 DEF FlushForHalt, Goto, Before
  <2> HIDE DEF c
  <2>3. Good(c)
    BY <2>1, <1>19, <1>p, <1>s DEF Good, FlushForHalt, After, Before, t_can_retire_rob_head, Stopping
  <2>4. Restarting(c)
    BY <2>1, <1>19, <1>h DEF Restarting, FlushForHalt, Asked, Goto, DropAck, LatchAck
  <2>5. Allocating(c)
    BY <2>1, <1>19, <1>s DEF Allocating, FlushForHalt, Goto, Stopping, Before, Alone, After, Waits,
       memq_empty, t_can_retire_rob_head
  <2>6. Serializes(c)
    BY <2>1, <1>19, <1>s, <1>d DEF Serializes, FlushForHalt, Goto, Before, Alone, After, Waits
  <2>7. Recovers(c)
    BY <2>1, <1>19 DEF Recovers, FlushForHalt, Goto, Entering, Recovering, Halting, Waits, trap, Faulted, ArchFault
  <2>8. Registers(c)
    BY <2>1, <1>19, <1>h, <1>r DEF Registers, FlushForHalt, Goto, States, t_can_retire_rob_head, trap
  <2> QED
    BY <2>2, <2>3, <2>4, <2>5, <2>6, <2>7, <2>8 DEF Controls
<1>20. CASE Halt
  <2>1. CASE r_state' # r_state
    <3> DEFINE c == [ClearQueue EXCEPT !.restart = TRUE]
    <3>0. c \in Outputs
      BY WaitingOutputs DEF Outputs
    <3>1. /\ c \in Outputs
          /\ c.alloc = 0 /\ c.heads = 0 /\ ~c.clr_rob /\ c.clr_dq /\ c.restart /\ ~c.flush
      BY <3>0 DEF Quiet, ClearQueue, ClearAll
    <3>2. Edge(c)
      BY <1>20, <2>1 DEF Halt, Goto, Before
    <3> HIDE DEF c
    <3>3. Good(c)
      BY <3>1, <1>20, <2>1, <1>p, <1>s DEF Good, Halt, After, Before, t_can_retire_rob_head, Stopping
    <3>4. Restarting(c)
      BY <3>1, <1>20, <2>1, <1>h DEF Restarting, Halt, Asked, Goto, DropAck, LatchAck
    <3>5. Allocating(c)
      BY <3>1, <1>20, <2>1, <1>s DEF Allocating, Halt, Goto, Stopping, Before, Alone, After, Waits,
         memq_empty, t_can_retire_rob_head
    <3>6. Serializes(c)
      BY <3>1, <1>20, <2>1, <1>s, <1>d DEF Serializes, Halt, Goto, Before, Alone, After, Waits
    <3>7. Recovers(c)
      BY <3>1, <1>20, <2>1 DEF Recovers, Halt, Goto, Entering, Recovering, Halting, Waits, trap, Faulted, ArchFault
    <3>8. Registers(c)
      BY <3>1, <1>20, <2>1, <1>h, <1>r DEF Registers, Halt, Goto, States, t_can_retire_rob_head, trap
    <3> QED
      BY <3>2, <3>3, <3>4, <3>5, <3>6, <3>7, <3>8 DEF Controls
  <2>2. CASE r_state' = r_state
    <3> DEFINE c == Quiet
    <3>0. c \in Outputs
      BY WaitingOutputs DEF Outputs
    <3>1. /\ c \in Outputs
          /\ c.alloc = 0 /\ c.heads = 0 /\ ~c.clr_rob /\ ~c.clr_dq /\ ~c.restart /\ ~c.flush
      BY <3>0 DEF Quiet, ClearQueue, ClearAll
    <3>2. Edge(c)
      BY <1>20, <2>2 DEF Halt, Goto, Before
    <3> HIDE DEF c
    <3>3. Good(c)
      BY <3>1, <1>20, <2>2, <1>p, <1>s DEF Good, Halt, After, Before, t_can_retire_rob_head, Stopping
    <3>4. Restarting(c)
      BY <3>1, <1>20, <2>2, <1>h DEF Restarting, Halt, Asked, Goto, DropAck, LatchAck
    <3>5. Allocating(c)
      BY <3>1, <1>20, <2>2, <1>s DEF Allocating, Halt, Goto, Stopping, Before, Alone, After, Waits,
         memq_empty, t_can_retire_rob_head
    <3>6. Serializes(c)
      BY <3>1, <1>20, <2>2, <1>s, <1>d DEF Serializes, Halt, Goto, Before, Alone, After, Waits
    <3>7. Recovers(c)
      BY <3>1, <1>20, <2>2 DEF Recovers, Halt, Goto, Entering, Recovering, Halting, Waits, trap, Faulted, ArchFault
    <3>8. Registers(c)
      BY <3>1, <1>20, <2>2, <1>h, <1>r DEF Registers, Halt, Goto, States, t_can_retire_rob_head, trap
    <3> QED
      BY <3>2, <3>3, <3>4, <3>5, <3>6, <3>7, <3>8 DEF Controls
  <2> QED
    BY <2>1, <2>2
<1>21. CASE HaltWaitForRestart
  <2> DEFINE c == [Quiet EXCEPT !.calm = TRUE]
  <2>0. c \in Outputs
    BY WaitingOutputs DEF Outputs
  <2>1. /\ c \in Outputs
        /\ c.alloc = 0 /\ c.heads = 0 /\ ~c.clr_rob /\ ~c.clr_dq /\ ~c.restart /\ ~c.flush
    BY <2>0 DEF Quiet, ClearQueue, ClearAll
  <2>2. Edge(c)
    BY <1>21 DEF HaltWaitForRestart, Goto, Before
  <2> HIDE DEF c
  <2>3. Good(c)
    BY <2>1, <1>21, <1>p, <1>s DEF Good, HaltWaitForRestart, After, Before, t_can_retire_rob_head, Stopping
  <2>4. Restarting(c)
    BY <2>1, <1>21, <1>h DEF Restarting, HaltWaitForRestart, Asked, Goto, DropAck, LatchAck
  <2>5. Allocating(c)
    BY <2>1, <1>21, <1>s DEF Allocating, HaltWaitForRestart, Goto, Stopping, Before, Alone, After, Waits,
       memq_empty, t_can_retire_rob_head
  <2>6. Serializes(c)
    BY <2>1, <1>21, <1>s, <1>d DEF Serializes, HaltWaitForRestart, Goto, Before, Alone, After, Waits
  <2>7. Recovers(c)
    BY <2>1, <1>21 DEF Recovers, HaltWaitForRestart, Goto, Entering, Recovering, Halting, Waits, trap, Faulted, ArchFault
  <2>8. Registers(c)
    BY <2>1, <1>21, <1>h, <1>r DEF Registers, HaltWaitForRestart, Goto, States, t_can_retire_rob_head, trap
  <2> QED
    BY <2>2, <2>3, <2>4, <2>5, <2>6, <2>7, <2>8 DEF Controls
<1>22. CASE ActiveRetire
  <2>1. PICK n \in Allocs :
          /\ n > 0 => ~r_pending_fault
          /\ Edge([Quiet EXCEPT !.alloc = n, !.heads = IF t_retire_two THEN 2 ELSE 1])
    BY <1>22 DEF ActiveRetire
  <2>2. PICK h \in {1, 2} : h = (IF t_retire_two THEN 2 ELSE 1)
    OBVIOUS
  <2> DEFINE c == [Quiet EXCEPT !.alloc = n, !.heads = h]
  <2>3. n \in 0 .. 2 /\ n <= Len(r_dq) /\ Occupancy + n <= NROB
        /\ \A k \in 1 .. n : r_dq[k].kind \notin Serializing
    BY DEF Allocs
  <2>4. c \in Outputs
    <3>1. h \in 0 .. 2
      OBVIOUS
    <3> QED
      BY <2>3, <3>1, WaitingOutputs
  <2>5. /\ c.alloc = n /\ c.heads = h
        /\ ~c.clr_rob /\ ~c.clr_dq /\ ~c.restart /\ ~c.flush
    BY <2>4 DEF Quiet
  <2>6. Edge(c)
    BY <2>1, <2>2
  <2> HIDE DEF c
  <2>7. /\ r_state = "ACTIVE" /\ t_can_retire_rob_head
        /\ RobHead.kind \notin Faulted \cup MarksDirty
        /\ r_got_restart_ack' = FALSE
        /\ UNCHANGED <<r_state, r_ds_done, r_restart_pc, trap>>
    BY <1>22 DEF ActiveRetire, DropAck
  <2>8. h = 2 => Occupancy > 1 /\ HeadComplete(1) /\ Entry(1).kind \notin Faulted
    BY <2>2 DEF t_retire_two
  <2>9. Good(c)
    BY <2>3, <2>4, <2>5, <2>7, <2>8, <1>p, <1>s DEF Good, t_can_retire_rob_head, Stopping
  <2>10. Restarting(c)
    BY <2>5, <2>7 DEF Restarting, Asked
  <2>11. Allocating(c)
    BY <2>3, <2>5, <2>7, <1>s DEF Allocating, Stopping, Alone, Waits
  <2>12. Serializes(c)
    BY <2>5, <2>7 DEF Serializes, Before, Alone, After
  <2>13. Recovers(c)
    BY <2>5, <2>7, <2>8 DEF Recovers, Entering, Recovering, Halting
  <2>14. Registers(c)
    BY <2>7, <1>h DEF Registers, trap
  <2> QED
    BY <2>6, <2>9, <2>10, <2>11, <2>12, <2>13, <2>14 DEF Controls
<1>23. CASE ActiveAlloc
  <2>1. PICK n \in Allocs : Edge([Quiet EXCEPT !.alloc = n])
    BY <1>23 DEF ActiveAlloc
  <2> DEFINE c == [Quiet EXCEPT !.alloc = n]
  <2>3. n \in 0 .. 2 /\ n <= Len(r_dq) /\ Occupancy + n <= NROB
        /\ \A k \in 1 .. n : r_dq[k].kind \notin Serializing
    BY DEF Allocs
  <2>4. c \in Outputs
    BY <2>3, WaitingOutputs DEF Outputs
  <2>5. /\ c.alloc = n /\ c.heads = 0
        /\ ~c.clr_rob /\ ~c.clr_dq /\ ~c.restart /\ ~c.flush
    BY <2>4 DEF Quiet
  <2>6. Edge(c)
    BY <2>1
  <2> HIDE DEF c
  <2>7. /\ r_state = "ACTIVE" /\ ~t_can_retire_rob_head
        /\ r_got_restart_ack' = FALSE
        /\ UNCHANGED <<r_state, r_ds_done, r_restart_pc, trap>>
    BY <1>23 DEF ActiveAlloc, DropAck
  <2>9. Good(c)
    BY <2>3, <2>4, <2>5, <2>7, <1>p, <1>s DEF Good, Stopping
  <2>10. Restarting(c)
    BY <2>5, <2>7 DEF Restarting, Asked
  <2>11. Allocating(c)
    BY <2>3, <2>5, <2>7, <1>s DEF Allocating, Stopping, Alone, Waits
  <2>12. Serializes(c)
    BY <2>5, <2>7 DEF Serializes, Before, Alone, After
  <2>13. Recovers(c)
    BY <2>5, <2>7 DEF Recovers, Entering, Recovering, Halting
  <2>14. Registers(c)
    BY <2>7, <1>h DEF Registers, trap
  <2> QED
    BY <2>6, <2>9, <2>10, <2>11, <2>12, <2>13, <2>14 DEF Controls
<1> QED
  BY <1>1, <1>2, <1>3, <1>4, <1>5, <1>6, <1>7, <1>8, <1>9, <1>10, <1>11, <1>12, <1>13, <1>14, <1>15, <1>16, <1>17, <1>18, <1>19, <1>20, <1>21, <1>22, <1>23 DEF Next

-----------------------------------------------------------------------------
(* The restart handshake after an edge.                                     *)
LEMMA HandshakeStep ==
  ASSUME TypeOK, Handshake, NEW c, Edge(c), Restarting(c)
  PROVE  Handshake'
<1>1. PICK flushed \in FlushAnswers : FrontEnd(c, flushed)
  BY DEF Edge
<1>2. PICK offer \in Offers, answer \in BOOLEAN :
        /\ answer => fe_req
        /\ restart_ack' = answer
        /\ fe_req' = (c.restart \/ (fe_req /\ ~answer))
        /\ fe_pos' = IF answer THEN r_restart_pc
                     ELSE IF r_state = "ACTIVE" /\ Taken(offer) # <<>>
                     THEN Follow(Taken(offer)[Len(Taken(offer))])
                     ELSE fe_pos
  BY <1>1 DEF FrontEnd
<1>3. /\ r_got_restart_ack' = (r_state # "ACTIVE" /\ n_got_restart_ack)
      /\ c.restart <=> (r_state \notin Asked /\ r_state' \in Asked)
      /\ r_state \in Asked => r_restart_pc' = r_restart_pc
      /\ r_state \in Asked => r_state' \in Asked \/ (n_got_restart_ack /\ r_state' = "ACTIVE")
      /\ r_state' = "ACTIVE" => r_state \in Asked \cup {"ACTIVE"}
      /\ n_got_restart_ack <=> restart_ack \/ r_got_restart_ack
  BY DEF Restarting, n_got_restart_ack
<1>4. fe_req \in BOOLEAN /\ restart_ack \in BOOLEAN /\ r_got_restart_ack \in BOOLEAN
  BY DEF TypeOK
<1>5. "ACTIVE" \notin Asked
  BY DEF Asked
<1>6. CASE r_state \in Asked /\ r_state' \in Asked
  BY <1>2, <1>3, <1>4, <1>5, <1>6 DEF Handshake
<1>7. CASE r_state \in Asked /\ r_state' \notin Asked
  BY <1>2, <1>3, <1>4, <1>5, <1>7 DEF Handshake
<1>8. CASE r_state \notin Asked /\ r_state' \in Asked
  BY <1>2, <1>3, <1>4, <1>5, <1>8 DEF Handshake
<1>9. CASE r_state \notin Asked /\ r_state' \notin Asked
  BY <1>2, <1>3, <1>4, <1>5, <1>9 DEF Handshake
<1> QED
  BY <1>6, <1>7, <1>8, <1>9

-----------------------------------------------------------------------------
(* What an edge leaves as it is.                                            *)
LEMMA UnitsKeep ==
  ASSUME TypeOK, NoLateCompletion, Counted, NEW c, Good(c), Execute(c), Buffer(c)
  PROVE  /\ wrq = 0 /\ (\A s \in Slots : unit[s] = "mem" => KindAt(s) \notin AckedEarly)
              => wrq' = 0
         /\ c.alloc = 0 /\ (\A s \in Slots : unit[s] = "idle")
              => \A s \in Slots : unit'[s] = "idle"
         /\ ~c.clr_rob => /\ r_rob_complete \ NewSlots(c) \subseteq r_rob_complete'
                          /\ r_rob_sd_complete \ NewSlots(c) \subseteq r_rob_sd_complete'
<1>1. c.clr_rob => c.alloc = 0
  BY DEF Good
<1>2. c.alloc = 0 => NewSlots(c) = {}
  BY DEF NewSlots
<1>3. Added(c) \subseteq NewSlots(c) /\ \A s \in NewSlots(c) : unit[s] = "idle"
  <2>1. CASE c.alloc = 0
    BY <1>2, <2>1 DEF Added
  <2>2. CASE c.alloc # 0
    BY <1>1, <2>2, Shift DEF Added, NoLateCompletion
  <2> QED
    BY <2>1, <2>2
<1>4. PICK done, sd : Completes(c, done, sd) /\ Units(c, done)
  BY <1>3, UnitsStep
<1>5. wrq' \in 0 .. NMRQ /\ (wrq' > wrq => \E s \in At("mem") : KindAt(s) \in AckedEarly)
  BY <1>4 DEF Units
<1>6. wrq = 0 /\ (\A s \in Slots : unit[s] = "mem" => KindAt(s) \notin AckedEarly)
        => wrq' = 0
  BY <1>5, Sizes DEF At
<1>7. c.alloc = 0 /\ (\A s \in Slots : unit[s] = "idle")
        => \A s \in Slots : unit'[s] = "idle"
  BY <1>2, <1>3, <1>4 DEF Units
<1>8. ~c.clr_rob => /\ r_rob_complete \ NewSlots(c) \subseteq r_rob_complete'
                    /\ r_rob_sd_complete \ NewSlots(c) \subseteq r_rob_sd_complete'
  BY <1>3, <1>4 DEF Completes
<1> QED
  BY <1>6, <1>7, <1>8

LEMMA Stay ==
  ASSUME TypeOK, NEW c, Good(c), Buffer(c), Waits(c), ~c.clr_rob
  PROVE  /\ Occupancy' = Occupancy /\ Live' = Live /\ r_rob' = r_rob
         /\ r_rob_head_ptr' = r_rob_head_ptr
         /\ RobHead' = RobHead /\ NewSlots(c) = {}
<1>1. NewSlots(c) = {} /\ Retired(c) = {}
  BY DEF NewSlots, Retired, Waits
<1>2. Occupancy' = (Occupancy - c.heads) + c.alloc
      /\ Live' = (Live \ Retired(c)) \cup NewSlots(c)
  BY Shift
<1>3. Occupancy' = Occupancy /\ Live' = Live
  BY <1>1, <1>2, Pointers DEF Waits
<1>4. r_rob' = r_rob
  BY <1>1 DEF Buffer, TypeOK
<1>5. r_rob_head_ptr' = r_rob_head_ptr
  <2>1. r_rob_head_ptr' = Adv(r_rob_head_ptr, 0)
    BY DEF Buffer, Waits
  <2>2. r_rob_head_ptr \in Ptrs
    BY DEF TypeOK
  <2> QED
    BY <2>1, <2>2, Sizes DEF Adv, Ptrs
<1> QED
  BY <1>1, <1>3, <1>4, <1>5 DEF RobHead, Entry

LEMMA NewHead ==
  ASSUME TypeOK, NEW c, Good(c), Buffer(c), ~c.clr_rob,
         c.alloc = 1, c.heads = 0, Occupancy = 0
  PROVE  /\ Occupancy' = 1 /\ Live' = NewSlots(c) /\ RobHead' = r_dq[1]
         /\ \A s \in NewSlots(c) : r_rob'[s] = r_dq[1]
<1>1. /\ Occupancy' = (Occupancy - c.heads) + c.alloc
      /\ Live' = (Live \ Retired(c)) \cup NewSlots(c)
      /\ NewSlots(c) \subseteq Slots
      /\ \A k \in 1 .. c.alloc :
           /\ Slot(Adv(r_rob_tail_ptr, k - 1)) = Nth(Occupancy + (k - 1))
           /\ NewUop(c, Slot(Adv(r_rob_tail_ptr, k - 1))) = r_dq[k]
      /\ \A k \in 0 .. NROB - c.heads : Nth(k)' = Nth(k + c.heads)
  BY Shift
<1>2. Live = {}
  BY Pointers
<1>3. NewSlots(c) = {Nth(0)} /\ NewUop(c, Nth(0)) = r_dq[1]
  <2>1. Slot(Adv(r_rob_tail_ptr, 1 - 1)) = Nth(0) /\ NewUop(c, Nth(0)) = r_dq[1]
    <3>1. 1 \in 1 .. c.alloc /\ Occupancy + (1 - 1) = 0
      OBVIOUS
    <3> QED
      BY <1>1, <3>1
  <2>2. \A k \in 1 .. c.alloc : k = 1
    OBVIOUS
  <2> QED
    BY <2>1, <2>2 DEF NewSlots
<1>4. Nth(0)' = Nth(0)
  <2>1. 0 \in 0 .. NROB - c.heads /\ 0 + c.heads = 0
    BY Sizes
  <2> QED
    BY <1>1, <2>1
<1>5. r_rob'[Nth(0)] = r_dq[1]
  BY <1>1, <1>3 DEF Buffer
<1>6. RobHead' = r_rob'[Nth(0)']
  BY DEF RobHead, Entry, Nth
<1> QED
  BY <1>1, <1>2, <1>3, <1>4, <1>5, <1>6

(* The slots that stay keep their uop, and their place from the head.       *)
LEMMA OldUops ==
  ASSUME TypeOK, NEW c, Good(c), Buffer(c), ~c.clr_rob
  PROVE  \A s \in Live : r_rob'[s] = r_rob[s] /\ KindAt(s)' = KindAt(s)
<1>1. NewSlots(c) \subseteq Slots \ Live /\ Live \subseteq Slots
  BY Shift, Pointers
<1>2. \A s \in Slots : r_rob'[s] = IF s \in NewSlots(c) THEN NewUop(c, s) ELSE r_rob[s]
  BY DEF Buffer
<1> QED
  BY <1>1, <1>2 DEF KindAt

-----------------------------------------------------------------------------
(* One edge of the front end: what is pushed into the decode queue, and how *)
(* the restart handshake and the place of the fetch move on.                *)
Feeds(push) ==
  \E u \in Insns(fe_pos) :
    \/ ~IsCmov(u) /\ push = <<u>>
    \/ IsCmov(u) /\ push = Crack(u)
    \/ ~IsCmov(u) /\ \E v \in Insns(Follow(u)) : ~IsCmov(v) /\ push = <<u, v>>

Fetches(c, push, answer) ==
  /\ push = <<>> \/ (fe_on /\ ~restart_ack /\ Feeds(push))
  /\ push \in Seq(Uop) /\ Len(push) <= NDQ - Len(r_dq)
  /\ answer => fe_req
  /\ r_dq' = IF c.clr_dq \/ c.clr_rob THEN <<>>
             ELSE SubSeq(r_dq, c.alloc + 1, Len(r_dq)) \o push
  /\ restart_ack' = answer /\ fe_req' = (c.restart \/ (fe_req /\ ~answer))
  /\ fe_on' \in BOOLEAN /\ (fe_on' => answer \/ fe_on)
  /\ fe_pos' = IF answer THEN r_restart_pc
               ELSE IF r_state = "ACTIVE" /\ push # <<>> THEN Follow(push[Len(push)])
               ELSE fe_pos

LEMMA Instructions ==
  ASSUME TypeOK, NEW p \in Positions \cup {OFF}, NEW u \in Insns(p)
  PROVE  u \in Uop /\ u.pos = p /\ u.half = "whole"
<1>1. prog \in Program
  BY Sizes DEF TypeOK
<1>2. /\ prog.wrong \subseteq Kinds
      /\ \A q \in Positions : prog.code[q] \in Kinds
  BY <1>1 DEF Program
<1>3. \E k \in Kinds : u = [kind |-> k, pos |-> p, half |-> "whole"]
  BY <1>2 DEF Insns, Kinds, Folded
<1> QED
  BY <1>3 DEF Uop

LEMMA FrontEndStep ==
  ASSUME TypeOK, NEW c, Edge(c)
  PROVE  \E push, answer : answer \in BOOLEAN /\ Fetches(c, push, answer)
<1>1. PICK flushed \in FlushAnswers : FrontEnd(c, flushed)
  BY DEF Edge
<1>2. PICK offer \in Offers, answer \in BOOLEAN : FrontEnd(c, flushed)!(offer, answer)
  BY <1>1 DEF FrontEnd
<1> DEFINE taken == Taken(offer)
           push  == Pushed(taken)
<1>3. /\ answer => fe_req
      /\ r_dq' = IF c.clr_dq \/ c.clr_rob THEN <<>>
                 ELSE SubSeq(r_dq, c.alloc + 1, Len(r_dq)) \o push
      /\ restart_ack' = answer /\ fe_req' = (c.restart \/ (fe_req /\ ~answer))
      /\ fe_on' = (answer \/ (fe_on /\ "l1i" \notin flushed))
      /\ fe_pos' = IF answer THEN r_restart_pc
                   ELSE IF r_state = "ACTIVE" /\ taken # <<>>
                   THEN Follow(taken[Len(taken)])
                   ELSE fe_pos
  BY <1>2
<1>4. fe_on \in BOOLEAN /\ fe_pos \in Positions \cup {OFF} /\ Len(r_dq) \in 0 .. NDQ
  BY Pointers DEF TypeOK
<1>5. \/ offer = <<>>
      \/ /\ fe_on /\ ~restart_ack
         /\ \E u \in Insns(fe_pos) :
              offer = <<u>> \/ \E v \in Insns(Follow(u)) : offer = <<u, v>>
  BY DEF Offers
<1>6. CASE taken = <<>>
  <2>1. push = <<>>
    BY <1>6 DEF Pushed
  <2>2. push \in Seq(Uop) /\ Len(push) = 0
    BY <2>1
  <2> QED
    BY <1>3, <1>4, <1>6, <2>1, <2>2, Sizes DEF Fetches
<1>7. CASE taken # <<>>
  <2>1. offer # <<>> /\ fe_on /\ ~restart_ack /\ NDQ - Len(r_dq) # 0
    BY <1>5, <1>7 DEF Taken
  <2>2. PICK u \in Insns(fe_pos) :
          offer = <<u>> \/ \E v \in Insns(Follow(u)) : offer = <<u, v>>
    BY <1>5, <2>1
  <2>3. u \in Uop /\ offer[1] = u
    BY <1>4, <2>2, Instructions
  <2>4. CASE IsCmov(u)
    <3>1. taken = <<u>> /\ NDQ - Len(r_dq) >= 2
      BY <1>7, <2>1, <2>3, <2>4 DEF Taken
    <3>2. push = Crack(u)
      BY <2>4, <3>1 DEF Pushed
    <3>3. [u EXCEPT !.half = "lo"] \in Uop /\ [u EXCEPT !.half = "hi"] \in Uop
          /\ Follow([u EXCEPT !.half = "hi"]) = Follow(u)
      BY <2>3 DEF Uop, Follow
    <3>4. push \in Seq(Uop) /\ Len(push) = 2 /\ push # <<>> /\ Follow(push[2]) = Follow(u)
      BY <3>2, <3>3 DEF Crack
    <3>5. taken # <<>> /\ taken[Len(taken)] = u
      BY <3>1
    <3>6. Feeds(push)
      BY <2>2, <2>4, <3>2 DEF Feeds
    <3> HIDE DEF push, taken
    <3> QED
      BY <1>3, <2>1, <3>1, <3>4, <3>5, <3>6 DEF Fetches
  <2>5. CASE ~IsCmov(u) /\ taken = <<u>>
    <3>2. push = <<u>>
      BY <2>5 DEF Pushed
    <3>3. Feeds(push)
      BY <2>2, <2>5, <3>2 DEF Feeds
    <3>4. push \in Seq(Uop) /\ Len(push) = 1 /\ Len(push) <= NDQ - Len(r_dq)
      BY <1>4, <2>1, <2>3, <3>2, Sizes
    <3> HIDE DEF push, taken
    <3> QED
      BY <1>3, <2>1, <2>5, <3>2, <3>3, <3>4 DEF Fetches
  <2>6. CASE ~IsCmov(u) /\ taken # <<u>>
    <3>1. /\ Len(offer) = 2 /\ NDQ - Len(r_dq) >= 2 /\ ~IsCmov(offer[2]) /\ taken = offer
      BY <1>7, <2>1, <2>3, <2>6 DEF Taken
    <3>2. PICK v \in Insns(Follow(u)) : offer = <<u, v>>
      BY <2>2, <3>1
    <3>3. push = <<u, v>> /\ taken = <<u, v>> /\ ~IsCmov(v)
      BY <2>3, <2>6, <3>1, <3>2 DEF Pushed
    <3>4. v \in Uop
      BY <2>3, Increments, Instructions
    <3>5. push \in Seq(Uop) /\ Len(push) = 2
      BY <2>3, <3>3, <3>4
    <3>6. Feeds(push)
      BY <2>2, <2>6, <3>3 DEF Feeds
    <3> HIDE DEF push, taken
    <3> QED
      BY <1>3, <2>1, <3>1, <3>3, <3>5, <3>6 DEF Fetches
  <2> QED
    BY <2>4, <2>5, <2>6
<1> QED
  BY <1>6, <1>7

(* The decode queue after an edge that does not clear it.                   *)
LEMMA QueueStep ==
  ASSUME TypeOK, NEW c, Good(c), NEW push, NEW answer, Fetches(c, push, answer),
         ~c.clr_dq, ~c.clr_rob
  PROVE  /\ r_dq' \in Seq(Uop) /\ Len(r_dq') = (Len(r_dq) - c.alloc) + Len(push)
         /\ Len(push) \in Nat
         /\ \A i \in 1 .. Len(r_dq) - c.alloc : r_dq'[i] = r_dq[i + c.alloc]
         /\ \A i \in 1 .. Len(push) : r_dq'[(Len(r_dq) - c.alloc) + i] = push[i]
<1>1. /\ r_dq \in Seq(Uop) /\ push \in Seq(Uop) /\ c.alloc \in Nat /\ c.alloc <= Len(r_dq)
      /\ r_dq' = SubSeq(r_dq, c.alloc + 1, Len(r_dq)) \o push
  <2>1. r_dq \in Seq(Uop) /\ push \in Seq(Uop)
        /\ r_dq' = SubSeq(r_dq, c.alloc + 1, Len(r_dq)) \o push
    BY DEF TypeOK, Fetches
  <2>2. c.alloc \in Nat /\ c.alloc <= Len(r_dq)
    BY DEF Good, Outputs
  <2> QED
    BY <2>1, <2>2
<1> DEFINE r == SubSeq(r_dq, c.alloc + 1, Len(r_dq))
<1>2. /\ r \in Seq(Uop) /\ Len(r) = Len(r_dq) - c.alloc
      /\ \A i \in 1 .. Len(r_dq) - c.alloc : r[i] = r_dq[i + c.alloc]
  BY <1>1, Dropped
<1>3. r_dq' = r \o push
  BY <1>1
<1> HIDE DEF r
<1>4. /\ r \o push \in Seq(Uop) /\ Len(r \o push) = Len(r) + Len(push)
      /\ Len(push) \in Nat
      /\ \A i \in 1 .. Len(r) : (r \o push)[i] = r[i]
      /\ \A i \in 1 .. Len(push) : (r \o push)[Len(r) + i] = push[i]
  <2>1. r \in Seq(Uop) /\ push \in Seq(Uop)
    BY <1>1, <1>2
  <2> QED
    BY <2>1, Joined
<1> QED
  BY <1>2, <1>3, <1>4

LEMMA QueueGrows ==
  ASSUME TypeOK, NEW c, Good(c), Edge(c), Waits(c), ~c.clr_dq, ~c.clr_rob, r_dq # <<>>
  PROVE  r_dq' # <<>> /\ r_dq'[1] = r_dq[1]
<1>1. PICK push, answer : answer \in BOOLEAN /\ Fetches(c, push, answer)
  BY FrontEndStep
<1>2. /\ r_dq' \in Seq(Uop) /\ Len(r_dq') = (Len(r_dq) - c.alloc) + Len(push)
      /\ Len(push) \in Nat
      /\ \A i \in 1 .. Len(r_dq) - c.alloc : r_dq'[i] = r_dq[i + c.alloc]
  BY <1>1, QueueStep
<1>3. c.alloc = 0 /\ Len(r_dq) \in Nat /\ Len(r_dq) # 0
  BY EmptySeq, LenProperties DEF TypeOK, Waits
<1>4. Len(r_dq') # 0 /\ r_dq'[1] = r_dq[1]
  <2>1. 1 \in 1 .. Len(r_dq) - c.alloc /\ 1 + c.alloc = 1
    BY <1>3
  <2> QED
    BY <1>2, <1>3, <2>1
<1> QED
  BY <1>2, <1>4, EmptySeq

-----------------------------------------------------------------------------
(* What executes is counted, after an edge.                                 *)
LEMMA CountedStep ==
  ASSUME IInv, NEW c, Good(c), Edge(c), Controls(c)
  PROVE  Counted'
<1>1. TypeOK /\ NoLateCompletion /\ Counted /\ DataOnce /\ Execute(c) /\ Buffer(c)
  BY DEF IInv, Edge
<1>2. /\ \A s \in Slots : unit'[s] \notin Gone => s \in r_rob_inflight'
      /\ \A s \in Slots : unit'[s] = "mul" => s \notin r_uq_wait'
  BY <1>1, ExecuteStep
<1>3. /\ r_ds_done' => r_state' \in Stopping
      /\ r_state' = "RAT" => c.alloc = 0 /\ (r_state = "RAT" \/ Drained)
  BY DEF Controls, Allocating
<1>4. ASSUME r_state' = "RAT"
      PROVE  wrq' = 0 /\ \A s \in Slots : unit'[s] = "idle"
  <2>1. wrq = 0 /\ \A s \in Slots : unit[s] = "idle"
    <3>1. CASE r_state = "RAT"
      BY <1>1, <3>1 DEF Counted
    <3>2. CASE Drained
      BY <1>1, <3>2 DEF Counted, Drained, memq_empty, At
    <3> QED
      BY <1>3, <1>4, <3>1, <3>2
  <2>2. \A s \in Slots : unit[s] = "mem" => KindAt(s) \notin AckedEarly
    BY <2>1
  <2> QED
    BY <1>1, <1>3, <1>4, <2>1, <2>2, UnitsKeep
<1> QED
  BY <1>2, <1>3, <1>4 DEF Counted, Gone

(* Where a serializing uop in the buffer comes from.                        *)
LEMMA SerializingOrigin ==
  ASSUME IInv, NEW c, Good(c), Edge(c), Controls(c),
         NEW s \in Live', KindAt(s)' \in Serializing
  PROVE  /\ ~c.clr_rob /\ c.heads = 0
         /\ \/ /\ s \in Live /\ KindAt(s) \in Serializing /\ c.alloc = 0 /\ Occupancy = 1
            \/ /\ r_state \in Before /\ r_state' \in Alone
               /\ c.alloc = 1 /\ wrq = 0 /\ Occupancy = 0
<1>1. TypeOK /\ Buffer(c) /\ Allocating(c) /\ Serial /\ SerializingAlone
  BY DEF IInv, Edge, Controls
<1>2. ~c.clr_rob
  <2> SUFFICES ASSUME c.clr_rob PROVE FALSE
    OBVIOUS
  <2>1. r_rob_head_ptr' = 0 /\ r_rob_tail_ptr' = 0
    BY <1>1 DEF Buffer
  <2>2. Occupancy' = 0
    BY <2>1, Sizes DEF Occupancy
  <2>3. Live' = {}
    BY <2>2 DEF Live
  <2> QED
    BY <2>3
<1>3. c.heads \in 0 .. 2 /\ c.alloc \in 0 .. 2
  BY DEF Good, Outputs
<1>4. /\ Live' = (Live \ Retired(c)) \cup NewSlots(c)
      /\ NewSlots(c) \subseteq Slots \ Live
      /\ \A k \in 1 .. c.alloc : NewUop(c, Slot(Adv(r_rob_tail_ptr, k - 1))) = r_dq[k]
  BY <1>1, <1>2, Shift
<1>5. CASE s \in NewSlots(c)
  <2>1. PICK k \in 1 .. c.alloc : s = Slot(Adv(r_rob_tail_ptr, k - 1))
    BY <1>5 DEF NewSlots
  <2>2. r_rob'[s] = r_dq[k]
    BY <1>1, <1>4, <1>5, <2>1 DEF Buffer
  <2>3. r_dq[k].kind \in Serializing
    BY <2>2 DEF KindAt
  <2>4. c.alloc > 0
    BY <1>3
  <2>5. r_state \in Before /\ r_state' \in Alone /\ c.alloc = 1 /\ c.heads = 0 /\ wrq = 0
    BY <1>1, <2>3, <2>4 DEF Allocating
  <2> QED
    BY <1>1, <1>2, <2>5 DEF Serial
<1>6. CASE s \in Live \ Retired(c)
  <2>1. KindAt(s) \in Serializing
    BY <1>1, <1>2, <1>6, OldUops
  <2>2. Occupancy = 1
    BY <1>1, <1>6, <2>1 DEF SerializingAlone
  <2>3. s = Nth(0)
    <3>1. \A k \in 0 .. 1 - 1 : k = 0
      OBVIOUS
    <3> QED
      BY <1>1, <1>6, <2>2, <3>1, Pointers
  <2>4. c.heads = 0
    <3> SUFFICES ASSUME c.heads # 0 PROVE FALSE
      OBVIOUS
    <3>1. 0 \in 0 .. c.heads - 1
      BY <1>3
    <3> QED
      BY <1>6, <2>3, <3>1 DEF Retired
  <2>5. c.alloc = 0
    <3> SUFFICES ASSUME c.alloc > 0 PROVE FALSE
      BY <1>3
    <3>1. r_state = "ACTIVE" \/ r_state \in Before
      BY <1>1 DEF Allocating
    <3>2. r_state # "ACTIVE"
      <4> SUFFICES ASSUME r_state = "ACTIVE" PROVE FALSE
        OBVIOUS
      <4>1. HeadComplete(0)
        BY <1>1, <1>6, <2>1 DEF Serial, Alone
      <4>2. t_can_retire_rob_head
        BY <2>2, <4>1 DEF t_can_retire_rob_head
      <4> QED
        BY <1>1, <2>4, <4>2 DEF Allocating
    <3> QED
      BY <1>1, <2>2, <3>1, <3>2 DEF Serial
  <2> QED
    BY <1>2, <1>6, <2>1, <2>2, <2>4, <2>5
<1> QED
  BY <1>4, <1>5, <1>6

(* A complete head stays complete while it waits.                           *)
LEMMA StaysComplete ==
  ASSUME TypeOK, NoLateCompletion, Counted, NEW c, Good(c), Execute(c), Buffer(c),
         Waits(c), ~c.clr_rob, HeadComplete(0)
  PROVE  HeadComplete(0)'
<1>1. NewSlots(c) = {} /\ r_rob_head_ptr' = r_rob_head_ptr
  BY Stay
<1>2. r_rob_complete \subseteq r_rob_complete' /\ r_rob_sd_complete \subseteq r_rob_sd_complete'
  BY <1>1, UnitsKeep
<1> QED
  BY <1>1, <1>2 DEF HeadComplete

LEMMA SerialStep ==
  ASSUME IInv, NEW c, Good(c), Edge(c), Controls(c)
  PROVE  Serial' /\ SerializingAlone'
<1>1. /\ TypeOK /\ NoLateCompletion /\ Counted /\ DataOnce /\ Serial /\ SerializingAlone
      /\ Execute(c) /\ Buffer(c) /\ Serializes(c) /\ Recovers(c) /\ Allocating(c)
  BY DEF IInv, Edge, Controls
<1>2. c.clr_rob <=> r_state = "RAT"
  BY DEF Good
<1>3. ASSUME wrq = 0, r_state \in Before \/ (\E s \in Live : KindAt(s) \in Serializing)
      PROVE  wrq' = 0
  <2>1. \A s \in Slots : unit[s] = "mem" => KindAt(s) \notin AckedEarly
    <3> SUFFICES ASSUME NEW s \in Slots, unit[s] = "mem", KindAt(s) \in AckedEarly
                 PROVE  FALSE
      OBVIOUS
    <3>1. s \in Live
      BY <1>1 DEF NoLateCompletion
    <3>2. CASE r_state \in Before
      <4>1. Occupancy = 0
        BY <1>1, <3>2 DEF Serial
      <4> QED
        BY <1>1, <3>1, <4>1, Pointers
    <3>3. CASE \E t \in Live : KindAt(t) \in Serializing
      <4>1. Occupancy = 1
        BY <1>1, <3>3 DEF SerializingAlone
      <4>2. Live = {Nth(0)}
        <5>1. \A k : k \in 0 .. 1 - 1 <=> k = 0
          OBVIOUS
        <5> QED
          BY <1>1, <4>1, <5>1, Pointers
      <4>3. KindAt(s) \in Serializing
        BY <3>1, <3>3, <4>2
      <4> QED
        BY <4>3 DEF AckedEarly, Serializing, FlushFirst
    <3> QED
      BY <1>3, <3>2, <3>3
  <2> QED
    BY <1>1, <1>3, <2>1, UnitsKeep
<1>4. ASSUME r_state' \in Before
      PROVE  Occupancy' = 0 /\ r_dq' # <<>> /\ r_dq'[1].kind \in Serializing
  <2>1. /\ Waits(c) /\ ~c.clr_dq /\ ~c.clr_rob /\ Occupancy = 0
        /\ r_dq # <<>> /\ r_dq[1].kind \in Serializing
    BY <1>1, <1>4 DEF Serializes
  <2>2. Occupancy' = 0
    BY <1>1, <2>1, Stay
  <2>3. r_dq' # <<>> /\ r_dq'[1] = r_dq[1]
    BY <1>1, <2>1, QueueGrows
  <2> QED
    BY <2>1, <2>2, <2>3
<1>5. ASSUME r_state' = "FLUSH_CACHE", "l1d" \notin flushing'
      PROVE  wrq' = 0
  <2>1. PICK flushed \in FlushAnswers :
          flushing' = IF c.flush THEN Caches ELSE flushing \ flushed
    BY DEF Edge
  <2>2. ~c.flush
    BY <1>5, <2>1 DEF Caches
  <2>3. r_state = "FLUSH_CACHE"
    BY <1>1, <1>5, <2>2 DEF Serializes
  <2>4. "l1d" \notin flushing \/ memq_empty
    BY <1>5, <2>1, <2>2 DEF FlushAnswers
  <2>5. wrq = 0
    BY <1>1, <2>3, <2>4 DEF Serial, memq_empty
  <2> QED
    BY <1>3, <2>3, <2>5 DEF Before
<1>6. ASSUME r_state' \in {"HANDLE_MONITOR", "ALLOC_FOR_MONITOR"}
      PROVE  wrq' = 0
  <2>1. CASE r_state = "FLUSH_CACHE" /\ ~c.flush /\ flushing' = {}
    <3>1. PICK flushed \in FlushAnswers : flushing' = flushing \ flushed
      BY <2>1 DEF Edge
    <3>2. "l1d" \notin flushing \/ memq_empty
      BY <2>1, <3>1 DEF FlushAnswers
    <3>3. wrq = 0
      BY <1>1, <2>1, <3>2 DEF Serial, memq_empty
    <3> QED
      BY <1>3, <2>1, <3>3 DEF Before
  <2>2. CASE r_state = "HANDLE_MONITOR"
    <3>1. wrq = 0
      BY <1>1, <2>2 DEF Serial
    <3> QED
      BY <1>3, <2>2, <3>1 DEF Before
  <2> QED
    BY <1>1, <1>6, <2>1, <2>2 DEF Serializes
<1>7. ASSUME r_state' \in Alone \cup After
      PROVE  Occupancy' = 1 /\ RobHead'.kind \in Serializing
  <2>1. CASE r_state \in Before /\ c.alloc = 1 /\ c.heads = 0
    <3>1. Occupancy = 0 /\ r_dq[1].kind \in Serializing /\ ~c.clr_rob
      BY <1>1, <1>2, <2>1 DEF Serial, Before
    <3> QED
      BY <1>1, <2>1, <3>1, NewHead
  <2>2. CASE r_state \in Alone \cup After /\ Waits(c)
    <3>1. Occupancy = 1 /\ RobHead.kind \in Serializing /\ ~c.clr_rob
      BY <1>1, <1>2, <2>2 DEF Serial, Alone, After
    <3> QED
      BY <1>1, <2>2, <3>1, Stay
  <2> QED
    BY <1>1, <1>7, <2>1, <2>2 DEF Serializes
<1>8. ASSUME r_state' \in After \cup {"ARCH_FAULT"}
      PROVE  Occupancy' > 0 /\ HeadComplete(0)'
  <2>1. Waits(c) /\ HeadComplete(0) /\ Occupancy > 0 /\ ~c.clr_rob
    <3>1. CASE r_state' \in After
      BY <1>1, <1>2, <3>1 DEF Serializes, Serial, Alone, After
    <3>2. CASE r_state' = "ARCH_FAULT"
      BY <1>1, <1>2, <3>2 DEF Recovers, t_can_retire_rob_head
    <3> QED
      BY <1>8, <3>1, <3>2
  <2>2. Occupancy' = Occupancy
    BY <1>1, <2>1, Stay
  <2>3. HeadComplete(0)'
    BY <1>1, <2>1, StaysComplete
  <2> QED
    BY <2>1, <2>2, <2>3
<1>9. ASSUME r_state' \notin Alone, NEW s \in Live', KindAt(s)' \in Serializing
      PROVE  HeadComplete(0)'
  <2>1. /\ ~c.clr_rob /\ Waits(c) /\ s \in Live /\ KindAt(s) \in Serializing
    BY <1>9, SerializingOrigin DEF Waits
  <2>2. HeadComplete(0)
    <3>1. CASE r_state \in Alone
      BY <1>1, <1>9, <3>1 DEF Allocating
    <3>2. CASE r_state \notin Alone
      BY <1>1, <2>1, <3>2 DEF Serial
    <3> QED
      BY <3>1, <3>2
  <2> QED
    BY <1>1, <2>1, <2>2, StaysComplete
<1>10. Serial'
  BY <1>4, <1>5, <1>6, <1>7, <1>8, <1>9 DEF Serial
<1>11. ASSUME NEW s \in Live', KindAt(s)' \in Serializing
       PROVE  Occupancy' = 1 /\ wrq' = 0 /\ \A t \in Slots \ Live' : unit'[t] = "idle"
  <2>1. NoLateCompletion'
    BY <1>1, ExecuteStep
  <2>2. \A t \in Slots \ Live' : unit'[t] = "idle"
    BY <2>1 DEF NoLateCompletion
  <2>3. CASE s \in Live /\ KindAt(s) \in Serializing /\ Waits(c) /\ ~c.clr_rob
    <3>1. Occupancy = 1 /\ wrq = 0
      BY <1>1, <2>3 DEF SerializingAlone
    <3>2. Occupancy' = 1
      BY <1>1, <2>3, <3>1, Stay
    <3> QED
      BY <1>3, <2>2, <2>3, <3>1, <3>2
  <2>4. CASE /\ r_state \in Before /\ c.alloc = 1 /\ c.heads = 0
             /\ wrq = 0 /\ Occupancy = 0 /\ ~c.clr_rob
    <3>1. Occupancy' = 1
      BY <1>1, <2>4, NewHead
    <3> QED
      BY <1>3, <2>2, <2>4, <3>1
  <2> QED
    BY <1>11, <2>3, <2>4, SerializingOrigin DEF Waits
<1>12. SerializingAlone'
  BY <1>11 DEF SerializingAlone
<1> QED
  BY <1>10, <1>12

-----------------------------------------------------------------------------
(* Types, and the halves of conditional moves, after an edge.                *)
LEMMA ArchitecturalStep ==
  ASSUME TypeOK, NEW c, Good(c), Architectural(c)
  PROVE  /\ arch_pos' \in Positions
         /\ c.heads = 0 => arch_pos' = arch_pos
         /\ c.heads = 1 => arch_pos' = Done(arch_pos, RobHead)
         /\ c.heads = 2 => arch_pos' = Done(Done(arch_pos, RobHead), Entry(1))
<1>1. c.heads \in 0 .. 2 /\ arch_pos \in Positions
  BY DEF Good, Outputs, TypeOK
<1>3. /\ c.heads = 0 => arch_pos' = arch_pos
      /\ c.heads = 1 => arch_pos' = Done(arch_pos, RobHead)
      /\ c.heads = 2 => arch_pos' = Done(Done(arch_pos, RobHead), Entry(1))
  BY <1>1 DEF Architectural, RobHead
<1>4. \A p \in Positions : \A u : Done(p, u) \in Positions
  BY Increments DEF Done
<1>5. c.heads = 0 \/ c.heads = 1 \/ c.heads = 2
  BY <1>1
<1> QED
  BY <1>1, <1>3, <1>4, <1>5

LEMMA BufferStep ==
  ASSUME TypeOK, NEW c, Good(c), Buffer(c)
  PROVE  /\ r_rob' \in [Slots -> Uop]
         /\ \A s \in Slots : \/ r_rob'[s] = r_rob[s]
                             \/ \E k \in 1 .. Len(r_dq) : r_rob'[s] = r_dq[k]
         /\ r_rob_head_ptr' \in Ptrs /\ r_rob_tail_ptr' \in Ptrs
         /\ Occupancy' \in 0 .. NROB
         /\ c.clr_rob => Occupancy' = 0
<1>1. /\ c.alloc \in 0 .. 2 /\ c.heads \in 0 .. 2 /\ c.alloc <= Len(r_dq)
      /\ c.heads <= Occupancy /\ Occupancy + c.alloc <= NROB /\ (c.clr_rob => c.alloc = 0)
  BY DEF Good, Outputs
<1>2. Len(r_dq) \in Nat /\ Occupancy \in Nat /\ NROB \in Nat /\ NROB >= 2
      /\ \A k \in 1 .. Len(r_dq) : r_dq[k] \in Uop
      /\ \A s \in Slots : r_rob[s] \in Uop
  BY Sizes, Pointers, ElementOfSeq DEF TypeOK
<1>3. ASSUME NEW s \in NewSlots(c)
      PROVE  \E k \in 1 .. Len(r_dq) : NewUop(c, s) = r_dq[k]
  <2>1. PICK k \in 1 .. c.alloc : s = Slot(Adv(r_rob_tail_ptr, k - 1))
    BY <1>3 DEF NewSlots
  <2>2. ~c.clr_rob /\ k \in 1 .. Len(r_dq)
    BY <1>1, <1>2
  <2> QED
    BY <2>1, <2>2, Shift
<1>4. \A s \in Slots : \/ r_rob'[s] = r_rob[s]
                       \/ \E k \in 1 .. Len(r_dq) : r_rob'[s] = r_dq[k]
  BY <1>3 DEF Buffer
<1>5. r_rob' \in [Slots -> Uop]
  <2>1. ASSUME NEW s \in Slots
        PROVE  r_rob'[s] \in Uop
    <3>1. CASE r_rob'[s] = r_rob[s]
      <4>1. r_rob[s] \in Uop
        BY DEF TypeOK
      <4> QED
        BY <3>1, <4>1
    <3>2. CASE \E k \in 1 .. Len(r_dq) : r_rob'[s] = r_dq[k]
      BY <1>2, <3>2
    <3> QED
      BY <1>4, <3>1, <3>2
  <2>2. r_rob' = [s \in Slots |-> r_rob'[s]]
    BY DEF Buffer
  <2> QED
    BY <2>1, <2>2
<1>6. CASE c.clr_rob
  <2>1. r_rob_head_ptr' = 0 /\ r_rob_tail_ptr' = 0
    BY <1>6 DEF Buffer
  <2>2. Occupancy' = 0 /\ 0 \in Ptrs
    BY <2>1, Sizes DEF Occupancy, Ptrs
  <2> QED
    BY <1>2, <1>4, <1>5, <2>1, <2>2
<1>7. CASE ~c.clr_rob
  <2>1. /\ r_rob_head_ptr' \in Ptrs /\ r_rob_tail_ptr' \in Ptrs
        /\ Occupancy' = (Occupancy - c.heads) + c.alloc
    BY <1>7, Shift
  <2>2. Occupancy' \in 0 .. NROB
    BY <1>1, <1>2, <2>1
  <2> QED
    BY <1>4, <1>5, <1>7, <2>1, <2>2
<1> QED
  BY <1>6, <1>7

LEMMA PushTypes ==
  ASSUME TypeOK, NEW push, Feeds(push)
  PROVE  /\ Len(push) \in {1, 2} /\ push # <<>>
         /\ \A k \in 1 .. Len(push) : Halves(push[k])
         /\ push[1].pos = fe_pos /\ push[1].half # "hi"
         /\ push[Len(push)].half # "lo" /\ push[Len(push)] \in Uop
         /\ Len(push) = 2 =>
              IF push[1].half = "lo" THEN push[2] = [push[1] EXCEPT !.half = "hi"]
              ELSE push[2].half # "hi" /\ push[2].pos = Follow(push[1])
<1>1. fe_pos \in Positions \cup {OFF}
  BY DEF TypeOK
<1>2. PICK u \in Insns(fe_pos) :
        \/ ~IsCmov(u) /\ push = <<u>>
        \/ IsCmov(u) /\ push = Crack(u)
        \/ ~IsCmov(u) /\ \E v \in Insns(Follow(u)) : ~IsCmov(v) /\ push = <<u, v>>
  BY DEF Feeds
<1>3. u \in Uop /\ u.pos = fe_pos /\ u.half = "whole"
  BY <1>1, Instructions
<1>4. CASE push = <<u>>
  BY <1>3, <1>4 DEF Halves
<1>5. CASE IsCmov(u) /\ push = Crack(u)
  <2> DEFINE lo == [u EXCEPT !.half = "lo"]
             hi == [u EXCEPT !.half = "hi"]
  <2>1. /\ lo \in Uop /\ hi \in Uop /\ lo.pos = fe_pos /\ lo.half = "lo" /\ hi.half = "hi"
        /\ lo.kind = "cmov" /\ hi.kind = "cmov" /\ hi = [lo EXCEPT !.half = "hi"]
    BY <1>3, <1>5 DEF Uop, IsCmov
  <2>2. push = <<lo, hi>>
    BY <1>5 DEF Crack
  <2> HIDE DEF lo, hi
  <2>3. Len(push) = 2 /\ push[1] = lo /\ push[2] = hi /\ push # <<>>
    BY <2>2
  <2>4. \A k \in 1 .. Len(push) : push[k] = lo \/ push[k] = hi
    BY <2>3
  <2>5. \A k \in 1 .. Len(push) : Halves(push[k])
    BY <2>1, <2>4 DEF Halves
  <2> QED
    BY <2>1, <2>3, <2>5
<1>6. CASE \E v \in Insns(Follow(u)) : push = <<u, v>>
  <2>1. PICK v \in Insns(Follow(u)) : push = <<u, v>>
    BY <1>6
  <2>2. v.pos = Follow(u) /\ v.half = "whole" /\ v \in Uop
    BY <1>3, Increments, Instructions
  <2> QED
    BY <1>3, <2>1, <2>2 DEF Halves
<1> QED
  BY <1>2, <1>4, <1>5, <1>6

LEMMA WholeStep ==
  ASSUME TypeOK, Whole, NEW c, Good(c), Edge(c)
  PROVE  Whole'
<1>1. Buffer(c)
  BY DEF Edge
<1>2. PICK push, answer : answer \in BOOLEAN /\ Fetches(c, push, answer)
  BY FrontEndStep
<1>3. /\ DOMAIN r_dq = 1 .. Len(r_dq) /\ Len(r_dq) \in Nat
      /\ \A k \in 1 .. Len(r_dq) : Halves(r_dq[k])
      /\ \A s \in Slots : Halves(r_rob[s])
  BY LenProperties DEF TypeOK, Whole
<1>4. \A s \in Slots : Halves(r_rob'[s])
  BY <1>1, <1>3, BufferStep
<1>5. \A k \in DOMAIN r_dq' : Halves(r_dq'[k])
  <2>1. CASE c.clr_dq \/ c.clr_rob
    <3>1. r_dq' = <<>>
      BY <1>2, <2>1 DEF Fetches
    <3> QED
      BY <3>1
  <2>2. CASE ~c.clr_dq /\ ~c.clr_rob
    <3>1. /\ r_dq' \in Seq(Uop) /\ Len(r_dq') = (Len(r_dq) - c.alloc) + Len(push)
          /\ Len(push) \in Nat
          /\ \A i \in 1 .. Len(r_dq) - c.alloc : r_dq'[i] = r_dq[i + c.alloc]
          /\ \A i \in 1 .. Len(push) : r_dq'[(Len(r_dq) - c.alloc) + i] = push[i]
      BY <1>2, <2>2, QueueStep
    <3>2. DOMAIN r_dq' = 1 .. Len(r_dq')
      BY <3>1, LenProperties
    <3>3. \A k \in 1 .. Len(push) : Halves(push[k])
      <4>1. CASE push = <<>>
        <5>1. \A k \in 1 .. Len(push) : FALSE
          BY <4>1
        <5> QED
          BY <5>1
      <4>2. CASE Feeds(push)
        BY <4>2, PushTypes
      <4> QED
        BY <1>2, <4>1, <4>2 DEF Fetches
    <3>4. c.alloc \in 0 .. 2 /\ c.alloc <= Len(r_dq)
      BY DEF Good, Outputs
    <3> SUFFICES ASSUME NEW k \in 1 .. Len(r_dq') PROVE Halves(r_dq'[k])
      BY <3>2
    <3>5. CASE k <= Len(r_dq) - c.alloc
      <4>1. k \in 1 .. Len(r_dq) - c.alloc /\ k + c.alloc \in 1 .. Len(r_dq)
        BY <1>3, <3>4, <3>5
      <4> QED
        BY <1>3, <3>1, <4>1
    <3>6. CASE ~(k <= Len(r_dq) - c.alloc)
      <4>0. PICK m \in Int, p \in Nat : m = Len(r_dq) - c.alloc /\ p = Len(push)
        BY <1>3, <3>1, <3>4
      <4>1. k \in Int /\ k <= m + p /\ k > m
        BY <3>1, <3>6, <4>0
      <4>2. k - m \in 1 .. p /\ m + (k - m) = k
        BY <4>0, <4>1
      <4> QED
        BY <3>1, <3>3, <4>0, <4>2
    <3> QED
      BY <3>5, <3>6
  <2> QED
    BY <2>1, <2>2
<1> QED
  BY <1>4, <1>5 DEF Whole, Halves

LEMMA TypeStep ==
  ASSUME IInv, NEW c, Good(c), Edge(c), Controls(c)
  PROVE  TypeOK'
<1>1. /\ TypeOK /\ NoLateCompletion /\ Counted /\ DataOnce
      /\ Execute(c) /\ Buffer(c) /\ Architectural(c) /\ Interrupts /\ prog' = prog
  BY DEF IInv, Edge
<1>2. PICK push, answer : answer \in BOOLEAN /\ Fetches(c, push, answer)
  BY <1>1, FrontEndStep
<1>3. /\ r_state' \in States /\ r_ds_done' \in BOOLEAN
      /\ stopped' \in BOOLEAN /\ r_irq' \in BOOLEAN /\ r_epc' \in Positions
      /\ r_restart_pc' \in Positions \cup {OFF}
      /\ r_got_restart_ack' \in BOOLEAN
  BY DEF Controls, Registers, Restarting
<1>4. fe_on' \in BOOLEAN /\ restart_ack' \in BOOLEAN /\ fe_req' \in BOOLEAN
  BY <1>2 DEF Fetches
<1>5. fe_pos' \in Positions \cup {OFF}
  <2>1. /\ fe_pos \in Positions \cup {OFF} /\ r_restart_pc \in Positions \cup {OFF}
    BY <1>1 DEF TypeOK
  <2>2. push # <<>> => Follow(push[Len(push)]) \in Positions \cup {OFF}
    BY <1>1, <1>2, PushTypes, Increments DEF Fetches
  <2> QED
    BY <1>2, <2>1, <2>2 DEF Fetches
<1>6. r_dq' \in Seq(Uop) /\ Len(r_dq') <= NDQ
  <2>0. Len(r_dq) \in 0 .. NDQ /\ NDQ \in Nat
    BY <1>1, Pointers, Sizes
  <2>1. CASE c.clr_dq \/ c.clr_rob
    <3>1. r_dq' = <<>>
      BY <1>2, <2>1 DEF Fetches
    <3> QED
      BY <2>0, <3>1
  <2>2. CASE ~c.clr_dq /\ ~c.clr_rob
    <3>1. /\ r_dq' \in Seq(Uop) /\ Len(r_dq') = (Len(r_dq) - c.alloc) + Len(push)
          /\ Len(push) \in Nat
      BY <1>1, <1>2, <2>2, QueueStep
    <3>2. c.alloc \in 0 .. 2 /\ Len(push) <= NDQ - Len(r_dq)
      BY <1>2 DEF Good, Outputs, Fetches
    <3> QED
      BY <2>0, <3>1, <3>2
  <2> QED
    BY <2>1, <2>2
<1>7. /\ r_rob' \in [Slots -> Uop] /\ r_rob_head_ptr' \in Ptrs /\ r_rob_tail_ptr' \in Ptrs
      /\ Occupancy' \in 0 .. NROB
  BY <1>1, BufferStep
<1>8. /\ unit' \in [Slots -> Where] /\ wrq' \in 0 .. NMRQ
      /\ r_uq_wait' \subseteq Slots /\ r_rob_inflight' \subseteq Slots
      /\ r_rob_complete' \subseteq Slots /\ r_rob_sd_complete' \subseteq Slots
      /\ DataOnce'
  BY <1>1, ExecuteStep
<1>9. SeqRange(mem_dq') \subseteq Slots
  BY <1>8, RangeOf DEF DataOnce
<1>10. flushing' \subseteq Caches
  BY <1>1 DEF Edge, TypeOK
<1>11. irqs' \in 0 .. prog'.MAXIRQ /\ irq_line' \in BOOLEAN
  <2>1. irqs \in 0 .. prog.MAXIRQ /\ irq_line \in BOOLEAN /\ prog.MAXIRQ \in Nat
    BY <1>1, Sizes DEF TypeOK, Program
  <2>2. \/ irq_line' = FALSE /\ irqs' = irqs
        \/ irq_line' = irq_line /\ irqs' = irqs
        \/ irqs < prog.MAXIRQ /\ irq_line' = TRUE /\ irqs' = irqs + 1
    BY <1>1 DEF Interrupts
  <2> DEFINE m == prog.MAXIRQ
  <2>3. prog'.MAXIRQ = m /\ m \in Nat /\ irqs \in 0 .. m
    BY <1>1, <2>1
  <2>4. irqs < m \/ irqs' = irqs
    BY <2>2
  <2> HIDE DEF m
  <2>5. irqs' \in 0 .. m
    BY <2>2, <2>3, <2>4
  <2> QED
    BY <2>1, <2>2, <2>3, <2>5
<1>12. r_pending_fault' \in BOOLEAN
  <2>1. r_pending_fault \in BOOLEAN
    BY <1>1 DEF TypeOK
  <2>2. \E b \in BOOLEAN : r_pending_fault' = b
    <3>1. PICK p1 \in AtMostOne({s \in At("queued") : KindAt(s) \in OnePort \cup TwoPorts}),
         p2 \in AtMostOne({s \in At("queued") : KindAt(s) \in TwoPorts}),
         pm \in AtMostOne({s \in At("queued") : KindAt(s) \in Mem}),
         mul \in AtMostOne(At("mul")),
         rsp \in AtMostOne({s \in At("mem") : MayAnswer(s)}),
         sd \in {{}} \cup (IF mem_dq = <<>> THEN {} ELSE {{Head(mem_dq)}}),
         written \in BOOLEAN : Execute(c)!(p1, p2, pm, mul, rsp, sd, written)
      BY <1>1 DEF Execute
    <3> DEFINE mulop == {s \in At("start1") : KindAt(s) = "mul"}
               done  == (At("start1") \ mulop) \cup At("start2") \cup mul \cup rsp
               f     == \E s \in done \ rsp : KindAt(s) \in Faulted
    <3>2. r_pending_fault' = IF c.calm THEN FALSE ELSE r_pending_fault \/ f
      BY <3>1
    <3>3. f \in BOOLEAN
      OBVIOUS
    <3> HIDE DEF f
    <3> QED
      BY <2>1, <3>2, <3>3
  <2> QED
    BY <2>2
<1>13. arch_pos' \in Positions /\ prog' \in Programs
  BY <1>1, ArchitecturalStep DEF TypeOK
<1> QED
  BY <1>3, <1>4, <1>5, <1>6, <1>7, <1>8, <1>9, <1>10, <1>11, <1>12, <1>13 DEF TypeOK, SeqRange

-----------------------------------------------------------------------------
(* Program order after an edge in ACTIVE.                                   *)
Linked(u, v) ==
  IF u.half = "lo" THEN v = [u EXCEPT !.half = "hi"]
  ELSE v.half # "hi" /\ Succeeds(v.pos, u)

PipelineIs ==
  /\ Pipeline \in Seq(Uop) /\ Len(Pipeline) = Occupancy + Len(r_dq)
  /\ \A k \in 1 .. Occupancy : Pipeline[k] = r_rob[Nth(k - 1)]
  /\ \A k \in 1 .. Len(r_dq) : Pipeline[Occupancy + k] = r_dq[k]

LEMMA PipelineShape == TypeOK => PipelineIs
  BY PipelineProperties DEF PipelineIs

LEMMA NextPipelineShape == TypeOK' => PipelineIs'
  BY PipelineShape, PTL

(* The pipeline loses what retires and gains what is pushed.                *)
LEMMA PipelineStep ==
  ASSUME TypeOK, TypeOK', NEW c, Good(c), Buffer(c), NEW push, NEW answer,
         Fetches(c, push, answer), ~c.clr_dq, ~c.clr_rob
  PROVE  LET n == Len(Pipeline) - c.heads IN
         /\ n \in Nat /\ Len(push) \in Nat /\ Len(Pipeline') = n + Len(push)
         /\ \A i \in 1 .. n : Pipeline'[i] = Pipeline[i + c.heads]
         /\ \A i \in 1 .. Len(push) : Pipeline'[n + i] = push[i]
<1> DEFINE h == c.heads
           a == c.alloc
           d == Len(r_dq)
           o == Occupancy
<1>1. /\ h \in 0 .. 2 /\ a \in 0 .. 2 /\ h <= o /\ a <= d /\ o + a <= NROB
  BY DEF Good, Outputs
<1>2. /\ Len(Pipeline) = o + d /\ d \in Nat /\ o \in Nat /\ NROB \in Nat
      /\ \A k \in 1 .. o : Pipeline[k] = r_rob[Nth(k - 1)]
      /\ \A k \in 1 .. d : Pipeline[o + k] = r_dq[k]
  BY PipelineProperties, Sizes
<1>3. /\ Len(Pipeline') = o' + d'
      /\ \A k \in 1 .. o' : Pipeline'[k] = r_rob'[Nth(k - 1)']
      /\ \A k \in 1 .. d' : Pipeline'[o' + k] = r_dq'[k]
  BY NextPipelineShape DEF PipelineIs
<1>4. /\ o' = (o - h) + a
      /\ \A k \in 0 .. NROB - h : Nth(k)' = Nth(k + h)
      /\ \A k \in 1 .. a : /\ Slot(Adv(r_rob_tail_ptr, k - 1)) = Nth(o + (k - 1))
                           /\ NewUop(c, Slot(Adv(r_rob_tail_ptr, k - 1))) = r_dq[k]
      /\ NewSlots(c) \subseteq Slots
  BY Shift
<1>5. /\ Len(r_dq') = (d - a) + Len(push) /\ Len(push) \in Nat
      /\ \A i \in 1 .. d - a : r_dq'[i] = r_dq[i + a]
      /\ \A i \in 1 .. Len(push) : r_dq'[(d - a) + i] = push[i]
  BY QueueStep
<1> HIDE DEF h, a, d, o
<1>6. \A k \in 1 .. a : Nth(o + (k - 1)) \in NewSlots(c) /\ NewUop(c, Nth(o + (k - 1))) = r_dq[k]
  BY <1>4 DEF NewSlots, a
<1>7. \A k \in 1 .. a : r_rob'[Nth(o + (k - 1))] = r_dq[k]
  BY <1>4, <1>6 DEF Buffer
<1>8. \A k \in 0 .. o - 1 : r_rob'[Nth(k)] = r_rob[Nth(k)]
  BY OldUops, Pointers DEF o
<1> DEFINE n == Len(Pipeline) - h
<1>9. n = (o - h) + d /\ n \in Nat /\ Len(Pipeline') = n + Len(push)
  BY <1>1, <1>2, <1>3, <1>4, <1>5 DEF o, d
<1>0. /\ h \in Nat /\ a \in Nat /\ o \in Nat /\ d \in Nat /\ n \in Nat
      /\ a <= d /\ h <= o /\ o' = (o - h) + a
  BY <1>1, <1>2, <1>4, <1>9
<1>10. ASSUME NEW i \in 1 .. n
       PROVE  Pipeline'[i] = Pipeline[i + h]
  <2>0. i \in Nat
    BY <1>0
  <2>1. CASE i <= o'
    <3>0. NROB \in Nat /\ o + a <= NROB
      BY <1>1, <1>2
    <3>1. i \in 1 .. o' /\ i - 1 \in 0 .. NROB - h
      BY <1>0, <2>0, <2>1, <3>0
    <3>2. Pipeline'[i] = r_rob'[Nth((i - 1) + h)]
      BY <1>3, <1>4, <3>1
    <3>3. CASE i + h <= o
      <4>1. (i - 1) + h \in 0 .. o - 1 /\ i + h \in 1 .. o /\ (i + h) - 1 = (i - 1) + h
        BY <1>1, <1>2, <1>9, <3>3
      <4> QED
        BY <1>2, <1>8, <3>2, <4>1
    <3>4. CASE ~(i + h <= o)
      <4>0. i \in Nat /\ h \in Nat /\ a \in Nat /\ i + h > o /\ i <= (o - h) + a
            /\ o \in Nat /\ d \in Nat /\ a <= d /\ h <= o
        BY <1>0, <2>0, <2>1, <3>4
      <4>1. /\ (i + h) - o \in 1 .. a /\ o + (((i + h) - o) - 1) = (i - 1) + h
            /\ (i + h) - o \in 1 .. d /\ o + ((i + h) - o) = i + h
        BY <4>0
      <4>2. Pipeline[i + h] = r_dq[(i + h) - o]
        BY <1>2, <4>1
      <4>3. r_rob'[Nth((i - 1) + h)] = r_dq[(i + h) - o]
        BY <1>7, <4>1
      <4> QED
        BY <3>2, <4>2, <4>3
    <3> QED
      BY <3>3, <3>4
  <2>2. CASE ~(i <= o')
    <3>1. /\ i - o' \in 1 .. d - a /\ i - o' \in 1 .. Len(r_dq') /\ o' + (i - o') = i
          /\ (i - o') + a \in 1 .. d /\ o + ((i - o') + a) = i + h
      BY <1>1, <1>2, <1>4, <1>5, <1>9, <2>2
    <3>2. Pipeline'[i] = r_dq'[i - o']
      BY <1>3, <3>1 DEF d
    <3>3. r_dq'[i - o'] = r_dq[(i - o') + a]
      BY <1>5, <3>1
    <3>4. Pipeline[i + h] = r_dq[(i - o') + a]
      BY <1>2, <3>1
    <3> QED
      BY <3>2, <3>3, <3>4
  <2> QED
    BY <2>1, <2>2
<1>11. ASSUME NEW i \in 1 .. Len(push)
       PROVE  Pipeline'[n + i] = push[i]
  <2>1. /\ o' + ((d - a) + i) = n + i /\ (d - a) + i \in 1 .. Len(r_dq')
    BY <1>1, <1>2, <1>4, <1>5, <1>9
  <2>2. Pipeline'[n + i] = r_dq'[(d - a) + i]
    BY <1>3, <2>1 DEF d
  <2> QED
    BY <1>5, <2>2
<1> QED
  BY <1>5, <1>9, <1>10, <1>11 DEF h

(* A uop that is not faulted moves the program to what comes after it.      *)
LEMMA DoneStep ==
  ASSUME NEW u, u.kind \notin Faulted
  PROVE  /\ \A v : Linked(u, v) => v.pos = Done(u.pos, u)
         /\ \A p : u.half # "lo" /\ Succeeds(p, u) => p = Done(u.pos, u)
<1>1. u.kind # "irq" /\ u.kind # "llf" /\ Follow(u) = Inc(u.pos)
  BY DEF Follow, Faulted, ArchFault
<1>2. \A p : Succeeds(p, u) => p = Inc(u.pos)
  BY <1>1 DEF Succeeds
<1>3. \A p : u.half # "lo" /\ Succeeds(p, u) => p = Done(u.pos, u)
  BY <1>1, <1>2 DEF Done
<1>4. ASSUME NEW v, Linked(u, v)
      PROVE  v.pos = Done(u.pos, u)
  <2>1. CASE u.half = "lo"
    <3>1. v = [u EXCEPT !.half = "hi"]
      BY <1>4, <2>1 DEF Linked
    <3>2. v.pos = u.pos
      BY <3>1
    <3> QED
      BY <2>1, <3>2 DEF Done
  <2>2. CASE u.half # "lo"
    BY <1>3, <1>4, <2>2 DEF Linked
  <2> QED
    BY <2>1, <2>2
<1> QED
  BY <1>3, <1>4

(* A chain that has lost its first h uops and gained what was pushed is a   *)
(* chain: the first of it, or the fetch when it is empty, is where the      *)
(* program is.                                                              *)
Chained(P) == \A k \in 1 .. Len(P) - 1 : Linked(P[k], P[k + 1])

LEMMA ChainStep ==
  ASSUME NEW P, NEW Q, NEW push, NEW h \in Nat, NEW n \in Nat, Len(push) \in Nat,
         Len(P) = n + h, Len(Q) = n + Len(push),
         \A i \in 1 .. n : Q[i] = P[i + h],
         \A i \in 1 .. Len(push) : Q[n + i] = push[i],
         Chained(P), Chained(push),
         Len(push) > 0 /\ n > 0 => Linked(P[Len(P)], push[1])
  PROVE  Chained(Q)
<1> SUFFICES ASSUME NEW k \in 1 .. (n + Len(push)) - 1
             PROVE  Linked(Q[k], Q[k + 1])
  BY DEF Chained
<1>1. CASE k < n
  <2>1. k \in 1 .. n /\ k + 1 \in 1 .. n /\ k + h \in 1 .. Len(P) - 1
        /\ (k + 1) + h = (k + h) + 1
    BY <1>1
  <2>2. Q[k] = P[k + h] /\ Q[k + 1] = P[(k + 1) + h]
    BY <2>1, Zenon
  <2> QED
    BY <2>1, <2>2 DEF Chained
<1>2. CASE k = n
  <2>1. /\ k \in 1 .. n /\ 1 \in 1 .. Len(push) /\ k + h = Len(P) /\ n > 0 /\ Len(push) > 0
        /\ k + 1 = n + 1
    BY <1>2
  <2>2. Q[k] = P[Len(P)] /\ Q[k + 1] = push[1]
    BY <2>1
  <2> QED
    BY <2>1, <2>2
<1>3. CASE k > n
  <2> DEFINE m == Len(push)
  <2>0. k \in Int /\ k <= (n + m) - 1 /\ n \in Nat /\ m \in Nat /\ k > n
    BY <1>3
  <2>1. /\ k - n \in 1 .. Len(push) - 1 /\ k - n \in 1 .. Len(push)
        /\ (k - n) + 1 \in 1 .. Len(push)
        /\ n + (k - n) = k /\ n + ((k - n) + 1) = k + 1
    <3> HIDE DEF m
    <3>1. /\ k - n \in 1 .. m - 1 /\ k - n \in 1 .. m /\ (k - n) + 1 \in 1 .. m
          /\ n + (k - n) = k /\ n + ((k - n) + 1) = k + 1
      BY <2>0
    <3> QED
      BY <3>1 DEF m
  <2>2. /\ Q[n + (k - n)] = push[k - n]
        /\ Q[n + ((k - n) + 1)] = push[(k - n) + 1]
    BY <2>1
  <2>3. Q[k] = push[k - n] /\ Q[k + 1] = push[(k - n) + 1]
    BY <2>1, <2>2
  <2> QED
    BY <2>1, <2>3 DEF Chained
<1> QED
  BY <1>1, <1>2, <1>3

(* What ProgramOrder and InOrder say of the pipeline in ACTIVE.             *)
InFlow ==
  /\ Pipeline # <<>> => /\ Pipeline[1].pos = arch_pos
                        /\ Pipeline[Len(Pipeline)].half # "lo"
  /\ Chained(Pipeline)
  /\ fe_on => IF Pipeline = <<>> THEN fe_pos = arch_pos
              ELSE Succeeds(fe_pos, Pipeline[Len(Pipeline)])

LEMMA FlowIsOrder ==
  r_state = "ACTIVE" => ((InFlow => ProgramOrder) /\ (ProgramOrder /\ InOrder => InFlow))
  BY DEF InFlow, ProgramOrder, InOrder, Chained, Linked

LEMMA FlowStep ==
  ASSUME IInv, TypeOK', NEW c, Good(c), Edge(c), Controls(c),
         r_state = "ACTIVE", r_state' = "ACTIVE"
  PROVE  InFlow'
<1>1. /\ TypeOK /\ Buffer(c) /\ Architectural(c) /\ InFlow /\ ~fe_req
      /\ ~c.clr_dq /\ ~c.clr_rob
      /\ c.heads > 0 => RobHead.kind \notin Faulted
      /\ c.heads > 1 => Entry(1).kind \notin Faulted
      /\ c.heads \in 0 .. 2 /\ c.heads <= Occupancy
  <2>1. ~fe_req
    BY DEF IInv, Handshake, Asked
  <2>2. ~c.clr_rob /\ c.heads \in 0 .. 2 /\ c.heads <= Occupancy
    BY DEF Good, Outputs
  <2> QED
    BY <2>1, <2>2, FlowIsOrder DEF IInv, Edge, Controls, Recovers
<1>2. PICK push, answer : answer \in BOOLEAN /\ Fetches(c, push, answer)
  BY <1>1, FrontEndStep
<1> DEFINE P == Pipeline
           Q == Pipeline'
           h == c.heads
           n == Len(P) - h
<1>3. /\ n \in Nat /\ Len(push) \in Nat /\ Len(Q) = n + Len(push)
      /\ \A i \in 1 .. n : Q[i] = P[i + h]
      /\ \A i \in 1 .. Len(push) : Q[n + i] = push[i]
  BY <1>1, <1>2, PipelineStep
<1>4. /\ Len(P) \in Nat /\ (P = <<>> <=> Len(P) = 0)
      /\ h >= 1 => Len(P) >= 1 /\ P[1] = RobHead
      /\ h >= 2 => Len(P) >= 2 /\ P[2] = Entry(1)
  <2>1. /\ Len(P) = Occupancy + Len(r_dq) /\ Len(r_dq) \in Nat /\ Occupancy \in Nat
        /\ \A k \in 1 .. Occupancy : P[k] = r_rob[Nth(k - 1)]
        /\ P = <<>> <=> Len(P) = 0
    BY <1>1, PipelineProperties
  <2>2. h >= 1 => P[1] = RobHead
    <3> SUFFICES ASSUME h >= 1 PROVE P[1] = RobHead
      OBVIOUS
    <3>1. 1 \in 1 .. Occupancy /\ 1 - 1 = 0 /\ Occupancy > 0
      BY <1>1, <2>1
    <3> QED
      BY <1>1, <2>1, <3>1, Pointers
  <2>3. h >= 2 => P[2] = Entry(1)
    <3> SUFFICES ASSUME h >= 2 PROVE P[2] = Entry(1)
      OBVIOUS
    <3>1. 2 \in 1 .. Occupancy /\ 2 - 1 = 1 /\ 1 \in 0 .. NROB
      BY <1>1, <2>1, Sizes
    <3> QED
      BY <1>1, <2>1, <3>1, Pointers
  <2> QED
    BY <1>1, <2>1, <2>2, <2>3
<1>5. /\ Q \in Seq(Uop) /\ (Q = <<>> <=> Len(Q) = 0)
  <2>1. Q \in Seq(Uop)
    BY NextPipelineShape DEF PipelineIs
  <2> QED
    BY <2>1, EmptySeq
<1>6. /\ P # <<>> => P[1].pos = arch_pos /\ P[Len(P)].half # "lo"
      /\ Chained(P)
      /\ fe_on => IF P = <<>> THEN fe_pos = arch_pos ELSE Succeeds(fe_pos, P[Len(P)])
  BY <1>1 DEF InFlow
<1>7. /\ arch_pos' = IF h = 0 THEN arch_pos
                     ELSE IF h = 1 THEN Done(arch_pos, P[1])
                     ELSE Done(Done(arch_pos, P[1]), P[2])
  BY <1>1, <1>4, ArchitecturalStep
<1>8. push # <<>> => fe_on /\ Feeds(push)
  BY <1>2 DEF Fetches
<1>9. push = <<>> <=> Len(push) = 0
  BY <1>2, EmptySeq DEF Fetches
<1>10. Chained(push)
  <2>1. CASE Len(push) = 0
    BY <2>1 DEF Chained
  <2>2. CASE Len(push) # 0
    <3>1. /\ Len(push) \in {1, 2}
          /\ Len(push) = 2 =>
               IF push[1].half = "lo" THEN push[2] = [push[1] EXCEPT !.half = "hi"]
               ELSE push[2].half # "hi" /\ push[2].pos = Follow(push[1])
      BY <1>1, <1>8, <1>9, <2>2, PushTypes
    <3>2. Len(push) = 2 => Linked(push[1], push[2])
      BY <3>1 DEF Linked, Succeeds
    <3> QED
      BY <3>1, <3>2 DEF Chained
  <2> QED
    BY <2>1, <2>2
<1> HIDE DEF P, Q, h, n
<1>11. Len(P) = n + h /\ h \in {0, 1, 2}
  BY <1>1, <1>3, <1>4 DEF n, h
<1>12. Len(push) > 0 /\ Len(P) > 0 => Linked(P[Len(P)], push[1])
  <2> SUFFICES ASSUME Len(push) > 0, Len(P) > 0 PROVE Linked(P[Len(P)], push[1])
    OBVIOUS
  <2>0. fe_on /\ Feeds(push)
    BY <1>8, <1>9
  <2>1. push[1].pos = fe_pos /\ push[1].half # "hi"
    BY <1>1, <2>0, PushTypes
  <2> QED
    BY <1>4, <1>6, <2>0, <2>1 DEF Linked
<1>13. Chained(Q)
  <2>1. n > 0 => Len(P) > 0
    BY <1>3, <1>11
  <2>2. Len(push) > 0 /\ n > 0 => Linked(P[Len(P)], push[1])
    BY <1>12, <2>1
  <2>3. h \in Nat
    BY <1>11
  <2> QED
    BY <1>3, <1>6, <1>10, <1>11, <2>2, <2>3, ChainStep
(* Where the program is: at what follows the uops that retire.             *)
<1>14. /\ n > 0 => P[h + 1].pos = arch_pos'
       /\ n = 0 /\ fe_on => fe_pos = arch_pos'
  <2>1. /\ h >= 1 => P[1].kind \notin Faulted
        /\ h >= 2 => P[2].kind \notin Faulted
    BY <1>1, <1>4 DEF h
  <2>2. CASE h = 0
    <3>1. n = Len(P)
      BY <1>3, <1>11, <2>2
    <3> QED
      BY <1>3, <1>4, <1>6, <1>7, <2>2, <3>1
  <2>3. CASE h = 1
    <3>1. Len(P) = n + 1 /\ Len(P) # 0
      BY <1>3, <1>11, <2>3
    <3>2. P[1].pos = arch_pos /\ P[1].kind \notin Faulted /\ arch_pos' = Done(P[1].pos, P[1])
      BY <1>4, <1>6, <1>7, <2>1, <2>3, <3>1
    <3>3. CASE n > 0
      <4>1. 1 \in 1 .. Len(P) - 1 /\ h + 1 = 1 + 1
        BY <1>3, <2>3, <3>1, <3>3
      <4>2. Linked(P[1], P[1 + 1])
        BY <1>6, <4>1 DEF Chained
      <4> QED
        BY <3>2, <3>3, <4>1, <4>2, DoneStep
    <3>4. CASE n = 0
      <4>1. fe_on => Succeeds(fe_pos, P[1]) /\ P[1].half # "lo"
        BY <1>4, <1>6, <3>1, <3>4
      <4> QED
        BY <3>2, <3>4, <4>1, DoneStep
    <3> QED
      BY <1>3, <3>3, <3>4
  <2>4. CASE h = 2
    <3>1. Len(P) = n + 2 /\ Len(P) # 0 /\ 1 \in 1 .. Len(P) - 1 /\ 1 + 1 = 2
      BY <1>3, <1>11, <2>4
    <3>2. /\ P[1].pos = arch_pos /\ P[1].kind \notin Faulted /\ P[2].kind \notin Faulted
          /\ arch_pos' = Done(Done(P[1].pos, P[1]), P[2])
      BY <1>4, <1>6, <1>7, <2>1, <2>4, <3>1
    <3>3. Linked(P[1], P[2])
      BY <1>6, <3>1 DEF Chained
    <3>4. arch_pos' = Done(P[2].pos, P[2])
      BY <3>2, <3>3, DoneStep
    <3>5. CASE n > 0
      <4>1. 2 \in 1 .. Len(P) - 1 /\ h + 1 = 2 + 1
        BY <1>3, <2>4, <3>1, <3>5
      <4>2. Linked(P[2], P[2 + 1])
        BY <1>6, <4>1 DEF Chained
      <4> QED
        BY <3>2, <3>4, <3>5, <4>1, <4>2, DoneStep
    <3>6. CASE n = 0
      <4>1. fe_on => Succeeds(fe_pos, P[2]) /\ P[2].half # "lo"
        BY <1>4, <1>6, <3>1, <3>6
      <4> QED
        BY <3>2, <3>4, <3>6, <4>1, DoneStep
    <3> QED
      BY <1>3, <3>5, <3>6
  <2> QED
    BY <1>11, <2>2, <2>3, <2>4
<1>15. fe_on' => fe_on /\ fe_pos' = IF push # <<>> THEN Follow(push[Len(push)]) ELSE fe_pos
  BY <1>1, <1>2 DEF Fetches
<1>16. ASSUME Len(push) > 0
       PROVE  /\ Q[Len(Q)] = push[Len(push)] /\ Len(Q) # 0 /\ Q[Len(Q)].half # "lo"
              /\ Q[1].pos = arch_pos'
  <2>1. Len(push) \in 1 .. Len(push) /\ 1 \in 1 .. Len(push) /\ Len(Q) = n + Len(push)
        /\ Len(Q) # 0
    BY <1>3, <1>16
  <2>2. Feeds(push) /\ fe_on
    BY <1>8, <1>9, <1>16
  <2>3. push[1].pos = fe_pos /\ push[Len(push)].half # "lo"
    BY <1>1, <2>2, PushTypes
  <2>4. Q[Len(Q)] = push[Len(push)]
    BY <1>3, <2>1
  <2>5. CASE n = 0
    <3>1. Q[1] = push[1]
      BY <1>3, <2>1, <2>5
    <3> QED
      BY <1>14, <2>1, <2>2, <2>3, <2>4, <2>5, <3>1
  <2>6. CASE n > 0
    <3>1. 1 \in 1 .. n /\ 1 + h = h + 1
      BY <1>3, <1>11, <2>6
    <3>2. Q[1] = P[h + 1]
      BY <1>3, <3>1
    <3> QED
      BY <1>14, <2>1, <2>3, <2>4, <2>6, <3>2
  <2> QED
    BY <1>3, <2>5, <2>6
<1>17. ASSUME Len(push) = 0, n > 0
       PROVE  /\ Q[Len(Q)] = P[Len(P)] /\ Len(Q) # 0 /\ Len(P) # 0
              /\ Q[1].pos = arch_pos'
  <2>1. /\ Len(Q) = n /\ n \in 1 .. n /\ 1 \in 1 .. n /\ n + h = Len(P) /\ 1 + h = h + 1
        /\ Len(P) # 0
    BY <1>3, <1>11, <1>17
  <2>2. Q[n] = P[n + h] /\ Q[1] = P[1 + h]
    BY <1>3, <2>1
  <2> QED
    BY <1>14, <1>17, <2>1, <2>2
<1>18. ASSUME Len(push) = 0, n = 0
       PROVE  Len(Q) = 0
  BY <1>3, <1>18
<1>19. /\ Q # <<>> => Q[1].pos = arch_pos' /\ Q[Len(Q)].half # "lo"
       /\ fe_on' => IF Q = <<>> THEN fe_pos' = arch_pos' ELSE Succeeds(fe_pos', Q[Len(Q)])
  <2>1. CASE Len(push) > 0
    <3>1. fe_on' => fe_pos' = Follow(push[Len(push)])
      BY <1>9, <1>15, <2>1
    <3> QED
      BY <1>5, <1>16, <2>1, <3>1 DEF Succeeds
  <2>2. CASE Len(push) = 0 /\ n > 0
    <3>1. fe_on' => fe_on /\ fe_pos' = fe_pos
      BY <1>9, <1>15, <2>2
    <3>2. Q # <<>> /\ P # <<>>
      BY <1>4, <1>5, <1>17, <2>2
    <3> QED
      BY <1>6, <1>17, <2>2, <3>1, <3>2
  <2>3. CASE Len(push) = 0 /\ n = 0
    <3>1. fe_on' => fe_on /\ fe_pos' = fe_pos
      BY <1>9, <1>15, <2>3
    <3>2. Q = <<>>
      BY <1>5, <1>18, <2>3
    <3> QED
      BY <1>14, <2>3, <3>1, <3>2
  <2> QED
    BY <1>3, <2>1, <2>2, <2>3
<1>20. Chained(Pipeline)' = Chained(Pipeline')
  BY DEF Chained, Linked, Succeeds, Follow, Inc
<1> QED
  BY <1>13, <1>19, <1>20 DEF InFlow, Q, Succeeds, Follow, Inc

-----------------------------------------------------------------------------
(* Program order on the way back to ACTIVE.                                 *)
LEMMA NothingPushed ==
  ASSUME TypeOK, NEW c, Good(c), NEW push, NEW answer, Fetches(c, push, answer),
         c.clr_dq \/ c.clr_rob \/ (r_dq = <<>> /\ (~fe_on \/ restart_ack))
  PROVE  r_dq' = <<>>
<1>1. CASE c.clr_dq \/ c.clr_rob
  BY <1>1 DEF Fetches
<1>2. CASE /\ ~c.clr_dq /\ ~c.clr_rob /\ r_dq = <<>> /\ (~fe_on \/ restart_ack)
  <2>1. push = <<>> /\ Len(r_dq) = 0
    BY <1>2 DEF Fetches
  <2>2. c.alloc = 0
    BY <2>1 DEF Good, Outputs
  <2>3. r_dq' \in Seq(Uop) /\ Len(r_dq') = (Len(r_dq) - c.alloc) + Len(push)
    BY <1>2, QueueStep
  <2>4. Len(push) = 0
    BY <2>1
  <2>5. Len(r_dq') = 0
    BY <2>1, <2>2, <2>3, <2>4
  <2> QED
    BY <2>3, <2>5, EmptySeq
<1> QED
  BY <1>1, <1>2

LEMMA WholeInsn ==
  ASSUME TypeOK, Whole, Occupancy > 0, RobHead.kind # "cmov"
  PROVE  \A p : Done(p, RobHead) = IF RobHead.kind = "irq" THEN p ELSE Inc(p)
<1>1. RobHead = r_rob[Nth(0)] /\ Nth(0) \in Slots
  BY Pointers
<1>2. RobHead.half = "whole"
  BY <1>1 DEF Whole, Halves
<1> QED
  BY <1>2 DEF Done

LEMMA ReturnStep ==
  ASSUME IInv, TypeOK', NEW c, Good(c), Edge(c), Controls(c),
         r_state # "ACTIVE", r_state' = "ACTIVE"
  PROVE  InFlow'
<1>1. /\ TypeOK /\ Buffer(c) /\ Architectural(c) /\ Whole /\ Handshake /\ Serial /\ InOrder
      /\ Restarting(c) /\ Recovers(c)
  BY DEF IInv, Edge, Controls
<1>2. PICK push, answer : answer \in BOOLEAN /\ Fetches(c, push, answer)
  BY <1>1, FrontEndStep
<1>3. r_state \in Asked /\ n_got_restart_ack
  BY <1>1 DEF Restarting, Asked
<1>4. fe_pos' = r_restart_pc
  <2>1. fe_pos = r_restart_pc /\ ~fe_req
    BY <1>1, <1>3 DEF Handshake, n_got_restart_ack
  <2>2. answer = FALSE
    BY <1>2, <2>1 DEF Fetches
  <2> QED
    BY <1>2, <2>1, <2>2 DEF Fetches
<1>5. c.clr_rob <=> r_state = "RAT"
  BY DEF Good
<1>6. /\ Pipeline' \in Seq(Uop) /\ Len(Pipeline') = Occupancy' + Len(r_dq')
      /\ \A k \in 1 .. Occupancy' : Pipeline'[k] = r_rob'[Nth(k - 1)']
  BY NextPipelineShape DEF PipelineIs
<1>7. ASSUME Occupancy' = 0, r_dq' = <<>>, r_restart_pc = arch_pos'
      PROVE  InFlow'
  <2>1. Len(Pipeline') = 0 /\ Pipeline' = <<>>
    BY <1>6, <1>7, EmptySeq
  <2> QED
    BY <1>4, <1>7, <2>1 DEF InFlow, Chained
<1>8. CASE r_state \in {"RAT", "HALT_WAIT_FOR_RESTART"} /\ Waits(c)
  <2>1. r_dq' = <<>>
    BY <1>1, <1>2, <1>5, <1>8, NothingPushed DEF InOrder
  <2>2. Occupancy' = 0
    <3>1. CASE c.clr_rob
      BY <1>1, <3>1, BufferStep
    <3>2. CASE ~c.clr_rob
      BY <1>1, <1>5, <1>8, <3>2, Stay DEF InOrder
    <3> QED
      BY <3>1, <3>2
  <2>3. r_restart_pc = arch_pos'
    BY <1>1, <1>8, ArchitecturalStep DEF InOrder, Waits
  <2> QED
    BY <1>7, <2>1, <2>2, <2>3
<1>9. CASE r_state = "MONITOR_WAIT_FOR_ACK" /\ c.alloc = 0 /\ c.heads = 1 /\ c.clr_dq
  <2>1. r_dq' = <<>>
    BY <1>1, <1>2, <1>9, NothingPushed
  <2>2. /\ Occupancy = 1 /\ RobHead.kind \in Serializing /\ r_restart_pc = Inc(arch_pos)
    BY <1>1, <1>9 DEF Serial, InOrder, After
  <2>3. Occupancy' = 0
    <3>1. Occupancy' = (Occupancy - c.heads) + c.alloc
      BY <1>1, <1>5, <1>9, Shift
    <3> QED
      BY <1>9, <2>2, <3>1
  <2>4. arch_pos' = Inc(arch_pos)
    <3>1. RobHead.kind # "cmov" /\ RobHead.kind # "irq"
      BY <2>2 DEF Serializing, FlushFirst
    <3>2. Done(arch_pos, RobHead) = Inc(arch_pos)
      BY <1>1, <2>2, <3>1, WholeInsn
    <3> QED
      BY <1>1, <1>9, <3>2, ArchitecturalStep
  <2> QED
    BY <1>7, <2>1, <2>2, <2>3, <2>4
<1>10. CASE r_state = "WAIT_FOR_ACK" /\ Waits(c) /\ c.clr_dq
  <2>1. Len(r_dq') = 0
    <3>1. r_dq' = <<>>
      BY <1>1, <1>2, <1>10, NothingPushed
    <3> QED
      BY <3>1
  <2>2. /\ Occupancy = 1 /\ RobHead.kind \in Serializing
        /\ r_restart_pc = Inc(arch_pos) /\ RobHead.pos = arch_pos
    BY <1>1, <1>10 DEF Serial, InOrder, After
  <2>3. Occupancy' = 1 /\ RobHead' = RobHead
    BY <1>1, <1>5, <1>10, <2>2, Stay
  <2>4. arch_pos' = arch_pos
    BY <1>1, <1>10, ArchitecturalStep DEF Waits
  <2>5. Len(Pipeline') = 1 /\ Pipeline'[1] = RobHead
    <3>1. 1 \in 1 .. Occupancy' /\ 1 - 1 = 0
      BY <2>3
    <3>2. Pipeline'[1] = r_rob'[Nth(0)']
      BY <1>6, <3>1
    <3>3. RobHead' = r_rob'[Nth(0)']
      BY DEF RobHead, Entry, Nth
    <3> QED
      BY <1>6, <2>1, <2>3, <3>2, <3>3
  <2>6. RobHead.half = "whole"
    <3>1. RobHead = r_rob[Nth(0)] /\ Nth(0) \in Slots
      BY <1>1, <2>2, Pointers
    <3>2. RobHead.kind # "cmov"
      BY <2>2 DEF Serializing, FlushFirst
    <3> QED
      BY <1>1, <3>1, <3>2 DEF Whole, Halves
  <2>7. Succeeds(Inc(arch_pos), RobHead)
    <3>1. RobHead.kind = "llf" \/ RobHead.kind \notin Faulted
      BY <2>2 DEF Serializing, FlushFirst, Faulted, ArchFault
    <3> QED
      BY <2>2, <3>1 DEF Succeeds, Follow
  <2>8. Succeeds(fe_pos', RobHead) = Succeeds(fe_pos, RobHead)'
    BY <2>3 DEF Succeeds, Follow, Inc
  <2>9. Pipeline' # <<>>
    BY <2>5
  <2> DEFINE q == Pipeline'
  <2>10. /\ q[1].pos = arch_pos' /\ q[Len(q)].half # "lo"
         /\ Chained(q) /\ Succeeds(fe_pos', q[Len(q)])
    <3>1. Chained(q)
      BY <2>5 DEF Chained
    <3> QED
      BY <1>4, <2>2, <2>4, <2>5, <2>6, <2>7, <3>1
  <2> QED
    BY <2>9, <2>10 DEF InFlow, Chained, Linked, Succeeds, Follow, Inc
<1> QED
  BY <1>1, <1>8, <1>9, <1>10 DEF Recovers

LEMMA ProgramOrderStep ==
  ASSUME IInv, TypeOK', NEW c, Good(c), Edge(c), Controls(c)
  PROVE  /\ ProgramOrder'
         /\ r_state' = "ACTIVE" /\ Pipeline' # <<>> => Pipeline'[Len(Pipeline')].half # "lo"
<1>1. r_state' = "ACTIVE" => InFlow'
  BY FlowStep, ReturnStep
<1>2. (r_state = "ACTIVE" => (InFlow => ProgramOrder))'
  BY FlowIsOrder, PTL
<1>3. r_state' # "ACTIVE" => ProgramOrder'
  BY DEF ProgramOrder
<1> QED
  BY <1>1, <1>2, <1>3 DEF InFlow

-----------------------------------------------------------------------------
(* Where the program is while the core is not ACTIVE.                       *)
LEMMA InOrderStep ==
  ASSUME IInv, TypeOK', NEW c, Good(c), Edge(c), Controls(c)
  PROVE  InOrder'
<1>1. /\ TypeOK /\ Buffer(c) /\ Architectural(c) /\ Whole /\ Handshake /\ Serial /\ InOrder
      /\ ProgramOrder
      /\ Restarting(c) /\ Recovers(c) /\ Serializes(c)
  BY DEF IInv, Edge, Controls
<1>2. PICK push, answer : answer \in BOOLEAN /\ Fetches(c, push, answer)
  BY <1>1, FrontEndStep
<1>3. c.clr_rob <=> r_state = "RAT"
  BY DEF Good
<1>4. c.heads = 0 => arch_pos' = arch_pos
  BY <1>1, ArchitecturalStep
<1>5. r_state' = "ACTIVE" /\ Pipeline' # <<>> => Pipeline'[Len(Pipeline')].half # "lo"
  BY ProgramOrderStep
<1>6. ASSUME r_state' \in Before
      PROVE  r_dq'[1].pos = arch_pos'
  <2>1. /\ Waits(c) /\ ~c.clr_dq /\ ~c.clr_rob /\ r_dq # <<>> /\ r_dq[1].pos = arch_pos
    BY <1>1, <1>6 DEF Serializes
  <2>2. r_dq'[1] = r_dq[1]
    BY <1>1, <2>1, QueueGrows
  <2> QED
    BY <1>4, <2>1, <2>2 DEF Waits
<1>7. ASSUME r_state' \in Alone \cup After \cup {"ARCH_FAULT"}
      PROVE  RobHead'.pos = arch_pos'
  <2>1. CASE r_state \in Before /\ c.alloc = 1 /\ c.heads = 0
    <3>1. Occupancy = 0 /\ r_dq[1].pos = arch_pos /\ ~c.clr_rob
      BY <1>1, <1>3, <2>1 DEF Serial, InOrder, Before
    <3>2. RobHead' = r_dq[1]
      BY <1>1, <2>1, <3>1, NewHead
    <3> QED
      BY <1>4, <2>1, <3>1, <3>2
  <2>2. CASE r_state \in Alone \cup After /\ Waits(c)
    <3>1. RobHead.pos = arch_pos /\ ~c.clr_rob
      BY <1>1, <1>3, <2>2 DEF InOrder, Alone, After
    <3>2. RobHead' = RobHead
      BY <1>1, <2>2, <3>1, Stay
    <3> QED
      BY <1>4, <2>2, <3>1, <3>2 DEF Waits
  <2>3. CASE r_state = "ACTIVE" /\ Waits(c) /\ t_can_retire_rob_head
    <3>1. RobHead.pos = arch_pos /\ ~c.clr_rob
      BY <1>1, <1>3, <2>3, HeadOfOrder DEF t_can_retire_rob_head
    <3>2. RobHead' = RobHead
      BY <1>1, <2>3, <3>1, Stay
    <3> QED
      BY <1>4, <2>3, <3>1, <3>2 DEF Waits
  <2>4. CASE r_state' \in Alone
    BY <1>1, <2>1, <2>2, <2>4 DEF Serializes
  <2>5. CASE r_state' \in After
    BY <1>1, <2>2, <2>5 DEF Serializes
  <2>6. CASE r_state' = "ARCH_FAULT"
    BY <1>1, <2>3, <2>6 DEF Recovers
  <2> QED
    BY <1>7, <2>4, <2>5, <2>6
<1>8. ASSUME r_state' \in After
      PROVE  r_restart_pc' = Inc(arch_pos')
  <2>1. r_state \in Alone \cup After /\ Waits(c) /\ r_restart_pc' = Inc(RobHead.pos)
    BY <1>1, <1>8 DEF Serializes
  <2>2. RobHead.pos = arch_pos
    BY <1>1, <2>1 DEF InOrder
  <2> QED
    BY <1>4, <2>1, <2>2 DEF Waits
<1>9. ASSUME r_state' = "ARCH_FAULT"
      PROVE  /\ RobHead'.kind # "cmov" /\ r_epc' = arch_pos'
             /\ r_irq' <=> RobHead'.kind = "irq"
  <2>1. /\ r_state = "ACTIVE" /\ Waits(c) /\ t_can_retire_rob_head
        /\ RobHead.kind \in ArchFault /\ r_epc' = RobHead.pos
        /\ r_irq' <=> RobHead.kind = "irq"
    BY <1>1, <1>9 DEF Recovers
  <2>2. RobHead.pos = arch_pos /\ ~c.clr_rob
    BY <1>1, <1>3, <2>1, HeadOfOrder DEF t_can_retire_rob_head
  <2>3. RobHead' = RobHead
    BY <1>1, <2>1, <2>2, Stay
  <2>4. RobHead.kind # "cmov"
    BY <2>1 DEF ArchFault
  <2> QED
    BY <1>4, <2>1, <2>2, <2>3, <2>4 DEF Waits
<1>10. ASSUME r_state' \in Entering
       PROVE  arch_pos' = HandlerReturn'
  <2>1. r_epc' = r_epc /\ r_irq' = r_irq
    BY <1>1, <1>10 DEF Recovers
  <2>2. HandlerReturn' = HandlerReturn
    BY <2>1 DEF HandlerReturn, Inc
  <2>3. CASE r_state = "ARCH_FAULT" /\ c.heads = 1
    <3>1. /\ RobHead.kind # "cmov" /\ r_epc = arch_pos /\ Occupancy > 0
          /\ r_irq <=> RobHead.kind = "irq"
      BY <1>1, <2>3 DEF InOrder, Serial
    <3>2. arch_pos' = IF RobHead.kind = "irq" THEN arch_pos ELSE Inc(arch_pos)
      BY <1>1, <2>3, <3>1, WholeInsn, ArchitecturalStep
    <3> QED
      BY <2>2, <3>1, <3>2 DEF HandlerReturn
  <2>4. CASE r_state \in Entering /\ c.heads = 0
    <3>1. arch_pos = HandlerReturn
      BY <1>1, <2>4 DEF InOrder, Entering
    <3> QED
      BY <1>4, <2>2, <2>4, <3>1
  <2> QED
    BY <1>1, <1>10, <2>3, <2>4 DEF Recovers
<1>11. ASSUME r_state' \in Recovering
       PROVE  r_restart_pc' = arch_pos'
  <2>1. CASE /\ r_state = "ACTIVE" /\ t_can_retire_rob_head /\ c.heads = 1
             /\ RobHead.kind \in {"misbr"} \cup MarksDirty
             /\ r_restart_pc' = Inc(RobHead.pos)
    <3>1. RobHead.pos = arch_pos /\ Occupancy > 0
      BY <1>1, <2>1, HeadOfOrder DEF t_can_retire_rob_head
    <3>2. RobHead.kind # "cmov" /\ RobHead.kind # "irq"
      BY <2>1 DEF MarksDirty
    <3>3. arch_pos' = Inc(arch_pos)
      BY <1>1, <2>1, <3>1, <3>2, WholeInsn, ArchitecturalStep
    <3> QED
      BY <2>1, <3>1, <3>3
  <2>2. CASE r_state \in Recovering /\ c.heads = 0 /\ r_restart_pc' = r_restart_pc
    BY <1>1, <1>4, <2>2 DEF InOrder, Recovering
  <2>3. CASE /\ r_state = "WAIT_FOR_CSR_WRITE" /\ c.heads = 0
             /\ r_restart_pc' = HandlerReturn
    BY <1>1, <1>4, <2>3 DEF InOrder
  <2>4. CASE r_state = "HALT" /\ ~stopped /\ c.heads = 0 /\ r_restart_pc' = 0
    BY <1>1, <1>4, <2>4 DEF InOrder
  <2> QED
    BY <1>1, <1>11, <2>1, <2>2, <2>3, <2>4 DEF Recovers
<1>12. ASSUME r_state \in Halting, ~stopped, Waits(c)
       PROVE  /\ Occupancy' = 0 /\ arch_pos' = 0 /\ r_dq' = <<>>
              /\ fe_on' => answer
  <2>1. Occupancy = 0 /\ arch_pos = 0 /\ r_dq = <<>> /\ ~fe_on /\ ~c.clr_rob
    BY <1>1, <1>3, <1>12 DEF InOrder, Halting
  <2>2. Occupancy' = 0 /\ arch_pos' = 0
    BY <1>1, <1>4, <1>12, <2>1, Stay DEF Waits
  <2>3. r_dq' = <<>>
    BY <1>1, <1>2, <2>1, NothingPushed
  <2> QED
    BY <1>2, <2>1, <2>2, <2>3 DEF Fetches
<1>13. ASSUME r_state' \in Halting
       PROVE  stopped' \/ (Occupancy' = 0 /\ arch_pos' = 0 /\ r_dq' = <<>> /\ ~fe_on')
  <2> SUFFICES ASSUME ~stopped', r_state \in Halting, Waits(c), stopped' = stopped
               PROVE  Occupancy' = 0 /\ arch_pos' = 0 /\ r_dq' = <<>> /\ ~fe_on'
    BY <1>1, <1>13 DEF Recovers
  <2>1. ~fe_req
    BY <1>1 DEF Handshake, Halting, Asked
  <2>2. ~answer /\ fe_on' \in BOOLEAN
    BY <1>2, <2>1 DEF Fetches
  <2> QED
    BY <1>12, <2>2
<1>14. ASSUME r_state' = "HALT_WAIT_FOR_RESTART"
       PROVE  Occupancy' = 0 /\ r_dq' = <<>> /\ (fe_on' => restart_ack')
  <2>0. restart_ack' = answer
    BY <1>2 DEF Fetches
  <2>1. CASE r_state = "HALT" /\ ~stopped /\ Waits(c)
    BY <1>12, <2>0, <2>1 DEF Halting
  <2>2. CASE r_state = "HALT_WAIT_FOR_RESTART" /\ ~n_got_restart_ack /\ Waits(c)
    <3>1. Occupancy = 0 /\ r_dq = <<>> /\ ~fe_on /\ ~c.clr_rob
      BY <1>1, <1>3, <2>2 DEF InOrder, n_got_restart_ack
    <3>2. Occupancy' = 0
      BY <1>1, <2>2, <3>1, Stay
    <3>3. r_dq' = <<>>
      BY <1>1, <1>2, <3>1, NothingPushed
    <3>4. fe_on' => answer
      BY <1>2, <3>1 DEF Fetches
    <3> QED
      BY <2>0, <3>2, <3>3, <3>4
  <2> QED
    BY <1>1, <1>14, <2>1, <2>2 DEF Recovers
<1> QED
  BY <1>5, <1>6, <1>7, <1>8, <1>9, <1>10, <1>11, <1>13, <1>14
     DEF InOrder, Entering, Recovering, Halting

-----------------------------------------------------------------------------
(* The invariant holds of every behaviour.                                  *)
LEMMA IInvInit == Init => IInv
<1> SUFFICES ASSUME Init PROVE IInv
  OBVIOUS
<1> USE DEF Init
<1>1. Occupancy = 0 /\ 0 \in Ptrs /\ NROB >= 0 /\ NMRQ >= 0 /\ NDQ >= 0
  BY Sizes DEF Occupancy, Ptrs
<1>2. Live = {}
  BY <1>1 DEF Live
<1>3. NoUop \in Uop /\ NoUop.half = "whole"
  BY DEF NoUop, Uop, Kinds, Folded
<1>4. SeqRange(<<>>) = {} /\ Once(<<>>)
  BY DEF SeqRange, Once
<1>5. TypeOK
  <2>1. r_rob \in [Slots -> Uop]
    BY <1>3
  <2>2. unit \in [Slots -> Where]
    BY DEF Where
  <2>3. /\ r_state \in States /\ 0 \in Positions
        /\ irqs \in 0 .. prog.MAXIRQ /\ prog \in Programs
    BY Increments, Sizes DEF States, Program
  <2>4. r_dq \in Seq(Uop) /\ Len(r_dq) = 0
    OBVIOUS
  <2>5. {r_ds_done, r_pending_fault, r_got_restart_ack, stopped, fe_on, fe_req,
         restart_ack, irq_line, r_irq} \subseteq BOOLEAN
    OBVIOUS
  <2> QED
    BY <1>1, <1>4, <2>1, <2>2, <2>3, <2>4, <2>5, Sizes DEF TypeOK
<1>6. Handshake
  BY DEF Handshake, Asked
<1>7. Whole
  BY <1>3 DEF Whole, Halves
<1>8. NoLateCompletion /\ Counted /\ DataOnce
  BY <1>4 DEF NoLateCompletion, Counted, DataOnce
<1>9. Serial /\ SerializingAlone
  BY <1>2 DEF Serial, SerializingAlone, Before, Alone, After
<1>10. InOrder /\ ProgramOrder
  BY <1>1 DEF InOrder, ProgramOrder, Before, Alone, After
<1> QED
  BY <1>5, <1>6, <1>7, <1>8, <1>9, <1>10 DEF IInv

LEMMA IInvNext == IInv /\ [Next]_corevars => IInv'
<1> SUFFICES ASSUME IInv, [Next]_corevars PROVE IInv'
  OBVIOUS
<1>1. CASE Next
  <2>1. PICK c : Good(c) /\ Edge(c) /\ Controls(c)
    BY <1>1, Acts
  <2>2. TypeOK /\ Handshake /\ Whole /\ NoLateCompletion /\ Counted /\ DataOnce
        /\ Execute(c) /\ Buffer(c) /\ Restarting(c)
    BY <2>1 DEF IInv, Edge, Controls
  <2>3. TypeOK'
    BY <2>1, TypeStep
  <2>4. Handshake'
    BY <2>1, <2>2, HandshakeStep
  <2>5. Whole'
    BY <2>1, <2>2, WholeStep
  <2>6. NoLateCompletion' /\ DataOnce'
    BY <2>1, <2>2, ExecuteStep
  <2>7. Counted'
    BY <2>1, CountedStep
  <2>8. Serial' /\ SerializingAlone'
    BY <2>1, SerialStep
  <2>9. InOrder' /\ ProgramOrder'
    BY <2>1, <2>3, InOrderStep, ProgramOrderStep
  <2> QED
    BY <2>3, <2>4, <2>5, <2>6, <2>7, <2>8, <2>9 DEF IInv
<1>2. CASE UNCHANGED corevars
  <2> USE <1>2 DEF corevars, fsm, rob, exec, fe
  <2>1. TypeOK'
    BY DEF IInv, TypeOK, Occupancy, SeqRange
  <2>2. Handshake' /\ Whole' /\ Counted' /\ DataOnce'
    BY DEF IInv, Handshake, Whole, Halves, Counted, DataOnce, Once
  <2>3. Occupancy' = Occupancy /\ Live' = Live /\ RobHead' = RobHead
    BY DEF Occupancy, Live, RobHead, Entry
  <2>4. HeadComplete(0)' = HeadComplete(0) /\ \A s \in Slots : KindAt(s)' = KindAt(s)
    BY DEF HeadComplete, KindAt
  <2>5. Pipeline' = Pipeline
    BY <2>3 DEF Pipeline, Entry
  <2>6. NoLateCompletion'
    BY <2>3 DEF IInv, NoLateCompletion, SeqRange
  <2>7. SerializingAlone'
    BY <2>3, <2>4 DEF IInv, SerializingAlone, KindAt
  <2>8. Serial'
    BY <2>3, <2>4 DEF IInv, Serial, KindAt
  <2>9. InOrder'
    BY <2>3, <2>5 DEF IInv, InOrder, HandlerReturn
  <2>10. ProgramOrder'
    BY <2>5 DEF IInv, ProgramOrder
  <2> QED
    BY <2>1, <2>2, <2>6, <2>7, <2>8, <2>9, <2>10 DEF IInv
<1> QED
  BY <1>1, <1>2

-----------------------------------------------------------------------------
(* The invariant holds in every reachable state.                           *)
THEOREM Invariance == Spec => []IInv
  BY IInvInit, IInvNext, PTL DEF Spec

(* Every variable keeps to its domain: the buffer never holds more uops    *)
(* than it has entries and the decode queue never more than its size,      *)
(* whatever is allocated, retired and cracked in one cycle.                *)
THEOREM CoreTypeCorrect == Spec => []TypeOK
<1>1. IInv => TypeOK
  BY DEF IInv
<1> QED
  BY <1>1, Invariance, PTL

(* Execution is precise: through every restart, exception, interrupt and   *)
(* serializing instruction the buffer, the decode queue and the fetch      *)
(* position continue the program where retirement has left it.             *)
THEOREM Precise == Spec => []ProgramOrder
<1>1. IInv => ProgramOrder
  BY DEF IInv
<1> QED
  BY <1>1, Invariance, PTL

(* DRAIN waits long enough: what an execution unit, the L1D or the store   *)
(* data path completes is an entry that still waits for it.                *)
THEOREM NoLate == Spec => []NoLateCompletion
<1>1. IInv => NoLateCompletion
  BY DEF IInv
<1> QED
  BY <1>1, Invariance, PTL

(* The ways through FLUSH_CACHE, ALLOC_FOR_SERIALIZE and the monitor       *)
(* states let a serializing uop execute alone, with older stores written.  *)
THEOREM SerialAlone == Spec => []SerializingAlone
<1>1. IInv => SerializingAlone
  BY DEF IInv
<1> QED
  BY <1>1, Invariance, PTL

(* HANDLE_MONITOR is entered with an empty buffer and all stores written,  *)
(* and nothing starts while the host serves the call.                      *)
THEOREM HostMemory == Spec => []HostSeesMemory
<1>1. IInv => HostSeesMemory
  <2> SUFFICES ASSUME IInv, r_state = "HANDLE_MONITOR"
               PROVE  wrq = 0 /\ \A s \in Slots : unit[s] = "idle"
    BY DEF HostSeesMemory
  <2>1. wrq = 0 /\ Occupancy = 0
    BY DEF IInv, Serial, Before
  <2>2. Live = {}
    BY <2>1 DEF Live
  <2> QED
    BY <2>1, <2>2 DEF IInv, NoLateCompletion
<1> QED
  BY <1>1, Invariance, PTL

(* Every restart is answered, and its answer consumed, before the core     *)
(* runs again: no acknowledgement is left for the next recovery.           *)
THEOREM Restarts == Spec => []RestartsPair
<1>1. IInv => RestartsPair
  BY DEF IInv, Handshake, Asked, RestartsPair
<1> QED
  BY <1>1, Invariance, PTL
=============================================================================

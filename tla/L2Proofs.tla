------------------------------ MODULE L2Proofs ------------------------------
(***************************************************************************)
(* Proofs about L2, for every number of lines, sets and reorder buffer     *)
(* entries and whatever the clients ask.                                   *)
(***************************************************************************)
EXTENDS L2, SequenceTheorems, TLAPS

-----------------------------------------------------------------------------
(* The inductive invariant.                                                *)

(* The walker's read is in one place: not yet asked, asked, looked up, or  *)
(* in the ROB.                                                             *)
ReadOnce ==
  /\ \A i, j \in DOMAIN rob : rob[i].ty = "MMU" /\ rob[j].ty = "MMU" => i = j
  /\ r_mmu => \A i \in DOMAIN rob : rob[i].ty # "MMU"
  /\ Check /\ r.ty = "MMU" => r_mmu
  /\ r_mmu \/ (\E i \in DOMAIN rob : rob[i].ty = "MMU") => r_mmu_req
  /\ r_mmu_req => r_pstate = "PROBE_IDLE"

(* So is its mark, and the L1I's fetch. *)
MarkOnce == /\ r_mmu_mark_req => r_mmu_mark = {} /\ mem_mark.bits # {}
            /\ r_mmu_mark # {} => mem_mark.l \in Lines

FetchOnce ==
  /\ \A i, j \in DOMAIN rob : rob[i].ty = "L1I" /\ rob[j].ty = "L1I" => i = j
  /\ Check /\ r.ty = "L1I" => \A i \in DOMAIN rob : rob[i].ty # "L1I"
  /\ (Check /\ r.ty = "L1I") \/ (\E i \in DOMAIN rob : rob[i].ty = "L1I") =>
       ~r_l1i_req /\ l1i # NoLine
  /\ Check /\ ~r_mmu /\ ~r_mark_pte /\ ~r_last_gnt => r.ty = "L1I"

(* Lines live in their set, and what is being fetched is in no way of it.  *)
SetHome == \A i \in Sets, k \in Ways : cache[i][k].v => SetOf[cache[i][k].l] = i
Cached(l) == \E k \in Ways : cache[SetOf[l]][k].v /\ cache[SetOf[l]][k].l = l
NotCached == \A i \in DOMAIN rob : rob[i].ty # "WRITEBACK" => ~Cached(rob[i].l)

(* A flush has cleaned the sets before its own.                            *)
InFlush == r_state \in {"FLUSH_WAIT", "FLUSH_STORE", "FLUSH_STORE_WAY2"}
Swept(i) == \A k \in Ways : ~cache[i][k].d /\ (~r_wb_no_inv => ~cache[i][k].v)
FlushSweep ==
  /\ InFlush => r_flush_req
  /\ r_flush_req => ~r_need_l1d /\ ~r_need_l1i
  /\ InFlush => \A i \in Sets : i < r_idx => Swept(i)
  /\ r_state \in {"FLUSH_STORE", "FLUSH_STORE_WAY2"} => Swept(r_idx)

Inv == /\ TypeOK /\ ReadOnce /\ MarkOnce /\ FetchOnce /\ SetInterlock /\ RobHasRoom
       /\ SetHome /\ NotCached /\ OneCopy /\ VictimKept /\ FlushSweep

-----------------------------------------------------------------------------
(* Sequences that lose their first element or gain a last one.             *)
LEMMA Popped ==
  ASSUME NEW S, NEW q \in Seq(S), q # <<>>
  PROVE  /\ Head(q) \in S /\ Head(q) = q[1] /\ 1 \in DOMAIN q
         /\ Tail(q) \in Seq(S) /\ Len(Tail(q)) = Len(q) - 1
         /\ \A i \in DOMAIN Tail(q) : i + 1 \in DOMAIN q /\ i + 1 # 1
                                      /\ Tail(q)[i] = q[i + 1]
<1>1. Len(q) \in Nat /\ Len(q) # 0
  BY EmptySeq, LenProperties
<1>2. DOMAIN q = 1 .. Len(q) /\ DOMAIN Tail(q) = 1 .. Len(Tail(q))
  BY LenProperties, HeadTailProperties
<1>3. Head(q) = q[1]
  OBVIOUS
<1> QED
  BY <1>1, <1>2, <1>3, HeadTailProperties

LEMMA Appended ==
  ASSUME NEW S, NEW q \in Seq(S), NEW e \in S
  PROVE  /\ Append(q, e) \in Seq(S) /\ Len(Append(q, e)) = Len(q) + 1
         /\ Len(q) \in Nat /\ Len(q) + 1 \notin DOMAIN q
         /\ DOMAIN Append(q, e) = DOMAIN q \cup {Len(q) + 1}
         /\ \A i \in DOMAIN q : Append(q, e)[i] = q[i]
         /\ Append(q, e)[Len(q) + 1] = e
  BY LenProperties

LEMMA TagsClosed ==
  /\ 0 \in Tags /\ \A t \in Tags : (t + 1) % N \in Tags
  /\ \A q : rob \in Seq(q) /\ r_rob_head_ptr \in Tags => w_rob_tail_ptr \in Tags
  BY L2Assumption, LenProperties DEF Tags, w_rob_tail_ptr

LEMMA SetsClosed ==
  /\ 0 \in Sets /\ \A i \in Sets : i # NSETS - 1 => i + 1 \in Sets
  /\ \A i \in Sets : i \in Nat /\ i <= NSETS - 1
  /\ \A l \in Lines : SetOf[l] \in Sets
  BY L2Assumption DEF Sets

(* A request of the L1D's queue, the L1I or the walker can be looked up.   *)
LEMMA LookType ==
  ASSUME TypeOK, NEW ty \in {"L1D", "L1I", "MMU", "MARK_PTE"}, NEW op \in {"LW", "SW"},
         NEW l \in Lines, NEW w \in Data
  PROVE  /\ Look(ty, op, l, w) \in RequestType
         /\ Look(ty, op, l, w).l = l /\ Look(ty, op, l, w).ty = ty
<1>1. last[SetOf[l]] \in Ways
  BY SetsClosed DEF TypeOK, ArraysType
<1> QED
  BY <1>1 DEF Look, RequestType

LEMMA QueueType ==
  ASSUME TypeOK, r_mem_q # <<>>
  PROVE  /\ Head(r_mem_q).l \in Lines
         /\ NextOfL1D \in RequestType /\ NextOfL1D.l = Head(r_mem_q).l
         /\ NextOfL1D.ty = "L1D"
         /\ Tail(r_mem_q) \in Seq([op : {"LW", "SW"}, l : Lines, w : Data])
<1>1. Head(r_mem_q) \in [op : {"LW", "SW"}, l : Lines, w : Data]
      /\ Tail(r_mem_q) \in Seq([op : {"LW", "SW"}, l : Lines, w : Data])
  BY Popped DEF TypeOK, L1Type
<1> QED
  BY <1>1, LookType DEF NextOfL1D

LEMMA SendType ==
  ASSUME MemoryType, NEW op \in {"LW", "SW"}, NEW l \in Lines, NEW w \in Data,
         NEW t \in Tags, Send(op, l, w, t)
  PROVE  mem_queue' \in Seq(MemRequestType)
<1>1. [op |-> op, l |-> l, w |-> w, t |-> t] \in MemRequestType
  BY DEF MemRequestType
<1> QED
  BY <1>1, Appended DEF Send, MemoryType

(* The lookup: the way that hits, and what is kept while it is unchanged.  *)
LEMMA HitWay ==
  ASSUME TypeOK, Check
  PROVE  /\ s \in Sets /\ r.l \in Lines /\ way \in Ways /\ n_replace \in Ways
         /\ w_d \in Data /\ Victim \in Copy
         /\ w_hit => cache[s][way].v /\ cache[s][way].l = r.l
         /\ w_hit <=> Cached(r.l)
<1>1. r.l \in Lines /\ s \in Sets
  BY SetsClosed DEF TypeOK, LookupType, s
<1>2. cache[s] \in [Ways -> Copy] /\ r.last \in {0, 1} /\ Ways = {0, 1}
  BY <1>1 DEF TypeOK, ArraysType, LookupType, RequestType, Ways
<1>3. way \in Ways /\ n_replace \in Ways
  BY <1>2 DEF way, n_replace
<1>4. w_hit => cache[s][way].v /\ cache[s][way].l = r.l
  BY DEF w_hit, way, Hits
<1>5. w_hit <=> Cached(r.l)
  BY <1>2 DEF w_hit, Hits, Cached, s
<1>6. cache[s][way] \in Copy /\ cache[s][n_replace] \in Copy
  BY <1>2, <1>3
<1>7. w_d \in Data
  BY <1>6 DEF w_d, Copy
<1> QED
  BY <1>1, <1>3, <1>4, <1>5, <1>6, <1>7 DEF Victim

-----------------------------------------------------------------------------
(* Type correctness, group by group.                                       *)
regs == <<r_state, r, r_mmu, r_mmu_mark, r_last_gnt>>

LEMMA Kept ==
  ASSUME TypeOK
  PROVE  /\ UNCHANGED <<cache, last>> => ArraysType'
         /\ UNCHANGED regs => LookupType'
         /\ UNCHANGED misses => MissesType'
         /\ UNCHANGED l1 => L1Type'
         /\ UNCHANGED walker => WalkerType'
         /\ UNCHANGED flush /\ (UNCHANGED r_state \/ r_state' # "FLUSH_STORE_WAY2")
              => FlushType'
         /\ UNCHANGED outside => MemoryType'
<1>1. UNCHANGED <<cache, last>> => ArraysType'
  BY DEF TypeOK, ArraysType
<1>2. UNCHANGED regs => LookupType'
  BY DEF TypeOK, LookupType, regs, Check
<1>3. UNCHANGED misses => MissesType'
  BY DEF TypeOK, MissesType, misses
<1>4. UNCHANGED l1 => L1Type'
  BY DEF TypeOK, L1Type, l1
<1>5. UNCHANGED walker => WalkerType'
  BY DEF TypeOK, WalkerType, walker
<1>6. UNCHANGED flush /\ (UNCHANGED r_state \/ r_state' # "FLUSH_STORE_WAY2") => FlushType'
  BY DEF TypeOK, FlushType, flush
<1>7. UNCHANGED outside => MemoryType'
  BY DEF TypeOK, MemoryType, outside
<1> QED
  BY <1>1, <1>2, <1>3, <1>4, <1>5, <1>6, <1>7

(* A lookup that ends, and one that begins.                                *)
LEMMA LookupEnds ==
  ASSUME TypeOK, ToIdle, r_mmu' \in BOOLEAN, r_mmu_mark' \in SUBSET Bits,
         r_last_gnt' \in BOOLEAN
  PROVE  LookupType'
<1>1. NoRequest \in RequestType /\ NoRequest.l = NoLine
  BY DEF NoRequest, RequestType, Data, Ways
<1> QED
  BY <1>1 DEF ToIdle, LookupType, Check, States

LEMMA LookupBegins ==
  ASSUME TypeOK, r' \in RequestType, r'.l \in Lines,
         r_state' = "CHECK_VALID_AND_TAG", r_mmu' \in BOOLEAN,
         r_mmu_mark' \in SUBSET Bits, r_last_gnt' \in BOOLEAN
  PROVE  LookupType'
  BY DEF LookupType, States

LEMMA TouchType ==
  ASSUME TypeOK, Check, Touch, cache' \in [Sets -> [Ways -> Copy]]
  PROVE  ArraysType'
<1>1. last \in [Sets -> Ways] /\ way \in Ways
  BY HitWay DEF TypeOK, ArraysType
<1> QED
  BY <1>1 DEF Touch, ArraysType

(* What is written to a way that hits keeps its line.                      *)
LEMMA WriteType ==
  ASSUME TypeOK, Check, w_hit, NEW w \in Data,
         cache' = [cache EXCEPT ![s][way] = Written(@, w)]
  PROVE  /\ cache' \in [Sets -> [Ways -> Copy]]
         /\ \A i \in Sets, k \in Ways : /\ cache'[i][k].v = cache[i][k].v
                                        /\ cache'[i][k].l = cache[i][k].l
<1> DEFINE old == cache[s][way]
           new == Written(old, w)
<1>1. s \in Sets /\ way \in Ways /\ old.v /\ old \in Copy /\ cache \in [Sets -> [Ways -> Copy]]
  BY HitWay DEF TypeOK, ArraysType
<1>2. new.v = old.v /\ new.l = old.l /\ new \in Copy
  BY <1>1 DEF Copy, Written
<1>3. cache' = [cache EXCEPT ![s] = [@ EXCEPT ![way] = new]]
  OBVIOUS
<1> HIDE DEF new
<1>4. [cache[s] EXCEPT ![way] = new] \in [Ways -> Copy]
  BY <1>1, <1>2
<1>5. cache' \in [Sets -> [Ways -> Copy]]
  BY <1>1, <1>3, <1>4
<1>6. ASSUME NEW i \in Sets, NEW k \in Ways
      PROVE  cache'[i][k].v = cache[i][k].v /\ cache'[i][k].l = cache[i][k].l
  <2>1. CASE i = s /\ k = way
    <3>1. cache'[i][k] = new
      BY <1>1, <1>3, <2>1
    <3> QED
      BY <1>2, <2>1, <3>1
  <2>2. CASE ~ (i = s /\ k = way)
    <3>1. cache'[i][k] = cache[i][k]
      BY <1>1, <1>3, <2>2
    <3> QED
      BY <3>1
  <2> QED
    BY <2>1, <2>2
<1> QED
  BY <1>5, <1>6

LEMMA EntryOK ==
  ASSUME NEW ty \in {"L1D", "L1I", "MMU", "MARK_PTE", "WRITEBACK"}, NEW l \in Lines,
         NEW st \in BOOLEAN, NEW w \in Data, NEW k \in Ways
  PROVE  Entry(ty, l, st, w, k) \in EntryType /\ Entry(ty, l, st, w, k).l = l
         /\ Entry(ty, l, st, w, k).ty = ty
  BY DEF Entry, EntryType, Data

LEMMA PopType ==
  ASSUME TypeOK, rob # <<>>, PopRob, UNCHANGED <<r_rob_tag, wb>>
  PROVE  MissesType' /\ Head(rob) \in EntryType
<1>1. rob \in Seq(EntryType) /\ r_rob_head_ptr \in Tags
  BY DEF TypeOK, MissesType
<1>2. Tail(rob) \in Seq(EntryType) /\ Head(rob) \in EntryType
  BY <1>1, Popped
<1>3. (r_rob_head_ptr + 1) % N \in Tags
  BY <1>1, TagsClosed
<1> QED
  BY <1>2, <1>3 DEF PopRob, TypeOK, MissesType

LEMMA FillType ==
  ASSUME TypeOK, Fill
  PROVE  TypeOK'
<1> DEFINE e == Head(rob)
<1>1. rob # <<>> /\ PopRob /\ r_state' = "CHECK_VALID_AND_TAG"
      /\ r' = Look(e.ty, IF e.st THEN "SW" ELSE "LW", e.l, e.w)
      /\ r_mmu' = (e.ty = "MMU") /\ r_last_gnt' = (e.ty = "L1D")
      /\ e.ty \in {"MMU", "L1I", "L1D"}
      /\ cache' = [cache EXCEPT ![SetOf[e.l]][e.way] =
                    [v |-> TRUE, d |-> FALSE, l |-> e.l, w |-> e.data]]
      /\ UNCHANGED <<last, r_mmu_mark, r_rob_tag, wb, l1, walker, flush, outside>>
  BY DEF Fill, w_head_of_rob_done
<1>2. MissesType' /\ e \in EntryType
  BY <1>1, PopType
<1>3. e.l \in Lines /\ SetOf[e.l] \in Sets /\ e.way \in Ways /\ e.w \in Data
      /\ [v |-> TRUE, d |-> FALSE, l |-> e.l, w |-> e.data] \in Copy
  BY <1>2, SetsClosed DEF EntryType, Copy
<1> HIDE DEF e
<1>4. r' \in RequestType /\ r'.l = e.l
  BY <1>1, <1>3, LookType
<1>5. ArraysType'
  BY <1>1, <1>3 DEF TypeOK, ArraysType
<1>6. LookupType'
  BY <1>1, <1>3, <1>4, LookupBegins DEF TypeOK, LookupType
<1> QED
  BY <1>1, <1>2, <1>5, <1>6, Kept DEF TypeOK

LEMMA WriteBackType ==
  ASSUME TypeOK, WriteBack
  PROVE  TypeOK'
<1>1. wb.l \in Lines /\ wb.w \in Data /\ w_rob_tail_ptr \in Tags
      /\ rob \in Seq(EntryType)
  BY TagsClosed DEF WriteBack, MustWriteBack, TypeOK, MissesType
<1>2. Entry("WRITEBACK", wb.l, FALSE, {}, 0) \in EntryType
  <2>1. {} \in Data /\ 0 \in Ways
    BY DEF Data, Ways
  <2> QED
    BY <1>1, <2>1, EntryOK
<1>3. rob' \in Seq(EntryType)
  BY <1>1, <1>2, Appended DEF WriteBack
<1>4. MissesType'
  BY <1>1, <1>3 DEF WriteBack, NoWb, TypeOK, MissesType, Data
<1>5. MemoryType'
  BY <1>1, SendType DEF WriteBack, TypeOK, MemoryType
<1> QED
  BY <1>4, <1>5, Kept DEF WriteBack, TypeOK, lookup, regs

LEMMA MissType ==
  ASSUME TypeOK, Miss
  PROVE  TypeOK'
<1>1. /\ Check /\ rob' = Append(rob, Entry(r.ty, r.l, r.op = "SW", r.w, n_replace))
      /\ r_rob_tag' = w_rob_tail_ptr /\ Send("LW", r.l, {}, w_rob_tail_ptr)
      /\ wb' = IF Victim.d THEN [need |-> TRUE, l |-> Victim.l, w |-> Victim.w] ELSE wb
      /\ last' = [last EXCEPT ![s] = n_replace] /\ r_mmu' = FALSE /\ ToIdle
      /\ UNCHANGED <<cache, r_mmu_mark, r_last_gnt, r_rob_head_ptr, l1, walker, flush, mem>>
  BY DEF Miss
<1>2. /\ s \in Sets /\ r.l \in Lines /\ n_replace \in Ways /\ Victim \in Copy
      /\ w_rob_tail_ptr \in Tags /\ rob \in Seq(EntryType)
      /\ r.ty \in {"L1D", "L1I", "MMU", "MARK_PTE"} /\ r.w \in Data
  BY <1>1, HitWay, TagsClosed DEF TypeOK, MissesType, LookupType, RequestType
<1>3. rob' \in Seq(EntryType)
  <2> DEFINE e == Entry(r.ty, r.l, r.op = "SW", r.w, n_replace)
  <2>1. (r.op = "SW") \in BOOLEAN
    OBVIOUS
  <2>2. e \in EntryType
    BY <1>2, <2>1 DEF Entry, EntryType, Data
  <2>3. rob' = Append(rob, e)
    BY <1>1
  <2> HIDE DEF e
  <2> QED
    BY <1>2, <2>2, <2>3, Appended
<1>4. wb' \in [need : BOOLEAN, l : Lines \cup {NoLine}, w : Data]
      /\ (wb'.need => wb'.l \in Lines)
  BY <1>1, <1>2 DEF Copy, TypeOK, MissesType
<1>5. MissesType'
  BY <1>1, <1>2, <1>3, <1>4 DEF TypeOK, MissesType
<1>6. MemoryType'
  BY <1>1, <1>2, SendType DEF TypeOK, MemoryType, Data
<1>7. ArraysType'
  BY <1>1, <1>2 DEF TypeOK, ArraysType
<1>8. LookupType'
  BY <1>1, LookupEnds DEF TypeOK, LookupType
<1>9. r_state' # "FLUSH_STORE_WAY2"
  BY <1>1 DEF ToIdle
<1> QED
  BY <1>1, <1>5, <1>6, <1>7, <1>8, <1>9, Kept DEF TypeOK

LEMMA AnswerMmuType ==
  ASSUME TypeOK, ReadOnce, AnswerMmu
  PROVE  TypeOK'
<1>1. /\ Check /\ r_mmu /\ r_mmu' = FALSE /\ r_mmu_req' = FALSE
      /\ mmu_req_addr' = NoLine /\ ToIdle /\ Touch
      /\ UNCHANGED <<cache, r_mmu_mark, r_last_gnt, misses, l1, r_pstate, mem_mark,
                 r_mmu_mark_req, flush, outside>>
  BY DEF AnswerMmu, LoadHit
<1>2. r_pstate = "PROBE_IDLE"
  BY <1>1 DEF ReadOnce
<1>3. WalkerType'
  BY <1>1, <1>2 DEF TypeOK, WalkerType
<1>4. ArraysType' /\ LookupType'
  BY <1>1, TouchType, LookupEnds DEF TypeOK, ArraysType, LookupType
<1>5. r_state' # "FLUSH_STORE_WAY2"
  BY <1>1 DEF ToIdle
<1> QED
  BY <1>1, <1>3, <1>4, <1>5, Kept DEF TypeOK

LEMMA UpdatePteType ==
  ASSUME TypeOK, MarkOnce, UpdatePte
  PROVE  TypeOK'
<1>1. /\ Check /\ w_hit /\ r_mark_pte
      /\ cache' = [cache EXCEPT ![s][way] = Written(@, w_d \cup r_mmu_mark)]
      /\ r_mmu_mark' = {} /\ mem_mark' = NoMark /\ ToIdle /\ Touch
      /\ UNCHANGED <<r_mmu, r_last_gnt, misses, l1, mmu_req_addr, r_pstate, r_mmu_req,
                 r_mmu_mark_req, flush, outside>>
  BY DEF UpdatePte, LoadHit
<1>2. ~r_mmu_mark_req
  BY <1>1 DEF MarkOnce, r_mark_pte
<1>3. WalkerType'
  BY <1>1, <1>2 DEF TypeOK, WalkerType, NoMark
<1>4. w_d \cup r_mmu_mark \in Data
  BY <1>1, HitWay DEF Data, TypeOK, LookupType
<1>5. ArraysType'
  BY <1>1, <1>4, WriteType, TouchType
<1>6. LookupType'
  BY <1>1, LookupEnds DEF TypeOK, LookupType
<1>7. r_state' # "FLUSH_STORE_WAY2"
  BY <1>1 DEF ToIdle
<1> QED
  BY <1>1, <1>3, <1>5, <1>6, <1>7, Kept DEF TypeOK

LEMMA StoreHitType ==
  ASSUME TypeOK, StoreHit
  PROVE  TypeOK'
<1>1. /\ Check /\ w_hit
      /\ cache' = [cache EXCEPT ![s][way] = Written(@, r.w)]
      /\ ToIdle /\ Touch
      /\ UNCHANGED <<r_mmu, r_mmu_mark, r_last_gnt, misses, l1, walker, flush, outside>>
  BY DEF StoreHit
<1>2. r.w \in Data
  BY DEF TypeOK, LookupType, RequestType
<1>3. ArraysType'
  BY <1>1, <1>2, WriteType, TouchType
<1>4. LookupType'
  BY <1>1, LookupEnds DEF TypeOK, LookupType
<1>5. r_state' # "FLUSH_STORE_WAY2"
  BY <1>1 DEF ToIdle
<1> QED
  BY <1>1, <1>3, <1>4, <1>5, Kept DEF TypeOK

(* An L1 cache is answered, and the L1D's next load taken at once or not.  *)
LEMMA OnwardType ==
  ASSUME TypeOK, Check, Onward, UNCHANGED <<cache, r_mmu, r_mmu_mark>>
  PROVE  /\ ArraysType' /\ LookupType' /\ r_state' # "FLUSH_STORE_WAY2"
         /\ r_mem_q' \in Seq([op : {"LW", "SW"}, l : Lines, w : Data])
<1>1. CASE ~Early /\ ToIdle /\ Touch /\ UNCHANGED <<r_mem_q, r_last_gnt>>
  <2>1. ArraysType' /\ LookupType'
    BY <1>1, TouchType, LookupEnds DEF TypeOK, ArraysType, LookupType
  <2> QED
    BY <1>1, <2>1 DEF ToIdle, TypeOK, L1Type
<1>2. CASE /\ Early /\ r_mem_q' = Tail(r_mem_q) /\ r_last_gnt' = TRUE
           /\ r' = NextOfL1D /\ UNCHANGED r_state
           /\ last' = [last EXCEPT ![SetOf[Head(r_mem_q).l]] = way]
  <2>1. r_mem_q # <<>>
    BY <1>2 DEF Early, w_l1d_req
  <2>2. /\ r' \in RequestType /\ r'.l \in Lines /\ Head(r_mem_q).l \in Lines
        /\ r_mem_q' \in Seq([op : {"LW", "SW"}, l : Lines, w : Data])
    BY <1>2, <2>1, QueueType
  <2>3. r_state' = "CHECK_VALID_AND_TAG"
    BY <1>2 DEF Check
  <2>4. LookupType'
    BY <1>2, <2>2, <2>3, LookupBegins DEF TypeOK, LookupType
  <2>5. ArraysType'
    BY <1>2, HitWay DEF TypeOK, ArraysType
  <2> QED
    BY <2>2, <2>3, <2>4, <2>5
<1> QED
  BY <1>1, <1>2 DEF Onward

(* The flush. *)
LEMMA NextSetType ==
  ASSUME TypeOK, NextSet
  PROVE  /\ r_idx' \in Sets /\ r_flush_req' \in BOOLEAN /\ r_wb_no_inv' \in BOOLEAN
         /\ r_state' \in States /\ r_state' \notin {"CHECK_VALID_AND_TAG", "FLUSH_STORE_WAY2"}
<1>1. r_idx \in Sets /\ r_flush_req \in BOOLEAN /\ r_wb_no_inv \in BOOLEAN
  BY DEF TypeOK, FlushType
<1> QED
  BY <1>1, SetsClosed DEF NextSet, States

LEMMA FlushStoreType ==
  ASSUME TypeOK, NEW l \in Lines, NEW w \in Data, FlushStore(l, w),
         UNCHANGED <<rob, r_rob_head_ptr, r_rob_tag, mem>>
  PROVE  MissesType' /\ MemoryType'
<1>1. r_rob_tag \in Tags /\ MemoryType
  BY DEF TypeOK, MissesType
<1>2. MemoryType'
  BY <1>1, SendType DEF FlushStore, MemoryType
<1>3. wb' \in [need : BOOLEAN, l : Lines \cup {NoLine}, w : Data]
      /\ (wb'.need => wb'.l \in Lines)
  BY DEF FlushStore, TypeOK, MissesType
<1> QED
  BY <1>2, <1>3 DEF TypeOK, MissesType

LEMMA CleanType ==
  ASSUME TypeOK, Clean, UNCHANGED last
  PROVE  ArraysType'
<1>1. Empty \in Copy
  BY DEF Empty, Copy, Data
<1>2. ASSUME NEW c \in Copy, c.v PROVE [c EXCEPT !.d = FALSE] \in Copy
  BY <1>2 DEF Copy
<1>3. cache[r_idx] \in [Ways -> Copy] /\ r_idx \in Sets
      /\ cache \in [Sets -> [Ways -> Copy]]
  BY DEF TypeOK, ArraysType, FlushType
<1> DEFINE new == [k \in Ways |-> IF r_wb_no_inv /\ cache[r_idx][k].v
                                  THEN [cache[r_idx][k] EXCEPT !.d = FALSE] ELSE Empty]
<1>4. new \in [Ways -> Copy]
  BY <1>1, <1>2, <1>3
<1>5. cache' = [cache EXCEPT ![r_idx] = new]
  BY DEF Clean
<1> HIDE DEF new
<1>6. cache' \in [Sets -> [Ways -> Copy]]
  BY <1>3, <1>4, <1>5
<1> QED
  BY <1>6 DEF TypeOK, ArraysType

LEMMA FlushSetType ==
  ASSUME TypeOK, FlushSet
  PROVE  TypeOK'
<1>1. /\ r_state = "FLUSH_WAIT" /\ Clean
      /\ UNCHANGED <<last, r, r_mmu, r_mmu_mark, r_last_gnt, rob, r_rob_head_ptr, r_rob_tag,
                 l1, walker, r_need_l1d, r_need_l1i, mem>>
  BY DEF FlushSet
<1>2. ArraysType' /\ L1Type' /\ WalkerType'
  BY <1>1, CleanType, Kept
<1>3. CASE ~Dirty(0) /\ ~Dirty(1) /\ NextSet /\ UNCHANGED <<way1, mem_queue, wb>>
  <2>1. LookupType'
    BY <1>1, <1>3, NextSetType DEF TypeOK, LookupType, Check
  <2>2. FlushType'
    BY <1>1, <1>3, NextSetType DEF TypeOK, FlushType
  <2>3. MissesType' /\ MemoryType'
    BY <1>1, <1>3, Kept DEF misses, outside
  <2> QED
    BY <1>2, <2>1, <2>2, <2>3 DEF TypeOK
<1>4. CASE /\ Dirty(0) \/ Dirty(1)
           /\ LET c == cache[r_idx][IF Dirty(0) THEN 0 ELSE 1] IN FlushStore(c.l, c.w)
           /\ way1' = IF Dirty(0) /\ Dirty(1) THEN cache[r_idx][1] ELSE Empty
           /\ r_state' = "FLUSH_STORE" /\ UNCHANGED <<r_flush_req, r_wb_no_inv, r_idx>>
  <2> DEFINE k == IF Dirty(0) THEN 0 ELSE 1
             c == cache[r_idx][k]
  <2>1. k \in Ways /\ 1 \in Ways /\ Dirty(k) /\ r_idx \in Sets
    BY <1>4 DEF Ways, TypeOK, FlushType
  <2>2. c \in Copy /\ cache[r_idx][1] \in Copy
    BY <2>1 DEF TypeOK, ArraysType
  <2>3. c.l \in Lines /\ c.w \in Data
    BY <2>1, <2>2 DEF Copy, Dirty
  <2>4. MissesType' /\ MemoryType'
    <3>1. FlushStore(c.l, c.w)
      BY <1>4
    <3> HIDE DEF c
    <3> QED
      BY <1>1, <2>3, <3>1, FlushStoreType
  <2>5. way1' \in Copy
    BY <1>4, <2>2 DEF Empty, Copy, Data
  <2>6. FlushType'
    BY <1>1, <1>4, <2>5 DEF TypeOK, FlushType
  <2>7. LookupType'
    BY <1>1, <1>4 DEF TypeOK, LookupType, Check, States
  <2> QED
    BY <1>2, <2>4, <2>6, <2>7 DEF TypeOK
<1> QED
  BY <1>3, <1>4 DEF FlushSet

LEMMA FlushWay2Type ==
  ASSUME TypeOK, FlushWay2
  PROVE  TypeOK'
<1>1. /\ r_state = "FLUSH_STORE_WAY2" /\ FlushStore(way1.l, way1.w) /\ way1' = Empty
      /\ r_state' = "FLUSH_STORE"
      /\ UNCHANGED <<cache, last, r, r_mmu, r_mmu_mark, r_last_gnt, rob, r_rob_head_ptr,
                 r_rob_tag, l1, walker, r_need_l1d, r_need_l1i, r_flush_req, r_wb_no_inv,
                 r_idx, mem>>
  BY DEF FlushWay2
<1>2. way1.l \in Lines /\ way1.w \in Data
  BY <1>1 DEF TypeOK, FlushType, Copy
<1>3. MissesType' /\ MemoryType'
  BY <1>1, <1>2, FlushStoreType
<1>4. FlushType'
  BY <1>1 DEF TypeOK, FlushType, Empty, Copy, Data
<1>5. LookupType'
  BY <1>1 DEF TypeOK, LookupType, Check, States
<1> QED
  BY <1>1, <1>3, <1>4, <1>5, Kept DEF TypeOK

(* The memory: the entry with the answer's tag gets the line. *)
LEMMA PerformType ==
  ASSUME TypeOK, Perform
  PROVE  /\ MemoryType' /\ Head(mem_queue) \in MemRequestType
         /\ mem[Head(mem_queue).l] \in Data
<1>1. mem \in [Lines -> Data] /\ mem_queue \in Seq(MemRequestType) /\ mem_queue # <<>>
  BY DEF TypeOK, MemoryType, Perform
<1>2. Head(mem_queue) \in MemRequestType /\ Tail(mem_queue) \in Seq(MemRequestType)
  BY <1>1, Popped
<1>3. Head(mem_queue).l \in Lines /\ Head(mem_queue).w \in Data
  BY <1>2 DEF MemRequestType
<1>4. mem' \in [Lines -> Data]
  BY <1>1, <1>3 DEF Perform
<1> QED
  BY <1>1, <1>2, <1>3, <1>4 DEF Perform, MemoryType

(* What the answer of the memory leaves of the ROB's entries.              *)
Marks(q, p) == /\ q \in Seq(EntryType) /\ DOMAIN q = DOMAIN p /\ Len(q) = Len(p)
               /\ \A i \in DOMAIN p : q[i].ty = p[i].ty /\ q[i].l = p[i].l

LEMMA MemRspRob ==
  ASSUME TypeOK, MemRsp
  PROVE  Marks(rob', rob)
<1> DEFINE t == Head(mem_queue).t
           word == mem[Head(mem_queue).l]
           New(e) == [e EXCEPT !.done = TRUE,
                               !.data = IF e.ty = "WRITEBACK" THEN {} ELSE word]
           f == [i \in DOMAIN rob |-> IF TagOf(i) = t THEN New(rob[i]) ELSE rob[i]]
<1>1. rob' = f
  BY DEF MemRsp
<1>2. word \in Data /\ {} \in Data
  BY PerformType DEF MemRsp, Data
<1>3. rob \in Seq(EntryType) /\ Len(rob) \in Nat /\ DOMAIN rob = 1 .. Len(rob)
      /\ \A i \in DOMAIN rob : rob[i] \in EntryType
  BY LenProperties, ElementOfSeq DEF TypeOK, MissesType
<1> HIDE DEF word
<1>4. ASSUME NEW e \in EntryType
      PROVE  New(e) \in EntryType /\ New(e).ty = e.ty /\ New(e).l = e.l
  <2> DEFINE d == IF e.ty = "WRITEBACK" THEN {} ELSE word
  <2>1. d \in Data
    BY <1>2
  <2> HIDE DEF d
  <2>2. New(e) = [e EXCEPT !.done = TRUE, !.data = d]
    BY DEF d
  <2> HIDE DEF New
  <2>3. New(e) = [ty |-> e.ty, l |-> e.l, st |-> e.st, w |-> e.w, way |-> e.way,
                  done |-> TRUE, data |-> d]
    BY <2>2 DEF EntryType
  <2> QED
    BY <2>1, <2>3 DEF EntryType
<1> HIDE DEF New
<1>5. ASSUME NEW i \in DOMAIN rob
      PROVE  f[i] \in EntryType /\ f[i].ty = rob[i].ty /\ f[i].l = rob[i].l
  BY <1>3, <1>4
<1>6. f \in [1 .. Len(rob) -> EntryType]
  BY <1>3, <1>5
<1>7. f \in Seq(EntryType)
  BY <1>3, <1>6, SeqDef
<1>8. DOMAIN f = DOMAIN rob
  OBVIOUS
<1> HIDE DEF f
<1>9. Len(f) = Len(rob)
  BY <1>3, <1>7, <1>8, LenProperties
<1> QED
  BY <1>1, <1>5, <1>7, <1>8, <1>9 DEF Marks

LEMMA MemRspType ==
  ASSUME TypeOK, MemRsp
  PROVE  TypeOK'
<1>1. MissesType'
  BY MemRspRob DEF Marks, MemRsp, TypeOK, MissesType
<1>2. MemoryType'
  BY PerformType DEF MemRsp
<1> QED
  BY <1>1, <1>2, Kept DEF MemRsp, TypeOK, lookup, regs

LEMMA MemRspInFlushType ==
  ASSUME TypeOK, MemRspInFlush
  PROVE  TypeOK'
<1>1. /\ r_state = "FLUSH_STORE"
      /\ UNCHANGED <<cache, last, r, r_mmu, r_mmu_mark, r_last_gnt, misses, l1, walker,
                 r_need_l1d, r_need_l1i, way1>>
      /\ \/ /\ way1.v /\ r_state' = "FLUSH_STORE_WAY2"
            /\ UNCHANGED <<r_flush_req, r_wb_no_inv, r_idx>>
         \/ NextSet
  BY DEF MemRspInFlush
<1>2. MemoryType'
  BY PerformType DEF MemRspInFlush
<1>3. FlushType'
  BY <1>1, NextSetType DEF TypeOK, FlushType
<1>4. LookupType'
  BY <1>1, NextSetType DEF TypeOK, LookupType, Check, States
<1> QED
  BY <1>1, <1>2, <1>3, <1>4, Kept DEF TypeOK

(* The requests that are taken in IDLE, and those that come.               *)
LEMMA TakeType ==
  ASSUME TypeOK, TakeMark \/ TakeMmu \/ TakeL1I \/ TakeL1D
  PROVE  TypeOK'
<1>1. CASE TakeMark
  <2>1. r' \in RequestType /\ r'.l \in Lines /\ r_mmu_mark' \in SUBSET Bits
    <3>1. mem_mark.l \in Lines /\ mem_mark.bits \in SUBSET Bits /\ {} \in Data
      BY <1>1 DEF TakeMark, TypeOK, WalkerType, Data
    <3> QED
      BY <1>1, <3>1, LookType DEF TakeMark
  <2>2. LookupType'
    BY <1>1, <2>1, LookupBegins DEF TakeMark, TypeOK, LookupType
  <2>3. WalkerType'
    BY <1>1 DEF TakeMark, TypeOK, WalkerType
  <2> QED
    BY <1>1, <2>2, <2>3, Kept DEF TakeMark, TypeOK
<1>2. CASE TakeMmu
  <2>1. r' \in RequestType /\ r'.l \in Lines
    <3>1. mmu_req_addr \in Lines /\ {} \in Data
      BY <1>2 DEF TakeMmu, TypeOK, WalkerType, Data
    <3> QED
      BY <1>2, <3>1, LookType DEF TakeMmu
  <2>2. LookupType'
    BY <1>2, <2>1, LookupBegins DEF TakeMmu, TypeOK, LookupType
  <2> QED
    BY <1>2, <2>2, Kept DEF TakeMmu, TypeOK
<1>3. CASE TakeL1I
  <2>1. r' \in RequestType /\ r'.l \in Lines
    <3>1. l1i \in Lines /\ {} \in Data
      BY <1>3 DEF TakeL1I, w_pick_l1i, w_l1i_req, TypeOK, L1Type, Data
    <3> QED
      BY <1>3, <3>1, LookType DEF TakeL1I
  <2>2. LookupType'
    BY <1>3, <2>1, LookupBegins DEF TakeL1I, TypeOK, LookupType
  <2>3. L1Type'
    BY <1>3 DEF TakeL1I, TypeOK, L1Type
  <2> QED
    BY <1>3, <2>2, <2>3, Kept DEF TakeL1I, TypeOK
<1>4. CASE TakeL1D
  <2>1. r_mem_q # <<>>
    BY <1>4 DEF TakeL1D, w_pick_l1d, w_l1d_req
  <2>2. r' \in RequestType /\ r'.l \in Lines
        /\ r_mem_q' \in Seq([op : {"LW", "SW"}, l : Lines, w : Data])
    BY <1>4, <2>1, QueueType DEF TakeL1D
  <2>3. LookupType'
    BY <1>4, <2>2, LookupBegins DEF TakeL1D, TypeOK, LookupType
  <2>4. L1Type'
    BY <1>4, <2>2 DEF TakeL1D, TypeOK, L1Type
  <2> QED
    BY <1>4, <2>3, <2>4, Kept DEF TakeL1D, TypeOK
<1> QED
  BY <1>1, <1>2, <1>3, <1>4

LEMMA ClientType ==
  ASSUME TypeOK, L1Request \/ ProbeAck \/ WalkerRequests \/ FlushRequests
  PROVE  TypeOK'
<1>1. ASSUME NEW l \in Lines, NEW op \in {"LW", "SW"}, NEW w \in Data,
             L1DRequest(op, l, w)
      PROVE  TypeOK'
  <2>1. r_mem_q' \in Seq([op : {"LW", "SW"}, l : Lines, w : Data])
    BY <1>1 DEF L1DRequest, L1DReq, TypeOK, L1Type
  <2>2. L1Type'
    BY <1>1, <2>1 DEF L1DRequest, TypeOK, L1Type
  <2> QED
    BY <1>1, <2>2, Kept DEF L1DRequest, TypeOK, lookup, regs
<1>2. ASSUME NEW l \in Lines, L1IRequest(l)
      PROVE  TypeOK'
  <2>1. L1Type'
    BY <1>2 DEF L1IRequest, TypeOK, L1Type
  <2> QED
    BY <1>2, <2>1, Kept DEF L1IRequest, TypeOK, lookup, regs
<1>3. CASE L1Request
  <2>1. L1DReads \subseteq Lines /\ L1DWrites \subseteq Lines /\ L1IReads \subseteq Lines
        /\ StoreData \subseteq Data /\ {} \in Data
    BY L2Assumption DEF Data
  <2> QED
    BY <1>1, <1>2, <1>3, <2>1 DEF L1Request
<1>4. CASE ProbeAck
  <2>1. WalkerType'
    BY <1>4 DEF ProbeAck, TypeOK, WalkerType
  <2> QED
    BY <1>4, <2>1, Kept DEF ProbeAck, TypeOK, lookup, regs
<1>5. CASE WalkerRequests
  <2>1. WalkerType'
    <3>1. ASSUME NEW l \in Lines, MmuRequest(l) PROVE WalkerType'
      BY <3>1 DEF MmuRequest, TypeOK, WalkerType
    <3>2. ASSUME NEW l \in Lines, NEW bits \in SUBSET Bits, MemMark(l, bits)
          PROVE  WalkerType'
      BY <3>2 DEF MemMark, TypeOK, WalkerType
    <3> QED
      BY <1>5, <3>1, <3>2 DEF WalkerRequests
  <2>2. UNCHANGED <<lookup, misses, l1, flush, outside>>
    BY <1>5 DEF WalkerRequests, MmuRequest, MemMark
  <2> QED
    BY <2>1, <2>2, Kept DEF TypeOK, lookup, regs
<1>6. CASE FlushRequests
  <2>1. FlushType'
    BY <1>6 DEF FlushRequests, RequestFlush, L1DFlushed, L1IFlushed, TypeOK, FlushType,
                lookup
  <2>2. UNCHANGED <<lookup, misses, l1, walker, outside>>
    BY <1>6 DEF FlushRequests, RequestFlush, L1DFlushed, L1IFlushed
  <2> QED
    BY <2>1, <2>2, Kept DEF TypeOK, lookup, regs
<1> QED
  BY <1>3, <1>4, <1>5, <1>6

LEMMA TypeStep ==
  ASSUME TypeOK, ReadOnce, MarkOnce, FetchOnce, [Next]_vars
  PROVE  TypeOK'
<1>1. CASE PopWriteback
  <2>1. MissesType'
    BY <1>1, PopType DEF PopWriteback, w_head_of_rob_done
  <2>2. LookupType'
    BY <1>1 DEF PopWriteback, TypeOK, LookupType, Check
  <2> QED
    BY <1>1, <2>1, <2>2, Kept DEF PopWriteback, TypeOK
<1>2. CASE AnswerL1D
  <2>1. Check /\ Onward /\ UNCHANGED <<cache, r_mmu, r_mmu_mark>>
    BY <1>2 DEF AnswerL1D, LoadHit
  <2>2. L1Type'
    BY <1>2, <2>1, OnwardType DEF AnswerL1D, TypeOK, L1Type
  <2> QED
    BY <1>2, <2>1, <2>2, OnwardType, Kept DEF AnswerL1D, TypeOK
<1>3. CASE AnswerL1I
  <2>1. Check /\ Onward /\ UNCHANGED <<cache, r_mmu, r_mmu_mark>>
    BY <1>3 DEF AnswerL1I, LoadHit
  <2>2. ~r_l1i_req
    BY <1>3, <2>1 DEF AnswerL1I, FetchOnce
  <2>3. L1Type'
    BY <1>3, <2>1, <2>2, OnwardType DEF AnswerL1I, TypeOK, L1Type
  <2> QED
    BY <1>3, <2>1, <2>3, OnwardType, Kept DEF AnswerL1I, TypeOK
<1>4. CASE StartFlush
  <2>1. FlushType'
    BY <1>4, SetsClosed DEF StartFlush, TypeOK, FlushType
  <2>2. LookupType'
    BY <1>4 DEF StartFlush, TypeOK, LookupType, Check, States
  <2> QED
    BY <1>4, <2>1, <2>2, Kept DEF StartFlush, TypeOK
<1>5. CASE Tick \/ UNCHANGED vars
  BY <1>5, Kept DEF Tick, vars, TypeOK, lookup, regs
<1> QED
  BY <1>1, <1>2, <1>3, <1>4, <1>5, FillType, WriteBackType, TakeType, AnswerMmuType,
     UpdatePteType, StoreHitType, MissType, FlushSetType, FlushWay2Type, MemRspType,
     MemRspInFlushType, ClientType DEF Next, Engine

-----------------------------------------------------------------------------
(* The set interlock and the room in the ROB.                              *)

(* The steps that neither begin a lookup nor change the lines in the ROB.  *)
Quiet == /\ Marks(rob', rob) /\ UNCHANGED <<r, r_mmu, r_mmu_mark, r_last_gnt>>
         /\ Check' => Check

LEMMA SameRob ==
  ASSUME TypeOK, UNCHANGED rob
  PROVE  Marks(rob', rob)
  BY DEF Marks, TypeOK, MissesType

(* A write back finds the ROB empty; a miss enters the request looked up.  *)
LEMMA Enters ==
  ASSUME TypeOK, WriteBack \/ Miss
  PROVE  \E e \in EntryType :
           /\ rob' = Append(rob, e) /\ ~Check'
           /\ \/ WriteBack /\ rob = <<>> /\ e.ty = "WRITEBACK"
              \/ Miss /\ e.ty = r.ty /\ e.l = r.l
<1>1. CASE WriteBack
  <2> DEFINE e == Entry("WRITEBACK", wb.l, FALSE, {}, 0)
  <2>1. {} \in Data /\ 0 \in Ways /\ wb.l \in Lines
    BY <1>1 DEF WriteBack, MustWriteBack, TypeOK, MissesType, Data, Ways
  <2>2. e \in EntryType /\ e.ty = "WRITEBACK"
    BY <2>1 DEF Entry, EntryType
  <2>3. rob' = Append(rob, e) /\ rob = <<>> /\ ~Check'
    BY <1>1 DEF WriteBack, MustWriteBack, Idle, lookup, Check
  <2> HIDE DEF e
  <2> QED
    BY <1>1, <2>2, <2>3
<1>2. CASE Miss
  <2> DEFINE st == r.op = "SW"
             e == Entry(r.ty, r.l, st, r.w, n_replace)
  <2>1. r.ty \in {"L1D", "L1I", "MMU", "MARK_PTE"} /\ r.w \in Data /\ r.l \in Lines
        /\ n_replace \in Ways /\ st \in BOOLEAN
    BY <1>2, HitWay DEF Miss, TypeOK, LookupType, RequestType
  <2>2. rob' = Append(rob, e) /\ ~Check'
    BY <1>2 DEF Miss, ToIdle, Check
  <2> HIDE DEF st
  <2>3. e \in EntryType /\ e.ty = r.ty /\ e.l = r.l
    BY <2>1, EntryOK
  <2> HIDE DEF e
  <2> QED
    BY <1>2, <2>2, <2>3
<1> QED
  BY <1>1, <1>2

LEMMA Shapes ==
  ASSUME TypeOK, [Next]_vars
  PROVE  \/ Quiet \/ PopWriteback \/ Fill \/ WriteBack \/ TakeMark \/ TakeMmu
         \/ TakeL1I \/ TakeL1D \/ AnswerMmu \/ UpdatePte \/ AnswerL1D \/ AnswerL1I
         \/ StoreHit \/ Miss
<1>1. CASE StartFlush \/ FlushSet \/ FlushWay2 \/ MemRspInFlush
  <2>1. UNCHANGED <<rob, r, r_mmu, r_mmu_mark, r_last_gnt>>
    BY <1>1 DEF StartFlush, FlushSet, FlushWay2, MemRspInFlush, misses
  <2>2. r_state' # "CHECK_VALID_AND_TAG"
    BY <1>1 DEF StartFlush, FlushSet, FlushWay2, MemRspInFlush, NextSet
  <2> QED
    BY <2>1, <2>2, SameRob DEF Quiet, Check
<1>2. CASE MemRsp
  BY <1>2, MemRspRob DEF MemRsp, Quiet, lookup, Check
<1>3. CASE Tick \/ ProbeAck \/ L1Request \/ FlushRequests \/ WalkerRequests \/ UNCHANGED vars
  <2>1. UNCHANGED <<lookup, rob>>
    BY <1>3 DEF Tick, ProbeAck, L1Request, L1DRequest, L1IRequest, FlushRequests,
                RequestFlush, L1DFlushed, L1IFlushed, WalkerRequests, MmuRequest, MemMark,
                vars, misses
  <2> QED
    BY <2>1, SameRob DEF Quiet, lookup, Check
<1> QED
  BY <1>1, <1>2, <1>3 DEF Next, Engine

LEMMA RobStep ==
  ASSUME TypeOK, SetInterlock, RobHasRoom, [Next]_vars
  PROVE  SetInterlock' /\ RobHasRoom'
<1>0. rob \in Seq(EntryType) /\ Len(rob) \in Nat /\ DOMAIN rob = 1 .. Len(rob) /\ N \in Nat \ {0}
  BY LenProperties, L2Assumption DEF TypeOK, MissesType
<1>1. CASE Quiet
  <2>1. Len(rob') = Len(rob) /\ DOMAIN rob' = DOMAIN rob
        /\ \A i \in DOMAIN rob : rob'[i].l = rob[i].l
    BY <1>1 DEF Quiet, Marks
  <2> QED
    BY <1>1, <2>1 DEF Quiet, SetInterlock, RobHasRoom, SetFree
<1>2. CASE PopWriteback \/ Fill
  <2>1. rob # <<>> /\ rob' = Tail(rob) /\ (Check' => r'.l = rob[1].l)
    <3>1. CASE PopWriteback
      BY <3>1 DEF PopWriteback, PopRob, w_head_of_rob_done, Check
    <3>2. CASE Fill
      BY <3>2 DEF Fill, PopRob, w_head_of_rob_done, Look
    <3> QED
      BY <1>2, <3>1, <3>2
  <2>2. /\ 1 \in DOMAIN rob /\ Len(rob') = Len(rob) - 1
        /\ \A i \in DOMAIN rob' : i + 1 \in DOMAIN rob /\ i + 1 # 1 /\ rob'[i] = rob[i + 1]
        /\ DOMAIN rob' = 1 .. Len(rob')
    BY <1>0, <2>1, Popped, LenProperties
  <2>3. \A i, j \in DOMAIN rob' : SetOf[rob'[i].l] = SetOf[rob'[j].l] => i = j
    <3> SUFFICES ASSUME NEW i \in DOMAIN rob', NEW j \in DOMAIN rob',
                        SetOf[rob'[i].l] = SetOf[rob'[j].l]
                 PROVE  i = j
      OBVIOUS
    <3>1. i + 1 = j + 1
      BY <2>2 DEF SetInterlock
    <3> QED
      BY <2>2, <3>1
  <2>4. \A i \in DOMAIN rob' : SetOf[rob'[i].l] # SetOf[rob[1].l]
    BY <2>2 DEF SetInterlock
  <2> QED
    BY <1>0, <2>1, <2>2, <2>3, <2>4 DEF SetInterlock, RobHasRoom, SetFree
<1>3. CASE WriteBack \/ Miss
  <2>1. PICK e \in EntryType : /\ rob' = Append(rob, e) /\ ~Check' /\ Len(rob) < N
                               /\ \A i \in DOMAIN rob : SetOf[rob[i].l] # SetOf[e.l]
    <3>1. PICK e \in EntryType :
            /\ rob' = Append(rob, e) /\ ~Check'
            /\ \/ WriteBack /\ rob = <<>> /\ e.ty = "WRITEBACK"
               \/ Miss /\ e.ty = r.ty /\ e.l = r.l
      BY <1>3, Enters
    <3>2. Len(rob) < N /\ \A i \in DOMAIN rob : SetOf[rob[i].l] # SetOf[e.l]
      <4>1. CASE WriteBack /\ rob = <<>>
        BY <1>0, <4>1 DEF WriteBack, Idle
      <4>2. CASE Miss /\ e.l = r.l
        <5>1. Check
          BY <4>2 DEF Miss
        <5> QED
          BY <4>2, <5>1 DEF SetInterlock, RobHasRoom, SetFree
      <4> QED
        BY <3>1, <4>1, <4>2
    <3> QED
      BY <3>1, <3>2
  <2>2. /\ Len(rob') = Len(rob) + 1 /\ DOMAIN rob' = DOMAIN rob \cup {Len(rob) + 1}
        /\ \A i \in DOMAIN rob : rob'[i] = rob[i]
        /\ rob'[Len(rob) + 1] = e
    BY <1>0, <2>1, Appended
  <2>3. \A i, j \in DOMAIN rob' : SetOf[rob'[i].l] = SetOf[rob'[j].l] => i = j
    BY <2>1, <2>2 DEF SetInterlock
  <2> QED
    BY <1>0, <2>1, <2>2, <2>3 DEF SetInterlock, RobHasRoom
<1>4. CASE TakeMark \/ TakeMmu \/ TakeL1I \/ TakeL1D
  <2>1. UNCHANGED rob /\ Len(rob) < N
    BY <1>4 DEF TakeMark, TakeMmu, TakeL1I, TakeL1D, L1Turn, Idle, misses
  <2>2. SetFree(r'.l)
    <3>1. CASE TakeMark \/ TakeMmu
      BY <3>1 DEF TakeMark, TakeMmu, Calm, SetFree
    <3>2. CASE TakeL1I
      BY <3>2 DEF TakeL1I, w_pick_l1i, w_l1i_req, Look
    <3>3. CASE TakeL1D
      BY <3>3 DEF TakeL1D, w_pick_l1d, w_l1d_req, NextOfL1D, Look
    <3> QED
      BY <1>4, <3>1, <3>2, <3>3
  <2> QED
    BY <2>1, <2>2 DEF SetInterlock, RobHasRoom, SetFree
<1>5. CASE AnswerL1D \/ AnswerL1I
  <2>1. UNCHANGED rob /\ Check /\ Onward
    BY <1>5 DEF AnswerL1D, AnswerL1I, LoadHit, misses
  <2>2. Check' => SetFree(r'.l)
    BY <2>1 DEF Onward, Early, w_l1d_req, NextOfL1D, Look, ToIdle, Check
  <2> QED
    BY <2>1, <2>2 DEF SetInterlock, RobHasRoom, SetFree
<1>6. CASE AnswerMmu \/ UpdatePte \/ StoreHit
  <2>1. UNCHANGED rob /\ ~Check'
    BY <1>6 DEF AnswerMmu, UpdatePte, StoreHit, misses, ToIdle, Check
  <2> QED
    BY <2>1 DEF SetInterlock, RobHasRoom
<1> QED
  BY Shapes, <1>1, <1>2, <1>3, <1>4, <1>5, <1>6

-----------------------------------------------------------------------------
(* Each request of the walker and of the L1I is in one place.              *)

LEMMA Frames ==
  ASSUME [Next]_vars
  PROVE  /\ \/ UNCHANGED <<r_mmu_req, r_pstate>> \/ AnswerMmu \/ ProbeAck
            \/ \E l \in Lines : MmuRequest(l)
         /\ \/ UNCHANGED <<mem_mark, r_mmu_mark_req, r_mmu_mark>> \/ TakeMark \/ UpdatePte
            \/ \E l \in Lines, bits \in (SUBSET Bits) \ {{}} : MemMark(l, bits)
         /\ \/ UNCHANGED <<l1i, r_l1i_req>> \/ TakeL1I \/ AnswerL1I
            \/ \E l \in L1IReads : L1IRequest(l)
<1>1. CASE Engine
  BY <1>1 DEF Engine, PopWriteback, Fill, WriteBack, TakeMark, TakeMmu, TakeL1I, TakeL1D,
     AnswerMmu, UpdatePte, AnswerL1D, AnswerL1I, StoreHit, Miss, StartFlush, FlushSet,
     FlushWay2, MemRsp, MemRspInFlush, lookup, l1, walker
<1>2. CASE Tick \/ ProbeAck \/ L1Request \/ FlushRequests \/ WalkerRequests \/ UNCHANGED vars
  BY <1>2 DEF Tick, ProbeAck, L1Request, L1DRequest, L1IRequest, FlushRequests,
     RequestFlush, L1DFlushed, L1IFlushed, WalkerRequests, MmuRequest, MemMark, vars,
     lookup, l1, walker
<1> QED
  BY <1>1, <1>2 DEF Next

(* The kinds of the entries after a pop and after one enters.              *)
LEMMA PopKinds ==
  ASSUME TypeOK, rob # <<>>, rob' = Tail(rob)
  PROVE  /\ 1 \in DOMAIN rob /\ Head(rob) = rob[1]
         /\ \A i \in DOMAIN rob' : /\ i \in Int /\ i + 1 \in DOMAIN rob /\ i + 1 # 1
                                   /\ rob'[i] = rob[i + 1]
<1>1. rob \in Seq(EntryType) /\ Tail(rob) \in Seq(EntryType)
  BY Popped DEF TypeOK, MissesType
<1>2. DOMAIN rob' = 1 .. Len(rob')
  BY <1>1, LenProperties
<1> QED
  BY <1>1, <1>2, Popped

LEMMA EnterKinds ==
  ASSUME TypeOK, NEW e \in EntryType, rob' = Append(rob, e)
  PROVE  \E n \in Nat : /\ n \notin DOMAIN rob /\ DOMAIN rob' = DOMAIN rob \cup {n}
                        /\ rob'[n] = e /\ \A i \in DOMAIN rob : rob'[i] = rob[i]
<1>1. rob \in Seq(EntryType) /\ Len(rob) + 1 \in Nat
  BY LenProperties DEF TypeOK, MissesType
<1> QED
  BY <1>1, Appended

LEMMA ReadStep ==
  ASSUME TypeOK, ReadOnce, [Next]_vars
  PROVE  ReadOnce'
<1>0. UNCHANGED <<r_mmu_req, r_pstate>> \/ AnswerMmu \/ ProbeAck
      \/ \E l \in Lines : MmuRequest(l)
  BY Frames
<1>1. CASE AnswerMmu
  <2>1. UNCHANGED <<rob, r_pstate>> /\ r_mmu /\ r_mmu' = FALSE /\ r_mmu_req' = FALSE /\ ~Check'
    BY <1>1 DEF AnswerMmu, LoadHit, misses, ToIdle, Check
  <2> QED
    BY <2>1 DEF ReadOnce
<1>2. CASE ProbeAck \/ \E l \in Lines : MmuRequest(l)
  <2>1. UNCHANGED <<rob, r_state, r, r_mmu>>
    BY <1>2 DEF ProbeAck, MmuRequest, misses, lookup
  <2>2. ~r_mmu_req /\ (r_mmu_req' => r_pstate' = "PROBE_IDLE")
    BY <1>2, L2Assumption DEF ProbeAck, MmuRequest, ReadOnce, WalkerIdle, TypeOK, WalkerType
  <2> QED
    BY <2>1, <2>2 DEF ReadOnce, Check
<1>3. CASE UNCHANGED <<r_mmu_req, r_pstate>>
  <2>1. CASE Quiet
    <3>1. DOMAIN rob' = DOMAIN rob /\ \A i \in DOMAIN rob : rob'[i].ty = rob[i].ty
      BY <2>1 DEF Quiet, Marks
    <3> QED
      BY <1>3, <2>1, <3>1 DEF Quiet, ReadOnce
  <2>2. CASE PopWriteback \/ Fill
    <3>1. rob # <<>> /\ rob' = Tail(rob) /\ r_mmu' = (Fill /\ Head(rob).ty = "MMU")
          /\ (Check' => r'.ty = Head(rob).ty /\ Fill)
          /\ (PopWriteback => Head(rob).ty = "WRITEBACK")
      <4>1. CASE PopWriteback
        BY <4>1 DEF PopWriteback, Fill, PopRob, w_head_of_rob_done, Check
      <4>2. CASE Fill
        BY <4>2 DEF PopWriteback, Fill, PopRob, w_head_of_rob_done, Check, Look
      <4> QED
        BY <2>2, <4>1, <4>2
    <3>2. 1 \in DOMAIN rob /\ Head(rob) = rob[1]
          /\ \A i \in DOMAIN rob' : i \in Int /\ i + 1 \in DOMAIN rob /\ i + 1 # 1
                                    /\ rob'[i] = rob[i + 1]
      BY <3>1, PopKinds
    <3>3. ASSUME NEW i \in DOMAIN rob', NEW j \in DOMAIN rob', rob'[i].ty = "MMU",
                 rob'[j].ty = "MMU"
          PROVE  i = j
      <4>1. i + 1 = j + 1
        BY <3>2, <3>3 DEF ReadOnce
      <4> QED
        BY <3>2, <4>1
    <3>4. r_mmu' => \A i \in DOMAIN rob' : rob'[i].ty # "MMU"
      BY <3>1, <3>2 DEF ReadOnce
    <3>5. r_mmu' \/ (\E i \in DOMAIN rob' : rob'[i].ty = "MMU") => r_mmu_req'
      BY <1>3, <3>1, <3>2 DEF ReadOnce
    <3> QED
      BY <1>3, <3>1, <3>3, <3>4, <3>5 DEF ReadOnce
  <2>3. CASE WriteBack \/ Miss
    <3>1. PICK e \in EntryType :
            /\ rob' = Append(rob, e) /\ ~Check'
            /\ \/ WriteBack /\ rob = <<>> /\ e.ty = "WRITEBACK"
               \/ Miss /\ e.ty = r.ty /\ e.l = r.l
      BY <2>3, Enters
    <3>2. PICK n \in Nat : /\ n \notin DOMAIN rob /\ DOMAIN rob' = DOMAIN rob \cup {n}
                           /\ rob'[n] = e /\ \A i \in DOMAIN rob : rob'[i] = rob[i]
      BY <3>1, EnterKinds
    <3>3. CASE WriteBack /\ e.ty = "WRITEBACK"
      <4>1. UNCHANGED r_mmu
        BY <3>3 DEF WriteBack, lookup
      <4> QED
        BY <1>3, <3>1, <3>2, <3>3, <4>1 DEF ReadOnce
    <3>4. CASE Miss /\ e.ty = r.ty
      <4>1. r_mmu' = FALSE /\ Check
        BY <3>4 DEF Miss
      <4> QED
        BY <1>3, <3>1, <3>2, <3>4, <4>1 DEF ReadOnce
    <3> QED
      BY <3>1, <3>3, <3>4
  <2>4. CASE TakeMmu
    <3>1. UNCHANGED rob /\ rob = <<>> /\ r_mmu' = TRUE /\ r_mmu_req
      BY <2>4 DEF TakeMmu, Calm, misses
    <3> QED
      BY <1>3, <3>1 DEF ReadOnce
  <2>5. CASE TakeMark \/ TakeL1I \/ TakeL1D \/ UpdatePte \/ AnswerL1D \/ AnswerL1I \/ StoreHit
    <3>1. UNCHANGED <<rob, r_mmu>> /\ (Check' => r'.ty # "MMU")
      BY <2>5 DEF TakeMark, TakeL1I, TakeL1D, UpdatePte, AnswerL1D, AnswerL1I, StoreHit,
         Onward, NextOfL1D, Look, ToIdle, Check, misses
    <3> QED
      BY <1>3, <3>1 DEF ReadOnce
  <2> QED
    BY Shapes, <1>1, <2>1, <2>2, <2>3, <2>4, <2>5
<1> QED
  BY <1>0, <1>1, <1>2, <1>3

LEMMA MarkStep ==
  ASSUME TypeOK, MarkOnce, [Next]_vars
  PROVE  MarkOnce'
<1>0. UNCHANGED <<mem_mark, r_mmu_mark_req, r_mmu_mark>> \/ TakeMark \/ UpdatePte
      \/ \E l \in Lines, bits \in (SUBSET Bits) \ {{}} : MemMark(l, bits)
  BY Frames
<1>1. CASE UNCHANGED <<mem_mark, r_mmu_mark_req, r_mmu_mark>>
  BY <1>1 DEF MarkOnce
<1>2. CASE TakeMark
  BY <1>2 DEF TakeMark, MarkOnce, TypeOK, WalkerType
<1>3. CASE UpdatePte
  BY <1>3 DEF UpdatePte, MarkOnce, r_mark_pte
<1>4. ASSUME NEW l \in Lines, NEW bits \in (SUBSET Bits) \ {{}}, MemMark(l, bits)
      PROVE  MarkOnce'
  <2>1. mem_mark.l \notin Lines
    BY <1>4, L2Assumption DEF MemMark, WalkerIdle, NoMark
  <2> QED
    BY <1>4, <2>1 DEF MemMark, MarkOnce, lookup
<1> QED
  BY <1>0, <1>1, <1>2, <1>3, <1>4

LEMMA FetchStep ==
  ASSUME TypeOK, MarkOnce, FetchOnce, [Next]_vars
  PROVE  FetchOnce'
<1>0. UNCHANGED <<l1i, r_l1i_req>> \/ TakeL1I \/ AnswerL1I \/ \E l \in L1IReads : L1IRequest(l)
  BY Frames
<1>1. CASE TakeL1I
  <2>1. UNCHANGED <<rob, l1i, r_mmu, r_mmu_mark>> /\ r_l1i_req /\ ~r_l1i_req'
        /\ r'.ty = "L1I"
    BY <1>1 DEF TakeL1I, w_pick_l1i, w_l1i_req, Look, misses
  <2>2. l1i \in Lines /\ l1i # NoLine
    BY <2>1, L2Assumption DEF TypeOK, L1Type
  <2> QED
    BY <2>1, <2>2 DEF FetchOnce
<1>2. CASE AnswerL1I
  <2>1. UNCHANGED <<rob, r_mmu, r_mmu_mark, r_l1i_req>> /\ r.ty = "L1I" /\ Check /\ Onward
    BY <1>2 DEF AnswerL1I, LoadHit, misses, FetchOnce
  <2>2. Check' => r'.ty = "L1D" /\ r_last_gnt'
    BY <2>1 DEF Onward, NextOfL1D, Look, ToIdle, Check
  <2> QED
    BY <2>1, <2>2 DEF FetchOnce
<1>3. ASSUME NEW l \in L1IReads, L1IRequest(l)
      PROVE  FetchOnce'
  <2>1. UNCHANGED <<rob, r_state, r, r_mmu, r_mmu_mark, r_last_gnt>> /\ l1i = NoLine
    BY <1>3 DEF L1IRequest, misses, lookup
  <2>2. (Check /\ r.ty = "L1I") \/ (\E i \in DOMAIN rob : rob[i].ty = "L1I") => FALSE
    BY <2>1 DEF FetchOnce
  <2> QED
    BY <2>1, <2>2 DEF FetchOnce, Check, r_mark_pte
<1>4. CASE UNCHANGED <<l1i, r_l1i_req>>
  <2>1. CASE Quiet
    <3>1. DOMAIN rob' = DOMAIN rob /\ \A i \in DOMAIN rob : rob'[i].ty = rob[i].ty
      BY <2>1 DEF Quiet, Marks
    <3> QED
      BY <1>4, <2>1, <3>1 DEF Quiet, FetchOnce, r_mark_pte
  <2>2. CASE PopWriteback \/ Fill
    <3>1. rob # <<>> /\ rob' = Tail(rob) /\ (Check' => r'.ty = Head(rob).ty)
          /\ (Check' /\ ~r_mmu' /\ ~r_last_gnt' => r'.ty = "L1I")
      <4>1. CASE PopWriteback
        BY <4>1 DEF PopWriteback, PopRob, w_head_of_rob_done, Check
      <4>2. CASE Fill
        BY <4>2 DEF Fill, PopRob, w_head_of_rob_done, Check, Look
      <4> QED
        BY <2>2, <4>1, <4>2
    <3>2. 1 \in DOMAIN rob /\ Head(rob) = rob[1]
          /\ \A i \in DOMAIN rob' : i \in Int /\ i + 1 \in DOMAIN rob /\ i + 1 # 1
                                    /\ rob'[i] = rob[i + 1]
      BY <3>1, PopKinds
    <3>3. ASSUME NEW i \in DOMAIN rob', NEW j \in DOMAIN rob', rob'[i].ty = "L1I",
                 rob'[j].ty = "L1I"
          PROVE  i = j
      <4>1. i + 1 = j + 1
        BY <3>2, <3>3 DEF FetchOnce
      <4> QED
        BY <3>2, <4>1
    <3>4. Check' /\ r'.ty = "L1I" => \A i \in DOMAIN rob' : rob'[i].ty # "L1I"
      BY <3>1, <3>2 DEF FetchOnce
    <3>5. (Check' /\ r'.ty = "L1I") \/ (\E i \in DOMAIN rob' : rob'[i].ty = "L1I") =>
            ~r_l1i_req' /\ l1i' # NoLine
      BY <1>4, <3>1, <3>2 DEF FetchOnce
    <3> QED
      BY <3>1, <3>3, <3>4, <3>5 DEF FetchOnce
  <2>3. CASE WriteBack \/ Miss
    <3>1. PICK e \in EntryType :
            /\ rob' = Append(rob, e) /\ ~Check'
            /\ \/ WriteBack /\ rob = <<>> /\ e.ty = "WRITEBACK"
               \/ Miss /\ e.ty = r.ty /\ e.l = r.l
      BY <2>3, Enters
    <3>2. PICK n \in Nat : /\ n \notin DOMAIN rob /\ DOMAIN rob' = DOMAIN rob \cup {n}
                           /\ rob'[n] = e /\ \A i \in DOMAIN rob : rob'[i] = rob[i]
      BY <3>1, EnterKinds
    <3>3. e.ty = "WRITEBACK" \/ (Check /\ e.ty = r.ty)
      BY <3>1 DEF Miss
    <3> QED
      BY <1>4, <3>1, <3>2, <3>3 DEF FetchOnce
  <2>4. CASE TakeMark
    <3>1. UNCHANGED rob /\ rob = <<>> /\ r'.ty = "MARK_PTE" /\ r_mmu_mark' # {}
      BY <2>4 DEF TakeMark, Calm, Look, misses, MarkOnce
    <3> QED
      BY <1>4, <3>1 DEF FetchOnce, r_mark_pte
  <2>5. CASE TakeMmu \/ TakeL1D \/ AnswerL1D
    <3>1. UNCHANGED rob /\ (Check' => r'.ty \in {"MMU", "L1D"} /\ (r_mmu' \/ r_last_gnt'))
      BY <2>5 DEF TakeMmu, TakeL1D, AnswerL1D, Onward, NextOfL1D, Look, ToIdle, Check, misses
    <3> QED
      BY <1>4, <3>1 DEF FetchOnce
  <2>6. CASE AnswerMmu \/ UpdatePte \/ StoreHit
    <3>1. UNCHANGED rob /\ ~Check'
      BY <2>6 DEF AnswerMmu, UpdatePte, StoreHit, misses, ToIdle, Check
    <3> QED
      BY <1>4, <3>1 DEF FetchOnce
  <2> QED
    BY Shapes, <1>1, <1>2, <2>1, <2>2, <2>3, <2>4, <2>5, <2>6
<1> QED
  BY <1>0, <1>1, <1>2, <1>3, <1>4

-----------------------------------------------------------------------------
(* The arrays: lines in their set, in one way, and not while fetched.      *)

(* The steps that put no line into the arrays. *)
NoNewLine == \A i \in Sets, k \in Ways :
  cache'[i][k].v => cache[i][k].v /\ cache'[i][k].l = cache[i][k].l

LEMMA ArraysFrame ==
  ASSUME TypeOK, [Next]_vars
  PROVE  NoNewLine \/ Fill
<1>1. CASE UNCHANGED cache
  BY <1>1 DEF NoNewLine
<1>2. CASE UpdatePte
  <2>1. w_d \cup r_mmu_mark \in Data /\ Check /\ w_hit
    BY <1>2, HitWay DEF UpdatePte, LoadHit, TypeOK, LookupType, Data
  <2> QED
    BY <1>2, <2>1, WriteType DEF UpdatePte, NoNewLine
<1>3. CASE StoreHit
  <2>1. r.w \in Data /\ Check /\ w_hit
    BY <1>3 DEF StoreHit, TypeOK, LookupType, RequestType
  <2> QED
    BY <1>3, <2>1, WriteType DEF StoreHit, NoNewLine
<1>4. CASE FlushSet
  <2>1. cache \in [Sets -> [Ways -> Copy]] /\ r_idx \in Sets /\ Clean
    BY <1>4 DEF FlushSet, TypeOK, ArraysType, FlushType
  <2>2. ASSUME NEW i \in Sets, NEW k \in Ways, cache'[i][k].v
        PROVE  cache[i][k].v /\ cache'[i][k].l = cache[i][k].l
    <3>1. CASE i # r_idx
      BY <2>1, <2>2, <3>1 DEF Clean
    <3>2. CASE i = r_idx
      <4>1. cache'[i][k] = IF r_wb_no_inv /\ cache[i][k].v
                           THEN [cache[i][k] EXCEPT !.d = FALSE] ELSE Empty
        BY <2>1, <3>2 DEF Clean
      <4>2. ~Empty.v
        BY DEF Empty
      <4>3. cache[i][k] \in Copy
        BY <2>1
      <4>4. cache[i][k].v /\ cache'[i][k] = [cache[i][k] EXCEPT !.d = FALSE]
        BY <2>2, <4>1, <4>2
      <4> QED
        BY <4>3, <4>4 DEF Copy
    <3> QED
      BY <3>1, <3>2
  <2> QED
    BY <2>2 DEF NoNewLine
<1>5. CASE ~UpdatePte /\ ~StoreHit /\ ~FlushSet /\ ~Fill
  <2>1. UNCHANGED cache
    <3>1. CASE Engine
      BY <1>5, <3>1 DEF Engine, PopWriteback, WriteBack, TakeMark, TakeMmu, TakeL1I,
         TakeL1D, AnswerMmu, AnswerL1D, AnswerL1I, Miss, StartFlush, FlushWay2, MemRsp,
         MemRspInFlush, lookup
    <3>2. CASE Tick \/ ProbeAck \/ L1Request \/ FlushRequests \/ WalkerRequests
               \/ UNCHANGED vars
      BY <3>2 DEF Tick, ProbeAck, L1Request, L1DRequest, L1IRequest, FlushRequests,
         RequestFlush, L1DFlushed, L1IFlushed, WalkerRequests, MmuRequest, MemMark, vars,
         lookup
    <3> QED
      BY <3>1, <3>2 DEF Next
  <2> QED
    BY <1>1, <2>1
<1> QED
  BY <1>2, <1>3, <1>4, <1>5

(* The line popped is in the way chosen for it, and nothing else changed.  *)
LEMMA Filled ==
  ASSUME TypeOK, NotCached, Fill
  PROVE  LET e == Head(rob) IN
         /\ rob # <<>> /\ rob' = Tail(rob) /\ e \in EntryType /\ r'.l = e.l
         /\ SetOf[e.l] \in Sets /\ e.way \in Ways /\ ~Cached(e.l) /\ UNCHANGED wb
         /\ cache'[SetOf[e.l]][e.way].v /\ cache'[SetOf[e.l]][e.way].l = e.l
         /\ \A i \in Sets, k \in Ways :
              i # SetOf[e.l] \/ k # e.way => cache'[i][k] = cache[i][k]
<1> DEFINE e == Head(rob)
           c == [v |-> TRUE, d |-> FALSE, l |-> e.l, w |-> e.data]
<1>1. rob # <<>> /\ rob' = Tail(rob) /\ e.ty \in {"MMU", "L1I", "L1D"} /\ UNCHANGED wb
      /\ r' = Look(e.ty, IF e.st THEN "SW" ELSE "LW", e.l, e.w)
      /\ cache' = [cache EXCEPT ![SetOf[e.l]][e.way] = c]
  BY DEF Fill, PopRob, w_head_of_rob_done
<1>2. 1 \in DOMAIN rob /\ e = rob[1] /\ e \in EntryType
  BY <1>1, Popped, PopKinds DEF TypeOK, MissesType
<1>3. ~Cached(e.l)
  BY <1>1, <1>2 DEF NotCached
<1>4. e.l \in Lines /\ SetOf[e.l] \in Sets /\ e.way \in Ways
  BY <1>2, SetsClosed DEF EntryType
<1>5. c.v /\ c.l = e.l /\ r'.l = e.l
  BY <1>1 DEF Look
<1> HIDE DEF c, e
<1>6. cache \in [Sets -> [Ways -> Copy]]
  BY DEF TypeOK, ArraysType
<1>7. cache'[SetOf[e.l]][e.way] = c
      /\ \A i \in Sets, k \in Ways :
           i # SetOf[e.l] \/ k # e.way => cache'[i][k] = cache[i][k]
  BY <1>1, <1>4, <1>6
<1> QED
  BY <1>1, <1>2, <1>3, <1>4, <1>5, <1>7 DEF e

(* Cached in the next state, for a line that is itself of that state.      *)
CachedNext(l) == \E k \in Ways : cache'[SetOf[l]][k].v /\ cache'[SetOf[l]][k].l = l

LEMMA NotCachedNext ==
  ASSUME \A i \in DOMAIN rob' : rob'[i].ty # "WRITEBACK" => ~CachedNext(rob'[i].l)
  PROVE  NotCached'
  BY DEF NotCached, Cached, CachedNext

LEMMA RobLines ==
  ASSUME TypeOK
  PROVE  \A i \in DOMAIN rob : rob[i].l \in Lines /\ SetOf[rob[i].l] \in Sets
<1>1. DOMAIN rob = 1 .. Len(rob) /\ \A i \in DOMAIN rob : rob[i] \in EntryType
  BY LenProperties, ElementOfSeq DEF TypeOK, MissesType
<1> QED
  BY <1>1, SetsClosed DEF EntryType

LEMMA ArraysStep ==
  ASSUME TypeOK, SetInterlock, SetHome, NotCached, OneCopy, [Next]_vars
  PROVE  SetHome' /\ NotCached' /\ OneCopy'
<1> DEFINE e == Head(rob)
<1>0. Ways = {0, 1}
  BY DEF Ways
<1>1. CASE Fill
  <2>1. /\ rob # <<>> /\ rob' = Tail(rob) /\ e \in EntryType
        /\ SetOf[e.l] \in Sets /\ e.way \in Ways /\ ~Cached(e.l)
        /\ cache'[SetOf[e.l]][e.way].v /\ cache'[SetOf[e.l]][e.way].l = e.l
        /\ \A i \in Sets, k \in Ways :
             i # SetOf[e.l] \/ k # e.way => cache'[i][k] = cache[i][k]
    BY <1>1, Filled
  <2>2. 1 \in DOMAIN rob /\ e = rob[1]
        /\ \A i \in DOMAIN rob' : i \in Int /\ i + 1 \in DOMAIN rob /\ i + 1 # 1
                                  /\ rob'[i] = rob[i + 1]
    BY <2>1, PopKinds
  <2> HIDE DEF e
  <2>3. SetHome'
    BY <2>1 DEF SetHome
  <2>4. OneCopy'
    <3>1. \A k \in Ways : cache[SetOf[e.l]][k].v => cache[SetOf[e.l]][k].l # e.l
      BY <2>1 DEF Cached
    <3> QED
      BY <1>0, <2>1, <3>1 DEF OneCopy
  <2>5. NotCached'
    <3>1. ASSUME NEW i \in DOMAIN rob', rob'[i].ty # "WRITEBACK"
          PROVE  ~CachedNext(rob'[i].l)
      <4>1. i + 1 \in DOMAIN rob /\ i + 1 # 1 /\ rob'[i] = rob[i + 1]
        BY <2>2
      <4>2. SetOf[rob'[i].l] # SetOf[e.l] /\ ~Cached(rob'[i].l)
        BY <2>2, <3>1, <4>1 DEF SetInterlock, NotCached
      <4>3. SetOf[rob'[i].l] \in Sets
        BY <4>1, RobLines
      <4>4. \A k \in Ways : cache'[SetOf[rob'[i].l]][k] = cache[SetOf[rob'[i].l]][k]
        BY <2>1, <4>2, <4>3
      <4> QED
        BY <4>2, <4>4 DEF Cached, CachedNext
    <3> QED
      BY <3>1, NotCachedNext
  <2> QED
    BY <2>3, <2>4, <2>5
<1>2. CASE NoNewLine /\ ~Fill
  <2>1. SetHome'
    BY <1>2 DEF SetHome, NoNewLine
  <2>2. OneCopy'
    BY <1>0, <1>2 DEF OneCopy, NoNewLine
  <2>3. ASSUME NEW l \in Lines, ~Cached(l)
        PROVE  ~CachedNext(l)
    <3>1. SetOf[l] \in Sets
      BY SetsClosed
    <3> QED
      BY <1>2, <2>3, <3>1 DEF Cached, CachedNext, NoNewLine
  <2>4. \A i \in DOMAIN rob : rob[i].ty # "WRITEBACK" => ~CachedNext(rob[i].l)
    BY <2>3, RobLines DEF NotCached
  <2>5. NotCached'
    <3>1. CASE PopWriteback
      <4>1. rob # <<>> /\ rob' = Tail(rob)
        BY <3>1 DEF PopWriteback, PopRob, w_head_of_rob_done
      <4>2. \A i \in DOMAIN rob' : i + 1 \in DOMAIN rob /\ rob'[i] = rob[i + 1]
        BY <4>1, PopKinds
      <4>3. \A i \in DOMAIN rob' : rob'[i].ty # "WRITEBACK" => ~CachedNext(rob'[i].l)
        BY <2>4, <4>2
      <4> QED
        BY <4>3, NotCachedNext
    <3>2. CASE WriteBack \/ Miss
      <4>1. PICK x \in EntryType :
              /\ rob' = Append(rob, x) /\ ~Check'
              /\ \/ WriteBack /\ rob = <<>> /\ x.ty = "WRITEBACK"
                 \/ Miss /\ x.ty = r.ty /\ x.l = r.l
        BY <3>2, Enters
      <4>2. PICK n \in Nat : /\ n \notin DOMAIN rob /\ DOMAIN rob' = DOMAIN rob \cup {n}
                             /\ rob'[n] = x /\ \A i \in DOMAIN rob : rob'[i] = rob[i]
        BY <4>1, EnterKinds
      <4>3. x.ty = "WRITEBACK" \/ (~Cached(x.l) /\ x.l \in Lines)
        BY <4>1, HitWay DEF Miss
      <4>4. x.ty = "WRITEBACK" \/ ~CachedNext(x.l)
        BY <2>3, <4>3
      <4>5. \A i \in DOMAIN rob' : rob'[i].ty # "WRITEBACK" => ~CachedNext(rob'[i].l)
        BY <2>4, <4>2, <4>4
      <4> QED
        BY <4>5, NotCachedNext
    <3>3. CASE Marks(rob', rob)
      <4>1. \A i \in DOMAIN rob' : rob'[i].ty # "WRITEBACK" => ~CachedNext(rob'[i].l)
        BY <2>4, <3>3 DEF Marks
      <4> QED
        BY <4>1, NotCachedNext
    <3>4. Marks(rob', rob) \/ PopWriteback \/ WriteBack \/ Miss
      <4>1. CASE TakeMark \/ TakeMmu \/ TakeL1I \/ TakeL1D \/ AnswerMmu \/ UpdatePte
                 \/ AnswerL1D \/ AnswerL1I \/ StoreHit
        <5>1. UNCHANGED rob
          BY <4>1 DEF TakeMark, TakeMmu, TakeL1I, TakeL1D, AnswerMmu, UpdatePte, AnswerL1D,
             AnswerL1I, StoreHit, misses
        <5> QED
          BY <5>1, SameRob
      <4> QED
        BY <1>2, <4>1, Shapes DEF Quiet
    <3> QED
      BY <3>1, <3>2, <3>3, <3>4
  <2> QED
    BY <2>1, <2>2, <2>5
<1> QED
  BY <1>1, <1>2, ArraysFrame

LEMMA VictimStep ==
  ASSUME TypeOK, NotCached, VictimKept, [Next]_vars
  PROVE  VictimKept'
<1>1. CASE Fill
  <2> DEFINE e == Head(rob)
  <2>1. /\ r'.l = e.l /\ e.way \in Ways
        /\ cache'[SetOf[e.l]][e.way].v /\ cache'[SetOf[e.l]][e.way].l = e.l
    BY <1>1, Filled
  <2> HIDE DEF e
  <2>2. w_hit'
    BY <2>1 DEF w_hit, Hits, s, Ways
  <2> QED
    BY <2>2 DEF VictimKept
<1>2. CASE Quiet
  <2>1. CASE Check'
    <3>1. Check
      BY <1>2, <2>1 DEF Quiet
    <3>2. UNCHANGED <<cache, wb>>
      <4>1. CASE Engine
        BY <1>2, <2>1, <3>1, <4>1 DEF Engine, PopWriteback, Fill, WriteBack, TakeMark,
           TakeMmu, TakeL1I, TakeL1D, L1Turn, AnswerMmu, AnswerL1D, AnswerL1I, StoreHit,
           UpdatePte, Miss, Idle, ToIdle, StartFlush, FlushSet, FlushWay2, MemRsp,
           MemRspInFlush, lookup, misses, Check
      <4>2. CASE Tick \/ ProbeAck \/ L1Request \/ FlushRequests \/ WalkerRequests
                 \/ UNCHANGED vars
        BY <4>2 DEF Tick, ProbeAck, L1Request, L1DRequest, L1IRequest, FlushRequests,
           RequestFlush, L1DFlushed, L1IFlushed, WalkerRequests, MmuRequest, MemMark, vars,
           lookup, misses
      <4> QED
        BY <4>1, <4>2 DEF Next
    <3> QED
      BY <1>2, <3>1, <3>2 DEF Quiet, VictimKept, w_hit, Hits, s
  <2> QED
    BY <2>1 DEF VictimKept
<1>3. CASE TakeMark \/ TakeMmu \/ TakeL1I \/ TakeL1D
  BY <1>3 DEF TakeMark, TakeMmu, TakeL1I, TakeL1D, L1Turn, Calm, misses, VictimKept
<1>4. CASE AnswerL1D \/ AnswerL1I
  BY <1>4 DEF AnswerL1D, AnswerL1I, Onward, Early, ToIdle, Check, misses, VictimKept
<1>5. CASE PopWriteback \/ WriteBack \/ AnswerMmu \/ UpdatePte \/ StoreHit \/ Miss
  <2>1. ~Check'
    BY <1>5 DEF PopWriteback, WriteBack, Idle, AnswerMmu, UpdatePte, StoreHit, Miss, ToIdle,
       lookup, Check
  <2> QED
    BY <2>1 DEF VictimKept
<1> QED
  BY Shapes, <1>1, <1>2, <1>3, <1>4, <1>5

-----------------------------------------------------------------------------
(* The flush sweeps set after set.                                         *)

(* What a set is after this step, for the flush that goes on in it.        *)
SweptNow(i) == \A k \in Ways : ~cache'[i][k].d /\ (~r_wb_no_inv => ~cache'[i][k].v)

LEMMA SweptStays ==
  ASSUME UNCHANGED cache, NEW i \in Sets, Swept(i)
  PROVE  SweptNow(i)
  BY DEF Swept, SweptNow

LEMMA CleanSweeps ==
  ASSUME TypeOK, Clean
  PROVE  SweptNow(r_idx) /\ \A i \in Sets : Swept(i) => SweptNow(i)
<1>1. cache \in [Sets -> [Ways -> Copy]] /\ r_idx \in Sets
  BY DEF TypeOK, ArraysType, FlushType
<1>2. ~Empty.v /\ ~Empty.d
  BY DEF Empty
<1>3. ASSUME NEW c \in Copy
      PROVE  ~[c EXCEPT !.d = FALSE].d /\ [c EXCEPT !.d = FALSE].v = c.v
  BY <1>3 DEF Copy
<1>4. ASSUME NEW k \in Ways
      PROVE  ~cache'[r_idx][k].d /\ (~r_wb_no_inv => ~cache'[r_idx][k].v)
  <2>1. cache'[r_idx][k] = IF r_wb_no_inv /\ cache[r_idx][k].v
                           THEN [cache[r_idx][k] EXCEPT !.d = FALSE] ELSE Empty
    BY <1>1 DEF Clean
  <2>2. cache[r_idx][k] \in Copy
    BY <1>1
  <2>3. CASE r_wb_no_inv /\ cache[r_idx][k].v
    BY <1>3, <2>1, <2>2, <2>3
  <2>4. CASE ~(r_wb_no_inv /\ cache[r_idx][k].v)
    <3>1. cache'[r_idx][k] = Empty
      BY <2>1, <2>4
    <3> QED
      BY <1>2, <3>1
  <2> QED
    BY <2>3, <2>4
<1>5. \A i \in Sets : i # r_idx => cache'[i] = cache[i]
  BY <1>1 DEF Clean
<1> QED
  BY <1>4, <1>5 DEF Swept, SweptNow

(* The sets up to this one are clean: the next may be swept, or all are.   *)
LEMMA Onwards ==
  ASSUME TypeOK, NextSet, \A i \in Sets : i <= r_idx => SweptNow(i),
         UNCHANGED <<r_need_l1d, r_need_l1i>>, r_flush_req, ~r_need_l1d, ~r_need_l1i
  PROVE  /\ FlushSweep'
         /\ flush_complete => \A i \in Sets : SweptNow(i)
<1>0. r_idx \in Sets /\ \A i \in Sets : i \in Nat /\ i <= NSETS - 1
  BY SetsClosed DEF TypeOK, FlushType
<1>1. CASE /\ r_idx # NSETS - 1 /\ r_idx' = r_idx + 1 /\ r_state' = "FLUSH_WAIT"
           /\ UNCHANGED <<r_flush_req, r_wb_no_inv>>
  <2>1. \A i \in Sets : i < r_idx' => i <= r_idx
    BY <1>0, <1>1
  <2>2. \A i \in Sets : i < r_idx' => Swept(i)'
    BY <1>1, <2>1 DEF Swept, SweptNow
  <2> QED
    BY <1>1, <2>2 DEF FlushSweep, InFlush, flush_complete
<1>2. CASE /\ r_idx = NSETS - 1 /\ r_idx' = 0 /\ r_state' = "IDLE"
           /\ r_flush_req' = FALSE /\ r_wb_no_inv' = FALSE
  BY <1>0, <1>2 DEF FlushSweep, InFlush
<1> QED
  BY <1>1, <1>2 DEF NextSet

(* Everything but the flush's own steps leaves the sweep alone.            *)
LEMMA FlushFrame ==
  ASSUME FlushSweep, [Next]_vars
  PROVE  \/ StartFlush \/ FlushSet \/ FlushWay2 \/ MemRspInFlush
         \/ /\ FlushSweep' /\ ~flush_complete
<1>1. CASE Engine /\ ~StartFlush /\ ~FlushSet /\ ~FlushWay2 /\ ~MemRspInFlush
  <2>1. UNCHANGED <<r_need_l1d, r_need_l1i, r_flush_req, r_wb_no_inv, r_idx>>
    BY <1>1 DEF Engine, PopWriteback, Fill, WriteBack, TakeMark, TakeMmu, TakeL1I, TakeL1D,
       AnswerMmu, UpdatePte, AnswerL1D, AnswerL1I, StoreHit, Miss, MemRsp, flush
  <2>2. CASE MemRsp
    <3>1. UNCHANGED <<r_state, cache>>
      BY <2>2 DEF MemRsp, lookup
    <3> QED
      BY <2>1, <3>1 DEF FlushSweep, InFlush, Swept, flush_complete
  <2>3. CASE ~MemRsp
    <3>1. r_state' \in {"IDLE", "CHECK_VALID_AND_TAG"}
      BY <1>1, <2>3 DEF Engine, PopWriteback, Fill, WriteBack, TakeMark, TakeMmu, TakeL1I,
         TakeL1D, L1Turn, Idle, AnswerMmu, UpdatePte, AnswerL1D, AnswerL1I, Onward, LoadHit,
         Check, StoreHit, Miss, ToIdle, lookup
    <3> QED
      BY <2>1, <3>1 DEF FlushSweep, InFlush, flush_complete
  <2> QED
    BY <2>2, <2>3
<1>2. CASE Tick \/ ProbeAck \/ L1Request \/ WalkerRequests \/ UNCHANGED vars
  <2>1. UNCHANGED <<r_need_l1d, r_need_l1i, r_flush_req, r_wb_no_inv, r_idx, r_state, cache>>
    BY <1>2 DEF Tick, ProbeAck, L1Request, L1DRequest, L1IRequest, WalkerRequests,
       MmuRequest, MemMark, vars, lookup, flush
  <2> QED
    BY <2>1 DEF FlushSweep, InFlush, Swept, flush_complete
<1>3. CASE FlushRequests
  <2>1. UNCHANGED <<r_state, cache>> /\ ~r_flush_req
    BY <1>3 DEF FlushRequests, RequestFlush, L1DFlushed, L1IFlushed, Flushing, FlushSweep,
       lookup
  <2>2. r_flush_req' => ~r_need_l1d' /\ ~r_need_l1i'
    BY <1>3, <2>1 DEF FlushRequests, RequestFlush, L1DFlushed, L1IFlushed
  <2> QED
    BY <2>1, <2>2 DEF FlushSweep, InFlush, flush_complete
<1> QED
  BY <1>1, <1>2, <1>3 DEF Next

LEMMA SweepStep ==
  ASSUME TypeOK, FlushSweep, [Next]_vars
  PROVE  /\ FlushSweep'
         /\ flush_complete => \A i \in Sets : SweptNow(i)
<1>0. r_idx \in Sets /\ \A i \in Sets : i \in Nat
  BY SetsClosed DEF TypeOK, FlushType
<1>1. CASE StartFlush
  BY <1>0, <1>1 DEF StartFlush, FlushSweep, InFlush, flush_complete
<1>2. CASE FlushSet
  <2>1. /\ r_flush_req /\ ~r_need_l1d /\ ~r_need_l1i
        /\ \A i \in Sets : i < r_idx => Swept(i)
    BY <1>2 DEF FlushSet, FlushSweep, InFlush
  <2>2. \A i \in Sets : i <= r_idx => SweptNow(i)
    BY <1>0, <1>2, <2>1, CleanSweeps DEF FlushSet
  <2>3. UNCHANGED <<r_need_l1d, r_need_l1i>>
    BY <1>2 DEF FlushSet
  <2>4. CASE NextSet
    BY <2>1, <2>2, <2>3, <2>4, Onwards
  <2>5. CASE r_state' = "FLUSH_STORE" /\ UNCHANGED <<r_flush_req, r_wb_no_inv, r_idx>>
    <3>1. \A i \in Sets : i <= r_idx => Swept(i)'
      BY <2>2, <2>5 DEF Swept, SweptNow
    <3>2. Swept(r_idx)'
      BY <1>0, <2>2, <2>5 DEF Swept, SweptNow
    <3> QED
      BY <1>0, <2>1, <2>3, <2>5, <3>1, <3>2 DEF FlushSweep, InFlush, flush_complete
  <2> QED
    BY <1>2, <2>4, <2>5 DEF FlushSet
<1>3. CASE FlushWay2 \/ MemRspInFlush
  <2>1. /\ UNCHANGED <<cache, r_need_l1d, r_need_l1i>> /\ r_flush_req
        /\ ~r_need_l1d /\ ~r_need_l1i
        /\ \A i \in Sets : i < r_idx => Swept(i)
        /\ Swept(r_idx)
    BY <1>3 DEF FlushWay2, MemRspInFlush, FlushSweep, InFlush
  <2>2. \A i \in Sets : i <= r_idx => Swept(i)
    BY <1>0, <2>1
  <2>3. CASE NextSet
    BY <2>1, <2>2, <2>3, SweptStays, Onwards
  <2>4. CASE r_state' \in {"FLUSH_STORE", "FLUSH_STORE_WAY2"}
             /\ UNCHANGED <<r_flush_req, r_wb_no_inv, r_idx>>
    BY <2>1, <2>2, <2>4 DEF FlushSweep, InFlush, Swept, flush_complete
  <2> QED
    BY <1>3, <2>3, <2>4 DEF FlushWay2, MemRspInFlush
<1> QED
  BY <1>1, <1>2, <1>3, FlushFrame

-----------------------------------------------------------------------------
(* The invariant, from its parts.                                          *)
LEMMA InvInit == Init => Inv
<1> SUFFICES ASSUME Init PROVE Inv
  OBVIOUS
<1>1. rob = <<>> /\ r_state = "IDLE" /\ N \in Nat \ {0}
  BY L2Assumption DEF Init
<1>2. Empty \in Copy /\ NoRequest \in RequestType /\ ~Empty.v
  BY DEF Empty, Copy, NoRequest, RequestType, Data, Ways
<1>3. ArraysType
  BY <1>2 DEF Init, ArraysType, Ways
<1>4. LookupType
  BY <1>2 DEF Init, LookupType, Check, States
<1>5. MissesType
  BY TagsClosed DEF Init, MissesType, NoWb, Data
<1>6. L1Type /\ WalkerType
  <2>1. L1Type
    <3> DEFINE S == [op : {"LW", "SW"}, l : Lines, w : Data]
    <3>1. <<>> \in Seq(S)
      BY EmptySeq
    <3> HIDE DEF S
    <3>2. r_mem_q \in Seq(S)
      BY <3>1 DEF Init
    <3> QED
      BY <3>2 DEF Init, L1Type, S
  <2>2. NoMark \in [l : Lines \cup {NoLine}, bits : SUBSET Bits]
    BY DEF NoMark
  <2>3. WalkerType
    BY <2>2 DEF Init, WalkerType
  <2> QED
    BY <2>1, <2>3
<1>7. FlushType
  BY <1>2, SetsClosed DEF Init, FlushType
<1>8. MemoryType
  BY L2Assumption DEF Init, MemoryType
<1>9. ReadOnce /\ MarkOnce /\ FetchOnce
  BY DEF Init, ReadOnce, MarkOnce, FetchOnce, Check
<1>10. SetInterlock /\ RobHasRoom /\ VictimKept /\ NotCached
  BY <1>1 DEF SetInterlock, RobHasRoom, VictimKept, NotCached, Check
<1>11. \A i \in Sets, k \in Ways : ~cache[i][k].v
  BY <1>2 DEF Init
<1>12. SetHome /\ OneCopy
  BY <1>11 DEF SetHome, OneCopy, Ways
<1>13. FlushSweep
  BY DEF Init, FlushSweep, InFlush
<1> QED
  BY <1>3, <1>4, <1>5, <1>6, <1>7, <1>8, <1>9, <1>10, <1>12, <1>13 DEF Inv, TypeOK

LEMMA InvStep == Inv /\ [Next]_vars => Inv'
<1> SUFFICES ASSUME Inv, [Next]_vars PROVE Inv'
  OBVIOUS
<1>1. TypeOK' /\ ReadOnce' /\ MarkOnce' /\ FetchOnce'
  BY TypeStep, ReadStep, MarkStep, FetchStep DEF Inv
<1>2. SetInterlock' /\ RobHasRoom'
  BY RobStep DEF Inv
<1>3. SetHome' /\ NotCached' /\ OneCopy' /\ VictimKept'
  BY ArraysStep, VictimStep DEF Inv
<1>4. FlushSweep'
  BY SweepStep DEF Inv
<1> QED
  BY <1>1, <1>2, <1>3, <1>4 DEF Inv

LEMMA Invariance == Spec => []Inv
  BY InvInit, InvStep, PTL DEF Spec

(* Type correctness of l2_2way.sv's registers, arrays and queues.          *)
THEOREM L2TypeCorrect == Spec => []TypeOK
<1>1. Inv => TypeOK
  BY DEF Inv
<1> QED
  BY <1>1, Invariance, PTL

(* The set interlock of w_hit_any_l1d and w_hit_any_l1i, with the empty    *)
(* ROB the walker's requests and write backs wait for, keeps the entries   *)
(* of the ROB and the lookup in different sets.                            *)
THEOREM Interlocked == Spec => []SetInterlock
<1>1. Inv => SetInterlock
  BY DEF Inv
<1> QED
  BY <1>1, Invariance, PTL

(* The ROB never overflows, although the early accept does not ask.        *)
THEOREM NeverOverfull == Spec => []RobHasRoom
<1>1. Inv => RobHasRoom
  BY DEF Inv
<1> QED
  BY <1>1, Invariance, PTL

(* A line is in at most one way of its set: w_hit0 & w_hit1 never stops    *)
(* the simulation.                                                         *)
THEOREM OneWayOnly == Spec => []OneCopy
<1>1. Inv => OneCopy
  BY DEF Inv
<1> QED
  BY <1>1, Invariance, PTL

(* The write back register is free whenever a lookup misses.               *)
THEOREM VictimSafe == Spec => []VictimKept
<1>1. Inv => VictimKept
  BY DEF Inv
<1> QED
  BY <1>1, Invariance, PTL

(* A flush reported complete has cleaned every set, however many there are *)
(* and whatever arrived while it went through them.                        *)
THEOREM FlushComplete == Spec => FlushCleans
<1>1. Inv /\ [Next]_vars =>
        [flush_complete => \A i \in Sets, k \in Ways :
           /\ ~cache'[i][k].d
           /\ ~r_wb_no_inv => ~cache'[i][k].v]_vars
  BY SweepStep DEF Inv, SweptNow
<1> QED
  BY <1>1, Invariance, PTL DEF Spec, FlushCleans
=============================================================================

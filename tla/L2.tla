--------------------------------- MODULE L2 ---------------------------------
(***************************************************************************)
(* The shared second level cache (l2_2way.sv): two ways, write back, one   *)
(* lookup at a time, misses tracked in a small reorder buffer (ROB) that   *)
(* is filled from the memory and emptied in order.  Its clients are the    *)
(* L1D (a queue of loads and write backs), the L1I (one fetch at a time)   *)
(* and the page walker, which reads page table entries and sets their      *)
(* accessed and dirty bits; what they ask is the environment here, as is   *)
(* the memory, a queue of requests performed in order (top.cc).            *)
(*                                                                         *)
(* One action per state of r_state and decision taken in it.  The states   *)
(* that only let the arrays turn around are part of the action before      *)
(* them, and so is CLEAN_RELOAD, which writes the line of the entry popped.*)
(* A request is the tag, set and opcode registers of the lookup; the L1D's *)
(* own tags travel with the line and are left out.                         *)
(***************************************************************************)
EXTENDS Integers, Sequences, FiniteSets

CONSTANTS
  Lines, NoLine,
  NSETS,       \* number of sets
  SetOf,       \* the set a line lives in
  N,           \* reorder buffer entries
  MRQ,         \* requests of the L1D the L2 can hold
  Bits,        \* what a line holds: a set of bits
  Contents0,   \* the memory to begin with
  L1DReads, L1DWrites, StoreData, L1IReads  \* what the L1 caches may ask

Sets == 0 .. NSETS - 1
Ways == 0 .. 1
Tags == 0 .. N - 1
Data == SUBSET Bits

ASSUME L2Assumption ==
  /\ NSETS \in Nat \ {0} /\ N \in Nat \ {0} /\ MRQ \in Nat \ {0}
  /\ NoLine \notin Lines /\ SetOf \in [Lines -> Sets]
  /\ Contents0 \in [Lines -> Data]
  /\ L1DReads \cup L1DWrites \cup L1IReads \subseteq Lines
  /\ StoreData \subseteq Data

VARIABLES
  \* the arrays and the way used last
  cache, last,
  \* the lookup: state, request, the flags that tell whose it is
  r_state, r, r_mmu, r_mmu_mark, r_last_gnt,
  \* misses: reorder buffer, its head, the tag of the last request to memory
  rob, r_rob_head_ptr, r_rob_tag,
  \* the victim that waits for its write back (r_need_wb and its registers)
  wb,
  \* clients: the L1D's queue, the L1I's fetch and whether it was accepted,
  \* the walker's read, its probe of the L1D, its request, its mark
  r_mem_q, l1i, r_l1i_req, mmu_req_addr, r_pstate, r_mmu_req, mem_mark,
  r_mmu_mark_req,
  \* flushing: L1 caches not yet flushed, the request, the set, the second way
  r_need_l1d, r_need_l1i, r_flush_req, r_wb_no_inv, r_idx, way1,
  \* the memory and the requests on their way to it, the answer of this step
  mem, mem_queue, rsp

lookup  == <<cache, last, r_state, r, r_mmu, r_mmu_mark, r_last_gnt>>
misses  == <<rob, r_rob_head_ptr, r_rob_tag, wb>>
l1      == <<r_mem_q, l1i, r_l1i_req>>
walker  == <<mmu_req_addr, r_pstate, r_mmu_req, mem_mark, r_mmu_mark_req>>
flush   == <<r_need_l1d, r_need_l1i, r_flush_req, r_wb_no_inv, r_idx, way1>>
outside == <<mem, mem_queue>>
vars    == <<lookup, misses, l1, walker, flush, outside, rsp>>

-----------------------------------------------------------------------------
NoMark    == [l |-> NoLine, bits |-> {}]
NoRsp     == [to |-> "nobody", l |-> NoLine, w |-> {}]
NoWb      == [need |-> FALSE, l |-> NoLine, w |-> {}]
NoRequest == [ty |-> "L1D", op |-> "LW", l |-> NoLine, w |-> {}, last |-> 0]
Empty     == [v |-> FALSE, d |-> FALSE, l |-> NoLine, w |-> {}]

Answer(c, line, word) == rsp' = [to |-> c, l |-> line, w |-> word]
NoAnswer == rsp' = NoRsp

(* The reorder buffer; its tail is where the next entry goes. *)
w_rob_tail_ptr == (r_rob_head_ptr + Len(rob)) % N
TagOf(i) == (r_rob_head_ptr + i - 1) % N
w_head_of_rob_done == rob # <<>> /\ Head(rob).done
Entry(ty, line, st, word, way) ==
  [ty |-> ty, l |-> line, st |-> st, w |-> word, way |-> way, done |-> FALSE,
   data |-> {}]

SetFree_Line(l) == \A i \in DOMAIN rob : rob[i].l # l     \* Mutant: the line only
SetFree_Any(l) == TRUE                                  \* Mutant: not asked
(* Requests of L1 caches wait while the ROB has anything of their set. *)
SetFree(l) == \A i \in DOMAIN rob : SetOf[rob[i].l] # SetOf[l]
w_l1d_req == r_mem_q # <<>> /\ SetFree(Head(r_mem_q).l)
w_l1i_req == r_l1i_req /\ SetFree(l1i)
w_pick_l1i == w_l1i_req /\ (w_l1d_req => r_last_gnt)
w_pick_l1d == w_l1d_req /\ (w_l1i_req => ~r_last_gnt)

(* The lookup reads the arrays, and the way used last with them. *)
Look(ty, op, line, word) ==
  [ty |-> ty, op |-> op, l |-> line, w |-> word, last |-> last[SetOf[line]]]
s == SetOf[r.l]
Hits(k) == cache[s][k].v /\ cache[s][k].l = r.l
w_hit == Hits(0) \/ Hits(1)
way   == IF Hits(0) THEN 0 ELSE 1
w_d   == cache[s][way].w
Written(copy, word) == [v |-> copy.v, d |-> TRUE, l |-> copy.l, w |-> word]
r_mark_pte == r_mmu_mark # {}

Send(op, line, word, tag) ==
  mem_queue' = Append(mem_queue, [op |-> op, l |-> line, w |-> word, t |-> tag])

-----------------------------------------------------------------------------
(* IDLE: a done entry first; then, with a free entry, a victim's write     *)
(* back, a flush, a mark, the walker, the L1 caches in turn.               *)

Idle == r_state = "IDLE" /\ ~w_head_of_rob_done /\ Len(rob) < N
MustWriteBack == wb.need /\ rob = <<>>
Calm == rob = <<>> /\ ~wb.need

PopRob_NoWrap ==   \* Mutant: the head pointer leaves the buffer
  /\ rob' = Tail(rob) /\ r_rob_head_ptr' = r_rob_head_ptr + 1
PopRob == /\ rob' = Tail(rob) /\ r_rob_head_ptr' = (r_rob_head_ptr + 1) % N

PopWriteback ==
  /\ r_state = "IDLE" /\ w_head_of_rob_done /\ Head(rob).ty = "WRITEBACK"
  /\ PopRob /\ r_mmu' = FALSE /\ NoAnswer
  /\ UNCHANGED <<cache, last, r_state, r, r_mmu_mark, r_last_gnt, r_rob_tag, wb,
                 l1, walker, flush, outside>>

(* The line goes to the way chosen when it missed, and is looked up again. *)
Fill ==
  LET e == Head(rob) IN
  /\ r_state = "IDLE" /\ w_head_of_rob_done /\ e.ty \in {"MMU", "L1I", "L1D"}
  /\ PopRob /\ r_state' = "CHECK_VALID_AND_TAG"
  /\ r' = Look(e.ty, IF e.st THEN "SW" ELSE "LW", e.l, e.w)
  /\ r_mmu' = (e.ty = "MMU") /\ r_last_gnt' = (e.ty = "L1D")
  /\ cache' = [cache EXCEPT ![SetOf[e.l]][e.way] =
                 [v |-> TRUE, d |-> FALSE, l |-> e.l, w |-> e.data]]
  /\ NoAnswer
  /\ UNCHANGED <<last, r_mmu_mark, r_rob_tag, wb, l1, walker, flush, outside>>

WriteBack ==
  /\ Idle /\ MustWriteBack
  /\ rob' = Append(rob, Entry("WRITEBACK", wb.l, FALSE, {}, 0))
  /\ r_rob_tag' = w_rob_tail_ptr
  /\ Send("SW", wb.l, wb.w, w_rob_tail_ptr) /\ wb' = NoWb /\ NoAnswer
  /\ UNCHANGED <<lookup, r_rob_head_ptr, l1, walker, flush, mem>>

TakeMark ==
  /\ Idle /\ ~r_flush_req /\ r_mmu_mark_req /\ Calm
  /\ r_mmu_mark_req' = FALSE /\ r_mmu_mark' = mem_mark.bits
  /\ r_state' = "CHECK_VALID_AND_TAG" /\ r' = Look("MARK_PTE", "LW", mem_mark.l, {})
  /\ NoAnswer
  /\ UNCHANGED <<cache, last, r_mmu, r_last_gnt, misses, l1, mmu_req_addr, r_pstate,
                 r_mmu_req, mem_mark, flush, outside>>

TakeMmu ==
  /\ Idle /\ ~r_flush_req /\ ~r_mmu_mark_req /\ r_mmu_req /\ Calm
  /\ r_mmu' = TRUE /\ r_state' = "CHECK_VALID_AND_TAG"
  /\ r' = Look("MMU", "LW", mmu_req_addr, {}) /\ NoAnswer
  /\ UNCHANGED <<cache, last, r_mmu_mark, r_last_gnt, misses, l1, walker, flush,
                 outside>>

L1Turn == /\ Idle /\ ~r_flush_req /\ ~wb.need
          /\ ~(Calm /\ (r_mmu_mark_req \/ r_mmu_req))

TakeL1I ==
  /\ L1Turn /\ w_pick_l1i
  /\ r_l1i_req' = FALSE /\ r_last_gnt' = FALSE
  /\ r_state' = "CHECK_VALID_AND_TAG" /\ r' = Look("L1I", "LW", l1i, {}) /\ NoAnswer
  /\ UNCHANGED <<cache, last, r_mmu, r_mmu_mark, misses, r_mem_q, l1i, walker, flush,
                 outside>>

NextOfL1D == LET q == Head(r_mem_q) IN Look("L1D", q.op, q.l, q.w)

TakeL1D ==
  /\ L1Turn /\ w_pick_l1d
  /\ r_mem_q' = Tail(r_mem_q) /\ r_last_gnt' = TRUE
  /\ r_state' = "CHECK_VALID_AND_TAG" /\ r' = NextOfL1D /\ NoAnswer
  /\ UNCHANGED <<cache, last, r_mmu, r_mmu_mark, misses, l1i, r_l1i_req, walker, flush,
                 outside>>

-----------------------------------------------------------------------------
(* CHECK_VALID_AND_TAG *)

Check == r_state = "CHECK_VALID_AND_TAG"
LoadHit == Check /\ w_hit /\ r.op = "LW"
ToIdle  == r_state' = "IDLE" /\ r' = NoRequest
Touch   == last' = [last EXCEPT ![s] = way]

AnswerMmu ==
  /\ LoadHit /\ r_mmu
  /\ Answer("mmu", r.l, w_d) /\ r_mmu' = FALSE
  /\ r_mmu_req' = FALSE /\ mmu_req_addr' = NoLine /\ ToIdle /\ Touch
  /\ UNCHANGED <<cache, r_mmu_mark, r_last_gnt, misses, l1, r_pstate, mem_mark,
                 r_mmu_mark_req, flush, outside>>

UpdatePte_Clean ==   \* Mutant: the line is not marked dirty
  /\ LoadHit /\ ~r_mmu /\ r_mark_pte
  /\ cache' = [cache EXCEPT ![s][way] = [@ EXCEPT !.w = w_d \cup r_mmu_mark]]
  /\ Answer("mark", r.l, w_d \cup r_mmu_mark)
  /\ r_mmu_mark' = {} /\ mem_mark' = NoMark /\ ToIdle /\ Touch
  /\ UNCHANGED <<r_mmu, r_last_gnt, misses, l1, mmu_req_addr, r_pstate, r_mmu_req,
                 r_mmu_mark_req, flush, outside>>
(* w_updated_pte: the bits are or-ed into the entry, the line is dirty.    *)
UpdatePte ==
  /\ LoadHit /\ ~r_mmu /\ r_mark_pte
  /\ cache' = [cache EXCEPT ![s][way] = Written(@, w_d \cup r_mmu_mark)]
  /\ Answer("mark", r.l, w_d \cup r_mmu_mark)
  /\ r_mmu_mark' = {} /\ mem_mark' = NoMark /\ ToIdle /\ Touch
  /\ UNCHANGED <<r_mmu, r_last_gnt, misses, l1, mmu_req_addr, r_pstate, r_mmu_req,
                 r_mmu_mark_req, flush, outside>>

Early_Victim ==   \* Mutant: although a victim waits
  w_l1d_req /\ ~w_l1i_req /\ Head(r_mem_q).op = "LW"
(* A load of the L1D that is ready is accepted in the cycle that answers   *)
(* an L1 cache; the way just used is then noted for the set it looks up.   *)
Early == w_l1d_req /\ ~w_l1i_req /\ Head(r_mem_q).op = "LW" /\ ~wb.need
Onward ==
  \/ /\ Early
     /\ r_mem_q' = Tail(r_mem_q) /\ r_last_gnt' = TRUE
     /\ r' = NextOfL1D /\ UNCHANGED r_state
     /\ last' = [last EXCEPT ![SetOf[Head(r_mem_q).l]] = way]
  \/ ~Early /\ ToIdle /\ Touch /\ UNCHANGED <<r_mem_q, r_last_gnt>>

AnswerL1D ==
  /\ LoadHit /\ ~r_mmu /\ ~r_mark_pte /\ r_last_gnt
  /\ Answer("l1d", r.l, w_d) /\ Onward
  /\ UNCHANGED <<cache, r_mmu, r_mmu_mark, misses, l1i, r_l1i_req, walker, flush,
                 outside>>

AnswerL1I ==
  /\ LoadHit /\ ~r_mmu /\ ~r_mark_pte /\ ~r_last_gnt
  /\ Answer("l1i", r.l, w_d) /\ l1i' = NoLine /\ Onward
  /\ UNCHANGED <<cache, r_mmu, r_mmu_mark, misses, r_l1i_req, walker, flush,
                 outside>>

StoreHit_Clean ==   \* Mutant: the line is not marked dirty
  /\ Check /\ w_hit /\ r.op = "SW"
  /\ cache' = [cache EXCEPT ![s][way].w = r.w]
  /\ Answer("l1d", r.l, r.w) /\ ToIdle /\ Touch
  /\ UNCHANGED <<r_mmu, r_mmu_mark, r_last_gnt, misses, l1, walker, flush, outside>>
StoreHit ==
  /\ Check /\ w_hit /\ r.op = "SW"
  /\ cache' = [cache EXCEPT ![s][way] = Written(@, r.w)]
  /\ Answer("l1d", r.l, r.w) /\ ToIdle /\ Touch
  /\ UNCHANGED <<r_mmu, r_mmu_mark, r_last_gnt, misses, l1, walker, flush, outside>>

(* A miss takes a ROB entry and chooses the way: an invalid one, or the    *)
(* one not used last.  A dirty victim is copied to the write back register *)
(* and stays in the array until the line that replaces it is there.        *)
n_replace == IF ~cache[s][0].v THEN 0 ELSE IF ~cache[s][1].v THEN 1 ELSE 1 - r.last
Victim == cache[s][n_replace]
Miss_StaleTag ==   \* Mutant: the request carries the tag of the last one
  /\ Check /\ ~w_hit
  /\ rob' = Append(rob, Entry(r.ty, r.l, r.op = "SW", r.w, n_replace))
  /\ r_rob_tag' = w_rob_tail_ptr /\ Send("LW", r.l, {}, r_rob_tag)
  /\ wb' = IF Victim.d THEN [need |-> TRUE, l |-> Victim.l, w |-> Victim.w] ELSE wb
  /\ last' = [last EXCEPT ![s] = n_replace]
  /\ r_mmu' = FALSE /\ ToIdle /\ NoAnswer
  /\ UNCHANGED <<cache, r_mmu_mark, r_last_gnt, r_rob_head_ptr, l1, walker, flush, mem>>
Miss ==
  /\ Check /\ ~w_hit
  /\ rob' = Append(rob, Entry(r.ty, r.l, r.op = "SW", r.w, n_replace))
  /\ r_rob_tag' = w_rob_tail_ptr /\ Send("LW", r.l, {}, w_rob_tail_ptr)
  /\ wb' = IF Victim.d THEN [need |-> TRUE, l |-> Victim.l, w |-> Victim.w] ELSE wb
  /\ last' = [last EXCEPT ![s] = n_replace]
  /\ r_mmu' = FALSE /\ ToIdle /\ NoAnswer
  /\ UNCHANGED <<cache, r_mmu_mark, r_last_gnt, r_rob_head_ptr, l1, walker, flush, mem>>

-----------------------------------------------------------------------------
(* The flush: every set loses its dirty bits, and its valid bits unless    *)
(* the caches are only to be written back; then its dirty ways are stored. *)

StartFlush ==
  /\ Idle /\ ~MustWriteBack /\ r_flush_req
  /\ r_state' = "FLUSH_WAIT" /\ r_idx' = 0 /\ NoAnswer
  /\ UNCHANGED <<cache, last, r, r_mmu, r_mmu_mark, r_last_gnt, misses, l1, walker,
                 r_need_l1d, r_need_l1i, r_flush_req, r_wb_no_inv, way1, outside>>

NextSet_Early ==   \* Mutant: the last set is left out
  \/ /\ r_idx + 1 < NSETS - 1 /\ r_idx' = r_idx + 1 /\ r_state' = "FLUSH_WAIT"
     /\ UNCHANGED <<r_flush_req, r_wb_no_inv>>
  \/ /\ r_idx + 1 >= NSETS - 1 /\ r_idx' = 0 /\ r_state' = "IDLE"
     /\ r_flush_req' = FALSE /\ r_wb_no_inv' = FALSE
NextSet ==
  \/ /\ r_idx # NSETS - 1 /\ r_idx' = r_idx + 1 /\ r_state' = "FLUSH_WAIT"
     /\ UNCHANGED <<r_flush_req, r_wb_no_inv>>
  \/ /\ r_idx = NSETS - 1 /\ r_idx' = 0 /\ r_state' = "IDLE"
     /\ r_flush_req' = FALSE /\ r_wb_no_inv' = FALSE
flush_complete == r_flush_req /\ ~r_flush_req'

Dirty(k) == cache[r_idx][k].v /\ cache[r_idx][k].d
Clean == cache' = [cache EXCEPT ![r_idx] =
           [k \in Ways |-> IF r_wb_no_inv /\ @[k].v THEN [@[k] EXCEPT !.d = FALSE]
                           ELSE Empty]]
(* The store's data goes through the register a victim's would be in. *)
FlushStore(line, word) ==
  /\ Send("SW", line, word, r_rob_tag)
  /\ wb' = IF wb.need THEN [wb EXCEPT !.w = word] ELSE wb

FlushSet ==
  /\ r_state = "FLUSH_WAIT" /\ Clean /\ NoAnswer
  /\ \/ /\ ~Dirty(0) /\ ~Dirty(1) /\ NextSet /\ UNCHANGED <<way1, mem_queue, wb>>
     \/ /\ Dirty(0) \/ Dirty(1)
        /\ LET c == cache[r_idx][IF Dirty(0) THEN 0 ELSE 1] IN FlushStore(c.l, c.w)
        /\ way1' = IF Dirty(0) /\ Dirty(1) THEN cache[r_idx][1] ELSE Empty
        /\ r_state' = "FLUSH_STORE" /\ UNCHANGED <<r_flush_req, r_wb_no_inv, r_idx>>
  /\ UNCHANGED <<last, r, r_mmu, r_mmu_mark, r_last_gnt, rob, r_rob_head_ptr, r_rob_tag,
                 l1, walker, r_need_l1d, r_need_l1i, mem>>

FlushWay2 ==
  /\ r_state = "FLUSH_STORE_WAY2" /\ FlushStore(way1.l, way1.w) /\ way1' = Empty
  /\ r_state' = "FLUSH_STORE" /\ NoAnswer
  /\ UNCHANGED <<cache, last, r, r_mmu, r_mmu_mark, r_last_gnt, rob, r_rob_head_ptr,
                 r_rob_tag, l1, walker, r_need_l1d, r_need_l1i, r_flush_req, r_wb_no_inv,
                 r_idx, mem>>

-----------------------------------------------------------------------------
(* The memory performs a request when it answers it.  In FLUSH_STORE any   *)
(* answer is taken for that of the flush's own store.                      *)
Perform == LET m == Head(mem_queue) IN
  /\ mem_queue # <<>> /\ mem_queue' = Tail(mem_queue) /\ NoAnswer
  /\ mem' = IF m.op = "SW" THEN [mem EXCEPT ![m.l] = m.w] ELSE mem

MemRsp ==
  /\ Perform /\ r_state # "FLUSH_STORE"
  /\ rob' = [i \in DOMAIN rob |->
       IF TagOf(i) = Head(mem_queue).t
       THEN [rob[i] EXCEPT !.done = TRUE,
               !.data = IF rob[i].ty = "WRITEBACK" THEN {} ELSE mem[Head(mem_queue).l]]
       ELSE rob[i]]
  /\ UNCHANGED <<lookup, r_rob_head_ptr, r_rob_tag, wb, l1, walker, flush>>

MemRspInFlush ==
  /\ Perform /\ r_state = "FLUSH_STORE"
  /\ \/ /\ way1.v /\ r_state' = "FLUSH_STORE_WAY2"
        /\ UNCHANGED <<r_flush_req, r_wb_no_inv, r_idx>>
     \/ ~way1.v /\ NextSet
  /\ UNCHANGED <<cache, last, r, r_mmu, r_mmu_mark, r_last_gnt, misses, l1, walker,
                 r_need_l1d, r_need_l1i, way1>>

(* A cycle in which nothing happens here. *)
Tick == NoAnswer /\ UNCHANGED <<lookup, misses, l1, walker, flush, outside>>

-----------------------------------------------------------------------------
(* The L1D: its requests are in the ROB, looked up, or queued.  It never    *)
(* asks twice for a line, and writes one back when nothing of it is on the *)
(* way (nu_l1d.sv: echo buffer, r_mq_inflight; see L1D.tla): of a line it  *)
(* waits for one store and one load at most, the store the older.          *)

L1DReq(op, line, word) == [op |-> op, l |-> line, w |-> word]
InRob == {L1DReq(IF e.st THEN "SW" ELSE "LW", e.l, e.w) :
            e \in {rob[i] : i \in {j \in DOMAIN rob : rob[j].ty = "L1D"}}}
LookedUp == IF Check /\ ~r_mmu /\ ~r_mark_pte /\ r_last_gnt
            THEN {L1DReq(r.op, r.l, r.w)} ELSE {}
Queued == {r_mem_q[i] : i \in DOMAIN r_mem_q}
Outstanding == InRob \cup LookedUp \cup Queued
L1DQuiet == Outstanding = {}

Asked(op, l) == {q \in Outstanding : q.op = op /\ q.l = l}
AtMostOne(S) == IF S = {} THEN <<>> ELSE <<CHOOSE q \in S : TRUE>>
Pending(l) == AtMostOne(Asked("SW", l)) \o AtMostOne(Asked("LW", l))

Flushing == r_need_l1d \/ r_need_l1i \/ r_flush_req

L1DRequest(op, l, w) ==
  /\ Flushing => r_need_l1d
  /\ Cardinality(Outstanding) < MRQ
  /\ Asked("LW", l) = {} /\ (op = "SW" => Asked("SW", l) = {})
  /\ r_mem_q' = Append(r_mem_q, L1DReq(op, l, w)) /\ NoAnswer
  /\ UNCHANGED <<lookup, misses, l1i, r_l1i_req, walker, flush, outside>>

L1IRequest(l) ==
  /\ Flushing => r_need_l1i
  /\ l1i = NoLine /\ l1i' = l /\ r_l1i_req' = TRUE /\ NoAnswer
  /\ UNCHANGED <<lookup, misses, r_mem_q, walker, flush, outside>>

L1Request ==
  \/ \E l \in L1DReads : L1DRequest("LW", l, {})
  \/ \E l \in L1DWrites, w \in StoreData : L1DRequest("SW", l, w)
  \/ \E l \in L1IReads : L1IRequest(l)

(* The page walker: a read first probes the L1D, which answers once its    *)
(* own requests are done; a mark goes straight to the L2.                  *)
WalkerIdle == mmu_req_addr = NoLine /\ mem_mark = NoMark

MmuRequest(l) ==
  /\ WalkerIdle /\ (Flushing => r_need_l1i)
  /\ mmu_req_addr' = l /\ r_pstate' = "PROBE_WAIT" /\ NoAnswer
  /\ UNCHANGED <<lookup, misses, l1, r_mmu_req, mem_mark, r_mmu_mark_req, flush,
                 outside>>

ProbeAck ==
  /\ r_pstate = "PROBE_WAIT" /\ L1DQuiet
  /\ r_pstate' = "PROBE_IDLE" /\ r_mmu_req' = TRUE /\ NoAnswer
  /\ UNCHANGED <<lookup, misses, l1, mmu_req_addr, mem_mark, r_mmu_mark_req, flush,
                 outside>>

MemMark(l, bits) ==
  /\ WalkerIdle /\ (Flushing => r_need_l1i)
  /\ mem_mark' = [l |-> l, bits |-> bits] /\ r_mmu_mark_req' = TRUE /\ NoAnswer
  /\ UNCHANGED <<lookup, misses, l1, mmu_req_addr, r_pstate, r_mmu_req, flush, outside>>

(* A flush: the core asks all three caches, the L2 starts when both L1s    *)
(* are done, and they stay quiet until it is done too (core.sv waits for   *)
(* the three answers).                                                     *)
RequestFlush(wb_no_inv) ==
  /\ ~Flushing /\ r_need_l1d' = TRUE /\ r_need_l1i' = TRUE
  /\ r_wb_no_inv' = wb_no_inv /\ NoAnswer
  /\ UNCHANGED <<lookup, misses, l1, walker, r_flush_req, r_idx, way1, outside>>

L1DFlushed ==
  /\ r_need_l1d /\ L1DQuiet
  /\ r_need_l1d' = FALSE /\ r_flush_req' = ~r_need_l1i /\ NoAnswer
  /\ UNCHANGED <<lookup, misses, l1, walker, r_need_l1i, r_wb_no_inv, r_idx, way1,
                 outside>>

L1IFlushed ==
  /\ r_need_l1i /\ l1i = NoLine /\ WalkerIdle
  /\ r_need_l1i' = FALSE /\ r_flush_req' = ~r_need_l1d /\ NoAnswer
  /\ UNCHANGED <<lookup, misses, l1, walker, r_need_l1d, r_wb_no_inv, r_idx, way1,
                 outside>>

-----------------------------------------------------------------------------
(* The reset sweep of the arrays (INITIALIZE) is over. *)
Init ==
  /\ cache = [i \in Sets |-> [k \in Ways |-> Empty]] /\ last = [i \in Sets |-> 1]
  /\ r_state = "IDLE" /\ r = NoRequest /\ r_mmu = FALSE /\ r_mmu_mark = {}
  /\ r_last_gnt = FALSE
  /\ rob = <<>> /\ r_rob_head_ptr = 0 /\ r_rob_tag = 0 /\ wb = NoWb
  /\ r_mem_q = <<>> /\ l1i = NoLine /\ r_l1i_req = FALSE
  /\ mmu_req_addr = NoLine /\ r_pstate = "PROBE_IDLE" /\ r_mmu_req = FALSE
  /\ mem_mark = NoMark /\ r_mmu_mark_req = FALSE
  /\ r_need_l1d = FALSE /\ r_need_l1i = FALSE /\ r_flush_req = FALSE
  /\ r_wb_no_inv = FALSE /\ r_idx = 0 /\ way1 = Empty
  /\ mem = Contents0 /\ mem_queue = <<>> /\ rsp = NoRsp

(* The cache and the memory; the clients. *)
Engine ==
  \/ PopWriteback \/ Fill \/ WriteBack \/ TakeMark \/ TakeMmu \/ TakeL1I \/ TakeL1D
  \/ AnswerMmu \/ UpdatePte \/ AnswerL1D \/ AnswerL1I \/ StoreHit \/ Miss
  \/ StartFlush \/ FlushSet \/ FlushWay2 \/ MemRsp \/ MemRspInFlush
FlushRequests == (\E b \in BOOLEAN : RequestFlush(b)) \/ L1DFlushed \/ L1IFlushed
WalkerRequests == \/ \E l \in Lines : MmuRequest(l)
                  \/ \E l \in Lines, bits \in (SUBSET Bits) \ {{}} : MemMark(l, bits)
Next == Engine \/ Tick \/ ProbeAck \/ L1Request \/ FlushRequests \/ WalkerRequests
Spec == Init /\ [][Next]_vars

-----------------------------------------------------------------------------
(* Type invariant: registers, arrays and queues stay in their ranges.      *)
Copy == {x \in [v : BOOLEAN, d : BOOLEAN, l : Lines \cup {NoLine}, w : Data] :
           x.v \/ x.d => x.l \in Lines}
EntryType == [ty : {"L1D", "L1I", "MMU", "MARK_PTE", "WRITEBACK"}, l : Lines,
              st : BOOLEAN, w : Data, way : Ways, done : BOOLEAN, data : Data]
RequestType == [ty : {"L1D", "L1I", "MMU", "MARK_PTE"}, op : {"LW", "SW"},
                l : Lines \cup {NoLine}, w : Data, last : Ways]
States == {"IDLE", "CHECK_VALID_AND_TAG", "FLUSH_WAIT", "FLUSH_STORE", "FLUSH_STORE_WAY2"}
MemRequestType == [op : {"LW", "SW"}, l : Lines, w : Data, t : Tags]
ArraysType == cache \in [Sets -> [Ways -> Copy]] /\ last \in [Sets -> Ways]
LookupType ==
  /\ r_state \in States /\ r \in RequestType /\ (Check => r.l \in Lines)
  /\ r_mmu \in BOOLEAN /\ r_mmu_mark \in SUBSET Bits /\ r_last_gnt \in BOOLEAN
MissesType ==
  /\ rob \in Seq(EntryType) /\ r_rob_head_ptr \in Tags /\ r_rob_tag \in Tags
  /\ wb \in [need : BOOLEAN, l : Lines \cup {NoLine}, w : Data]
  /\ wb.need => wb.l \in Lines
L1Type ==
  /\ r_mem_q \in Seq([op : {"LW", "SW"}, l : Lines, w : Data])
  /\ l1i \in Lines \cup {NoLine} /\ r_l1i_req \in BOOLEAN /\ (r_l1i_req => l1i \in Lines)
WalkerType ==
  /\ mmu_req_addr \in Lines \cup {NoLine} /\ r_pstate \in {"PROBE_IDLE", "PROBE_WAIT"}
  /\ r_mmu_req \in BOOLEAN /\ r_mmu_mark_req \in BOOLEAN
  /\ mem_mark \in [l : Lines \cup {NoLine}, bits : SUBSET Bits]
  /\ (r_mmu_req \/ r_pstate = "PROBE_WAIT" => mmu_req_addr \in Lines)
  /\ (r_mmu_mark_req => mem_mark.l \in Lines)
FlushType ==
  /\ r_need_l1d \in BOOLEAN /\ r_need_l1i \in BOOLEAN /\ r_flush_req \in BOOLEAN
  /\ r_wb_no_inv \in BOOLEAN /\ r_idx \in Sets
  /\ way1 \in Copy /\ (r_state = "FLUSH_STORE_WAY2" => way1.v)
MemoryType == mem \in [Lines -> Data] /\ mem_queue \in Seq(MemRequestType)
TypeOK == /\ ArraysType /\ LookupType /\ MissesType /\ L1Type /\ WalkerType
          /\ FlushType /\ MemoryType

(* What a line holds: its copy in the arrays, or the second dirty way a    *)
(* flush has still to store, the victim waiting for its write back, the    *)
(* youngest store on its way to the memory, or the memory.                 *)
CopiesOf(l) == {k \in Ways : cache[SetOf[l]][k].v /\ cache[SetOf[l]][k].l = l}
StoresOf(l) == {i \in DOMAIN mem_queue : mem_queue[i].op = "SW" /\ mem_queue[i].l = l}
Youngest(l) == CHOOSE i \in StoresOf(l) : \A j \in StoresOf(l) : j <= i
Stored(l) == IF StoresOf(l) # {} THEN mem_queue[Youngest(l)].w ELSE mem[l]
Behind(l) == IF way1.v /\ way1.l = l THEN way1.w
             ELSE IF wb.need /\ wb.l = l THEN wb.w ELSE Stored(l)
View(l) == IF CopiesOf(l) # {} THEN cache[SetOf[l]][CHOOSE k \in CopiesOf(l) : TRUE].w
           ELSE Behind(l)

LM == INSTANCE LineMemory WITH
        contents <- [l \in Lines |-> View(l)], l1d <- [l \in Lines |-> Pending(l)],
        walker <- mmu_req_addr, mark <- mem_mark

(* The L2 is a memory of lines to its clients: whatever misses, evictions, *)
(* write backs and flushes go on, each load is answered with what the line *)
(* holds at that moment, each store and mark takes effect once, and the    *)
(* L1D's requests for a line are answered in order (all of l2_2way.sv).    *)
Implements == LM!Spec

(* The ROB interlocks sets: its entries are of different sets, and none is *)
(* of the set looked up (w_hit_any_l1d, w_hit_any_l1i).  A line is thus    *)
(* never fetched twice at once, the way chosen for a fill is still the     *)
(* right one when it comes, and r_rob_hitbusy is never set.                *)
SetInterlock ==
  /\ \A i, j \in DOMAIN rob : SetOf[rob[i].l] = SetOf[rob[j].l] => i = j
  /\ Check => SetFree(r.l)

(* The ROB never has more entries than tags, although an early accepted    *)
(* load is looked up without asking whether it is full.                    *)
RobHasRoom == Len(rob) <= N /\ (Check => Len(rob) < N)

(* Each answer of the memory is for an entry that waits for it: one for an *)
(* entry done or gone stops the simulation (l2_2way.sv, r_rob_done).       *)
AnswersExpected ==
  mem_queue # <<>> /\ r_state # "FLUSH_STORE" =>
    \E i \in DOMAIN rob : TagOf(i) = Head(mem_queue).t /\ ~rob[i].done

(* A line is never in both ways of its set, where a store would change one *)
(* of them and the source would stop (w_hit0 & w_hit1).                    *)
OneCopy == \A i \in Sets : cache[i][0].v /\ cache[i][1].v =>
                             cache[i][0].l # cache[i][1].l

(* A victim never overwrites another in the write back register (the early *)
(* accept and the L1s' turn both ask for it to be free).                   *)
VictimKept == Check /\ ~w_hit => ~wb.need

(* While a victim waits for its write back, its line is fetched by nobody: *)
(* the memory still has the old one.                                       *)
VictimUnread == wb.need => \A i \in DOMAIN mem_queue :
                  mem_queue[i].op = "LW" => mem_queue[i].l # wb.l

(* When a flush is reported complete nothing in the arrays is dirty, and   *)
(* nothing at all is valid unless the caches were only written back.       *)
FlushCleans == [][flush_complete =>
  \A i \in Sets, k \in Ways : /\ ~cache'[i][k].d
                              /\ ~r_wb_no_inv => ~cache'[i][k].v]_vars

(* A mark finds its page table entry in the cache: the source has no way   *)
(* to fetch it, and stops when one has missed.                             *)
MarkHits == \A i \in DOMAIN rob : rob[i].ty # "MARK_PTE"
=============================================================================

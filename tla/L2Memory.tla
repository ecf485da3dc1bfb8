------------------------------ MODULE L2Memory ------------------------------
(***************************************************************************)
(* The L2 is a memory of lines: it implements LineMemory, its requests are *)
(* answered as it expects, and a victim's line is fetched by nobody while  *)
(* it waits.  All this as long as the page walker's marks hit, which the   *)
(* source takes for granted and stops without (MarkHits), and for every    *)
(* number of lines, sets and reorder buffer entries.                       *)
(***************************************************************************)
EXTENDS L2Proofs, WellFoundedInduction

-----------------------------------------------------------------------------
(* The invariant: what must hold for no line to be lost.                   *)

(* The flags r_mmu, r_mark_pte and r_last_gnt tell whose request is looked *)
(* up, as its type does, and its line is the one the client waits for.     *)
OfClient(e) == /\ e.ty = "MMU" => e.l = mmu_req_addr
               /\ e.ty = "L1I" => e.l = l1i
Owners ==
  /\ Check /\ r.ty = "L1D" => r_last_gnt
  /\ Check /\ r.ty = "L1I" => ~r_last_gnt
  /\ Check /\ r.ty # "L1D" => r.op = "LW"
  /\ r_mmu <=> Check /\ r.ty = "MMU"
  /\ r_mmu_mark # {} <=> Check /\ r.ty = "MARK_PTE"
  /\ Check /\ r.ty = "MARK_PTE" => r.l = mem_mark.l /\ r_mmu_mark = mem_mark.bits
  /\ Check => OfClient(r)
  /\ \A i \in DOMAIN rob : OfClient(rob[i]) /\ (rob[i].ty # "L1D" => ~rob[i].st)

(* Of a line the L1D waits for one store and one load at most, in this     *)
(* order.                                                                  *)
StoreThenLoad(p, q) == p.l = q.l => p.op = "SW" /\ q.op = "LW"
OneEach ==
  /\ \A i, j \in DOMAIN r_mem_q : i < j => StoreThenLoad(r_mem_q[i], r_mem_q[j])
  /\ \A p \in InRob \cup LookedUp, q \in Queued : StoreThenLoad(p, q)

(* A victim's write back is first in the ROB, and a victim that waits is   *)
(* of no line on its way.                                                  *)
Victims ==
  /\ \A i \in DOMAIN rob : rob[i].ty = "WRITEBACK" => i = 1
  /\ wb.need /\ rob # <<>> => rob[Len(rob)].ty # "WRITEBACK"
  /\ wb.need => \A i \in DOMAIN rob : rob[i].l # wb.l

(* While the L2 is flushed its clients wait for nothing.                   *)
FlushAlone ==
  /\ Flushing /\ ~r_need_l1d => L1DQuiet
  /\ Flushing /\ ~r_need_l1i => l1i = NoLine /\ WalkerIdle
  /\ InFlush => ~wb.need
  /\ way1.v => r_state \in {"FLUSH_STORE", "FLUSH_STORE_WAY2"}

(* The requests on their way to the memory are those of the entries that   *)
(* are not done; during a flush, that of one write back, and one more.     *)
AsksFor(i, j) ==
  /\ TagOf(i) = mem_queue[j].t /\ ~rob[i].done
  /\ mem_queue[j].op = IF rob[i].ty = "WRITEBACK" THEN "SW" ELSE "LW"
  /\ mem_queue[j].op = "LW" => mem_queue[j].l = rob[i].l
OneForOne ==
  /\ \A j \in DOMAIN mem_queue : \E i \in DOMAIN rob : AsksFor(i, j)
  /\ \A j, k \in DOMAIN mem_queue : mem_queue[j].t = mem_queue[k].t => j = k
OnTheWay == IF rob # <<>> /\ ~rob[1].done THEN 1 ELSE 0
OneMore ==
  /\ \A j \in DOMAIN mem_queue : mem_queue[j].op = "SW" /\ mem_queue[j].t = r_rob_tag
  /\ Len(mem_queue) <= (IF r_state = "FLUSH_STORE" THEN 1 ELSE 0) + OnTheWay
LastTag == rob # <<>> => r_rob_tag = TagOf(Len(rob))
StoresFirst == \A j, k \in DOMAIN mem_queue :
  mem_queue[j].op = "LW" /\ mem_queue[k].op = "SW" => k < j
Requests == LastTag /\ StoresFirst /\ (IF InFlush THEN OneMore ELSE OneForOne)

(* What would be lost if a copy went is behind it: a clean one, and one    *)
(* about to be replaced, hold what is behind them, and so does what was    *)
(* fetched.                                                                *)
Holds(c, x) == c.v /\ c.l = x
Backed(c) == \A x \in Lines : Holds(c, x) => c.w = Behind(x)
Copies == \A i \in Sets, k \in Ways : /\ cache[i][k].d => cache[i][k].v
                                      /\ ~cache[i][k].d => Backed(cache[i][k])
Replaced(e) == Backed(cache[SetOf[e.l]][e.way])
Fetched(e)  == \A x \in Lines : e.done /\ e.l = x => e.data = Behind(x)
Fetches == \A i \in DOMAIN rob : rob[i].ty # "WRITEBACK" =>
             Replaced(rob[i]) /\ Fetched(rob[i])

LinesKept == /\ MarkHits /\ Owners /\ OneEach /\ Victims /\ FlushAlone /\ Requests
             /\ Copies /\ Fetches

-----------------------------------------------------------------------------
(* Tags: the entries of the ROB have different ones, the next entry        *)
(* another, and popping leaves the others theirs.                          *)
LEMMA Modulo == \A x \in 0 .. 2 * N - 1 : x % N = IF x < N THEN x ELSE x - N
  BY L2Assumption

LEMMA TagsDiffer ==
  ASSUME TypeOK, RobHasRoom
  PROVE  /\ \A i, j \in 1 .. N : TagOf(i) = TagOf(j) => i = j
         /\ w_rob_tail_ptr = TagOf(Len(rob) + 1)
         /\ \A i \in 1 .. N - 1 : (((r_rob_head_ptr + 1) % N) + i - 1) % N = TagOf(i + 1)
         /\ DOMAIN rob = 1 .. Len(rob) /\ Len(rob) \in Nat /\ Len(rob) <= N /\ N \in Nat
<1>1. /\ DOMAIN rob = 1 .. Len(rob) /\ Len(rob) \in Nat /\ Len(rob) <= N /\ N \in Nat
      /\ r_rob_head_ptr \in 0 .. N - 1 /\ N > 0
  BY LenProperties, L2Assumption DEF TypeOK, MissesType, Tags, RobHasRoom
<1> DEFINE h == r_rob_head_ptr
           Wrap(x) == IF x < N THEN x ELSE x - N
<1>2. \A i \in 1 .. N : h + i - 1 \in 0 .. 2 * N - 1 /\ TagOf(i) = Wrap(h + i - 1)
  BY <1>1, Modulo DEF TagOf
<1>3. \A i, j \in 1 .. N : TagOf(i) = TagOf(j) => i = j
  BY <1>1, <1>2
<1>4. w_rob_tail_ptr = TagOf(Len(rob) + 1)
  BY <1>1 DEF w_rob_tail_ptr, TagOf
<1>5. ASSUME NEW i \in 1 .. N - 1
      PROVE  (((h + 1) % N) + i - 1) % N = TagOf(i + 1)
  <2>1. (h + 1) % N = Wrap(h + 1)
    BY <1>1, Modulo
  <2>2. ((h + 1) % N) + i - 1 \in 0 .. 2 * N - 1
    BY <1>1, <2>1
  <2>3. (((h + 1) % N) + i - 1) % N = Wrap(((h + 1) % N) + i - 1)
    BY <2>2, Modulo
  <2>4. TagOf(i + 1) = Wrap(h + (i + 1) - 1)
    BY <1>1, <1>2
  <2> QED
    BY <1>1, <2>1, <2>3, <2>4
<1> QED
  BY <1>1, <1>3, <1>4, <1>5

-----------------------------------------------------------------------------
(* Frames: what each group of steps leaves alone.                          *)
ClientSteps == Tick \/ ProbeAck \/ L1Request \/ FlushRequests \/ WalkerRequests
               \/ UNCHANGED vars

LEMMA ClientFrame ==
  ASSUME ClientSteps
  PROVE  UNCHANGED <<lookup, misses, outside, way1>>
  BY DEF ClientSteps, Tick, ProbeAck, L1Request, L1DRequest, L1IRequest, FlushRequests,
     RequestFlush, L1DFlushed, L1IFlushed, WalkerRequests, MmuRequest, MemMark, vars, flush

LEMMA EngineFrame ==
  ASSUME Engine
  PROVE  /\ UNCHANGED <<r_need_l1d, r_need_l1i>>
         /\ UNCHANGED r_pstate
         /\ UNCHANGED mmu_req_addr \/ AnswerMmu
         /\ UNCHANGED mem_mark \/ UpdatePte
         /\ UNCHANGED l1i \/ AnswerL1I
         /\ UNCHANGED way1 \/ FlushSet \/ FlushWay2
  BY DEF Engine, PopWriteback, Fill, WriteBack, TakeMark, TakeMmu, TakeL1I, TakeL1D,
     AnswerMmu, UpdatePte, AnswerL1D, AnswerL1I, StoreHit, Miss, StartFlush, FlushSet,
     FlushWay2, MemRsp, MemRspInFlush, l1, walker, flush

(* An answer of the memory changes nothing of an entry but done and data,  *)
(* and these only of the one with its tag.                                 *)
AnsweredEntry(i) ==
  /\ rob'[i].ty = rob[i].ty /\ rob'[i].l = rob[i].l /\ rob'[i].st = rob[i].st
  /\ rob'[i].w = rob[i].w /\ rob'[i].way = rob[i].way
  /\ TagOf(i) # Head(mem_queue).t => rob'[i] = rob[i]
  /\ TagOf(i) = Head(mem_queue).t =>
       /\ rob'[i].done
       /\ rob[i].ty # "WRITEBACK" => rob'[i].data = mem[Head(mem_queue).l]

LEMMA RspEntries ==
  ASSUME TypeOK, MemRsp
  PROVE  /\ DOMAIN rob' = DOMAIN rob /\ Len(rob') = Len(rob)
         /\ \A i \in DOMAIN rob : AnsweredEntry(i)
<1> DEFINE word == mem[Head(mem_queue).l]
           New(e) == [e EXCEPT !.done = TRUE,
                               !.data = IF e.ty = "WRITEBACK" THEN {} ELSE word]
<1>1. rob' = [i \in DOMAIN rob |-> IF TagOf(i) = Head(mem_queue).t THEN New(rob[i])
                                   ELSE rob[i]]
  BY DEF MemRsp
<1>2. DOMAIN rob' = DOMAIN rob /\ Len(rob') = Len(rob)
  BY MemRspRob DEF Marks
<1>3. \A i \in DOMAIN rob : rob[i] \in EntryType
  BY LenProperties, ElementOfSeq DEF TypeOK, MissesType
<1> HIDE DEF word
<1>4. ASSUME NEW e \in EntryType
      PROVE  /\ New(e).ty = e.ty /\ New(e).l = e.l /\ New(e).st = e.st /\ New(e).w = e.w
             /\ New(e).way = e.way /\ New(e).done
             /\ e.ty # "WRITEBACK" => New(e).data = word
  BY DEF EntryType
<1> HIDE DEF New
<1>5. ASSUME NEW i \in DOMAIN rob PROVE AnsweredEntry(i)
  <2>1. rob'[i] = IF TagOf(i) = Head(mem_queue).t THEN New(rob[i]) ELSE rob[i]
    BY <1>1
  <2> QED
    BY <1>3, <1>4, <2>1 DEF AnsweredEntry, word
<1> QED
  BY <1>2, <1>5

(* The entries after each step: the same, answered, popped or one more.    *)
Same == UNCHANGED <<rob, r_rob_head_ptr, r_rob_tag>>
Popped1 == /\ rob # <<>> /\ rob' = Tail(rob) /\ r_rob_head_ptr' = (r_rob_head_ptr + 1) % N
           /\ UNCHANGED r_rob_tag

LEMMA RobShapes ==
  ASSUME [Next]_vars
  PROVE  Same \/ MemRsp \/ ((PopWriteback \/ Fill) /\ Popped1) \/ WriteBack \/ Miss
<1>1. CASE Engine
  BY <1>1 DEF Engine, PopWriteback, Fill, WriteBack, TakeMark, TakeMmu, TakeL1I, TakeL1D,
     AnswerMmu, UpdatePte, AnswerL1D, AnswerL1I, StoreHit, Miss, StartFlush, FlushSet,
     FlushWay2, MemRsp, MemRspInFlush, misses, PopRob, w_head_of_rob_done, Same, Popped1
<1>2. CASE ClientSteps
  BY <1>2, ClientFrame DEF Same, misses
<1> QED
  BY <1>1, <1>2 DEF Next, ClientSteps

LEMMA PopEntries ==
  ASSUME TypeOK, RobHasRoom, Popped1
  PROVE  /\ 1 \in DOMAIN rob /\ Head(rob) = rob[1] /\ rob[1] \in EntryType
         /\ Len(rob') = Len(rob) - 1 /\ DOMAIN rob' = 1 .. Len(rob')
         /\ \A i \in DOMAIN rob' : /\ i + 1 \in DOMAIN rob /\ i + 1 # 1 /\ i \in 1 .. N - 1
                                   /\ rob'[i] = rob[i + 1] /\ TagOf(i)' = TagOf(i + 1)
<1>1. rob \in Seq(EntryType) /\ rob # <<>> /\ rob' = Tail(rob)
  BY DEF TypeOK, MissesType, Popped1
<1>2. /\ 1 \in DOMAIN rob /\ Head(rob) = rob[1] /\ Head(rob) \in EntryType
      /\ rob' \in Seq(EntryType) /\ Len(rob') = Len(rob) - 1
      /\ \A i \in DOMAIN rob' : i + 1 \in DOMAIN rob /\ i + 1 # 1 /\ rob'[i] = rob[i + 1]
  BY <1>1, Popped
<1>3. DOMAIN rob' = 1 .. Len(rob')
  BY <1>2, LenProperties
<1>4. Len(rob) \in Nat /\ Len(rob) <= N /\ N \in Nat
      /\ \A i \in 1 .. N - 1 : (((r_rob_head_ptr + 1) % N) + i - 1) % N = TagOf(i + 1)
  BY TagsDiffer
<1>5. \A i \in DOMAIN rob' : i \in 1 .. N - 1
  BY <1>2, <1>3, <1>4
<1>6. \A i \in DOMAIN rob' : TagOf(i)' = TagOf(i + 1)
  BY <1>4, <1>5 DEF TagOf, Popped1
<1> QED
  BY <1>2, <1>3, <1>5, <1>6

LEMMA NewEntry ==
  ASSUME TypeOK, RobHasRoom, NEW e \in EntryType, rob' = Append(rob, e),
         UNCHANGED r_rob_head_ptr
  PROVE  /\ Len(rob') = Len(rob) + 1 /\ Len(rob) \in Nat /\ rob' # <<>>
         /\ DOMAIN rob' = DOMAIN rob \cup {Len(rob) + 1} /\ DOMAIN rob = 1 .. Len(rob)
         /\ \A i \in DOMAIN rob : rob'[i] = rob[i]
         /\ rob'[Len(rob) + 1] = e
         /\ w_rob_tail_ptr = TagOf(Len(rob) + 1)
         /\ \A i \in DOMAIN rob' : TagOf(i)' = TagOf(i)
<1>1. rob \in Seq(EntryType)
  BY DEF TypeOK, MissesType
<1>2. /\ rob' \in Seq(EntryType) /\ Len(rob') = Len(rob) + 1 /\ Len(rob) \in Nat
      /\ DOMAIN rob' = DOMAIN rob \cup {Len(rob) + 1}
      /\ \A i \in DOMAIN rob : rob'[i] = rob[i]
      /\ rob'[Len(rob) + 1] = e
  BY <1>1, Appended
<1>3. rob' # <<>>
  BY <1>2, EmptySeq
<1>4. \A i : TagOf(i)' = TagOf(i)
  BY DEF TagOf
<1> QED
  BY <1>2, <1>3, <1>4, TagsDiffer

(* What enters the ROB. *)
LEMMA WriteBackEntry ==
  ASSUME TypeOK, WriteBack
  PROVE  LET e == Entry("WRITEBACK", wb.l, FALSE, {}, 0) IN
         /\ e \in EntryType /\ e.ty = "WRITEBACK" /\ ~e.done /\ ~e.st /\ e.l = wb.l
         /\ rob' = Append(rob, e) /\ UNCHANGED r_rob_head_ptr /\ rob = <<>>
<1>1. {} \in Data /\ 0 \in Ways /\ wb.l \in Lines
  BY DEF WriteBack, MustWriteBack, TypeOK, MissesType, Data, Ways
<1>2. WriteBack /\ rob = <<>>
  BY DEF WriteBack, MustWriteBack
<1> QED
  BY <1>1, <1>2 DEF Entry, EntryType, WriteBack

LEMMA MissEntry ==
  ASSUME TypeOK, Miss
  PROVE  LET e == Entry(r.ty, r.l, r.op = "SW", r.w, n_replace) IN
         /\ e \in EntryType /\ e.ty = r.ty /\ ~e.done /\ (e.st <=> r.op = "SW")
         /\ e.l = r.l /\ e.w = r.w /\ e.way = n_replace
         /\ rob' = Append(rob, e) /\ UNCHANGED r_rob_head_ptr
         /\ r.ty # "WRITEBACK" /\ Check
<1>1. /\ r.ty \in {"L1D", "L1I", "MMU", "MARK_PTE"} /\ r.w \in Data /\ r.l \in Lines
      /\ n_replace \in Ways
  BY HitWay DEF Miss, TypeOK, LookupType, RequestType
<1>2. Check /\ rob' = Append(rob, Entry(r.ty, r.l, r.op = "SW", r.w, n_replace))
      /\ UNCHANGED r_rob_head_ptr
  BY DEF Miss
<1> DEFINE st == r.op = "SW"
           e == Entry(r.ty, r.l, st, r.w, n_replace)
<1>3. st \in BOOLEAN /\ (st <=> r.op = "SW")
  OBVIOUS
<1> HIDE DEF st
<1>4. /\ e \in EntryType /\ e.ty = r.ty /\ ~e.done /\ e.st = st
      /\ e.l = r.l /\ e.w = r.w /\ e.way = n_replace
  BY <1>1, <1>3 DEF Entry, EntryType, Data
<1> QED
  BY <1>1, <1>2, <1>3, <1>4 DEF st

-----------------------------------------------------------------------------
(* Whose request is looked up.                                             *)
OfClientNext(e) == /\ e.ty = "MMU" => e.l = mmu_req_addr'
                   /\ e.ty = "L1I" => e.l = l1i'

LEMMA ClientsWait ==
  ASSUME TypeOK, ReadOnce, FetchOnce, [Next]_vars
  PROVE  /\ \A i \in DOMAIN rob : OfClient(rob[i]) => OfClientNext(rob[i])
         /\ ClientSteps /\ Check /\ OfClient(r) => OfClientNext(r)
<1>1. /\ (\E i \in DOMAIN rob : rob[i].ty = "MMU") => UNCHANGED mmu_req_addr
      /\ ClientSteps /\ Check /\ r.ty = "MMU" => UNCHANGED mmu_req_addr
  <2>1. (\E i \in DOMAIN rob : rob[i].ty = "MMU") => ~AnswerMmu
    BY DEF AnswerMmu, ReadOnce
  <2>2. /\ (\E i \in DOMAIN rob : rob[i].ty = "MMU") => mmu_req_addr # NoLine
        /\ Check /\ r.ty = "MMU" => mmu_req_addr # NoLine
    BY L2Assumption DEF ReadOnce, TypeOK, WalkerType
  <2>3. ClientSteps => UNCHANGED mmu_req_addr \/ mmu_req_addr = NoLine
    BY DEF ClientSteps, Tick, ProbeAck, L1Request, L1DRequest, L1IRequest, FlushRequests,
       RequestFlush, L1DFlushed, L1IFlushed, WalkerRequests, MmuRequest, MemMark, vars,
       walker, WalkerIdle
  <2> QED
    BY <2>1, <2>2, <2>3, EngineFrame DEF Next, ClientSteps
<1>2. /\ (\E i \in DOMAIN rob : rob[i].ty = "L1I") => UNCHANGED l1i
      /\ ClientSteps /\ Check /\ r.ty = "L1I" => UNCHANGED l1i
  <2>1. (\E i \in DOMAIN rob : rob[i].ty = "L1I") => ~AnswerL1I
    BY DEF AnswerL1I, LoadHit, FetchOnce
  <2>2. /\ (\E i \in DOMAIN rob : rob[i].ty = "L1I") => l1i # NoLine
        /\ Check /\ r.ty = "L1I" => l1i # NoLine
    BY DEF FetchOnce
  <2>3. ClientSteps => UNCHANGED l1i \/ l1i = NoLine
    BY DEF ClientSteps, Tick, ProbeAck, L1Request, L1DRequest, L1IRequest, FlushRequests,
       RequestFlush, L1DFlushed, L1IFlushed, WalkerRequests, MmuRequest, MemMark, vars, l1
  <2> QED
    BY <2>1, <2>2, <2>3, EngineFrame DEF Next, ClientSteps
<1> QED
  BY <1>1, <1>2 DEF OfClient, OfClientNext

OwnEntries == \A i \in DOMAIN rob : OfClient(rob[i]) /\ (rob[i].ty # "L1D" => ~rob[i].st)

LEMMA OwnEntriesStep ==
  ASSUME TypeOK, RobHasRoom, ReadOnce, FetchOnce, Owners, [Next]_vars
  PROVE  OwnEntries'
<1> DEFINE Own(e) == OfClientNext(e) /\ (e.ty # "L1D" => ~e.st)
<1>1. \A i \in DOMAIN rob : Own(rob[i])
  BY ClientsWait DEF Owners
<1>2. \A i \in DOMAIN rob' : Own(rob'[i])
  <2>1. CASE Same
    BY <1>1, <2>1 DEF Same
  <2>2. CASE MemRsp
    BY <1>1, <2>2, RspEntries DEF AnsweredEntry, OfClientNext
  <2>3. CASE Popped1
    BY <1>1, <2>3, PopEntries
  <2>4. CASE WriteBack
    <3>1. PICK e \in EntryType : e.ty = "WRITEBACK" /\ ~e.st /\ rob' = Append(rob, e)
      BY <2>4, WriteBackEntry
    <3> QED
      BY <1>1, <2>4, <3>1, NewEntry DEF WriteBack, OfClientNext
  <2>5. CASE Miss
    <3>1. PICK e \in EntryType : e.ty = r.ty /\ e.l = r.l /\ (e.st <=> r.op = "SW")
                                 /\ rob' = Append(rob, e) /\ Check
      BY <2>5, MissEntry
    <3>2. UNCHANGED <<mmu_req_addr, l1i, r_rob_head_ptr>>
      BY <2>5 DEF Miss, l1, walker
    <3>3. Own(e)
      BY <3>1, <3>2 DEF Owners, OfClient, OfClientNext
    <3> QED
      BY <1>1, <3>1, <3>2, <3>3, NewEntry
  <2> QED
    BY <2>1, <2>2, <2>3, <2>4, <2>5, RobShapes
<1> QED
  BY <1>2 DEF OwnEntries, OfClient, OfClientNext

OwnLookup ==
  /\ Check /\ r.ty = "L1D" => r_last_gnt
  /\ Check /\ r.ty = "L1I" => ~r_last_gnt
  /\ Check /\ r.ty # "L1D" => r.op = "LW"
  /\ r_mmu <=> Check /\ r.ty = "MMU"
  /\ r_mmu_mark # {} <=> Check /\ r.ty = "MARK_PTE"
  /\ Check /\ r.ty = "MARK_PTE" => r.l = mem_mark.l /\ r_mmu_mark = mem_mark.bits
  /\ Check => OfClient(r)

(* With nothing looked up no flag is up, and after a lookup has ended.     *)
LEMMA NoLookup ==
  ASSUME ~Check', ~r_mmu', r_mmu_mark' = {}, r_mmu' \in BOOLEAN
  PROVE  OwnLookup'
  BY DEF OwnLookup

LEMMA OwnLookupStep ==
  ASSUME TypeOK, ReadOnce, MarkOnce, FetchOnce, Owners, MarkHits, MarkHits', RobHasRoom,
         [Next]_vars
  PROVE  OwnLookup'
<1>0. OwnLookup
  BY DEF Owners, OwnLookup
<1>a. r_mmu \in BOOLEAN
  BY DEF TypeOK, LookupType
<1>1. CASE ClientSteps
  <2>1. UNCHANGED <<r_state, r, r_mmu, r_mmu_mark, r_last_gnt>>
    BY <1>1, ClientFrame DEF lookup
  <2>2. Check /\ r.ty = "MARK_PTE" => UNCHANGED mem_mark
    <3>1. Check /\ r.ty = "MARK_PTE" => mem_mark # NoMark
      BY <1>0, L2Assumption DEF OwnLookup, MarkOnce, NoMark
    <3>2. UNCHANGED mem_mark \/ mem_mark = NoMark
      BY <1>1 DEF ClientSteps, Tick, ProbeAck, L1Request, L1DRequest, L1IRequest,
         FlushRequests, RequestFlush, L1DFlushed, L1IFlushed, WalkerRequests, MmuRequest,
         MemMark, vars, walker, WalkerIdle
    <3> QED
      BY <3>1, <3>2
  <2>3. Check => OfClientNext(r)
    BY <1>0, <1>1, ClientsWait DEF OwnLookup
  <2> QED
    BY <1>0, <2>1, <2>2, <2>3 DEF OwnLookup, OfClient, OfClientNext, Check
<1>2. CASE PopWriteback
  BY <1>0, <1>2 DEF PopWriteback, OwnLookup, Check, NoLookup
<1>3. CASE Fill
  <2>1. /\ rob # <<>> /\ Popped1 /\ ~Check /\ Head(rob).ty \in {"MMU", "L1I", "L1D"}
        /\ r'.ty = Head(rob).ty /\ r'.l = Head(rob).l /\ r_mmu' = (Head(rob).ty = "MMU")
        /\ r'.op = (IF Head(rob).st THEN "SW" ELSE "LW")
        /\ r_last_gnt' = (Head(rob).ty = "L1D") /\ UNCHANGED r_mmu_mark
        /\ Check' /\ UNCHANGED <<mmu_req_addr, l1i>>
    BY <1>3 DEF Fill, Look, w_head_of_rob_done, PopRob, Popped1, Check, l1, walker
  <2>2. OfClient(Head(rob)) /\ (Head(rob).ty # "L1D" => ~Head(rob).st)
    BY <2>1, PopEntries DEF Owners
  <2>3. r_mmu_mark = {}
    BY <1>0, <2>1 DEF OwnLookup
  <2> QED
    BY <2>1, <2>2, <2>3 DEF OwnLookup, OfClient
<1>4. CASE WriteBack \/ StartFlush \/ FlushSet \/ FlushWay2 \/ MemRsp \/ MemRspInFlush
  <2>1. UNCHANGED <<r, r_mmu, r_mmu_mark, r_last_gnt, mem_mark, mmu_req_addr, l1i>>
    BY <1>4 DEF WriteBack, StartFlush, FlushSet, FlushWay2, MemRsp, MemRspInFlush, lookup,
       walker, l1
  <2>2. Check' <=> Check
    BY <1>4 DEF WriteBack, StartFlush, FlushSet, FlushWay2, MemRsp, MemRspInFlush, lookup,
       NextSet, Check, Idle
  <2> QED
    BY <1>0, <2>1, <2>2 DEF OwnLookup, OfClient
<1>5. CASE TakeMark \/ TakeMmu \/ TakeL1I \/ TakeL1D
  <2>1. ~Check /\ ~r_mmu /\ r_mmu_mark = {} /\ Check'
    BY <1>0, <1>5 DEF TakeMark, TakeMmu, TakeL1I, TakeL1D, L1Turn, Idle, Check, OwnLookup
  <2>2. CASE TakeMark
    <3>1. r'.ty = "MARK_PTE" /\ r'.op = "LW" /\ r'.l = mem_mark.l
          /\ r_mmu_mark' = mem_mark.bits /\ UNCHANGED <<r_mmu, mem_mark>>
          /\ mem_mark.bits # {}
      BY <2>2 DEF TakeMark, Look, MarkOnce
    <3> QED
      BY <1>a, <2>1, <3>1 DEF OwnLookup, OfClient
  <2>3. CASE TakeMmu
    <3>1. r'.ty = "MMU" /\ r'.op = "LW" /\ r'.l = mmu_req_addr /\ r_mmu'
          /\ UNCHANGED <<r_mmu_mark, mmu_req_addr>>
      BY <2>3 DEF TakeMmu, Look, walker
    <3> QED
      BY <2>1, <3>1 DEF OwnLookup, OfClient
  <2>4. CASE TakeL1I
    <3>1. r'.ty = "L1I" /\ r'.op = "LW" /\ r'.l = l1i /\ ~r_last_gnt'
          /\ UNCHANGED <<r_mmu, r_mmu_mark, l1i>>
      BY <2>4 DEF TakeL1I, Look
    <3> QED
      BY <1>a, <2>1, <3>1 DEF OwnLookup, OfClient
  <2>5. CASE TakeL1D
    <3>1. r'.ty = "L1D" /\ r_last_gnt' /\ UNCHANGED <<r_mmu, r_mmu_mark>>
      BY <2>5 DEF TakeL1D, NextOfL1D, Look
    <3> QED
      BY <1>a, <2>1, <3>1 DEF OwnLookup, OfClient
  <2> QED
    BY <1>5, <2>2, <2>3, <2>4, <2>5
<1>6. CASE AnswerMmu
  <2>1. r_mmu /\ Check /\ r_mmu' = FALSE /\ UNCHANGED r_mmu_mark /\ ~Check'
    BY <1>6 DEF AnswerMmu, LoadHit, ToIdle, Check
  <2>2. r_mmu_mark = {}
    BY <1>0, <2>1 DEF OwnLookup
  <2> QED
    BY <2>1, <2>2, NoLookup
<1>7. CASE UpdatePte
  <2>1. ~r_mmu /\ UNCHANGED r_mmu /\ r_mmu_mark' = {} /\ ~Check'
    BY <1>7 DEF UpdatePte, LoadHit, ToIdle, Check
  <2> QED
    BY <1>a, <2>1, NoLookup
<1>8. CASE StoreHit
  <2>1. Check /\ r.op = "SW" /\ UNCHANGED <<r_mmu, r_mmu_mark>> /\ ~Check'
    BY <1>8 DEF StoreHit, ToIdle, Check
  <2>2. ~r_mmu /\ r_mmu_mark = {}
    BY <1>0, <2>1 DEF OwnLookup
  <2> QED
    BY <1>a, <2>1, <2>2, NoLookup
<1>9. CASE Miss
  <2>1. Check /\ r_mmu' = FALSE /\ UNCHANGED r_mmu_mark /\ ~Check'
    BY <1>9 DEF Miss, ToIdle, Check
  <2>2. r.ty # "MARK_PTE"
    <3>1. PICK e \in EntryType : e.ty = r.ty /\ rob' = Append(rob, e)
                                 /\ UNCHANGED r_rob_head_ptr
      BY <1>9, MissEntry
    <3>2. Len(rob) + 1 \in DOMAIN rob' /\ rob'[Len(rob) + 1] = e
      BY <3>1, NewEntry
    <3> QED
      BY <3>1, <3>2 DEF MarkHits
  <2>3. r_mmu_mark = {}
    BY <1>0, <2>1, <2>2 DEF OwnLookup
  <2> QED
    BY <2>1, <2>3, NoLookup
<1>10. CASE AnswerL1D \/ AnswerL1I
  <2>1. ~r_mmu /\ r_mmu_mark = {} /\ UNCHANGED <<r_mmu, r_mmu_mark>> /\ Check /\ Onward
    BY <1>10 DEF AnswerL1D, AnswerL1I, LoadHit, r_mark_pte
  <2>2. CASE r' = NextOfL1D /\ r_last_gnt' = TRUE /\ UNCHANGED r_state
    <3>1. r'.ty = "L1D" /\ r_last_gnt'
      BY <2>2 DEF NextOfL1D, Look
    <3> QED
      BY <1>a, <2>1, <3>1 DEF OwnLookup, OfClient
  <2>3. CASE ToIdle
    BY <1>a, <2>1, <2>3, NoLookup DEF ToIdle, Check
  <2> QED
    BY <2>1, <2>2, <2>3 DEF Onward
<1> QED
  BY <1>1, <1>2, <1>3, <1>4, <1>5, <1>6, <1>7, <1>8, <1>9, <1>10
  DEF Next, Engine, ClientSteps

LEMMA OwnersStep ==
  ASSUME TypeOK, ReadOnce, MarkOnce, FetchOnce, Owners, MarkHits, MarkHits', RobHasRoom,
         [Next]_vars
  PROVE  Owners'
  BY OwnEntriesStep, OwnLookupStep DEF Owners, OwnEntries, OwnLookup

-----------------------------------------------------------------------------
(* The victim and its write back.                                          *)
LEMMA WbFrame ==
  ASSUME FlushAlone, [Next]_vars
  PROVE  UNCHANGED wb \/ WriteBack \/ Miss
<1>1. CASE FlushSet \/ FlushWay2
  <2>1. ~wb.need
    BY <1>1 DEF FlushSet, FlushWay2, FlushAlone, InFlush
  <2> QED
    BY <1>1, <2>1 DEF FlushSet, FlushWay2, FlushStore
<1>2. CASE Engine /\ ~FlushSet /\ ~FlushWay2
  BY <1>2 DEF Engine, PopWriteback, Fill, WriteBack, TakeMark, TakeMmu, TakeL1I, TakeL1D,
     AnswerMmu, UpdatePte, AnswerL1D, AnswerL1I, StoreHit, Miss, StartFlush,
     MemRsp, MemRspInFlush, misses
<1>3. CASE ClientSteps
  BY <1>3, ClientFrame DEF misses
<1> QED
  BY <1>1, <1>2, <1>3 DEF Next, ClientSteps

(* The victim of a miss: a line of the set looked up, and another.         *)
LEMMA VictimLine ==
  ASSUME TypeOK, SetHome, Copies, Miss, Victim.d
  PROVE  /\ Victim.v /\ Victim.l \in Lines /\ Victim.l # r.l /\ SetOf[Victim.l] = s
         /\ wb' = [need |-> TRUE, l |-> Victim.l, w |-> Victim.w]
<1>1. Check /\ ~w_hit /\ wb' = [need |-> TRUE, l |-> Victim.l, w |-> Victim.w]
  BY DEF Miss
<1>2. s \in Sets /\ n_replace \in Ways /\ Victim \in Copy /\ ~Cached(r.l)
  BY <1>1, HitWay
<1>3. Victim.v
  BY <1>2 DEF Copies, Victim
<1>4. Victim.l \in Lines
  BY <1>2, <1>3 DEF Copy
<1>5. SetOf[Victim.l] = s
  BY <1>2, <1>3 DEF SetHome, Victim
<1>6. Victim.l # r.l
  BY <1>2, <1>3 DEF Cached, Victim, s
<1> QED
  BY <1>1, <1>3, <1>4, <1>5, <1>6

LEMMA VictimsStep ==
  ASSUME TypeOK, RobHasRoom, SetInterlock, SetHome, VictimKept, FlushAlone, Copies, Victims,
         [Next]_vars
  PROVE  Victims'
<1>0. /\ \A i \in DOMAIN rob : rob[i].ty = "WRITEBACK" => i = 1
      /\ wb.need /\ rob # <<>> => rob[Len(rob)].ty # "WRITEBACK"
      /\ wb.need => \A i \in DOMAIN rob : rob[i].l # wb.l
  BY DEF Victims
<1>1. CASE Same /\ UNCHANGED wb
  BY <1>1, <1>0 DEF Same, Victims
<1>2. CASE MemRsp /\ UNCHANGED wb
  <2>1. DOMAIN rob' = DOMAIN rob /\ Len(rob') = Len(rob)
        /\ \A i \in DOMAIN rob : rob'[i].ty = rob[i].ty /\ rob'[i].l = rob[i].l
    BY <1>2, RspEntries DEF AnsweredEntry
  <2>2. rob' # <<>> => rob # <<>> /\ Len(rob) \in DOMAIN rob
    <3>1. rob \in Seq(EntryType) /\ Len(rob) \in Nat /\ DOMAIN rob = 1 .. Len(rob)
      BY LenProperties DEF TypeOK, MissesType
    <3>2. rob' \in Seq(EntryType)
      BY <1>2, MemRspRob DEF Marks
    <3> QED
      BY <2>1, <3>1, <3>2, EmptySeq
  <2> QED
    BY <1>0, <1>2, <2>1, <2>2 DEF Victims
<1>3. CASE Popped1 /\ UNCHANGED wb
  <2>1. /\ Len(rob') = Len(rob) - 1 /\ DOMAIN rob' = 1 .. Len(rob')
        /\ \A i \in DOMAIN rob' : i + 1 \in DOMAIN rob /\ i + 1 # 1 /\ rob'[i] = rob[i + 1]
    BY <1>3, PopEntries
  <2>2. \A i \in DOMAIN rob' : rob'[i].ty # "WRITEBACK"
    BY <1>0, <2>1
  <2>3. rob' # <<>> => Len(rob') \in DOMAIN rob'
    <3>1. rob' \in Seq(EntryType)
      BY <1>3, Popped DEF Popped1, TypeOK, MissesType
    <3>2. Len(rob') \in Nat /\ (rob' # <<>> => Len(rob') # 0)
      BY <3>1, LenProperties, EmptySeq
    <3> QED
      BY <2>1, <3>2
  <2>4. wb'.need => \A i \in DOMAIN rob' : rob'[i].l # wb'.l
    BY <1>0, <1>3, <2>1
  <2> QED
    BY <2>2, <2>3, <2>4 DEF Victims
<1>4. CASE WriteBack
  <2>1. PICK e \in EntryType : rob' = Append(rob, e) /\ rob = <<>>
    BY <1>4, WriteBackEntry
  <2>2. Len(rob) = 0 /\ DOMAIN rob' = DOMAIN rob \cup {Len(rob) + 1} /\ DOMAIN rob = {}
    BY <1>4, <2>1, NewEntry DEF WriteBack
  <2>3. ~wb'.need
    BY <1>4 DEF WriteBack, NoWb
  <2> QED
    BY <2>2, <2>3 DEF Victims
<1>5. CASE Miss
  <2>1. PICK e \in EntryType :
          e.ty = r.ty /\ e.l = r.l /\ r.ty # "WRITEBACK" /\ rob' = Append(rob, e) /\ Check
          /\ UNCHANGED r_rob_head_ptr
    BY <1>5, MissEntry
  <2>2. /\ Len(rob') = Len(rob) + 1 /\ Len(rob) \in Nat
        /\ DOMAIN rob' = DOMAIN rob \cup {Len(rob) + 1}
        /\ \A i \in DOMAIN rob : rob'[i] = rob[i]
        /\ rob'[Len(rob) + 1] = e
    BY <2>1, NewEntry
  <2>3. wb'.need => Victim.d
    BY <1>5, <2>1 DEF Miss, VictimKept
  <2>4. wb'.need => \A i \in DOMAIN rob' : rob'[i].l # wb'.l
    <3>1. wb'.need => wb'.l = Victim.l /\ Victim.l # r.l /\ SetOf[Victim.l] = s
      BY <1>5, <2>3, VictimLine
    <3>2. \A i \in DOMAIN rob : SetOf[rob[i].l] # s
      BY <2>1 DEF SetInterlock, SetFree, s
    <3> QED
      BY <2>1, <2>2, <3>1, <3>2
  <2> QED
    BY <1>0, <2>1, <2>2, <2>4 DEF Victims
<1> QED
  BY <1>1, <1>2, <1>3, <1>4, <1>5, WbFrame, RobShapes

-----------------------------------------------------------------------------
(* The L1D's requests: where they are after each step.                     *)
Req(e) == L1DReq(IF e.st THEN "SW" ELSE "LW", e.l, e.w)
IfL1D(e) == IF e.ty = "L1D" THEN {Req(e)} ELSE {}

LEMMA RobReqs ==
  \A q : q \in InRob <=> \E i \in DOMAIN rob : rob[i].ty = "L1D" /\ q = Req(rob[i])
  BY DEF InRob, Req

LEMMA RobReqsNext ==
  \A q : q \in InRob' <=> \E i \in DOMAIN rob' : rob'[i].ty = "L1D" /\ q = Req(rob'[i])
  BY DEF InRob, Req

LEMMA InRobPop ==
  ASSUME TypeOK, RobHasRoom, Popped1
  PROVE  InRob = IfL1D(Head(rob)) \cup InRob'
<1>1. /\ 1 \in DOMAIN rob /\ Head(rob) = rob[1]
      /\ \A i \in DOMAIN rob' : i + 1 \in DOMAIN rob /\ i + 1 # 1 /\ rob'[i] = rob[i + 1]
      /\ DOMAIN rob' = 1 .. Len(rob') /\ Len(rob') = Len(rob) - 1
  BY PopEntries
<1>2. DOMAIN rob = 1 .. Len(rob) /\ Len(rob) \in Nat
  BY TagsDiffer
<1>3. ASSUME NEW i \in DOMAIN rob, i # 1
      PROVE  i - 1 \in DOMAIN rob' /\ rob'[i - 1] = rob[i]
  <2>1. i - 1 \in DOMAIN rob' /\ (i - 1) + 1 = i
    BY <1>1, <1>2, <1>3
  <2>2. rob'[i - 1] = rob[(i - 1) + 1]
    BY <1>1, <2>1
  <2> QED
    BY <2>1, <2>2
<1>4. ASSUME NEW q \in InRob PROVE q \in IfL1D(Head(rob)) \cup InRob'
  <2>1. PICK i \in DOMAIN rob : rob[i].ty = "L1D" /\ q = Req(rob[i])
    BY RobReqs
  <2>2. CASE i = 1
    BY <1>1, <2>1, <2>2 DEF IfL1D
  <2>3. CASE i # 1
    BY <1>3, <2>1, <2>3, RobReqsNext
  <2> QED
    BY <2>2, <2>3
<1>5. InRob' \subseteq InRob
  BY <1>1, RobReqs, RobReqsNext
<1>6. IfL1D(Head(rob)) \subseteq InRob
  BY <1>1, RobReqs DEF IfL1D
<1> QED
  BY <1>4, <1>5, <1>6

LEMMA InRobNew ==
  ASSUME TypeOK, RobHasRoom, NEW e \in EntryType, rob' = Append(rob, e),
         UNCHANGED r_rob_head_ptr
  PROVE  InRob' = InRob \cup IfL1D(e)
<1>1. /\ DOMAIN rob' = DOMAIN rob \cup {Len(rob) + 1}
      /\ \A i \in DOMAIN rob : rob'[i] = rob[i]
      /\ rob'[Len(rob) + 1] = e
  BY NewEntry
<1>2. ASSUME NEW q \in InRob' PROVE q \in InRob \cup IfL1D(e)
  <2>1. PICK i \in DOMAIN rob' : rob'[i].ty = "L1D" /\ q = Req(rob'[i])
    BY RobReqsNext
  <2> QED
    BY <1>1, <2>1, RobReqs DEF IfL1D
<1>3. InRob \subseteq InRob'
  BY <1>1, RobReqs, RobReqsNext
<1>4. IfL1D(e) \subseteq InRob'
  BY <1>1, RobReqsNext DEF IfL1D
<1> QED
  BY <1>2, <1>3, <1>4

LEMMA InRobKept ==
  ASSUME TypeOK, UNCHANGED rob \/ MemRsp
  PROVE  InRob' = InRob
<1>1. CASE UNCHANGED rob
  BY <1>1 DEF InRob
<1>2. CASE MemRsp
  <2>1. DOMAIN rob' = DOMAIN rob
        /\ \A i \in DOMAIN rob : rob'[i].ty = rob[i].ty /\ Req(rob'[i]) = Req(rob[i])
    BY <1>2, RspEntries DEF AnsweredEntry, Req
  <2> QED
    BY <2>1, RobReqs, RobReqsNext
<1> QED
  BY <1>1, <1>2

(* The queue. *)
QReq == [op : {"LW", "SW"}, l : Lines, w : Data]
QPopped == r_mem_q # <<>> /\ r_mem_q' = Tail(r_mem_q)

LEMMA QueueIs ==
  ASSUME TypeOK
  PROVE  /\ r_mem_q \in Seq(QReq) /\ DOMAIN r_mem_q = 1 .. Len(r_mem_q)
         /\ Len(r_mem_q) \in Nat /\ \A i \in DOMAIN r_mem_q : r_mem_q[i] \in QReq
         /\ Queued \subseteq QReq
<1>1. r_mem_q \in Seq(QReq)
  BY DEF TypeOK, L1Type, QReq
<1>2. DOMAIN r_mem_q = 1 .. Len(r_mem_q) /\ Len(r_mem_q) \in Nat
      /\ \A i \in DOMAIN r_mem_q : r_mem_q[i] \in QReq
  BY <1>1, LenProperties, ElementOfSeq
<1> QED
  BY <1>1, <1>2 DEF Queued

LEMMA QueuePop ==
  ASSUME TypeOK, QPopped
  PROVE  /\ Head(r_mem_q) \in QReq /\ 1 \in DOMAIN r_mem_q /\ Head(r_mem_q) = r_mem_q[1]
         /\ Queued = {Head(r_mem_q)} \cup Queued'
         /\ \A i \in DOMAIN r_mem_q' : /\ i \in Nat /\ i + 1 \in DOMAIN r_mem_q /\ i + 1 > 1
                                       /\ r_mem_q'[i] = r_mem_q[i + 1]
<1>1. r_mem_q \in Seq(QReq) /\ r_mem_q # <<>> /\ r_mem_q' = Tail(r_mem_q)
      /\ DOMAIN r_mem_q = 1 .. Len(r_mem_q) /\ Len(r_mem_q) \in Nat
  BY QueueIs DEF QPopped
<1>2. /\ 1 \in DOMAIN r_mem_q /\ Head(r_mem_q) = r_mem_q[1] /\ Head(r_mem_q) \in QReq
      /\ r_mem_q' \in Seq(QReq) /\ Len(r_mem_q') = Len(r_mem_q) - 1
      /\ \A i \in DOMAIN r_mem_q' : i + 1 \in DOMAIN r_mem_q /\ r_mem_q'[i] = r_mem_q[i + 1]
  BY <1>1, Popped
<1>3. DOMAIN r_mem_q' = 1 .. Len(r_mem_q')
  BY <1>2, LenProperties
<1>4. ASSUME NEW i \in DOMAIN r_mem_q, i # 1
      PROVE  r_mem_q[i] \in Queued'
  <2>1. i - 1 \in DOMAIN r_mem_q' /\ (i - 1) + 1 = i
    BY <1>1, <1>2, <1>3, <1>4
  <2>2. r_mem_q'[i - 1] = r_mem_q[(i - 1) + 1]
    BY <1>2, <2>1
  <2> QED
    BY <2>1, <2>2 DEF Queued
<1>5. Queued \subseteq {Head(r_mem_q)} \cup Queued'
  BY <1>2, <1>4 DEF Queued
<1>6. {Head(r_mem_q)} \cup Queued' \subseteq Queued
  BY <1>2 DEF Queued
<1>7. \A i \in DOMAIN r_mem_q' : i \in Nat /\ i + 1 > 1
  BY <1>3
<1> QED
  BY <1>2, <1>5, <1>6, <1>7

LEMMA QueueNew ==
  ASSUME TypeOK, NEW q \in QReq, r_mem_q' = Append(r_mem_q, q)
  PROVE  /\ Queued' = Queued \cup {q}
         /\ Len(r_mem_q) \in Nat /\ DOMAIN r_mem_q = 1 .. Len(r_mem_q)
         /\ DOMAIN r_mem_q' = DOMAIN r_mem_q \cup {Len(r_mem_q) + 1}
         /\ \A i \in DOMAIN r_mem_q : r_mem_q'[i] = r_mem_q[i]
         /\ r_mem_q'[Len(r_mem_q) + 1] = q
<1>1. /\ Len(r_mem_q) \in Nat /\ DOMAIN r_mem_q = 1 .. Len(r_mem_q)
      /\ DOMAIN r_mem_q' = DOMAIN r_mem_q \cup {Len(r_mem_q) + 1}
      /\ \A i \in DOMAIN r_mem_q : r_mem_q'[i] = r_mem_q[i]
      /\ r_mem_q'[Len(r_mem_q) + 1] = q
  BY QueueIs, Appended
<1>2. Queued' = Queued \cup {q}
  BY <1>1 DEF Queued
<1> QED
  BY <1>1, <1>2

Front == InRob \cup LookedUp
Looked == IF Check /\ r.ty = "L1D" THEN {L1DReq(r.op, r.l, r.w)} ELSE {}

LEMMA LookedUpIs == TypeOK /\ Owners => LookedUp = Looked
<1> SUFFICES ASSUME TypeOK, Owners PROVE LookedUp = Looked
  OBVIOUS
<1>1. Check => r.ty \in {"L1D", "L1I", "MMU", "MARK_PTE"}
  BY DEF TypeOK, LookupType, RequestType
<1> QED
  BY <1>1 DEF LookedUp, Looked, Owners, r_mark_pte

ByType == LookedUp = Looked
LEMMA LookedUpNext == TypeOK' /\ Owners' => LookedUp' = Looked'
<1>1. TypeOK /\ Owners => ByType
  BY LookedUpIs DEF ByType
<1>2. TypeOK' /\ Owners' => ByType'
  BY <1>1, PTL
<1> QED
  BY <1>2 DEF ByType

(* They stay, one is taken from the queue, the one looked up is answered   *)
(* (and another taken), or a new one comes.                                *)
Stay == Front' = Front /\ UNCHANGED r_mem_q
Taken == QPopped /\ Front' = Front \cup {Head(r_mem_q)}
AnsweredOne == /\ LookedUp = {L1DReq(r.op, r.l, r.w)} /\ Check /\ r.ty = "L1D"
               /\ \/ Front' = InRob /\ UNCHANGED r_mem_q
                  \/ QPopped /\ Front' = InRob \cup {Head(r_mem_q)}
New(op, l, w) == /\ L1DRequest(op, l, w) /\ L1DReq(op, l, w) \in QReq /\ Front' = Front

LEMMA NewIs ==
  ASSUME TypeOK, L1Request, Front' = Front
  PROVE  \/ UNCHANGED r_mem_q
         \/ \E op \in {"LW", "SW"}, l \in Lines, w \in Data : New(op, l, w)
<1>1. L1DReads \cup L1DWrites \subseteq Lines /\ StoreData \subseteq Data /\ {} \in Data
  BY L2Assumption DEF Data
<1>2. ASSUME NEW l \in L1DReads, L1DRequest("LW", l, {}) PROVE New("LW", l, {})
  BY <1>1, <1>2 DEF New, L1DReq, QReq
<1>3. ASSUME NEW l \in L1DWrites, NEW w \in StoreData, L1DRequest("SW", l, w)
      PROVE  New("SW", l, w)
  BY <1>1, <1>3 DEF New, L1DReq, QReq
<1> QED
  BY <1>1, <1>2, <1>3 DEF L1Request, L1IRequest

LEMMA NextOfQueue ==
  ASSUME TypeOK, r_mem_q # <<>>
  PROVE  L1DReq(NextOfL1D.op, NextOfL1D.l, NextOfL1D.w) = Head(r_mem_q)
         /\ NextOfL1D.ty = "L1D"
<1>1. Head(r_mem_q) \in QReq
  BY QueueIs, Popped
<1> QED
  BY <1>1 DEF NextOfL1D, Look, L1DReq, QReq

NewOne == \E op \in {"LW", "SW"}, l \in Lines, w \in Data : New(op, l, w)
LEMMA Moves ==
  ASSUME TypeOK, RobHasRoom, Owners, TypeOK', Owners', [Next]_vars
  PROVE  IF AnswerL1D \/ StoreHit THEN AnsweredOne
         ELSE Stay \/ Taken \/ NewOne
<1>0. LookedUp = Looked /\ LookedUp' = Looked'
  BY LookedUpIs, LookedUpNext
<1>1. ASSUME ClientSteps PROVE Stay \/ Taken \/ NewOne
  <2>1. UNCHANGED <<rob, r_state, r>>
    BY <1>1, ClientFrame DEF lookup, misses
  <2>2. Front' = Front
    BY <1>0, <2>1, InRobKept DEF Front, Looked, Check
  <2>3. L1Request \/ UNCHANGED r_mem_q
    BY <1>1 DEF ClientSteps, Tick, ProbeAck, FlushRequests, RequestFlush, L1DFlushed,
       L1IFlushed, WalkerRequests, MmuRequest, MemMark, vars, l1
  <2> QED
    BY <2>2, <2>3, NewIs DEF Stay, NewOne
<1>2. ASSUME PopWriteback \/ Fill PROVE Stay \/ Taken \/ NewOne
  <2>1. Popped1 /\ ~Check /\ UNCHANGED r_mem_q
    BY <1>2 DEF PopWriteback, Fill, PopRob, Popped1, w_head_of_rob_done, Check, l1
  <2>2. InRob = IfL1D(Head(rob)) \cup InRob'
    BY <2>1, InRobPop
  <2>3. LookedUp = {}
    BY <1>0, <2>1 DEF Looked
  <2>4. LookedUp' = IfL1D(Head(rob))
    <3>1. CASE PopWriteback
      BY <1>0, <3>1 DEF PopWriteback, IfL1D, Looked, Check
    <3>2. CASE Fill
      <4>1. /\ r'.ty = Head(rob).ty /\ r'.l = Head(rob).l /\ r'.w = Head(rob).w
            /\ r'.op = (IF Head(rob).st THEN "SW" ELSE "LW") /\ Check'
        BY <3>2 DEF Fill, Look, Check
      <4> QED
        BY <1>0, <4>1 DEF IfL1D, Req, Looked
    <3> QED
      BY <1>2, <3>1, <3>2
  <2> QED
    BY <2>1, <2>2, <2>3, <2>4 DEF Stay, Front
<1>3. ASSUME WriteBack PROVE Stay \/ Taken \/ NewOne
  <2>1. PICK e \in EntryType : e.ty = "WRITEBACK" /\ rob' = Append(rob, e)
                               /\ UNCHANGED r_rob_head_ptr
    BY <1>3, WriteBackEntry
  <2>2. InRob' = InRob
    BY <2>1, InRobNew DEF IfL1D
  <2>3. UNCHANGED <<r_state, r, r_mem_q>>
    BY <1>3 DEF WriteBack, lookup, l1
  <2> QED
    BY <1>0, <2>2, <2>3 DEF Stay, Front, Looked, Check
<1>4. ASSUME StartFlush \/ FlushSet \/ FlushWay2 \/ MemRsp \/ MemRspInFlush
      PROVE  Stay \/ Taken \/ NewOne
  <2>1. UNCHANGED <<r, r_mem_q>> /\ (UNCHANGED rob \/ MemRsp)
    BY <1>4 DEF StartFlush, FlushSet, FlushWay2, MemRsp, MemRspInFlush, lookup, l1, misses
  <2>2. Check' <=> Check
    BY <1>4 DEF StartFlush, FlushSet, FlushWay2, MemRsp, MemRspInFlush, lookup,
       NextSet, Check, Idle
  <2> QED
    BY <1>0, <2>1, <2>2, InRobKept DEF Stay, Front, Looked
<1>5. ASSUME TakeMark \/ TakeMmu \/ TakeL1I PROVE Stay \/ Taken \/ NewOne
  <2>1. ~Check /\ r'.ty # "L1D" /\ UNCHANGED <<rob, r_mem_q>>
    BY <1>5 DEF TakeMark, TakeMmu, TakeL1I, L1Turn, Idle, Check, Look, misses, l1
  <2> QED
    BY <1>0, <2>1, InRobKept DEF Stay, Front, Looked
<1>6. ASSUME TakeL1D PROVE Stay \/ Taken \/ NewOne
  <2>1. ~Check /\ Check' /\ r' = NextOfL1D /\ QPopped /\ UNCHANGED rob
    BY <1>6 DEF TakeL1D, L1Turn, Idle, Check, misses, QPopped, w_pick_l1d, w_l1d_req
  <2>2. LookedUp = {} /\ LookedUp' = {Head(r_mem_q)}
    BY <1>0, <2>1, NextOfQueue DEF Looked, QPopped
  <2> QED
    BY <2>1, <2>2, InRobKept DEF Taken, Front
<1>7. ASSUME AnswerMmu \/ UpdatePte PROVE Stay \/ Taken \/ NewOne
  <2>1. r.ty # "L1D" /\ ~Check' /\ UNCHANGED <<rob, r_mem_q>>
    BY <1>7 DEF AnswerMmu, UpdatePte, ToIdle, Check, misses, l1, Owners, r_mark_pte
  <2> QED
    BY <1>0, <2>1, InRobKept DEF Stay, Front, Looked
<1>8. ASSUME AnswerL1D PROVE AnsweredOne
  <2>1. Check /\ LookedUp = {L1DReq(r.op, r.l, r.w)} /\ Onward /\ UNCHANGED rob
    BY <1>8 DEF AnswerL1D, LoadHit, LookedUp, misses
  <2>2. r.ty = "L1D"
    BY <1>0, <2>1 DEF Looked
  <2>3. CASE Early /\ r' = NextOfL1D /\ QPopped /\ UNCHANGED r_state
    <3>1. LookedUp' = {Head(r_mem_q)}
      BY <1>0, <2>1, <2>3, NextOfQueue DEF Looked, QPopped, Check
    <3> QED
      BY <1>8, <2>1, <2>2, <2>3, <3>1, InRobKept DEF AnsweredOne, Front
  <2>4. CASE ToIdle /\ UNCHANGED r_mem_q
    <3>1. LookedUp' = {}
      BY <1>0, <2>4 DEF Looked, ToIdle, Check
    <3> QED
      BY <1>8, <2>1, <2>2, <2>4, <3>1, InRobKept DEF AnsweredOne, Front
  <2> QED
    BY <2>1, <2>3, <2>4 DEF Onward, Early, w_l1d_req, QPopped
<1>9. ASSUME AnswerL1I PROVE Stay \/ Taken \/ NewOne
  <2>1. Check /\ LookedUp = {} /\ Onward /\ UNCHANGED rob
    BY <1>9 DEF AnswerL1I, LoadHit, LookedUp, misses
  <2>3. CASE Early /\ r' = NextOfL1D /\ QPopped /\ UNCHANGED r_state
    <3>1. LookedUp' = {Head(r_mem_q)}
      BY <1>0, <2>1, <2>3, NextOfQueue DEF Looked, QPopped, Check
    <3> QED
      BY <2>1, <2>3, <3>1, InRobKept DEF Taken, Front
  <2>4. CASE ToIdle /\ UNCHANGED r_mem_q
    <3>1. LookedUp' = {}
      BY <1>0, <2>4 DEF Looked, ToIdle, Check
    <3> QED
      BY <2>1, <2>4, <3>1, InRobKept DEF Stay, Front
  <2> QED
    BY <2>1, <2>3, <2>4 DEF Onward, Early, w_l1d_req, QPopped
<1>10. ASSUME StoreHit PROVE AnsweredOne
  <2>1. Check /\ r.ty = "L1D" /\ ~Check' /\ UNCHANGED <<rob, r_mem_q>>
    BY <1>10 DEF StoreHit, ToIdle, Check, misses, l1, Owners
  <2> QED
    BY <1>0, <1>10, <2>1, InRobKept DEF AnsweredOne, Front, Looked
<1>11. ASSUME Miss PROVE Stay \/ Taken \/ NewOne
  <2>1. PICK e \in EntryType :
          /\ e.ty = r.ty /\ (e.st <=> r.op = "SW") /\ e.l = r.l /\ e.w = r.w
          /\ rob' = Append(rob, e) /\ UNCHANGED r_rob_head_ptr /\ Check
    BY <1>11, MissEntry
  <2>2. InRob' = InRob \cup IfL1D(e)
    BY <2>1, InRobNew
  <2>3. ~Check' /\ UNCHANGED r_mem_q
    BY <1>11 DEF Miss, ToIdle, Check, l1
  <2>4. IfL1D(e) = Looked
    <3>1. r.op \in {"LW", "SW"}
      BY DEF TypeOK, LookupType, RequestType
    <3> QED
      BY <2>1, <3>1 DEF IfL1D, Looked, Req
  <2> QED
    BY <1>0, <2>2, <2>3, <2>4 DEF Stay, Front, Looked
<1> QED
  BY <1>1, <1>2, <1>3, <1>4, <1>5, <1>6, <1>7, <1>8, <1>9, <1>10, <1>11
  DEF Next, Engine, ClientSteps


(* Two requests for one line wait: they are of different kinds, and the    *)
(* one looked up is the older.                                             *)
LEMMA RobAlone ==
  ASSUME TypeOK, SetInterlock
  PROVE  /\ \A p, q \in InRob : p.l = q.l => p = q
         /\ \A p \in InRob, q \in LookedUp : p.l # q.l
         /\ Front \subseteq QReq
<1>1. \A p \in InRob : \E i \in DOMAIN rob : p = Req(rob[i]) /\ p.l = rob[i].l
  BY RobReqs DEF Req, L1DReq
<1>2. \A p, q \in InRob : p.l = q.l => p = q
  BY <1>1 DEF SetInterlock
<1>3. \A p \in InRob, q \in LookedUp : p.l # q.l
  BY <1>1 DEF SetInterlock, SetFree, LookedUp, L1DReq
<1>4. \A i \in DOMAIN rob : Req(rob[i]) \in QReq
  <2>1. \A i \in DOMAIN rob : rob[i] \in EntryType
    BY LenProperties, ElementOfSeq DEF TypeOK, MissesType
  <2> QED
    BY <2>1 DEF Req, L1DReq, QReq, EntryType
<1>5. LookedUp \subseteq QReq
  BY DEF LookedUp, L1DReq, QReq, TypeOK, LookupType, RequestType
<1> QED
  BY <1>1, <1>2, <1>3, <1>4, <1>5 DEF Front

LEMMA Kinds ==
  ASSUME TypeOK, SetInterlock, OneEach
  PROVE  /\ Outstanding = Front \cup Queued /\ Outstanding \subseteq QReq
         /\ \A p, q \in Outstanding : p.l = q.l /\ p.op = q.op => p = q
         /\ \A p \in LookedUp, q \in Outstanding :
              p.l = q.l => p = q \/ (p.op = "SW" /\ q.op = "LW" /\ q \in Queued)
         /\ \A p \in LookedUp : p \notin InRob /\ p \notin Queued
<1>0. \A p \in Front, q \in Queued : StoreThenLoad(p, q)
  BY DEF OneEach, Front
<1>1. Outstanding = Front \cup Queued /\ Outstanding \subseteq QReq
  BY RobAlone, QueueIs DEF Outstanding, Front
<1>2. ASSUME NEW p \in Front, NEW q \in Front, p.l = q.l PROVE p = q
  <2>1. LookedUp = {} \/ \E x : LookedUp = {x}
    BY DEF LookedUp
  <2> QED
    BY <1>2, <2>1, RobAlone DEF Front
<1>3. ASSUME NEW p \in Queued, NEW q \in Queued, p.l = q.l, p.op = q.op PROVE p = q
  <2>1. PICK i \in DOMAIN r_mem_q, j \in DOMAIN r_mem_q : p = r_mem_q[i] /\ q = r_mem_q[j]
    BY DEF Queued
  <2>2. i \in Int /\ j \in Int
    BY QueueIs
  <2>3. i < j \/ j < i \/ i = j
    BY <2>2
  <2> QED
    BY <1>3, <2>1, <2>3 DEF OneEach, StoreThenLoad
<1>4. \A p \in Front, q \in Queued : p.l = q.l => p.op = "SW" /\ q.op = "LW"
  BY <1>0 DEF StoreThenLoad
<1>5. \A p, q \in Outstanding : p.l = q.l /\ p.op = q.op => p = q
  BY <1>1, <1>2, <1>3, <1>4
<1>6. \A p \in LookedUp, q \in Outstanding :
        p.l = q.l => p = q \/ (p.op = "SW" /\ q.op = "LW" /\ q \in Queued)
  BY <1>1, <1>2, <1>4 DEF Front
<1>7. \A p \in LookedUp : p \notin InRob /\ p \notin Queued
  BY <1>4, RobAlone DEF Front
<1> QED
  BY <1>1, <1>5, <1>6, <1>7

LEMMA OneEachStep ==
  ASSUME TypeOK, RobHasRoom, SetInterlock, Owners, OneEach, TypeOK', Owners', [Next]_vars
  PROVE  OneEach'
<1>0. /\ \A i, j \in DOMAIN r_mem_q : i < j => StoreThenLoad(r_mem_q[i], r_mem_q[j])
      /\ \A p \in Front, q \in Queued : StoreThenLoad(p, q)
  BY DEF OneEach, Front
<1>1. SUFFICES
        /\ \A i, j \in DOMAIN r_mem_q' : i < j => StoreThenLoad(r_mem_q'[i], r_mem_q'[j])
        /\ \A p \in Front', q \in Queued' : StoreThenLoad(p, q)
  BY DEF OneEach, Front, StoreThenLoad
<1>2. CASE UNCHANGED r_mem_q /\ Front' \subseteq Front
  BY <1>0, <1>2 DEF Queued
<1>3. CASE QPopped /\ Front' \subseteq Front \cup {Head(r_mem_q)}
  <2>1. /\ 1 \in DOMAIN r_mem_q /\ Head(r_mem_q) = r_mem_q[1]
        /\ \A i \in DOMAIN r_mem_q' : /\ i \in Nat /\ i + 1 \in DOMAIN r_mem_q /\ i + 1 > 1
                                      /\ r_mem_q'[i] = r_mem_q[i + 1]
    BY <1>3, QueuePop
  <2>2. \A q \in Queued' : q \in Queued /\ StoreThenLoad(Head(r_mem_q), q)
    BY <1>0, <2>1 DEF Queued
  <2>3. \A i, j \in DOMAIN r_mem_q' : i < j => i + 1 < j + 1
    BY <2>1
  <2> QED
    BY <1>0, <1>3, <2>1, <2>2, <2>3
<1>4. ASSUME NEW op \in {"LW", "SW"}, NEW l \in Lines, NEW w \in Data, New(op, l, w)
      PROVE  /\ \A i, j \in DOMAIN r_mem_q' :
                  i < j => StoreThenLoad(r_mem_q'[i], r_mem_q'[j])
             /\ \A p \in Front', q \in Queued' : StoreThenLoad(p, q)
  <2> DEFINE q == L1DReq(op, l, w)
  <2>1. q \in QReq /\ r_mem_q' = Append(r_mem_q, q) /\ Front' = Front
    BY <1>4 DEF New, L1DRequest
  <2>2. /\ Queued' = Queued \cup {q}
        /\ Len(r_mem_q) \in Nat /\ DOMAIN r_mem_q = 1 .. Len(r_mem_q)
        /\ DOMAIN r_mem_q' = DOMAIN r_mem_q \cup {Len(r_mem_q) + 1}
        /\ \A i \in DOMAIN r_mem_q : r_mem_q'[i] = r_mem_q[i]
        /\ r_mem_q'[Len(r_mem_q) + 1] = q
    BY <2>1, QueueNew
  <2>3. \A p \in Outstanding : StoreThenLoad(p, q)
    <3>1. \A p \in Outstanding : p.op \in {"LW", "SW"}
      BY Kinds DEF QReq
    <3>2. q.op = op /\ q.l = l
      BY DEF L1DReq
    <3>3. Asked("LW", l) = {} /\ (op = "SW" => Asked("SW", l) = {})
      BY <1>4 DEF New, L1DRequest
    <3> QED
      BY <3>1, <3>2, <3>3 DEF Asked, StoreThenLoad
  <2>4. \A i \in DOMAIN r_mem_q : r_mem_q[i] \in Outstanding
    BY DEF Outstanding, Queued
  <2>5. Front \subseteq Outstanding
    BY Kinds
  <2> HIDE DEF q
  <2>6. ASSUME NEW i \in DOMAIN r_mem_q', NEW j \in DOMAIN r_mem_q', i < j
        PROVE  StoreThenLoad(r_mem_q'[i], r_mem_q'[j])
    <3>1. i \in DOMAIN r_mem_q
      BY <2>2, <2>6
    <3> QED
      BY <1>0, <2>2, <2>3, <2>4, <2>6, <3>1
  <2> QED
    BY <1>0, <2>1, <2>2, <2>3, <2>5, <2>6
<1> QED
  BY <1>2, <1>3, <1>4, Moves DEF Stay, Taken, AnsweredOne, Front, NewOne

-----------------------------------------------------------------------------
(* The flush: the L2 is alone with the memory.                             *)

(* While it is asked for, the ROB has one write back at most. *)
LEMMA FlushRob ==
  ASSUME TypeOK, RobHasRoom, ReadOnce, FetchOnce, FlushSweep, MarkHits, FlushAlone, Victims,
         r_flush_req
  PROVE  /\ Len(rob) \in {0, 1} /\ DOMAIN rob = 1 .. Len(rob)
         /\ \A i \in DOMAIN rob : i = 1 /\ rob[i].ty = "WRITEBACK"
         /\ rob = <<>> \/ (rob # <<>> /\ ~wb.need)
<1>1. /\ L1DQuiet /\ l1i = NoLine /\ WalkerIdle
  BY DEF FlushSweep, FlushAlone, Flushing
<1>2. \A i \in DOMAIN rob : rob[i].ty \in {"L1D", "L1I", "MMU", "MARK_PTE", "WRITEBACK"}
  <2>1. \A i \in DOMAIN rob : rob[i] \in EntryType
    BY LenProperties, ElementOfSeq DEF TypeOK, MissesType
  <2> QED
    BY <2>1 DEF EntryType
<1>3. \A i \in DOMAIN rob : rob[i].ty # "L1D"
  BY <1>1, RobReqs DEF L1DQuiet, Outstanding
<1>4. \A i \in DOMAIN rob : rob[i].ty # "L1I"
  BY <1>1 DEF FetchOnce
<1>5. \A i \in DOMAIN rob : rob[i].ty # "MMU"
  BY <1>1, L2Assumption DEF ReadOnce, WalkerIdle, TypeOK, WalkerType
<1>6. \A i \in DOMAIN rob : i = 1 /\ rob[i].ty = "WRITEBACK"
  BY <1>2, <1>3, <1>4, <1>5 DEF MarkHits, Victims
<1>7. DOMAIN rob = 1 .. Len(rob) /\ Len(rob) \in Nat
  BY TagsDiffer
<1>8. Len(rob) \in {0, 1}
  <2>1. Len(rob) # 0 => Len(rob) \in DOMAIN rob
    BY <1>7
  <2> QED
    BY <1>6, <1>7, <2>1
<1>9. rob # <<>> => Len(rob) = 1
  <2>1. rob \in Seq(EntryType)
    BY DEF TypeOK, MissesType
  <2> QED
    BY <1>8, <2>1, EmptySeq
<1>10. rob # <<>> => ~wb.need
  <2>1. rob # <<>> => 1 \in DOMAIN rob
    BY <1>7, <1>9
  <2> QED
    BY <1>6, <1>9, <2>1 DEF Victims
<1> QED
  BY <1>6, <1>7, <1>8, <1>10

LEMMA QuietStep ==
  ASSUME TypeOK, RobHasRoom, SetInterlock, Owners, OneEach, TypeOK', Owners', [Next]_vars,
         L1DQuiet
  PROVE  L1DQuiet' \/ NewOne
<1>1. Outstanding = Front \cup Queued /\ Front = {} /\ Queued = {}
  BY DEF L1DQuiet, Outstanding, Front
<1>2. SUFFICES ASSUME Stay PROVE L1DQuiet'
  <2>1. ~QPopped
    BY <1>1, QueuePop
  <2>2. LookedUp = {}
    BY <1>1 DEF Front
  <2> QED
    BY <2>1, <2>2, Moves DEF Taken, AnsweredOne
<1> QED
  BY <1>1, <1>2 DEF Stay, L1DQuiet, Outstanding, Front, Queued

(* The flags of a flush: asked for, an L1 is done, the L2 is done. *)
LEMMA FlushFlags ==
  ASSUME [Next]_vars
  PROVE  \/ UNCHANGED <<r_need_l1d, r_need_l1i, r_flush_req>>
         \/ r_need_l1d' /\ r_need_l1i'
         \/ /\ r_need_l1d /\ L1DQuiet /\ ~r_need_l1d' /\ UNCHANGED <<r_need_l1i, l1, walker>>
            /\ UNCHANGED <<rob, lookup>>
         \/ /\ r_need_l1i /\ l1i = NoLine /\ WalkerIdle /\ ~r_need_l1i'
            /\ UNCHANGED <<r_need_l1d, l1, walker>>
         \/ ~r_flush_req' /\ UNCHANGED <<r_need_l1d, r_need_l1i>>
<1>1. CASE Engine
  BY <1>1 DEF Engine, PopWriteback, Fill, WriteBack, TakeMark, TakeMmu, TakeL1I, TakeL1D,
     AnswerMmu, UpdatePte, AnswerL1D, AnswerL1I, StoreHit, Miss, StartFlush, FlushSet,
     FlushWay2, MemRsp, MemRspInFlush, flush, NextSet
<1>2. CASE FlushRequests
  BY <1>2 DEF FlushRequests, RequestFlush, L1DFlushed, L1IFlushed, misses
<1>3. CASE ~Engine /\ ~FlushRequests
  BY <1>3 DEF Next, Tick, ProbeAck, L1Request, L1DRequest, L1IRequest,
     WalkerRequests, MmuRequest, MemMark, vars, flush
<1> QED
  BY <1>1, <1>2, <1>3

(* Who waits only comes back with a request, which a flush forbids.        *)
LEMMA OthersStep ==
  ASSUME TypeOK, [Next]_vars
  PROVE  /\ l1i = NoLine => l1i' = NoLine \/ (Flushing => r_need_l1i)
         /\ WalkerIdle => WalkerIdle' \/ (Flushing => r_need_l1i)
         /\ l1i = NoLine => l1i' = NoLine \/ UNCHANGED flush
         /\ WalkerIdle => WalkerIdle' \/ UNCHANGED flush
<1>1. CASE Engine
  <2>1. l1i = NoLine => l1i' = NoLine
    BY <1>1, EngineFrame DEF AnswerL1I
  <2>2. mmu_req_addr = NoLine => mmu_req_addr' = NoLine
    BY <1>1, EngineFrame DEF AnswerMmu
  <2>3. mem_mark = NoMark => mem_mark' = NoMark
    BY <1>1, EngineFrame DEF UpdatePte
  <2> QED
    BY <2>1, <2>2, <2>3 DEF WalkerIdle, NoMark
<1>2. CASE L1Request \/ WalkerRequests
  BY <1>2 DEF L1Request, L1DRequest, L1IRequest, WalkerRequests, MmuRequest, MemMark,
     WalkerIdle, NoMark, walker, l1, flush
<1>3. CASE FlushRequests \/ Tick \/ ProbeAck \/ UNCHANGED vars
  BY <1>3 DEF FlushRequests, RequestFlush, L1DFlushed, L1IFlushed, Tick, ProbeAck, vars,
     walker, l1, WalkerIdle, NoMark
<1> QED
  BY <1>1, <1>2, <1>3 DEF Next

LEMMA FlushAloneStep ==
  ASSUME TypeOK, RobHasRoom, SetInterlock, ReadOnce, FetchOnce, FlushSweep, VictimKept,
         MarkHits, Owners, OneEach, Victims, FlushAlone, TypeOK', Owners', FlushSweep',
         [Next]_vars
  PROVE  FlushAlone'
<1>0. /\ Flushing /\ ~r_need_l1d => L1DQuiet
      /\ Flushing /\ ~r_need_l1i => l1i = NoLine /\ WalkerIdle
      /\ InFlush => ~wb.need
      /\ way1.v => r_state \in {"FLUSH_STORE", "FLUSH_STORE_WAY2"}
  BY DEF FlushAlone
<1>1. ASSUME Flushing', ~r_need_l1d' PROVE L1DQuiet'
  <2>1. L1DQuiet /\ ~NewOne
    <3>1. CASE UNCHANGED flush
      BY <1>0, <1>1, <3>1 DEF Flushing, NewOne, New, L1DRequest, flush
    <3>2. CASE ~UNCHANGED flush
      <4>1. ~NewOne
        BY <3>2 DEF NewOne, New, L1DRequest
      <4>2. L1DQuiet
        BY <1>0, <1>1, FlushFlags DEF Flushing
      <4> QED
        BY <4>1, <4>2
    <3> QED
      BY <3>1, <3>2
  <2> QED
    BY <2>1, QuietStep
<1>2. ASSUME Flushing', ~r_need_l1i' PROVE l1i' = NoLine /\ WalkerIdle'
  <2>1. CASE Flushing /\ ~r_need_l1i
    BY <1>0, <2>1, OthersStep
  <2>2. CASE ~(Flushing /\ ~r_need_l1i)
    <3>1. r_need_l1i /\ l1i = NoLine /\ WalkerIdle /\ UNCHANGED <<l1, walker>>
      BY <1>2, <2>2, FlushFlags DEF Flushing
    <3> QED
      BY <3>1 DEF l1, walker, WalkerIdle, NoMark
  <2> QED
    BY <2>1, <2>2
<1>3. ASSUME InFlush' PROVE ~wb'.need
  <2>1. InFlush \/ StartFlush
    <3>1. CASE Engine
      BY <1>3, <3>1 DEF Engine, PopWriteback, Fill, WriteBack, TakeMark, TakeMmu, TakeL1I,
         TakeL1D, AnswerMmu, UpdatePte, AnswerL1D, AnswerL1I, StoreHit, Miss, StartFlush,
         FlushSet, FlushWay2, MemRsp, MemRspInFlush, InFlush, lookup, Onward, ToIdle, L1Turn,
         Idle, LoadHit, Check
    <3>2. CASE ClientSteps
      BY <1>3, <3>2, ClientFrame DEF lookup, InFlush
    <3> QED
      BY <3>1, <3>2 DEF Next, ClientSteps
  <2>2. CASE InFlush
    <3>1. ~WriteBack /\ ~Miss
      BY <2>2 DEF InFlush, WriteBack, Miss, Idle, Check
    <3> QED
      BY <1>0, <2>2, <3>1, WbFrame
  <2>3. CASE StartFlush
    <3>1. ~MustWriteBack /\ r_flush_req /\ UNCHANGED wb
      BY <2>3 DEF StartFlush, misses
    <3> QED
      BY <3>1, FlushRob DEF MustWriteBack
  <2> QED
    BY <2>1, <2>2, <2>3
<1>4. ASSUME way1'.v PROVE r_state' \in {"FLUSH_STORE", "FLUSH_STORE_WAY2"}
  <2>1. CASE FlushSet \/ FlushWay2
    BY <1>0, <1>4, <2>1 DEF FlushSet, FlushWay2, Empty
  <2>2. CASE ~(FlushSet \/ FlushWay2)
    <3>1. UNCHANGED way1
      BY <2>2, EngineFrame, ClientFrame DEF Next, ClientSteps
    <3>2. r_state \in {"FLUSH_STORE", "FLUSH_STORE_WAY2"} /\ way1.v
      BY <1>0, <1>4, <3>1
    <3>3. CASE Engine
      BY <2>2, <3>2, <3>3 DEF Engine, PopWriteback, Fill, WriteBack, TakeMark, TakeMmu,
         TakeL1I, TakeL1D, AnswerMmu, UpdatePte, AnswerL1D, AnswerL1I, StoreHit, Miss,
         StartFlush, MemRsp, MemRspInFlush, lookup, L1Turn, Idle, LoadHit, Check
    <3>4. CASE ClientSteps
      BY <3>2, <3>4, ClientFrame DEF lookup
    <3> QED
      BY <3>3, <3>4 DEF Next, ClientSteps
  <2> QED
    BY <2>1, <2>2
<1> QED
  BY <1>1, <1>2, <1>3, <1>4 DEF FlushAlone

-----------------------------------------------------------------------------
(* The requests on their way to the memory.                                *)
LEMMA Steps ==
  ASSUME [Next]_vars
  PROVE  \/ Same /\ UNCHANGED outside /\ ~InFlush /\ ~InFlush'
         \/ Same /\ UNCHANGED outside /\ InFlush /\ UNCHANGED r_state
         \/ (PopWriteback \/ Fill) /\ Popped1 /\ UNCHANGED outside /\ ~InFlush /\ ~InFlush'
         \/ (WriteBack \/ Miss) /\ ~InFlush /\ ~InFlush'
         \/ MemRsp /\ r_state # "FLUSH_STORE" /\ UNCHANGED r_state
         \/ StartFlush /\ Same /\ UNCHANGED outside /\ ~InFlush /\ r_state' = "FLUSH_WAIT"
         \/ (FlushSet \/ FlushWay2 \/ MemRspInFlush) /\ Same
<1>1. CASE PopWriteback \/ Fill
  BY <1>1 DEF PopWriteback, Fill, PopRob, Popped1, w_head_of_rob_done, InFlush
<1>2. CASE WriteBack \/ Miss
  BY <1>2 DEF WriteBack, Miss, Idle, Check, ToIdle, InFlush, lookup
<1>3. CASE TakeMark \/ TakeMmu \/ TakeL1I \/ TakeL1D
  BY <1>3 DEF TakeMark, TakeMmu, TakeL1I, TakeL1D, L1Turn, Idle, InFlush, Same, misses
<1>4. CASE AnswerMmu \/ UpdatePte \/ AnswerL1D \/ AnswerL1I \/ StoreHit
  BY <1>4 DEF AnswerMmu, UpdatePte, AnswerL1D, AnswerL1I, StoreHit, Onward, LoadHit, Check,
     ToIdle, InFlush, Same, misses
<1>5. CASE MemRsp
  BY <1>5 DEF MemRsp, lookup
<1>6. CASE StartFlush
  BY <1>6 DEF StartFlush, Idle, InFlush, Same, misses
<1>7. CASE FlushSet \/ FlushWay2 \/ MemRspInFlush
  BY <1>7 DEF FlushSet, FlushWay2, MemRspInFlush, Same, misses
<1>8. CASE ClientSteps
  BY <1>8, ClientFrame DEF Same, misses, lookup, InFlush
<1> QED
  BY <1>1, <1>2, <1>3, <1>4, <1>5, <1>6, <1>7, <1>8 DEF Next, Engine, ClientSteps

LEMMA SentIs ==
  ASSUME TypeOK, NEW op \in {"LW", "SW"}, NEW l \in Lines, NEW w \in Data, NEW t \in Tags,
         Send(op, l, w, t)
  PROVE  LET n == Len(mem_queue) + 1 IN
         /\ Len(mem_queue) \in Nat /\ Len(mem_queue') = n
         /\ DOMAIN mem_queue = 1 .. Len(mem_queue) /\ n \notin DOMAIN mem_queue
         /\ DOMAIN mem_queue' = DOMAIN mem_queue \cup {n}
         /\ \A j \in DOMAIN mem_queue : mem_queue'[j] = mem_queue[j]
         /\ mem_queue'[n].op = op /\ mem_queue'[n].l = l /\ mem_queue'[n].w = w
         /\ mem_queue'[n].t = t
<1> DEFINE m == [op |-> op, l |-> l, w |-> w, t |-> t]
<1>1. m \in MemRequestType /\ m.op = op /\ m.l = l /\ m.w = w /\ m.t = t
  BY DEF MemRequestType
<1>2. mem_queue \in Seq(MemRequestType) /\ mem_queue' = Append(mem_queue, m)
  BY DEF TypeOK, MemoryType, Send
<1> HIDE DEF m
<1>3. DOMAIN mem_queue = 1 .. Len(mem_queue)
  BY <1>2, LenProperties
<1> QED
  BY <1>1, <1>2, <1>3, Appended

LEMMA QueueOf ==
  ASSUME TypeOK
  PROVE  /\ DOMAIN mem_queue = 1 .. Len(mem_queue) /\ Len(mem_queue) \in Nat
         /\ mem_queue # <<>> <=> Len(mem_queue) # 0
         /\ mem_queue # <<>> => Head(mem_queue) = mem_queue[1] /\ 1 \in DOMAIN mem_queue
         /\ \A j \in DOMAIN mem_queue : mem_queue[j] \in MemRequestType
<1>1. mem_queue \in Seq(MemRequestType)
  BY DEF TypeOK, MemoryType
<1>2. /\ DOMAIN mem_queue = 1 .. Len(mem_queue) /\ Len(mem_queue) \in Nat
      /\ \A j \in DOMAIN mem_queue : mem_queue[j] \in MemRequestType
  BY <1>1, LenProperties, ElementOfSeq
<1>3. mem_queue # <<>> <=> Len(mem_queue) # 0
  BY <1>1, EmptySeq
<1>4. mem_queue # <<>> => Head(mem_queue) = mem_queue[1] /\ 1 \in DOMAIN mem_queue
  BY <1>1, Popped
<1> QED
  BY <1>2, <1>3, <1>4

LEMMA PerformIs ==
  ASSUME TypeOK, Perform
  PROVE  /\ 1 \in DOMAIN mem_queue /\ Head(mem_queue) = mem_queue[1]
         /\ Len(mem_queue') = Len(mem_queue) - 1 /\ DOMAIN mem_queue' = 1 .. Len(mem_queue')
         /\ Len(mem_queue) \in Nat /\ DOMAIN mem_queue = 1 .. Len(mem_queue)
         /\ \A j \in DOMAIN mem_queue' : /\ j + 1 \in DOMAIN mem_queue /\ j + 1 # 1
                                         /\ mem_queue'[j] = mem_queue[j + 1]
<1>1. mem_queue \in Seq(MemRequestType) /\ mem_queue # <<>> /\ mem_queue' = Tail(mem_queue)
  BY DEF TypeOK, MemoryType, Perform
<1>2. /\ 1 \in DOMAIN mem_queue /\ Head(mem_queue) = mem_queue[1]
      /\ Len(mem_queue') = Len(mem_queue) - 1 /\ mem_queue' \in Seq(MemRequestType)
      /\ \A j \in DOMAIN mem_queue' : /\ j + 1 \in DOMAIN mem_queue /\ j + 1 # 1
                                      /\ mem_queue'[j] = mem_queue[j + 1]
  BY <1>1, Popped
<1>3. DOMAIN mem_queue' = 1 .. Len(mem_queue')
  BY <1>2, LenProperties
<1> QED
  BY <1>2, <1>3, QueueOf

(* What the steps that send something send. *)
LEMMA Sends ==
  ASSUME TypeOK, FlushAlone
  PROVE  /\ WriteBack => /\ Send("SW", wb.l, wb.w, w_rob_tail_ptr)
                         /\ wb.l \in Lines /\ wb.w \in Data /\ w_rob_tail_ptr \in Tags
         /\ Miss => /\ Send("LW", r.l, {}, w_rob_tail_ptr)
                    /\ r.l \in Lines /\ {} \in Data /\ w_rob_tail_ptr \in Tags
         /\ FlushWay2 => /\ Send("SW", way1.l, way1.w, r_rob_tag)
                         /\ way1.l \in Lines /\ way1.w \in Data /\ r_rob_tag \in Tags
<1>1. w_rob_tail_ptr \in Tags /\ r_rob_tag \in Tags /\ {} \in Data
  BY TagsClosed DEF TypeOK, MissesType, Data
<1>2. WriteBack => wb.l \in Lines /\ wb.w \in Data
  BY DEF WriteBack, MustWriteBack, TypeOK, MissesType
<1>3. Miss => r.l \in Lines
  BY DEF Miss, TypeOK, LookupType
<1>4. FlushWay2 => way1.l \in Lines /\ way1.w \in Data
  BY DEF FlushWay2, TypeOK, FlushType, Copy
<1>5. WriteBack => Send("SW", wb.l, wb.w, w_rob_tail_ptr)
  BY DEF WriteBack
<1>6. Miss => Send("LW", r.l, {}, w_rob_tail_ptr)
  BY DEF Miss
<1>7. FlushWay2 => Send("SW", way1.l, way1.w, r_rob_tag)
  BY DEF FlushWay2, FlushStore
<1> QED
  BY <1>1, <1>2, <1>3, <1>4, <1>5, <1>6, <1>7

FirstDirty == cache[r_idx][IF Dirty(0) THEN 0 ELSE 1]
LEMMA FlushSetIs ==
  ASSUME TypeOK, FlushAlone, FlushSet
  PROVE  /\ ~wb.need /\ UNCHANGED <<wb, mem, rob, r_rob_head_ptr, r_rob_tag>> /\ ~way1.v
         /\ r_state = "FLUSH_WAIT"
         /\ \/ ~Dirty(0) /\ ~Dirty(1) /\ NextSet /\ UNCHANGED <<way1, mem_queue>>
            \/ /\ Dirty(0) \/ Dirty(1)
               /\ Send("SW", FirstDirty.l, FirstDirty.w, r_rob_tag)
               /\ FirstDirty.l \in Lines /\ FirstDirty.w \in Data /\ r_rob_tag \in Tags
               /\ way1' = IF Dirty(0) /\ Dirty(1) THEN cache[r_idx][1] ELSE Empty
               /\ r_state' = "FLUSH_STORE"
<1>1. r_state = "FLUSH_WAIT" /\ UNCHANGED <<mem, rob, r_rob_head_ptr, r_rob_tag>>
  BY DEF FlushSet
<1>2. ~wb.need /\ ~way1.v
  BY <1>1 DEF FlushAlone, InFlush
<1>3. r_rob_tag \in Tags
  BY DEF TypeOK, MissesType
<1>4. Dirty(0) \/ Dirty(1) => FirstDirty.l \in Lines /\ FirstDirty.w \in Data
  <2>1. r_idx \in Sets /\ 0 \in Ways /\ 1 \in Ways
    BY DEF TypeOK, FlushType, Ways
  <2>2. cache[r_idx][0] \in Copy /\ cache[r_idx][1] \in Copy
    BY <2>1 DEF TypeOK, ArraysType
  <2> QED
    BY <2>2 DEF FirstDirty, Dirty, Copy
<1> QED
  BY <1>1, <1>2, <1>3, <1>4 DEF FlushSet, FlushStore, FirstDirty

LEMMA LastTagStep ==
  ASSUME TypeOK, RobHasRoom, LastTag, [Next]_vars
  PROVE  LastTag'
<1>0. rob \in Seq(EntryType) /\ Len(rob) \in Nat /\ DOMAIN rob = 1 .. Len(rob)
  BY LenProperties DEF TypeOK, MissesType
<1>1. CASE Same
  BY <1>1 DEF Same, LastTag, TagOf
<1>2. CASE MemRsp
  <2>1. Len(rob') = Len(rob) /\ rob' \in Seq(EntryType)
        /\ UNCHANGED <<r_rob_head_ptr, r_rob_tag>>
    BY <1>2, MemRspRob DEF Marks, MemRsp
  <2>2. rob' # <<>> => rob # <<>>
    BY <1>0, <2>1, EmptySeq
  <2> QED
    BY <2>1, <2>2 DEF LastTag, TagOf
<1>3. CASE Popped1
  <2>1. /\ Len(rob') = Len(rob) - 1 /\ DOMAIN rob' = 1 .. Len(rob')
        /\ \A i \in DOMAIN rob' : TagOf(i)' = TagOf(i + 1)
    BY <1>3, PopEntries
  <2>2. rob' # <<>> => Len(rob') \in DOMAIN rob'
    <3>1. rob' \in Seq(EntryType)
      BY <1>0, <1>3, Popped DEF Popped1
    <3>2. rob' # <<>> => Len(rob') # 0 /\ Len(rob') \in Nat
      BY <3>1, EmptySeq, LenProperties
    <3> QED
      BY <2>1, <3>2
  <2>3. rob' # <<>> => TagOf(Len(rob))' = TagOf(Len(rob))
    <3>1. PICK m \in Nat : m = Len(rob') /\ m + 1 = Len(rob)
      <4>1. Len(rob') \in Nat
        BY <1>0, <1>3, Popped, LenProperties DEF Popped1
      <4>2. Len(rob') + 1 = Len(rob)
        BY <1>0, <2>1, <4>1
      <4> QED
        BY <4>1, <4>2
    <3>2. rob' # <<>> => TagOf(m)' = TagOf(m + 1)
      BY <2>1, <2>2, <3>1
    <3>3. TagOf(Len(rob))' = TagOf(m)'
      BY <3>1 DEF TagOf
    <3> QED
      BY <3>1, <3>2, <3>3
  <2> QED
    BY <1>3, <2>3 DEF Popped1, LastTag
<1>4. CASE WriteBack \/ Miss
  <2>1. PICK e \in EntryType : rob' = Append(rob, e)
    BY <1>4, WriteBackEntry, MissEntry
  <2>2. UNCHANGED r_rob_head_ptr /\ r_rob_tag' = w_rob_tail_ptr
    BY <1>4 DEF WriteBack, Miss
  <2>3. Len(rob') = Len(rob) + 1 /\ w_rob_tail_ptr = TagOf(Len(rob) + 1)
    BY <2>1, <2>2, NewEntry
  <2> QED
    BY <2>2, <2>3 DEF LastTag, TagOf
<1> QED
  BY <1>1, <1>2, <1>3, <1>4, RobShapes

(* With the request sent last in the ROB, an entry of the client asks. *)
LEMMA SentFor ==
  ASSUME TypeOK, RobHasRoom, OneForOne, NEW e \in EntryType, rob' = Append(rob, e),
         UNCHANGED r_rob_head_ptr, ~e.done, Len(rob) + 1 \in 1 .. N,
         NEW op \in {"LW", "SW"}, NEW l \in Lines, NEW w \in Data,
         w_rob_tail_ptr \in Tags, Send(op, l, w, w_rob_tail_ptr),
         op = IF e.ty = "WRITEBACK" THEN "SW" ELSE "LW", op = "LW" => l = e.l
  PROVE  OneForOne'
<1>0. PICK n \in Int, k \in Int : n = Len(mem_queue) + 1 /\ k = Len(rob) + 1
  BY SentIs, NewEntry
<1>1. /\ DOMAIN mem_queue' = DOMAIN mem_queue \cup {n}
      /\ \A j \in DOMAIN mem_queue : mem_queue'[j] = mem_queue[j]
      /\ mem_queue'[n].op = op /\ mem_queue'[n].l = l
      /\ mem_queue'[n].t = w_rob_tail_ptr
  BY <1>0, SentIs
<1>2. /\ DOMAIN rob' = DOMAIN rob \cup {k} /\ DOMAIN rob = 1 .. Len(rob)
      /\ \A i \in DOMAIN rob : rob'[i] = rob[i]
      /\ rob'[k] = e /\ w_rob_tail_ptr = TagOf(k) /\ Len(rob) \in Nat
      /\ \A i \in DOMAIN rob' : TagOf(i)' = TagOf(i)
  BY <1>0, NewEntry
<1>3. \A i \in DOMAIN rob : TagOf(i) # TagOf(k)
  <2>1. k \in 1 .. N /\ \A i \in DOMAIN rob : i \in 1 .. N /\ i # k
    BY <1>0, <1>2, L2Assumption
  <2> QED
    BY <2>1, TagsDiffer
<1>4. \A j \in DOMAIN mem_queue : mem_queue[j].t # w_rob_tail_ptr
  BY <1>2, <1>3 DEF OneForOne, AsksFor
<1>5. \A j \in DOMAIN mem_queue' : \E i \in DOMAIN rob' : AsksFor(i, j)'
  <2>1. AsksFor(k, n)'
    BY <1>1, <1>2 DEF AsksFor
  <2>2. \A j \in DOMAIN mem_queue, i \in DOMAIN rob : AsksFor(i, j) => AsksFor(i, j)'
    BY <1>1, <1>2 DEF AsksFor
  <2> QED
    BY <1>1, <1>2, <2>1, <2>2 DEF OneForOne
<1>6. \A j, i \in DOMAIN mem_queue' : mem_queue'[j].t = mem_queue'[i].t => j = i
  BY <1>1, <1>4 DEF OneForOne
<1> QED
  BY <1>5, <1>6 DEF OneForOne, AsksFor

LEMMA OneForOneStep ==
  ASSUME TypeOK, RobHasRoom, FlushAlone, OneForOne, ~InFlush, ~InFlush', [Next]_vars
  PROVE  OneForOne'
<1>0. /\ \A j \in DOMAIN mem_queue : \E i \in DOMAIN rob : AsksFor(i, j)
      /\ \A j, k \in DOMAIN mem_queue : mem_queue[j].t = mem_queue[k].t => j = k
  BY DEF OneForOne
<1>1. CASE Same /\ UNCHANGED outside
  BY <1>0, <1>1 DEF Same, outside, OneForOne, AsksFor, TagOf
<1>2. CASE (PopWriteback \/ Fill) /\ Popped1 /\ UNCHANGED outside
  <2>1. /\ 1 \in DOMAIN rob /\ Head(rob) = rob[1]
        /\ \A i \in DOMAIN rob' : /\ i + 1 \in DOMAIN rob /\ rob'[i] = rob[i + 1]
                                  /\ TagOf(i)' = TagOf(i + 1)
        /\ DOMAIN rob' = 1 .. Len(rob') /\ Len(rob') = Len(rob) - 1
    BY <1>2, PopEntries
  <2>2. rob[1].done
    BY <1>2, <2>1 DEF PopWriteback, Fill, w_head_of_rob_done
  <2>3. DOMAIN rob = 1 .. Len(rob) /\ Len(rob) \in Nat
    BY TagsDiffer
  <2>4. ASSUME NEW j \in DOMAIN mem_queue PROVE \E i \in DOMAIN rob' : AsksFor(i, j)'
    <3>1. PICK i \in DOMAIN rob : AsksFor(i, j)
      BY <1>0
    <3>2. i # 1
      BY <2>2, <3>1 DEF AsksFor
    <3>3. i - 1 \in DOMAIN rob' /\ (i - 1) + 1 = i
      BY <2>1, <2>3, <3>2
    <3>4. rob'[i - 1] = rob[i] /\ TagOf(i - 1)' = TagOf(i)
      <4>1. rob'[i - 1] = rob[(i - 1) + 1] /\ TagOf(i - 1)' = TagOf((i - 1) + 1)
        BY <2>1, <3>3 DEF TagOf
      <4> QED
        BY <3>3, <4>1
    <3>5. UNCHANGED mem_queue
      BY <1>2 DEF outside
    <3>6. AsksFor(i - 1, j)'
      BY <3>1, <3>4, <3>5 DEF AsksFor
    <3> QED
      BY <3>3, <3>6
  <2>5. UNCHANGED mem_queue
    BY <1>2 DEF outside
  <2> QED
    BY <1>0, <2>4, <2>5 DEF OneForOne, AsksFor
<1>3. CASE WriteBack
  <2>1. PICK e \in EntryType : /\ e.ty = "WRITEBACK" /\ ~e.done /\ rob' = Append(rob, e)
                               /\ UNCHANGED r_rob_head_ptr /\ rob = <<>>
    BY <1>3, WriteBackEntry
  <2>2. Len(rob) + 1 \in 1 .. N
    BY <1>3, <2>1, L2Assumption, TagsDiffer DEF WriteBack, Idle
  <2> QED
    BY <1>3, <2>1, <2>2, Sends, SentFor
<1>4. CASE Miss
  <2>1. PICK e \in EntryType : /\ e.ty = r.ty /\ ~e.done /\ e.l = r.l /\ rob' = Append(rob, e)
                               /\ UNCHANGED r_rob_head_ptr /\ r.ty # "WRITEBACK" /\ Check
    BY <1>4, MissEntry
  <2>2. Len(rob) + 1 \in 1 .. N
    BY <2>1, TagsDiffer DEF RobHasRoom
  <2> QED
    BY <1>4, <2>1, <2>2, Sends, SentFor
<1>5. CASE MemRsp
  <2>1. Perform
    BY <1>5 DEF MemRsp
  <2>2. /\ 1 \in DOMAIN mem_queue /\ Head(mem_queue) = mem_queue[1]
        /\ DOMAIN mem_queue' = 1 .. Len(mem_queue') /\ Len(mem_queue) \in Nat
        /\ DOMAIN mem_queue = 1 .. Len(mem_queue)
        /\ \A j \in DOMAIN mem_queue' : /\ j + 1 \in DOMAIN mem_queue /\ j + 1 # 1
                                        /\ mem_queue'[j] = mem_queue[j + 1]
    BY <2>1, PerformIs
  <2>3. DOMAIN rob' = DOMAIN rob /\ \A i \in DOMAIN rob : AnsweredEntry(i)
    BY <1>5, RspEntries
  <2>4. UNCHANGED r_rob_head_ptr
    BY <1>5 DEF MemRsp
  <2>5. ASSUME NEW j \in DOMAIN mem_queue' PROVE \E i \in DOMAIN rob' : AsksFor(i, j)'
    <3>1. PICK i \in DOMAIN rob : AsksFor(i, j + 1)
      BY <1>0, <2>2
    <3>2. TagOf(i) # Head(mem_queue).t
      BY <1>0, <2>2, <3>1 DEF AsksFor
    <3>3. rob'[i] = rob[i] /\ TagOf(i)' = TagOf(i) /\ mem_queue'[j] = mem_queue[j + 1]
      BY <2>2, <2>3, <2>4, <3>2 DEF AnsweredEntry, TagOf
    <3>4. AsksFor(i, j)'
      BY <3>1, <3>3 DEF AsksFor
    <3> QED
      BY <2>3, <3>4
  <2>6. ASSUME NEW j \in DOMAIN mem_queue', NEW k \in DOMAIN mem_queue',
               mem_queue'[j].t = mem_queue'[k].t
        PROVE  j = k
    <3>1. j + 1 = k + 1
      BY <1>0, <2>2, <2>6
    <3> QED
      BY <2>2, <3>1
  <2> QED
    BY <2>5, <2>6 DEF OneForOne, AsksFor
<1>6. ~StartFlush /\ ~FlushSet /\ ~FlushWay2 /\ ~MemRspInFlush
  BY DEF StartFlush, FlushSet, FlushWay2, MemRspInFlush, InFlush
<1> QED
  BY <1>1, <1>2, <1>3, <1>4, <1>5, <1>6, Steps

(* From one to the other when the flush starts, and back when it is over. *)
LEMMA FlushStarts ==
  ASSUME TypeOK, Len(rob) \in {0, 1}, DOMAIN rob = 1 .. Len(rob), LastTag, OneForOne,
         \A i \in DOMAIN rob : i = 1 /\ rob[i].ty = "WRITEBACK"
  PROVE  /\ \A j \in DOMAIN mem_queue : mem_queue[j].op = "SW" /\ mem_queue[j].t = r_rob_tag
         /\ Len(mem_queue) <= OnTheWay
<1>1. rob # <<>> <=> Len(rob) = 1
  <2>1. rob \in Seq(EntryType)
    BY DEF TypeOK, MissesType
  <2> QED
    BY <2>1, EmptySeq
<1>2. \A j \in DOMAIN mem_queue :
        /\ AsksFor(1, j) /\ 1 \in DOMAIN rob /\ rob[1].ty = "WRITEBACK"
  BY DEF OneForOne
<1>3. \A j \in DOMAIN mem_queue : /\ mem_queue[j].op = "SW" /\ mem_queue[j].t = r_rob_tag
                                  /\ rob # <<>> /\ ~rob[1].done
  <2>1. 1 \in DOMAIN rob => Len(rob) = 1
    OBVIOUS
  <2> QED
    BY <1>1, <1>2, <2>1 DEF AsksFor, LastTag
<1>4. DOMAIN mem_queue = 1 .. Len(mem_queue) /\ Len(mem_queue) \in Nat
  BY QueueOf
<1>5. ~(Len(mem_queue) >= 2)
  <2>1. Len(mem_queue) >= 2 => 1 \in DOMAIN mem_queue /\ 2 \in DOMAIN mem_queue
    BY <1>4
  <2>2. 1 \in DOMAIN mem_queue /\ 2 \in DOMAIN mem_queue => 1 = 2
    BY <1>3 DEF OneForOne
  <2> QED
    BY <2>1, <2>2
<1>6. CASE Len(mem_queue) = 0
  BY <1>6 DEF OnTheWay
<1>7. CASE Len(mem_queue) = 1
  BY <1>3, <1>4, <1>7 DEF OnTheWay
<1> QED
  BY <1>4, <1>5, <1>6, <1>7

LEMMA FlushEnds ==
  ASSUME TypeOK, Len(rob) \in {0, 1}, DOMAIN rob = 1 .. Len(rob), LastTag,
         \A i \in DOMAIN rob : i = 1 /\ rob[i].ty = "WRITEBACK",
         \A j \in DOMAIN mem_queue : mem_queue[j].op = "SW" /\ mem_queue[j].t = r_rob_tag,
         Len(mem_queue) <= OnTheWay
  PROVE  OneForOne
<1>1. rob # <<>> <=> Len(rob) = 1
  <2>1. rob \in Seq(EntryType)
    BY DEF TypeOK, MissesType
  <2> QED
    BY <2>1, EmptySeq
<1>2. DOMAIN mem_queue = 1 .. Len(mem_queue) /\ Len(mem_queue) \in Nat
  BY QueueOf
<1>3. OnTheWay \in {0, 1} /\ (OnTheWay = 1 => rob # <<>> /\ ~rob[1].done)
  BY DEF OnTheWay
<1>4. \A j \in DOMAIN mem_queue : j = 1 /\ OnTheWay = 1
  BY <1>2, <1>3
<1>5. \A j \in DOMAIN mem_queue : 1 \in DOMAIN rob /\ AsksFor(1, j)
  <2>1. Len(rob) = 1 => 1 \in DOMAIN rob
    OBVIOUS
  <2> QED
    BY <1>1, <1>3, <1>4, <2>1 DEF AsksFor, LastTag
<1> QED
  BY <1>4, <1>5 DEF OneForOne

LonelyWriteBack ==
  /\ TypeOK /\ Len(rob) \in {0, 1} /\ DOMAIN rob = 1 .. Len(rob) /\ LastTag
  /\ \A i \in DOMAIN rob : i = 1 /\ rob[i].ty = "WRITEBACK"
  /\ \A j \in DOMAIN mem_queue : mem_queue[j].op = "SW" /\ mem_queue[j].t = r_rob_tag
  /\ Len(mem_queue) <= OnTheWay
LEMMA FlushEndsNext == LonelyWriteBack' => OneForOne'
<1>1. LonelyWriteBack => OneForOne
  BY FlushEnds DEF LonelyWriteBack
<1> QED
  BY <1>1, PTL

InStore == IF r_state = "FLUSH_STORE" THEN 1 ELSE 0
(* A step of the flush leaves the ROB alone and sends or takes one. *)
LEMMA OneMoreSent ==
  ASSUME TypeOK, OneMore, UNCHANGED <<rob, r_rob_tag>>, r_state # "FLUSH_STORE",
         r_state' = "FLUSH_STORE", NEW l \in Lines, NEW w \in Data,
         r_rob_tag \in Tags, Send("SW", l, w, r_rob_tag)
  PROVE  OneMore'
<1> DEFINE n == Len(mem_queue) + 1
<1>1. /\ DOMAIN mem_queue' = DOMAIN mem_queue \cup {n} /\ Len(mem_queue') = n
      /\ \A j \in DOMAIN mem_queue : mem_queue'[j] = mem_queue[j]
      /\ mem_queue'[n].op = "SW" /\ mem_queue'[n].t = r_rob_tag /\ Len(mem_queue) \in Nat
  BY SentIs
<1>2. /\ \A j \in DOMAIN mem_queue : mem_queue[j].op = "SW" /\ mem_queue[j].t = r_rob_tag
      /\ Len(mem_queue) <= OnTheWay
  BY <1>1 DEF OneMore, OnTheWay
<1>3. OnTheWay' = OnTheWay /\ OnTheWay \in Nat
  BY DEF OnTheWay
<1>4. \A j \in DOMAIN mem_queue' : mem_queue'[j].op = "SW" /\ mem_queue'[j].t = r_rob_tag'
  BY <1>1, <1>2
<1>5. Len(mem_queue') <= 1 + OnTheWay'
  BY <1>1, <1>2, <1>3
<1> QED
  BY <1>4, <1>5 DEF OneMore

LEMMA FlushingStep ==
  ASSUME TypeOK, RobHasRoom, ReadOnce, FetchOnce, FlushSweep, MarkHits, FlushAlone, Victims,
         Requests, TypeOK', RobHasRoom', ReadOnce', FetchOnce', FlushSweep', MarkHits',
         FlushAlone', Victims', LastTag', InFlush \/ StartFlush, [Next]_vars
  PROVE  IF InFlush' THEN OneMore' ELSE OneForOne'
<1>0. r_flush_req
  BY DEF FlushSweep, StartFlush
<1>1. /\ Len(rob) \in {0, 1} /\ DOMAIN rob = 1 .. Len(rob)
      /\ \A i \in DOMAIN rob : i = 1 /\ rob[i].ty = "WRITEBACK"
  BY <1>0, FlushRob
<1>2. DOMAIN mem_queue = 1 .. Len(mem_queue) /\ Len(mem_queue) \in Nat
  BY QueueOf
<1>3. OnTheWay \in {0, 1}
  BY DEF OnTheWay
<1>4. CASE StartFlush
  <2>1. OneForOne /\ UNCHANGED <<mem_queue, rob, r_rob_tag>> /\ r_state' = "FLUSH_WAIT"
    BY <1>4 DEF StartFlush, Idle, InFlush, Requests, misses, outside
  <2>2. /\ \A j \in DOMAIN mem_queue :
              mem_queue[j].op = "SW" /\ mem_queue[j].t = r_rob_tag
        /\ Len(mem_queue) <= OnTheWay
    BY <1>1, <2>1, FlushStarts DEF Requests
  <2>3. Len(mem_queue') <= 0 + OnTheWay'
    BY <1>2, <1>3, <2>1, <2>2 DEF OnTheWay
  <2> QED
    BY <2>1, <2>2, <2>3 DEF OneMore, InFlush
<1>5. ASSUME InFlush PROVE IF InFlush' THEN OneMore' ELSE OneForOne'
  <2>0. OneMore
    BY <1>5 DEF Requests
  <2>s. /\ \A j \in DOMAIN mem_queue :
              mem_queue[j].op = "SW" /\ mem_queue[j].t = r_rob_tag
        /\ Len(mem_queue) <= InStore + OnTheWay
        /\ r_state # "FLUSH_STORE" => Len(mem_queue) <= OnTheWay
    <3>1. Len(mem_queue) <= InStore + OnTheWay
      BY <2>0 DEF OneMore, InStore
    <3>2. r_state # "FLUSH_STORE" => InStore = 0
      BY DEF InStore
    <3> QED
      BY <1>2, <1>3, <2>0, <3>1, <3>2 DEF OneMore
  (* After the step nothing is sent: the flush goes on or is over. *)
  <2>e. ASSUME UNCHANGED <<rob, r_rob_tag>>, r_state' # "FLUSH_STORE",
               \A j \in DOMAIN mem_queue' :
                 mem_queue'[j].op = "SW" /\ mem_queue'[j].t = r_rob_tag,
               Len(mem_queue') <= OnTheWay
        PROVE  IF InFlush' THEN OneMore' ELSE OneForOne'
    <3>1. OnTheWay' = OnTheWay
      BY <2>e DEF OnTheWay
    <3>2. OneMore'
      <4>1. Len(mem_queue') <= 0 + OnTheWay'
        BY <1>3, <2>e, <3>1, QueueOf
      <4> QED
        BY <2>e, <4>1 DEF OneMore
    <3>3. OneForOne'
      <4>1. LonelyWriteBack'
        BY <1>1, <2>e, <3>1 DEF LonelyWriteBack
      <4> QED
        BY <4>1, FlushEndsNext
    <3> QED
      BY <3>2, <3>3
  <2>1. CASE Same /\ UNCHANGED outside /\ UNCHANGED r_state
    BY <1>5, <2>0, <2>1 DEF Same, outside, OneMore, OnTheWay, InFlush
  <2>2. CASE MemRsp /\ r_state # "FLUSH_STORE" /\ UNCHANGED r_state
    <3>1. Perform /\ UNCHANGED r_rob_tag
      BY <2>2 DEF MemRsp
    <3>2. Len(mem_queue') = Len(mem_queue) - 1 /\ DOMAIN mem_queue' = 1 .. Len(mem_queue')
          /\ 1 \in DOMAIN mem_queue
      BY <3>1, PerformIs
    <3>3. Len(mem_queue') = 0
      BY <1>2, <1>3, <2>2, <2>s, <3>2
    <3>4. OnTheWay' \in {0, 1}
      BY DEF OnTheWay
    <3>5. Len(mem_queue') <= 0 + OnTheWay'
      <4>1. PICK d \in {0, 1} : d = OnTheWay'
        BY <3>4
      <4>2. 0 <= 0 + d
        OBVIOUS
      <4> QED
        BY <3>3, <4>1, <4>2
    <3>6. DOMAIN mem_queue' = {}
      BY <3>2, <3>3
    <3> QED
      BY <1>5, <2>2, <3>5, <3>6 DEF OneMore, InFlush
  <2>3. CASE FlushSet
    <3>1. CASE NextSet /\ UNCHANGED mem_queue
      <4>1. r_state' # "FLUSH_STORE" /\ r_state = "FLUSH_WAIT"
            /\ UNCHANGED <<rob, r_rob_tag, mem_queue>>
        BY <2>3, <3>1 DEF NextSet, FlushSet
      <4> QED
        BY <2>s, <2>e, <4>1
    <3>2. CASE ~(NextSet /\ UNCHANGED mem_queue)
      <4>1. /\ Send("SW", FirstDirty.l, FirstDirty.w, r_rob_tag)
            /\ FirstDirty.l \in Lines /\ FirstDirty.w \in Data /\ r_rob_tag \in Tags
            /\ r_state' = "FLUSH_STORE" /\ r_state = "FLUSH_WAIT"
            /\ UNCHANGED <<rob, r_rob_tag>>
        BY <2>3, <3>2, FlushSetIs
      <4> QED
        BY <2>0, <4>1, OneMoreSent DEF InFlush
    <3> QED
      BY <3>1, <3>2
  <2>4. CASE FlushWay2
    <3>1. r_state' = "FLUSH_STORE" /\ r_state = "FLUSH_STORE_WAY2"
          /\ UNCHANGED <<rob, r_rob_tag>>
      BY <2>4 DEF FlushWay2
    <3> QED
      BY <2>0, <2>4, <3>1, Sends, OneMoreSent DEF InFlush
  <2>5. CASE MemRspInFlush
    <3>1. Perform /\ UNCHANGED <<rob, r_rob_tag>> /\ r_state' # "FLUSH_STORE"
      BY <2>5 DEF MemRspInFlush, misses, NextSet
    <3>2. Len(mem_queue') = Len(mem_queue) - 1
          /\ \A j \in DOMAIN mem_queue' : /\ j + 1 \in DOMAIN mem_queue
                                          /\ mem_queue'[j] = mem_queue[j + 1]
      BY <3>1, PerformIs
    <3>3. InStore \in {0, 1}
      BY DEF InStore
    <3>4. Len(mem_queue') <= OnTheWay
      BY <1>2, <1>3, <2>s, <3>2, <3>3
    <3> QED
      BY <2>s, <2>e, <3>1, <3>2, <3>4
  <2> QED
    BY <1>5, <2>1, <2>2, <2>3, <2>4, <2>5, Steps
<1> QED
  BY <1>4, <1>5

LEMMA StoresFirstStep ==
  ASSUME TypeOK, RobHasRoom, FlushAlone, Requests, [Next]_vars
  PROVE  StoresFirst'
<1>0. \A j, k \in DOMAIN mem_queue : mem_queue[j].op = "LW" /\ mem_queue[k].op = "SW" => k < j
  BY DEF Requests, StoresFirst
<1>1. CASE UNCHANGED mem_queue
  BY <1>0, <1>1 DEF StoresFirst
<1>2. CASE Perform
  <2>1. \A j \in DOMAIN mem_queue' : /\ j \in Int /\ j + 1 \in DOMAIN mem_queue
                                     /\ mem_queue'[j] = mem_queue[j + 1]
    BY <1>2, PerformIs
  <2>2. ASSUME NEW j \in DOMAIN mem_queue', NEW k \in DOMAIN mem_queue',
               mem_queue'[j].op = "LW", mem_queue'[k].op = "SW"
        PROVE  k < j
    <3>1. k + 1 < j + 1
      BY <1>0, <2>1, <2>2
    <3> QED
      BY <2>1, <3>1
  <2> QED
    BY <2>2 DEF StoresFirst
<1>3. ASSUME NEW op \in {"LW", "SW"}, NEW l \in Lines, NEW w \in Data, NEW t \in Tags,
             Send(op, l, w, t),
             op = "SW" => \A j \in DOMAIN mem_queue : mem_queue[j].op # "LW"
      PROVE  StoresFirst'
  <2> DEFINE n == Len(mem_queue) + 1
  <2>1. /\ DOMAIN mem_queue' = DOMAIN mem_queue \cup {n} /\ Len(mem_queue) \in Nat
        /\ DOMAIN mem_queue = 1 .. Len(mem_queue)
        /\ \A j \in DOMAIN mem_queue : mem_queue'[j] = mem_queue[j]
        /\ mem_queue'[n].op = op
    BY <1>3, SentIs
  <2>2. \A j \in DOMAIN mem_queue : j < n
    BY <2>1
  <2> HIDE DEF n
  <2> QED
    BY <1>0, <1>3, <2>1, <2>2 DEF StoresFirst
<1>4. InFlush => \A j \in DOMAIN mem_queue : mem_queue[j].op # "LW"
  BY DEF Requests, OneMore
<1>5. CASE WriteBack
  <2>1. ~InFlush /\ rob = <<>>
    BY <1>5 DEF WriteBack, Idle, MustWriteBack, InFlush
  <2>2. DOMAIN mem_queue = {}
    BY <2>1 DEF Requests, OneForOne
  <2> QED
    BY <1>3, <1>5, <2>2, Sends
<1>6. CASE Miss
  BY <1>3, <1>6, Sends
<1>7. CASE FlushSet
  BY <1>1, <1>3, <1>4, <1>7, FlushSetIs DEF InFlush
<1>8. CASE FlushWay2
  BY <1>3, <1>4, <1>8, Sends DEF FlushWay2, InFlush
<1>9. CASE MemRsp \/ MemRspInFlush
  BY <1>2, <1>9 DEF MemRsp, MemRspInFlush
<1> QED
  BY <1>1, <1>5, <1>6, <1>7, <1>8, <1>9, Steps DEF outside

(* What the invariant says of the answers to come, and of the victim.      *)
LEMMA Expected ==
  ASSUME TypeOK, RobHasRoom, ReadOnce, FetchOnce, FlushSweep, MarkHits, FlushAlone, Victims,
         Requests
  PROVE  AnswersExpected
<1> SUFFICES ASSUME mem_queue # <<>>, r_state # "FLUSH_STORE"
             PROVE  \E i \in DOMAIN rob : TagOf(i) = Head(mem_queue).t /\ ~rob[i].done
  BY DEF AnswersExpected
<1>0. /\ Head(mem_queue) = mem_queue[1] /\ 1 \in DOMAIN mem_queue
      /\ Len(mem_queue) # 0 /\ Len(mem_queue) \in Nat
  BY QueueOf
<1>1. CASE ~InFlush
  BY <1>0, <1>1 DEF Requests, OneForOne, AsksFor
<1>2. CASE InFlush
  <2>1. OneMore /\ LastTag /\ r_flush_req
    BY <1>2 DEF Requests, FlushSweep
  <2>2. Len(rob) \in {0, 1} /\ DOMAIN rob = 1 .. Len(rob)
    BY <2>1, FlushRob
  <2>3. OnTheWay # 0
    <3>1. Len(mem_queue) <= 0 + OnTheWay
      BY <2>1 DEF OneMore
    <3> QED
      BY <1>0, <3>1
  <2>4. rob # <<>> /\ ~rob[1].done
    BY <2>3 DEF OnTheWay
  <2>5. Len(rob) = 1
    <3>1. rob \in Seq(EntryType)
      BY DEF TypeOK, MissesType
    <3> QED
      BY <2>2, <2>4, <3>1, EmptySeq
  <2>6. mem_queue[1].t = TagOf(1)
    BY <1>0, <2>1, <2>4, <2>5 DEF OneMore, LastTag
  <2> QED
    BY <1>0, <2>2, <2>4, <2>5, <2>6
<1> QED
  BY <1>1, <1>2

LEMMA Unread ==
  ASSUME TypeOK, Victims, FlushAlone, Requests
  PROVE  VictimUnread
<1> SUFFICES ASSUME wb.need, NEW j \in DOMAIN mem_queue, mem_queue[j].op = "LW"
             PROVE  mem_queue[j].l # wb.l
  BY DEF VictimUnread
<1>1. OneForOne
  BY DEF FlushAlone, Requests
<1>2. PICK i \in DOMAIN rob : AsksFor(i, j)
  BY <1>1 DEF OneForOne
<1> QED
  BY <1>2 DEF AsksFor, Victims

-----------------------------------------------------------------------------
(* What is stored: the youngest store on its way, or the memory.           *)
LastOf(S) == CHOOSE i \in S : \A j \in S : j <= i
StoresIn(q, l) == {i \in DOMAIN q : q[i].op = "SW" /\ q[i].l = l}
StoredIn(q, m, l) ==
  IF StoresIn(q, l) # {} THEN q[LastOf(StoresIn(q, l))].w ELSE m[l]

LEMMA StoredIs ==
  /\ \A l : Stored(l) = StoredIn(mem_queue, mem, l)
  /\ \A l : Stored(l)' = StoredIn(mem_queue', mem', l)
  BY DEF Stored, StoredIn, Youngest, LastOf, StoresOf, StoresIn

LEMMA LastExists ==
  ASSUME NEW n \in Nat, NEW S \in SUBSET (1 .. n), S # {}
  PROVE  \E m \in S : \A j \in S : j <= m
<1> DEFINE T == {n - p : p \in S}
           R == OpToRel(<, Nat)
<1>1. T \subseteq Nat /\ T # {}
  OBVIOUS
<1>2. IsWellFoundedOn(R, Nat)
  BY NatLessThanWellFounded
<1>3. \A y, z \in Nat : y < z => <<y, z>> \in R
  BY DEF OpToRel
<1> HIDE DEF R
<1>4. PICK x \in T : \A y \in T : ~ (<<y, x>> \in R)
  BY <1>1, <1>2, WFMin, Zenon
<1>5. PICK p \in S : x = n - p
  OBVIOUS
<1>6. \A q \in S : ~ (n - q < x)
  BY <1>1, <1>3, <1>4
<1>7. \A q \in S : q <= p
  BY <1>5, <1>6
<1> QED
  BY <1>7

LEMMA LastIs ==
  ASSUME NEW S \in SUBSET Nat, NEW m \in S, \A j \in S : j <= m
  PROVE  LastOf(S) = m
<1>1. LastOf(S) \in S /\ \A j \in S : j <= LastOf(S)
  BY DEF LastOf
<1>2. LastOf(S) <= m /\ m <= LastOf(S) /\ LastOf(S) \in Nat /\ m \in Nat
  BY <1>1
<1> HIDE DEF LastOf
<1> QED
  BY <1>2

LEMMA StoredSend ==
  ASSUME TypeOK, NEW op \in {"LW", "SW"}, NEW l \in Lines, NEW w \in Data, NEW t \in Tags,
         Send(op, l, w, t), UNCHANGED mem, NEW x \in Lines
  PROVE  Stored(x)' = IF op = "SW" /\ x = l THEN w ELSE Stored(x)
<1>0. Len(mem_queue) + 1 \in Nat
  BY QueueOf
<1>1. PICK n \in Nat :
        /\ n = Len(mem_queue) + 1 /\ DOMAIN mem_queue = 1 .. Len(mem_queue)
        /\ Len(mem_queue) \in Nat
        /\ DOMAIN mem_queue' = DOMAIN mem_queue \cup {n} /\ n \notin DOMAIN mem_queue
        /\ \A j \in DOMAIN mem_queue : mem_queue'[j] = mem_queue[j]
        /\ mem_queue'[n].op = op /\ mem_queue'[n].l = l /\ mem_queue'[n].w = w
  BY ZenonT(40), <1>0, SentIs
<1>2. CASE op = "SW" /\ x = l
  <2>1. n \in StoresIn(mem_queue', x) /\ StoresIn(mem_queue', x) \in SUBSET Nat
    BY <1>1, <1>2 DEF StoresIn
  <2>2. \A j \in StoresIn(mem_queue', x) : j <= n
    BY <1>1 DEF StoresIn
  <2>3. LastOf(StoresIn(mem_queue', x)) = n
    BY <2>1, <2>2, LastIs
  <2> QED
    BY <1>1, <1>2, <2>1, <2>3, StoredIs DEF StoredIn
<1>3. CASE ~(op = "SW" /\ x = l)
  <2>1. StoresIn(mem_queue', x) = StoresIn(mem_queue, x)
    BY <1>1, <1>3 DEF StoresIn
  <2>2. \A j \in StoresIn(mem_queue, x) : mem_queue'[j] = mem_queue[j]
    BY <1>1 DEF StoresIn
  <2>3. StoresIn(mem_queue, x) # {} => LastOf(StoresIn(mem_queue, x)) \in StoresIn(mem_queue, x)
    <3>1. StoresIn(mem_queue, x) \in SUBSET (1 .. Len(mem_queue))
      BY <1>1 DEF StoresIn
    <3> QED
      BY <1>1, <3>1, LastExists DEF LastOf
  <2> QED
    BY <1>3, <2>1, <2>2, <2>3, StoredIs DEF StoredIn
<1> QED
  BY <1>2, <1>3

LEMMA StoredPerform ==
  ASSUME TypeOK, Perform, NEW x \in Lines
  PROVE  Stored(x)' = Stored(x)
<1> DEFINE S == StoresIn(mem_queue, x)
           T == StoresIn(mem_queue', x)
<1>1. /\ 1 \in DOMAIN mem_queue /\ Head(mem_queue) = mem_queue[1]
      /\ Len(mem_queue') = Len(mem_queue) - 1 /\ DOMAIN mem_queue' = 1 .. Len(mem_queue')
      /\ Len(mem_queue) \in Nat /\ DOMAIN mem_queue = 1 .. Len(mem_queue)
      /\ \A j \in DOMAIN mem_queue' : /\ j + 1 \in DOMAIN mem_queue /\ j + 1 # 1
                                      /\ mem_queue'[j] = mem_queue[j + 1]
  BY PerformIs
<1>2. /\ mem \in [Lines -> Data] /\ mem_queue[1].l \in Lines
      /\ mem_queue[1].op \in {"LW", "SW"}
  <2>1. mem_queue[1] \in MemRequestType
    BY <1>1, QueueOf
  <2> QED
    BY <2>1 DEF TypeOK, MemoryType, MemRequestType
<1>3. mem'[x] = IF mem_queue[1].op = "SW" /\ mem_queue[1].l = x THEN mem_queue[1].w ELSE mem[x]
  BY <1>1, <1>2 DEF Perform
<1>4. S \subseteq Nat /\ T \subseteq 1 .. Len(mem_queue') /\ Len(mem_queue') \in Nat
  BY <1>1 DEF StoresIn
<1>5. \A j \in T : j + 1 \in S /\ j \in Nat
  BY <1>1 DEF StoresIn
<1>6. ASSUME NEW j \in S, j # 1
      PROVE  j - 1 \in T
  <2>1. j \in DOMAIN mem_queue /\ j - 1 \in DOMAIN mem_queue' /\ (j - 1) + 1 = j
    BY <1>1, <1>6 DEF StoresIn
  <2>2. mem_queue'[j - 1] = mem_queue[(j - 1) + 1]
    BY <1>1, <2>1
  <2> QED
    BY <1>6, <2>1, <2>2 DEF StoresIn
<1>7. 1 \in S <=> mem_queue[1].op = "SW" /\ mem_queue[1].l = x
  BY <1>1 DEF StoresIn
<1>8. T \subseteq DOMAIN mem_queue'
  BY DEF StoresIn
<1>s. Stored(x) = (IF S # {} THEN mem_queue[LastOf(S)].w ELSE mem[x])
      /\ Stored(x)' = (IF T # {} THEN mem_queue'[LastOf(T)].w ELSE mem'[x])
  BY StoredIs DEF StoredIn
<1> HIDE DEF S, T
<1>9. CASE T # {}
  <2>1. PICK m \in T : \A j \in T : j <= m
    BY <1>4, <1>9, LastExists
  <2>2. LastOf(T) = m
    <3>1. T \in SUBSET Nat
      BY <1>4
    <3> QED
      BY <2>1, <3>1, LastIs
  <2>3. m + 1 \in S /\ m \in Nat /\ \A j \in S : j <= m + 1
    <3>1. ASSUME NEW j \in S PROVE j <= m + 1
      <4>1. CASE j = 1
        BY <1>5, <4>1
      <4>2. CASE j # 1
        <5>1. j - 1 <= m /\ j \in Nat /\ m \in Nat
          BY <1>4, <1>5, <1>6, <2>1, <4>2
        <5> QED
          BY <5>1
      <4> QED
        BY <4>1, <4>2
    <3> QED
      BY <1>5, <3>1
  <2>4. LastOf(S) = m + 1
    BY <1>4, <2>3, LastIs
  <2> QED
    BY <1>1, <1>8, <1>s, <1>9, <2>2, <2>3, <2>4
<1>10. CASE T = {} /\ 1 \in S
  <2>1. S = {1}
    BY <1>6, <1>10
  <2>2. LastOf(S) = 1
    BY <1>4, <2>1, LastIs
  <2> QED
    BY <1>3, <1>7, <1>s, <1>10, <2>2
<1>11. CASE T = {} /\ 1 \notin S
  <2>1. S = {}
    BY <1>6, <1>11
  <2> QED
    BY <1>3, <1>7, <1>s, <1>11, <2>1
<1> QED
  BY <1>9, <1>10, <1>11

(* What is behind the copies of a line changes only when a dirty one goes. *)
LEMMA BehindFrame ==
  ASSUME NEW x, UNCHANGED <<wb, way1>>, Stored(x)' = Stored(x)
  PROVE  Behind(x)' = Behind(x)
  BY DEF Behind

LEMMA StoredSame == UNCHANGED outside => \A x : Stored(x)' = Stored(x)
  BY StoredIs DEF outside

LEMMA BehindKept ==
  ASSUME TypeOK, FlushAlone, [Next]_vars, ~Miss, ~FlushSet, NEW x \in Lines
  PROVE  Behind(x)' = Behind(x)
<1>0. UNCHANGED way1 \/ FlushWay2
  BY EngineFrame, ClientFrame DEF Next, ClientSteps
<1>1. CASE WriteBack
  <2>1. ~way1.v /\ UNCHANGED way1
    BY <1>0, <1>1 DEF FlushAlone, WriteBack, Idle, FlushWay2
  <2>2. Stored(x)' = IF x = wb.l THEN wb.w ELSE Stored(x)
    BY <1>1, Sends, StoredSend DEF WriteBack
  <2>3. wb.need /\ ~wb'.need
    BY <1>1 DEF WriteBack, MustWriteBack, NoWb
  <2> QED
    BY <2>1, <2>2, <2>3 DEF Behind
<1>2. CASE FlushWay2
  <2>1. ~wb.need /\ UNCHANGED <<wb, mem>> /\ way1.v /\ ~way1'.v
    BY <1>2 DEF FlushAlone, FlushWay2, FlushStore, InFlush, Empty, TypeOK, FlushType
  <2>2. Stored(x)' = IF x = way1.l THEN way1.w ELSE Stored(x)
    BY <1>2, <2>1, Sends, StoredSend
  <2> QED
    BY <2>1, <2>2 DEF Behind
<1>3. CASE MemRsp \/ MemRspInFlush
  <2>1. Perform /\ UNCHANGED <<wb, way1>>
    BY <1>3 DEF MemRsp, MemRspInFlush, misses, flush
  <2> QED
    BY <2>1, StoredPerform, BehindFrame
<1>4. CASE UNCHANGED outside /\ ~WriteBack /\ ~FlushWay2
  BY <1>0, <1>4, WbFrame, StoredSame, BehindFrame
<1> QED
  BY <1>1, <1>2, <1>3, <1>4, Steps

LEMMA BehindMiss ==
  ASSUME TypeOK, SetHome, VictimKept, FlushAlone, Copies, Miss, NEW x \in Lines
  PROVE  Behind(x)' = IF Victim.d /\ x = Victim.l THEN Victim.w ELSE Behind(x)
<1>1. ~way1.v /\ UNCHANGED way1 /\ ~wb.need /\ UNCHANGED mem
  BY DEF FlushAlone, Miss, Check, VictimKept, flush
<1>2. Stored(x)' = Stored(x)
  BY <1>1, Sends, StoredSend
<1>3. CASE Victim.d
  <2>1. wb' = [need |-> TRUE, l |-> Victim.l, w |-> Victim.w]
    BY <1>3, VictimLine
  <2> QED
    BY <1>1, <1>2, <1>3, <2>1 DEF Behind
<1>4. CASE ~Victim.d
  <2>1. wb' = wb
    BY <1>4 DEF Miss
  <2> QED
    BY <1>1, <1>2, <1>4, <2>1 DEF Behind
<1> QED
  BY <1>3, <1>4

LEMMA BehindFlush ==
  ASSUME TypeOK, OneCopy, FlushAlone, FlushSet
  PROVE  /\ \A x \in Lines, k \in Ways :
              Dirty(k) /\ cache[r_idx][k].l = x => Behind(x)' = cache[r_idx][k].w
         /\ \A x \in Lines : (\A k \in Ways : Dirty(k) => cache[r_idx][k].l # x) =>
                               Behind(x)' = Behind(x)
<1>0. /\ ~wb.need /\ UNCHANGED <<wb, mem>> /\ ~way1.v
      /\ \/ ~Dirty(0) /\ ~Dirty(1) /\ UNCHANGED <<way1, mem_queue>>
         \/ /\ Dirty(0) \/ Dirty(1)
            /\ Send("SW", FirstDirty.l, FirstDirty.w, r_rob_tag)
            /\ FirstDirty.l \in Lines /\ FirstDirty.w \in Data /\ r_rob_tag \in Tags
            /\ way1' = IF Dirty(0) /\ Dirty(1) THEN cache[r_idx][1] ELSE Empty
  BY FlushSetIs
<1>w. Ways = {0, 1}
  BY DEF Ways
<1>1. CASE ~Dirty(0) /\ ~Dirty(1)
  <2>1. UNCHANGED <<way1, wb>> /\ UNCHANGED outside
    BY <1>0, <1>1 DEF outside
  <2>2. \A x \in Lines : Behind(x)' = Behind(x)
    BY <2>1, StoredSame, BehindFrame
  <2> QED
    BY <1>1, <1>w, <2>2
<1>2. CASE Dirty(0) \/ Dirty(1)
  <2>1. \A x \in Lines : Behind(x) = Stored(x)
    BY <1>0 DEF Behind
  <2>2. \A x \in Lines : Stored(x)' = IF x = FirstDirty.l THEN FirstDirty.w ELSE Stored(x)
    BY <1>0, <1>2, StoredSend
  <2>3. CASE Dirty(0) /\ Dirty(1)
    <3>1. FirstDirty = cache[r_idx][0] /\ way1' = cache[r_idx][1]
      BY <1>0, <2>3 DEF FirstDirty
    <3>2. cache[r_idx][0].v /\ cache[r_idx][1].v /\ r_idx \in Sets
      BY <2>3 DEF Dirty, TypeOK, FlushType
    <3>3. cache[r_idx][0].l # cache[r_idx][1].l
      BY <3>2 DEF OneCopy
    <3>4. \A x \in Lines : Behind(x)' = IF x = cache[r_idx][1].l THEN cache[r_idx][1].w
                                        ELSE Stored(x)'
      BY <1>0, <3>1, <3>2 DEF Behind
    <3>5. cache[r_idx][1].l \in Lines
      <4>1. cache[r_idx][1] \in Copy
        BY <3>2, <1>w DEF TypeOK, ArraysType
      <4> QED
        BY <3>2, <4>1 DEF Copy
    <3> HIDE DEF FirstDirty
    <3>6. FirstDirty.l \in Lines
      BY <1>0, <1>2
    <3> QED
      BY <1>w, <2>1, <2>2, <2>3, <3>1, <3>3, <3>4, <3>5, <3>6
  <2>4. CASE ~(Dirty(0) /\ Dirty(1))
    <3>1. ~way1'.v
      BY <1>0, <1>2, <2>4 DEF Empty
    <3>2. \A x \in Lines : Behind(x)' = Stored(x)'
      BY <1>0, <3>1 DEF Behind
    <3>3. \A k \in Ways : Dirty(k) => cache[r_idx][k] = FirstDirty
      BY <1>w, <2>4 DEF FirstDirty
    <3>4. \E k \in Ways : Dirty(k) /\ cache[r_idx][k] = FirstDirty
      BY <1>w, <1>2, <3>3
    <3>5. FirstDirty.l \in Lines
      BY <1>0, <1>2
    <3> QED
      BY <2>1, <2>2, <3>2, <3>3, <3>4, <3>5
  <2> QED
    BY <2>3, <2>4
<1> QED
  BY <1>1, <1>2


-----------------------------------------------------------------------------
(* The arrays after each step.                                             *)
LEMMA CacheFrame ==
  ASSUME [Next]_vars
  PROVE  UNCHANGED cache \/ Fill \/ StoreHit \/ UpdatePte \/ FlushSet
<1>1. CASE Engine
  BY <1>1 DEF Engine, PopWriteback, Fill, WriteBack, TakeMark, TakeMmu, TakeL1I, TakeL1D,
     AnswerMmu, UpdatePte, AnswerL1D, AnswerL1I, StoreHit, Miss, StartFlush, FlushSet,
     FlushWay2, MemRsp, MemRspInFlush, lookup
<1>2. CASE ClientSteps
  BY <1>2, ClientFrame DEF lookup
<1> QED
  BY <1>1, <1>2 DEF Next, ClientSteps

LEMMA OnlyCopy ==
  ASSUME TypeOK, SetHome, OneCopy
  PROVE  /\ \A i, j \in Sets, k, m \in Ways, x \in Lines :
              Holds(cache[i][k], x) /\ Holds(cache[j][m], x) => i = j /\ k = m
         /\ \A i \in Sets, k \in Ways, x \in Lines : Holds(cache[i][k], x) => SetOf[x] = i
         /\ \A i \in Sets, k \in Ways : cache[i][k].v =>
              cache[i][k].l \in Lines /\ Holds(cache[i][k], cache[i][k].l)
<1>1. Ways = {0, 1}
  BY DEF Ways
<1>2. \A i \in Sets, k \in Ways, x \in Lines : Holds(cache[i][k], x) => SetOf[x] = i
  BY DEF SetHome, Holds
<1>3. ASSUME NEW i \in Sets, NEW k \in Ways, NEW m \in Ways, NEW x \in Lines,
             Holds(cache[i][k], x), Holds(cache[i][m], x)
      PROVE  k = m
  BY <1>1, <1>3 DEF OneCopy, Holds
<1>4. \A i \in Sets, k \in Ways : cache[i][k] \in Copy
  BY DEF TypeOK, ArraysType
<1> QED
  BY <1>2, <1>3, <1>4 DEF Copy, Holds

LEMMA WrittenIs ==
  ASSUME TypeOK, Check, w_hit, NEW w \in Data,
         cache' = [cache EXCEPT ![s][way] = Written(@, w)]
  PROVE  /\ \A i \in Sets, k \in Ways : i # s \/ k # way => cache'[i][k] = cache[i][k]
         /\ LET c == cache'[s][way] IN
            c.v = cache[s][way].v /\ c.l = cache[s][way].l /\ c.w = w /\ c.d
<1>1. s \in Sets /\ way \in Ways /\ cache \in [Sets -> [Ways -> Copy]]
  BY HitWay DEF TypeOK, ArraysType
<1>2. cache'[s][way] = Written(cache[s][way], w)
  BY <1>1
<1>3. \A i \in Sets, k \in Ways : i # s \/ k # way => cache'[i][k] = cache[i][k]
  BY <1>1
<1> HIDE DEF s, way
<1> QED
  BY <1>2, <1>3 DEF Written

(* StoreHit and UpdatePte write the copy of the line looked up. *)
NewWord == IF StoreHit THEN r.w ELSE w_d \cup r_mmu_mark
LEMMA Writes ==
  ASSUME TypeOK, StoreHit \/ UpdatePte
  PROVE  /\ Check /\ w_hit /\ NewWord \in Data
         /\ s \in Sets /\ way \in Ways
         /\ cache[s][way].v /\ cache[s][way].l = r.l /\ r.l \in Lines
         /\ \A i \in Sets, k \in Ways : i # s \/ k # way => cache'[i][k] = cache[i][k]
         /\ LET c == cache'[s][way] IN c.v /\ c.l = r.l /\ c.w = NewWord /\ c.d
         /\ UNCHANGED <<rob, r_rob_head_ptr, wb, way1, outside>>
<1>1. Check /\ w_hit /\ UNCHANGED <<rob, r_rob_head_ptr, wb, way1, outside>>
  BY DEF StoreHit, UpdatePte, LoadHit, misses, flush
<1>2. /\ s \in Sets /\ way \in Ways /\ w_d \in Data /\ r.l \in Lines
      /\ cache[s][way].v /\ cache[s][way].l = r.l
  BY <1>1, HitWay
<1>3. r.w \in Data /\ r_mmu_mark \subseteq Bits
  BY DEF TypeOK, LookupType, RequestType
<1>4. NewWord \in Data
  BY <1>2, <1>3 DEF NewWord, Data
<1>5. cache' = [cache EXCEPT ![s][way] = Written(@, NewWord)]
  <2>1. StoreHit => cache' = [cache EXCEPT ![s][way] = Written(@, r.w)]
    BY DEF StoreHit
  <2>2. UpdatePte => cache' = [cache EXCEPT ![s][way] = Written(@, w_d \cup r_mmu_mark)]
    BY DEF UpdatePte
  <2> QED
    BY <2>1, <2>2 DEF NewWord
<1> QED
  BY <1>1, <1>2, <1>4, <1>5, WrittenIs

LEMMA CleanIs ==
  ASSUME TypeOK, Clean
  PROVE  /\ r_idx \in Sets
         /\ \A i \in Sets, k \in Ways : i # r_idx => cache'[i][k] = cache[i][k]
         /\ \A k \in Ways :
              /\ ~cache'[r_idx][k].d
              /\ cache'[r_idx][k].v => /\ cache[r_idx][k].v
                                       /\ cache'[r_idx][k].l = cache[r_idx][k].l
                                       /\ cache'[r_idx][k].w = cache[r_idx][k].w
<1>1. r_idx \in Sets /\ cache \in [Sets -> [Ways -> Copy]]
  BY DEF TypeOK, FlushType, ArraysType
<1>2. \A i \in Sets, k \in Ways : i # r_idx => cache'[i][k] = cache[i][k]
  BY <1>1 DEF Clean
<1>3. ASSUME NEW k \in Ways
      PROVE  cache'[r_idx][k] = IF r_wb_no_inv /\ cache[r_idx][k].v
                                THEN [cache[r_idx][k] EXCEPT !.d = FALSE] ELSE Empty
  BY <1>1 DEF Clean
<1>4. ASSUME NEW k \in Ways
      PROVE  /\ ~cache'[r_idx][k].d
             /\ cache'[r_idx][k].v => /\ cache[r_idx][k].v
                                      /\ cache'[r_idx][k].l = cache[r_idx][k].l
                                      /\ cache'[r_idx][k].w = cache[r_idx][k].w
  <2>1. PICK c \in Copy : c = cache[r_idx][k]
    BY <1>1
  <2>2. /\ [c EXCEPT !.d = FALSE].v = c.v /\ ~[c EXCEPT !.d = FALSE].d
        /\ [c EXCEPT !.d = FALSE].l = c.l /\ [c EXCEPT !.d = FALSE].w = c.w
    BY DEF Copy
  <2>3. ~Empty.d /\ ~Empty.v
    BY DEF Empty
  <2> QED
    BY <1>3, <2>1, <2>2, <2>3
<1> QED
  BY <1>1, <1>2, <1>4

LEMMA FillIs ==
  ASSUME TypeOK, Fill
  PROVE  LET e == Head(rob) IN
         /\ Popped1 /\ e.done /\ e.ty # "WRITEBACK" /\ e.l \in Lines /\ e.way \in Ways
         /\ SetOf[e.l] \in Sets
         /\ \A i \in Sets, k \in Ways :
              i # SetOf[e.l] \/ k # e.way => cache'[i][k] = cache[i][k]
         /\ LET c == cache'[SetOf[e.l]][e.way] IN c.v /\ ~c.d /\ c.l = e.l /\ c.w = e.data
<1>1. /\ Popped1 /\ Head(rob).done /\ Head(rob).ty # "WRITEBACK"
      /\ cache' = [cache EXCEPT ![SetOf[Head(rob).l]][Head(rob).way] =
                     [v |-> TRUE, d |-> FALSE, l |-> Head(rob).l, w |-> Head(rob).data]]
  BY DEF Fill, PopRob, Popped1, w_head_of_rob_done
<1>2. Head(rob).l \in Lines /\ Head(rob).way \in Ways /\ SetOf[Head(rob).l] \in Sets
  <2>1. Head(rob) \in EntryType
    BY <1>1, Popped DEF Popped1, TypeOK, MissesType
  <2> QED
    BY <2>1, L2Assumption DEF EntryType
<1>3. cache \in [Sets -> [Ways -> Copy]]
  BY DEF TypeOK, ArraysType
<1> QED
  BY <1>1, <1>2, <1>3

-----------------------------------------------------------------------------
(* A clean copy holds what is behind it. *)
LEMMA CopiesStep ==
  ASSUME TypeOK, RobHasRoom, SetHome, OneCopy, VictimKept, FlushAlone, Copies, Fetches,
         [Next]_vars
  PROVE  Copies'
<1>0. \A i \in Sets, k \in Ways : /\ cache[i][k].d => cache[i][k].v
                                  /\ ~cache[i][k].d => Backed(cache[i][k])
  BY DEF Copies
<1>b. \A i \in Sets, k \in Ways, x \in Lines :
        Holds(cache[i][k], x) /\ ~cache[i][k].d => cache[i][k].w = Behind(x)
  BY <1>0 DEF Backed
<1>1. SUFFICES ASSUME NEW i \in Sets, NEW k \in Ways
               PROVE  /\ cache'[i][k].d => cache'[i][k].v
                      /\ \A x \in Lines : Holds(cache'[i][k], x) /\ ~cache'[i][k].d =>
                                            cache'[i][k].w = Behind(x)'
  BY DEF Copies, Backed, Holds
<1>2. CASE UNCHANGED cache /\ ~Miss /\ ~FlushSet
  BY <1>0, <1>b, <1>2, BehindKept
<1>3. CASE Miss
  <2>1. UNCHANGED cache /\ s \in Sets /\ n_replace \in Ways
    BY <1>3, HitWay DEF Miss
  <2>2. ASSUME NEW x \in Lines, Holds(cache[i][k], x), ~cache[i][k].d
        PROVE  Behind(x)' = Behind(x)
    <3>1. Victim.d => Victim.v /\ Victim.l \in Lines
      BY <1>3, VictimLine
    <3>2. Victim.d => x # Victim.l
      BY <2>1, <2>2, <3>1, OnlyCopy DEF Holds, Victim
    <3> QED
      BY <1>3, <3>2, BehindMiss
  <2> QED
    BY <1>0, <1>b, <2>1, <2>2
<1>4. CASE Fill
  <2>1. \A x \in Lines : Behind(x)' = Behind(x)
    BY <1>4, BehindKept DEF Fill, Miss, FlushSet, Check
  <2>2. Fetched(Head(rob))
    BY <1>4, FillIs, PopEntries DEF Fetches
  <2>3. CASE i = SetOf[Head(rob).l] /\ k = Head(rob).way
    BY <1>4, <2>1, <2>2, <2>3, FillIs DEF Fetched, Holds
  <2>4. CASE i # SetOf[Head(rob).l] \/ k # Head(rob).way
    <3>1. cache'[i][k] = cache[i][k]
      BY <1>4, <2>4, FillIs
    <3> QED
      BY <1>0, <1>b, <2>1, <3>1
  <2> QED
    BY <2>3, <2>4
<1>5. CASE StoreHit \/ UpdatePte
  <2>1. \A x \in Lines : Behind(x)' = Behind(x)
    <3>1. UNCHANGED <<wb, way1>> /\ UNCHANGED outside
      BY <1>5, Writes
    <3> QED
      BY <3>1, StoredSame, BehindFrame
  <2> QED
    BY <1>0, <1>b, <1>5, <2>1, Writes
<1>6. CASE FlushSet
  <2>1. Clean
    BY <1>6 DEF FlushSet
  <2>2. CASE i = r_idx
    <3>1. /\ ~cache'[i][k].d
          /\ cache'[i][k].v => /\ cache[i][k].v /\ cache'[i][k].l = cache[i][k].l
                               /\ cache'[i][k].w = cache[i][k].w
      BY <2>1, <2>2, CleanIs
    <3>2. ASSUME NEW x \in Lines, Holds(cache'[i][k], x)
          PROVE  cache'[i][k].w = Behind(x)'
      <4>1. Holds(cache[i][k], x) /\ cache'[i][k].w = cache[i][k].w
        BY <3>1, <3>2 DEF Holds
      <4>2. CASE cache[i][k].d
        BY <1>6, <2>2, <4>1, <4>2, BehindFlush DEF Dirty, Holds
      <4>3. CASE ~cache[i][k].d
        <5>1. \A m \in Ways : Dirty(m) => cache[r_idx][m].l # x
          BY <2>2, <4>1, <4>3, OnlyCopy DEF Dirty, Holds
        <5> QED
          BY <1>6, <1>b, <4>1, <4>3, <5>1, BehindFlush
      <4> QED
        BY <4>2, <4>3
    <3> QED
      BY <3>1, <3>2
  <2>3. CASE i # r_idx
    <3>1. cache'[i][k] = cache[i][k] /\ r_idx \in Sets
      BY <2>1, <2>3, CleanIs
    <3>2. ASSUME NEW x \in Lines, Holds(cache[i][k], x)
          PROVE  Behind(x)' = Behind(x)
      <4>1. \A m \in Ways : Dirty(m) => cache[r_idx][m].l # x
        BY <2>3, <3>1, <3>2, OnlyCopy DEF Dirty, Holds
      <4> QED
        BY <1>6, <4>1, BehindFlush
    <3> QED
      BY <1>0, <1>b, <3>1, <3>2
  <2> QED
    BY <2>2, <2>3
<1> QED
  BY <1>2, <1>3, <1>4, <1>5, <1>6, CacheFrame

(* What is fetched is what is behind the copies, and so is what it replaces. *)
ReplacedNow(e) == \A x \in Lines : Holds(cache'[SetOf[e.l]][e.way], x) =>
                    cache'[SetOf[e.l]][e.way].w = Behind(x)'
FetchedNow(e) == \A x \in Lines : e.done /\ e.l = x => e.data = Behind(x)'

LEMMA RobEntries ==
  ASSUME TypeOK
  PROVE  \A i \in DOMAIN rob : /\ rob[i] \in EntryType /\ rob[i].l \in Lines
                               /\ rob[i].way \in Ways /\ SetOf[rob[i].l] \in Sets
<1>1. \A i \in DOMAIN rob : rob[i] \in EntryType
  BY LenProperties, ElementOfSeq DEF TypeOK, MissesType
<1> QED
  BY <1>1, L2Assumption DEF EntryType

(* The entry answered has the word of its line. *)
LEMMA RspFetched ==
  ASSUME TypeOK, RobHasRoom, ReadOnce, FetchOnce, FlushSweep, MarkHits, FlushAlone, Victims,
         Requests, MemRsp, NEW i \in DOMAIN rob, rob[i].ty # "WRITEBACK",
         TagOf(i) = Head(mem_queue).t
  PROVE  mem[Head(mem_queue).l] = Behind(rob[i].l) /\ Head(mem_queue).l = rob[i].l
<1>1. /\ 1 \in DOMAIN mem_queue /\ Head(mem_queue) = mem_queue[1] /\ mem_queue # <<>>
      /\ DOMAIN mem_queue = 1 .. Len(mem_queue)
  BY PerformIs DEF MemRsp, Perform
<1>2. ~InFlush
  <2>1. ~r_flush_req
    BY FlushRob
  <2> QED
    BY <2>1 DEF FlushSweep
<1>3. PICK j \in DOMAIN rob : AsksFor(j, 1)
  BY <1>1, <1>2 DEF Requests, OneForOne
<1>4. j = i
  <2>1. i \in 1 .. N /\ j \in 1 .. N
    BY TagsDiffer
  <2> QED
    BY <1>1, <1>3, <2>1, TagsDiffer DEF AsksFor
<1>5. mem_queue[1].op = "LW" /\ mem_queue[1].l = rob[i].l
  BY <1>3, <1>4 DEF AsksFor
<1>6. StoresOf(rob[i].l) = {}
  <2>1. \A k \in DOMAIN mem_queue : k >= 1
    BY <1>1
  <2> QED
    BY <1>1, <1>5, <2>1 DEF StoresOf, Requests, StoresFirst
<1>7. ~way1.v
  BY <1>2 DEF FlushAlone, InFlush
<1>8. wb.need => wb.l # rob[i].l
  BY DEF Victims
<1>9. Behind(rob[i].l) = mem[rob[i].l]
  BY <1>6, <1>7, <1>8 DEF Behind, Stored
<1> QED
  BY <1>1, <1>5, <1>9

LEMMA FetchesStep ==
  ASSUME TypeOK, RobHasRoom, SetInterlock, SetHome, OneCopy, VictimKept, ReadOnce, FetchOnce,
         FlushSweep, MarkHits, FlushAlone, Victims, Requests, Copies, Fetches, [Next]_vars
  PROVE  Fetches'
<1>0. \A i \in DOMAIN rob : rob[i].ty # "WRITEBACK" =>
        /\ \A x \in Lines : Holds(cache[SetOf[rob[i].l]][rob[i].way], x) =>
                              cache[SetOf[rob[i].l]][rob[i].way].w = Behind(x)
        /\ \A x \in Lines : rob[i].done /\ rob[i].l = x => rob[i].data = Behind(x)
  BY DEF Fetches, Replaced, Fetched, Backed
<1>1. SUFFICES ASSUME NEW i \in DOMAIN rob', rob'[i].ty # "WRITEBACK"
               PROVE  ReplacedNow(rob'[i]) /\ FetchedNow(rob'[i])
  BY DEF Fetches, Replaced, Fetched, Backed, ReplacedNow, FetchedNow, Holds
<1>2. CASE FlushSet
  <2>1. r_flush_req /\ UNCHANGED rob
    BY <1>2 DEF FlushSet, FlushSweep, InFlush
  <2> QED
    BY <1>1, <2>1, FlushRob
<1>3. CASE Miss
  <2>1. PICK e \in EntryType :
          /\ e.ty = r.ty /\ ~e.done /\ e.l = r.l /\ e.way = n_replace
          /\ rob' = Append(rob, e) /\ UNCHANGED r_rob_head_ptr /\ Check
    BY <1>3, MissEntry
  <2>2. /\ DOMAIN rob' = DOMAIN rob \cup {Len(rob) + 1}
        /\ \A m \in DOMAIN rob : rob'[m] = rob[m]
        /\ rob'[Len(rob) + 1] = e
    BY <2>1, NewEntry
  <2>3. UNCHANGED cache /\ s \in Sets /\ n_replace \in Ways /\ s = SetOf[r.l]
    BY <1>3, <2>1, HitWay DEF Miss, s
  <2>4. Victim.d => Victim.v /\ Victim.l \in Lines /\ SetOf[Victim.l] = s
    BY <1>3, VictimLine
  <2>5. CASE i \in DOMAIN rob
    <3>1. rob'[i] = rob[i] /\ SetOf[rob[i].l] # s /\ rob[i].l \in Lines
          /\ SetOf[rob[i].l] \in Sets /\ rob[i].way \in Ways
      BY <2>1, <2>2, <2>5, RobEntries DEF SetInterlock, SetFree, s
    <3>2. \A x \in Lines : SetOf[x] # s => Behind(x)' = Behind(x)
      BY <1>3, <2>4, BehindMiss
    <3>3. \A x \in Lines : Holds(cache[SetOf[rob[i].l]][rob[i].way], x) => SetOf[x] # s
      BY <3>1, OnlyCopy
    <3> QED
      BY <1>0, <1>1, <2>3, <2>5, <3>1, <3>2, <3>3 DEF ReplacedNow, FetchedNow
  <2>6. CASE i = Len(rob) + 1
    <3>1. rob'[i] = e
      BY <2>2, <2>6
    <3>2. ASSUME NEW x \in Lines, Holds(cache[s][n_replace], x)
          PROVE  cache[s][n_replace].w = Behind(x)'
      <4>1. CASE Victim.d
        BY <1>3, <3>2, <4>1, BehindMiss DEF Victim, Holds
      <4>2. CASE ~Victim.d
        BY <1>3, <2>3, <3>2, <4>2, BehindMiss DEF Victim, Copies, Backed
      <4> QED
        BY <4>1, <4>2
    <3> QED
      BY <2>1, <2>3, <3>1, <3>2 DEF ReplacedNow, FetchedNow
  <2> QED
    BY <2>2, <2>5, <2>6
<1>4. ASSUME ~FlushSet, ~Miss
      PROVE  \A x \in Lines : Behind(x)' = Behind(x)
  BY <1>4, BehindKept
<1>5. CASE Fill
  <2>1. /\ i + 1 \in DOMAIN rob /\ i + 1 # 1 /\ rob'[i] = rob[i + 1]
        /\ 1 \in DOMAIN rob /\ Head(rob) = rob[1]
    BY <1>5, FillIs, PopEntries
  <2>2. SetOf[rob[i + 1].l] # SetOf[Head(rob).l]
    BY <2>1 DEF SetInterlock
  <2>3. \A x \in Lines : Behind(x)' = Behind(x)
    BY <1>4, <1>5 DEF Fill, Miss, FlushSet, Check
  <2>4. rob[i + 1].way \in Ways /\ SetOf[rob[i + 1].l] \in Sets
    BY <2>1, RobEntries
  <2>5. cache'[SetOf[rob[i + 1].l]][rob[i + 1].way] = cache[SetOf[rob[i + 1].l]][rob[i + 1].way]
    BY <1>5, <2>2, <2>4, FillIs
  <2>6. rob[i + 1].ty # "WRITEBACK"
    BY <1>1, <2>1
  <2>7. ReplacedNow(rob'[i])
    <3>1. \A x \in Lines : Holds(cache[SetOf[rob[i + 1].l]][rob[i + 1].way], x) =>
                            cache[SetOf[rob[i + 1].l]][rob[i + 1].way].w = Behind(x)
      BY <1>0, <2>1, <2>6
    <3> QED
      BY <2>1, <2>3, <2>5, <3>1 DEF ReplacedNow
  <2>8. FetchedNow(rob'[i])
    BY <1>0, <2>1, <2>3, <2>6 DEF FetchedNow
  <2> QED
    BY <2>7, <2>8
<1>6. CASE StoreHit \/ UpdatePte
  <2>1. UNCHANGED <<rob, wb, way1, outside>> /\ Check
    BY <1>6, Writes
  <2>2. \A x \in Lines : Behind(x)' = Behind(x)
    BY <2>1, StoredSame, BehindFrame
  <2>3. SetOf[rob[i].l] # s
    BY <1>1, <2>1 DEF SetInterlock, SetFree, s
  <2>4. rob[i].way \in Ways /\ SetOf[rob[i].l] \in Sets
    BY <1>1, <2>1, RobEntries
  <2>5. cache'[SetOf[rob[i].l]][rob[i].way] = cache[SetOf[rob[i].l]][rob[i].way]
    BY <1>6, <2>3, <2>4, Writes
  <2> QED
    BY <1>0, <1>1, <2>1, <2>2, <2>5 DEF ReplacedNow, FetchedNow
<1>7. CASE UNCHANGED cache /\ ~FlushSet /\ ~Miss
  <2>0. \A x \in Lines : Behind(x)' = Behind(x)
    BY <1>4, <1>7
  <2>1. CASE Same
    BY <1>0, <1>1, <1>7, <2>0, <2>1 DEF Same, ReplacedNow, FetchedNow
  <2>2. CASE Popped1
    <3>1. i + 1 \in DOMAIN rob /\ rob'[i] = rob[i + 1]
      BY <2>2, PopEntries
    <3> QED
      BY <1>0, <1>1, <1>7, <2>0, <3>1 DEF ReplacedNow, FetchedNow
  <2>3. CASE WriteBack
    <3>1. PICK e \in EntryType : e.ty = "WRITEBACK" /\ rob' = Append(rob, e)
                                 /\ UNCHANGED r_rob_head_ptr
      BY <2>3, WriteBackEntry
    <3>2. /\ DOMAIN rob' = DOMAIN rob \cup {Len(rob) + 1}
          /\ \A m \in DOMAIN rob : rob'[m] = rob[m]
          /\ rob'[Len(rob) + 1] = e
      BY <3>1, NewEntry
    <3>3. i \in DOMAIN rob /\ rob'[i] = rob[i]
      BY <1>1, <3>1, <3>2
    <3> QED
      BY <1>0, <1>1, <1>7, <2>0, <3>3 DEF ReplacedNow, FetchedNow
  <2>4. CASE MemRsp
    <3>1. i \in DOMAIN rob /\ AnsweredEntry(i)
      BY <1>1, <2>4, RspEntries
    <3>2. rob[i].ty # "WRITEBACK" /\ rob'[i].l = rob[i].l /\ rob'[i].way = rob[i].way
      BY <1>1, <3>1 DEF AnsweredEntry
    <3>3. ReplacedNow(rob'[i])
      BY <1>0, <1>7, <2>0, <3>1, <3>2 DEF ReplacedNow
    <3>4. CASE TagOf(i) = Head(mem_queue).t
      <4>1. rob'[i].data = Behind(rob[i].l)
        BY <2>4, <3>1, <3>2, <3>4, RspFetched DEF AnsweredEntry
      <4> QED
        BY <2>0, <3>2, <3>3, <4>1 DEF FetchedNow
    <3>5. CASE TagOf(i) # Head(mem_queue).t
      BY <1>0, <2>0, <3>1, <3>2, <3>3, <3>5 DEF AnsweredEntry, FetchedNow
    <3> QED
      BY <3>4, <3>5
  <2> QED
    BY <1>7, <2>1, <2>2, <2>3, <2>4, RobShapes
<1> QED
  BY <1>2, <1>3, <1>5, <1>6, <1>7, CacheFrame

-----------------------------------------------------------------------------
(* All together. *)
LEMMA MemoryInit == Init => LinesKept
<1> SUFFICES ASSUME Init PROVE LinesKept
  OBVIOUS
<1>1. rob = <<>> /\ DOMAIN rob = {} /\ mem_queue = <<>> /\ DOMAIN mem_queue = {}
      /\ r_mem_q = <<>> /\ DOMAIN r_mem_q = {} /\ Len(mem_queue) = 0
  BY DEF Init
<1>2. r_state = "IDLE" /\ ~r_mmu /\ r_mmu_mark = {} /\ ~way1.v /\ ~wb.need
      /\ ~r_need_l1d /\ ~r_need_l1i /\ ~r_flush_req
  BY DEF Init, Empty, NoWb
<1>3. MarkHits /\ Owners /\ Victims /\ Fetches
  BY <1>1, <1>2 DEF MarkHits, Owners, Victims, Fetches, Check, Init
<1>4. OneEach
  BY <1>1 DEF OneEach, Queued
<1>5. FlushAlone
  BY <1>2 DEF FlushAlone, Flushing, InFlush
<1>6. Requests
  BY <1>1, <1>2 DEF Requests, LastTag, StoresFirst, OneForOne, InFlush
<1>7. \A i \in Sets, k \in Ways : cache[i][k] = Empty
  BY DEF Init
<1>8. Copies
  BY <1>7 DEF Copies, Backed, Holds, Empty
<1> QED
  BY <1>3, <1>4, <1>5, <1>6, <1>8 DEF LinesKept

LEMMA MemoryStep ==
  ASSUME Inv, LinesKept, Inv', MarkHits', [Next]_vars
  PROVE  LinesKept'
<1>0. /\ TypeOK /\ ReadOnce /\ MarkOnce /\ FetchOnce /\ SetInterlock /\ RobHasRoom
      /\ SetHome /\ NotCached /\ OneCopy /\ VictimKept /\ FlushSweep
      /\ MarkHits /\ Owners /\ OneEach /\ Victims /\ FlushAlone /\ Requests
      /\ Copies /\ Fetches
  BY DEF Inv, LinesKept
<1>i. /\ TypeOK' /\ ReadOnce' /\ FetchOnce' /\ RobHasRoom' /\ FlushSweep'
  BY DEF Inv
<1>1. Owners'
  BY <1>0, OwnersStep
<1>2. OneEach'
  BY <1>0, <1>i, <1>1, OneEachStep
<1>3. Victims'
  BY <1>0, VictimsStep
<1>4. FlushAlone'
  BY <1>0, <1>i, <1>1, FlushAloneStep
<1>5. LastTag' /\ StoresFirst'
  BY <1>0, LastTagStep, StoresFirstStep DEF Requests
<1>6. IF InFlush' THEN OneMore' ELSE OneForOne'
  <2>1. CASE InFlush \/ StartFlush
    BY <1>0, <1>i, <1>3, <1>4, <1>5, <2>1, FlushingStep
  <2>2. CASE ~InFlush /\ ~StartFlush
    <3>1. ~InFlush'
      BY <2>2, Steps DEF FlushSet, FlushWay2, MemRspInFlush, InFlush
    <3> QED
      BY <1>0, <2>2, <3>1, OneForOneStep DEF Requests
  <2> QED
    BY <2>1, <2>2
<1>7. Copies'
  BY <1>0, CopiesStep
<1>8. Fetches'
  BY <1>0, FetchesStep
<1> QED
  BY <1>1, <1>2, <1>3, <1>4, <1>5, <1>6, <1>7, <1>8 DEF LinesKept, Requests

LEMMA MemoryInvariance == Spec /\ []MarkHits => []LinesKept
<1>1. Inv /\ LinesKept /\ Inv' /\ MarkHits' /\ [Next]_vars => LinesKept'
  BY MemoryStep
<1> QED
  BY MemoryInit, Invariance, <1>1, PTL DEF Spec

-----------------------------------------------------------------------------
(* Each answer of the memory is awaited by an entry of the ROB: the source *)
(* never stops for one of an entry done or gone (l2_2way.sv, r_rob_done).  *)
THEOREM AnswersAwaited == Spec /\ []MarkHits => []AnswersExpected
<1>1. Inv /\ LinesKept => AnswersExpected
  BY Expected DEF Inv, LinesKept
<1> QED
  BY Invariance, MemoryInvariance, <1>1, PTL

(* Nobody fetches from the memory what a victim has still to write there.  *)
THEOREM VictimAlone == Spec /\ []MarkHits => []VictimUnread
<1>1. Inv /\ LinesKept => VictimUnread
  BY Unread DEF Inv, LinesKept
<1> QED
  BY Invariance, MemoryInvariance, <1>1, PTL

-----------------------------------------------------------------------------
(* What the clients see of a line.                                         *)
ViewOk == \A x \in Lines :
  /\ \A k \in Ways : Holds(cache[SetOf[x]][k], x) => View(x) = cache[SetOf[x]][k].w
  /\ (\A k \in Ways : ~Holds(cache[SetOf[x]][k], x)) => View(x) = Behind(x)

LEMMA Views == Inv => ViewOk
<1> SUFFICES ASSUME Inv, NEW x \in Lines
             PROVE  /\ \A k \in Ways : Holds(cache[SetOf[x]][k], x) =>
                                         View(x) = cache[SetOf[x]][k].w
                    /\ (\A k \in Ways : ~Holds(cache[SetOf[x]][k], x)) => View(x) = Behind(x)
  BY DEF ViewOk
<1>1. CopiesOf(x) = {k \in Ways : Holds(cache[SetOf[x]][k], x)}
  BY DEF CopiesOf, Holds
<1>2. \A j, k \in CopiesOf(x) : j = k
  BY <1>1, OnlyCopy, L2Assumption DEF Inv
<1>3. ASSUME NEW k \in CopiesOf(x) PROVE (CHOOSE j \in CopiesOf(x) : TRUE) = k
  BY <1>2
<1> QED
  BY <1>1, <1>3 DEF View

LEMMA ViewsNext == Inv' => ViewOk'
  BY Views, PTL

(* It changes only when a store or a mark is answered. *)
LEMMA ViewStep ==
  ASSUME Inv, LinesKept, Inv', [Next]_vars, NEW x \in Lines
  PROVE  View(x)' = IF (StoreHit \/ UpdatePte) /\ x = r.l THEN NewWord ELSE View(x)
<1>0. /\ TypeOK /\ SetHome /\ NotCached /\ OneCopy /\ VictimKept /\ FlushAlone
      /\ Copies /\ Fetches /\ RobHasRoom
  BY DEF Inv, LinesKept
<1> DEFINE i == SetOf[x]
<1>1. /\ \A k \in Ways : Holds(cache[i][k], x) => View(x) = cache[i][k].w
      /\ (\A k \in Ways : ~Holds(cache[i][k], x)) => View(x) = Behind(x)
  BY Views DEF ViewOk
<1>2. /\ \A k \in Ways : Holds(cache'[i][k], x) => View(x)' = cache'[i][k].w
      /\ (\A k \in Ways : ~Holds(cache'[i][k], x)) => View(x)' = Behind(x)'
  BY ViewsNext DEF ViewOk, Holds
<1>3. i \in Sets
  BY L2Assumption
<1> HIDE DEF i
<1>4. CASE UNCHANGED cache /\ ~Miss /\ ~FlushSet /\ ~StoreHit /\ ~UpdatePte
  BY <1>0, <1>1, <1>2, <1>4, BehindKept
<1>5. CASE Miss
  <2>1. UNCHANGED cache /\ s \in Sets /\ n_replace \in Ways /\ ~StoreHit /\ ~UpdatePte
    BY <1>0, <1>5, HitWay DEF Miss, StoreHit, UpdatePte, LoadHit
  <2>2. ASSUME \A k \in Ways : ~Holds(cache[i][k], x) PROVE Behind(x)' = Behind(x)
    <3>1. Victim.d => x # Victim.l
      <4>1. Victim.d => Victim.v /\ SetOf[Victim.l] = s
        BY <1>0, <1>5, VictimLine
      <4> QED
        BY <2>1, <2>2, <4>1 DEF Holds, Victim, i
    <3> QED
      BY <1>0, <1>5, <3>1, BehindMiss
  <2> QED
    BY <1>1, <1>2, <2>1, <2>2
<1>6. CASE StoreHit \/ UpdatePte
  <2>1. /\ s \in Sets /\ way \in Ways /\ Holds(cache[s][way], r.l) /\ r.l \in Lines
        /\ \A j \in Sets, k \in Ways : j # s \/ k # way => cache'[j][k] = cache[j][k]
        /\ Holds(cache'[s][way], r.l) /\ cache'[s][way].w = NewWord
        /\ UNCHANGED <<wb, way1>> /\ UNCHANGED outside
    BY <1>0, <1>6, Writes DEF Holds
  <2>2. Behind(x)' = Behind(x)
    BY <2>1, StoredSame, BehindFrame
  <2>3. CASE x = r.l
    BY <1>2, <1>6, <2>1, <2>3 DEF s, i
  <2>4. CASE x # r.l
    <3>1. \A k \in Ways : Holds(cache'[i][k], x) <=> Holds(cache[i][k], x)
      BY <1>3, <2>1, <2>4 DEF Holds
    <3>2. \A k \in Ways : Holds(cache[i][k], x) => cache'[i][k] = cache[i][k]
      BY <1>3, <2>1, <2>4 DEF Holds
    <3> QED
      BY <1>1, <1>2, <2>2, <2>4, <3>1, <3>2
  <2> QED
    BY <2>3, <2>4
<1>7. CASE Fill
  <2> DEFINE e == Head(rob)
             j == SetOf[e.l]
             m == e.way
  <2>1. /\ j \in Sets /\ m \in Ways /\ e.l \in Lines /\ e.done /\ Popped1
        /\ \A n \in Sets, k \in Ways : n # j \/ k # m => cache'[n][k] = cache[n][k]
        /\ Holds(cache'[j][m], e.l) /\ cache'[j][m].w = e.data
        /\ e.ty # "WRITEBACK"
    BY <1>0, <1>7, FillIs DEF Holds
  <2>2. Backed(cache[j][m]) /\ Fetched(e)
    <3>1. 1 \in DOMAIN rob /\ e = rob[1]
      BY <1>0, <2>1, PopEntries
    <3> QED
      BY <1>0, <2>1, <3>1 DEF Fetches, Replaced
  <2>3. \A k \in Ways : ~Holds(cache[j][k], e.l)
    BY <1>0, <1>7, Filled DEF Cached, Holds
  <2>4. ~StoreHit /\ ~UpdatePte /\ Behind(x)' = Behind(x)
    BY <1>0, <1>7, BehindKept DEF Fill, Miss, FlushSet, StoreHit, UpdatePte, LoadHit, Check
  <2>5. CASE x = e.l
    <3>1. View(x)' = e.data
      BY <1>2, <2>1, <2>5 DEF i
    <3>2. View(x) = Behind(x)
      BY <1>1, <2>3, <2>5 DEF i
    <3>3. e.data = Behind(x)
      BY <2>1, <2>2, <2>5 DEF Fetched
    <3> QED
      BY <2>4, <3>1, <3>2, <3>3
  <2>6. CASE x # e.l
    <3> HIDE DEF e, j, m
    <3>1. \A k \in Ways : i # j \/ k # m => cache'[i][k] = cache[i][k]
      BY <1>3, <2>1
    <3>2. i = j => ~Holds(cache'[i][m], x)
      BY <2>1, <2>6 DEF Holds
    <3>3. CASE i = j /\ Holds(cache[i][m], x)
      <4>1. View(x) = Behind(x)
        BY <1>1, <2>1, <2>2, <3>3 DEF Backed
      <4>2. \A k \in Ways : ~Holds(cache'[i][k], x)
        BY <1>0, <1>3, <2>1, <3>1, <3>2, <3>3, OnlyCopy
      <4> QED
        BY <1>2, <2>4, <4>1, <4>2
    <3>4. CASE ~(i = j /\ Holds(cache[i][m], x))
      <4>1. \A k \in Ways : Holds(cache'[i][k], x) <=> Holds(cache[i][k], x)
        BY <2>1, <3>1, <3>2, <3>4
      <4>2. \A k \in Ways : Holds(cache[i][k], x) => cache'[i][k] = cache[i][k]
        BY <2>1, <3>1, <3>4
      <4> QED
        BY <1>1, <1>2, <2>4, <4>1, <4>2
    <3> QED
      BY <3>3, <3>4
  <2> QED
    BY <2>5, <2>6
<1>8. CASE FlushSet
  <2>1. Clean /\ ~StoreHit /\ ~UpdatePte
    BY <1>8 DEF FlushSet, StoreHit, UpdatePte, LoadHit, Check
  <2>2. r_idx \in Sets
    BY <1>0, <2>1, CleanIs
  <2>3. \A k \in Ways : Holds(cache'[i][k], x) =>
          Holds(cache[i][k], x) /\ cache'[i][k].w = cache[i][k].w
    BY <1>0, <1>3, <2>1, CleanIs DEF Holds
  <2>4. CASE \E k \in Ways : Holds(cache'[i][k], x)
    BY <1>1, <1>2, <2>1, <2>3, <2>4
  <2>5. CASE (\A k \in Ways : ~Holds(cache'[i][k], x)) /\ (\E k \in Ways : Holds(cache[i][k], x))
    <3>1. PICK k \in Ways : Holds(cache[i][k], x)
      BY <2>5
    <3>2. i = r_idx
      BY <1>0, <1>3, <2>1, <2>5, <3>1, CleanIs
    <3>3. CASE cache[i][k].d
      <4>1. Behind(x)' = cache[i][k].w
        BY <1>0, <1>8, <3>1, <3>2, <3>3, BehindFlush DEF Dirty, Holds
      <4> QED
        BY <1>1, <1>2, <2>1, <2>5, <3>1, <4>1
    <3>4. CASE ~cache[i][k].d
      <4>1. \A n \in Ways : Dirty(n) => cache[r_idx][n].l # x
        BY <1>0, <2>2, <3>1, <3>2, <3>4, OnlyCopy DEF Dirty, Holds
      <4>2. Behind(x)' = Behind(x)
        BY <1>0, <1>8, <4>1, BehindFlush
      <4>3. cache[i][k].w = Behind(x)
        BY <1>0, <1>3, <3>1, <3>4 DEF Copies, Backed
      <4> QED
        BY <1>1, <1>2, <2>1, <2>5, <3>1, <4>2, <4>3
    <3> QED
      BY <3>3, <3>4
  <2>6. CASE (\A k \in Ways : ~Holds(cache'[i][k], x)) /\ (\A k \in Ways : ~Holds(cache[i][k], x))
    <3>1. \A n \in Ways : Dirty(n) => cache[r_idx][n].l # x
      BY <1>0, <2>2, <2>6, OnlyCopy DEF Dirty, Holds, i
    <3>2. Behind(x)' = Behind(x)
      BY <1>0, <1>8, <3>1, BehindFlush
    <3> QED
      BY <1>1, <1>2, <2>1, <2>6, <3>2
  <2> QED
    BY <2>4, <2>5, <2>6
<1> QED
  BY <1>4, <1>5, <1>6, <1>7, <1>8, CacheFrame

-----------------------------------------------------------------------------
(* What the L1D waits for, line by line.                                   *)
LEMMA PendingStay ==
  ASSUME Outstanding' = Outstanding, NEW x
  PROVE  Pending(x)' = Pending(x)
  BY DEF Pending, Asked

LEMMA One == \A q : AtMostOne({q}) = <<q>> /\ AtMostOne({}) = <<>>
  BY DEF AtMostOne

(* The oldest request for its line is answered. *)
LEMMA PendingAnswered ==
  ASSUME TypeOK, SetInterlock, OneEach, AnsweredOne, NEW x \in Lines
  PROVE  LET q == L1DReq(r.op, r.l, r.w) IN
         /\ x = r.l => /\ Pending(x) # <<>> /\ Head(Pending(x)) = q
                       /\ Pending(x)' = Tail(Pending(x))
         /\ x # r.l => Pending(x)' = Pending(x)
<1> DEFINE q == L1DReq(r.op, r.l, r.w)
<1>1. /\ Outstanding = Front \cup Queued /\ q \in QReq
      /\ \A p \in Outstanding :
           q.l = p.l => q = p \/ (q.op = "SW" /\ p.op = "LW" /\ p \in Queued)
      /\ q \notin InRob /\ q \notin Queued /\ q \in Outstanding
      /\ LookedUp = {q}
  <2>1. q \in LookedUp /\ q \in Front /\ LookedUp = {q}
    BY DEF AnsweredOne, Front
  <2> QED
    BY <2>1, Kinds
<1>2. q.op = r.op /\ q.l = r.l /\ q.op \in {"LW", "SW"}
  BY <1>1 DEF L1DReq, QReq
<1> HIDE DEF q
<1>3. Outstanding' = Outstanding \ {q}
  <2>1. Outstanding' = Front' \cup Queued'
    BY DEF Outstanding, Front
  <2>2. Outstanding = InRob \cup {q} \cup Queued
    BY <1>1 DEF Front
  <2>3. CASE Front' = InRob /\ UNCHANGED r_mem_q
    BY <1>1, <2>1, <2>2, <2>3 DEF Queued
  <2>4. CASE QPopped /\ Front' = InRob \cup {Head(r_mem_q)}
    <3>1. Queued = {Head(r_mem_q)} \cup Queued'
      BY <2>4, QueuePop
    <3> QED
      BY <1>1, <2>1, <2>2, <2>4, <3>1
  <2> QED
    BY <2>3, <2>4 DEF AnsweredOne
<1>4. \A op : Asked(op, x)' = Asked(op, x) \ {q}
  BY <1>3 DEF Asked
<1>5. CASE x # r.l
  <2>1. \A op : q \notin Asked(op, x)
    BY <1>2, <1>5 DEF Asked
  <2>2. Asked("SW", x)' = Asked("SW", x) /\ Asked("LW", x)' = Asked("LW", x)
    BY <1>4, <2>1
  <2> QED
    BY <1>5, <2>2 DEF Pending
<1>6. CASE x = r.l /\ q.op = "SW"
  <2>1. Asked("SW", x) = {q} /\ q \notin Asked("LW", x)
    BY <1>1, <1>2, <1>6 DEF Asked
  <2>2. Asked("SW", x)' = {} /\ Asked("LW", x)' = Asked("LW", x)
    BY <1>4, <2>1
  <2>3. \E p : Asked("LW", x) = {} \/ Asked("LW", x) = {p}
    <3>1. \A p, t \in Asked("LW", x) : p = t
      BY Kinds DEF Asked
    <3> QED
      BY <3>1
  <2>4. PICK S \in Seq(QReq) : S = AtMostOne(Asked("LW", x))
    <3>1. Asked("LW", x) \subseteq QReq
      BY Kinds DEF Asked
    <3>2. CASE Asked("LW", x) = {}
      BY <3>2, One, EmptySeq
    <3>3. CASE Asked("LW", x) # {}
      <4>1. PICK p \in QReq : Asked("LW", x) = {p}
        BY <2>3, <3>1, <3>3
      <4>2. <<p>> \in Seq(QReq)
        OBVIOUS
      <4> QED
        BY <4>1, <4>2, One
    <3> QED
      BY <3>2, <3>3
  <2>5. Pending(x) = <<q>> \o S /\ Pending(x)' = <<>> \o S
    BY <2>1, <2>2, <2>4, One DEF Pending
  <2>6. <<q>> \o S # <<>> /\ Head(<<q>> \o S) = q /\ Tail(<<q>> \o S) = S /\ <<>> \o S = S
    BY <1>1, <2>4
  <2> QED
    BY <1>6, <2>5, <2>6 DEF q
<1>7. CASE x = r.l /\ q.op = "LW"
  <2>1. Asked("SW", x) = {} /\ Asked("LW", x) = {q}
    BY <1>1, <1>2, <1>7 DEF Asked
  <2>2. Asked("SW", x)' = {} /\ Asked("LW", x)' = {}
    BY <1>4, <2>1
  <2>3. Pending(x) = <<>> \o <<q>> /\ Pending(x)' = <<>> \o <<>>
    BY <2>1, <2>2, One DEF Pending
  <2>4. <<>> \o <<q>> = <<q>> /\ <<>> \o <<>> = <<>> /\ Tail(<<q>>) = <<>> /\ Head(<<q>>) = q
        /\ <<q>> # <<>>
    BY <1>1
  <2> QED
    BY <1>7, <2>3, <2>4 DEF q
<1> QED
  BY <1>2, <1>5, <1>6, <1>7 DEF q

(* A new request is the youngest for its line. *)
LEMMA PendingNew ==
  ASSUME TypeOK, SetInterlock, OneEach, NEW op \in {"LW", "SW"}, NEW l \in Lines,
         NEW w \in Data, New(op, l, w), NEW x \in Lines
  PROVE  LET q == L1DReq(op, l, w) IN
         /\ x = l => /\ Pending(x)' = Append(Pending(x), q)
                     /\ Len(Pending(x)') > Len(Pending(x))
         /\ x # l => Pending(x)' = Pending(x)
<1> DEFINE q == L1DReq(op, l, w)
<1>1. q \in QReq /\ r_mem_q' = Append(r_mem_q, q) /\ Front' = Front /\ q.op = op /\ q.l = l
  BY DEF New, L1DRequest, L1DReq
<1>2. Outstanding' = Outstanding \cup {q}
  <2>1. Queued' = Queued \cup {q}
    BY <1>1, QueueNew
  <2> QED
    BY <1>1, <2>1 DEF Outstanding, Front
<1>3. Asked("LW", l) = {} /\ (op = "SW" => Asked("SW", l) = {})
  BY DEF New, L1DRequest
<1> HIDE DEF q
<1>4. \A o : Asked(o, x)' = Asked(o, x) \cup (IF o = op /\ x = l THEN {q} ELSE {})
  BY <1>1, <1>2 DEF Asked
<1>5. CASE x # l
  <2>1. Asked("SW", x)' = Asked("SW", x) /\ Asked("LW", x)' = Asked("LW", x)
    BY <1>4, <1>5
  <2> QED
    BY <1>5, <2>1 DEF Pending
<1>6. CASE x = l /\ op = "SW"
  <2>1. Pending(x) = <<>> \o <<>> /\ Pending(x)' = <<q>> \o <<>>
    BY <1>3, <1>4, <1>6, One DEF Pending
  <2>2. <<>> \o <<>> = <<>> /\ <<q>> \o <<>> = <<q>> /\ Append(<<>>, q) = <<q>>
        /\ Len(<<q>>) > Len(<<>>)
    BY <1>1
  <2> QED
    BY <1>6, <2>1, <2>2 DEF q
<1>7. CASE x = l /\ op = "LW"
  <2>1. \E p : Asked("SW", x) = {} \/ Asked("SW", x) = {p}
    <3>1. \A p, t \in Asked("SW", x) : p = t
      BY Kinds DEF Asked
    <3> QED
      BY <3>1
  <2>2. PICK S \in Seq(QReq) : S = AtMostOne(Asked("SW", x))
    <3>1. Asked("SW", x) \subseteq QReq
      BY Kinds DEF Asked
    <3>2. CASE Asked("SW", x) = {}
      BY <3>2, One, EmptySeq
    <3>3. CASE Asked("SW", x) # {}
      <4>1. PICK p \in QReq : Asked("SW", x) = {p}
        BY <2>1, <3>1, <3>3
      <4>2. <<p>> \in Seq(QReq)
        OBVIOUS
      <4> QED
        BY <4>1, <4>2, One
    <3> QED
      BY <3>2, <3>3
  <2>3. Pending(x) = S \o <<>> /\ Pending(x)' = S \o <<q>>
    BY <1>3, <1>4, <1>7, <2>2, One DEF Pending
  <2>4. S \o <<>> = S /\ S \o <<q>> = Append(S, q) /\ Len(S \o <<q>>) > Len(S)
    <3>1. S \in Seq(QReq) /\ q \in QReq
      BY <1>1, <2>2
    <3> QED
      BY <3>1
  <2> QED
    BY <1>7, <2>3, <2>4 DEF q
<1> QED
  BY <1>5, <1>6, <1>7 DEF q

(* A hit reads what the line holds. *)
LEMMA HitView ==
  ASSUME Inv, LinesKept, Check, w_hit
  PROVE  View(r.l) = w_d /\ r.l \in Lines
<1>1. /\ s \in Sets /\ r.l \in Lines /\ way \in Ways
      /\ cache[s][way].v /\ cache[s][way].l = r.l
  BY HitWay DEF Inv
<1> QED
  BY <1>1, Views DEF ViewOk, Holds, w_d, s

-----------------------------------------------------------------------------
(* Each step is one of LineMemory.                                         *)
contents == [x \in Lines |-> View(x)]
pending == [x \in Lines |-> Pending(x)]
Seen == <<contents, pending>>

LEMMA SeenSame ==
  ASSUME \A x \in Lines : View(x)' = View(x), \A x \in Lines : Pending(x)' = Pending(x)
  PROVE  UNCHANGED Seen
  BY DEF Seen, contents, pending

LEMMA IsOver ==
  ASSUME NoAnswer, UNCHANGED <<l1i, mmu_req_addr, mem_mark>>, UNCHANGED Seen
  PROVE  LM!Over
  BY DEF LM!Over, NoAnswer, NoRsp, LM!NoRsp, Seen, contents, pending

LEMMA IsFetch ==
  ASSUME NEW l \in Lines, L1IRequest(l), UNCHANGED Seen
  PROVE  LM!Fetch
  BY DEF LM!Fetch, L1IRequest, NoAnswer, NoRsp, LM!NoRsp, Seen, contents, pending, walker

LEMMA IsRead ==
  ASSUME NEW l \in Lines, MmuRequest(l), UNCHANGED Seen
  PROVE  LM!Read
  BY DEF LM!Read, MmuRequest, WalkerIdle, NoAnswer, NoRsp, LM!NoRsp, Seen, contents,
     pending, l1

LEMMA IsSetBits ==
  ASSUME NEW l \in Lines, NEW bits \in (SUBSET Bits) \ {{}}, MemMark(l, bits),
         UNCHANGED Seen
  PROVE  LM!SetBits
  BY DEF LM!SetBits, MemMark, WalkerIdle, NoAnswer, NoRsp, LM!NoRsp, NoMark, LM!NoMark,
     Seen, contents, pending, l1

LEMMA IsSend ==
  ASSUME TypeOK, SetInterlock, OneEach, NEW op \in {"LW", "SW"}, NEW l \in Lines,
         NEW w \in Data, New(op, l, w), \A x \in Lines : View(x)' = View(x)
  PROVE  LM!Send
<1> DEFINE q == L1DReq(op, l, w)
<1>1. /\ q \in [op : {"LW", "SW"}, l : Lines, w : Data] /\ NoAnswer
      /\ UNCHANGED <<l1i, mmu_req_addr, mem_mark>>
  BY DEF New, L1DRequest, QReq, walker
<1>2. /\ pending'[l] = Append(pending[l], q) /\ Len(pending'[l]) > Len(pending[l])
      /\ \A x \in Lines : x # l => pending'[x] = pending[x]
  BY PendingNew DEF pending
<1>3. pending' = [pending EXCEPT ![l] = Append(@, q)]
  BY <1>2 DEF pending
<1>4. contents' = contents
  BY DEF contents
<1> HIDE DEF q
<1> QED
  BY <1>1, <1>2, <1>3, <1>4 DEF LM!Send, LM!Requests, LM!NoRsp, NoAnswer, NoRsp, contents,
     pending

LEMMA IsAnswerRead ==
  ASSUME Inv, LinesKept, AnswerMmu, UNCHANGED Seen
  PROVE  LM!AnswerRead
<1>1. Check /\ r.ty = "MMU" /\ r.l = mmu_req_addr /\ mmu_req_addr # NoLine
  BY L2Assumption
  DEF AnswerMmu, LoadHit, LinesKept, Owners, OfClient, Inv, ReadOnce, TypeOK, WalkerType
<1>2. View(r.l) = w_d /\ r.l \in Lines
  BY HitView DEF AnswerMmu, LoadHit
<1> QED
  BY <1>1, <1>2 DEF LM!AnswerRead, LM!Rsp, AnswerMmu, Answer, Seen, contents, pending, l1

LEMMA IsAnswerFetch ==
  ASSUME Inv, LinesKept, AnswerL1I, UNCHANGED Seen
  PROVE  LM!AnswerFetch
<1>1. Check /\ r.ty = "L1I" /\ r.l = l1i /\ l1i # NoLine
  BY DEF AnswerL1I, LoadHit, LinesKept, Owners, OfClient, Inv, FetchOnce
<1>2. View(r.l) = w_d /\ r.l \in Lines
  BY HitView DEF AnswerL1I, LoadHit
<1> QED
  BY <1>1, <1>2 DEF LM!AnswerFetch, LM!Rsp, AnswerL1I, Answer, Seen, contents, pending,
     walker

LEMMA IsAnswerMark ==
  ASSUME Inv, LinesKept, UpdatePte, \A x \in Lines : Pending(x)' = Pending(x),
         \A x \in Lines : View(x)' = IF x = r.l THEN w_d \cup r_mmu_mark ELSE View(x)
  PROVE  LM!AnswerMark
<1>1. Check /\ r.ty = "MARK_PTE" /\ r.l = mem_mark.l /\ r_mmu_mark = mem_mark.bits
  BY DEF UpdatePte, LoadHit, LinesKept, Owners, r_mark_pte
<1>2. View(r.l) = w_d /\ r.l \in Lines
  BY HitView DEF UpdatePte, LoadHit
<1>3. mem_mark # NoMark
  BY <1>1, <1>2, L2Assumption DEF NoMark
<1>4. contents' = [contents EXCEPT ![mem_mark.l] = @ \cup mem_mark.bits]
  BY <1>1, <1>2 DEF contents
<1>5. UNCHANGED pending
  BY DEF pending
<1> QED
  BY <1>1, <1>2, <1>3, <1>4, <1>5
  DEF LM!AnswerMark, LM!Rsp, LM!NoMark, NoMark, UpdatePte, Answer, contents, pending, l1

LEMMA IsAnswerLoad ==
  ASSUME Inv, LinesKept, AnsweredOne, AnswerL1D, \A x \in Lines : View(x)' = View(x)
  PROVE  LM!AnswerLoad
<1> DEFINE q == L1DReq(r.op, r.l, r.w)
<1>1. View(r.l) = w_d /\ r.l \in Lines /\ r.op = "LW"
  BY HitView DEF AnswerL1D, LoadHit
<1>2. TypeOK /\ SetInterlock /\ OneEach
  BY DEF Inv, LinesKept
<1>3. /\ pending[r.l] # <<>> /\ Head(pending[r.l]) = q /\ pending'[r.l] = Tail(pending[r.l])
      /\ \A x \in Lines : x # r.l => pending'[x] = pending[x]
  BY <1>1, <1>2, PendingAnswered DEF pending
<1>4. pending' = [pending EXCEPT ![r.l] = Tail(@)]
  BY <1>1, <1>3 DEF pending
<1>5. UNCHANGED contents /\ contents[r.l] = w_d
  BY <1>1 DEF contents
<1>6. q.op = "LW"
  BY <1>1 DEF L1DReq
<1>7. UNCHANGED <<l1i, mmu_req_addr, mem_mark>> /\ Answer("l1d", r.l, w_d)
  BY DEF AnswerL1D, walker
<1> HIDE DEF q
<1> QED
  BY <1>1, <1>3, <1>4, <1>5, <1>6, <1>7 DEF LM!AnswerLoad, LM!Rsp, Answer, contents, pending

LEMMA IsAnswerStore ==
  ASSUME Inv, LinesKept, AnsweredOne, StoreHit,
         \A x \in Lines : View(x)' = IF x = r.l THEN r.w ELSE View(x)
  PROVE  LM!AnswerStore
<1> DEFINE q == L1DReq(r.op, r.l, r.w)
<1>1. r.l \in Lines /\ r.op = "SW"
  BY HitView DEF StoreHit
<1>2. TypeOK /\ SetInterlock /\ OneEach
  BY DEF Inv, LinesKept
<1>3. /\ pending[r.l] # <<>> /\ Head(pending[r.l]) = q /\ pending'[r.l] = Tail(pending[r.l])
      /\ \A x \in Lines : x # r.l => pending'[x] = pending[x]
  BY <1>1, <1>2, PendingAnswered DEF pending
<1>4. pending' = [pending EXCEPT ![r.l] = Tail(@)]
  BY <1>1, <1>3 DEF pending
<1>5. contents' = [contents EXCEPT ![r.l] = r.w]
  BY <1>1 DEF contents
<1>6. q.op = "SW" /\ q.w = r.w
  BY <1>1 DEF L1DReq
<1>7. UNCHANGED <<l1i, mmu_req_addr, mem_mark>> /\ Answer("l1d", r.l, r.w)
  BY DEF StoreHit, walker, l1
<1> HIDE DEF q
<1> QED
  BY <1>1, <1>3, <1>4, <1>5, <1>6, <1>7 DEF LM!AnswerStore, LM!Rsp, Answer, contents, pending

LEMMA StepRefines ==
  ASSUME Inv, LinesKept, Inv', LinesKept', [Next]_vars
  PROVE  [LM!Next]_(LM!vars)
<1>0. /\ TypeOK /\ SetInterlock /\ RobHasRoom /\ Owners /\ OneEach /\ TypeOK' /\ Owners'
  BY DEF Inv, LinesKept
<1>1. \A x \in Lines :
        View(x)' = IF (StoreHit \/ UpdatePte) /\ x = r.l THEN NewWord ELSE View(x)
  BY ViewStep
<1>2. CASE AnswerL1D
  <2>1. AnsweredOne
    BY <1>0, <1>2, Moves
  <2>2. ~StoreHit /\ ~UpdatePte
    BY <1>2 DEF AnswerL1D, LoadHit, StoreHit, UpdatePte
  <2> QED
    BY <1>1, <1>2, <2>1, <2>2, IsAnswerLoad DEF LM!Next
<1>3. CASE StoreHit
  <2>1. AnsweredOne
    BY <1>0, <1>3, Moves
  <2>2. NewWord = r.w
    BY <1>3 DEF NewWord
  <2> QED
    BY <1>1, <1>3, <2>1, <2>2, IsAnswerStore DEF LM!Next
<1>4. ASSUME NEW op \in {"LW", "SW"}, NEW l \in Lines, NEW w \in Data, New(op, l, w)
      PROVE  LM!Next
  <2>1. ~StoreHit /\ ~UpdatePte
    BY <1>4 DEF New, L1DRequest, lookup, StoreHit, UpdatePte, LoadHit, Check, ToIdle
  <2> QED
    BY <1>0, <1>1, <1>4, <2>1, IsSend DEF LM!Next
<1>5. CASE ~AnswerL1D /\ ~StoreHit /\ (Stay \/ Taken)
  <2>1. Outstanding' = Outstanding
    <3>1. Outstanding = Front \cup Queued /\ Outstanding' = Front' \cup Queued'
      BY DEF Outstanding, Front
    <3>2. CASE Stay
      BY <3>1, <3>2 DEF Stay, Queued
    <3>3. CASE Taken
      BY <1>0, <3>1, <3>3, QueuePop DEF Taken
    <3> QED
      BY <1>5, <3>2, <3>3
  <2>2. \A x \in Lines : Pending(x)' = Pending(x)
    BY <2>1, PendingStay
  <2>3. CASE UpdatePte
    <3>1. NewWord = w_d \cup r_mmu_mark
      BY <1>5 DEF NewWord
    <3> QED
      BY <1>1, <2>2, <2>3, <3>1, IsAnswerMark DEF LM!Next
  <2>4. CASE ~UpdatePte
    <3>1. UNCHANGED Seen
      BY <1>1, <1>5, <2>2, <2>4, SeenSame
    <3>2. CASE AnswerMmu
      BY <3>1, <3>2, IsAnswerRead DEF LM!Next
    <3>3. CASE AnswerL1I
      BY <3>1, <3>3, IsAnswerFetch DEF LM!Next
    <3>4. CASE Engine /\ ~AnswerMmu /\ ~AnswerL1I
      <4>1. NoAnswer
        BY <1>5, <2>4, <3>4 DEF Engine, PopWriteback, Fill, WriteBack, TakeMark, TakeMmu,
           TakeL1I, TakeL1D, Miss, StartFlush, FlushSet, FlushWay2, MemRsp, MemRspInFlush,
           Perform
      <4> QED
        BY <2>4, <3>1, <3>4, <4>1, EngineFrame, IsOver DEF LM!Next
    <3>5. CASE L1Request
      <4>1. CASE \E l \in L1IReads : L1IRequest(l)
        BY <3>1, <4>1, IsFetch, L2Assumption DEF LM!Next
      <4>2. CASE ~ \E l \in L1IReads : L1IRequest(l)
        <5>1. NoAnswer /\ UNCHANGED <<l1i, mmu_req_addr, mem_mark>>
          BY <3>5, <4>2 DEF L1Request, L1DRequest, walker
        <5> QED
          BY <3>1, <5>1, IsOver DEF LM!Next
      <4> QED
        BY <4>1, <4>2
    <3>6. CASE WalkerRequests
      BY <3>1, <3>6, IsRead, IsSetBits DEF WalkerRequests, LM!Next
    <3>7. CASE Tick \/ ProbeAck \/ FlushRequests
      <4>1. NoAnswer /\ UNCHANGED <<l1i, mmu_req_addr, mem_mark>>
        BY <3>7 DEF Tick, ProbeAck, FlushRequests, RequestFlush, L1DFlushed, L1IFlushed, l1,
           walker
      <4> QED
        BY <3>1, <4>1, IsOver DEF LM!Next
    <3>8. CASE UNCHANGED vars
      BY <3>1, <3>8 DEF LM!vars, vars, Seen, contents, pending, l1, walker
    <3> QED
      BY <3>2, <3>3, <3>4, <3>5, <3>6, <3>7, <3>8 DEF Next
  <2> QED
    BY <2>3, <2>4
<1> QED
  BY <1>0, <1>2, <1>3, <1>4, <1>5, Moves DEF NewOne

LEMMA InitRefines ==
  ASSUME Init
  PROVE  LM!Init
<1>1. \A x \in Lines : View(x) \in Data
  <2>1. TypeOK
    BY InvInit DEF Inv
  <2>2. ASSUME NEW x \in Lines PROVE View(x) \in Data
    <3>1. CopiesOf(x) = {}
      BY L2Assumption DEF Init, CopiesOf, Empty
    <3>2. StoresOf(x) = {}
      BY DEF Init, StoresOf
    <3>3. View(x) = mem[x]
      BY <3>1, <3>2 DEF View, Behind, Stored, Init, Empty, NoWb
    <3> QED
      BY <2>1, <3>3 DEF TypeOK, MemoryType
  <2> QED
    BY <2>2
<1>2. \A x \in Lines : Pending(x) = <<>>
  <2>1. Outstanding = {}
    BY DEF Outstanding, InRob, LookedUp, Queued, Init, Check
  <2>2. \A op, x : Asked(op, x) = {}
    BY <2>1 DEF Asked
  <2>3. <<>> \o <<>> = <<>>
    OBVIOUS
  <2> QED
    BY <2>2, <2>3, One DEF Pending
<1> QED
  BY <1>1, <1>2 DEF LM!Init, Init, NoMark, LM!NoMark, NoRsp, LM!NoRsp, Data

(* The L2 is a memory of lines to the L1 caches and the page walker, in    *)
(* which every answer is that of the line at that moment: no word is lost  *)
(* to a victim, a write back, a fill or a flush, whatever comes in between *)
(* (all of l2_2way.sv), as long as marks hit.                              *)
THEOREM IsLineMemory == Spec /\ []MarkHits => Implements
<1>1. Init => LM!Init
  BY InitRefines
<1>2. Inv /\ LinesKept /\ Inv' /\ LinesKept' /\ [Next]_vars => [LM!Next]_(LM!vars)
  BY StepRefines
<1> QED
  BY <1>1, <1>2, Invariance, MemoryInvariance, PTL DEF Spec, Implements, LM!Spec
=============================================================================

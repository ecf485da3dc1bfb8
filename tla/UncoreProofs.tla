---------------------------- MODULE UncoreProofs ----------------------------
(***************************************************************************)
(* The L2 and the page walker together: every step of the two is a step of *)
(* the L2 with some client, so what is proved of the L2 holds here; and a  *)
(* dirty bit the core was told is set stays set, for any page tables and   *)
(* any traffic of the L1 caches, as long as marks hit.                     *)
(***************************************************************************)
EXTENDS Uncore, L2Memory

-----------------------------------------------------------------------------
(* The inductive invariant.                                                *)

(* No store of the L1D is to a page table entry or makes one.              *)
NoEntry(q) == q.op = "SW" => "V" \notin Contents0[q.l] /\ "V" \notin q.w
StoresData == \A q \in Outstanding : NoEntry(q)

(* Entries stay valid or not, and leaves or not; only A and D are set.     *)
Entries == \A l \in Lines : /\ "V" \in View(l) <=> "V" \in Contents0[l]
                            /\ "V" \in View(l) =>
                                 ("X" \in View(l) <=> "X" \in Contents0[l])

WalkStates == {"IDLE", "LOAD", "WAIT", "WALK_DONE", "MARK_ACCESS"}
AskType == [Clients -> VA \cup {NoVA}]
WalkType == [st : WalkStates, do : Clients, va : VA \cup {NoVA}, lvl : 0 .. 2, pte : Data]
MmuType ==
  /\ walk \in WalkType
  /\ ~At("IDLE") => walk.va \in VA
  /\ asked \in AskType /\ reqs \subseteq Clients
  /\ \A c \in reqs : asked[c] # NoVA
  /\ clean \subseteq VA /\ dirtied \subseteq VA

(* The walk is on the path of its page; while it waits the L2 reads the    *)
(* entry of its level; at its end it has read the leaf, and missed no      *)
(* dirty bit of a page the core was told is dirty.                         *)
OnPath == walk.lvl + 1 \in DOMAIN Path[walk.va]
AtLeaf == walk.lvl + 1 = Len(Path[walk.va]) /\ OnPath /\ "V" \in Contents0[PteLine]
Walking ==
  /\ At("LOAD") => OnPath \/ Path[walk.va] = <<>>
  /\ At("WAIT") => OnPath /\ mmu_req_addr = PteLine
  /\ At("WALK_DONE") => /\ AtLeaf /\ walk.pte \subseteq View(PteLine)
                        /\ walk.va \in dirtied => "D" \in walk.pte
  /\ At("MARK_ACCESS") => AtLeaf /\ mem_mark = [l |-> PteLine, bits |-> {BitToSet}]

DirtyPages ==
  /\ \A va \in dirtied : /\ Path[va] # <<>> /\ "V" \in Contents0[Leaf(va)]
                         /\ "D" \in View(Leaf(va))
  /\ clean \cap dirtied = {}

(* The client a walk will tell still waits, and asks for no other.         *)
Serving == \/ At("LOAD") \/ At("WAIT") \/ At("WALK_DONE")
           \/ At("MARK_ACCESS") /\ walk.do = "dirty"
Served == Serving => walk.do \notin reqs /\ asked[walk.do] # NoVA

WalkerInv == MmuType /\ Served /\ Walking /\ DirtyPages
UncoreInv == StoresData /\ Entries /\ WalkerInv

-----------------------------------------------------------------------------
(* Every step is a step of the L2.                                         *)
LEMMA PathIs ==
  ASSUME MmuType, walk.va \in VA
  PROVE  /\ Path[walk.va] \in Seq(Lines) /\ Len(Path[walk.va]) \in Nat
         /\ DOMAIN Path[walk.va] = 1 .. Len(Path[walk.va])
         /\ OnPath => PteLine \in Lines
         /\ OnPath => (walk.lvl + 1 < Len(Path[walk.va]) <=>
                         /\ "V" \in Contents0[PteLine] /\ "X" \notin Contents0[PteLine]
                         /\ walk.lvl # 2)
         /\ walk.lvl \in 0 .. 2
<1>1. Path[walk.va] \in Seq(Lines) /\ walk.lvl \in 0 .. 2
  BY UncoreAssumption DEF MmuType, WalkType
<1>2. /\ Len(Path[walk.va]) \in Nat /\ DOMAIN Path[walk.va] = 1 .. Len(Path[walk.va])
      /\ \A i \in DOMAIN Path[walk.va] : Path[walk.va][i] \in Lines
  BY <1>1, LenProperties, ElementOfSeq
<1>3. ASSUME OnPath
      PROVE  walk.lvl + 1 < Len(Path[walk.va]) <=> LeadsOn(Path[walk.va], walk.lvl + 1)
  BY <1>3, UncoreAssumption DEF OnPath
<1>4. walk.lvl + 1 < 3 <=> walk.lvl # 2
  BY <1>1
<1> QED
  BY <1>1, <1>2, <1>3, <1>4 DEF OnPath, PteLine, LeadsOn

LEMMA IsL2Step ==
  ASSUME MmuType, Walking, [UncoreNext]_allvars
  PROVE  [Next]_vars
<1>1. CASE L2Steps
  BY <1>1 DEF L2Steps, Next
<1>2. CASE WalkerReads
  <2>1. At("LOAD") /\ Path[walk.va] # <<>> /\ MmuRequest(PteLine)
    BY <1>2 DEF WalkerReads, Load
  <2>2. PteLine \in Lines
    <3>1. OnPath /\ walk.va \in VA
      BY <2>1 DEF Walking, MmuType, At
    <3> QED
      BY <3>1, PathIs
  <2> QED
    BY <2>1, <2>2 DEF Next, WalkerRequests
<1>3. CASE WalkerMarks
  <2>1. At("WALK_DONE") /\ MemMark(PteLine, {BitToSet})
    BY <1>3 DEF WalkerMarks, Done
  <2>2. PteLine \in Lines
    <3>1. OnPath /\ walk.va \in VA
      BY <2>1 DEF Walking, AtLeaf, MmuType, At
    <3> QED
      BY <3>1, PathIs
  <2>3. {BitToSet} \in (SUBSET Bits) \ {{}}
    BY UncoreAssumption DEF BitToSet
  <2> QED
    BY <2>1, <2>2, <2>3 DEF Next, WalkerRequests
<1>4. CASE WalkerEnds \/ WalkerFails \/ WalkerStarts
  BY <1>4 DEF WalkerEnds, WalkerFails, WalkerStarts, WalkerAlone, Next
<1>5. CASE FlushGoes
  BY <1>5, UncoreAssumption DEF FlushGoes, Next, FlushRequests
<1>6. CASE L1Asks
  BY <1>6 DEF L1Asks, Next
<1>7. CASE Translate
  BY <1>7 DEF Translate, WalkerAlone, Next
<1>8. CASE UNCHANGED allvars
  BY <1>8 DEF allvars
<1> QED
  BY <1>1, <1>2, <1>3, <1>4, <1>5, <1>6, <1>7, <1>8 DEF UncoreNext, Step

(* What a step does to the walker: it takes an answer, or sends a request, *)
(* or the L2 hears nothing of it.                                          *)
Unheard == /\ UNCHANGED <<mmu_req_addr, mem_mark>> /\ ~UpdatePte
           /\ \/ Done /\ ~NeedsMark
              \/ BadVa
              \/ \E c \in Clients : Start(c)
              \/ \E c \in Clients, va \in VA : Request(c, va)
              \/ UNCHANGED mmu_vars

LEMMA WalkerSteps ==
  ASSUME MmuType, [UncoreNext]_allvars
  PROVE  \/ AnswerMmu /\ Take(w_d)
         \/ UpdatePte /\ Marked
         \/ Load /\ MmuRequest(PteLine)
         \/ Done /\ NeedsMark /\ MemMark(PteLine, {BitToSet})
         \/ Unheard
<1>t. Tick => UNCHANGED <<mmu_req_addr, mem_mark>> /\ ~UpdatePte
  BY DEF Tick, walker, UpdatePte, NoAnswer, NoRsp, Answer
<1>1. CASE L2Steps
  <2>1. CASE AnswerMmu
    BY <1>1, <2>1 DEF L2Steps, WalkerSees, AnswerMmu, Answer
  <2>2. CASE UpdatePte
    BY <1>1, <2>2 DEF L2Steps, WalkerSees, UpdatePte, Answer
  <2>3. CASE Engine /\ ~AnswerMmu /\ ~UpdatePte
    <3>1. UNCHANGED <<mmu_req_addr, mem_mark>>
      BY <2>3, EngineFrame
    <3>2. rsp'.to \notin {"mmu", "mark"}
      <4>1. AnswerL1D \/ AnswerL1I \/ StoreHit \/ NoAnswer
        BY <2>3 DEF Engine, PopWriteback, Fill, WriteBack, TakeMark, TakeMmu, TakeL1I,
           TakeL1D, Miss, StartFlush, FlushSet, FlushWay2, MemRsp, MemRspInFlush, Perform
      <4> QED
        BY <4>1 DEF AnswerL1D, AnswerL1I, StoreHit, NoAnswer, NoRsp, Answer
    <3> QED
      BY <1>1, <2>3, <3>1, <3>2 DEF L2Steps, WalkerSees, Unheard
  <2>4. CASE ProbeAck
    <3>1. UNCHANGED <<mmu_req_addr, mem_mark>> /\ rsp'.to = "nobody" /\ ~UpdatePte
      BY <2>4 DEF ProbeAck, NoAnswer, NoRsp, UpdatePte, Answer
    <3> QED
      BY <1>1, <3>1 DEF L2Steps, WalkerSees, Unheard
  <2> QED
    BY <1>1, <2>1, <2>2, <2>3, <2>4 DEF L2Steps
<1>2. CASE WalkerReads \/ WalkerMarks
  BY <1>2 DEF WalkerReads, WalkerMarks
<1>3. CASE WalkerEnds \/ WalkerFails \/ WalkerStarts
  BY <1>t, <1>3 DEF WalkerEnds, WalkerFails, WalkerStarts, WalkerAlone, Unheard
<1>4. CASE FlushGoes
  <2>1. UNCHANGED <<mmu_req_addr, mem_mark>> /\ NoAnswer /\ UNCHANGED mmu_vars
    BY <1>4 DEF FlushGoes, RequestFlush, L1DFlushed, L1IFlushed, walker
  <2> QED
    BY <2>1 DEF Unheard, UpdatePte, NoAnswer, NoRsp, Answer
<1>5. CASE L1Asks
  <2>1. UNCHANGED <<mmu_req_addr, mem_mark>> /\ NoAnswer /\ UNCHANGED mmu_vars
    BY <1>5 DEF L1Asks, L1Request, L1DRequest, L1IRequest, walker
  <2> QED
    BY <2>1 DEF Unheard, UpdatePte, NoAnswer, NoRsp, Answer
<1>6. CASE Translate
  <2>1. Tick /\ \E c \in Clients, va \in VA : Request(c, va)
    BY <1>6, UncoreAssumption DEF Translate, WalkerAlone, Clients, MmuType
  <2> QED
    BY <1>t, <2>1 DEF Unheard
<1>7. CASE UNCHANGED allvars
  BY <1>7 DEF allvars, vars, walker, lookup, Unheard, UpdatePte, LoadHit, Check, ToIdle
<1> QED
  BY <1>1, <1>2, <1>3, <1>4, <1>5, <1>6, <1>7 DEF UncoreNext, Step

-----------------------------------------------------------------------------
(* Entries: no store of the L1D meets one, and marks only add A or D.      *)
LEMMA QueueGrows ==
  ASSUME TypeOK, [Next]_vars
  PROVE  \/ UNCHANGED r_mem_q \/ QPopped
         \/ \E q \in QReq : r_mem_q' = Append(r_mem_q, q) /\ NoEntry(q)
<1>1. CASE L1Request
  <2>1. CASE \E l \in L1DReads : L1DRequest("LW", l, {})
    <3>1. PICK l \in L1DReads : L1DRequest("LW", l, {})
      BY <2>1
    <3>2. L1DReq("LW", l, {}) \in QReq /\ NoEntry(L1DReq("LW", l, {}))
      BY L2Assumption DEF L1DReq, QReq, NoEntry, Data
    <3> QED
      BY <3>1, <3>2 DEF L1DRequest
  <2>2. CASE \E l \in L1DWrites, w \in StoreData : L1DRequest("SW", l, w)
    <3>1. PICK l \in L1DWrites, w \in StoreData : L1DRequest("SW", l, w)
      BY <2>2
    <3>2. L1DReq("SW", l, w) \in QReq /\ NoEntry(L1DReq("SW", l, w))
      BY L2Assumption, UncoreAssumption DEF L1DReq, QReq, NoEntry
    <3> QED
      BY <3>1, <3>2 DEF L1DRequest
  <2>3. CASE \E l \in L1IReads : L1IRequest(l)
    BY <2>3 DEF L1IRequest
  <2> QED
    BY <1>1, <2>1, <2>2, <2>3 DEF L1Request
<1>2. CASE Engine
  BY <1>2 DEF Engine, PopWriteback, Fill, WriteBack, TakeMark, TakeMmu, TakeL1I, TakeL1D,
     AnswerMmu, UpdatePte, AnswerL1D, AnswerL1I, StoreHit, Miss, StartFlush, FlushSet,
     FlushWay2, MemRsp, MemRspInFlush, l1, Onward, QPopped, Early, w_l1d_req, w_pick_l1d
<1>3. CASE Tick \/ ProbeAck \/ FlushRequests \/ WalkerRequests \/ UNCHANGED vars
  BY <1>3 DEF Tick, ProbeAck, FlushRequests, RequestFlush, L1DFlushed, L1IFlushed,
     WalkerRequests, MmuRequest, MemMark, vars, l1
<1> QED
  BY <1>1, <1>2, <1>3 DEF Next

LEMMA StoresDataStep ==
  ASSUME Inv, LinesKept, Inv', LinesKept', StoresData, [Next]_vars
  PROVE  StoresData'
<1>0. TypeOK /\ RobHasRoom /\ Owners /\ TypeOK' /\ Owners'
  BY DEF Inv, LinesKept
<1>1. Outstanding = Front \cup Queued /\ Outstanding' = Front' \cup Queued'
  BY DEF Outstanding, Front
<1>2. Front' \subseteq Front \cup Queued
  <2>1. QPopped => Head(r_mem_q) \in Queued
    BY <1>0, QueuePop
  <2>2. AnsweredOne => Front' \subseteq Front \cup Queued
    BY <2>1 DEF AnsweredOne, Front
  <2>3. Stay \/ Taken \/ NewOne => Front' \subseteq Front \cup Queued
    BY <2>1 DEF Stay, Taken, NewOne, New
  <2> QED
    BY <1>0, <2>2, <2>3, Moves
<1>3. \A q \in Queued' : q \in Queued \/ NoEntry(q)
  <2>1. CASE UNCHANGED r_mem_q
    BY <2>1 DEF Queued
  <2>2. CASE QPopped
    BY <1>0, <2>2, QueuePop
  <2>3. ASSUME NEW q \in QReq, r_mem_q' = Append(r_mem_q, q), NoEntry(q)
        PROVE  \A p \in Queued' : p \in Queued \/ NoEntry(p)
    BY <1>0, <2>3, QueueNew
  <2> QED
    BY <1>0, <2>1, <2>2, <2>3, QueueGrows
<1>4. \A q \in Outstanding' : q \in Outstanding \/ NoEntry(q)
  BY <1>1, <1>2, <1>3
<1> QED
  BY <1>4 DEF StoresData, NoEntry

Grows == \A x \in Lines : "V" \in Contents0[x] => View(x) \subseteq View(x)'

LEMMA EntriesStep ==
  ASSUME Inv, LinesKept, Inv', StoresData, Entries, [Next]_vars,
         UpdatePte => mem_mark.bits \subseteq {"A", "D"}
  PROVE  Entries' /\ Grows
<1>1. ASSUME NEW x \in Lines
      PROVE  View(x)' = IF (StoreHit \/ UpdatePte) /\ x = r.l THEN NewWord ELSE View(x)
  BY ViewStep
<1>2. ASSUME StoreHit PROVE "V" \notin Contents0[r.l] /\ "V" \notin NewWord
  <2>1. Check /\ r.op = "SW" /\ r.ty = "L1D"
    BY <1>2 DEF StoreHit, LinesKept, Owners
  <2>2. L1DReq(r.op, r.l, r.w) \in Outstanding
    <3>1. LookedUp = Looked
      BY LookedUpIs DEF Inv, LinesKept
    <3> QED
      BY <2>1, <3>1 DEF Outstanding, Looked
  <2>3. "V" \notin Contents0[r.l] /\ "V" \notin r.w
    BY <2>1, <2>2 DEF StoresData, NoEntry, L1DReq
  <2> QED
    BY <1>2, <2>3 DEF NewWord
<1>3. ASSUME UpdatePte
      PROVE  /\ ~StoreHit /\ View(r.l) \subseteq NewWord
             /\ NewWord \subseteq View(r.l) \cup {"A", "D"}
  <2>1. Check /\ w_hit /\ r.op = "LW" /\ r_mmu_mark # {}
    BY <1>3 DEF UpdatePte, LoadHit, r_mark_pte
  <2>2. View(r.l) = w_d /\ r_mmu_mark = mem_mark.bits
    BY <2>1, HitView DEF LinesKept, Owners
  <2>3. ~StoreHit
    BY <2>1 DEF StoreHit
  <2> QED
    BY <1>3, <2>2, <2>3 DEF NewWord
<1>4. ASSUME NEW x \in Lines
      PROVE  /\ "V" \in View(x)' <=> "V" \in Contents0[x]
             /\ "V" \in View(x)' => ("X" \in View(x)' <=> "X" \in Contents0[x])
             /\ "V" \in Contents0[x] => View(x) \subseteq View(x)'
  <2>1. /\ "V" \in View(x) <=> "V" \in Contents0[x]
        /\ "V" \in View(x) => ("X" \in View(x) <=> "X" \in Contents0[x])
    BY DEF Entries
  <2>2. CASE StoreHit /\ x = r.l
    <3>1. View(x)' = NewWord
      BY <1>1, <2>2
    <3> QED
      BY <1>2, <2>2, <3>1
  <2>3. CASE UpdatePte /\ x = r.l
    <3>1. View(x)' = NewWord
      BY <1>1, <2>3
    <3> QED
      BY <1>3, <2>1, <2>3, <3>1
  <2>4. CASE ~((StoreHit \/ UpdatePte) /\ x = r.l)
    <3>1. View(x)' = View(x)
      BY <1>1, <2>4
    <3> QED
      BY <2>1, <3>1
  <2> QED
    BY <2>2, <2>3, <2>4
<1> QED
  BY <1>4 DEF Entries, Grows

-----------------------------------------------------------------------------
(* The walker.                                                             *)

(* Telling a client: the page becomes clean only when a walk of the L1D    *)
(* found it so, dirty only when the core's walk ends, with the TLB cleared.*)
LEMMA TellIs ==
  ASSUME MmuType, walk.va \in VA, NEW fault \in BOOLEAN, NEW dirty \in BOOLEAN,
         Tell(fault, dirty)
  PROVE  /\ asked' \in AskType /\ clean' \subseteq VA /\ dirtied' \subseteq VA
         /\ \A c \in Clients : c # walk.do => asked'[c] = asked[c]
         /\ walk.do = "dirty" => clean' = {} /\ dirtied' = dirtied \cup {walk.va}
         /\ walk.do # "dirty" => /\ dirtied' = dirtied
                                 /\ clean' \subseteq clean \cup {walk.va}
                                 /\ fault \/ dirty => clean' \subseteq clean
<1>1. /\ walk.do \in Clients /\ asked \in AskType
      /\ clean \subseteq VA /\ dirtied \subseteq VA
  BY DEF MmuType, AskType, WalkType
<1>2. asked' = [asked EXCEPT ![walk.do] = NoVA]
  BY DEF Tell
<1>3. dirtied' = IF walk.do = "dirty" THEN dirtied \cup {walk.va} ELSE dirtied
  BY DEF Tell
<1>4. clean' = CASE walk.do = "l1d" /\ ~fault /\ ~dirty -> clean \cup {walk.va}
                 [] walk.do = "l1d" /\ ~fault /\ dirty  -> clean \ {walk.va}
                 [] walk.do = "dirty" -> {}
                 [] OTHER             -> clean
  BY DEF Tell
<1>5. walk.do = "dirty" => clean' = {}
  BY <1>4
<1>6. walk.do # "dirty" => /\ clean' \subseteq clean \cup {walk.va}
                           /\ fault \/ dirty => clean' \subseteq clean
  BY <1>1, <1>4 DEF Clients
<1> QED
  BY <1>1, <1>2, <1>3, <1>5, <1>6 DEF AskType

LEMMA TellDone ==
  ASSUME MmuType, walk.va \in VA, Tell(FALSE, "D" \in walk.pte)
  PROVE  /\ asked' \in AskType /\ clean' \subseteq VA /\ dirtied' \subseteq VA
         /\ \A c \in Clients : c # walk.do => asked'[c] = asked[c]
         /\ walk.do = "dirty" => clean' = {} /\ dirtied' = dirtied \cup {walk.va}
         /\ walk.do # "dirty" => /\ dirtied' = dirtied
                                 /\ clean' \subseteq clean \cup {walk.va}
                                 /\ "D" \in walk.pte => clean' \subseteq clean
<1>1. CASE "D" \in walk.pte
  <2>1. Tell(FALSE, TRUE)
    <3>1. ("D" \in walk.pte) = TRUE
      BY <1>1
    <3> QED
      BY <3>1, Zenon
  <2> QED
    BY <1>1, <2>1, TellIs
<1>2. CASE "D" \notin walk.pte
  <2>1. Tell(FALSE, FALSE)
    <3>1. ("D" \in walk.pte) = FALSE
      BY <1>2
    <3> QED
      BY <3>1, Zenon
  <2> QED
    BY <1>2, <2>1, TellIs
<1> QED
  BY <1>1, <1>2

(* Dirty bits stay where they are. *)
LEMMA DirtyStays ==
  ASSUME DirtyPages, Grows, dirtied \subseteq VA
  PROVE  \A va \in dirtied : "D" \in View(Leaf(va))'
<1> SUFFICES ASSUME NEW va \in dirtied PROVE "D" \in View(Leaf(va))'
  OBVIOUS
<1>1. Path[va] \in Seq(Lines) /\ Path[va] # <<>>
  BY UncoreAssumption DEF DirtyPages
<1>2. Len(Path[va]) \in DOMAIN Path[va]
  BY <1>1, EmptySeq, LenProperties
<1>3. Leaf(va) \in Lines
  BY <1>1, <1>2, ElementOfSeq DEF Leaf
<1>4. PICK x \in Lines : x = Leaf(va)
  BY <1>3
<1>5. "D" \in View(x) /\ "V" \in Contents0[x]
  BY <1>4 DEF DirtyPages
<1>6. "D" \in View(x)'
  BY <1>5 DEF Grows
<1> QED
  BY <1>4, <1>6

(* The walker as it was.                                                   *)
LEMMA Unmoved ==
  ASSUME WalkerInv, Grows, UNCHANGED <<walk, mmu_req_addr, mem_mark, dirtied>>
  PROVE  Walking'
<1>1. UNCHANGED <<PteLine, BitToSet, OnPath, AtLeaf>> /\ \A st : At(st)' = At(st)
  BY DEF PteLine, BitToSet, OnPath, AtLeaf, At
<1>2. ASSUME At("WALK_DONE") PROVE walk.pte \subseteq View(PteLine)'
  <2>1. AtLeaf /\ walk.va \in VA /\ walk.pte \subseteq View(PteLine)
    BY <1>2 DEF WalkerInv, MmuType, Walking, At
  <2>2. PICK x \in Lines : x = PteLine
    BY <2>1, PathIs DEF AtLeaf, WalkerInv
  <2>3. View(x) \subseteq View(x)'
    BY <2>1, <2>2 DEF Grows, AtLeaf
  <2>4. PteLine' = x
    BY <1>1, <2>2
  <2> QED
    BY <2>1, <2>2, <2>3, <2>4
<1> QED
  BY <1>1, <1>2 DEF WalkerInv, Walking

LEMMA Rests ==
  ASSUME walk' = Resting
  PROVE  Walking' /\ ~Serving' /\ At("IDLE")'
         /\ walk' \in WalkType
  BY DEF Resting, Walking, Serving, At, WalkType, WalkStates, Clients, Data

(* A walk that faults tells its client, except the core. *)
LEMMA Faults ==
  ASSUME WalkerInv, Grows, Fault, UNCHANGED reqs, walk.va \in VA, Serving
  PROVE  WalkerInv'
<1>0. MmuType /\ Served /\ Walking /\ DirtyPages /\ dirtied \subseteq VA
  BY DEF WalkerInv, MmuType
<1>d. \A va \in dirtied : "D" \in View(Leaf(va))'
  BY <1>0, DirtyStays
<1>1. walk' = Resting /\ walk.do \notin reqs
  BY <1>0 DEF Fault, Served
<1>2. CASE walk.do = "dirty"
  <2>1. UNCHANGED <<asked, clean, dirtied>>
    BY <1>2 DEF Fault, Silent
  <2>2. MmuType' /\ Walking' /\ Served'
    BY <1>0, <1>1, <2>1, Rests DEF MmuType, Served
  <2>3. DirtyPages'
    BY <1>0, <2>1, <1>d DEF DirtyPages
  <2> QED
    BY <2>2, <2>3 DEF WalkerInv
<1>3. CASE walk.do # "dirty"
  <2>1. Tell(TRUE, FALSE)
    BY <1>3 DEF Fault
  <2>2. /\ asked' \in AskType /\ clean' \subseteq VA /\ dirtied' = dirtied
        /\ \A c \in Clients : c # walk.do => asked'[c] = asked[c]
        /\ clean' \subseteq clean
    BY <1>0, <1>3, <2>1, TellIs
  <2>3. MmuType'
    BY <1>0, <1>1, <2>2, Rests DEF MmuType
  <2>4. Walking' /\ Served'
    BY <1>1, Rests DEF Served
  <2>5. DirtyPages'
    BY <1>0, <2>2, <1>d DEF DirtyPages
  <2> QED
    BY <2>3, <2>4, <2>5 DEF WalkerInv
<1> QED
  BY <1>2, <1>3

(* The L2 hears nothing: a request, a walk that starts or ends. *)
LEMMA UnheardStep ==
  ASSUME WalkerInv, Grows, Unheard
  PROVE  WalkerInv'
<1>0. MmuType /\ Served /\ Walking /\ DirtyPages /\ dirtied \subseteq VA
  BY DEF WalkerInv, MmuType
<1>d. \A va \in dirtied : "D" \in View(Leaf(va))'
  BY <1>0, DirtyStays
<1>1. CASE UNCHANGED mmu_vars
  <2>1. MmuType' /\ Served'
    BY <1>0, <1>1 DEF mmu_vars, MmuType, Served, Serving, At
  <2>2. Walking'
    BY <1>1, Unmoved DEF mmu_vars, Unheard
  <2>3. DirtyPages'
    BY <1>0, <1>1, <1>d DEF mmu_vars, DirtyPages
  <2> QED
    BY <2>1, <2>2, <2>3 DEF WalkerInv
<1>2. ASSUME NEW c \in Clients, NEW va \in VA, Request(c, va)
      PROVE  WalkerInv'
  <2>1. /\ asked[c] = NoVA /\ asked' = [asked EXCEPT ![c] = va]
        /\ reqs' = reqs \cup {c} /\ UNCHANGED <<walk, clean, dirtied>>
    BY <1>2 DEF Request
  <2>2. MmuType'
    BY <1>0, <2>1, UncoreAssumption DEF MmuType, AskType, At
  <2>3. Served'
    BY <1>0, <2>1, UncoreAssumption DEF Served, Serving, At, MmuType
  <2>4. Walking'
    BY <2>1, Unmoved DEF Unheard
  <2>5. DirtyPages'
    BY <1>0, <2>1, <1>d DEF DirtyPages
  <2> QED
    BY <2>2, <2>3, <2>4, <2>5 DEF WalkerInv
<1>3. ASSUME NEW c \in Clients, Start(c)
      PROVE  WalkerInv'
  <2>1. /\ At("IDLE") /\ c \in reqs /\ reqs' = reqs \ {c}
        /\ UNCHANGED <<asked, clean, dirtied>>
        /\ walk' = [st |-> "LOAD", do |-> c, va |-> asked[c], lvl |-> 0, pte |-> {}]
    BY <1>3 DEF Start, Silent
  <2>2. asked[c] \in VA
    BY <1>0, <2>1 DEF MmuType, AskType
  <2>3. MmuType'
    BY <1>0, <2>1, <2>2 DEF MmuType, At, WalkType, WalkStates, Data
  <2>4. Served'
    BY <1>0, <2>1, <2>2, UncoreAssumption DEF Served, Serving, At
  <2>5. Walking'
    <3>1. Path[asked[c]] \in Seq(Lines)
      BY <2>2, UncoreAssumption
    <3>2. 1 \in DOMAIN Path[asked[c]] \/ Path[asked[c]] = <<>>
      BY <3>1, EmptySeq, LenProperties
    <3> QED
      BY <2>1, <3>2 DEF Walking, At, OnPath
  <2>6. DirtyPages'
    BY <1>0, <2>1, <1>d DEF DirtyPages
  <2> QED
    BY <2>3, <2>4, <2>5, <2>6 DEF WalkerInv
<1>5. CASE BadVa
  BY <1>5, Faults DEF WalkerInv, BadVa, MmuType, At, Serving
<1>6. CASE Done /\ ~NeedsMark
  <2>1. /\ At("WALK_DONE") /\ UNCHANGED reqs /\ walk' = Resting /\ walk.va \in VA
        /\ Tell(FALSE, "D" \in walk.pte) /\ walk.do \notin reqs
    BY <1>0, <1>6 DEF Done, MmuType, At, Served, Serving
  <2>3. /\ asked' \in AskType /\ clean' \subseteq VA /\ dirtied' \subseteq VA
        /\ \A c \in Clients : c # walk.do => asked'[c] = asked[c]
        /\ walk.do = "dirty" => clean' = {} /\ dirtied' = dirtied \cup {walk.va}
        /\ walk.do # "dirty" => /\ dirtied' = dirtied
                                /\ clean' \subseteq clean \cup {walk.va}
                                /\ "D" \in walk.pte => clean' \subseteq clean
    BY <1>0, <2>1, TellDone
  <2>4. MmuType' /\ Walking' /\ Served'
    BY <1>0, <2>1, <2>3, Rests DEF MmuType, Served
  <2>5. DirtyPages'
    <3>1. CASE walk.do = "dirty"
      <4>1. "D" \in walk.pte
        BY <1>6, <3>1 DEF NeedsMark, BitToSet
      <4>2. AtLeaf /\ walk.pte \subseteq View(PteLine)
        BY <1>0, <2>1 DEF Walking
      <4>3. PICK x \in Lines : x = PteLine
        BY <1>0, <2>1, <4>2, PathIs DEF AtLeaf
      <4>4. x = Leaf(walk.va) /\ Path[walk.va] # <<>>
        BY <4>2, <4>3 DEF AtLeaf, PteLine, Leaf, OnPath
      <4>5. "D" \in View(x)' /\ "V" \in Contents0[x]
        BY <4>1, <4>2, <4>3 DEF Grows, AtLeaf
      <4>6. PICK va \in VA : va = walk.va
        BY <2>1
      <4>7. "D" \in View(Leaf(va))' /\ Path[va] # <<>> /\ "V" \in Contents0[Leaf(va)]
        BY <4>4, <4>5, <4>6
      <4> QED
        BY <1>0, <1>d, <2>3, <3>1, <4>6, <4>7 DEF DirtyPages
    <3>2. CASE walk.do # "dirty"
      <4>1. walk.va \in dirtied => "D" \in walk.pte
        BY <1>0, <2>1 DEF Walking
      <4> QED
        BY <1>0, <1>d, <2>3, <3>2, <4>1 DEF DirtyPages
    <3> QED
      BY <3>1, <3>2
  <2> QED
    BY <2>4, <2>5 DEF WalkerInv
<1> QED
  BY <1>1, <1>2, <1>3, <1>5, <1>6 DEF Unheard

(* The walk's end has the L2 set a bit. *)
LEMMA MarkingStep ==
  ASSUME WalkerInv, Grows, Done, NeedsMark, MemMark(PteLine, {BitToSet})
  PROVE  WalkerInv'
<1>0. MmuType /\ Served /\ Walking /\ DirtyPages /\ dirtied \subseteq VA
  BY DEF WalkerInv, MmuType
<1>d. \A va \in dirtied : "D" \in View(Leaf(va))'
  BY <1>0, DirtyStays
<1>1. /\ At("WALK_DONE") /\ UNCHANGED reqs /\ walk' = [walk EXCEPT !.st = "MARK_ACCESS"]
      /\ walk.va \in VA /\ walk.do \notin reqs /\ asked[walk.do] # NoVA /\ AtLeaf
      /\ mem_mark' = [l |-> PteLine, bits |-> {BitToSet}]
  BY <1>0 DEF Done, MmuType, At, Served, Serving, MemMark, Walking
<1>2. walk' \in WalkType
      /\ walk'.st = "MARK_ACCESS" /\ walk'.do = walk.do /\ walk'.va = walk.va
      /\ walk'.lvl = walk.lvl
  BY <1>0, <1>1 DEF MmuType, WalkType, WalkStates
<1>3. Walking'
  <2>1. UNCHANGED <<PteLine, BitToSet, OnPath, AtLeaf>>
    BY <1>2 DEF PteLine, BitToSet, OnPath, AtLeaf
  <2> QED
    BY <1>1, <1>2, <2>1 DEF Walking, At
<1>4. CASE walk.do = "dirty"
  <2>1. UNCHANGED <<asked, clean, dirtied>>
    BY <1>4 DEF Done, Silent
  <2>2. MmuType' /\ Served'
    BY <1>0, <1>1, <1>2, <2>1 DEF MmuType, At, Served, Serving
  <2>3. DirtyPages'
    BY <1>0, <1>d, <2>1 DEF DirtyPages
  <2> QED
    BY <1>3, <2>2, <2>3 DEF WalkerInv
<1>5. CASE walk.do # "dirty"
  <2>1. Tell(FALSE, "D" \in walk.pte)
    BY <1>5 DEF Done
  <2>2. /\ asked' \in AskType /\ clean' \subseteq VA
        /\ \A c \in Clients : c # walk.do => asked'[c] = asked[c]
        /\ dirtied' = dirtied /\ clean' \subseteq clean \cup {walk.va}
        /\ "D" \in walk.pte => clean' \subseteq clean
    BY <1>0, <1>1, <1>5, <2>1, TellDone
  <2>3. MmuType' /\ Served'
    BY <1>0, <1>1, <1>2, <1>5, <2>2 DEF MmuType, At, Served, Serving
  <2>4. walk.va \in dirtied => "D" \in walk.pte
    BY <1>0, <1>1 DEF Walking
  <2>5. DirtyPages'
    BY <1>0, <1>d, <2>2, <2>4 DEF DirtyPages
  <2> QED
    BY <1>3, <2>3, <2>5 DEF WalkerInv
<1> QED
  BY <1>4, <1>5

(* The L2 has set the bit, in the line that holds the entry. *)
LEMMA MarkedStep ==
  ASSUME Inv, LinesKept, Inv', [Next]_vars, WalkerInv, Grows, UpdatePte, Marked
  PROVE  WalkerInv'
<1>0. MmuType /\ Served /\ Walking /\ DirtyPages /\ dirtied \subseteq VA
  BY DEF WalkerInv, MmuType
<1>d. \A va \in dirtied : "D" \in View(Leaf(va))'
  BY <1>0, DirtyStays
<1>1. /\ At("MARK_ACCESS") /\ walk' = Resting /\ UNCHANGED reqs /\ walk.va \in VA
      /\ AtLeaf /\ mem_mark = [l |-> PteLine, bits |-> {BitToSet}]
  BY <1>0 DEF Marked, MmuType, At, Walking
<1>2. CASE walk.do = "dirty"
  <2>1. Tell(FALSE, TRUE) /\ walk.do \notin reqs
    BY <1>0, <1>1, <1>2 DEF Marked, Served, Serving
  <2>2. /\ asked' \in AskType /\ clean' = {} /\ dirtied' \subseteq VA
        /\ \A c \in Clients : c # walk.do => asked'[c] = asked[c]
        /\ dirtied' = dirtied \cup {walk.va}
    BY <1>0, <1>1, <1>2, <2>1, TellIs
  <2>3. MmuType' /\ Served' /\ Walking'
    BY <1>0, <1>1, <2>1, <2>2, Rests DEF MmuType, Served
  <2>4. PICK x \in Lines : x = PteLine
    BY <1>0, <1>1, PathIs DEF AtLeaf
  <2>5. x = Leaf(walk.va) /\ Path[walk.va] # <<>> /\ "V" \in Contents0[x]
    BY <1>1, <2>4 DEF AtLeaf, PteLine, Leaf, OnPath
  <2>6. r.l = x /\ r_mmu_mark = {"D"}
    <3>1. Check /\ r_mmu_mark # {}
      BY DEF UpdatePte, LoadHit, r_mark_pte
    <3>2. r.l = mem_mark.l /\ r_mmu_mark = mem_mark.bits
      BY <3>1 DEF LinesKept, Owners
    <3> QED
      BY <1>1, <1>2, <2>4, <3>2 DEF BitToSet
  <2>7. "D" \in View(x)'
    <3>1. ~StoreHit
      BY DEF UpdatePte, StoreHit, LoadHit
    <3>2. View(x)' = NewWord
      BY <2>6, ViewStep
    <3> QED
      BY <2>6, <3>1, <3>2 DEF NewWord
  <2>8. PICK va \in VA : va = walk.va
    BY <1>1
  <2>9. "D" \in View(Leaf(va))' /\ Path[va] # <<>> /\ "V" \in Contents0[Leaf(va)]
    BY <2>5, <2>7, <2>8
  <2>10. DirtyPages'
    BY <1>0, <1>d, <2>2, <2>8, <2>9 DEF DirtyPages
  <2> QED
    BY <2>3, <2>10 DEF WalkerInv
<1>3. CASE walk.do # "dirty"
  <2>1. UNCHANGED <<asked, clean, dirtied>>
    BY <1>3 DEF Marked, Silent
  <2>2. MmuType' /\ Served' /\ Walking'
    BY <1>0, <1>1, <2>1, Rests DEF MmuType, Served
  <2>3. DirtyPages'
    BY <1>0, <1>d, <2>1 DEF DirtyPages
  <2> QED
    BY <2>2, <2>3 DEF WalkerInv
<1> QED
  BY <1>2, <1>3

(* The walk asks for the entry of its level. *)
LEMMA LoadStep ==
  ASSUME WalkerInv, Grows, Load, MmuRequest(PteLine)
  PROVE  WalkerInv'
<1>0. MmuType /\ Served /\ Walking /\ DirtyPages /\ dirtied \subseteq VA
  BY DEF WalkerInv, MmuType
<1>d. \A va \in dirtied : "D" \in View(Leaf(va))'
  BY <1>0, DirtyStays
<1>1. /\ At("LOAD") /\ UNCHANGED <<reqs, asked, clean, dirtied>> /\ OnPath /\ walk.va \in VA
      /\ walk' = [walk EXCEPT !.st = "WAIT"] /\ mmu_req_addr' = PteLine
  BY <1>0 DEF Load, Silent, MmuRequest, Walking, MmuType, At
<1>2. walk' \in WalkType
      /\ walk'.st = "WAIT" /\ walk'.do = walk.do /\ walk'.va = walk.va
      /\ walk'.lvl = walk.lvl
  BY <1>0, <1>1 DEF MmuType, WalkType, WalkStates
<1>3. MmuType' /\ Served'
  BY <1>0, <1>1, <1>2 DEF MmuType, At, Served, Serving
<1>4. Walking'
  <2>1. UNCHANGED <<PteLine, OnPath>>
    BY <1>2 DEF PteLine, OnPath
  <2> QED
    BY <1>1, <1>2, <2>1 DEF Walking, At
<1>5. DirtyPages'
  BY <1>0, <1>d, <1>1 DEF DirtyPages
<1> QED
  BY <1>3, <1>4, <1>5 DEF WalkerInv

(* The entry arrives: the walk faults, goes on or is done. *)
LEMMA TakeStep ==
  ASSUME Inv, LinesKept, Inv', [Next]_vars, Entries, WalkerInv, Grows, AnswerMmu, Take(w_d)
  PROVE  WalkerInv'
<1>0. MmuType /\ Served /\ Walking /\ DirtyPages /\ dirtied \subseteq VA
  BY DEF WalkerInv, MmuType
<1>d. \A va \in dirtied : "D" \in View(Leaf(va))'
  BY <1>0, DirtyStays
<1>1. /\ At("WAIT") /\ UNCHANGED reqs /\ OnPath /\ walk.va \in VA /\ mmu_req_addr = PteLine
  BY <1>0 DEF Take, Walking, MmuType, At
<1>2. PICK x \in Lines : x = PteLine
  BY <1>0, <1>1, PathIs
<1>3. w_d = View(x) /\ w_d \in Data
  <2>1. Check /\ w_hit /\ r_mmu
    BY DEF AnswerMmu, LoadHit
  <2>2. r.l = mmu_req_addr
    BY <2>1 DEF LinesKept, Owners, OfClient
  <2> QED
    BY <1>1, <1>2, <2>1, <2>2, HitView, HitWay DEF Inv
<1>4. View(x) \subseteq View(x)' \/ "V" \notin Contents0[x]
  BY DEF Grows
<1>5. CASE "V" \notin w_d /\ Fault
  BY <1>1, <1>5, Faults DEF Serving
<1>6. CASE "V" \in w_d /\ Silent
                /\ walk' = [walk EXCEPT !.pte = w_d,
                     !.st  = IF "X" \in w_d \/ walk.lvl = 2 THEN "WALK_DONE" ELSE "LOAD",
                     !.lvl = IF "X" \in w_d \/ walk.lvl = 2 THEN @ ELSE @ + 1]
  <2>1. /\ "V" \in Contents0[x] /\ ("X" \in w_d <=> "X" \in Contents0[x])
    BY <1>3, <1>6 DEF Entries
  <2>2. /\ walk.lvl + 1 < Len(Path[walk.va]) <=> "X" \notin w_d /\ walk.lvl # 2
        /\ DOMAIN Path[walk.va] = 1 .. Len(Path[walk.va]) /\ Len(Path[walk.va]) \in Nat
        /\ walk.lvl \in 0 .. 2
    BY <1>0, <1>1, <1>2, <2>1, PathIs
  <2>3. UNCHANGED <<asked, clean, dirtied>>
    BY <1>6 DEF Silent
  <2>4. CASE "X" \in w_d \/ walk.lvl = 2
    <3>1. walk' = [walk EXCEPT !.pte = w_d, !.st = "WALK_DONE", !.lvl = walk.lvl]
      BY <1>6, <2>4
    <3>2. walk' \in WalkType
          /\ walk'.st = "WALK_DONE" /\ walk'.do = walk.do /\ walk'.va = walk.va
          /\ walk'.lvl = walk.lvl /\ walk'.pte = w_d
      BY <1>0, <1>3, <3>1 DEF MmuType, WalkType, WalkStates
    <3>3. MmuType' /\ Served'
      BY <1>0, <1>1, <2>3, <3>2 DEF MmuType, At, Served, Serving
    <3>4. PteLine' = x /\ OnPath'
      BY <1>1, <1>2, <3>2 DEF PteLine, OnPath
    <3>5. walk.lvl + 1 = Len(Path[walk.va])
      BY <1>1, <2>2, <2>4 DEF OnPath
    <3>6. AtLeaf'
      BY <2>1, <3>2, <3>4, <3>5 DEF AtLeaf
    <3>7. w_d \subseteq View(x)'
      BY <1>3, <1>4, <2>1
    <3>8. walk.va \in dirtied => "D" \in w_d
      <4>1. x = Leaf(walk.va)
        BY <1>2, <3>5 DEF Leaf, PteLine
      <4>2. PICK va \in VA : va = walk.va
        BY <1>1
      <4>3. x = Leaf(va)
        BY <4>1, <4>2
      <4> QED
        BY <1>0, <1>3, <4>2, <4>3 DEF DirtyPages
    <3>9. Walking'
      BY <2>3, <3>2, <3>4, <3>6, <3>7, <3>8 DEF Walking, At
    <3>10. DirtyPages'
      BY <1>0, <1>d, <2>3 DEF DirtyPages
    <3> QED
      BY <3>3, <3>9, <3>10 DEF WalkerInv
  <2>5. CASE ~("X" \in w_d \/ walk.lvl = 2)
    <3>1. walk' = [walk EXCEPT !.pte = w_d, !.st = "LOAD", !.lvl = walk.lvl + 1]
      BY <1>6, <2>5
    <3>2. walk' \in WalkType
          /\ walk'.st = "LOAD" /\ walk'.do = walk.do /\ walk'.va = walk.va
          /\ walk'.lvl = walk.lvl + 1
      <4>1. walk.lvl + 1 \in 0 .. 2
        BY <2>2, <2>5
      <4> QED
        BY <1>0, <1>3, <3>1, <4>1 DEF MmuType, WalkType, WalkStates
    <3>3. MmuType' /\ Served'
      BY <1>0, <1>1, <2>3, <3>2 DEF MmuType, At, Served, Serving
    <3>4. OnPath'
      BY <2>2, <2>5, <3>2 DEF OnPath
    <3>5. Walking'
      BY <3>2, <3>4 DEF Walking, At
    <3>6. DirtyPages'
      BY <1>0, <1>d, <2>3 DEF DirtyPages
    <3> QED
      BY <3>3, <3>5, <3>6 DEF WalkerInv
  <2> QED
    BY <2>4, <2>5
<1> QED
  BY <1>5, <1>6 DEF Take

-----------------------------------------------------------------------------
(* All together. *)
LEMMA UncoreInvInit ==
  ASSUME UncoreInit
  PROVE  UncoreInv
<1>1. Init /\ MmuInit
  BY DEF UncoreInit
<1>2. StoresData
  BY <1>1 DEF StoresData, Outstanding, InRob, LookedUp, Queued, Init, Check
<1>3. ASSUME NEW x \in Lines PROVE View(x) = Contents0[x]
  <2>1. CopiesOf(x) = {}
    BY <1>1, L2Assumption DEF Init, CopiesOf, Empty
  <2>2. StoresOf(x) = {}
    BY <1>1 DEF Init, StoresOf
  <2> QED
    BY <1>1, <2>1, <2>2 DEF View, Behind, Stored, Init, Empty, NoWb
<1>4. Entries
  BY <1>3 DEF Entries
<1>5. WalkerInv
  BY <1>1 DEF MmuInit, WalkerInv, MmuType, Walking, DirtyPages, Served, Serving, Resting,
     At, AskType, WalkType, WalkStates, Clients, Data
<1> QED
  BY <1>2, <1>4, <1>5 DEF UncoreInv

LEMMA UncoreStep ==
  ASSUME Inv, LinesKept, UncoreInv, Inv', LinesKept', [UncoreNext]_allvars
  PROVE  UncoreInv'
<1>0. StoresData /\ Entries /\ WalkerInv /\ MmuType /\ Walking
  BY DEF UncoreInv, WalkerInv
<1>1. [Next]_vars
  BY <1>0, IsL2Step
<1>2. StoresData'
  BY <1>0, <1>1, StoresDataStep
<1>3. UpdatePte => mem_mark.bits \subseteq {"A", "D"}
  <2>1. UpdatePte => Marked
    <3>1. UpdatePte => ~AnswerMmu /\ ~MmuRequest(PteLine) /\ ~MemMark(PteLine, {BitToSet})
      BY DEF UpdatePte, AnswerMmu, MmuRequest, MemMark, Answer, NoAnswer, NoRsp
    <3> QED
      BY <1>0, <3>1, WalkerSteps DEF Unheard
  <2> QED
    BY <1>0, <2>1 DEF Marked, Walking, BitToSet
<1>4. Entries' /\ Grows
  BY <1>0, <1>1, <1>3, EntriesStep
<1>5. WalkerInv'
  BY <1>0, <1>1, <1>4, WalkerSteps, TakeStep, MarkedStep, LoadStep, MarkingStep, UnheardStep
<1> QED
  BY <1>2, <1>4, <1>5 DEF UncoreInv

Safe == Inv /\ LinesKept /\ UncoreInv
LEMMA UncoreInvariance ==
  UncoreSpec /\ []MarkHits => Init /\ [][Next]_vars /\ []UncoreInv
<1>1. UncoreInit => Init /\ Safe
  BY InvInit, MemoryInit, UncoreInvInit DEF UncoreInit, Safe
<1>2. Safe /\ MarkHits' /\ [UncoreNext]_allvars => [Next]_vars /\ Safe'
  <2> SUFFICES ASSUME Safe, MarkHits', [UncoreNext]_allvars PROVE [Next]_vars /\ Safe'
    OBVIOUS
  <2>1. [Next]_vars
    BY IsL2Step DEF Safe, UncoreInv, WalkerInv
  <2>2. Inv'
    BY <2>1, InvStep DEF Safe
  <2>3. LinesKept'
    BY <2>1, <2>2, MemoryStep DEF Safe
  <2>4. UncoreInv'
    BY <2>2, <2>3, UncoreStep DEF Safe
  <2> QED
    BY <2>1, <2>2, <2>3, <2>4 DEF Safe
<1>3. Safe => UncoreInv
  BY DEF Safe
<1> QED
  BY <1>1, <1>2, <1>3, PTL DEF UncoreSpec

(* Wired together as in core_l1d_l1i.sv, the walker and the L1s drive the  *)
(* L2 only as its own specification allows: what is proved of the L2 is    *)
(* true of the system.                                                     *)
THEOREM UncoreIsL2 == UncoreSpec /\ []MarkHits => Spec
  BY UncoreInvariance, PTL DEF Spec

(* So in the system, too, nothing of a line is lost or torn: interlock,    *)
(* one copy, victim and answers are as they should be (l2_2way.sv), and    *)
(* the L1s and the walker see a memory of lines.                           *)
THEOREM UncoreSafe ==
  UncoreSpec /\ []MarkHits =>
    /\ [](TypeOK /\ SetInterlock /\ OneCopy /\ VictimKept)
    /\ [](AnswersExpected /\ VictimUnread)
    /\ Implements /\ FlushCleans
<1>1. Spec => [](TypeOK /\ SetInterlock /\ OneCopy /\ VictimKept)
  BY L2TypeCorrect, Interlocked, OneWayOnly, VictimSafe, PTL
<1>2. Spec /\ []MarkHits => [](AnswersExpected /\ VictimUnread)
  BY AnswersAwaited, VictimAlone, PTL
<1> QED
  BY <1>1, <1>2, UncoreIsL2, IsLineMemory, FlushComplete, PTL

(* The dirty bit of a page is never lost once the core was told it is set  *)
(* (UPDATE_PTE, w_updated_pte), whatever is evicted, flushed, stored or    *)
(* translated meanwhile, and the L1D is never told again that such a page  *)
(* is clean (page_walk_rsp.dirty): its stores do not trap for ever.        *)
THEOREM DirtyBitsKept == UncoreSpec /\ []MarkHits => []DirtyKept
<1>1. UncoreInv => DirtyKept
  BY DEF UncoreInv, WalkerInv, DirtyPages, DirtyKept
<1> QED
  BY <1>1, UncoreInvariance, PTL
=============================================================================

--------------------------------- MODULE L1I ---------------------------------
(***************************************************************************)
(* The front end (l1i_2way.sv): a two-way instruction cache read with the  *)
(* fetch address, its TLB, the state machine r_state, and the fetch queue  *)
(* that it fills along the predicted path.  One action per state and       *)
(* decision taken in it; the answers of the L2 and of the page walker are  *)
(* part of the step that takes them, and what the core does at the same    *)
(* clock comes right before or after.  Addresses count instructions and    *)
(* wrap.  Which way is replaced, which branches are predicted taken and    *)
(* what BTB and return stack predict may be anything; what they learn, the *)
(* counters and the permission bits are left out.                          *)
(***************************************************************************)
EXTENDS Integers, Sequences, FiniteSets

CONSTANTS
  LEN,         \* addresses
  NSETS,       \* sets of two ways
  PAGE,        \* instructions of a page
  NFQ,         \* entries of the fetch queue
  NTLB,        \* entries of the TLB
  Frame,       \* page table: the page's frame, or NoFrame
  NoFrame, NoLine, NoPC,
  Kind,        \* of the instruction at a physical address (predecode.sv)
  Target,      \* where it goes if it is a branch, jump or call
  PREDICTED,   \* what BTB and return stack may predict
  RESTARTS,    \* where the core may restart
  MaxWait      \* bound: cycles a fault waits for room

W        == 4                          \* instructions of a line
PC       == 0 .. LEN - 1
Sets     == 0 .. NSETS - 1
Ways     == 0 .. 1
Lines    == 0 .. (LEN \div W) - 1
Pages    == 0 .. (LEN \div PAGE) - 1
Add(pc, n) == (pc + n) % LEN
Idx(pc)  == (pc \div W) % NSETS        \* IDX_STOP-1:IDX_START
Off(pc)  == pc % W                     \* WORD_STOP-1:WORD_START
PageOf(pc) == pc \div PAGE
TagOf(l) == l \div NSETS

ASSUME L1IAssumption ==
  /\ NSETS \in Nat \ {0} /\ NFQ \in Nat \ {0} /\ NTLB \in Nat \ {0}
  /\ LEN \in Nat \ {0} /\ PAGE \in Nat \ {0}
  /\ LEN % PAGE = 0 /\ LEN % (NSETS * W) = 0 /\ PAGE % W = 0
  /\ Frame \in [Pages -> Pages \cup {NoFrame}]
  /\ Kind \in [PC -> {"op", "br", "j", "call", "ind", "ret"}] /\ Target \in [PC -> PC]
  /\ NoPC \notin PC /\ PREDICTED \subseteq PC /\ RESTARTS \subseteq PC

VARIABLES
  r_state,
  \* the next address to read, the one read, the one that missed
  r_pc, r_cache_pc, r_miss_pc,
  \* the set read, whether it was meant, whether it is to be ignored
  r_cache_idx, r_req, r_resteer_bubble,
  r_page_fault, r_mem_req_addr,
  fq,                        \* [pc, nxt, fault, line]: nxt as predicted, line as read
  cache, itlb,
  r_restart_req, r_flush_req, r_wb_no_inv,
  \* the core: what it waits for, where it restarts, whether the instruction
  \* that restarted will clear the TLB, whether it translates at all
  waits, restart_pc, clears, paging_active

addresses == <<r_pc, r_cache_pc, r_miss_pc, r_cache_idx, r_req, r_resteer_bubble>>
requests  == <<r_restart_req, r_flush_req, r_wb_no_inv>>
core      == <<waits, restart_pc, clears>>
vars == <<r_state, addresses, r_page_fault, r_mem_req_addr, fq, cache, itlb,
          requests, core, paging_active>>

-----------------------------------------------------------------------------
room == NFQ - Len(fq)                  \* fq_full .. fq_full4
In(s) == r_state = s

(* Translation by the TLB.  Clearing it between the read and its use is as *)
(* clearing it after the use.                                              *)
InFrame(pc) == (Frame[PageOf(pc)] * PAGE) + (pc % PAGE)
Phys(pc) == IF paging_active THEN InFrame(pc) ELSE pc
Unmapped(paging, pc) == paging /\ Frame[PageOf(pc)] = NoFrame
w_tlb_hit == ~paging_active \/ PageOf(r_cache_pc) \in itlb
w_line == Phys(r_cache_pc) \div W

(* The tags of the set read are compared, way 0 first. *)
Hits(k) == /\ cache[r_cache_idx][k] # NoLine
           /\ TagOf(cache[r_cache_idx][k]) = TagOf(w_line)
w_hit   == \E k \in Ways : Hits(k)
w_array == cache[r_cache_idx][IF Hits(0) THEN 0 ELSE 1]

(* The next lookup: an address and the set it reads.  A register that will *)
(* be written before it is read again is cleared.                          *)
Lookup(pc, set) == r_cache_pc' = pc /\ r_cache_idx' = set /\ r_req' = TRUE
ReadAgain == /\ Lookup(r_miss_pc, Idx(r_miss_pc))
             /\ r_miss_pc' = IF r_page_fault THEN r_miss_pc ELSE 0
ReadNext == Lookup(r_pc, Idx(r_pc)) /\ r_pc' = Add(r_pc, 1)
NoLookup == r_cache_pc' = 0 /\ r_cache_idx' = 0 /\ r_req' = FALSE

-----------------------------------------------------------------------------
(* Restarts and flushes *)

Restart(lookedUp) ==
  /\ r_restart_req /\ r_restart_req' = FALSE /\ waits' = "none"
  /\ r_state' = "ACTIVE" /\ r_pc' = restart_pc /\ fq' = <<>>
  /\ r_cache_pc' = lookedUp /\ r_cache_idx' = 0 /\ r_req' = FALSE
  /\ r_resteer_bubble' = FALSE /\ r_miss_pc' = 0 /\ restart_pc' = 0
  /\ UNCHANGED <<r_mem_req_addr, cache, itlb, r_flush_req, r_wb_no_inv, clears,
                 paging_active>>

FlushComplete == r_state' = "IDLE" /\ waits' = "off" /\ r_wb_no_inv' = FALSE

Flush_Early ==   \* Mutant: the sets are not cleared
  /\ r_flush_req /\ r_flush_req' = FALSE /\ fq' = <<>> /\ NoLookup
  /\ FlushComplete
  /\ r_pc' = 0 /\ r_resteer_bubble' = FALSE /\ r_miss_pc' = 0
  /\ UNCHANGED <<r_page_fault, r_mem_req_addr, cache, itlb, r_restart_req,
                 restart_pc, clears, paging_active>>
(* A write back without invalidation has nothing to do here.  The next     *)
(* address is not read before a restart sets it.                           *)
Flush ==
  /\ r_flush_req /\ r_flush_req' = FALSE /\ fq' = <<>> /\ NoLookup
  /\ \/ r_wb_no_inv /\ FlushComplete
     \/ /\ ~r_wb_no_inv /\ r_state' = "FLUSH_CACHE"
        /\ UNCHANGED <<waits, r_wb_no_inv>>
  /\ r_pc' = 0 /\ r_resteer_bubble' = FALSE /\ r_miss_pc' = 0
  /\ UNCHANGED <<r_page_fault, r_mem_req_addr, cache, itlb, r_restart_req,
                 restart_pc, clears, paging_active>>

(* INITIALIZE and INIT_PHT, which initialises the predictor entry by entry. *)
Initialize ==
  /\ In("INITIALIZE") /\ r_state' = "FLUSH_CACHE" /\ r_cache_idx' = 0
  /\ UNCHANGED <<r_pc, r_cache_pc, r_miss_pc, r_req, r_resteer_bubble, r_page_fault,
                 r_mem_req_addr, fq, cache, itlb, requests, core, paging_active>>

FlushSet ==
  /\ In("FLUSH_CACHE")
  /\ cache' = [cache EXCEPT ![r_cache_idx] = [k \in Ways |-> NoLine]]
  /\ \/ r_cache_idx = NSETS - 1 /\ FlushComplete
     \/ r_cache_idx < NSETS - 1 /\ UNCHANGED <<r_state, waits, r_wb_no_inv>>
  /\ r_cache_idx' = (r_cache_idx + 1) % NSETS
  /\ UNCHANGED <<r_pc, r_cache_pc, r_miss_pc, r_req, r_resteer_bubble, r_page_fault,
                 r_mem_req_addr, fq, itlb, r_restart_req, r_flush_req, restart_pc,
                 clears, paging_active>>

(* A fault that waits to be queued is forgotten, but not in IDLE. *)
RestartIdle == In("IDLE") /\ Restart(0) /\ UNCHANGED r_page_fault
RestartRunning_NotFull ==   \* Mutant: a full queue makes the restart wait, too
  /\ ~r_flush_req
  /\ \/ In("ACTIVE") /\ ~r_resteer_bubble /\ Restart(r_pc)
     \/ In("RELOAD_TURNAROUND") /\ Restart(0)
  /\ r_page_fault' = FALSE
RestartRunning ==
  /\ ~r_flush_req
  /\ \/ In("ACTIVE") /\ ~r_resteer_bubble /\ Restart(r_pc)
     \/ In("RELOAD_TURNAROUND") /\ Restart(0)
     \/ In("WAIT_FOR_NOT_FULL") /\ room = 0 /\ Restart(r_miss_pc)
  /\ r_page_fault' = FALSE
RestartZeroPage == In("ZERO_PAGE_TLB_MISS") /\ Restart(0) /\ r_page_fault' = FALSE
StartFlush ==
  /\ \/ In("ACTIVE") /\ ~r_resteer_bubble
     \/ In("RELOAD_TURNAROUND") \/ In("WAIT_FOR_NOT_FULL")
  /\ Flush

-----------------------------------------------------------------------------
(* ACTIVE: what was read in the last cycle is used. *)

Active == In("ACTIVE") /\ ~r_resteer_bubble /\ ~r_flush_req /\ ~r_restart_req
Fetching == Active /\ ~r_page_fault /\ r_req
unmoved == <<r_mem_req_addr, cache, itlb, requests, core, paging_active>>

(* The cycle after a jump, whose read is ignored; the one after a restart. *)
StartPath ==
  /\ In("ACTIVE") /\ ReadNext /\ r_resteer_bubble' = FALSE
  /\ r_resteer_bubble \/ (Active /\ ~r_page_fault /\ ~r_req)
  /\ UNCHANGED <<r_state, r_miss_pc, r_page_fault, fq, unmoved>>

(* A fault is queued as soon as there is room; addresses go on meanwhile,  *)
(* for MaxWait cycles at most.                                             *)
PageFault ==
  /\ Active /\ r_page_fault /\ ReadNext
  /\ \/ /\ room > 0 /\ r_page_fault' = FALSE /\ r_miss_pc' = 0
        /\ fq' = Append(fq, [pc |-> r_cache_pc, nxt |-> NoPC, fault |-> TRUE,
                             line |-> NoLine])
     \/ /\ room = 0 /\ (r_cache_pc - r_miss_pc) % LEN < MaxWait
        /\ UNCHANGED <<r_page_fault, r_miss_pc, fq>>
  /\ UNCHANGED <<r_state, r_resteer_bubble, unmoved>>

(* The address read is kept in r_miss_pc; r_pc stays. *)
Leave(s) ==
  /\ r_state' = s /\ r_miss_pc' = r_cache_pc /\ NoLookup
  /\ UNCHANGED <<r_pc, r_resteer_bubble, r_page_fault, fq, cache, itlb, requests, core,
                 paging_active>>
TlbMiss ==
  /\ Fetching /\ ~w_tlb_hit /\ UNCHANGED r_mem_req_addr
  /\ Leave(IF PageOf(r_cache_pc) = 0 THEN "ZERO_PAGE_TLB_MISS" ELSE "TLB_MISS")
CacheMiss ==
  /\ Fetching /\ w_tlb_hit /\ ~w_hit /\ r_mem_req_addr' = w_line
  /\ Leave("INJECT_RELOAD")
FetchHit == Fetching /\ w_tlb_hit /\ w_hit
QueueFull ==
  /\ FetchHit /\ room = 0 /\ UNCHANGED r_mem_req_addr
  /\ Leave("WAIT_FOR_NOT_FULL")

(* The instructions of the line from the address on; the first that is     *)
(* predicted taken, or, behind the line's last, the one after it.          *)
Rest      == 0 .. W - 1 - Off(r_cache_pc)
Word(i)   == w_array * W + Off(r_cache_pc) + i
Branches  == {i \in Rest : Kind[Word(i)] = "br"}
Taken(brs) == {i \in Rest : Kind[Word(i)] # "op" /\ (i \in Branches => i \in brs)}
Least(S)  == CHOOSE i \in S : \A j \in S : i \leq j
first_branch(brs) == Least(Taken(brs) \cup {W - Off(r_cache_pc)})

(* n instructions enter the queue, all but the last followed by the next.  *)
Push(n, last) ==
  fq' = fq \o [i \in 1 .. n |->
                 [pc |-> Add(r_cache_pc, i - 1), fault |-> FALSE, line |-> w_array,
                  nxt |-> IF i = n THEN last ELSE Add(r_cache_pc, i)]]

FarJump_Room(brs) ==   \* Mutant: room for the jump's prefix is enough
  LET n == first_branch(brs) IN
  /\ n \in Taken(brs) \ {0} /\ Kind[Word(n)] \in {"br", "j"} /\ room \geq n
(* A branch or jump that is not first is queued with what comes before it. *)
FarJump(brs) ==
  LET n == first_branch(brs) IN
  /\ n \in Taken(brs) \ {0} /\ Kind[Word(n)] \in {"br", "j"} /\ room > n
Jump(n, to) ==
  /\ Push(n + 1, to) /\ r_pc' = to /\ Lookup(r_pc, Idx(r_pc)) /\ r_resteer_bubble' = TRUE

PushJump(brs) ==
  /\ FarJump(brs)
  /\ Jump(first_branch(brs), Target[Word(first_branch(brs))])
PushFirst(brs) ==
  /\ 0 \in Taken(brs)
  /\ \E to \in IF Kind[Word(0)] \in {"ind", "ret"} THEN PREDICTED ELSE {Target[Word(0)]} :
       Jump(0, to)

straight_Over(brs) ==   \* Mutant: a jump that is not first goes with what precedes it
  LET f == first_branch(brs) IN
  IF room > f /\ f < W - Off(r_cache_pc) THEN f + 1 ELSE 1
(* As much of the straight part of the line as fits whole, or one. *)
straight(brs) == LET f == first_branch(brs) IN IF f \geq 2 /\ room \geq f THEN f ELSE 1

NextSet_Same(n) == Idx(r_pc)   \* Mutant: the set of the instruction right behind
(* Behind the end of the line it is the next set that is read.  r_pc is     *)
(* always the address behind r_cache_pc here.                              *)
NextSet(n) == IF \/ n = 4
                 \/ n = 3 /\ Off(r_cache_pc) # 0
                 \/ n = 2 /\ Off(r_cache_pc) = 2
              THEN (r_cache_idx + 1) % NSETS ELSE Idx(r_pc)
PushStraight(brs) ==
  LET n == straight(brs)
      to == Add(r_cache_pc, n) IN
  /\ ~FarJump(brs) /\ 0 \notin Taken(brs)
  /\ Push(n, to) /\ r_pc' = Add(to, 1) /\ Lookup(to, NextSet(n))
  /\ r_resteer_bubble' = FALSE
Deliver ==
  /\ FetchHit /\ room > 0
  /\ \E brs \in SUBSET Branches : PushJump(brs) \/ PushFirst(brs) \/ PushStraight(brs)
  /\ UNCHANGED <<r_state, r_miss_pc, r_page_fault, unmoved>>

-----------------------------------------------------------------------------
(* Waiting for the L2, for the walker, for room *)

Wait(s) == /\ r_state' = s /\ r_mem_req_addr' = 0
           /\ UNCHANGED <<r_pc, r_resteer_bubble, fq, requests, core, paging_active>>
unread == <<r_cache_pc, r_cache_idx, r_req, r_miss_pc>>

(* The line is filed under the address requested. *)
Fill(k) == cache' = [cache EXCEPT ![r_mem_req_addr % NSETS][k] = r_mem_req_addr]
Reloaded ==
  /\ In("INJECT_RELOAD") /\ \E k \in Ways : Fill(k)
  /\ Wait("RELOAD_TURNAROUND") /\ UNCHANGED <<unread, r_page_fault, itlb>>
TurnAround ==
  /\ In("RELOAD_TURNAROUND") /\ ~r_flush_req /\ ~r_restart_req /\ room > 0
  /\ Wait("ACTIVE") /\ ReadAgain /\ UNCHANGED <<r_page_fault, cache, itlb>>
NotFull ==
  /\ In("WAIT_FOR_NOT_FULL") /\ ~r_flush_req /\ room > 0
  /\ Wait("ACTIVE") /\ ReadAgain /\ UNCHANGED <<r_page_fault, cache, itlb>>

(* The walker's answer; the TLB's entries are replaced in turn, whatever   *)
(* they hold.                                                              *)
WalkEnds ==
  LET p == PageOf(r_miss_pc) IN
  /\ In("TLB_MISS") /\ r_page_fault' = (Frame[p] = NoFrame)
  /\ IF Frame[p] = NoFrame THEN itlb' = itlb
     ELSE \E gone \in SUBSET itlb :
            /\ Cardinality(gone) \leq 1 /\ itlb' = (itlb \ gone) \cup {p}
            /\ Cardinality(itlb') \leq NTLB
  /\ Wait("TLB_MISS_TURNAROUND") /\ UNCHANGED <<unread, cache>>
WalkTurnAround ==
  /\ In("TLB_MISS_TURNAROUND")
  /\ Wait("ACTIVE") /\ ReadAgain /\ UNCHANGED <<r_page_fault, cache, itlb>>
(* A walk of the zero page, where no program is, first waits for a restart *)
(* for as long as r_tlb_zero_cycles counts.                                *)
ZeroPageWalk ==
  /\ In("ZERO_PAGE_TLB_MISS") /\ ~r_restart_req
  /\ Wait("TLB_MISS") /\ UNCHANGED <<unread, r_page_fault, cache, itlb>>

-----------------------------------------------------------------------------
(* The core: takes one or two instructions a cycle, restarts, flushes.     *)

frontend == <<r_state, addresses, r_page_fault, r_mem_req_addr, cache, paging_active>>
Take ==
  /\ fq # <<>> /\ \E n \in 1 .. 2 : n \leq Len(fq) /\ fq' = SubSeq(fq, n + 1, Len(fq))
  /\ UNCHANGED <<frontend, itlb, requests, core>>
AskRestart ==
  /\ waits \in {"none", "off"} /\ waits' = "ack" /\ r_restart_req' = TRUE
  /\ restart_pc' \in RESTARTS /\ clears' \in {FALSE, paging_active}
  /\ UNCHANGED <<frontend, fq, itlb, r_flush_req, r_wb_no_inv>>
AskFlush ==
  /\ waits = "none" /\ waits' \in {"flush", "wb"}
  /\ r_flush_req' = TRUE /\ r_wb_no_inv' = (waits' = "wb")
  /\ UNCHANGED <<frontend, fq, itlb, r_restart_req, restart_pc, clears>>
ClearTlb ==
  /\ clears /\ clears' = FALSE /\ itlb' = {}
  /\ UNCHANGED <<frontend, fq, requests, waits, restart_pc>>

(* Reset; the core waits for the flush that initialisation ends with.      *)
Init ==
  /\ r_state = "INITIALIZE" /\ r_pc = 0 /\ r_cache_pc = 0 /\ r_miss_pc = 0
  /\ r_cache_idx = 0 /\ r_req = FALSE /\ r_resteer_bubble = FALSE
  /\ r_page_fault = FALSE /\ r_mem_req_addr = 0 /\ fq = <<>>
  /\ cache \in [Sets -> {[k \in Ways |-> NoLine]}] /\ itlb = {}
  /\ r_restart_req = FALSE /\ r_flush_req = FALSE /\ r_wb_no_inv = FALSE
  /\ waits = "flush" /\ restart_pc = 0 /\ clears = FALSE
  /\ paging_active \in BOOLEAN

Clock == \/ Initialize \/ FlushSet \/ RestartIdle \/ RestartRunning
         \/ RestartZeroPage \/ StartFlush \/ StartPath \/ PageFault
         \/ TlbMiss \/ CacheMiss \/ QueueFull \/ Deliver
         \/ TurnAround \/ NotFull \/ WalkTurnAround \/ ZeroPageWalk
Next == Clock \/ Reloaded \/ WalkEnds \/ Take \/ AskRestart \/ AskFlush \/ ClearTlb
Spec == Init /\ [][Next]_vars

(* The clock runs, the L2 and the walker answer (uncore_live). *)
FairSpec == Spec /\ WF_vars(Clock) /\ WF_vars(Reloaded) /\ WF_vars(WalkEnds)

-----------------------------------------------------------------------------
TypeOK ==
  /\ r_state \in {"INITIALIZE", "IDLE", "ACTIVE", "INJECT_RELOAD", "RELOAD_TURNAROUND",
                  "FLUSH_CACHE", "WAIT_FOR_NOT_FULL", "TLB_MISS", "TLB_MISS_TURNAROUND",
                  "ZERO_PAGE_TLB_MISS"}
  /\ {r_pc, r_cache_pc, r_miss_pc, restart_pc} \subseteq PC
  /\ r_cache_idx \in Sets /\ r_mem_req_addr \in Lines
  /\ {r_req, r_resteer_bubble, r_page_fault, r_restart_req, r_flush_req, r_wb_no_inv,
      clears, paging_active} \subseteq BOOLEAN
  /\ Len(fq) \leq NFQ
  /\ fq \in Seq([pc : PC, nxt : PC \cup {NoPC}, fault : BOOLEAN, line : Lines \cup {NoLine}])
  /\ cache \in [Sets -> [Ways -> Lines \cup {NoLine}]]
  /\ itlb \subseteq Pages /\ Cardinality(itlb) \leq NTLB
  /\ waits \in {"none", "ack", "flush", "wb", "off"}

(* A set is read by the address and filled by what it translates to, and   *)
(* only tags are compared.  So what a fetch can hit is this line: the one  *)
(* of the translation's tag in the set of the address.  It is the line the *)
(* address translates to where page and frame agree in the index bits,     *)
(* which nothing sees to ("mismatch in i cache va / pa", a $display).      *)
Fetched(paging, pc) ==
  LET a == IF paging THEN InFrame(pc) ELSE pc
  IN  (TagOf(a \div W) * NSETS) + Idx(pc)
Agrees(paging, pc) == paging => Idx(InFrame(pc)) = Idx(pc)

(* Every queued instruction was read from the line its address translates  *)
(* to where page and frame agree, and from the line of the same tag in     *)
(* another set where they do not; with the set the last push chose to read *)
(* (t_cache_idx), while lines come and go.                                 *)
ReadsItsLine == \A i \in DOMAIN fq : ~fq[i].fault =>
  /\ Agrees(paging_active, fq[i].pc) => fq[i].line = Phys(fq[i].pc) \div W
  /\ fq[i].line = Fetched(paging_active, fq[i].pc)

(* When a flush that invalidates is reported complete, no line is valid,   *)
(* although it was asked for while a line was on its way                   *)
(* (RELOAD_TURNAROUND, FLUSH_CACHE).                                       *)
FlushEmpties == [][waits = "flush" /\ waits' = "off" =>
                     \A i \in Sets, k \in Ways : cache'[i][k] = NoLine]_vars

(* The front end implements the contract of Fetch.                         *)
Queue == [i \in DOMAIN fq |-> [pc |-> fq[i].pc, nxt |-> fq[i].nxt, fault |-> fq[i].fault]]
Pos == IF r_state \in {"INITIALIZE", "FLUSH_CACHE", "IDLE"} THEN NoPC
       ELSE IF ~In("ACTIVE") \/ (r_page_fault /\ r_req) THEN r_miss_pc
       ELSE IF r_resteer_bubble \/ ~r_req THEN r_pc
       ELSE r_cache_pc
MayFollow(paging, pc) ==
  IF Unmapped(paging, pc) THEN {}
  ELSE LET a == (Fetched(paging, pc) * W) + Off(pc) IN
       UNION {IF Kind[a] \in {"op", "br"} THEN {Add(pc, 1)} ELSE {},
              IF Kind[a] \in {"br", "j", "call"} THEN {Target[a]} ELSE {},
              IF Kind[a] \in {"ind", "ret"} THEN PREDICTED ELSE {}}
Succ   == [paging \in BOOLEAN |-> [pc \in PC |-> MayFollow(paging, pc)]]
Faults == [paging \in BOOLEAN |-> {pc \in PC : Unmapped(paging, pc)}]
(* The fault of a path that a flush ended: RestartIdle does not clear it.  *)
Leftover == /\ r_page_fault
            /\ r_state \in {"FLUSH_CACHE", "IDLE"} \/ (In("ACTIVE") /\ ~r_req)
F == INSTANCE Fetch WITH fq <- Queue, pos <- Pos, target <- restart_pc,
                         leftover <- Leftover,
                         mode <- paging_active, Modes <- BOOLEAN
Implements == F!Spec

(* Restarts and flushes are answered, and a front end that was told where  *)
(* to go delivers, or reports a fault: no miss, walk, full queue, page     *)
(* fault or wait for the zero page holds it for ever.  Only where page and *)
(* frame do not agree may it miss for ever, and then a restart ends it.    *)
Serves == /\ waits \in {"ack", "flush", "wb"} ~> waits \in {"none", "off"}
          /\ waits = "none" ~> \/ fq # <<>> \/ waits # "none"
                               \/ Pos # NoPC /\ ~Unmapped(paging_active, Pos)
                                    /\ ~Agrees(paging_active, Pos)

-----------------------------------------------------------------------------
(* A fault is reported for the address that missed: "got page fault for    *)
(* address %x", r_miss_pc (TLB_MISS).                                      *)
FaultNamesItsMiss == [][\A i \in DOMAIN fq' \ DOMAIN fq :
                          fq'[i].fault => fq'[i].pc = r_miss_pc]_vars
=============================================================================

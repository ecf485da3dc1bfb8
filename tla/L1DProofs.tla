----------------------------- MODULE L1DProofs -----------------------------
(***************************************************************************)
(* Proofs about L1D: for every geometry, queue length, reorder buffer and  *)
(* program the cache's registers keep to their domains, none of the        *)
(* source's $stop checks trips, no request is dropped, a line that comes   *)
(* back overwrites no dirty set, and a completed flush leaves no set valid.*)
(* One invariant, IInv, carries all five.  A second one, DInv, says where  *)
(* a line is when it is not in the memory, and with it that a probe is     *)
(* answered when the memory has the line.  A third, SInv, says which       *)
(* stores and load-linkeds still wait; with it the memory is that of the   *)
(* stores written (CInv), port 2 reads what a load must see (Reads2), and  *)
(* the cache implements DataMemory.  The actions of the state machine are  *)
(* first abstracted to what their outputs can be (Controls); each part of  *)
(* an invariant is then proved once, of an edge with such outputs.         *)
(***************************************************************************)
EXTENDS L1D, SequenceTheorems, TLAPS

-----------------------------------------------------------------------------
(* What the state machine is about: a miss of port 1, a walk, a probe or   *)
(* the flush of the whole cache; and whether each port holds a request.    *)
Held     == r_state \in {"CLEAR_DIRTY", "INJECT_RELOAD", "HANDLE_RELOAD"}
Walking  == r_state \in {"TLB_RELOAD", "TLB_TURNAROUND"}
Probing  == r_state \in {"FLUSH_CL", "FLUSH_CL_WAIT"}
Sweeping == r_state \in {"FLUSH_CACHE", "FLUSH_CACHE_WAIT", "FLUSH_CACHE_LAST_WAIT"}
Busy1 == p1.got \/ Held
Busy2 == p2.got \/ r_pending_tlb_miss

(* The domains of the registers. *)
P1Type == [p : 0 .. N, got : BOOLEAN, retry : BOOLEAN, lw : BOOLEAN, idx : IDX,
           busy : BOOLEAN, out : Line1]
P2Type == [p : 0 .. N, got : BOOLEAN, nop : BOOLEAN, lw : BOOLEAN, idx : IDX,
           line : BOOLEAN, addr : BOOLEAN, fwd : BOOLEAN, pop : BOOLEAN,
           rd_retry : BOOLEAN, out : Line1]
Named(c) == c.v \/ c.d => c.l \in LINES
WriteBack == [l : LINES, w : [WORDS -> Value]]
Types ==
  /\ TypeOK /\ prog \in PROGRAMS
  /\ mq \in Seq(Pos) /\ eb \in Seq(WriteBack)
  /\ l2 \in Seq(Request) /\ l2q \in Seq(Request)
  /\ p1 \in P1Type /\ p2 \in P2Type
  /\ \A i \in IDX : Named(cache[i])
  /\ Named(p1.out)
  /\ r_pending_tlb_miss \in BOOLEAN /\ r_flush_req \in BOOLEAN
  /\ r_flush_cl_req \in BOOLEAN /\ r_flush_was_active \in BOOLEAN
  /\ r_lock_cache \in BOOLEAN /\ r_inhibit_write \in BOOLEAN

(* The core's side: what it retired was answered, it holds no more than its*)
(* reorder buffer, and a serializing operation is alone in it.             *)
Window ==
  /\ \A p \in Pos : base < p /\ p <= ret => p \in done
  /\ \A p \in done : p \in Pos /\ p <= sent
  /\ sent - ret <= NROB
  /\ \A p, q \in Pos : /\ ret < p /\ p <= sent /\ Kind(p) \in Serial
                       /\ ret < q /\ q <= sent
                       => q = p

(* A request that waits was sent and is not retired; one that must be      *)
(* answered is not answered.                                               *)
Awaited(p) == /\ p \in Pos /\ ret < p /\ p <= sent /\ p \notin done
              /\ Kind(p) \notin {"alu", "br", "fl"}
Queued(p) == /\ p \in Pos /\ base < p /\ p <= sent /\ Kind(p) \in {"ld", "st", "ll", "sc", "pf"}
             /\ Kind(p) \in {"ld", "ll", "sc"} => Awaited(p)
Places ==
  /\ req # 0 => Awaited(req)
  /\ Busy2 => Awaited(p2.p)
  /\ \A i \in DOMAIN mq : Queued(mq[i])
  /\ Busy1 => Queued(p1.p) /\ Kind(p1.p) # "pf"

(* Program order is port 1, then the queue, then port 2, then the request  *)
(* the core presents.                                                      *)
Ordered ==
  /\ \A i, j \in DOMAIN mq : i < j => mq[i] < mq[j]
  /\ \A i \in DOMAIN mq : /\ Busy1 => p1.p < mq[i]
                          /\ Busy2 => mq[i] < p2.p
                          /\ req # 0 => mq[i] < req
  /\ Busy1 /\ Busy2 => p1.p < p2.p
  /\ Busy1 /\ req # 0 => p1.p < req
  /\ Busy2 /\ req # 0 => p2.p < req

(* One request for each bit of r_rob_inflight, none for port 2.            *)
Slotted ==
  /\ \A i \in DOMAIN mq : Slot(mq[i]) \in r_rob_inflight
  /\ Busy1 => Slot(p1.p) \in r_rob_inflight
  /\ \A i, j \in DOMAIN mq : i # j => Slot(mq[i]) # Slot(mq[j])
  /\ Busy1 => \A i \in DOMAIN mq : Slot(mq[i]) # Slot(p1.p)
  /\ p2.got => Slot(p2.p) \notin r_rob_inflight
  /\ r_pending_tlb_miss => Slot(p2.p) \notin r_rob_inflight

(* Port 1 shows the current content of its request's set, and a request    *)
(* that missed keeps its set until its line is there.                      *)
Set1 == IdxOf(p1.p)
Port1Inv ==
  /\ p1.got => In("ACTIVE") /\ p1.idx = Set1 /\ p1.out = cache[p1.idx]
  /\ p1.lw => p1.got /\ Kind(p1.p) \in {"st", "sc"}
  /\ p1.got /\ IsStore(p1.p) => p1.lw
  /\ p1.got /\ ~p1.retry => \/ (~r_lock_cache /\ w_cache_port1_hit)
                            \/ (r_lock_cache /\ ~p1.out.v)
  /\ r_lock_cache => In("CLEAR_DIRTY") \/ (p1.got /\ ~p1.retry)
  /\ Held => r_miss_idx = Set1
  /\ In("CLEAR_DIRTY") => r_lock_cache /\ ~cache[Set1].v
  /\ In("INJECT_RELOAD") => ~r_inhibit_write /\ ~(cache[Set1].v /\ cache[Set1].d)
  /\ In("HANDLE_RELOAD") => cache[Set1].v /\ cache[Set1].l = Line(p1.p)

(* What port 2 learned a cycle ago is still so: a queued request of its set*)
(* was seen, and a set that became dirty since was written by port 1.      *)
Port2Inv ==
  /\ p2.got => /\ r_state \in {"ACTIVE", "INJECT_RELOAD", "HANDLE_RELOAD", "FLUSH_CL_WAIT"}
               /\ p2.idx = VIdx(p2.p)
               /\ Held => p2.idx # r_miss_idx
               /\ p1.got => p1.lw
               /\ p2.line \/ p2.fwd \/ (\A i \in DOMAIN mq : Low[VIdx(mq[i])] # Low[p2.idx])
               /\ cache[p2.idx].v /\ cache[p2.idx].d =>
                    (p2.out.v /\ p2.out.d) \/ rr = p2.idx
  /\ Busy2 => Len(mq) < MRQ
  /\ Walking => r_pending_tlb_miss
  /\ (Probing /\ ~r_flush_was_active) => r_pending_tlb_miss /\ ~p2.got

(* Requests to the L2: each is a write back, the miss of port 1, or an     *)
(* early fetch.  The j-th entry of the queue owns the early fetch with its *)
(* tag, and nothing between it and its line touches its set, which is      *)
(* therefore not dirty when the line comes (Apart).                        *)
Tag(j) == (r_mq_head_ptr + j - 1) % MRQ
Apart(j) == LET s == IdxOf(mq[j]) IN
  /\ VIdx(mq[j]) = s
  /\ ~(cache[s].v /\ cache[s].d)
  /\ \A k \in 1 .. j - 1 : Low[VIdx(mq[k])] # Low[s]
  /\ Busy1 => Set1 # s
Expected(r) ==
  \/ r.t = FetchTag /\ In("INJECT_RELOAD") /\ r.l = Line(p1.p)
  \/ (r.t \in r_mq_inflight \/ In("FLUSH_CL_WAIT")) /\ \E j \in DOMAIN mq : r.t = Tag(j) /\ r.l = Line(mq[j]) /\ Apart(j)
Known(r) == IF r.wb THEN r.t = EbTag \/ In("FLUSH_CL_WAIT") ELSE Expected(r)
Fetches ==
  /\ \A i \in DOMAIN l2 : Known(l2[i])
  /\ \A i \in DOMAIN l2q : Known(l2q[i])
  /\ \A i, j \in DOMAIN l2 : i # j /\ l2[i].t = l2[j].t => l2[i].t = EbTag \/ In("FLUSH_CL_WAIT")
  /\ \A i, j \in DOMAIN l2q : i # j /\ l2q[i].t = l2q[j].t => l2q[i].t = EbTag \/ In("FLUSH_CL_WAIT")
  /\ \A i \in DOMAIN l2, j \in DOMAIN l2q : l2[i].t = l2q[j].t => l2[i].t = EbTag \/ In("FLUSH_CL_WAIT")

(* Where a credit or a place of the echo buffer will be needed it is free. *)
Credits ==
  /\ eb # <<>> => /\ Len(eb) = 1 /\ r_mrq_credits >= 1
                  /\ r_state \in {"CLEAR_DIRTY", "FLUSH_CACHE_WAIT", "FLUSH_CACHE_LAST_WAIT"}
  /\ In("CLEAR_DIRTY") => r_mrq_credits >= 2
  /\ In("CLEAR_DIRTY") => eb # <<>>
  /\ r_state \in {"ACTIVE", "HANDLE_RELOAD", "FLUSH_CACHE", "FLUSH_CL"} \/ Walking
        => r_mrq_credits >= 1
  /\ p1.got /\ p1.retry => r_mrq_credits >= 2

(* A flush has the cache to itself, and the sets behind it are invalid.    *)
Sweeps ==
  /\ r_flush_req \/ Sweeping => /\ ret < sent /\ Kind(sent) = "fl"
                                /\ sent \notin done /\ mode = "run"
  /\ Sweeping => mq = <<>> /\ ~r_flush_req
  /\ r_state \in {"FLUSH_CACHE", "FLUSH_CACHE_WAIT"} =>
       \A i \in IDX : i < p1.idx => ~cache[i].v
  /\ In("FLUSH_CACHE_LAST_WAIT") => \A i \in IDX : ~cache[i].v

(* A probe that waits names a line, and runs with the echo buffer empty.   *)
Probes1 ==
  /\ r_flush_cl_req \/ Probing => probe \in LINES
  /\ Probing => ~r_flush_cl_req /\ eb = <<>>

(* The set port 1 read was not written in the same cycle (rr).             *)
Fresh == p1.got => rr # p1.idx

IInv == /\ Types /\ Window /\ Places /\ Ordered /\ Slotted /\ Port1Inv /\ Port2Inv
        /\ Fetches /\ Credits /\ Sweeps /\ Probes1 /\ Fresh

-----------------------------------------------------------------------------
LEMMA Sizes ==
  /\ NoLine \notin LINES /\ NIDX \in Nat \ {0} /\ N \in Nat \ {0}
  /\ NROB \in Nat \ {0, 1} /\ MRQ \in Nat \ {0, 1} /\ EBS \in Nat \ {0}
  /\ PIdx \in [LINES -> IDX] /\ DOMAIN Low = IDX
  BY L1DAssumption

LEMMA Positions == Pos \subseteq Int /\ \A p \in Pos : 0 < p /\ p <= N /\ p # 0
  BY Sizes DEF Pos

(* What a program's operations are. *)
LEMMA Operation ==
  ASSUME prog \in PROGRAMS, NEW p \in Pos
  PROVE  /\ Kind(p) \in Kinds /\ Line(p) \in LINES /\ VIdx(p) \in IDX
         /\ IdxOf(p) \in IDX /\ prog[p].m \subseteq WORDS /\ prog[p].t \in Tlbs
         /\ Low[VIdx(p)] = Low[IdxOf(p)]
<1>1. /\ prog[p] \in [k : Kinds, l : LINES, v : IDX, m : SUBSET WORDS, t : Tlbs]
      /\ Low[prog[p].v] = Low[PIdx[prog[p].l]]
  BY L1DAssumption
<1>2. p # 0
  BY DEF Pos
<1>3. PIdx \in [LINES -> IDX]
  BY Sizes
<1> QED
  BY <1>1, <1>2, <1>3 DEF Kind, Line, VIdx, IdxOf

LEMMA Modulo == \A x \in 0 .. 2 * MRQ - 1 : x % MRQ = IF x < MRQ THEN x ELSE x - MRQ
<1>1. MRQ \in Nat /\ MRQ > 0
  BY Sizes
<1>2. TAKE x \in 0 .. 2 * MRQ - 1
<1>3. CASE x < MRQ
  BY <1>1, <1>3
<1>4. CASE x >= MRQ
  BY <1>1, <1>4
<1> QED
  BY <1>1, <1>3, <1>4

(* Two instructions less than a reorder buffer apart have different slots. *)
LEMMA SlotsDiffer ==
  ASSUME NEW p \in Int, NEW q \in Int, p < q, q - p < NROB, base \in Int
  PROVE  Slot(p) # Slot(q)
<1>1. NROB \in Nat /\ NROB > 0
  BY Sizes
<1> DEFINE x == p - base - 1
           y == q - base - 1
<1>2. x \in Int /\ y \in Int /\ x < y /\ y - x < NROB
  OBVIOUS
<1> HIDE DEF x, y
<1>3. SUFFICES ASSUME x % NROB = y % NROB PROVE FALSE
  BY DEF Slot, x, y
<1>4. PICK r \in Int, a \in Int, b \in Int : x = NROB * a + r /\ y = NROB * b + r
  <2>1. x = NROB * (x \div NROB) + (x % NROB) /\ y = NROB * (y \div NROB) + (y % NROB)
    BY <1>1, <1>2
  <2>2. x \div NROB \in Int /\ y \div NROB \in Int /\ x % NROB \in Int
    BY <1>1, <1>2
  <2> QED
    BY <1>3, <2>1, <2>2
<1>5. PICK d \in Int : d = b - a
  OBVIOUS
<1>6. NROB * d = y - x
  BY <1>1, <1>2, <1>4, <1>5
<1>7. d >= 1 => NROB * d >= NROB
  BY <1>1
<1>8. d <= 0 => NROB * d <= 0
  BY <1>1
<1> QED
  BY <1>1, <1>2, <1>6, <1>7, <1>8

LEMMA SlotType == ASSUME NEW p \in Int, base \in Int PROVE Slot(p) \in Slots
<1>1. NROB \in Nat /\ NROB > 0
  BY Sizes
<1> DEFINE x == p - base - 1
<1>2. x \in Int
  OBVIOUS
<1> HIDE DEF x
<1>3. x % NROB \in 0 .. NROB - 1
  BY <1>1, <1>2
<1> QED
  BY <1>3 DEF Slot, Slots, x

-----------------------------------------------------------------------------
(* What the state machine's outputs can be.                                *)
Set0 == IDX \cup {None}
Typed(f) ==
  /\ f.st \in States /\ f.p \in 0 .. N /\ f.idx \in Set0 /\ f.midx \in IDX /\ f.inval \in Set0
  /\ f.go \in BOOLEAN /\ f.lw \in BOOLEAN /\ f.retry \in BOOLEAN /\ f.pop \in BOOLEAN
  /\ f.clear \in BOOLEAN /\ f.lock \in BOOLEAN /\ f.inh \in BOOLEAN /\ f.replay \in BOOLEAN
  /\ f.fault \in BOOLEAN /\ f.flush \in BOOLEAN /\ f.cl \in BOOLEAN /\ f.was \in BOOLEAN
  /\ f.evict \in Seq(WriteBack) /\ f.fetch \in Seq(Request)

HeldSt  == {"CLEAR_DIRTY", "INJECT_RELOAD", "HANDLE_RELOAD"}
WalkSt  == {"TLB_RELOAD", "TLB_TURNAROUND"}
ProbeSt == {"FLUSH_CL", "FLUSH_CL_WAIT"}
SweepSt == {"FLUSH_CACHE", "FLUSH_CACHE_WAIT", "FLUSH_CACHE_LAST_WAIT"}

(* The request port 1 has next is the queue's head or the one it has.      *)
Port1Next(f) ==
  /\ f.go => f.st = "ACTIVE" /\ f.idx = IdxOf(f.p)
  /\ f.go \/ f.st \in HeldSt =>
       IF f.pop
       THEN /\ f.p = Head(mq) /\ Kind(f.p) # "pf" /\ f.retry
            /\ f.lw <=> Kind(f.p) \in {"st", "sc"}
       ELSE /\ f.p = p1.p /\ Busy1 /\ ~w_got_hit /\ ~f.retry
            /\ f.lw <=> f.go /\ IsStore(f.p)
  /\ f.go /\ ~f.pop => r_state \in {"CLEAR_DIRTY", "HANDLE_RELOAD"}
  /\ ~f.go => ~f.lw /\ ~f.retry
  /\ f.pop => CanIssue /\ f.st = "ACTIVE" /\ (f.clear <=> ~f.go)
  /\ f.clear => f.pop

(* A miss evicts, fetches, waits and looks again. *)
HeldNext(f) ==
  /\ f.st = "CLEAR_DIRTY" => DirtyVictim /\ f.inval = p1.idx /\ f.lock /\ f.evict # <<>>
  /\ f.st = "INJECT_RELOAD" =>
       \/ CleanVictim /\ ~f.lock /\ ~f.inh
       \/ In("INJECT_RELOAD") /\ f.inh = r_inhibit_write
  /\ f.st = "HANDLE_RELOAD" =>
       In("INJECT_RELOAD") /\ mem_rsp_reload /\ mem_rsp.t = FetchTag
  /\ f.st \in HeldSt => f.midx = IF p1.got THEN p1.idx ELSE r_miss_idx
  /\ f.lock => f.st = "CLEAR_DIRTY" \/ r_lock_cache
  /\ p1.got /\ ~w_got_hit => f.st \in {"CLEAR_DIRTY", "INJECT_RELOAD"}
  /\ r_state \in {"CLEAR_DIRTY", "HANDLE_RELOAD"} => f.go /\ f.inh = r_inhibit_write /\ f.lock = r_lock_cache
  /\ In("INJECT_RELOAD") =>
       f.st = IF mem_rsp_reload /\ mem_rsp.t = FetchTag THEN "HANDLE_RELOAD" ELSE "INJECT_RELOAD"

(* What leaves the cache. *)
Leaving(f) ==
  /\ f.inval # None => /\ f.inval = p1.idx /\ ~f.go
                       /\ \/ f.st = "CLEAR_DIRTY" \/ In("FLUSH_CACHE")
                          \/ In("FLUSH_CL") /\ w_flush_hit /\ ~p1.out.d
  /\ f.evict # <<>> =>
       /\ f.evict = <<[l |-> p1.out.l, w |-> p1.out.w]>> /\ f.fetch = <<>>
       /\ \/ f.st = "CLEAR_DIRTY"
          \/ In("FLUSH_CACHE") /\ f.st \in {"FLUSH_CACHE_WAIT", "FLUSH_CACHE_LAST_WAIT"}
  /\ f.fetch # <<>> =>
       \/ /\ f.st = "INJECT_RELOAD" /\ CleanVictim
          /\ f.fetch = <<[wb |-> FALSE, l |-> Line(p1.p), w |-> Zero, t |-> FetchTag]>>
       \/ /\ In("FLUSH_CL") /\ f.st = "FLUSH_CL_WAIT"
          /\ f.fetch = <<[wb |-> TRUE, l |-> p1.out.l, w |-> p1.out.w, t |-> r_mem_req_tag]>>
  /\ CleanVictim => f.fetch # <<>>

WalkNext(f) ==
  /\ f.replay => In("TLB_TURNAROUND") /\ f.st = "ACTIVE" /\ ~f.go
  /\ f.st \in WalkSt => \/ In("ACTIVE") /\ n_pending_tlb_miss
                        \/ In("TLB_RELOAD")
                        \/ Probing /\ ~r_flush_was_active
  /\ Walking => f.st \in WalkSt \cup {"ACTIVE", "FLUSH_CL"} /\ ~f.go
  /\ In("TLB_TURNAROUND") => f.replay

ProbeNext(f) ==
  /\ f.st = "FLUSH_CL" => /\ r_flush_cl_req /\ w_queues_drained /\ ~f.cl
                          /\ \/ In("TLB_RELOAD") /\ ~f.was
                             \/ In("ACTIVE") /\ ~t_new_req /\ w_hit_or_idle /\ f.was
  /\ f.st = "FLUSH_CL_WAIT" => Probing /\ f.was = r_flush_was_active /\ f.cl = r_flush_cl_req
  /\ Probing => /\ f.st \in {"FLUSH_CL_WAIT", Resume} /\ ~f.go
                /\ f.ack <=> f.st # "FLUSH_CL_WAIT"
                /\ In("FLUSH_CL_WAIT") /\ f.ack => w_queues_drained
  /\ f.ack => Probing
  /\ f.cl => r_flush_cl_req
  /\ f.idx = None \/ f.idx \in IDX

SweepNext(f) ==
  /\ f.st \in SweepSt => \/ Sweeping
                         \/ /\ In("ACTIVE") /\ FlushGo /\ w_hit_or_idle /\ ~f.flush
                            /\ f.st = "FLUSH_CACHE" /\ f.idx = 0
  /\ In("FLUSH_CACHE") =>
       /\ f.inval = p1.idx /\ f.idx = NextSet
       /\ f.st = IF ~p1.out.d THEN IF LastSet THEN "ACTIVE" ELSE "FLUSH_CACHE"
                 ELSE IF LastSet THEN "FLUSH_CACHE_LAST_WAIT" ELSE "FLUSH_CACHE_WAIT"
  /\ In("FLUSH_CACHE_WAIT") =>
       f.idx = p1.idx /\ f.st = IF mem_rsp_valid THEN "FLUSH_CACHE" ELSE "FLUSH_CACHE_WAIT"
  /\ In("FLUSH_CACHE_LAST_WAIT") =>
       f.st = IF mem_rsp_valid THEN "ACTIVE" ELSE "FLUSH_CACHE_LAST_WAIT"
  /\ Sweeping => f.flush = r_flush_req /\ ~f.go
  /\ f.flush => r_flush_req
  /\ f.flushed => Sweeping /\ f.st = "ACTIVE"

Controls(f) == /\ Port1Next(f) /\ HeldNext(f) /\ Leaving(f)
               /\ WalkNext(f) /\ ProbeNext(f) /\ SweepNext(f)

(* Why: what a dropped, a written and a probed request are.                *)
Reasons(f) ==
  /\ f.fault => prog[p2.p].t = "fault" /\ f.st = "TLB_TURNAROUND"
  /\ f.st = "TLB_TURNAROUND" => In("TLB_RELOAD") /\ (prog[p2.p].t = "fault" => f.fault)
  /\ f.p = p1.p \/ (f.pop /\ f.p = Head(mq) /\ (f.clear => Kind(f.p) = "pf"))
  /\ f.clear => Kind(Head(mq)) = "pf" \/ (DeadHead /\ ~w_st_amo_grad)
  /\ f.go /\ f.pop => w_st_amo_grad
  /\ In("FLUSH_CL") => IF w_flush_hit /\ p1.out.d
                      THEN f.st = "FLUSH_CL_WAIT" /\ f.fetch # <<>> ELSE f.st # "FLUSH_CL_WAIT"
  /\ In("FLUSH_CACHE") /\ p1.out.d => f.evict # <<>>
  /\ f.st = "FLUSH_CL" => f.idx = PIdx[probe] /\ ~t_wr_array /\ ~Probing

(* The registers' domains the proofs use, in the form they use them.       *)
LEMMA Registers ==
  ASSUME Types
  PROVE  /\ prog \in PROGRAMS /\ r_state \in States /\ r_miss_idx \in IDX
         /\ ret \in Int /\ sent \in Int /\ base \in Int /\ 0 <= base /\ base <= ret
         /\ ret <= sent /\ sent <= N /\ req \in 0 .. sent
         /\ p1.p \in 0 .. N /\ p1.got \in BOOLEAN /\ p1.retry \in BOOLEAN
         /\ p1.lw \in BOOLEAN /\ p1.idx \in IDX /\ p1.busy \in BOOLEAN /\ p1.out \in Line1
         /\ p2.p \in 0 .. N /\ p2.got \in BOOLEAN /\ p2.nop \in BOOLEAN
         /\ p2.lw \in BOOLEAN /\ p2.idx \in IDX /\ p2.out \in Line1
         /\ cache \in [IDX -> Line1] /\ mode \in {"run", "ds", "drain"}
  BY Sizes DEF Types, TypeOK, P1Type, P2Type

LEMMA Out1 ==
  ASSUME Types
  PROVE  /\ p1.out.v \in BOOLEAN /\ p1.out.d \in BOOLEAN /\ p1.out.w \in [WORDS -> Value]
         /\ p1.out.v \/ p1.out.d => p1.out.l \in LINES
         /\ p2.out.v \in BOOLEAN /\ p2.out.d \in BOOLEAN
         /\ Zero \in [WORDS -> Value]
<1>1. p1.out \in Line1 /\ p2.out \in Line1
  BY Registers
<1>2. Zero \in [WORDS -> Value]
  BY Sizes DEF Zero, Value
<1> QED
  BY <1>1, <1>2 DEF Types, Line1, Named

(* The outputs of a step: some f that Edge applies, of the type and under  *)
(* the control of the state.                                               *)
LEMMA StepControls ==
  ASSUME Types, Places, Port1Inv, Sweeps, Probes1, Next
  PROVE  \E f : Edge(f) /\ Typed(f) /\ Controls(f) /\ Reasons(f)
<1>1. /\ r_state \in States /\ p1.p \in 0 .. N /\ p1.idx \in IDX /\ r_mem_req_tag \in 0 .. EbTag
      /\ p1.out \in Line1 /\ 0 \in IDX /\ NIDX \in Nat /\ IDX = 0 .. NIDX - 1
      /\ FetchTag \in 0 .. EbTag
  BY Registers, Sizes DEF Types, TypeOK, IDX, FetchTag, EbTag
<1>2. Busy1 => p1.p \in Pos /\ Line(p1.p) \in LINES /\ IdxOf(p1.p) \in IDX
  BY Registers, Operation DEF Places, Queued, Pos
<1>3. mq # <<>> => Head(mq) \in 0 .. N /\ IdxOf(Head(mq)) \in IDX
  <2>1. mq # <<>> => Head(mq) \in Pos
    BY DEF Types
  <2> QED
    BY <2>1, Registers, Operation DEF Pos
<1>4. r_flush_cl_req \/ Probing => probe \in LINES /\ PIdx[probe] \in IDX
  BY Sizes DEF Probes1
<1>5. NextSet \in IDX
  BY <1>1, Sizes DEF NextSet
<1>6. /\ w_got_hit <=> p1.got /\ w_cache_port1_hit
      /\ w_hit_or_idle <=> (p1.got => w_cache_port1_hit)
      /\ DirtyVictim <=> p1.got /\ ~w_cache_port1_hit /\ p1.out.v /\ p1.out.d
      /\ CleanVictim <=> p1.got /\ ~w_cache_port1_hit /\ ~(p1.out.v /\ p1.out.d)
  BY DEF w_got_hit, w_hit_or_idle, DirtyVictim, CleanVictim
<1>7. CanIssue => In("ACTIVE") /\ w_hit_or_idle /\ mq # <<>>
  BY DEF CanIssue
<1>8. p1.got => In("ACTIVE")
  BY DEF Port1Inv
<1>9. /\ r_lock_cache \in BOOLEAN /\ r_inhibit_write \in BOOLEAN /\ r_flush_req \in BOOLEAN
      /\ r_flush_cl_req \in BOOLEAN /\ r_flush_was_active \in BOOLEAN
      /\ r_miss_idx \in IDX /\ <<>> \in Seq(WriteBack) /\ <<>> \in Seq(Request)
  BY Registers DEF Types
<1>10. CASE EvictVictim
  <2> DEFINE f == [Outputs EXCEPT !.st = "CLEAR_DIRTY", !.miss = TRUE, !.midx = p1.idx,
             !.lock = TRUE, !.inh = TRUE, !.inval = p1.idx,
             !.evict = <<[l |-> p1.out.l, w |-> p1.out.w]>>]
  <2>1. Edge(f)
    BY <1>10 DEF EvictVictim
  <2>2. Typed(f)
    BY <1>10, <1>1, <1>2, <1>3, <1>4, <1>5, <1>6, <1>7, <1>9, Out1
    DEF EvictVictim, Typed, Outputs, Set0, States, Request, WriteBack, In, Busy1, Held, Probing
  <2>3. Controls(f)
    BY <1>10, <1>1, <1>2, <1>3, <1>4, <1>5, <1>6, <1>7, <1>8, <1>9
    DEF EvictVictim, Controls, Port1Next, HeldNext, Leaving, WalkNext, ProbeNext, SweepNext, Outputs,
        In, Busy1, Held, Walking, Probing, Sweeping, HeldSt, WalkSt, ProbeSt, SweepSt, Set0, None,
        Quiet, Resume
  <2>4. Reasons(f)
    BY <1>10, <1>1, <1>2, <1>3, <1>4, <1>5, <1>6, <1>7, <1>8, <1>9
    DEF EvictVictim, Reasons, Outputs, In, IsStore, Resume, ProbeGo, CanIssue, t_wr_array, Probing, Quiet
  <2> QED
    BY <2>1, <2>2, <2>3, <2>4
<1>11. CASE LookAgain("CLEAR_DIRTY")
  <2> DEFINE f == [Outputs EXCEPT !.st = "ACTIVE", !.go = TRUE, !.idx = IdxOf(p1.p),
             !.lw = IsStore(p1.p)]
  <2>1. Edge(f)
    BY <1>11 DEF LookAgain
  <2>2. Typed(f)
    BY <1>11, <1>1, <1>2, <1>3, <1>4, <1>5, <1>6, <1>7, <1>9, Out1
    DEF LookAgain, IsStore, Typed, Outputs, Set0, States, Request, WriteBack, In, Busy1, Held, Probing
  <2>3. Controls(f)
    BY <1>11, <1>1, <1>2, <1>3, <1>4, <1>5, <1>6, <1>7, <1>8, <1>9
    DEF LookAgain, Controls, Port1Next, HeldNext, Leaving, WalkNext, ProbeNext, SweepNext, Outputs,
        In, Busy1, Held, Walking, Probing, Sweeping, HeldSt, WalkSt, ProbeSt, SweepSt, Set0, None,
        Quiet, Resume
  <2>4. Reasons(f)
    BY <1>11, <1>1, <1>2, <1>3, <1>4, <1>5, <1>6, <1>7, <1>8, <1>9
    DEF LookAgain, Reasons, Outputs, In, IsStore, Resume, ProbeGo, CanIssue, t_wr_array, Probing, Quiet
  <2> QED
    BY <2>1, <2>2, <2>3, <2>4
<1>12. CASE FetchLine
  <2> DEFINE f == [Outputs EXCEPT !.st = "INJECT_RELOAD", !.miss = TRUE, !.midx = p1.idx,
             !.lock = FALSE, !.inh = FALSE, !.idx = p1.idx,
             !.fetch = <<[wb |-> FALSE, l |-> Line(p1.p), w |-> Zero,
                            t |-> FetchTag]>>]
  <2>1. Edge(f)
    BY <1>12 DEF FetchLine
  <2>2. Typed(f)
    BY <1>12, <1>1, <1>2, <1>3, <1>4, <1>5, <1>6, <1>7, <1>9, Out1
    DEF FetchLine, Typed, Outputs, Set0, States, Request, WriteBack, In, Busy1, Held, Probing
  <2>3. Controls(f)
    BY <1>12, <1>1, <1>2, <1>3, <1>4, <1>5, <1>6, <1>7, <1>8, <1>9
    DEF FetchLine, Controls, Port1Next, HeldNext, Leaving, WalkNext, ProbeNext, SweepNext, Outputs,
        In, Busy1, Held, Walking, Probing, Sweeping, HeldSt, WalkSt, ProbeSt, SweepSt, Set0, None,
        Quiet, Resume
  <2>4. Reasons(f)
    BY <1>12, <1>1, <1>2, <1>3, <1>4, <1>5, <1>6, <1>7, <1>8, <1>9
    DEF FetchLine, Reasons, Outputs, In, IsStore, Resume, ProbeGo, CanIssue, t_wr_array, Probing, Quiet
  <2> QED
    BY <2>1, <2>2, <2>3, <2>4
<1>13. CASE WaitReload
  <2>1. CASE mem_rsp_reload /\ mem_rsp.t = FetchTag
    <3> DEFINE f == [Outputs EXCEPT !.st = "HANDLE_RELOAD", !.inh = FALSE]
    <3>1. Edge(f)
      BY <1>13, <2>1 DEF WaitReload
    <3>2. Typed(f)
      BY <1>13, <2>1, <1>1, <1>2, <1>3, <1>4, <1>5, <1>6, <1>7, <1>9, Out1
      DEF WaitReload, Typed, Outputs, Set0, States, Request, WriteBack, In, Busy1, Held, Probing
    <3>3. Controls(f)
      BY <1>13, <2>1, <1>1, <1>2, <1>3, <1>4, <1>5, <1>6, <1>7, <1>8, <1>9
      DEF WaitReload, Controls, Port1Next, HeldNext, Leaving, WalkNext, ProbeNext, SweepNext, Outputs,
          In, Busy1, Held, Walking, Probing, Sweeping, HeldSt, WalkSt, ProbeSt, SweepSt, Set0, None,
          Quiet, Resume
    <3>4. Reasons(f)
      BY <1>13, <2>1, <1>1, <1>2, <1>3, <1>4, <1>5, <1>6, <1>7, <1>8, <1>9
      DEF WaitReload, Reasons, Outputs, In, IsStore, Resume, ProbeGo, CanIssue, t_wr_array, Probing, Quiet
    <3> QED
      BY <3>1, <3>2, <3>3, <3>4
  <2>2. CASE ~(mem_rsp_reload /\ mem_rsp.t = FetchTag)
    <3> DEFINE f == Outputs
    <3>1. Edge(f)
      BY <1>13, <2>2 DEF WaitReload
    <3>2. Typed(f)
      BY <1>13, <2>2, <1>1, <1>2, <1>3, <1>4, <1>5, <1>6, <1>7, <1>9, Out1
      DEF WaitReload, Typed, Outputs, Set0, States, Request, WriteBack, In, Busy1, Held, Probing
    <3>3. Controls(f)
      BY <1>13, <2>2, <1>1, <1>2, <1>3, <1>4, <1>5, <1>6, <1>7, <1>8, <1>9
      DEF WaitReload, Controls, Port1Next, HeldNext, Leaving, WalkNext, ProbeNext, SweepNext, Outputs,
          In, Busy1, Held, Walking, Probing, Sweeping, HeldSt, WalkSt, ProbeSt, SweepSt, Set0, None,
          Quiet, Resume
    <3>4. Reasons(f)
      BY <1>13, <2>2, <1>1, <1>2, <1>3, <1>4, <1>5, <1>6, <1>7, <1>8, <1>9
      DEF WaitReload, Reasons, Outputs, In, IsStore, Resume, ProbeGo, CanIssue, t_wr_array, Probing, Quiet
    <3> QED
      BY <3>1, <3>2, <3>3, <3>4
  <2> QED
    BY <2>1, <2>2
<1>14. CASE LookAgain("HANDLE_RELOAD")
  <2> DEFINE f == [Outputs EXCEPT !.st = "ACTIVE", !.go = TRUE, !.idx = IdxOf(p1.p),
             !.lw = IsStore(p1.p)]
  <2>1. Edge(f)
    BY <1>14 DEF LookAgain
  <2>2. Typed(f)
    BY <1>14, <1>1, <1>2, <1>3, <1>4, <1>5, <1>6, <1>7, <1>9, Out1
    DEF LookAgain, IsStore, Typed, Outputs, Set0, States, Request, WriteBack, In, Busy1, Held, Probing
  <2>3. Controls(f)
    BY <1>14, <1>1, <1>2, <1>3, <1>4, <1>5, <1>6, <1>7, <1>8, <1>9
    DEF LookAgain, Controls, Port1Next, HeldNext, Leaving, WalkNext, ProbeNext, SweepNext, Outputs,
        In, Busy1, Held, Walking, Probing, Sweeping, HeldSt, WalkSt, ProbeSt, SweepSt, Set0, None,
        Quiet, Resume
  <2>4. Reasons(f)
    BY <1>14, <1>1, <1>2, <1>3, <1>4, <1>5, <1>6, <1>7, <1>8, <1>9
    DEF LookAgain, Reasons, Outputs, In, IsStore, Resume, ProbeGo, CanIssue, t_wr_array, Probing, Quiet
  <2> QED
    BY <2>1, <2>2, <2>3, <2>4
<1>15. CASE IssueStore
  <2> DEFINE f == [Outputs EXCEPT !.p = Head(mq), !.go = TRUE, !.idx = IdxOf(Head(mq)),
             !.lw = TRUE, !.retry = TRUE, !.pop = TRUE]
  <2>1. Edge(f)
    BY <1>15 DEF IssueStore
  <2>2. Typed(f)
    BY <1>15, <1>1, <1>2, <1>3, <1>4, <1>5, <1>6, <1>7, <1>9, Out1
    DEF IssueStore, IsStore, Typed, Outputs, Set0, States, Request, WriteBack, In, Busy1, Held, Probing
  <2>3. Controls(f)
    BY <1>15, <1>1, <1>2, <1>3, <1>4, <1>5, <1>6, <1>7, <1>8, <1>9
    DEF IssueStore, Controls, Port1Next, HeldNext, Leaving, WalkNext, ProbeNext, SweepNext, Outputs,
        In, Busy1, Held, Walking, Probing, Sweeping, HeldSt, WalkSt, ProbeSt, SweepSt, Set0, None,
        Quiet, Resume
  <2>4. Reasons(f)
    BY <1>15, <1>1, <1>2, <1>3, <1>4, <1>5, <1>6, <1>7, <1>8, <1>9
    DEF IssueStore, Reasons, Outputs, In, IsStore, Resume, ProbeGo, CanIssue, t_wr_array, Probing, Quiet
  <2> QED
    BY <2>1, <2>2, <2>3, <2>4
<1>16. CASE DropDead
  <2> DEFINE f == [Outputs EXCEPT !.pop = TRUE, !.clear = TRUE]
  <2>1. Edge(f)
    BY <1>16 DEF DropDead
  <2>2. Typed(f)
    BY <1>16, <1>1, <1>2, <1>3, <1>4, <1>5, <1>6, <1>7, <1>9, Out1
    DEF DropDead, Typed, Outputs, Set0, States, Request, WriteBack, In, Busy1, Held, Probing
  <2>3. Controls(f)
    BY <1>16, <1>1, <1>2, <1>3, <1>4, <1>5, <1>6, <1>7, <1>8, <1>9
    DEF DropDead, Controls, Port1Next, HeldNext, Leaving, WalkNext, ProbeNext, SweepNext, Outputs,
        In, Busy1, Held, Walking, Probing, Sweeping, HeldSt, WalkSt, ProbeSt, SweepSt, Set0, None,
        Quiet, Resume
  <2>4. Reasons(f)
    BY <1>16, <1>1, <1>2, <1>3, <1>4, <1>5, <1>6, <1>7, <1>8, <1>9
    DEF DropDead, Reasons, Outputs, In, IsStore, Resume, ProbeGo, CanIssue, t_wr_array, Probing, Quiet
  <2> QED
    BY <2>1, <2>2, <2>3, <2>4
<1>17. CASE IssueLoad
  <2> DEFINE f == [Outputs EXCEPT !.p = Head(mq), !.go = TRUE, !.idx = IdxOf(Head(mq)),
             !.retry = TRUE, !.pop = TRUE]
  <2>1. Edge(f)
    BY <1>17 DEF IssueLoad
  <2>2. Typed(f)
    BY <1>17, <1>1, <1>2, <1>3, <1>4, <1>5, <1>6, <1>7, <1>9, Out1
    DEF IssueLoad, Typed, Outputs, Set0, States, Request, WriteBack, In, Busy1, Held, Probing
  <2>3. Controls(f)
    BY <1>17, <1>1, <1>2, <1>3, <1>4, <1>5, <1>6, <1>7, <1>8, <1>9
    DEF IssueLoad, Controls, Port1Next, HeldNext, Leaving, WalkNext, ProbeNext, SweepNext, Outputs,
        In, Busy1, Held, Walking, Probing, Sweeping, HeldSt, WalkSt, ProbeSt, SweepSt, Set0, None,
        Quiet, Resume
  <2>4. Reasons(f)
    BY <1>17, <1>1, <1>2, <1>3, <1>4, <1>5, <1>6, <1>7, <1>8, <1>9
    DEF IssueLoad, w_st_amo_grad, Reasons, Outputs, In, IsStore, Resume, ProbeGo, CanIssue, t_wr_array, Probing, Quiet
  <2> QED
    BY <2>1, <2>2, <2>3, <2>4
<1>18. CASE DropPrefetch
  <2> DEFINE f == [Outputs EXCEPT !.p = Head(mq), !.idx = IdxOf(Head(mq)),
             !.pop = TRUE, !.clear = TRUE]
  <2>1. Edge(f)
    BY <1>18 DEF DropPrefetch
  <2>2. Typed(f)
    BY <1>18, <1>1, <1>2, <1>3, <1>4, <1>5, <1>6, <1>7, <1>9, Out1
    DEF DropPrefetch, Typed, Outputs, Set0, States, Request, WriteBack, In, Busy1, Held, Probing
  <2>3. Controls(f)
    BY <1>18, <1>1, <1>2, <1>3, <1>4, <1>5, <1>6, <1>7, <1>8, <1>9
    DEF DropPrefetch, Controls, Port1Next, HeldNext, Leaving, WalkNext, ProbeNext, SweepNext, Outputs,
        In, Busy1, Held, Walking, Probing, Sweeping, HeldSt, WalkSt, ProbeSt, SweepSt, Set0, None,
        Quiet, Resume
  <2>4. Reasons(f)
    BY <1>18, <1>1, <1>2, <1>3, <1>4, <1>5, <1>6, <1>7, <1>8, <1>9
    DEF DropPrefetch, Reasons, Outputs, In, IsStore, Resume, ProbeGo, CanIssue, t_wr_array, Probing, Quiet
  <2> QED
    BY <2>1, <2>2, <2>3, <2>4
<1>19. CASE Idle
  <2> DEFINE f == Outputs
  <2>1. Edge(f)
    BY <1>19 DEF Idle
  <2>2. Typed(f)
    BY <1>19, <1>1, <1>2, <1>3, <1>4, <1>5, <1>6, <1>7, <1>9, Out1
    DEF Idle, Typed, Outputs, Set0, States, Request, WriteBack, In, Busy1, Held, Probing
  <2>3. Controls(f)
    BY <1>19, <1>1, <1>2, <1>3, <1>4, <1>5, <1>6, <1>7, <1>8, <1>9
    DEF Idle, Controls, Port1Next, HeldNext, Leaving, WalkNext, ProbeNext, SweepNext, Outputs,
        In, Busy1, Held, Walking, Probing, Sweeping, HeldSt, WalkSt, ProbeSt, SweepSt, Set0, None,
        Quiet, Resume
  <2>4. Reasons(f)
    BY <1>19, <1>1, <1>2, <1>3, <1>4, <1>5, <1>6, <1>7, <1>8, <1>9
    DEF Idle, Reasons, Outputs, In, IsStore, Resume, ProbeGo, CanIssue, t_wr_array, Probing, Quiet
  <2> QED
    BY <2>1, <2>2, <2>3, <2>4
<1>20. CASE StartWalk
  <2> DEFINE f == [Outputs EXCEPT !.st = "TLB_RELOAD"]
  <2>1. Edge(f)
    BY <1>20 DEF StartWalk
  <2>2. Typed(f)
    BY <1>20, <1>1, <1>2, <1>3, <1>4, <1>5, <1>6, <1>7, <1>9, Out1
    DEF StartWalk, Typed, Outputs, Set0, States, Request, WriteBack, In, Busy1, Held, Probing
  <2>3. Controls(f)
    BY <1>20, <1>1, <1>2, <1>3, <1>4, <1>5, <1>6, <1>7, <1>8, <1>9
    DEF StartWalk, TlbGo, Controls, Port1Next, HeldNext, Leaving, WalkNext, ProbeNext, SweepNext, Outputs,
        In, Busy1, Held, Walking, Probing, Sweeping, HeldSt, WalkSt, ProbeSt, SweepSt, Set0, None,
        Quiet, Resume
  <2>4. Reasons(f)
    BY <1>20, <1>1, <1>2, <1>3, <1>4, <1>5, <1>6, <1>7, <1>8, <1>9
    DEF StartWalk, Reasons, Outputs, In, IsStore, Resume, ProbeGo, CanIssue, t_wr_array, Probing, Quiet
  <2> QED
    BY <2>1, <2>2, <2>3, <2>4
<1>21. CASE StartFlush
  <2> DEFINE f == [Outputs EXCEPT !.st = "FLUSH_CACHE", !.idx = 0, !.flush = FALSE]
  <2>1. Edge(f)
    BY <1>21 DEF StartFlush
  <2>2. Typed(f)
    BY <1>21, <1>1, <1>2, <1>3, <1>4, <1>5, <1>6, <1>7, <1>9, Out1
    DEF StartFlush, Typed, Outputs, Set0, States, Request, WriteBack, In, Busy1, Held, Probing
  <2>3. Controls(f)
    BY <1>21, <1>1, <1>2, <1>3, <1>4, <1>5, <1>6, <1>7, <1>8, <1>9
    DEF StartFlush, Controls, Port1Next, HeldNext, Leaving, WalkNext, ProbeNext, SweepNext, Outputs,
        In, Busy1, Held, Walking, Probing, Sweeping, HeldSt, WalkSt, ProbeSt, SweepSt, Set0, None,
        Quiet, Resume
  <2>4. Reasons(f)
    BY <1>21, <1>1, <1>2, <1>3, <1>4, <1>5, <1>6, <1>7, <1>8, <1>9
    DEF StartFlush, Reasons, Outputs, In, IsStore, Resume, ProbeGo, CanIssue, t_wr_array, Probing, Quiet
  <2> QED
    BY <2>1, <2>2, <2>3, <2>4
<1>22. CASE StartProbe
  <2> DEFINE f == [Outputs EXCEPT !.st = "FLUSH_CL", !.idx = PIdx[probe],
             !.cl = FALSE, !.was = TRUE]
  <2>1. Edge(f)
    BY <1>22 DEF StartProbe
  <2>2. Typed(f)
    BY <1>22, <1>1, <1>2, <1>3, <1>4, <1>5, <1>6, <1>7, <1>9, Out1
    DEF StartProbe, ProbeGo, Typed, Outputs, Set0, States, Request, WriteBack, In, Busy1, Held, Probing
  <2>3. Controls(f)
    BY <1>22, <1>1, <1>2, <1>3, <1>4, <1>5, <1>6, <1>7, <1>8, <1>9
    DEF StartProbe, ProbeGo, Controls, Port1Next, HeldNext, Leaving, WalkNext, ProbeNext, SweepNext, Outputs,
        In, Busy1, Held, Walking, Probing, Sweeping, HeldSt, WalkSt, ProbeSt, SweepSt, Set0, None,
        Quiet, Resume
  <2>4. Reasons(f)
    BY <1>22, <1>1, <1>2, <1>3, <1>4, <1>5, <1>6, <1>7, <1>8, <1>9
    DEF StartProbe, Reasons, Outputs, In, IsStore, Resume, ProbeGo, CanIssue, t_wr_array, Probing, Quiet
  <2> QED
    BY <2>1, <2>2, <2>3, <2>4
<1>23. CASE WalkEnds
  <2> DEFINE f == [Outputs EXCEPT !.st = "TLB_TURNAROUND", !.fault = prog[p2.p].t = "fault"]
  <2>1. Edge(f)
    BY <1>23 DEF WalkEnds
  <2>2. Typed(f)
    BY <1>23, <1>1, <1>2, <1>3, <1>4, <1>5, <1>6, <1>7, <1>9, Out1
    DEF WalkEnds, Typed, Outputs, Set0, States, Request, WriteBack, In, Busy1, Held, Probing
  <2>3. Controls(f)
    BY <1>23, <1>1, <1>2, <1>3, <1>4, <1>5, <1>6, <1>7, <1>8, <1>9
    DEF WalkEnds, Controls, Port1Next, HeldNext, Leaving, WalkNext, ProbeNext, SweepNext, Outputs,
        In, Busy1, Held, Walking, Probing, Sweeping, HeldSt, WalkSt, ProbeSt, SweepSt, Set0, None,
        Quiet, Resume
  <2>4. Reasons(f)
    BY <1>23, <1>1, <1>2, <1>3, <1>4, <1>5, <1>6, <1>7, <1>8, <1>9
    DEF WalkEnds, Reasons, Outputs, In, IsStore, Resume, ProbeGo, CanIssue, t_wr_array, Probing, Quiet
  <2> QED
    BY <2>1, <2>2, <2>3, <2>4
<1>24. CASE WalkGoesOn
  <2> DEFINE f == Outputs
  <2>1. Edge(f)
    BY <1>24 DEF WalkGoesOn
  <2>2. Typed(f)
    BY <1>24, <1>1, <1>2, <1>3, <1>4, <1>5, <1>6, <1>7, <1>9, Out1
    DEF WalkGoesOn, Typed, Outputs, Set0, States, Request, WriteBack, In, Busy1, Held, Probing
  <2>3. Controls(f)
    BY <1>24, <1>1, <1>2, <1>3, <1>4, <1>5, <1>6, <1>7, <1>8, <1>9
    DEF WalkGoesOn, Controls, Port1Next, HeldNext, Leaving, WalkNext, ProbeNext, SweepNext, Outputs,
        In, Busy1, Held, Walking, Probing, Sweeping, HeldSt, WalkSt, ProbeSt, SweepSt, Set0, None,
        Quiet, Resume
  <2>4. Reasons(f)
    BY <1>24, <1>1, <1>2, <1>3, <1>4, <1>5, <1>6, <1>7, <1>8, <1>9
    DEF WalkGoesOn, Reasons, Outputs, In, IsStore, Resume, ProbeGo, CanIssue, t_wr_array, Probing, Quiet
  <2> QED
    BY <2>1, <2>2, <2>3, <2>4
<1>25. CASE ProbeInWalk
  <2> DEFINE f == [Outputs EXCEPT !.st = "FLUSH_CL", !.idx = PIdx[probe],
             !.cl = FALSE, !.was = FALSE]
  <2>1. Edge(f)
    BY <1>25 DEF ProbeInWalk
  <2>2. Typed(f)
    BY <1>25, <1>1, <1>2, <1>3, <1>4, <1>5, <1>6, <1>7, <1>9, Out1
    DEF ProbeInWalk, Typed, Outputs, Set0, States, Request, WriteBack, In, Busy1, Held, Probing
  <2>3. Controls(f)
    BY <1>25, <1>1, <1>2, <1>3, <1>4, <1>5, <1>6, <1>7, <1>8, <1>9
    DEF ProbeInWalk, Controls, Port1Next, HeldNext, Leaving, WalkNext, ProbeNext, SweepNext, Outputs,
        In, Busy1, Held, Walking, Probing, Sweeping, HeldSt, WalkSt, ProbeSt, SweepSt, Set0, None,
        Quiet, Resume
  <2>4. Reasons(f)
    BY <1>25, <1>1, <1>2, <1>3, <1>4, <1>5, <1>6, <1>7, <1>8, <1>9
    DEF ProbeInWalk, Reasons, Outputs, In, IsStore, Resume, ProbeGo, CanIssue, t_wr_array, Probing, Quiet
  <2> QED
    BY <2>1, <2>2, <2>3, <2>4
<1>26. CASE TurnAround
  <2> DEFINE f == [Outputs EXCEPT !.st = "ACTIVE", !.replay = TRUE]
  <2>1. Edge(f)
    BY <1>26 DEF TurnAround
  <2>2. Typed(f)
    BY <1>26, <1>1, <1>2, <1>3, <1>4, <1>5, <1>6, <1>7, <1>9, Out1
    DEF TurnAround, Typed, Outputs, Set0, States, Request, WriteBack, In, Busy1, Held, Probing
  <2>3. Controls(f)
    BY <1>26, <1>1, <1>2, <1>3, <1>4, <1>5, <1>6, <1>7, <1>8, <1>9
    DEF TurnAround, Controls, Port1Next, HeldNext, Leaving, WalkNext, ProbeNext, SweepNext, Outputs,
        In, Busy1, Held, Walking, Probing, Sweeping, HeldSt, WalkSt, ProbeSt, SweepSt, Set0, None,
        Quiet, Resume
  <2>4. Reasons(f)
    BY <1>26, <1>1, <1>2, <1>3, <1>4, <1>5, <1>6, <1>7, <1>8, <1>9
    DEF TurnAround, Reasons, Outputs, In, IsStore, Resume, ProbeGo, CanIssue, t_wr_array, Probing, Quiet
  <2> QED
    BY <2>1, <2>2, <2>3, <2>4
<1>27. CASE ProbeClean
  <2> DEFINE f == [Outputs EXCEPT !.st = Resume, !.was = FALSE, !.ack = TRUE,
             !.inval = IF w_flush_hit THEN p1.idx ELSE None]
  <2>1. Edge(f)
    BY <1>27 DEF ProbeClean
  <2>2. Typed(f)
    BY <1>27, <1>1, <1>2, <1>3, <1>4, <1>5, <1>6, <1>7, <1>9, Out1
    DEF ProbeClean, Resume, Typed, Outputs, Set0, States, Request, WriteBack, In, Busy1, Held, Probing
  <2>3. Controls(f)
    BY <1>27, <1>1, <1>2, <1>3, <1>4, <1>5, <1>6, <1>7, <1>8, <1>9
    DEF ProbeClean, Controls, Port1Next, HeldNext, Leaving, WalkNext, ProbeNext, SweepNext, Outputs,
        In, Busy1, Held, Walking, Probing, Sweeping, HeldSt, WalkSt, ProbeSt, SweepSt, Set0, None,
        Quiet, Resume
  <2>4. Reasons(f)
    BY <1>27, <1>1, <1>2, <1>3, <1>4, <1>5, <1>6, <1>7, <1>8, <1>9
    DEF ProbeClean, Reasons, Outputs, In, IsStore, Resume, ProbeGo, CanIssue, t_wr_array, Probing, Quiet
  <2> QED
    BY <2>1, <2>2, <2>3, <2>4
<1>28. CASE ProbeDirty
  <2> DEFINE f == [Outputs EXCEPT !.st = "FLUSH_CL_WAIT", !.inh = TRUE,
             !.fetch = <<[wb |-> TRUE, l |-> p1.out.l, w |-> p1.out.w,
                          t |-> r_mem_req_tag]>>]
  <2>1. Edge(f)
    BY <1>28 DEF ProbeDirty
  <2>2. Typed(f)
    BY <1>28, <1>1, <1>2, <1>3, <1>4, <1>5, <1>6, <1>7, <1>9, Out1
    DEF ProbeDirty, Typed, Outputs, Set0, States, Request, WriteBack, In, Busy1, Held, Probing
  <2>3. Controls(f)
    BY <1>28, <1>1, <1>2, <1>3, <1>4, <1>5, <1>6, <1>7, <1>8, <1>9
    DEF ProbeDirty, Controls, Port1Next, HeldNext, Leaving, WalkNext, ProbeNext, SweepNext, Outputs,
        In, Busy1, Held, Walking, Probing, Sweeping, HeldSt, WalkSt, ProbeSt, SweepSt, Set0, None,
        Quiet, Resume
  <2>4. Reasons(f)
    BY <1>28, <1>1, <1>2, <1>3, <1>4, <1>5, <1>6, <1>7, <1>8, <1>9
    DEF ProbeDirty, Reasons, Outputs, In, IsStore, Resume, ProbeGo, CanIssue, t_wr_array, Probing, Quiet
  <2> QED
    BY <2>1, <2>2, <2>3, <2>4
<1>29. CASE ProbeWait
  <2>1. CASE w_queues_drained
    <3> DEFINE f == [Outputs EXCEPT !.st = Resume, !.was = FALSE, !.inh = FALSE, !.ack = TRUE]
    <3>1. Edge(f)
      BY <1>29, <2>1 DEF ProbeWait
    <3>2. Typed(f)
      BY <1>29, <2>1, <1>1, <1>2, <1>3, <1>4, <1>5, <1>6, <1>7, <1>9, Out1
      DEF ProbeWait, Resume, Typed, Outputs, Set0, States, Request, WriteBack, In, Busy1, Held, Probing
    <3>3. Controls(f)
      BY <1>29, <2>1, <1>1, <1>2, <1>3, <1>4, <1>5, <1>6, <1>7, <1>8, <1>9
      DEF ProbeWait, Controls, Port1Next, HeldNext, Leaving, WalkNext, ProbeNext, SweepNext, Outputs,
          In, Busy1, Held, Walking, Probing, Sweeping, HeldSt, WalkSt, ProbeSt, SweepSt, Set0, None,
          Quiet, Resume
    <3>4. Reasons(f)
      BY <1>29, <2>1, <1>1, <1>2, <1>3, <1>4, <1>5, <1>6, <1>7, <1>8, <1>9
      DEF ProbeWait, Reasons, Outputs, In, IsStore, Resume, ProbeGo, CanIssue, t_wr_array, Probing, Quiet
    <3> QED
      BY <3>1, <3>2, <3>3, <3>4
  <2>2. CASE ~(w_queues_drained)
    <3> DEFINE f == Outputs
    <3>1. Edge(f)
      BY <1>29, <2>2 DEF ProbeWait
    <3>2. Typed(f)
      BY <1>29, <2>2, <1>1, <1>2, <1>3, <1>4, <1>5, <1>6, <1>7, <1>9, Out1
      DEF ProbeWait, Resume, Typed, Outputs, Set0, States, Request, WriteBack, In, Busy1, Held, Probing
    <3>3. Controls(f)
      BY <1>29, <2>2, <1>1, <1>2, <1>3, <1>4, <1>5, <1>6, <1>7, <1>8, <1>9
      DEF ProbeWait, Controls, Port1Next, HeldNext, Leaving, WalkNext, ProbeNext, SweepNext, Outputs,
          In, Busy1, Held, Walking, Probing, Sweeping, HeldSt, WalkSt, ProbeSt, SweepSt, Set0, None,
          Quiet, Resume
    <3>4. Reasons(f)
      BY <1>29, <2>2, <1>1, <1>2, <1>3, <1>4, <1>5, <1>6, <1>7, <1>8, <1>9
      DEF ProbeWait, Reasons, Outputs, In, IsStore, Resume, ProbeGo, CanIssue, t_wr_array, Probing, Quiet
    <3> QED
      BY <3>1, <3>2, <3>3, <3>4
  <2> QED
    BY <2>1, <2>2
<1>30. CASE FlushClean
  <2> DEFINE f == [Outputs EXCEPT !.inval = p1.idx, !.idx = NextSet,
             !.st = IF LastSet THEN "ACTIVE" ELSE "FLUSH_CACHE",
             !.flushed = LastSet]
  <2>1. Edge(f)
    BY <1>30 DEF FlushClean
  <2>2. Typed(f)
    BY <1>30, <1>1, <1>2, <1>3, <1>4, <1>5, <1>6, <1>7, <1>9, Out1
    DEF FlushClean, Typed, Outputs, Set0, States, Request, WriteBack, In, Busy1, Held, Probing
  <2>3. Controls(f)
    BY <1>30, <1>1, <1>2, <1>3, <1>4, <1>5, <1>6, <1>7, <1>8, <1>9
    DEF FlushClean, Controls, Port1Next, HeldNext, Leaving, WalkNext, ProbeNext, SweepNext, Outputs,
        In, Busy1, Held, Walking, Probing, Sweeping, HeldSt, WalkSt, ProbeSt, SweepSt, Set0, None,
        Quiet, Resume
  <2>4. Reasons(f)
    BY <1>30, <1>1, <1>2, <1>3, <1>4, <1>5, <1>6, <1>7, <1>8, <1>9
    DEF FlushClean, Reasons, Outputs, In, IsStore, Resume, ProbeGo, CanIssue, t_wr_array, Probing, Quiet
  <2> QED
    BY <2>1, <2>2, <2>3, <2>4
<1>31. CASE FlushDirty
  <2> DEFINE f == [Outputs EXCEPT !.inval = p1.idx, !.idx = NextSet, !.inh = TRUE,
             !.st = IF LastSet THEN "FLUSH_CACHE_LAST_WAIT" ELSE "FLUSH_CACHE_WAIT",
             !.evict = <<[l |-> p1.out.l, w |-> p1.out.w]>>]
  <2>1. Edge(f)
    BY <1>31 DEF FlushDirty
  <2>2. Typed(f)
    BY <1>31, <1>1, <1>2, <1>3, <1>4, <1>5, <1>6, <1>7, <1>9, Out1
    DEF FlushDirty, Typed, Outputs, Set0, States, Request, WriteBack, In, Busy1, Held, Probing
  <2>3. Controls(f)
    BY <1>31, <1>1, <1>2, <1>3, <1>4, <1>5, <1>6, <1>7, <1>8, <1>9
    DEF FlushDirty, Controls, Port1Next, HeldNext, Leaving, WalkNext, ProbeNext, SweepNext, Outputs,
        In, Busy1, Held, Walking, Probing, Sweeping, HeldSt, WalkSt, ProbeSt, SweepSt, Set0, None,
        Quiet, Resume
  <2>4. Reasons(f)
    BY <1>31, <1>1, <1>2, <1>3, <1>4, <1>5, <1>6, <1>7, <1>8, <1>9
    DEF FlushDirty, Reasons, Outputs, In, IsStore, Resume, ProbeGo, CanIssue, t_wr_array, Probing, Quiet
  <2> QED
    BY <2>1, <2>2, <2>3, <2>4
<1>32. CASE FlushWait
  <2>1. CASE mem_rsp_valid
    <3> DEFINE f == [Outputs EXCEPT !.idx = p1.idx, !.inh = FALSE, !.st = "FLUSH_CACHE"]
    <3>1. Edge(f)
      BY <1>32, <2>1 DEF FlushWait
    <3>2. Typed(f)
      BY <1>32, <2>1, <1>1, <1>2, <1>3, <1>4, <1>5, <1>6, <1>7, <1>9, Out1
      DEF FlushWait, Typed, Outputs, Set0, States, Request, WriteBack, In, Busy1, Held, Probing
    <3>3. Controls(f)
      BY <1>32, <2>1, <1>1, <1>2, <1>3, <1>4, <1>5, <1>6, <1>7, <1>8, <1>9
      DEF FlushWait, Controls, Port1Next, HeldNext, Leaving, WalkNext, ProbeNext, SweepNext, Outputs,
          In, Busy1, Held, Walking, Probing, Sweeping, HeldSt, WalkSt, ProbeSt, SweepSt, Set0, None,
          Quiet, Resume
    <3>4. Reasons(f)
      BY <1>32, <2>1, <1>1, <1>2, <1>3, <1>4, <1>5, <1>6, <1>7, <1>8, <1>9
      DEF FlushWait, Reasons, Outputs, In, IsStore, Resume, ProbeGo, CanIssue, t_wr_array, Probing, Quiet
    <3> QED
      BY <3>1, <3>2, <3>3, <3>4
  <2>2. CASE ~(mem_rsp_valid)
    <3> DEFINE f == [Outputs EXCEPT !.idx = p1.idx]
    <3>1. Edge(f)
      BY <1>32, <2>2 DEF FlushWait
    <3>2. Typed(f)
      BY <1>32, <2>2, <1>1, <1>2, <1>3, <1>4, <1>5, <1>6, <1>7, <1>9, Out1
      DEF FlushWait, Typed, Outputs, Set0, States, Request, WriteBack, In, Busy1, Held, Probing
    <3>3. Controls(f)
      BY <1>32, <2>2, <1>1, <1>2, <1>3, <1>4, <1>5, <1>6, <1>7, <1>8, <1>9
      DEF FlushWait, Controls, Port1Next, HeldNext, Leaving, WalkNext, ProbeNext, SweepNext, Outputs,
          In, Busy1, Held, Walking, Probing, Sweeping, HeldSt, WalkSt, ProbeSt, SweepSt, Set0, None,
          Quiet, Resume
    <3>4. Reasons(f)
      BY <1>32, <2>2, <1>1, <1>2, <1>3, <1>4, <1>5, <1>6, <1>7, <1>8, <1>9
      DEF FlushWait, Reasons, Outputs, In, IsStore, Resume, ProbeGo, CanIssue, t_wr_array, Probing, Quiet
    <3> QED
      BY <3>1, <3>2, <3>3, <3>4
  <2> QED
    BY <2>1, <2>2
<1>33. CASE FlushLastWait
  <2>1. CASE mem_rsp_valid
    <3> DEFINE f == [Outputs EXCEPT !.idx = p1.idx, !.inh = FALSE, !.st = "ACTIVE", !.flushed = TRUE]
    <3>1. Edge(f)
      BY <1>33, <2>1 DEF FlushLastWait
    <3>2. Typed(f)
      BY <1>33, <2>1, <1>1, <1>2, <1>3, <1>4, <1>5, <1>6, <1>7, <1>9, Out1
      DEF FlushLastWait, Typed, Outputs, Set0, States, Request, WriteBack, In, Busy1, Held, Probing
    <3>3. Controls(f)
      BY <1>33, <2>1, <1>1, <1>2, <1>3, <1>4, <1>5, <1>6, <1>7, <1>8, <1>9
      DEF FlushLastWait, Controls, Port1Next, HeldNext, Leaving, WalkNext, ProbeNext, SweepNext, Outputs,
          In, Busy1, Held, Walking, Probing, Sweeping, HeldSt, WalkSt, ProbeSt, SweepSt, Set0, None,
          Quiet, Resume
    <3>4. Reasons(f)
      BY <1>33, <2>1, <1>1, <1>2, <1>3, <1>4, <1>5, <1>6, <1>7, <1>8, <1>9
      DEF FlushLastWait, Reasons, Outputs, In, IsStore, Resume, ProbeGo, CanIssue, t_wr_array, Probing, Quiet
    <3> QED
      BY <3>1, <3>2, <3>3, <3>4
  <2>2. CASE ~(mem_rsp_valid)
    <3> DEFINE f == [Outputs EXCEPT !.idx = p1.idx]
    <3>1. Edge(f)
      BY <1>33, <2>2 DEF FlushLastWait
    <3>2. Typed(f)
      BY <1>33, <2>2, <1>1, <1>2, <1>3, <1>4, <1>5, <1>6, <1>7, <1>9, Out1
      DEF FlushLastWait, Typed, Outputs, Set0, States, Request, WriteBack, In, Busy1, Held, Probing
    <3>3. Controls(f)
      BY <1>33, <2>2, <1>1, <1>2, <1>3, <1>4, <1>5, <1>6, <1>7, <1>8, <1>9
      DEF FlushLastWait, Controls, Port1Next, HeldNext, Leaving, WalkNext, ProbeNext, SweepNext, Outputs,
          In, Busy1, Held, Walking, Probing, Sweeping, HeldSt, WalkSt, ProbeSt, SweepSt, Set0, None,
          Quiet, Resume
    <3>4. Reasons(f)
      BY <1>33, <2>2, <1>1, <1>2, <1>3, <1>4, <1>5, <1>6, <1>7, <1>8, <1>9
      DEF FlushLastWait, Reasons, Outputs, In, IsStore, Resume, ProbeGo, CanIssue, t_wr_array, Probing, Quiet
    <3> QED
      BY <3>1, <3>2, <3>3, <3>4
  <2> QED
    BY <2>1, <2>2
<1> QED
  BY <1>10, <1>11, <1>12, <1>13, <1>14, <1>15, <1>16, <1>17, <1>18, <1>19, <1>20, <1>21, <1>22, <1>23, <1>24, <1>25, <1>26, <1>27, <1>28, <1>29, <1>30, <1>31, <1>32, <1>33 DEF Next
-----------------------------------------------------------------------------
(* A step from a state of the invariant, and what it does to each register.*)
Step(f) == IInv /\ Edge(f) /\ Typed(f) /\ Controls(f) /\ Reasons(f)

LEMMA Port1Edge ==
  ASSUME NEW f, Step(f)
  PROVE  /\ p1'.p = f.p /\ p1'.got = f.go /\ p1'.retry = f.retry /\ p1'.lw = f.lw
         /\ p1'.idx = (IF f.idx = None THEN 0 ELSE f.idx) /\ p1'.out = ReadAt(f.idx)
         /\ rr' = (IF p1.lw THEN p1.idx ELSE None)
         /\ r_wr_array' = t_wr_array
         /\ r_state' = f.st /\ r_miss_idx' = f.midx
         /\ r_lock_cache' = f.lock /\ r_inhibit_write' = f.inh
  BY DEF Step, Edge, Port1

LEMMA Port2Edge ==
  ASSUME NEW f, Step(f)
  PROVE  /\ p2'.got = (f.replay \/ t_accept(f))
         /\ p2'.p = (IF ~p2'.got THEN p2.p ELSE IF f.replay THEN p2.p ELSE req)
         /\ p2'.idx = (IF p2'.got THEN VIdx(p2'.p) ELSE 0)
         /\ p2'.got /\ ~p2'.line => \A j \in DOMAIN mq : Low[VIdx(mq[j])] # Low[p2'.idx]
         /\ p2'.got /\ ~p2'.fwd => ~(t_push_miss /\ Low[p2'.idx] = Low[p2.idx])
         /\ p2'.got => /\ p2'.out.v = cache[p2'.idx].v /\ p2'.out.d = cache[p2'.idx].d
         /\ r_pending_tlb_miss' = n_pending_tlb_miss
<1>1. Edge(f) /\ Port2(f, t_accept(f))
  BY DEF Step, Edge
<1> DEFINE got == f.replay \/ t_accept(f)
           new == IF f.replay THEN p2.p ELSE req
           i   == IF got THEN VIdx(new) ELSE 0
<1>2. got \in BOOLEAN
  BY DEF Step, Typed
<1>3. p2'.got = got /\ p2'.p = (IF got THEN new ELSE p2.p) /\ p2'.idx = i
      /\ p2'.line = (got /\ {j \in DOMAIN mq : Low[VIdx(mq[j])] = Low[i]} # {})
      /\ p2'.fwd = (got /\ t_push_miss /\ Low[i] = Low[p2.idx])
      /\ r_pending_tlb_miss' = n_pending_tlb_miss
  BY <1>1 DEF Port2
<1>4. got => p2'.out = cache[i] \/ p2'.out = [cache[i] EXCEPT !.w = Merge(p1.out.w, p1.p)]
  BY <1>1 DEF Port2
<1>5. got => cache[i] \in Line1
  <2>2. f.replay => In("TLB_TURNAROUND")
    BY DEF Step, Controls, WalkNext
  <2>3. f.replay => Awaited(p2.p)
    BY <2>2 DEF Step, IInv, Places, Port2Inv, Busy2, Walking, In
  <2>4. ~f.replay /\ got => req # 0 /\ Awaited(req)
    BY DEF Step, IInv, Places, t_accept, t_new_req
  <2>5. got => Awaited(new)
    BY <2>3, <2>4
  <2>6. got => new \in Pos
    <3>1. \A x : Awaited(x) => x \in Pos
      BY Registers, Sizes DEF Awaited, Pos, Step, IInv
    <3> QED
      BY <2>5, <3>1
  <2>7. got => i \in IDX
    BY <2>6, Operation, Registers DEF Step, IInv
  <2> QED
    BY <2>7, Registers DEF Step, IInv
<1>6. got => p2'.out.v = cache[i].v /\ p2'.out.d = cache[i].d
  BY <1>4, <1>5 DEF Line1
<1> QED
  BY <1>2, <1>3, <1>6

LEMMA CoreEdge ==
  ASSUME NEW f, Step(f)
  PROVE  /\ prog' = prog /\ sent' \in Int /\ sent \in Int /\ sent <= sent'
         /\ sent' = sent \/ (sent' = sent + 1 /\ MayRun(sent + 1))
         /\ \/ req' = IF t_accept(f) THEN 0 ELSE req
            \/ /\ req' = sent + 1 /\ sent' = sent + 1
               /\ Kind(sent + 1) \notin {"alu", "br", "fl"}
         /\ \A x \in done' : \/ x \in done \/ x \in Answers
                             \/ f.flushed /\ x = sent
                             \/ x = sent + 1 /\ sent' = x /\ Kind(x) \in {"alu", "br"}
         /\ done \subseteq done' /\ Answers \subseteq done'
         /\ \/ r_flush_req' = f.flush
            \/ r_flush_req' = TRUE /\ sent' = sent + 1 /\ Kind(sent + 1) = "fl"
<1>1. Sending(f, t_accept(f)) /\ prog' = prog
  BY DEF Step, Edge
<1>2. sent \in Int
  BY Registers DEF Step, IInv
<1>3. sent' = sent \/ sent' = sent + 1
  BY <1>1 DEF Sending
<1>4. sent' \in Int /\ sent <= sent'
  BY <1>2, <1>3
<1> QED
  BY <1>1, <1>2, <1>4 DEF Sending, Only
(* Where the requests are that are somewhere.                              *)
LEMMA Live ==
  ASSUME IInv
  PROVE  /\ Busy2 => Awaited(p2.p) /\ p2.p \in Pos /\ ret < p2.p /\ base < p2.p /\ p2.p <= sent
         /\ Busy1 => Queued(p1.p) /\ p1.p \in Pos /\ base < p1.p /\ p1.p <= sent
         /\ req # 0 => Awaited(req) /\ req \in Pos /\ ret < req /\ base < req /\ req <= sent
         /\ \A i \in DOMAIN mq : Queued(mq[i]) /\ mq[i] \in Pos /\ base < mq[i] /\ mq[i] <= sent
<1>1. base <= ret /\ base \in Int /\ ret \in Int /\ Pos \subseteq Int
  BY Registers, Sizes DEF IInv, Pos
<1>2. \A x : Awaited(x) => x \in Pos /\ ret < x /\ base < x /\ x <= sent
  BY <1>1 DEF Awaited
<1>3. \A x : Queued(x) => x \in Pos /\ base < x /\ x <= sent
  BY DEF Queued
<1> QED
  BY <1>2, <1>3 DEF IInv, Places

LEMMA Answering ==
  ASSUME IInv, NEW x \in Answers
  PROVE  /\ x \in Pos /\ base < x /\ x <= sent /\ Kind(x) \notin {"alu", "br", "fl"}
         /\ \/ x = p2.p /\ p2.got /\ Answer2
            \/ x = p1.p /\ p1.got /\ w_got_hit /\ Answer1
<1>1. \/ x = p2.p /\ Answer2 /\ p2.got
      \/ x = p1.p /\ Answer1 /\ p1.got /\ w_got_hit
  BY DEF Answers, Only, Answer1, Answer2, w_got_hit
<1>2. CASE x = p2.p /\ p2.got
  BY <1>1, <1>2, Live DEF Busy2, Awaited
<1>3. CASE x = p1.p /\ p1.got
  BY <1>1, <1>3, Live DEF Busy1, Queued
<1> QED
  BY <1>1, <1>2, <1>3

(* A restart finds nothing in the cache's hands.                           *)
LEMMA Emptied ==
  ASSUME IInv, NEW f, memq_empty(f)
  PROVE  mq = <<>> /\ ~Busy1 /\ ~Busy2 /\ req = 0 /\ base + 1 .. sent \subseteq done
<1>1. mq = <<>> /\ req = 0 /\ base + 1 .. sent \subseteq done /\ r_rob_inflight = {}
  BY DEF memq_empty
<1>2. ~Busy1
  BY <1>1 DEF IInv, Slotted
<1>3. ~Busy2
  <2> SUFFICES ASSUME Busy2 PROVE FALSE
    OBVIOUS
  <2>1. PICK x : x = p2.p
    OBVIOUS
  <2>2. x \in Pos /\ base < x /\ x <= sent /\ x \notin done
    BY <2>1, Live DEF Awaited
  <2>3. base \in Int /\ sent \in Int /\ x \in Int
    BY <2>2, Registers, Positions DEF IInv
  <2> QED
    BY <1>1, <2>2, <2>3
<1> QED
  BY <1>1, <1>2, <1>3

LEMMA RetireEdge ==
  ASSUME NEW f, Step(f)
  PROVE  /\ ret' \in Int /\ base' \in Int /\ ret <= ret' /\ ret' <= sent
         /\ base <= base' /\ base' <= ret' /\ pulse' \subseteq 1 .. ret'
         /\ \A x \in Pos : base' < x /\ x <= ret' => x \in done
         /\ \A x \in Pos : ret < x /\ x <= ret' => x \in done
         /\ base' # base => /\ mq = <<>> /\ ~Busy1 /\ ~Busy2 /\ req = 0
                            /\ base' = sent /\ sent' = sent
         /\ ret' # ret => ret < sent
         /\ mode = "run" /\ mode' # "run" => ret < sent /\ ret + 1 \in done
         /\ mode' \in {"run", "ds", "drain"} /\ dead' \subseteq dead \cup (ret + 1 .. sent)
<1>1. Retiring(f) /\ IInv /\ Types /\ Pos \subseteq Int
  BY Sizes DEF Step, Edge, IInv, Pos
<1>2. /\ ret \in Int /\ sent \in Int /\ base \in Int /\ 0 <= base /\ base <= ret /\ ret <= sent
      /\ mode \in {"run", "ds", "drain"} /\ pulse \subseteq 1 .. ret
  BY <1>1, Registers DEF TypeOK, Types
<1>3. \A x \in Pos : base < x /\ x <= ret => x \in done
  BY <1>1 DEF IInv, Window
<1>4. CASE UNCHANGED <<ret, base, dead>> /\ pulse' = {}
           /\ mode' = IF mode = "run" THEN "run" ELSE "drain"
  BY <1>1, <1>2, <1>3, <1>4
<1>5. ASSUME NEW n \in {1, 2}, mode = "run", \A i \in 1 .. n : Retires(ret + i),
             ret' = ret + n, pulse' = {ret + i : i \in 1 .. n},
             mode' = IF n = 1 /\ Restarts(ret + 1) THEN "ds" ELSE "run",
             UNCHANGED <<base, dead>>
      PROVE  /\ ret' <= sent /\ pulse' \subseteq 1 .. ret' /\ ret < sent
             /\ \A x \in Pos : ret < x /\ x <= ret' => x \in done
             /\ ret + 1 \in done /\ ret' \in Int /\ base' = base /\ ret <= ret'
             /\ mode' \in {"run", "ds", "drain"}
             /\ \A x \in Pos : base' < x /\ x <= ret' => x \in done
  <2>1. \A x \in ret + 1 .. ret + n : x <= sent /\ x \in done
    <3>1. TAKE x \in ret + 1 .. ret + n
    <3>2. PICK i \in 1 .. n : x = ret + i
      BY <1>2, x - ret \in 1 .. n, x = ret + (x - ret)
    <3> QED
      BY <1>5, <3>2 DEF Retires
  <2>2. ret + n \in ret + 1 .. ret + n /\ ret + 1 \in ret + 1 .. ret + n /\ ret + n \in Int
    BY <1>2
  <2>3. \A x \in Pos : ret < x /\ x <= ret + n => x \in done
    BY <1>1, <1>2, <2>1, <2>2
  <2>4. \A x \in Pos : base < x /\ x <= ret + n => x \in done
    BY <1>1, <1>2, <1>3, <2>3
  <2>5. ret + n <= sent /\ {ret + i : i \in 1 .. n} \subseteq 1 .. ret + n /\ ret < sent
        /\ ret <= ret + n
    BY <1>2, <2>1, <2>2
  <2> QED
    BY <1>5, <2>1, <2>2, <2>3, <2>4, <2>5
<1>7. CASE /\ mode = "run" /\ ret < sent /\ ret + 1 \in done /\ Faults(ret + 1)
           /\ mode' = "ds" /\ pulse' = {} /\ UNCHANGED <<ret, base, dead>>
  BY <1>1, <1>2, <1>3, <1>7
<1>8. CASE /\ mode = "drain" /\ memq_empty(f)
           /\ mode' = "run" /\ ret' = sent /\ base' = sent /\ pulse' = {}
           /\ dead' = dead \cup (ret + 1 .. sent)
  <2>1. mq = <<>> /\ ~Busy1 /\ ~Busy2 /\ req = 0 /\ base + 1 .. sent \subseteq done
    BY <1>1, <1>8, Emptied
  <2>2. sent' = sent
    BY <1>8, CoreEdge DEF MayRun
  <2>3. \A x \in Pos : ret < x /\ x <= sent => x \in done
    BY <1>1, <1>2, <2>1
  <2> QED
    BY <1>1, <1>2, <1>8, <2>1, <2>2, <2>3
<1> QED
  <2>1. \/ UNCHANGED <<ret, base, dead>> /\ pulse' = {}
           /\ mode' = IF mode = "run" THEN "run" ELSE "drain"
        \/ \E n \in {1, 2} :
              /\ mode = "run" /\ \A i \in 1 .. n : Retires(ret + i)
              /\ ret' = ret + n /\ pulse' = {ret + i : i \in 1 .. n}
              /\ mode' = IF n = 1 /\ Restarts(ret + 1) THEN "ds" ELSE "run"
              /\ UNCHANGED <<base, dead>>
        \/ /\ mode = "run" /\ ret < sent /\ ret + 1 \in done /\ Faults(ret + 1)
           /\ mode' = "ds" /\ pulse' = {} /\ UNCHANGED <<ret, base, dead>>
        \/ /\ mode = "drain" /\ memq_empty(f)
           /\ mode' = "run" /\ ret' = sent /\ base' = sent /\ pulse' = {}
           /\ dead' = dead \cup (ret + 1 .. sent)
    BY <1>1 DEF Retiring
  <2> QED
    BY <1>2, <1>4, <1>5, <1>7, <1>8, <2>1

-----------------------------------------------------------------------------
(* How requests move: from the core to port 2, to the queue, to port 1.    *)
LEMMA Move2 ==
  ASSUME NEW f, Step(f), Busy2'
  PROVE  \/ /\ p2'.p = p2.p /\ Busy2 /\ ~t_push_miss /\ ~Answer2 /\ ~t_accept(f)
            /\ p2'.got => f.replay /\ ~p2.got /\ r_pending_tlb_miss
         \/ t_accept(f) /\ req # 0 /\ p2'.p = req /\ p2'.got /\ ~f.replay /\ ~n_pending_tlb_miss
<1>1. IInv /\ (f.replay => In("TLB_TURNAROUND"))
  BY DEF Step, Controls, WalkNext
<1>2. f.replay => r_pending_tlb_miss /\ ~p2.got
  BY <1>1 DEF IInv, Port2Inv, Walking, In
<1>3. t_accept(f) => req # 0 /\ ~n_pending_tlb_miss /\ ~r_pending_tlb_miss
  BY DEF t_accept, t_new_req
<1>4. Busy2' <=> p2'.got \/ r_pending_tlb_miss'
  BY DEF Busy2
<1>5. n_pending_tlb_miss <=> IF p2.got THEN TlbMiss2 ELSE r_pending_tlb_miss
  BY <1>1 DEF n_pending_tlb_miss, IInv, Types, TlbMiss2
<1>6. TlbMiss2 => ~t_push_miss /\ ~Answer2 /\ p2.got
  BY DEF TlbMiss2, t_push_miss, Answer2, Access2, Ready2, Prefetch2, Nop2, Live2, Fault2,
         t_incr_busy, ReadHit2
<1>7. ~p2.got => ~t_push_miss /\ ~Answer2
  BY DEF t_push_miss, Answer2, Access2, Ready2, Prefetch2, Live2, ReadHit2
<1>8. CASE f.replay
  BY <1>2, <1>3, <1>7, <1>8, Port2Edge DEF Busy2
<1>9. CASE ~f.replay /\ t_accept(f)
  BY <1>3, <1>9, Port2Edge
<1>10. CASE ~f.replay /\ ~t_accept(f)
  <2>1. ~p2'.got /\ p2'.p = p2.p /\ n_pending_tlb_miss
    BY <1>4, <1>10, Port2Edge
  <2> QED
    BY <1>5, <1>6, <1>7, <1>10, <2>1 DEF Busy2
<1> QED
  BY <1>8, <1>9, <1>10

LEMMA Move1 ==
  ASSUME NEW f, Step(f), Busy1'
  PROVE  IF f.pop
         THEN mq # <<>> /\ p1'.p = Head(mq) /\ Kind(Head(mq)) # "pf" /\ CanIssue
         ELSE p1'.p = p1.p /\ Busy1 /\ ~w_got_hit
<1>1. f.go \/ f.st \in HeldSt
  BY Port1Edge DEF Busy1, Held, HeldSt
<1>2. Port1Next(f)
  BY DEF Step, Controls
<1>3. f.pop => CanIssue /\ mq # <<>>
  BY <1>2 DEF Port1Next, CanIssue
<1> QED
  BY <1>1, <1>2, <1>3, Port1Edge DEF Port1Next

Popped(f) == IF f.pop THEN 1 ELSE 0
LEMMA MoveQ ==
  ASSUME NEW f, Step(f)
  PROVE  /\ f.pop => mq # <<>> /\ CanIssue
         /\ Popped(f) \in 0 .. 1 /\ Popped(f) <= Len(mq) /\ Len(mq) \in Nat
         /\ t_push_miss => p2.got /\ p2.p \in Pos
         /\ Len(mq') = Len(mq) - Popped(f) + (IF t_push_miss THEN 1 ELSE 0)
         /\ mq' \in Seq(Pos)
         /\ \A i \in 1 .. Len(mq) - Popped(f) : mq'[i] = mq[i + Popped(f)]
         /\ t_push_miss => mq'[Len(mq) - Popped(f) + 1] = p2.p
<1>1. Port1Next(f) /\ IInv /\ Queue(f) /\ mq \in Seq(Pos)
  BY DEF Step, Controls, Edge, IInv, Types
<1>2. f.pop => CanIssue /\ mq # <<>>
  BY <1>1 DEF Port1Next, CanIssue
<1>3. t_push_miss => p2.got /\ p2.p \in Pos
  BY <1>1, Live DEF t_push_miss, Prefetch2, Ready2, Access2, Live2, Busy2
<1>4. /\ Popped(f) \in 0 .. 1 /\ Popped(f) <= Len(mq)
      /\ n_mq(f) \in Seq(Pos) /\ Len(n_mq(f)) = Len(mq) - Popped(f)
      /\ \A i \in 1 .. Len(mq) - Popped(f) : n_mq(f)[i] = mq[i + Popped(f)]
  <2>1. CASE f.pop
    <3>1. Tail(mq) \in Seq(Pos) /\ Len(Tail(mq)) = Len(mq) - 1 /\ 1 <= Len(mq)
          /\ \A i \in 1 .. Len(mq) - 1 : Tail(mq)[i] = mq[i + 1]
      BY <1>1, <1>2, <2>1
    <3> QED
      BY <1>1, <2>1, <3>1 DEF n_mq, Popped
  <2>2. CASE ~f.pop
    BY <1>1, <2>2 DEF n_mq, Popped
  <2> QED
    BY <2>1, <2>2
<1>5. mq' = IF t_push_miss THEN Append(n_mq(f), p2.p) ELSE n_mq(f)
  BY <1>1 DEF Queue
<1> QED
  BY <1>1, <1>2, <1>3, <1>4, <1>5

(* What requests that are not answered or dropped still are.               *)
StillAwaited(x) == /\ x \in Pos /\ ret' < x /\ x <= sent' /\ x \notin done'
                   /\ Kind(x) \notin {"alu", "br", "fl"}
StillQueued(x) == /\ x \in Pos /\ base' < x /\ x <= sent' /\ Kind(x) \in {"ld", "st", "ll", "sc", "pf"}
                  /\ Kind(x) \in {"ld", "ll", "sc"} => StillAwaited(x)

LEMMA Unanswered ==
  ASSUME NEW f, Step(f), NEW x, x \notin Answers
  PROVE  /\ Awaited(x) => StillAwaited(x)
         /\ Queued(x) /\ base' = base => StillQueued(x)
<1>1. Awaited(x) => StillAwaited(x)
  <2> SUFFICES ASSUME Awaited(x) PROVE StillAwaited(x)
    OBVIOUS
  <2>1. x \in Pos /\ ret < x /\ x <= sent /\ x \notin done /\ Kind(x) \notin {"alu", "br", "fl"}
        /\ x \in Int
    BY Sizes DEF Awaited, Pos
  <2>2. /\ ret' \in Int /\ ret <= ret' /\ ret' <= sent /\ ret \in Int /\ sent \in Int
        /\ \A y \in Pos : ret < y /\ y <= ret' => y \in done
        /\ sent' \in Int /\ sent <= sent'
    BY RetireEdge, CoreEdge, Registers DEF Step, IInv
  <2>3. ret' < x /\ x <= sent'
    BY <2>1, <2>2
  <2>4. f.flushed => Kind(sent) = "fl"
    BY DEF Step, Controls, SweepNext, IInv, Sweeps
  <2>5. x # sent + 1
    BY <2>1, <2>2
  <2>6. x \notin done'
    BY <2>1, <2>4, <2>5, CoreEdge
  <2> QED
    BY <2>1, <2>3, <2>6 DEF StillAwaited
<1>2. ASSUME Queued(x), base' = base PROVE StillQueued(x)
  <2>1. sent' \in Int /\ sent <= sent' /\ base \in Int /\ sent \in Int /\ Pos \subseteq Int
    BY CoreEdge, Registers, Positions DEF Step, IInv
  <2> QED
    BY <1>1, <1>2, <2>1 DEF Queued, StillQueued
<1> QED
  BY <1>1, <1>2

(* The reorder buffer: what is retired was done, what is done was sent, and*)
(* a serializing instruction is alone.                                     *)
LEMMA WindowStep == ASSUME NEW f, Step(f) PROVE Window'
<1>1. /\ ret \in Int /\ sent \in Int /\ base \in Int /\ 0 <= base /\ base <= ret /\ ret <= sent
      /\ ret <= ret' /\ ret' <= sent /\ base <= base' /\ base' <= ret' /\ Window /\ IInv
      /\ (sent' = sent \/ (sent' = sent + 1 /\ MayRun(sent + 1)))
      /\ Pos \subseteq Int /\ sent <= N
  <2>1. IInv /\ Window /\ Types
    BY DEF Step, IInv
  <2> QED
    BY <2>1, RetireEdge, CoreEdge, Registers, Positions
<1>2. PICK r \in Int, s \in Int : r = ret' /\ s = sent'
  BY RetireEdge, CoreEdge
<1>3. /\ ret <= r /\ r <= sent /\ sent <= s
      /\ (s = sent \/ (s = sent + 1 /\ MayRun(sent + 1)))
  BY <1>1, <1>2, CoreEdge
<1>4. \A p \in Pos : base' < p /\ p <= ret' => p \in done'
  BY RetireEdge, CoreEdge
<1>5. \A p \in done' : p \in Pos /\ p <= s
  <2>1. \A x \in Answers : x \in Pos /\ x <= sent
    BY <1>1, Answering
  <2>2. \A x \in done : x \in Pos /\ x <= sent
    BY <1>1 DEF Window
  <2>3. f.flushed => sent \in Pos
    BY <1>1, Sizes DEF Step, Controls, SweepNext, IInv, Sweeps, Pos
  <2>4. MayRun(sent + 1) => sent + 1 \in Pos
    BY <1>1, Sizes DEF MayRun, Pos
  <2>5. \A x \in Pos : x <= sent => x <= s
    BY <1>1, <1>3
  <2>6. \A x \in done' : x \in done \/ x \in Answers \/ (f.flushed /\ x = sent)
                         \/ (x = sent + 1 /\ s = x /\ MayRun(sent + 1))
    <3>1. s = sent + 1 => MayRun(sent + 1)
      BY <1>1, <1>3
    <3> QED
      BY <1>2, <3>1, CoreEdge
  <2>7. sent <= sent /\ \A x \in Pos : x <= x
    BY <1>1
  <2> QED
    BY <2>1, <2>2, <2>3, <2>4, <2>5, <2>6, <2>7
<1>6. s - r <= NROB
  <2>1. MayRun(sent + 1) => sent + 1 - ret <= NROB
    BY <1>1, Sizes DEF MayRun
  <2>2. sent - ret <= NROB /\ NROB \in Nat
    BY <1>1, Sizes DEF Window
  <2> QED
    BY <1>1, <1>3, <2>1, <2>2
<1>7. \A p, q \in Pos : r < p /\ p <= s /\ Kind(p) \in Serial /\ r < q /\ q <= s => q = p
  <2> SUFFICES ASSUME NEW p \in Pos, NEW q \in Pos, r < p, p <= s, Kind(p) \in Serial,
                      r < q, q <= s
               PROVE  q = p
    OBVIOUS
  <2>1. p \in Int /\ q \in Int
    BY <1>1
  <2>2. CASE s = sent
    BY <1>1, <1>3, <2>1, <2>2 DEF Window
  <2>3. CASE s = sent + 1 /\ MayRun(sent + 1)
    <3>1. Kind(sent + 1) \in Serial => ret = sent
      BY <2>3 DEF MayRun
    <3>2. CASE ret = sent
      BY <1>1, <1>3, <2>1, <2>3, <3>2
    <3>3. CASE ret # sent
      <4>1. p # sent + 1
        BY <3>1, <3>3
      <4>2. sent \in Pos /\ ret < sent
        BY <1>1, <3>3, Sizes DEF Pos
      <4>3. sent = p
        <5>1. ret < p /\ p <= sent
          BY <1>1, <1>3, <2>1, <2>3, <4>1
        <5>2. sent <= sent
          BY <1>1
        <5> QED
          BY <1>1, <4>2, <5>1, <5>2 DEF Window
      <4> QED
        BY <2>3, <3>3, <4>3 DEF MayRun
    <3> QED
      BY <3>2, <3>3
  <2> QED
    BY <1>3, <2>2, <2>3
<1>8. \A p : Kind(p)' = Kind(p)
  BY CoreEdge DEF Kind
<1>9. sent' - ret' <= NROB
  BY ONLY <1>2, <1>6, Zenon
<1>10. \A p \in done' : p \in Pos /\ p <= sent'
  BY <1>2, <1>5
<1>11. \A p, q \in Pos : ret' < p /\ p <= sent' /\ Kind(p)' \in Serial /\ ret' < q /\ q <= sent'
                         => q = p
  BY <1>2, <1>7, <1>8
<1> QED
  BY ONLY <1>4, <1>9, <1>10, <1>11, Zenon DEF Window, Pos

LEMMA PlacesStep == ASSUME NEW f, Step(f) PROVE Places'
<1>1. IInv
  BY DEF Step
<1>2. \A x : Awaited(x)' <=> StillAwaited(x)
  BY CoreEdge DEF Awaited, StillAwaited, Kind
<1>3. \A x : Queued(x)' <=> StillQueued(x)
  BY <1>2, CoreEdge DEF Queued, StillQueued, Kind
<1>4. req' # 0 => Awaited(req)'
  <2>1. ASSUME req' = req, req # 0, ~t_accept(f) PROVE StillAwaited(req)
    <3>1. req \notin Answers
      <4>1. p2.got => p2.p # req
        BY <1>1, <2>1, Live, Registers DEF IInv, Ordered, Busy2
      <4>2. p1.got => p1.p # req
        BY <1>1, <2>1, Live, Registers DEF IInv, Ordered, Busy1
      <4> QED
        BY <1>1, <4>1, <4>2, Answering
    <3> QED
      BY <1>1, <2>1, <3>1, Unanswered, Live
  <2>2. ASSUME req' = sent + 1, sent' = sent + 1, Kind(sent + 1) \notin {"alu", "br", "fl"}
        PROVE  StillAwaited(sent + 1)
    <3>1. ret' <= sent /\ sent \in Int /\ sent + 1 \in Pos /\ ret' < sent + 1
      <4>1. ret' \in Int /\ ret' <= sent /\ sent \in Int /\ 0 <= sent
        BY <1>1, RetireEdge, Registers DEF IInv
      <4>2. MayRun(sent + 1)
        <5>1. sent' # sent
          BY <2>2, <4>1
        <5> QED
          BY <5>1, CoreEdge
      <4>3. sent + 1 \in Pos
        BY <4>1, <4>2, Sizes DEF MayRun, Pos
      <4>4. \A a \in Int : a <= sent => a < sent + 1
        BY <4>1
      <4> QED
        BY <4>1, <4>3, <4>4
    <3>2. \A x : x \in Answers \/ x \in done => x <= sent
      BY <1>1, Answering DEF IInv, Window
    <3>3. sent + 1 \notin done'
      <4>1. ~(sent + 1 <= sent)
        BY <3>1
      <4>2. sent + 1 # sent
        BY <3>1
      <4> QED
        BY <2>2, <3>2, <4>1, <4>2, CoreEdge
    <3>4. sent + 1 <= sent'
      BY <2>2, <3>1
    <3> QED
      BY <2>2, <3>1, <3>3, <3>4 DEF StillAwaited
  <2>3. \A x : StillAwaited(x) /\ req' = x => Awaited(req)'
    BY <1>2, CoreEdge DEF Awaited, StillAwaited, Kind
  <2> QED
    BY <2>1, <2>2, <2>3, CoreEdge
<1>5. Busy2' => Awaited(p2.p)'
  <2> SUFFICES ASSUME Busy2' PROVE Awaited(p2.p)'
    OBVIOUS
  <2>1. PICK x : x = p2'.p
    OBVIOUS
  <2>2. Awaited(x) /\ x \notin Answers
    <3>1. CASE p2'.p = p2.p /\ Busy2 /\ ~Answer2
      <4>1. p1.got => p1.p # p2.p
        BY <1>1, <3>1, Live, Registers DEF IInv, Ordered, Busy1
      <4> QED
        BY <1>1, <2>1, <3>1, <4>1, Answering, Live
    <3>2. CASE req # 0 /\ p2'.p = req
      <4>1. p2.got => p2.p # req
        BY <1>1, <3>2, Live, Registers DEF IInv, Ordered, Busy2
      <4>2. p1.got => p1.p # req
        BY <1>1, <3>2, Live, Registers DEF IInv, Ordered, Busy1
      <4> QED
        BY <1>1, <2>1, <3>2, <4>1, <4>2, Answering, Live
    <3> QED
      BY <3>1, <3>2, Move2
  <2>3. StillAwaited(x)
    BY <2>2, Unanswered
  <2> QED
    BY <2>1, <2>3, CoreEdge DEF Awaited, StillAwaited, Kind
<1>6. base' # base => mq = <<>> /\ ~Busy1 /\ ~Busy2
  BY RetireEdge
<1>7. ASSUME NEW x, Queued(x), x \notin Answers, base' = base
      PROVE  StillQueued(x)
  BY <1>7, Unanswered
<1>8. \A i \in DOMAIN mq' : Queued(mq[i])'
  <2> SUFFICES ASSUME NEW i \in DOMAIN mq' PROVE Queued(mq[i])'
    OBVIOUS
  <2>1. PICK x : x = mq'[i]
    OBVIOUS
  <2>2. /\ i \in 1 .. Len(mq') /\ Len(mq) \in Nat /\ Popped(f) \in 0 .. 1 /\ mq' \in Seq(Pos)
        /\ DOMAIN mq = 1 .. Len(mq)
    BY <1>1, MoveQ DEF IInv, Types
  <2>3. base' = base /\ Queued(x) /\ (Kind(x) \in {"ld", "ll", "sc"} => x \notin Answers)
    <3>1. CASE i <= Len(mq) - Popped(f)
      <4>1. PICK j \in DOMAIN mq : x = mq[j]
        BY <2>1, <2>2, <3>1, MoveQ
      <4>2. base' = base /\ Queued(x)
        BY <1>1, <1>6, <2>2, <4>1, Live
      <4>3. (p2.got => p2.p # x) /\ (p1.got => p1.p # x)
        BY <1>1, <4>1, Live, Registers DEF IInv, Ordered, Busy1, Busy2
      <4> QED
        BY <1>1, <4>2, <4>3, Answering
    <3>2. CASE i > Len(mq) - Popped(f)
      <4>1. x = p2.p /\ p2.got /\ t_push_miss
        BY <2>1, <2>2, <3>2, MoveQ
      <4>2. base' = base /\ Awaited(x)
        BY <1>1, <1>6, <4>1, Live DEF Busy2
      <4>3. Kind(x) \in {"ld", "st", "ll", "sc", "pf"}
        <5>1. x \in Pos /\ prog \in PROGRAMS
          BY <1>1, <4>1, Live, Registers DEF Busy2, IInv
        <5>2. Kind(x) \in Kinds
          BY <5>1, Operation
        <5>3. Kind(x) \notin {"alu", "br", "fl"}
          BY <4>2 DEF Awaited
        <5>4. Kind(x) # "nop"
          BY <4>1 DEF t_push_miss, Prefetch2, Ready2, Access2, Nop2
        <5> QED
          BY <5>2, <5>3, <5>4 DEF Kinds
      <4>4. p1.got => p1.p # x
        BY <1>1, <4>1, Live, Registers DEF IInv, Ordered, Busy1, Busy2
      <4>5. Kind(x) \in {"ld", "ll", "sc"} => ~Answer2
        BY <4>1 DEF t_push_miss, Prefetch2, Ready2, Access2, Nop2, Live2, Answer2, Fault2,
                    t_incr_busy, IsStore
      <4>7. Queued(x)
        BY <1>1, <4>1, <4>2, <4>3, Live DEF Queued, Awaited, Busy2
      <4> QED
        BY <1>1, <4>1, <4>2, <4>4, <4>5, <4>7, Answering
    <3> QED
      BY <2>2, <3>1, <3>2
  <2>4. StillQueued(x)
    <3>1. CASE x \notin Answers
      BY <1>7, <2>3, <3>1
    <3>2. CASE Kind(x) \notin {"ld", "ll", "sc"}
      <4>1. \A y \in Pos : y <= sent => y <= sent'
        <5>1. PICK s \in Int : s = sent'
          BY CoreEdge
        <5>2. sent \in Int /\ sent <= s
          BY <5>1, CoreEdge
        <5>3. \A y \in Pos : y <= sent => y <= s
          BY <5>2, Positions
        <5> QED
          BY <5>1, <5>3
      <4> QED
        BY <2>3, <3>2, <4>1 DEF Queued, StillQueued
    <3> QED
      BY <2>3, <3>1, <3>2
  <2> QED
    BY <2>1, <2>4, CoreEdge, <1>2 DEF Queued, StillQueued, Kind, Awaited, StillAwaited
<1>9. Busy1' => Queued(p1.p)' /\ Kind(p1.p)' # "pf"
  <2> SUFFICES ASSUME Busy1' PROVE Queued(p1.p)' /\ Kind(p1.p)' # "pf"
    OBVIOUS
  <2>1. PICK x : x = p1'.p
    OBVIOUS
  <2>2. base' = base /\ Queued(x) /\ x \notin Answers /\ Kind(x) # "pf"
    <3>1. CASE f.pop
      <4>1. x = mq[1] /\ 1 \in DOMAIN mq /\ Kind(x) # "pf" /\ mq # <<>>
        BY <1>1, <2>1, <3>1, Move1 DEF IInv, Types
      <4>2. (p2.got => p2.p # x) /\ (p1.got => p1.p # x)
        BY <1>1, <4>1, Live, Registers DEF IInv, Ordered, Busy1, Busy2
      <4> QED
        BY <1>1, <1>6, <4>1, <4>2, Live, Answering
    <3>2. CASE ~f.pop
      <4>1. x = p1.p /\ Busy1 /\ ~w_got_hit
        BY <2>1, <3>2, Move1
      <4>2. p2.got => p2.p # x
        BY <1>1, <4>1, Live, Registers DEF IInv, Ordered, Busy1, Busy2
      <4>3. Kind(x) # "pf"
        BY <1>1, <4>1 DEF IInv, Places
      <4> QED
        BY <1>1, <1>6, <4>1, <4>2, <4>3, Live, Answering
    <3> QED
      BY <3>1, <3>2
  <2>3. StillQueued(x)
    BY <2>2, Unanswered
  <2> QED
    BY <2>1, <2>2, <2>3, CoreEdge DEF Queued, StillQueued, Kind, Awaited, StillAwaited
<1> QED
  BY <1>4, <1>5, <1>8, <1>9 DEF Places

LEMMA OldOrNew ==
  ASSUME NEW f, Step(f), NEW i \in DOMAIN mq'
  PROVE  /\ i \in Nat \ {0} /\ mq'[i] \in Pos
         /\ \/ /\ i + Popped(f) \in DOMAIN mq /\ mq'[i] = mq[i + Popped(f)]
               /\ i <= Len(mq) - Popped(f)
            \/ /\ t_push_miss /\ p2.got /\ mq'[i] = p2.p /\ i = Len(mq) - Popped(f) + 1
<1>1. /\ mq \in Seq(Pos) /\ mq' \in Seq(Pos) /\ Len(mq) \in Nat /\ Popped(f) \in 0 .. 1
      /\ DOMAIN mq = 1 .. Len(mq) /\ DOMAIN mq' = 1 .. Len(mq')
      /\ Popped(f) <= Len(mq) /\ (t_push_miss => p2.got)
  BY MoveQ DEF Step, IInv, Types
<1>2. Len(mq') = Len(mq) - Popped(f) + (IF t_push_miss THEN 1 ELSE 0)
  BY MoveQ
<1>3. PICK d \in 0 .. 1, n \in Nat, m \in Nat : d = Popped(f) /\ n = Len(mq) /\ m = Len(mq')
  <2>1. Len(mq') \in Nat
    BY <1>1
  <2> QED
    BY <1>1, <2>1
<1>4. i \in 1 .. m /\ m = n - d + (IF t_push_miss THEN 1 ELSE 0) /\ d <= n
  BY <1>1, <1>2, <1>3
<1>5. i \in Nat \ {0} /\ mq'[i] \in Pos
  BY <1>1
<1>6. CASE i <= n - d
  <2>1. i + d \in 1 .. n
    BY <1>3, <1>5, <1>6
  <2>2. mq'[i] = mq[i + Popped(f)]
    BY <1>3, <1>5, <1>6, MoveQ
  <2> QED
    BY <1>1, <1>3, <1>5, <1>6, <2>1, <2>2
<1>7. CASE i > n - d
  <2>1. t_push_miss /\ i = n - d + 1
    BY <1>3, <1>4, <1>7
  <2> QED
    BY <1>1, <1>3, <1>5, <2>1, MoveQ
<1> QED
  BY <1>3, <1>4, <1>6, <1>7

(* Requests keep their program order through both pipelines and the queue. *)
LEMMA OrderedStep == ASSUME NEW f, Step(f) PROVE Ordered'
<1>1. IInv /\ Ordered /\ Pos \subseteq Int /\ sent \in Int /\ mq \in Seq(Pos)
  BY Registers, Positions DEF Step, IInv, Types
<1>2. PICK d \in 0 .. 1 : d = Popped(f) /\ (f.pop => d = 1)
  BY DEF Popped
<1>3. \A i \in DOMAIN mq' :
        /\ i \in Int /\ i >= 1
        /\ \/ i + d \in DOMAIN mq /\ mq'[i] = mq[i + d] /\ i <= Len(mq) - d
           \/ t_push_miss /\ p2.got /\ Busy2 /\ mq'[i] = p2.p /\ i = Len(mq) - d + 1
  BY <1>2, OldOrNew DEF Busy2
<1>4. \A x \in Int : x <= sent => x < sent + 1
  BY <1>1
<1>5. \A i, j \in DOMAIN mq' : i < j => mq'[i] < mq'[j]
  <2> SUFFICES ASSUME NEW i \in DOMAIN mq', NEW j \in DOMAIN mq', i < j PROVE mq'[i] < mq'[j]
    OBVIOUS
  <2>1. Len(mq) \in Int /\ i \in Int /\ j \in Int
    BY <1>1, <1>3
  <2>2. i + d \in DOMAIN mq /\ mq'[i] = mq[i + d]
    BY <1>3, <2>1
  <2>3. CASE j + d \in DOMAIN mq /\ mq'[j] = mq[j + d]
    BY <1>1, <2>1, <2>2, <2>3 DEF Ordered
  <2>4. CASE Busy2 /\ mq'[j] = p2.p
    BY <1>1, <2>2, <2>4 DEF Ordered
  <2> QED
    BY <1>3, <2>3, <2>4
<1>6. ASSUME Busy1' PROVE \A i \in DOMAIN mq' : p1'.p < mq'[i]
  <2> SUFFICES ASSUME NEW i \in DOMAIN mq' PROVE p1'.p < mq'[i]
    OBVIOUS
  <2>1. CASE f.pop
    <3>1. p1'.p = mq[1] /\ 1 \in DOMAIN mq
      BY <1>1, <1>6, <2>1, Move1
    <3>2. CASE i + d \in DOMAIN mq /\ mq'[i] = mq[i + d]
      <4>1. 1 < i + d
        BY <1>2, <1>3, <2>1
      <4> QED
        BY <1>1, <3>1, <3>2, <4>1 DEF Ordered
    <3>3. CASE Busy2 /\ mq'[i] = p2.p
      BY <1>1, <3>1, <3>3 DEF Ordered
    <3> QED
      BY <1>3, <3>2, <3>3
  <2>2. CASE ~f.pop
    <3>1. p1'.p = p1.p /\ Busy1
      BY <1>6, <2>2, Move1
    <3> QED
      BY <1>1, <1>3, <3>1 DEF Ordered
  <2> QED
    BY <2>1, <2>2
<1>7. ASSUME Busy2' PROVE \A i \in DOMAIN mq' : mq'[i] < p2'.p
  <2>1. CASE p2'.p = p2.p /\ Busy2 /\ ~t_push_miss
    BY <1>1, <1>3, <2>1 DEF Ordered
  <2>2. CASE p2'.p = req /\ req # 0
    BY <1>1, <1>3, <2>2 DEF Ordered
  <2> QED
    BY <1>7, <2>1, <2>2, Move2
<1>8. ASSUME req' # 0 PROVE \A i \in DOMAIN mq' : mq'[i] < req'
  <2>1. CASE req' = req
    BY <1>1, <1>3, <1>8, <2>1 DEF Ordered
  <2>2. CASE req' = sent + 1
    <3>1. \A i \in DOMAIN mq' : mq'[i] \in Int /\ mq'[i] <= sent
      BY <1>1, <1>3, Live
    <3> QED
      BY <1>4, <2>2, <3>1
  <2> QED
    BY <1>8, <2>1, <2>2, CoreEdge
<1>9. ASSUME Busy1' PROVE \/ p1'.p = p1.p /\ Busy1
                          \/ p1'.p = mq[1] /\ 1 \in DOMAIN mq
  BY <1>1, <1>9, Move1
<1>10. ASSUME Busy1', Busy2' PROVE p1'.p < p2'.p
  <2>1. CASE p2'.p = p2.p /\ Busy2
    BY <1>1, <1>9, <1>10, <2>1 DEF Ordered
  <2>2. CASE p2'.p = req /\ req # 0
    BY <1>1, <1>9, <1>10, <2>2 DEF Ordered
  <2> QED
    BY <1>10, <2>1, <2>2, Move2
<1>11. ASSUME Busy1', req' # 0 PROVE p1'.p < req'
  <2>1. CASE req' = req
    BY <1>1, <1>9, <1>11, <2>1 DEF Ordered
  <2>2. CASE req' = sent + 1
    <3>1. PICK x : x = p1'.p
      OBVIOUS
    <3>2. x \in Int /\ x <= sent
      BY <1>1, <1>9, <1>11, <3>1, Live
    <3> QED
      BY <1>4, <2>2, <3>1, <3>2
  <2> QED
    BY <1>11, <2>1, <2>2, CoreEdge
<1>12. ASSUME Busy2', req' # 0 PROVE p2'.p < req'
  <2>1. CASE p2'.p = p2.p /\ Busy2 /\ req' = req
    BY <1>1, <1>12, <2>1 DEF Ordered
  <2>2. CASE t_accept(f) /\ p2'.p = req /\ req # 0 /\ req' # sent + 1
    BY <1>12, <2>2, CoreEdge
  <2>3. CASE req' = sent + 1
    <3>1. PICK x : x = p2'.p
      OBVIOUS
    <3>2. x \in Int /\ x <= sent
      BY <1>1, <1>12, <3>1, Move2, Live
    <3> QED
      BY <1>4, <2>3, <3>1, <3>2
  <2> QED
    BY <1>12, <2>1, <2>2, <2>3, Move2, CoreEdge
<1> QED
  BY <1>5, <1>6, <1>7, <1>8, <1>10, <1>11, <1>12 DEF Ordered

(* A reorder buffer entry has at most one request in the queue and on port *)
(* 1, marked in r_rob_inflight; port 2's is not marked yet.                *)
LEMMA SlottedStep == ASSUME NEW f, Step(f) PROVE Slotted'
<1>1. IInv /\ Slotted /\ mq \in Seq(Pos) /\ Pos \subseteq Int /\ base \in Int
  BY Registers, Positions DEF Step, IInv, Types
<1>2. PICK d \in 0 .. 1 : d = Popped(f) /\ (f.pop => d = 1)
  BY DEF Popped
<1>3. \A i \in DOMAIN mq' :
        /\ i \in Int /\ i >= 1
        /\ \/ i + d \in DOMAIN mq /\ mq'[i] = mq[i + d] /\ i <= Len(mq) - d
           \/ t_push_miss /\ p2.got /\ Busy2 /\ mq'[i] = p2.p /\ i = Len(mq) - d + 1
  BY <1>2, OldOrNew DEF Busy2
<1>4. Busy1' => IF f.pop THEN mq # <<>> /\ 1 \in DOMAIN mq /\ p1'.p = mq[1] /\ ~f.clear
                         ELSE p1'.p = p1.p /\ Busy1 /\ ~w_got_hit
  <2>1. Busy1' /\ f.pop => ~f.clear
    <3>1. f.pop => f.st = "ACTIVE" /\ (f.clear <=> ~f.go)
      BY DEF Step, Controls, Port1Next
    <3>2. Busy1' => f.go \/ f.st # "ACTIVE"
      BY Port1Edge DEF Busy1, Held
    <3> QED
      BY <3>1, <3>2 DEF Step, Typed
  <2> QED
    BY <1>1, <2>1, Move1
<1>5. CASE base' # base
  <2>1. mq = <<>> /\ ~Busy1 /\ ~Busy2 /\ req = 0
    BY <1>5, RetireEdge
  <2>2. DOMAIN mq' = {}
    <3>1. \A k : k \notin DOMAIN mq
      BY <1>1, <2>1
    <3> QED
      BY <1>3, <2>1, <3>1
  <2>3. ~Busy1'
    BY <1>4, <2>1
  <2>4. ~Busy2'
    BY <2>1, Move2
  <2> QED
    BY <2>2, <2>3, <2>4 DEF Slotted, Busy2
<1>6. CASE base' = base
  <2>1. \A x : Slot(x)' = Slot(x)
    BY <1>6 DEF Slot
  <2>2. /\ f.clear => f.pop
        /\ r_rob_inflight' = (r_rob_inflight \cup (IF t_push_miss THEN {Slot(p2.p)} ELSE {}))
             \ ((IF w_got_hit THEN {Slot(p1.p)} ELSE {}) \cup
                (IF f.clear THEN {Slot(Head(mq))} ELSE {}))
        /\ t_push_miss => p2.got /\ Busy2
        /\ w_got_hit => Busy1
        /\ f.clear => 1 \in DOMAIN mq /\ Head(mq) = mq[1]
    <3>1. Queue(f) /\ (f.clear => f.pop)
      BY DEF Step, Edge, Controls, Port1Next
    <3>2. f.pop => mq # <<>>
      BY MoveQ
    <3> QED
      BY <1>1, <3>1, <3>2, MoveQ DEF Queue, Only, Busy1, Busy2, w_got_hit
  <2>3. Busy2 => Slot(p2.p) \notin r_rob_inflight
    BY <1>1 DEF Slotted, Busy2
  <2>4. \A i \in DOMAIN mq' : Slot(mq'[i]) \in r_rob_inflight'
    <3> SUFFICES ASSUME NEW i \in DOMAIN mq' PROVE Slot(mq'[i]) \in r_rob_inflight'
      OBVIOUS
    <3>1. CASE i + d \in DOMAIN mq /\ mq'[i] = mq[i + d]
      <4>1. f.clear => i + d # 1
        BY <1>2, <1>3, <2>2
      <4>2. f.clear => Slot(mq[i + d]) # Slot(mq[1])
        BY <1>1, <2>2, <3>1, <4>1 DEF Slotted
      <4>3. w_got_hit => Slot(mq[i + d]) # Slot(p1.p)
        BY <1>1, <2>2, <3>1 DEF Slotted
      <4>4. Slot(mq[i + d]) \in r_rob_inflight
        BY <1>1, <3>1 DEF Slotted
      <4> QED
        BY <2>2, <3>1, <4>2, <4>3, <4>4
    <3>2. CASE t_push_miss /\ Busy2 /\ mq'[i] = p2.p
      <4>1. f.clear => Slot(mq[1]) \in r_rob_inflight
        BY <1>1, <2>2 DEF Slotted
      <4>2. w_got_hit => Slot(p1.p) \in r_rob_inflight
        BY <1>1, <2>2 DEF Slotted
      <4> QED
        BY <2>2, <2>3, <3>2, <4>1, <4>2
    <3> QED
      BY <1>3, <3>1, <3>2
  <2>5. Busy1' => Slot(p1'.p) \in r_rob_inflight'
    <3>1. CASE Busy1' /\ f.pop
      <4>1. p1'.p = mq[1] /\ 1 \in DOMAIN mq /\ ~f.clear
        BY <1>4, <3>1
      <4>2. Slot(mq[1]) \in r_rob_inflight
        BY <1>1, <4>1 DEF Slotted
      <4>3. w_got_hit => Slot(mq[1]) # Slot(p1.p)
        BY <1>1, <2>2, <4>1 DEF Slotted
      <4> QED
        BY <2>2, <4>1, <4>2, <4>3
    <3>2. CASE Busy1' /\ ~f.pop
      <4>1. p1'.p = p1.p /\ Busy1 /\ ~w_got_hit
        BY <1>4, <3>2
      <4>2. Slot(p1.p) \in r_rob_inflight
        BY <1>1, <4>1 DEF Slotted
      <4> QED
        BY <2>2, <3>2, <4>1, <4>2
    <3> QED
      BY <3>1, <3>2
  <2>6. \A i, j \in DOMAIN mq' : i # j => Slot(mq'[i]) # Slot(mq'[j])
    <3> SUFFICES ASSUME NEW i \in DOMAIN mq', NEW j \in DOMAIN mq', i # j
                 PROVE  Slot(mq'[i]) # Slot(mq'[j])
      OBVIOUS
    <3>1. i \in Int /\ j \in Int
      BY <1>3
    <3>2. CASE i + d \in DOMAIN mq /\ mq'[i] = mq[i + d] /\ j + d \in DOMAIN mq /\ mq'[j] = mq[j + d]
      <4>1. i + d # j + d
        BY <1>2, <3>1
      <4> QED
        BY <1>1, <3>2, <4>1 DEF Slotted
    <3>3. CASE i + d \in DOMAIN mq /\ mq'[i] = mq[i + d] /\ Busy2 /\ mq'[j] = p2.p
      BY <1>1, <2>3, <3>3 DEF Slotted
    <3>4. CASE j + d \in DOMAIN mq /\ mq'[j] = mq[j + d] /\ Busy2 /\ mq'[i] = p2.p
      BY <1>1, <2>3, <3>4 DEF Slotted
    <3>5. CASE i = Len(mq) - d + 1 /\ j = Len(mq) - d + 1
      BY <3>1, <3>5
    <3> QED
      BY <1>3, <3>2, <3>3, <3>4, <3>5
  <2>7. Busy1' => \A i \in DOMAIN mq' : Slot(mq'[i]) # Slot(p1'.p)
    <3> SUFFICES ASSUME Busy1', NEW i \in DOMAIN mq' PROVE Slot(mq'[i]) # Slot(p1'.p)
      OBVIOUS
    <3>1. CASE f.pop
      <4>1. p1'.p = mq[1] /\ 1 \in DOMAIN mq
        BY <1>4, <3>1
      <4>2. CASE i + d \in DOMAIN mq /\ mq'[i] = mq[i + d]
        <5>1. i + d # 1
          BY <1>2, <1>3, <3>1
        <5> QED
          BY <1>1, <4>1, <4>2, <5>1 DEF Slotted
      <4>3. CASE Busy2 /\ mq'[i] = p2.p
        <5>1. Slot(mq[1]) \in r_rob_inflight
          BY <1>1, <4>1 DEF Slotted
        <5> QED
          BY <2>3, <4>1, <4>3, <5>1
      <4> QED
        BY <1>3, <4>2, <4>3
    <3>2. CASE ~f.pop
      <4>1. p1'.p = p1.p /\ Busy1
        BY <1>4, <3>2
      <4>2. CASE i + d \in DOMAIN mq /\ mq'[i] = mq[i + d]
        BY <1>1, <4>1, <4>2 DEF Slotted
      <4>3. CASE Busy2 /\ mq'[i] = p2.p
        <5>1. Slot(p1.p) \in r_rob_inflight
          BY <1>1, <4>1 DEF Slotted
        <5> QED
          BY <2>3, <4>1, <4>3, <5>1
      <4> QED
        BY <1>3, <4>2, <4>3
    <3> QED
      BY <3>1, <3>2
  <2>8. Busy2' => Slot(p2'.p) \notin r_rob_inflight'
    <3>1. CASE p2'.p = p2.p /\ Busy2 /\ ~t_push_miss
      BY <2>2, <2>3, <3>1
    <3>2. CASE t_accept(f) /\ req # 0 /\ p2'.p = req
      <4>1. Slot(req) \notin r_rob_inflight
        BY <3>2 DEF t_accept, t_new_req
      <4>2. t_push_miss => Slot(req) # Slot(p2.p)
        <5> SUFFICES ASSUME t_push_miss PROVE Slot(p2.p) # Slot(req)
          OBVIOUS
        <5>1. PICK a, b : a = p2.p /\ b = req
          OBVIOUS
        <5>2. a \in Int /\ b \in Int /\ ret < a /\ b <= sent /\ a < b
          BY <1>1, <2>2, <3>2, <5>1, Live DEF Ordered, IInv
        <5>3. b - a < NROB
          <6>1. sent - ret <= NROB /\ sent \in Int /\ ret \in Int /\ NROB \in Nat
            BY <1>1, Registers, Sizes DEF IInv, Window
          <6> QED
            BY <5>2, <6>1
        <5> QED
          BY <1>1, <5>1, <5>2, <5>3, SlotsDiffer
      <4> QED
        BY <2>2, <3>2, <4>1, <4>2
    <3> QED
      BY <3>1, <3>2, Move2
  <2>9. \A x, S : Slot(x) = S => \A y : y = x => Slot(y)' = S
    BY <2>1
  <2> QED
    BY <1>6, <2>4, <2>5, <2>6, <2>7, <2>8 DEF Slotted, Slot, Busy2
<1> QED
  BY <1>5, <1>6

-----------------------------------------------------------------------------
(* What a step does to a set of the arrays.                                *)
Fill(i)  == mem_rsp_reload /\ i = PIdx[mem_rsp.l]
Store(i) == t_wr_array /\ i = p1.idx
LEMMA ArrayEdge ==
  ASSUME NEW f, Step(f), NEW i \in IDX
  PROVE  /\ cache'[i].v = (IF i = f.inval THEN FALSE
                           ELSE IF f.inval = None /\ Fill(i) THEN ~r_inhibit_write
                           ELSE cache[i].v)
         /\ cache'[i].d = (IF i = f.inval THEN FALSE
                           ELSE IF f.inval # None THEN cache[i].d
                           ELSE IF Fill(i) THEN FALSE
                           ELSE (Store(i) /\ ~mem_rsp_reload) \/ cache[i].d)
         /\ cache'[i].l = (IF Fill(i) THEN mem_rsp.l ELSE cache[i].l)
         /\ cache'[i].w = (IF Fill(i) THEN mem_rsp.w
                           ELSE IF ~(Store(i) /\ ~mem_rsp_reload) THEN cache[i].w
                           ELSE Merge(IF mem_rsp_valid THEN [y \in WORDS |-> Junk]
                                      ELSE cache[i].w, p1.p))
         /\ i # f.inval /\ ~Fill(i) /\ ~Store(i) => cache'[i] = cache[i]
<1>1. Array(f)
  BY DEF Step, Edge
<1>2. cache' = [x \in IDX |->
        [l |-> IF Fill(x) THEN mem_rsp.l ELSE cache[x].l,
         w |-> IF Fill(x) THEN mem_rsp.w
               ELSE IF ~(Store(x) /\ ~mem_rsp_reload) THEN cache[x].w
               ELSE Merge(IF mem_rsp_valid THEN [y \in WORDS |-> Junk]
                          ELSE cache[x].w, p1.p),
         v |-> IF x = f.inval THEN FALSE
               ELSE IF f.inval = None /\ Fill(x) THEN ~r_inhibit_write
               ELSE cache[x].v,
         d |-> IF x = f.inval THEN FALSE
               ELSE IF f.inval # None THEN cache[x].d
               ELSE IF Fill(x) THEN FALSE
               ELSE (Store(x) /\ ~mem_rsp_reload) \/ cache[x].d]]
  BY <1>1, Zenon DEF Array, Fill, Store
<1>3. cache[i] \in Line1
  BY Registers DEF Step, IInv
<1>4. cache'[i] = [l |-> IF Fill(i) THEN mem_rsp.l ELSE cache[i].l,
         w |-> IF Fill(i) THEN mem_rsp.w
               ELSE IF ~(Store(i) /\ ~mem_rsp_reload) THEN cache[i].w
               ELSE Merge(IF mem_rsp_valid THEN [y \in WORDS |-> Junk]
                          ELSE cache[i].w, p1.p),
         v |-> IF i = f.inval THEN FALSE
               ELSE IF f.inval = None /\ Fill(i) THEN ~r_inhibit_write
               ELSE cache[i].v,
         d |-> IF i = f.inval THEN FALSE
               ELSE IF f.inval # None THEN cache[i].d
               ELSE IF Fill(i) THEN FALSE
               ELSE (Store(i) /\ ~mem_rsp_reload) \/ cache[i].d]
  BY <1>2, Zenon
<1>5. i # f.inval /\ ~Fill(i) /\ ~Store(i) => cache'[i] = cache[i]
  <2> SUFFICES ASSUME i # f.inval, ~Fill(i), ~Store(i) PROVE cache'[i] = cache[i]
    OBVIOUS
  <2>1. cache[i] = [l |-> cache[i].l, w |-> cache[i].w, v |-> cache[i].v, d |-> cache[i].d]
        /\ cache[i].d \in BOOLEAN
    BY <1>3 DEF Line1
  <2>2. (f.inval # None \/ f.inval = None) /\ (FALSE \/ cache[i].d) = cache[i].d
    BY <2>1
  <2>3. cache'[i] = [l |-> cache[i].l, w |-> cache[i].w, v |-> cache[i].v, d |-> cache[i].d]
    BY <1>4, <2>1
  <2> QED
    BY <2>1, <2>3
<1> QED
  BY <1>4, <1>5

(* A set is dirty only if it was or is being stored to.                    *)
LEMMA CacheDirty ==
  ASSUME NEW f, Step(f), NEW i \in IDX, cache'[i].v, cache'[i].d
  PROVE  (cache[i].v /\ cache[i].d) \/ Store(i)
  BY ArrayEdge

LEMMA TagType ==
  ASSUME IInv, NEW j \in DOMAIN mq
  PROVE  Tag(j) \in 0 .. MRQ - 1 /\ Tag(j) # FetchTag /\ Tag(j) # EbTag /\ Tag(j) < MRQ
<1>1. r_mq_head_ptr \in 0 .. MRQ - 1 /\ mq \in Seq(Pos) /\ MRQ \in Nat /\ MRQ > 1
  BY Sizes DEF IInv, Types, TypeOK
<1>2. PICK h \in Int : h = r_mq_head_ptr
  BY <1>1
<1>3. j \in Int
  BY <1>1
<1>4. (h + j - 1) % MRQ \in 0 .. MRQ - 1
  BY <1>1, <1>2, <1>3
<1> QED
  BY <1>1, <1>2, <1>4 DEF Tag, FetchTag, EbTag

(* A line that comes is the one port 1 waits for or that of a queued load, *)
(* whose set nothing else is using.                                        *)
LEMMA FillWhere ==
  ASSUME IInv, mem_rsp_reload
  PROVE  \/ mem_rsp.t = FetchTag /\ In("INJECT_RELOAD") /\ mem_rsp.l = Line(p1.p)
         \/ /\ mem_rsp.t # FetchTag /\ (mem_rsp.t \in r_mq_inflight \/ In("FLUSH_CL_WAIT"))
            /\ \E j \in DOMAIN mq : /\ mem_rsp.t = Tag(j) /\ mem_rsp.l = Line(mq[j])
                                    /\ Fill(IdxOf(mq[j])) /\ Apart(j)
<1>1. /\ l2q # <<>> /\ l2q \in Seq(Request) /\ mem_rsp = l2q[1] /\ 1 \in DOMAIN l2q
      /\ ~mem_rsp.wb
  BY DEF mem_rsp_reload, mem_rsp_valid, mem_rsp, IInv, Types
<1>2. Expected(mem_rsp)
  BY <1>1 DEF IInv, Fetches, Known
<1>3. \A j \in DOMAIN mq : Tag(j) # FetchTag
  BY TagType
<1> QED
  BY <1>2, <1>3 DEF Expected, Fill, IdxOf

(* While port 1 is busy with a request no early fetch fills its set.       *)
LEMMA NoFill1 ==
  ASSUME IInv, Busy1, ~In("INJECT_RELOAD")
  PROVE  ~Fill(Set1)
<1> SUFFICES ASSUME mem_rsp_reload, Set1 = PIdx[mem_rsp.l] PROVE FALSE
  BY DEF Fill
<1>1. PICK j \in DOMAIN mq : mem_rsp.l = Line(mq[j]) /\ Apart(j)
  BY FillWhere
<1> QED
  BY <1>1 DEF Apart, IdxOf

(* A load-linked or store-conditional on port 1 is the only request.       *)
LEMMA SerialAlone ==
  ASSUME IInv, Busy1, Kind(p1.p) \in {"ll", "sc"}
  PROVE  (\A i : i \notin DOMAIN mq) /\ ~Busy2 /\ req = 0
<1>1. PICK x : x = p1.p
  OBVIOUS
<1>2. /\ x \in Pos /\ ret < x /\ x <= sent /\ Kind(x) \in Serial
      /\ ret \in Int /\ Pos \subseteq Int
  BY <1>1, Live, Registers, Positions DEF Queued, Awaited, Serial, IInv
<1>3. \A y \in Pos : ret < y /\ y <= sent => y = x
  BY <1>2 DEF IInv, Window
<1>4. \A i : i \notin DOMAIN mq
  <2> SUFFICES ASSUME NEW i \in DOMAIN mq PROVE FALSE
    OBVIOUS
  <2>1. PICK y : y = mq[i]
    OBVIOUS
  <2>2. y \in Pos /\ y <= sent /\ x < y
    BY <1>1, <2>1, Live DEF IInv, Ordered
  <2>3. ret < y /\ y # x
    BY <1>2, <2>2
  <2> QED
    BY <1>3, <2>2, <2>3
<1>5. ~Busy2
  BY <1>1, <1>2, <1>3, Live DEF IInv, Ordered
<1>6. req = 0
  BY <1>1, <1>2, <1>3, Live DEF IInv, Ordered
<1> QED
  BY <1>4, <1>5, <1>6

(* A store is written to its own set, which it found valid with its line.  *)
LEMMA Storing ==
  ASSUME IInv, t_wr_array
  PROVE  /\ In("ACTIVE") /\ p1.got /\ Busy1 /\ w_got_hit /\ Kind(p1.p) \in {"st", "sc"}
         /\ p1.idx = Set1 /\ cache[p1.idx].v /\ cache[p1.idx].l = Line(p1.p)
         /\ \/ p1.lw
            \/ (\A i : i \notin DOMAIN mq) /\ ~Busy2 /\ req = 0
<1>1. In("ACTIVE") /\ p1.got /\ Busy1 /\ w_got_hit /\ Kind(p1.p) \in {"st", "sc"}
  BY DEF t_wr_array, w_got_hit, Busy1, In
<1>2. p1.idx = Set1 /\ p1.out = cache[p1.idx]
  BY <1>1 DEF IInv, Port1Inv
<1>3. p1.out.v /\ p1.out.l = Line(p1.p)
  BY <1>1 DEF w_got_hit, w_cache_port1_hit
<1>4. p1.lw \/ Kind(p1.p) = "sc"
  BY <1>1 DEF IInv, Port1Inv, IsStore
<1> QED
  BY <1>1, <1>2, <1>3, <1>4, SerialAlone

(* Port 1's lookup is what the array still holds: nothing is written or    *)
(* filled between the look and the edge it is used on.                     *)
LEMMA Port1Step == ASSUME NEW f, Step(f) PROVE Port1Inv'
<1>1. /\ IInv /\ Port1Inv /\ mq \in Seq(Pos) /\ r_lock_cache \in BOOLEAN
      /\ f.go \in BOOLEAN /\ f.lock \in BOOLEAN /\ f.lw \in BOOLEAN /\ f.pop \in BOOLEAN
      /\ Port1Next(f) /\ HeldNext(f) /\ Leaving(f) /\ p1.got \in BOOLEAN
  BY Registers DEF Step, IInv, Types, Controls, Typed
<1>2. \A p \in Pos : IdxOf(p) \in IDX /\ VIdx(p) \in IDX /\ Low[VIdx(p)] = Low[IdxOf(p)]
  BY <1>1, Operation, Registers DEF IInv
<1>3. Busy1' => /\ p1'.p = f.p /\ p1'.p \in Pos /\ IdxOf(p1'.p) \in IDX /\ Set1' = IdxOf(p1'.p)
                /\ IF f.pop THEN 1 \in DOMAIN mq /\ f.p = mq[1] /\ CanIssue
                   ELSE f.p = p1.p /\ Busy1 /\ ~w_got_hit
  <2> SUFFICES ASSUME Busy1' PROVE /\ p1'.p = f.p /\ p1'.p \in Pos /\ IdxOf(p1'.p) \in IDX
                /\ Set1' = IdxOf(p1'.p)
                /\ IF f.pop THEN 1 \in DOMAIN mq /\ f.p = mq[1] /\ CanIssue
                   ELSE f.p = p1.p /\ Busy1 /\ ~w_got_hit
    OBVIOUS
  <2>1. p1'.p = f.p
    BY Port1Edge
  <2>2. IF f.pop THEN 1 \in DOMAIN mq /\ f.p = mq[1] /\ CanIssue
                 ELSE f.p = p1.p /\ Busy1 /\ ~w_got_hit
    BY <1>1, <2>1, Move1
  <2>3. f.p \in Pos
    BY <1>1, <2>2, Live
  <2>4. Set1' = IdxOf(p1'.p)
    BY CoreEdge DEF Set1, IdxOf, Line
  <2> QED
    BY <1>2, <2>1, <2>2, <2>3, <2>4
<1>4. ASSUME Busy1', ~f.pop PROVE Set1' = Set1 /\ Line(p1'.p) = Line(p1.p)
  BY <1>3, <1>4 DEF Set1
<1>5. p1'.got => Busy1' /\ f.st = "ACTIVE" /\ p1'.idx = Set1' /\ f.idx = Set1' /\ f.inval = None
  <2>1. p1'.got => Busy1' /\ f.go
    BY Port1Edge DEF Busy1
  <2>2. f.go => f.st = "ACTIVE" /\ f.idx = IdxOf(f.p) /\ f.inval = None
    BY <1>1 DEF Port1Next, Leaving
  <2>3. None \notin IDX
    BY Sizes DEF None, IDX
  <2> QED
    BY <1>3, <2>1, <2>2, <2>3, Port1Edge
<1>6. p1'.got => p1'.out = cache'[p1'.idx]
  <2> SUFFICES ASSUME p1'.got PROVE p1'.out = cache'[p1'.idx]
    OBVIOUS
  <2>1. PICK s \in IDX : s = f.idx
    BY <1>3, <1>5
  <2>2. p1'.out = cache[s] /\ p1'.idx = s /\ s = IdxOf(f.p) /\ s # f.inval
    <3>1. None \notin IDX
      BY Sizes DEF None, IDX
    <3> QED
      BY <1>3, <1>5, <2>1, <3>1, Port1Edge DEF ReadAt
  <2>3. CASE f.pop
    <3>1. /\ 1 \in DOMAIN mq /\ s = IdxOf(mq[1]) /\ CanIssue /\ Head(mq) = mq[1]
          /\ mq[1] \in Pos
      BY <1>1, <1>3, <1>5, <2>2, <2>3
    <3>2. ~Store(s)
      <4> SUFFICES ASSUME t_wr_array, s = p1.idx PROVE FALSE
        BY DEF Store
      <4>1. p1.got /\ p1.lw
        BY <1>1, <3>1, Storing
      <4> QED
        BY <3>1, <4>1 DEF CanIssue, w_mh_block
    <3>3. ~Fill(s)
      <4> SUFFICES ASSUME mem_rsp_reload, s = PIdx[mem_rsp.l] PROVE FALSE
        BY DEF Fill
      <4>1. In("ACTIVE") /\ ~HeadInflight
        BY <3>1 DEF CanIssue
      <4>2. PICK j \in DOMAIN mq : /\ mem_rsp.t = Tag(j) /\ mem_rsp.l = Line(mq[j]) /\ Apart(j)
                                   /\ mem_rsp.t \in r_mq_inflight
        BY <1>1, <4>1, FillWhere DEF In
      <4>3. Tag(1) = r_mq_head_ptr
        <5>1. r_mq_head_ptr \in 0 .. MRQ - 1 /\ MRQ \in Nat /\ MRQ > 1
          BY <1>1, Sizes DEF IInv, Types, TypeOK
        <5>2. \A h \in 0 .. MRQ - 1 : (h + 1 - 1) % MRQ = h
          BY <5>1, Modulo
        <5> QED
          BY <5>1, <5>2 DEF Tag
      <4>4. j # 1
        BY <4>1, <4>2, <4>3 DEF HeadInflight
      <4>5. 1 \in 1 .. j - 1
        BY <1>1, <4>4
      <4>6. Low[VIdx(mq[1])] # Low[IdxOf(mq[j])]
        BY <4>2, <4>5 DEF Apart
      <4>7. IdxOf(mq[j]) = s
        BY <4>2 DEF IdxOf
      <4> QED
        BY <1>2, <3>1, <4>6, <4>7
    <3>4. s # f.inval
      BY <2>2
    <3>5. cache'[s] = cache[s]
      BY <3>2, <3>3, <3>4, ArrayEdge
    <3> QED
      BY <2>2, <3>5
  <2>4. CASE ~f.pop
    <3>1. r_state \in {"CLEAR_DIRTY", "HANDLE_RELOAD"} /\ Busy1 /\ s = Set1
      <4>1. f.go
        BY <1>5, Port1Edge
      <4> QED
        BY <1>1, <1>3, <1>5, <2>2, <2>4, <4>1 DEF Port1Next, Set1
    <3>2. ~Store(s)
      BY <1>1, <3>1, Storing DEF Store, In
    <3>3. ~Fill(s)
      BY <1>1, <3>1, NoFill1 DEF In
    <3>4. s # f.inval
      BY <2>2
    <3>5. cache'[s] = cache[s]
      BY <3>2, <3>3, <3>4, ArrayEdge
    <3> QED
      BY <2>2, <3>5
  <2> QED
    BY <2>3, <2>4
<1>7. p1'.got => In("ACTIVE")' /\ p1'.idx = Set1' /\ p1'.out = cache'[p1'.idx]
  BY <1>5, <1>6, Port1Edge DEF In
<1>8. \A x : Kind(x)' = Kind(x) /\ Line(x)' = Line(x)
  BY CoreEdge DEF Kind, Line
<1>9. /\ p1'.lw => p1'.got /\ Kind(f.p) \in {"st", "sc"}
      /\ p1'.got /\ Kind(f.p) = "st" => p1'.lw
  BY <1>1, Port1Edge DEF Port1Next, IsStore
<1>10. p1'.got /\ ~p1'.retry => \/ /\ ~r_lock_cache' /\ p1'.out.v /\ p1'.out.l = Line(f.p)
                                \/ r_lock_cache' /\ ~p1'.out.v
  <2> SUFFICES ASSUME p1'.got, ~p1'.retry
      PROVE  \/ ~r_lock_cache' /\ p1'.out.v /\ p1'.out.l = Line(f.p)
             \/ r_lock_cache' /\ ~p1'.out.v
    OBVIOUS
  <2>1. f.go /\ ~f.pop
    BY <1>1, Port1Edge DEF Port1Next
  <2>2. r_state \in {"CLEAR_DIRTY", "HANDLE_RELOAD"} /\ f.lock = r_lock_cache
    BY <1>1, <2>1 DEF Port1Next, HeldNext
  <2>3. f.p = p1.p /\ Busy1
    BY <1>3, <1>5, <2>1
  <2>4. p1'.out = cache[Set1] /\ r_lock_cache' = r_lock_cache
    <3>1. None \notin IDX
      BY Sizes DEF None, IDX
    <3> QED
      BY <1>3, <1>4, <1>5, <2>1, <2>2, <3>1, Port1Edge DEF ReadAt
  <2>5. CASE r_state = "CLEAR_DIRTY"
    BY <1>1, <2>4, <2>5 DEF Port1Inv, In
  <2>6. CASE r_state = "HANDLE_RELOAD"
    BY <1>1, <2>3, <2>4, <2>6 DEF Port1Inv, In
  <2> QED
    BY <2>2, <2>5, <2>6
<1>11. r_lock_cache' => In("CLEAR_DIRTY")' \/ (p1'.got /\ ~p1'.retry)
  <2> SUFFICES ASSUME f.lock, f.st # "CLEAR_DIRTY" PROVE f.go /\ ~f.retry
    BY <1>1, Port1Edge DEF In
  <2>1. r_lock_cache
    BY <1>1 DEF HeldNext
  <2>2. In("CLEAR_DIRTY") \/ (p1.got /\ ~p1.retry)
    BY <1>1, <2>1 DEF Port1Inv
  <2>3. CASE In("CLEAR_DIRTY")
    <3>1. f.go
      BY <1>1, <2>3 DEF HeldNext, In
    <3>2. ~f.pop
      BY <1>1, <2>3 DEF Port1Next, CanIssue, In
    <3> QED
      BY <1>1, <3>1, <3>2 DEF Port1Next
  <2>4. CASE p1.got /\ ~p1.retry
    <3>1. ~p1.out.v
      BY <1>1, <2>1, <2>4 DEF Port1Inv
    <3>2. ~w_got_hit /\ ~DirtyVictim /\ In("ACTIVE")
      BY <1>1, <2>4, <3>1 DEF w_got_hit, w_cache_port1_hit, DirtyVictim, Port1Inv
    <3>3. f.st = "INJECT_RELOAD"
      BY <1>1, <2>4, <3>2 DEF HeldNext
    <3> QED
      BY <1>1, <3>2, <3>3 DEF HeldNext, In
  <2> QED
    BY <2>2, <2>3, <2>4
<1>12. Held' => /\ Busy1' /\ ~f.pop /\ Busy1 /\ ~w_got_hit /\ r_miss_idx' = Set1
                /\ Set1' = Set1 /\ Line(p1'.p) = Line(p1.p)
  <2> SUFFICES ASSUME f.st \in HeldSt
               PROVE  /\ Busy1' /\ ~f.pop /\ Busy1 /\ ~w_got_hit /\ r_miss_idx' = Set1
                      /\ Set1' = Set1 /\ Line(p1'.p) = Line(p1.p)
    BY Port1Edge DEF Held, HeldSt
  <2>1. Busy1'
    BY Port1Edge DEF Busy1, Held, HeldSt
  <2>2. ~f.pop
    BY <1>1 DEF Port1Next, HeldSt
  <2>3. Busy1 /\ ~w_got_hit
    BY <1>3, <2>1, <2>2
  <2>4. f.midx = IF p1.got THEN p1.idx ELSE r_miss_idx
    BY <1>1 DEF HeldNext
  <2>5. f.midx = Set1
    BY <1>1, <2>3, <2>4 DEF Port1Inv, Busy1
  <2> QED
    BY <1>4, <2>1, <2>2, <2>3, <2>5, Port1Edge
<1>13. Busy1 => Set1 \in IDX
  BY <1>1, <1>2, Live DEF Set1
<1>14. In("CLEAR_DIRTY")' => r_lock_cache' /\ ~cache'[Set1].v
  <2> SUFFICES ASSUME f.st = "CLEAR_DIRTY" PROVE f.lock /\ ~cache'[Set1].v
    BY Port1Edge DEF In
  <2>1. DirtyVictim /\ f.inval = p1.idx /\ f.lock /\ p1.got
    BY <1>1 DEF HeldNext, DirtyVictim
  <2>2. f.inval = Set1 /\ Set1 \in IDX
    BY <1>1, <1>13, <2>1 DEF Port1Inv, Busy1
  <2> QED
    BY <2>1, <2>2, ArrayEdge
<1>15. In("INJECT_RELOAD")' => ~r_inhibit_write' /\ ~(cache'[Set1].v /\ cache'[Set1].d)
  <2> SUFFICES ASSUME f.st = "INJECT_RELOAD" PROVE ~f.inh /\ ~(cache'[Set1].v /\ cache'[Set1].d)
    BY Port1Edge DEF In
  <2>1. Busy1 /\ ~w_got_hit /\ Set1 \in IDX
    BY <1>12, <1>13, Port1Edge DEF Held
  <2>2. ~Store(Set1)
    BY <1>1, <2>1, Storing DEF Store
  <2>3. CASE CleanVictim /\ ~f.inh
    <3>1. p1.got /\ ~(cache[Set1].v /\ cache[Set1].d)
      BY <1>1, <2>3 DEF CleanVictim, Port1Inv
    <3> QED
      BY <2>1, <2>2, <2>3, <3>1, CacheDirty
  <2>4. CASE In("INJECT_RELOAD") /\ f.inh = r_inhibit_write
    BY <1>1, <2>1, <2>2, <2>4, CacheDirty DEF Port1Inv
  <2> QED
    BY <1>1, <2>3, <2>4 DEF HeldNext
<1>16. In("HANDLE_RELOAD")' => cache'[Set1].v /\ cache'[Set1].l = Line(p1.p)
  <2> SUFFICES ASSUME f.st = "HANDLE_RELOAD" PROVE cache'[Set1].v /\ cache'[Set1].l = Line(p1.p)
    BY Port1Edge DEF In
  <2>1. In("INJECT_RELOAD") /\ mem_rsp_reload /\ mem_rsp.t = FetchTag
    BY <1>1 DEF HeldNext
  <2>2. mem_rsp.l = Line(p1.p)
    BY <1>1, <2>1, FillWhere
  <2>3. Busy1 /\ Set1 \in IDX
    BY <1>12, <1>13, Port1Edge DEF Held
  <2>4. Fill(Set1)
    BY <2>1, <2>2 DEF Fill, Set1, IdxOf
  <2>5. f.inval = None /\ ~r_inhibit_write
    BY <1>1, <2>1 DEF Leaving, Port1Inv, In
  <2>6. PICK i \in IDX : i = Set1
    BY <2>3
  <2>7. i # f.inval
    BY <2>5, Sizes DEF None, IDX
  <2>8. cache'[i].v
    BY <2>4, <2>5, <2>6, <2>7, ArrayEdge
  <2>9. cache'[i].l = Line(p1.p)
    BY <2>2, <2>4, <2>6, ArrayEdge
  <2> QED
    BY <2>6, <2>8, <2>9
<1>17. (w_cache_port1_hit)' <=> p1'.out.v /\ p1'.out.l = Line(f.p)
  BY <1>8, Port1Edge, CoreEdge DEF w_cache_port1_hit, Line
<1>18. /\ Kind(p1.p)' = Kind(f.p) /\ IsStore(p1.p)' = (Kind(f.p) = "st")
       /\ Line(p1.p)' = Line(f.p)
  BY Port1Edge, CoreEdge DEF Kind, IsStore, Line
<1>19. /\ Held' => r_miss_idx' = Set1'
       /\ In("CLEAR_DIRTY")' => r_lock_cache' /\ ~cache'[Set1'].v
       /\ In("INJECT_RELOAD")' => ~r_inhibit_write' /\ ~(cache'[Set1'].v /\ cache'[Set1'].d)
       /\ In("HANDLE_RELOAD")' => cache'[Set1'].v /\ cache'[Set1'].l = Line(p1.p)'
  <2>1. (In("CLEAR_DIRTY")' \/ In("INJECT_RELOAD")' \/ In("HANDLE_RELOAD")') => Held'
    BY DEF Held, In
  <2>2. Held' => Line(p1.p)' = Line(p1.p)
    BY <1>3, <1>12, <1>18
  <2> QED
    BY <1>12, <1>14, <1>15, <1>16, <2>1, <2>2
<1> QED
  BY <1>7, <1>9, <1>10, <1>11, <1>17, <1>18, <1>19 DEF Port1Inv

(* Port 2 looks where nothing the queue or port 1 does can make its set     *)
(* dirty unseen, and there is a queue entry for its request.               *)
LEMMA Port2Step == ASSUME NEW f, Step(f) PROVE Port2Inv'
<1>1. /\ IInv /\ Port2Inv /\ Typed(f) /\ p1.got \in BOOLEAN /\ p2.got \in BOOLEAN
      /\ r_pending_tlb_miss \in BOOLEAN /\ Port1Next(f) /\ HeldNext(f) /\ WalkNext(f)
      /\ ProbeNext(f) /\ SweepNext(f) /\ MRQ \in Nat
  BY Registers, Sizes DEF Step, IInv, Types, Controls
<1>2. ~p2.got => n_pending_tlb_miss = r_pending_tlb_miss
  BY DEF n_pending_tlb_miss
<1>3. t_accept(f) => /\ req # 0 /\ req \in Pos /\ w_hit_or_idle /\ ~r_pending_tlb_miss
                     /\ ~n_pending_tlb_miss /\ t_new_req /\ RoomInQueue
                     /\ (f.go => f.lw) /\ ~w_reload_line(f)
  BY <1>1, Live DEF t_accept, t_new_req
<1>4. f.replay => In("TLB_TURNAROUND") /\ r_pending_tlb_miss /\ ~p2.got /\ f.st = "ACTIVE" /\ ~f.go
  BY <1>1 DEF WalkNext, Port2Inv, Walking, In
<1>5. t_accept(f) => ~Sweeping
  <2> SUFFICES ASSUME t_accept(f), Sweeping PROVE FALSE
    OBVIOUS
  <2>1. Kind(sent) = "fl" /\ ret < sent /\ sent \in Pos
    BY <1>1, Registers, Sizes DEF IInv, Sweeps, Pos
  <2>2. req \in Pos /\ ret < req /\ req <= sent /\ Kind(req) # "fl" /\ sent <= sent
    BY <1>1, <1>3, Live, Registers DEF Awaited, IInv
  <2>3. req = sent
    BY <1>1, <2>1, <2>2 DEF IInv, Window, Serial
  <2> QED
    BY <2>1, <2>2, <2>3
<1>6. t_accept(f) => f.st \in {"ACTIVE", "INJECT_RELOAD", "HANDLE_RELOAD", "FLUSH_CL_WAIT"}
  <2> SUFFICES ASSUME t_accept(f)
               PROVE  f.st \in {"ACTIVE", "INJECT_RELOAD", "HANDLE_RELOAD", "FLUSH_CL_WAIT"}
    OBVIOUS
  <2>1. f.st # "CLEAR_DIRTY"
    BY <1>1, <1>3 DEF HeldNext, DirtyVictim, w_hit_or_idle
  <2>2. f.st \notin WalkSt
    BY <1>1, <1>3 DEF WalkNext, Port2Inv, Walking, In
  <2>3. f.st # "FLUSH_CL"
    BY <1>1, <1>3 DEF ProbeNext, Port2Inv, Walking, In
  <2>4. f.st \notin SweepSt
    BY <1>1, <1>3, <1>5 DEF SweepNext, FlushGo
  <2> QED
    BY <1>1, <2>1, <2>2, <2>3, <2>4 DEF Typed, States, WalkSt, SweepSt
<1>7. p2'.got => /\ f.st \in {"ACTIVE", "INJECT_RELOAD", "HANDLE_RELOAD", "FLUSH_CL_WAIT"}
                 /\ f.go => f.lw
                 /\ p2'.p \in Pos /\ p2'.idx = VIdx(p2'.p) /\ p2'.idx \in IDX
                 /\ f.replay \/ t_accept(f)
  <2>1. p2'.got => f.replay \/ t_accept(f)
    BY <1>1, Port2Edge
  <2>2. f.replay => p2.p \in Pos
    BY <1>1, <1>4, Live DEF Busy2
  <2>3. p2'.got => p2'.p \in Pos
    BY <1>3, <2>1, <2>2, Port2Edge
  <2>4. p2'.got => VIdx(p2'.p) \in IDX
    BY <1>1, <2>3, Operation, Registers DEF IInv
  <2> QED
    BY <1>3, <1>4, <1>6, <2>1, <2>3, <2>4, Port2Edge
<1>8. p2'.got /\ f.st \in HeldSt => p2'.idx # r_miss_idx'
  <2> SUFFICES ASSUME p2'.got, f.st \in HeldSt PROVE p2'.idx # r_miss_idx'
    OBVIOUS
  <2>1. t_accept(f) /\ ~f.replay /\ p2'.p = req /\ p2'.idx = VIdx(req)
    BY <1>1, <1>4, <1>7, Port2Edge DEF HeldSt
  <2>2. ~CleanVictim /\ In("INJECT_RELOAD")
    <3>1. ~CleanVictim
      BY <1>3, <2>1 DEF CleanVictim, w_hit_or_idle
    <3>2. f.st \in {"INJECT_RELOAD", "HANDLE_RELOAD"}
      BY <1>7, <2>1 DEF HeldSt
    <3> QED
      BY <1>1, <3>1, <3>2 DEF HeldNext
  <2>3. ~p1.got /\ r_miss_idx' = r_miss_idx
    <3>1. ~p1.got
      BY <1>1, <2>2 DEF IInv, Port1Inv, In
    <3> QED
      BY <1>1, <3>1, Port1Edge DEF HeldNext
  <2>4. VIdx(req) # r_miss_idx
    BY <1>3, <2>1, <2>2 DEF w_reload_line, In
  <2> QED
    BY <2>1, <2>3, <2>4
<1>9. p2'.got => p2'.line \/ p2'.fwd \/ (\A i \in DOMAIN mq' : Low[VIdx(mq'[i])] # Low[p2'.idx])
  <2> SUFFICES ASSUME p2'.got, ~p2'.line, ~p2'.fwd, NEW i \in DOMAIN mq'
               PROVE  Low[VIdx(mq'[i])] # Low[p2'.idx]
    OBVIOUS
  <2>1. \A j \in DOMAIN mq : Low[VIdx(mq[j])] # Low[p2'.idx]
    BY Port2Edge
  <2>2. ~(t_push_miss /\ Low[p2'.idx] = Low[p2.idx])
    BY Port2Edge
  <2>3. p2.got => p2.idx = VIdx(p2.p)
    BY <1>1 DEF Port2Inv
  <2> QED
    BY <2>1, <2>2, <2>3, OldOrNew
<1>10. ASSUME p2'.got, cache'[p2'.idx].v, cache'[p2'.idx].d
       PROVE  (p2'.out.v /\ p2'.out.d) \/ rr' = p2'.idx
  <2>1. PICK i \in IDX : i = p2'.idx
    BY <1>7, <1>10
  <2>2. (cache[i].v /\ cache[i].d) \/ Store(i)
    BY <1>10, <2>1, CacheDirty
  <2>3. CASE cache[i].v /\ cache[i].d
    BY <1>10, <2>1, <2>3, Port2Edge
  <2>4. CASE Store(i)
    <3>1. p1.lw
      BY <1>1, <1>3, <1>4, <1>7, <1>10, <2>4, Storing DEF Store, Busy2
    <3> QED
      BY <2>1, <2>4, <3>1, Port1Edge DEF Store
  <2> QED
    BY <2>2, <2>3, <2>4
<1>11. Busy2' => Len(mq') < MRQ
  <2> SUFFICES ASSUME Busy2' PROVE Len(mq') < MRQ
    OBVIOUS
  <2>1. PICK d \in 0 .. 1, n \in Nat, m \in Nat : d = Popped(f) /\ n = Len(mq) /\ m = Len(mq')
    BY MoveQ
  <2>2. m = n - d + (IF t_push_miss THEN 1 ELSE 0) /\ d <= n
    BY <2>1, MoveQ
  <2>3. CASE Busy2 /\ ~t_push_miss
    BY <1>1, <2>1, <2>2, <2>3 DEF Port2Inv
  <2>4. CASE t_accept(f)
    <3>1. n < MRQ - 1
      BY <1>3, <2>1, <2>4 DEF RoomInQueue
    <3> QED
      BY <1>1, <2>1, <2>2, <3>1
  <2> QED
    BY <2>3, <2>4, Move2
<1>12. f.st \in WalkSt => n_pending_tlb_miss
  BY <1>1, <1>2 DEF WalkNext, Port2Inv, Walking, In
<1>13. f.st \in ProbeSt /\ ~f.was => n_pending_tlb_miss /\ ~p2'.got
  <2> SUFFICES ASSUME f.st \in ProbeSt, ~f.was PROVE n_pending_tlb_miss /\ ~p2'.got
    OBVIOUS
  <2>1. In("TLB_RELOAD") \/ (Probing /\ ~r_flush_was_active)
    BY <1>1 DEF ProbeNext, ProbeSt
  <2>2. r_pending_tlb_miss /\ ~p2.got
    BY <1>1, <2>1 DEF Port2Inv, Walking, In
  <2>3. ~f.replay
    BY <1>4 DEF ProbeSt
  <2> QED
    BY <1>2, <1>3, <1>7, <2>2, <2>3
<1>14. r_flush_was_active' = f.was
  BY DEF Step, Edge, Back
<1>15. /\ Held' <=> f.st \in HeldSt
       /\ Walking' <=> f.st \in WalkSt
       /\ Probing' <=> f.st \in ProbeSt
  BY Port1Edge DEF Held, HeldSt, Walking, WalkSt, Probing, ProbeSt
<1>16. \A x : VIdx(x)' = VIdx(x)
  BY CoreEdge DEF VIdx
<1>17. VIdx(p2.p)' = VIdx(p2'.p) /\ \A i \in DOMAIN mq' : VIdx(mq[i])' = VIdx(mq'[i])
  BY CoreEdge DEF VIdx
<1>18. Len(mq)' = Len(mq') /\ p1'.got = f.go /\ p1'.lw = f.lw /\ r_state' = f.st
       /\ r_pending_tlb_miss' = n_pending_tlb_miss
  BY Port1Edge, Port2Edge
<1> QED
  BY <1>7, <1>8, <1>9, <1>10, <1>11, <1>12, <1>13, <1>14, <1>15, <1>17, <1>18 DEF Port2Inv

-----------------------------------------------------------------------------
(* What goes to the L2 and comes back.                                     *)
LEMMA Removed ==
  ASSUME NEW S, NEW s \in Seq(S), NEW i \in DOMAIN s, NEW q
  PROVE  q = SubSeq(s, 1, i - 1) \o SubSeq(s, i + 1, Len(s)) =>
           /\ q \in Seq(S) /\ Len(q) = Len(s) - 1
           /\ \A k \in 1 .. Len(s) - 1 : q[k] = s[IF k < i THEN k ELSE k + 1]
<1>1. PICK n \in Nat : n = Len(s)
  OBVIOUS
<1>2. i \in 1 .. n /\ i \in Int /\ i - 1 \in Int /\ i + 1 \in Int /\ \A j \in 1 .. n : s[j] \in S
  BY <1>1
<1> DEFINE a == SubSeq(s, 1, i - 1)
           b == SubSeq(s, i + 1, n)
<1>3. /\ a \in Seq(S) /\ Len(a) = i - 1
      /\ \A k \in 1 .. i - 1 : a[k] = s[k]
  BY <1>1, <1>2
<1>4. /\ b \in Seq(S) /\ Len(b) = n - i
      /\ \A k \in 1 .. n - i : b[k] = s[i + k]
  BY <1>1, <1>2
<1> HIDE DEF a, b
<1>5. PICK r : /\ r = a \o b /\ r \in Seq(S) /\ Len(r) = Len(a) + Len(b)
               /\ \A k \in 1 .. Len(a) + Len(b) : r[k] = IF k <= Len(a) THEN a[k] ELSE b[k - Len(a)]
  <2>2. a \in Seq(S) /\ b \in Seq(S)
    BY <1>3, <1>4
  <2>3. /\ a \o b \in Seq(S) /\ Len(a \o b) = Len(a) + Len(b)
        /\ \A k \in 1 .. Len(a) + Len(b) : (a \o b)[k] = IF k <= Len(a) THEN a[k] ELSE b[k - Len(a)]
    BY <2>2, ConcatProperties
  <2> QED
    BY <2>3
<1>6. /\ r \in Seq(S) /\ Len(r) = n - 1
      /\ \A k \in 1 .. n - 1 : r[k] = IF k <= i - 1 THEN a[k] ELSE b[k - (i - 1)]
  <2>1. Len(a) + Len(b) = n - 1 /\ Len(a) = i - 1
    BY <1>2, <1>3, <1>4
  <2> QED
    BY <1>5, <2>1
<1>7. ASSUME NEW k \in 1 .. n - 1 PROVE r[k] = s[IF k < i THEN k ELSE k + 1]
  <2>1. CASE k < i
    <3>1. k \in 1 .. i - 1 /\ k <= i - 1
      BY <1>2, <2>1
    <3> QED
      BY <1>3, <1>6, <2>1, <3>1
  <2>2. CASE k >= i
    <3>1. k - (i - 1) \in 1 .. n - i /\ i + (k - (i - 1)) = k + 1 /\ ~(k <= i - 1) /\ ~(k < i)
      BY <1>2, <2>2
    <3>2. b[k - (i - 1)] = s[k + 1]
      BY <1>4, <3>1
    <3>3. r[k] = b[k - (i - 1)]
      BY <1>6, <3>1
    <3> QED
      BY <3>1, <3>2, <3>3
  <2> QED
    BY <1>2, <2>1, <2>2
<1> QED
  BY <1>1, <1>5, <1>6, <1>7 DEF a, b

(* At most one request leaves in a cycle, and none of them is lost.        *)
LEMMA Outgoing ==
  ASSUME NEW f, Step(f)
  PROVE  /\ n_mem_req(f) = <<>> \/ \E r \in Request : n_mem_req(f) = <<r>>
         /\ \A r : n_mem_req(f) = <<r>> =>
              \/ /\ w_gen_early_req(f) /\ p2.got /\ ~r.wb /\ r.l = Line(p2.p)
                 /\ r.t = r_mq_tail_ptr /\ r_mrq_credits > 2 /\ f.fetch = <<>>
              \/ eb # <<>> /\ r.wb /\ r.t = EbTag /\ f.fetch = <<>> /\ ~w_gen_early_req(f)
              \/ /\ f.st = "INJECT_RELOAD" /\ CleanVictim /\ ~r.wb /\ r.l = Line(p1.p)
                 /\ r.t = FetchTag /\ ~w_gen_early_req(f) /\ eb = <<>>
              \/ /\ In("FLUSH_CL") /\ f.st = "FLUSH_CL_WAIT" /\ r.wb
                 /\ ~w_gen_early_req(f) /\ eb = <<>>
         /\ f.fetch # <<>> => n_mem_req(f) = f.fetch
         /\ w_gen_early_req(f) => n_mem_req(f) # <<>> /\ p2.got /\ t_push_miss /\ w_hit_or_idle
<1>1. /\ IInv /\ Typed(f) /\ Leaving(f) /\ eb \in Seq(WriteBack)
  BY DEF Step, IInv, Types, Controls
<1>2. w_gen_early_req(f) => /\ t_push_miss /\ p2.got /\ p2.p \in Pos /\ w_hit_or_idle
                            /\ r_mrq_credits > 2
  BY MoveQ DEF w_gen_early_req
<1>3. f.fetch # <<>> => ~w_gen_early_req(f) /\ eb = <<>>
  <2>1. CASE CleanVictim
    BY <1>1, <1>2, <2>1 DEF CleanVictim, w_hit_or_idle, IInv, Credits, Port1Inv, In
  <2>2. CASE In("FLUSH_CL")
    BY <1>1, <1>2, <2>2 DEF IInv, Credits, Port2Inv, In
  <2> QED
    BY <1>1, <2>1, <2>2 DEF Leaving
<1>4. r_mq_tail_ptr \in 0 .. EbTag /\ EbTag \in 0 .. EbTag
  <2>1. r_mq_head_ptr \in Int /\ Len(mq) \in Int /\ MRQ \in Nat /\ MRQ > 1
    BY <1>1, Sizes DEF IInv, Types, TypeOK
  <2>2. (r_mq_head_ptr + Len(mq)) % MRQ \in 0 .. MRQ - 1
    BY <2>1
  <2> QED
    BY <2>1, <2>2 DEF r_mq_tail_ptr, EbTag
<1>5. \A x \in Pos : Line(x) \in LINES
  BY <1>1, Operation, Registers DEF IInv
<1>6. CASE w_gen_early_req(f)
  <2> DEFINE r == [wb |-> FALSE, l |-> Line(p2.p), w |-> Zero, t |-> r_mq_tail_ptr]
  <2>1. n_mem_req(f) = <<r>> /\ r \in Request
    BY <1>1, <1>2, <1>4, <1>5, <1>6, Out1 DEF n_mem_req, Request, IInv
  <2> QED
    BY <1>2, <1>3, <1>6, <2>1
<1>7. CASE ~w_gen_early_req(f) /\ t_pop_eb(f)
  <2> DEFINE r == [wb |-> TRUE, l |-> Head(eb).l, w |-> Head(eb).w, t |-> EbTag]
  <2>1. eb # <<>> /\ f.fetch = <<>> /\ Head(eb) \in WriteBack
    BY <1>1, <1>7 DEF t_pop_eb
  <2>2. n_mem_req(f) = <<r>> /\ r \in Request
    BY <1>4, <1>7, <2>1 DEF n_mem_req, Request, WriteBack
  <2> QED
    BY <1>7, <2>1, <2>2
<1>8. CASE ~w_gen_early_req(f) /\ ~t_pop_eb(f)
  <2>1. n_mem_req(f) = f.fetch
    BY <1>8 DEF n_mem_req
  <2>2. CASE f.fetch = <<>>
    BY <1>8, <2>1, <2>2
  <2>3. CASE f.fetch # <<>>
    <3>1. PICK r : /\ f.fetch = <<r>>
                   /\ \/ f.st = "INJECT_RELOAD" /\ CleanVictim /\ ~r.wb /\ r.l = Line(p1.p) /\ r.t = FetchTag
                      \/ In("FLUSH_CL") /\ f.st = "FLUSH_CL_WAIT" /\ r.wb
      BY <1>1, <2>3 DEF Leaving
    <3>2. r \in Request
      BY <1>1, <3>1 DEF Typed
    <3> QED
      BY <1>3, <1>8, <2>1, <2>3, <3>1, <3>2
  <2> QED
    BY <2>2, <2>3
<1> QED
  BY <1>6, <1>7, <1>8

(* The requests in the L2 and its answers after a step, each with where it *)
(* was: -k in l2, k in l2q, 0 in nothing because it has just been sent.    *)
Same(a, b) == a.wb = b.wb /\ a.l = b.l /\ a.t = b.t
Tracks(f, g, h) ==
  /\ \A k \in DOMAIN l2' :
       \/ g[k] = 0 /\ n_mem_req(f) = <<l2'[k]>>
       \/ g[k] \in Int /\ g[k] < 0 /\ -g[k] \in DOMAIN l2 /\ l2'[k] = l2[-g[k]]
  /\ \A k \in DOMAIN l2q' :
       \/ /\ h[k] \in Int /\ h[k] > 0 /\ h[k] \in DOMAIN l2q /\ l2q'[k] = l2q[h[k]]
          /\ mem_rsp_valid => h[k] # 1
       \/ h[k] \in Int /\ h[k] < 0 /\ -h[k] \in DOMAIN l2 /\ Same(l2q'[k], l2[-h[k]])
  /\ \A j, k \in DOMAIN l2' : j # k => g[j] # g[k]
  /\ \A j, k \in DOMAIN l2q' : j # k => h[j] # h[k]
  /\ \A j \in DOMAIN l2', k \in DOMAIN l2q' : g[j] # h[k]
Traced(f) ==
  /\ l2' \in Seq(Request) /\ l2q' \in Seq(Request)
  /\ Len(l2') + Len(l2q') = Len(l2) + Len(l2q) + Len(n_mem_req(f))
                            - (IF mem_rsp_valid THEN 1 ELSE 0)
  /\ \E g, h : Tracks(f, g, h)

LEMMA L2Edge == ASSUME NEW f, Step(f) PROVE Traced(f)
<1>1. L2(f) /\ l2 \in Seq(Request) /\ l2q \in Seq(Request) /\ IInv
  BY DEF Step, Edge, IInv, Types
<1>2. PICK n, z : n = n_mem_req(f) /\ z = IF mem_rsp_valid THEN Tail(l2q) ELSE l2q
  OBVIOUS
<1>3. n \in Seq(Request) /\ Len(n) \in 0 .. 1 /\ \A k \in DOMAIN n : k = 1 /\ n = <<n[1]>>
  <2>1. n = <<>> \/ \E r \in Request : n = <<r>>
    BY <1>2, Outgoing
  <2>2. CASE n = <<>>
    BY <2>2
  <2>3. ASSUME NEW r \in Request, n = <<r>> PROVE n \in Seq(Request) /\ Len(n) \in 0 .. 1 /\ \A k \in DOMAIN n : k = 1 /\ n = <<n[1]>>
    BY <2>3
  <2> QED
    BY <2>1, <2>2, <2>3
<1>4. PICK v \in 0 .. 1, a \in Nat, b \in Nat, c \in Nat :
        /\ v = (IF mem_rsp_valid THEN 1 ELSE 0) /\ a = Len(l2) /\ b = Len(l2q) /\ c = Len(n)
        /\ (mem_rsp_valid => v = 1) /\ (v = 1 => l2q # <<>>)
  BY <1>1, <1>3 DEF mem_rsp_valid
<1>5. /\ z \in Seq(Request) /\ Len(z) = b - v
      /\ \A k \in 1 .. b - v : z[k] = l2q[k + v] /\ k + v \in 1 .. b
  <2>1. CASE mem_rsp_valid
    <3>1. l2q # <<>> /\ v = 1 /\ z = Tail(l2q)
      BY <1>2, <1>4, <2>1
    <3> QED
      BY <1>1, <1>4, <3>1
  <2>2. CASE ~mem_rsp_valid
    <3>1. v = 0 /\ z = l2q
      BY <1>2, <1>4, <2>2
    <3> QED
      BY <1>1, <1>4, <3>1
  <2> QED
    BY <2>1, <2>2
<1>6. CASE l2' = l2 \o n /\ l2q' = z
  <2> DEFINE g == [k \in 1 .. a + c |-> IF k <= a THEN -k ELSE 0]
             h == [k \in 1 .. b - v |-> k + v]
  <2>1. /\ l2' \in Seq(Request) /\ Len(l2') = a + c /\ DOMAIN l2' = 1 .. a + c
        /\ \A k \in 1 .. a : l2'[k] = l2[k]
        /\ \A k \in 1 .. a + c : k > a => c = 1 /\ k = a + 1 /\ l2'[k] = n[1] /\ n = <<n[1]>>
    BY <1>1, <1>3, <1>4, <1>6
  <2>2. DOMAIN l2q' = 1 .. b - v /\ Len(l2q') = b - v /\ DOMAIN l2 = 1 .. a /\ DOMAIN l2q = 1 .. b
    BY <1>1, <1>4, <1>5, <1>6
  <2>3. /\ \A k \in 1 .. a + c : g[k] = IF k <= a THEN -k ELSE 0
        /\ \A k \in 1 .. b - v : h[k] = k + v
    OBVIOUS
  <2> HIDE DEF g, h
  <2>4. ASSUME NEW k \in DOMAIN l2'
        PROVE  \/ g[k] = 0 /\ n_mem_req(f) = <<l2'[k]>>
               \/ g[k] \in Int /\ g[k] < 0 /\ -g[k] \in DOMAIN l2 /\ l2'[k] = l2[-g[k]]
    <3>1. CASE k <= a
      <4>1. k \in 1 .. a /\ g[k] = -k /\ -g[k] = k /\ g[k] \in Int /\ g[k] < 0
        BY <2>1, <2>3, <3>1
      <4> QED
        BY <2>1, <2>2, <4>1
    <3>2. CASE k > a
      BY <1>2, <2>1, <2>3, <3>2
    <3> QED
      BY <2>1, <3>1, <3>2
  <2>5. ASSUME NEW k \in DOMAIN l2q'
        PROVE  /\ h[k] \in Int /\ h[k] > 0 /\ h[k] \in DOMAIN l2q /\ l2q'[k] = l2q[h[k]]
               /\ mem_rsp_valid => h[k] # 1
    <3>1. k \in 1 .. b - v /\ h[k] = k + v /\ l2q'[k] = z[k]
      BY <1>6, <2>2, <2>3
    <3>2. z[k] = l2q[k + v] /\ k + v \in 1 .. b
      BY <1>5, <3>1
    <3>3. mem_rsp_valid => k + v # 1
      BY <1>4, <3>1
    <3>4. k + v \in Int /\ k + v > 0
      BY <3>2
    <3> QED
      BY <2>2, <3>1, <3>2, <3>3, <3>4
  <2>6. \A j, k \in DOMAIN l2' : j # k => g[j] # g[k]
    BY <1>3, <1>4, <2>1, <2>3
  <2>7. \A j, k \in DOMAIN l2q' : j # k => h[j] # h[k]
    BY <2>2, <2>3
  <2>8. \A j \in DOMAIN l2', k \in DOMAIN l2q' : g[j] # h[k]
    BY <2>1, <2>2, <2>3
  <2>9. Len(l2') + Len(l2q') = Len(l2) + Len(l2q) + Len(n_mem_req(f))
                               - (IF mem_rsp_valid THEN 1 ELSE 0)
    BY <1>2, <1>4, <2>1, <2>2
  <2> QED
    <3>1. Tracks(f, g, h)
      BY <2>4, <2>5, <2>6, <2>7, <2>8 DEF Tracks
    <3>2. \E x, y : Tracks(f, x, y)
      BY <3>1, Zenon
    <3> QED
      BY <1>5, <1>6, <2>1, <2>9, <3>2 DEF Traced
<1>7. ASSUME NEW i \in DOMAIN l2, NEW q, Same(q, l2[i]),
             l2' = SubSeq(l2, 1, i - 1) \o SubSeq(l2, i + 1, Len(l2)) \o n,
             l2q' = z \o <<q>>, q \in Request
      PROVE  Traced(f)
  <2> DEFINE s == SubSeq(l2, 1, i - 1) \o SubSeq(l2, i + 1, Len(l2))
             g == [k \in 1 .. a - 1 + c |-> IF k < i THEN -k ELSE IF k < a THEN -(k + 1) ELSE 0]
             h == [k \in 1 .. b - v + 1 |-> IF k <= b - v THEN k + v ELSE -i]
  <2>1. /\ s \in Seq(Request) /\ Len(s) = a - 1
        /\ \A k \in 1 .. a - 1 : s[k] = l2[IF k < i THEN k ELSE k + 1]
        /\ l2' = s \o n /\ i \in 1 .. a /\ i \in Int
    <3>1. PICK m : m = SubSeq(l2, 1, i - 1) \o SubSeq(l2, i + 1, Len(l2))
      OBVIOUS
    <3>2. /\ m \in Seq(Request) /\ Len(m) = Len(l2) - 1
          /\ \A k \in 1 .. Len(l2) - 1 : m[k] = l2[IF k < i THEN k ELSE k + 1]
      <4>1. l2 \in Seq(Request) /\ i \in DOMAIN l2
        BY <1>1
      <4> QED
        BY ONLY <3>1, <4>1, Removed, Zenon
    <3>3. s = m /\ l2' = m \o n
      BY <1>7, <3>1
    <3>4. i \in 1 .. a /\ i \in Int
      BY <1>1, <1>4
    <3> HIDE DEF s
    <3> QED
      BY <1>4, <3>2, <3>3, <3>4
  <2>2. /\ \A k \in 1 .. a - 1 + c : g[k] = IF k < i THEN -k ELSE IF k < a THEN -(k + 1) ELSE 0
        /\ \A k \in 1 .. b - v + 1 : h[k] = IF k <= b - v THEN k + v ELSE -i
    OBVIOUS
  <2> HIDE DEF s, g, h
  <2>11. i \in Int /\ 1 <= i /\ i <= a
    BY <2>1
  <2>3. /\ l2' \in Seq(Request) /\ Len(l2') = a - 1 + c /\ DOMAIN l2' = 1 .. a - 1 + c
        /\ \A k \in 1 .. a - 1 : l2'[k] = l2[IF k < i THEN k ELSE k + 1]
        /\ \A k \in 1 .. a - 1 + c : k >= a => c = 1 /\ k = a /\ l2'[k] = n[1] /\ n = <<n[1]>>
    <3>1. s \in Seq(Request) /\ l2' = s \o n
      BY <2>1
    <3>2. /\ l2' \in Seq(Request) /\ Len(l2') = Len(s) + Len(n)
          /\ \A k \in 1 .. Len(s) + Len(n) : l2'[k] = IF k <= Len(s) THEN s[k] ELSE n[k - Len(s)]
      BY <1>3, <3>1, ConcatProperties
    <3>3. Len(s) = a - 1 /\ Len(n) = c /\ c \in 0 .. 1
      BY <1>3, <1>4, <2>1
    <3>4. DOMAIN l2' = 1 .. a - 1 + c
      BY <3>2, <3>3
    <3>5. \A k \in 1 .. a - 1 + c : l2'[k] = IF k <= a - 1 THEN s[k] ELSE n[k - (a - 1)]
      BY <3>2, <3>3
    <3>6. \A k \in 1 .. a - 1 : l2'[k] = s[k]
      BY <3>3, <3>5
    <3>7. \A k \in 1 .. a - 1 + c : k >= a => c = 1 /\ k = a /\ k - (a - 1) = 1
      BY <3>3
    <3>8. \A k \in 1 .. a - 1 + c : k >= a => l2'[k] = n[1]
      BY <3>5, <3>7
    <3>9. c = 1 => n = <<n[1]>>
      BY <1>3, <3>3
    <3> QED
      BY <2>1, <3>2, <3>3, <3>4, <3>6, <3>7, <3>8, <3>9
  <2>4. /\ Len(l2q') = b - v + 1 /\ DOMAIN l2q' = 1 .. b - v + 1
        /\ \A k \in 1 .. b - v : l2q'[k] = z[k]
        /\ l2q'[b - v + 1] = q /\ DOMAIN l2 = 1 .. a /\ DOMAIN l2q = 1 .. b
    <3>1. <<q>> \in Seq(Request) /\ Len(<<q>>) = 1 /\ <<q>>[1] = q
      BY <1>7
    <3>2. PICK y : y = <<q>>
      OBVIOUS
    <3>3. /\ l2q' \in Seq(Request) /\ Len(l2q') = Len(z) + Len(y)
          /\ \A k \in 1 .. Len(z) + Len(y) : l2q'[k] = IF k <= Len(z) THEN z[k] ELSE y[k - Len(z)]
      BY <1>5, <1>7, <3>1, <3>2, ConcatProperties
    <3>4. Len(z) = b - v /\ Len(y) = 1 /\ y[1] = q /\ b - v \in Nat
      BY <1>5, <3>1, <3>2
    <3>5. DOMAIN l2q' = 1 .. b - v + 1 /\ Len(l2q') = b - v + 1
      BY <3>3, <3>4
    <3>6. \A k \in 1 .. b - v + 1 : l2q'[k] = IF k <= b - v THEN z[k] ELSE y[k - (b - v)]
      BY <3>3, <3>4
    <3>7. \A k \in 1 .. b - v : l2q'[k] = z[k]
      BY <3>4, <3>6
    <3>8. l2q'[b - v + 1] = q
      BY <3>4, <3>6
    <3>9. DOMAIN l2 = 1 .. a /\ DOMAIN l2q = 1 .. b
      BY <1>1, <1>4
    <3> QED
      BY <3>5, <3>7, <3>8, <3>9
  <2>5. ASSUME NEW k \in DOMAIN l2'
        PROVE  \/ g[k] = 0 /\ n_mem_req(f) = <<l2'[k]>>
               \/ g[k] \in Int /\ g[k] < 0 /\ -g[k] \in DOMAIN l2 /\ l2'[k] = l2[-g[k]]
    <3>1. CASE k < i
      <4>1. k \in 1 .. a - 1 /\ g[k] = -k /\ -g[k] = k /\ g[k] \in Int /\ g[k] < 0 /\ k \in 1 .. a
        BY <2>1, <2>2, <2>3, <3>1
      <4> QED
        BY <2>3, <2>4, <3>1, <4>1
    <3>2. CASE k >= i /\ k < a
      <4>1. /\ k \in 1 .. a - 1 /\ g[k] = -(k + 1) /\ -g[k] = k + 1 /\ g[k] \in Int /\ g[k] < 0
            /\ k + 1 \in 1 .. a /\ ~(k < i)
        <5>1. k \in Int /\ 1 <= k /\ k \in 1 .. a - 1 + c
          BY <2>3
        <5>2. k \in 1 .. a - 1 /\ k + 1 \in 1 .. a /\ ~(k < i) /\ k + 1 > 0
          BY <2>11, <3>2, <5>1
        <5>3. g[k] = -(k + 1)
          BY <2>2, <3>2, <5>1, <5>2
        <5> QED
          BY <5>1, <5>2, <5>3
      <4> QED
        BY <2>3, <2>4, <4>1
    <3>3. CASE k >= a
      <4>1. g[k] = 0 /\ l2'[k] = n[1] /\ n = <<n[1]>>
        <5>1. k \in Int /\ k \in 1 .. a - 1 + c /\ ~(k < a) /\ ~(k < i)
          BY <2>3, <2>11, <3>3
        <5>2. g[k] = 0
          BY <2>2, <5>1
        <5>3. l2'[k] = n[1] /\ n = <<n[1]>>
          BY <2>3, <3>3, <5>1
        <5> QED
          BY <5>2, <5>3
      <4> QED
        BY <1>2, <4>1
    <3> QED
      BY <2>1, <2>3, <3>1, <3>2, <3>3
  <2>6. ASSUME NEW k \in DOMAIN l2q'
        PROVE  \/ /\ h[k] \in Int /\ h[k] > 0 /\ h[k] \in DOMAIN l2q /\ l2q'[k] = l2q[h[k]]
                  /\ mem_rsp_valid => h[k] # 1
               \/ h[k] \in Int /\ h[k] < 0 /\ -h[k] \in DOMAIN l2 /\ Same(l2q'[k], l2[-h[k]])
    <3>1. CASE k <= b - v
      <4>1. k \in 1 .. b - v /\ h[k] = k + v
        BY <2>2, <2>4, <3>1
      <4>2. h[k] \in 1 .. b /\ (v = 1 => h[k] # 1) /\ l2q'[k] = l2q[k + v]
        BY <1>4, <1>5, <2>4, <4>1
      <4> QED
        BY <1>4, <2>4, <4>1, <4>2
    <3>2. CASE k > b - v
      <4>1. k = b - v + 1 /\ h[k] = -i /\ -h[k] = i /\ h[k] \in Int /\ h[k] < 0
        <5>1. k \in 1 .. b - v + 1 /\ k \in Int /\ b - v \in Int
          BY <2>4
        <5>2. k = b - v + 1 /\ ~(k <= b - v)
          BY <3>2, <5>1
        <5>3. h[k] = -i
          BY <2>2, <5>1, <5>2
        <5> QED
          BY <2>11, <5>2, <5>3
      <4> QED
        BY <1>7, <2>1, <2>4, <4>1
    <3> QED
      BY <1>4, <2>4, <3>1, <3>2
  <2>12. \A k \in 1 .. a - 1 + c : k \in Int /\ 1 <= k /\ (k >= a => k = a)
    BY <2>3
  <2>13. \A k \in 1 .. b - v + 1 : k \in Int /\ 1 <= k /\ k <= b - v + 1
    OBVIOUS
  <2>7. \A j, k \in DOMAIN l2' : j # k => g[j] # g[k]
    <3>1. SUFFICES ASSUME NEW j \in 1 .. a - 1 + c, NEW k \in 1 .. a - 1 + c, j # k
                   PROVE  g[j] # g[k]
      BY <2>3
    <3>2. /\ g[j] = IF j < i THEN -j ELSE IF j < a THEN -(j + 1) ELSE 0
          /\ g[k] = IF k < i THEN -k ELSE IF k < a THEN -(k + 1) ELSE 0
          /\ j \in Int /\ 1 <= j /\ k \in Int /\ 1 <= k /\ (j >= a => j = a) /\ (k >= a => k = a)
      BY <2>2, <2>12
    <3> QED
      BY <2>11, <3>1, <3>2
  <2>8. \A j, k \in DOMAIN l2q' : j # k => h[j] # h[k]
    <3>1. SUFFICES ASSUME NEW j \in 1 .. b - v + 1, NEW k \in 1 .. b - v + 1, j # k
                   PROVE  h[j] # h[k]
      BY <2>4
    <3>2. /\ h[j] = IF j <= b - v THEN j + v ELSE -i
          /\ h[k] = IF k <= b - v THEN k + v ELSE -i
          /\ j \in Int /\ 1 <= j /\ k \in Int /\ 1 <= k /\ j <= b - v + 1 /\ k <= b - v + 1
      BY <2>2, <2>13
    <3> QED
      BY <2>11, <3>1, <3>2
  <2>9. \A j \in DOMAIN l2', k \in DOMAIN l2q' : g[j] # h[k]
    <3>1. SUFFICES ASSUME NEW j \in 1 .. a - 1 + c, NEW k \in 1 .. b - v + 1 PROVE  g[j] # h[k]
      BY <2>3, <2>4
    <3>2. /\ g[j] = IF j < i THEN -j ELSE IF j < a THEN -(j + 1) ELSE 0
          /\ h[k] = IF k <= b - v THEN k + v ELSE -i
          /\ j \in Int /\ 1 <= j /\ k \in Int /\ 1 <= k
      BY <2>2, <2>12, <2>13
    <3> QED
      BY <2>11, <3>1, <3>2
  <2>10. Len(l2') + Len(l2q') = Len(l2) + Len(l2q) + Len(n_mem_req(f))
                               - (IF mem_rsp_valid THEN 1 ELSE 0)
    BY <1>2, <1>4, <2>3, <2>4
  <2> QED
    <3>1. Tracks(f, g, h)
      BY <2>5, <2>6, <2>7, <2>8, <2>9 DEF Tracks
    <3>2. \E x, y : Tracks(f, x, y)
      BY <3>1, Zenon
    <3>3. l2q' \in Seq(Request)
      BY <1>5, <1>7, ConcatProperties
    <3> QED
      BY <2>3, <2>10, <3>2, <3>3 DEF Traced
<1> QED
  <2>1. \/ l2' = l2 \o n /\ l2q' = z
        \/ \E i \in DOMAIN l2 :
             /\ l2' = SubSeq(l2, 1, i - 1) \o SubSeq(l2, i + 1, Len(l2)) \o n
             /\ l2q' = z \o <<[l2[i] EXCEPT !.w = IF l2[i].wb THEN Zero ELSE mem[l2[i].l]]>>
    BY <1>1, <1>2 DEF L2
  <2>2. ASSUME NEW i \in DOMAIN l2, NEW q, q = [l2[i] EXCEPT !.w = IF l2[i].wb THEN Zero ELSE mem[l2[i].l]]
        PROVE  q \in Request /\ Same(q, l2[i])
    <3>1. l2[i] \in Request /\ mem \in [LINES -> [WORDS -> Value]] /\ Zero \in [WORDS -> Value]
      BY <1>1, Out1 DEF IInv, Types, TypeOK
    <3> QED
      BY <2>2, <3>1 DEF Request, Same
  <2> QED
    BY <1>6, <1>7, <2>1, <2>2

LEMMA CreditEdge ==
  ASSUME NEW f, Step(f)
  PROVE  \E c \in 0 .. MRQ - 1, d \in Int, n \in 0 .. 1, v \in 0 .. 1 :
           /\ r_mrq_credits = c /\ r_mrq_credits' = d /\ d = c - n + v
           /\ n = 0 <=> n_mem_req(f) = <<>>
           /\ v = 1 <=> mem_rsp_valid
<1>1. /\ l2 \in Seq(Request) /\ l2q \in Seq(Request) /\ r_mrq_credits \in 0 .. MRQ - 1
      /\ MRQ \in Nat
  BY Sizes DEF Step, IInv, Types, TypeOK
<1>2. /\ l2' \in Seq(Request) /\ l2q' \in Seq(Request)
      /\ Len(l2') + Len(l2q') = Len(l2) + Len(l2q) + Len(n_mem_req(f))
                                - (IF mem_rsp_valid THEN 1 ELSE 0)
  BY L2Edge DEF Traced
<1>3. n_mem_req(f) = <<>> \/ \E r \in Request : n_mem_req(f) = <<r>>
  BY Outgoing
<1>4. PICK n \in 0 .. 1 : n = Len(n_mem_req(f)) /\ (n = 0 <=> n_mem_req(f) = <<>>)
  BY <1>3
<1>5. PICK a \in Nat, b \in Nat : a = Len(l2) /\ b = Len(l2q)
  BY <1>1
<1>6. PICK x \in Nat, y \in Nat : x = Len(l2') /\ y = Len(l2q')
  BY <1>2
<1>7. PICK v \in 0 .. 1 : v = (IF mem_rsp_valid THEN 1 ELSE 0)
  OBVIOUS
<1>8. r_mrq_credits = MRQ - 1 - a - b
  BY <1>5 DEF r_mrq_credits
<1>9. r_mrq_credits' = MRQ - 1 - x - y
  BY <1>6 DEF r_mrq_credits
<1>10. x + y = a + b + n - v
  BY <1>2, <1>4, <1>5, <1>6, <1>7
<1>11. MRQ - 1 - x - y = (MRQ - 1 - a - b) - n + v /\ MRQ - 1 - x - y \in Int
  BY <1>1, <1>10
<1>12. PICK c \in 0 .. MRQ - 1, d \in Int : /\ c = r_mrq_credits /\ d = r_mrq_credits'
                                            /\ d = c - n + v
  BY <1>1, <1>8, <1>9, <1>11
<1>13. v = 1 <=> mem_rsp_valid
  BY <1>7
<1> QED
  BY <1>4, <1>12, <1>13

(* What the echo buffer holds after a step: what the step evicted.         *)
LEMMA EchoEdge ==
  ASSUME NEW f, Step(f)
  PROVE  /\ eb' = f.evict
         /\ eb # <<>> => n_mem_req(f) # <<>> /\ f.evict = <<>>
<1>1. /\ IInv /\ Typed(f) /\ Leaving(f) /\ eb \in Seq(WriteBack) /\ Back(f)
      /\ f.evict \in Seq(WriteBack)
  BY DEF Step, IInv, Types, Controls, Edge, Typed
<1>2. eb' = (IF t_pop_eb(f) THEN Tail(eb) ELSE eb) \o f.evict
  BY <1>1 DEF Back
<1>3. CASE eb = <<>>
  <2>1. ~t_pop_eb(f)
    BY <1>3 DEF t_pop_eb
  <2> QED
    BY <1>1, <1>2, <1>3, <2>1
<1>4. CASE eb # <<>>
  <2>1. Len(eb) = 1 /\ r_mrq_credits >= 1
        /\ r_state \in {"CLEAR_DIRTY", "FLUSH_CACHE_WAIT", "FLUSH_CACHE_LAST_WAIT"}
    BY <1>1, <1>4 DEF IInv, Credits
  <2>2. ~p2.got /\ ~p1.got
    BY <1>1, <2>1 DEF IInv, Port2Inv, Port1Inv, In
  <2>3. ~w_gen_early_req(f)
    BY <2>2, Outgoing
  <2>4. f.fetch = <<>> /\ f.evict = <<>>
    <3>1. f.fetch = <<>>
      BY <1>1, <2>1, <2>2 DEF Leaving, CleanVictim, In
    <3>2. f.evict = <<>>
      BY <1>1, <2>1, <2>2 DEF Leaving, In, HeldNext, Step, Controls, DirtyVictim
    <3> QED
      BY <3>1, <3>2
  <2>5. t_pop_eb(f)
    BY <1>4, <2>1, <2>3, <2>4 DEF t_pop_eb
  <2>6. Tail(eb) = <<>>
    <3>1. Tail(eb) \in Seq(WriteBack) /\ Len(Tail(eb)) = 0
      BY <1>1, <1>4, <2>1, HeadTailProperties
    <3> QED
      BY <3>1, EmptySeq
  <2>7. n_mem_req(f) # <<>>
    BY <2>3, <2>5 DEF n_mem_req
  <2> QED
    BY <1>2, <2>4, <2>5, <2>6, <2>7
<1> QED
  BY <1>3, <1>4

(* There is a credit for what the state machine is about to send.          *)
LEMMA CreditsStep == ASSUME NEW f, Step(f) PROVE Credits' /\ r_mrq_credits' \in 0 .. MRQ - 1
<1>1. /\ IInv /\ Credits /\ Typed(f) /\ Controls(f) /\ MRQ \in Nat /\ MRQ > 1
  BY Sizes DEF Step, IInv
<1>2. PICK c \in 0 .. MRQ - 1, d \in Int, n \in 0 .. 1, v \in 0 .. 1 :
           /\ r_mrq_credits = c /\ r_mrq_credits' = d /\ d = c - n + v
           /\ n = 0 <=> n_mem_req(f) = <<>>
           /\ v = 1 <=> mem_rsp_valid
  BY CreditEdge
<1>3. n = 1 => \/ c > 2 /\ w_gen_early_req(f)
               \/ eb # <<>> /\ c >= 1
               \/ CleanVictim /\ f.st = "INJECT_RELOAD" /\ In("ACTIVE") /\ c >= 1
               \/ In("FLUSH_CL") /\ f.st = "FLUSH_CL_WAIT" /\ c >= 1
  <2>1. n = 1 => \E r \in Request : n_mem_req(f) = <<r>>
    BY <1>2, Outgoing
  <2>2. eb # <<>> => c >= 1
    BY <1>1, <1>2 DEF Credits
  <2>3. In("ACTIVE") \/ In("FLUSH_CL") => c >= 1
    BY <1>1, <1>2 DEF Credits, In
  <2>4. CleanVictim => In("ACTIVE")
    BY <1>1 DEF CleanVictim, IInv, Port1Inv
  <2> QED
    BY <1>2, <2>1, <2>2, <2>3, <2>4, Outgoing
<1>4. w_gen_early_req(f) => p2.got /\ w_hit_or_idle
  BY Outgoing
<1>5. p2.got => r_state \in {"ACTIVE", "INJECT_RELOAD", "HANDLE_RELOAD", "FLUSH_CL_WAIT"}
  BY <1>1 DEF IInv, Port2Inv
<1>6. r_mrq_credits' \in 0 .. MRQ - 1
  <2>1. d >= 0
    BY <1>2, <1>3
  <2>2. d <= MRQ - 1
    <3>1. l2' \in Seq(Request) /\ l2q' \in Seq(Request)
      BY L2Edge DEF Traced
    <3>2. PICK x \in Nat, y \in Nat : x = Len(l2') /\ y = Len(l2q')
      BY <3>1
    <3>3. r_mrq_credits' = MRQ - 1 - x - y
      BY <3>2 DEF r_mrq_credits
    <3> QED
      BY <1>1, <1>2, <3>3
  <2> QED
    BY <1>1, <1>2, <2>1, <2>2
<1>7. f.evict # <<>> =>
        /\ Len(f.evict) = 1 /\ n = 0 /\ d >= 1 /\ (f.st = "CLEAR_DIRTY" => d >= 2)
        /\ f.st \in {"CLEAR_DIRTY", "FLUSH_CACHE_WAIT", "FLUSH_CACHE_LAST_WAIT"}
  <2> SUFFICES ASSUME f.evict # <<>>
               PROVE /\ Len(f.evict) = 1 /\ n = 0 /\ d >= 1 /\ (f.st = "CLEAR_DIRTY" => d >= 2)
                     /\ f.st \in {"CLEAR_DIRTY", "FLUSH_CACHE_WAIT", "FLUSH_CACHE_LAST_WAIT"}
    OBVIOUS
  <2>1. /\ f.evict = <<[l |-> p1.out.l, w |-> p1.out.w]>> /\ f.fetch = <<>>
        /\ \/ f.st = "CLEAR_DIRTY"
           \/ In("FLUSH_CACHE") /\ f.st \in {"FLUSH_CACHE_WAIT", "FLUSH_CACHE_LAST_WAIT"}
    BY <1>1 DEF Controls, Leaving
  <2>2. eb = <<>> /\ Len(f.evict) = 1
    BY <2>1, EchoEdge
  <2>3. CASE f.st = "CLEAR_DIRTY"
    <3>1. DirtyVictim /\ p1.got /\ ~w_cache_port1_hit /\ p1.out.v
      BY <1>1, <2>3 DEF Controls, HeldNext, DirtyVictim
    <3>2. ~w_gen_early_req(f) /\ ~CleanVictim /\ In("ACTIVE")
      BY <1>1, <1>4, <3>1 DEF w_hit_or_idle, CleanVictim, DirtyVictim, IInv, Port1Inv
    <3>3. p1.retry
      BY <1>1, <3>1 DEF IInv, Port1Inv
    <3>4. c >= 2
      BY <1>1, <1>2, <3>1, <3>3 DEF Credits
    <3>5. n = 0
      BY <1>2, <1>3, <2>2, <3>2 DEF In
    <3> QED
      BY <1>2, <2>2, <2>3, <3>4, <3>5
  <2>4. CASE In("FLUSH_CACHE") /\ f.st \in {"FLUSH_CACHE_WAIT", "FLUSH_CACHE_LAST_WAIT"}
    <3>1. c >= 1
      BY <1>1, <1>2, <2>4 DEF Credits, In
    <3>2. n = 0
      BY <1>2, <1>3, <1>4, <1>5, <2>2, <2>4 DEF In
    <3> QED
      BY <1>2, <2>2, <2>4, <3>1, <3>2
  <2> QED
    BY <2>1, <2>3, <2>4
<1>8. f.st \in {"ACTIVE", "HANDLE_RELOAD", "FLUSH_CACHE", "FLUSH_CL"} \cup WalkSt => d >= 1
  <2> SUFFICES ASSUME f.st \in {"ACTIVE", "HANDLE_RELOAD", "FLUSH_CACHE", "FLUSH_CL"} \cup WalkSt
               PROVE  d >= 1
    OBVIOUS
  <2>1. n = 1 => (c > 2 /\ w_gen_early_req(f)) \/ (eb # <<>> /\ c >= 1)
    BY <1>3 DEF WalkSt
  <2>2. CASE eb # <<>>
    <3>1. r_state \in {"CLEAR_DIRTY", "FLUSH_CACHE_WAIT", "FLUSH_CACHE_LAST_WAIT"} /\ c >= 1
      BY <1>1, <1>2, <2>2 DEF Credits
    <3>2. r_state = "CLEAR_DIRTY" => c >= 2
      BY <1>1, <1>2 DEF Credits, In
    <3>3. r_state \in {"FLUSH_CACHE_WAIT", "FLUSH_CACHE_LAST_WAIT"} => v = 1
      BY <1>1, <1>2 DEF Controls, SweepNext, In, WalkSt
    <3> QED
      BY <1>2, <3>1, <3>2, <3>3
  <2>3. CASE eb = <<>>
    <3>1. n = 1 => c > 2
      BY <2>1, <2>3
    <3>2. c >= 1 \/ v = 1
      <4>1. CASE r_state \in {"ACTIVE", "HANDLE_RELOAD", "FLUSH_CACHE", "FLUSH_CL"} \/ Walking \/ In("CLEAR_DIRTY")
        BY <1>1, <1>2, <4>1 DEF Credits, In
      <4>2. CASE In("INJECT_RELOAD")
        <5>1. mem_rsp_reload
          BY <1>1, <4>2 DEF Controls, HeldNext, In, WalkSt
        <5> QED
          BY <1>2, <5>1 DEF mem_rsp_reload
      <4>3. CASE r_state \in {"FLUSH_CACHE_WAIT", "FLUSH_CACHE_LAST_WAIT"}
        BY <1>1, <1>2, <4>3 DEF Controls, SweepNext, In, WalkSt
      <4>4. CASE In("FLUSH_CL_WAIT")
        <5>1. w_queues_drained
          BY <1>1, <4>4 DEF Controls, ProbeNext, In, Probing, WalkSt
        <5> QED
          BY <1>1, <1>2, <5>1 DEF w_queues_drained
      <4> QED
        BY <1>1, <4>1, <4>2, <4>3, <4>4, Registers DEF IInv, States, In, Walking
    <3> QED
      BY <1>2, <3>1, <3>2
  <2> QED
    BY <2>2, <2>3
<1>9. f.go /\ f.retry => d >= 2
  <2> SUFFICES ASSUME f.go, f.retry PROVE d >= 2
    OBVIOUS
  <2>1. f.pop /\ f.st = "ACTIVE" /\ CanIssue
    BY <1>1 DEF Controls, Port1Next
  <2>2. c > 1 /\ In("ACTIVE")
    BY <1>2, <2>1 DEF CanIssue
  <2>3. eb = <<>>
    BY <1>1, <2>2 DEF Credits, In
  <2>4. n = 1 => c > 2
    BY <1>3, <2>1, <2>2, <2>3 DEF In
  <2> QED
    BY <1>2, <2>2, <2>4
<1>10. In("CLEAR_DIRTY")' => f.evict # <<>>
  BY <1>1, Port1Edge DEF In, Controls, HeldNext
<1>11. eb' = f.evict /\ r_state' = f.st /\ p1'.got = f.go /\ p1'.retry = f.retry
  BY Port1Edge, EchoEdge
<1>12. Credits'
  <2>1. r_mrq_credits' = d
    BY <1>2
  <2>2. eb' # <<>> => /\ Len(eb') = 1 /\ r_mrq_credits' >= 1
                  /\ r_state' \in {"CLEAR_DIRTY", "FLUSH_CACHE_WAIT", "FLUSH_CACHE_LAST_WAIT"}
    BY <1>7, <1>11, <2>1
  <2>3. In("CLEAR_DIRTY")' => r_mrq_credits' >= 2 /\ eb' # <<>>
    BY <1>7, <1>10, <1>11, <2>1 DEF In
  <2>4. r_state' \in {"ACTIVE", "HANDLE_RELOAD", "FLUSH_CACHE", "FLUSH_CL"} \/ Walking'
        => r_mrq_credits' >= 1
    BY <1>8, <1>11, <2>1 DEF Walking, WalkSt
  <2>5. p1'.got /\ p1'.retry => r_mrq_credits' >= 2
    BY <1>9, <1>11, <2>1
  <2> QED
    BY <2>2, <2>3, <2>4, <2>5 DEF Credits
<1> QED
  BY <1>6, <1>12

-----------------------------------------------------------------------------
(* The core's flush and the L2's probes.                                   *)
LEMMA FlushAlone ==
  ASSUME NEW f, Step(f), r_flush_req \/ Sweeping
  PROVE  /\ ~Busy2 /\ req = 0 /\ sent' = sent /\ ret' < sent /\ mode' = "run"
         /\ sent \notin done /\ sent \notin Answers /\ Kind(sent) = "fl" /\ sent \in Pos
<1>1. IInv /\ ret < sent /\ Kind(sent) = "fl" /\ sent \notin done /\ mode = "run"
  BY DEF Step, IInv, Sweeps
<1>2. /\ ret \in Int /\ sent \in Int /\ sent \in Pos /\ ret + 1 \in Pos /\ ret + 1 <= sent
      /\ ret < ret + 1
  <2>1. ret \in Int /\ sent \in Int /\ base \in Int /\ 0 <= base /\ base <= ret /\ sent <= N
    BY <1>1, Registers DEF IInv
  <2> QED
    BY <1>1, <2>1, Sizes DEF Pos
<1>3. \A q \in Pos : ret < q /\ q <= sent => q = sent
  <2>1. sent <= sent
    BY <1>2
  <2> QED
    BY <1>1, <1>2, <2>1 DEF IInv, Window, Serial
<1>4. \A x : Awaited(x) => FALSE
  BY <1>1, <1>3 DEF Awaited
<1>5. ~Busy2 /\ req = 0
  BY <1>1, <1>4 DEF IInv, Places
<1>6. sent' = sent
  <2>1. ~MayRun(sent + 1)
    BY <1>1, <1>2 DEF MayRun, Serial
  <2> QED
    BY <2>1, CoreEdge
<1>7. ret + 1 = sent
  BY <1>2, <1>3
<1>8. mode' = "run"
  BY <1>1, <1>7, RetireEdge
<1>9. ret' < sent
  <2>1. PICK r \in Int : r = ret'
    BY RetireEdge
  <2>2. r <= sent /\ ~(sent <= r)
    <3>1. ~(sent <= r)
      BY <1>1, <1>2, <2>1, RetireEdge
    <3> QED
      BY <2>1, <3>1, RetireEdge
  <2>3. r < sent
    BY <1>2, <2>2
  <2> QED
    BY <2>1, <2>3
<1>10. sent \notin Answers
  BY <1>1, Answering
<1> QED
  BY <1>1, <1>2, <1>5, <1>6, <1>8, <1>9, <1>10

(* While the flush sweeps the sets no answer of the L2 fills one.          *)
LEMMA SweepFills ==
  ASSUME NEW f, Step(f), Sweeping, NEW i \in IDX
  PROVE  ~Fill(i) /\ (~cache[i].v => ~cache'[i].v) /\ (i = f.inval => ~cache'[i].v)
<1>1. IInv /\ (\A j : j \notin DOMAIN mq)
  BY DEF Step, IInv, Sweeps
<1>2. ~Fill(i)
  BY <1>1, FillWhere DEF Fill, Sweeping, In
<1> QED
  BY <1>2, ArrayEdge

LEMMA SweepEnds ==
  ASSUME NEW f, Step(f), Sweeping, f.st \in {"ACTIVE", "FLUSH_CACHE_LAST_WAIT"}
  PROVE  \A i \in IDX : ~cache'[i].v
<1>1. IInv /\ SweepNext(f) /\ p1.idx \in IDX /\ NIDX \in Nat
  BY Registers, Sizes DEF Step, Controls, IInv
<1>2. CASE In("FLUSH_CACHE")
  <2>1. f.inval = p1.idx /\ p1.idx = NIDX - 1
    BY <1>1, <1>2 DEF SweepNext, LastSet
  <2>2. \A i \in IDX : i < p1.idx => ~cache[i].v
    BY <1>1, <1>2 DEF IInv, Sweeps, In
  <2>3. \A i \in IDX : i < p1.idx \/ i = p1.idx
    BY <1>1, <2>1 DEF IDX
  <2> QED
    BY <2>1, <2>2, <2>3, SweepFills
<1>3. CASE In("FLUSH_CACHE_LAST_WAIT")
  BY <1>1, <1>3, SweepFills DEF IInv, Sweeps
<1>4. ~In("FLUSH_CACHE_WAIT")
  BY <1>1 DEF SweepNext
<1> QED
  BY <1>2, <1>3, <1>4 DEF Sweeping, In

LEMMA SweepsStep == ASSUME NEW f, Step(f) PROVE Sweeps'
<1>1. IInv /\ Sweeps /\ SweepNext(f) /\ sent \in Int /\ ret \in Int
  BY Registers DEF Step, Controls, IInv
<1>2. Sweeping' <=> f.st \in SweepSt
  BY Port1Edge DEF Sweeping, SweepSt
<1>3. f.st \in SweepSt => Sweeping \/ (FlushGo /\ r_flush_req /\ mq = <<>> /\ ~f.flush)
  BY <1>1 DEF SweepNext, FlushGo
<1>4. CASE r_flush_req \/ Sweeping
  <2>1. /\ ~Busy2 /\ req = 0 /\ sent' = sent /\ ret' < sent /\ mode' = "run"
        /\ sent \notin done /\ sent \notin Answers /\ Kind(sent) = "fl" /\ sent \in Pos
    BY <1>4, FlushAlone
  <2>2. sent # sent + 1
    BY <1>1
  <2>3. r_flush_req' = f.flush
    BY <2>1, <2>2, CoreEdge
  <2>4. f.flushed => ~f.flush /\ f.st \notin SweepSt
    BY <1>1 DEF SweepNext, Sweeps, SweepSt
  <2>5. ~f.flushed => sent \notin done'
    BY <2>1, <2>2, CoreEdge
  <2>6. Kind(sent)' = "fl"
    BY <2>1, CoreEdge DEF Kind
  <2>7. r_flush_req' \/ Sweeping' => ret' < sent' /\ Kind(sent)' = "fl"
                                     /\ sent' \notin done' /\ mode' = "run"
    BY <1>2, <2>1, <2>3, <2>4, <2>5, <2>6
  <2>8. Sweeping' => mq' = <<>> /\ ~r_flush_req'
    <3>1. f.st \in SweepSt => mq = <<>> /\ ~f.flush
      BY <1>1, <1>3 DEF Sweeps, SweepNext
    <3>2. ~t_push_miss
      BY <2>1, MoveQ DEF Busy2
    <3>3. mq = <<>> => ~f.pop
      BY MoveQ
    <3>4. ~f.pop /\ ~t_push_miss => mq' = mq
      BY DEF Step, Edge, Queue, n_mq
    <3> QED
      BY <1>2, <2>3, <3>1, <3>2, <3>3, <3>4
  <2> QED
    <3>1. r_state' = f.st /\ p1'.idx = (IF f.idx = None THEN 0 ELSE f.idx) /\ p1.idx \in IDX
          /\ NIDX \in Nat /\ IDX = 0 .. NIDX - 1
      BY <1>1, Port1Edge, Registers, Sizes DEF IInv, IDX
    <3>2. ASSUME f.st \in {"FLUSH_CACHE", "FLUSH_CACHE_WAIT"}, NEW i \in IDX, i < p1'.idx
          PROVE  ~cache'[i].v
      <4>1. CASE ~Sweeping
        <5>1. f.idx = 0
          BY <1>1, <3>2, <4>1 DEF SweepNext, SweepSt
        <5>2. p1'.idx = 0 /\ ~(i < 0)
          BY <3>1, <5>1
        <5> QED
          BY <3>2, <5>2
      <4>2. CASE In("FLUSH_CACHE")
        <5>1. f.inval = p1.idx /\ f.idx = NextSet /\ ~LastSet
          BY <1>1, <3>2, <4>2 DEF SweepNext
        <5>2. NextSet = p1.idx + 1 /\ p1.idx + 1 \in Int /\ None # p1.idx + 1
          <6>1. p1.idx + 1 \in 0 .. NIDX - 1
            BY <3>1, <5>1 DEF LastSet
          <6> QED
            BY <3>1, <6>1 DEF NextSet, None
        <5>3. PICK m \in IDX : m = p1.idx
          BY <3>1
        <5>4. i < m + 1
          BY <3>1, <3>2, <5>1, <5>2, <5>3
        <5>5. i < m \/ i = m
          BY <3>1, <5>4
        <5>6. i < m => ~cache[i].v
          BY <1>1, <4>2, <5>3 DEF Sweeps, In
        <5> QED
          BY <4>2, <5>1, <5>3, <5>5, <5>6, SweepFills DEF Sweeping, In
      <4>3. CASE In("FLUSH_CACHE_WAIT")
        <5>1. f.idx = p1.idx /\ None \notin IDX
          BY <1>1, <3>1, <4>3 DEF SweepNext, None
        <5>2. i < p1.idx
          BY <3>1, <3>2, <5>1
        <5>3. ~cache[i].v
          BY <1>1, <4>3, <5>2 DEF Sweeps, In
        <5> QED
          BY <4>3, <5>3, SweepFills DEF Sweeping, In
      <4>4. ~In("FLUSH_CACHE_LAST_WAIT")
        BY <1>1, <3>2 DEF SweepNext
      <4> QED
        BY <4>1, <4>2, <4>3, <4>4 DEF Sweeping, In
    <3>3. In("FLUSH_CACHE_LAST_WAIT")' => \A i \in IDX : ~cache'[i].v
      <4>1. f.st = "FLUSH_CACHE_LAST_WAIT" => Sweeping
        BY <1>1 DEF SweepNext, SweepSt
      <4> QED
        BY <3>1, <4>1, SweepEnds DEF In
    <3>4. /\ (r_flush_req \/ Sweeping => /\ ret < sent /\ Kind(sent) = "fl"
                                        /\ sent \notin done /\ mode = "run")'
          /\ (Sweeping => mq = <<>> /\ ~r_flush_req)'
      BY <2>7, <2>8
    <3>5. (r_state \in {"FLUSH_CACHE", "FLUSH_CACHE_WAIT"} =>
             \A i \in IDX : i < p1.idx => ~cache[i].v)'
      BY <3>1, <3>2
    <3>6. (In("FLUSH_CACHE_LAST_WAIT") => \A i \in IDX : ~cache[i].v)'
      BY <3>3
    <3> QED
      BY <3>4, <3>5, <3>6 DEF Sweeps
<1>5. CASE ~(r_flush_req \/ Sweeping)
  <2>1. ~Sweeping'
    BY <1>2, <1>3, <1>5
  <2>2. ~f.flush /\ ~f.flushed
    BY <1>1, <1>5 DEF SweepNext
  <2>3. ASSUME r_flush_req' PROVE ret' < sent' /\ Kind(sent)' = "fl" /\ sent' \notin done' /\ mode' = "run"
    <3>1. sent' = sent + 1 /\ Kind(sent + 1) = "fl" /\ MayRun(sent + 1)
      <4>1. sent' = sent + 1 /\ Kind(sent + 1) = "fl"
        BY <2>2, <2>3, CoreEdge
      <4>2. sent + 1 # sent
        BY <1>1
      <4> QED
        BY <4>1, <4>2, CoreEdge
    <3>2. mode = "run" /\ ret = sent
      BY <3>1 DEF MayRun, Serial
    <3>3. mode' = "run"
      <4>1. ~(ret < sent)
        BY <1>1, <3>2
      <4> QED
        BY <3>2, <4>1, RetireEdge
    <3>4. PICK r \in Int : r = ret'
      BY RetireEdge
    <3>5. r < sent + 1
      <4>1. r <= sent
        BY <3>4, RetireEdge
      <4> QED
        BY <1>1, <4>1
    <3>6. sent + 1 \notin done'
      <4>1. \A x \in done : x <= sent
        BY <1>1 DEF IInv, Window
      <4>2. \A x \in Answers : x <= sent
        BY <1>1, Answering
      <4>3. ~(sent + 1 <= sent) /\ sent + 1 # sent
        BY <1>1
      <4> QED
        BY <2>2, <3>1, <4>1, <4>2, <4>3, CoreEdge
    <3>7. Kind(sent)' = "fl"
      BY <3>1, CoreEdge DEF Kind
    <3> QED
      BY <3>1, <3>3, <3>4, <3>5, <3>6, <3>7
  <2>4. ~(r_state' \in {"FLUSH_CACHE", "FLUSH_CACHE_WAIT"}) /\ ~(In("FLUSH_CACHE_LAST_WAIT"))'
    BY <2>1 DEF Sweeping, In
  <2> QED
    BY <2>1, <2>3, <2>4 DEF Sweeps
<1> QED
  BY <1>4, <1>5

LEMMA Probes1Step == ASSUME NEW f, Step(f) PROVE Probes1'
<1>1. IInv /\ Probes1 /\ ProbeNext(f) /\ Leaving(f) /\ Probes(f) /\ NoLine \notin LINES
  BY Sizes DEF Step, Controls, IInv, Edge
<1>2. Probing' <=> f.st \in ProbeSt
  BY Port1Edge DEF Probing, ProbeSt
<1>3. f.st \in ProbeSt => (Probing \/ r_flush_cl_req) /\ ~f.cl /\ ~f.ack
  <2>1. f.st = "FLUSH_CL" => r_flush_cl_req /\ ~f.cl
    BY <1>1 DEF ProbeNext
  <2>2. f.st = "FLUSH_CL_WAIT" => Probing /\ f.cl = r_flush_cl_req
    BY <1>1 DEF ProbeNext
  <2>3. Probing => ~r_flush_cl_req
    BY <1>1 DEF Probes1
  <2>4. f.st = "FLUSH_CL" => ~f.ack
    BY <1>1, <2>1, <2>3 DEF ProbeNext
  <2>5. f.st = "FLUSH_CL_WAIT" => ~f.ack
    BY <1>1 DEF ProbeNext
  <2> QED
    BY <2>1, <2>2, <2>3, <2>4, <2>5 DEF ProbeSt
<1>4. f.cl => r_flush_cl_req /\ ~f.ack
  BY <1>1 DEF ProbeNext, Probes1
<1>5. f.st \in ProbeSt => eb' = <<>>
  BY <1>1, EchoEdge DEF Leaving, ProbeSt
<1>6. CASE /\ probe' = (IF f.ack THEN NoLine ELSE probe) /\ r_flush_cl_req' = f.cl
  BY <1>1, <1>2, <1>3, <1>4, <1>5, <1>6 DEF Probes1
<1>7. CASE probe = NoLine /\ probe' \in LINES /\ r_flush_cl_req' = TRUE
  <2>1. ~Probing /\ ~r_flush_cl_req
    BY <1>1, <1>7 DEF Probes1
  <2> QED
    BY <1>2, <1>3, <1>7, <2>1 DEF Probes1
<1> QED
  BY <1>1, <1>6, <1>7 DEF Probes

-----------------------------------------------------------------------------
(* Requests in flight and the queue entries they are for.                  *)
TagNext(j) == (r_mq_head_ptr' + j - 1) % MRQ
Wrap(x) == IF x < MRQ THEN x ELSE x - MRQ
LEMMA TagMoves ==
  ASSUME NEW f, Step(f)
  PROVE  /\ \A j \in DOMAIN mq : j > Popped(f) => TagNext(j - Popped(f)) = Tag(j)
         /\ t_push_miss => TagNext(Len(mq) - Popped(f) + 1) = r_mq_tail_ptr
         /\ t_push_miss => \A j \in DOMAIN mq : Tag(j) # r_mq_tail_ptr
         /\ r_mq_tail_ptr < MRQ /\ r_mq_tail_ptr \in Int /\ r_mq_head_ptr = Tag(1)
<1>1. /\ r_mq_head_ptr \in 0 .. MRQ - 1 /\ MRQ \in Nat /\ MRQ > 1 /\ mq \in Seq(Pos)
      /\ Len(mq) <= MRQ
  BY Sizes DEF Step, IInv, Types, TypeOK
<1>2. PICK h \in 0 .. MRQ - 1, n \in 0 .. MRQ, d \in 0 .. 1 :
        h = r_mq_head_ptr /\ n = Len(mq) /\ d = Popped(f) /\ (f.pop <=> d = 1)
  <2>1. Len(mq) \in 0 .. MRQ
    BY <1>1
  <2> QED
    BY <1>1, <2>1 DEF Popped
<1>3. DOMAIN mq = 1 .. n
  BY <1>1, <1>2
<1>4. r_mq_head_ptr' = IF d = 1 THEN (h + 1) % MRQ ELSE h
  BY <1>2 DEF Step, Edge, Queue
<1>6. \A x \in 0 .. 2 * MRQ - 1 : x % MRQ = Wrap(x)
  BY Modulo DEF Wrap
<1>5. PICK k \in 0 .. MRQ - 1 : k = r_mq_head_ptr' /\ k = IF d = 1 THEN Wrap(h + 1) ELSE h
  <2>1. h + 1 \in 0 .. 2 * MRQ - 1
    BY <1>1
  <2>2. (h + 1) % MRQ = Wrap(h + 1)
    BY <2>1, <1>6, Zenon
  <2>3. Wrap(h + 1) \in 0 .. MRQ - 1
    BY <1>1 DEF Wrap
  <2> QED
    BY <1>4, <2>2, <2>3
<1>7. ASSUME NEW j \in 1 .. n, j > d PROVE (k + (j - d) - 1) % MRQ = (h + j - 1) % MRQ
  <2>1. k + (j - d) - 1 \in 0 .. 2 * MRQ - 1 /\ h + j - 1 \in 0 .. 2 * MRQ - 1
    BY <1>1, <1>7
  <2>2. /\ (k + (j - d) - 1) % MRQ = Wrap(k + (j - d) - 1)
        /\ (h + j - 1) % MRQ = Wrap(h + j - 1)
    BY <1>6, <2>1, Zenon
  <2>3. Wrap(k + (j - d) - 1) = Wrap(h + j - 1)
    BY <1>1, <1>5, <1>7 DEF Wrap
  <2> QED
    BY <2>2, <2>3
<1>8. \A j \in DOMAIN mq : j > Popped(f) => TagNext(j - Popped(f)) = Tag(j)
  BY <1>2, <1>3, <1>5, <1>7 DEF TagNext, Tag
<1>9. t_push_miss => n < MRQ
  BY <1>2, MoveQ DEF Step, IInv, Port2Inv, Busy2
<1>10. h + n \in 0 .. 2 * MRQ - 1
  BY <1>1
<1>11. r_mq_tail_ptr = (h + n) % MRQ
  BY <1>2 DEF r_mq_tail_ptr
<1>12. (h + n) % MRQ = Wrap(h + n)
  BY <1>6, <1>10, Zenon
<1>13. t_push_miss => TagNext(Len(mq) - Popped(f) + 1) = r_mq_tail_ptr
  <2> SUFFICES ASSUME n < MRQ PROVE (k + (n - d + 1) - 1) % MRQ = (h + n) % MRQ
    BY <1>2, <1>5, <1>9, <1>11 DEF TagNext
  <2>0. d <= n
    BY <1>2, MoveQ
  <2>1. k + (n - d + 1) - 1 \in 0 .. 2 * MRQ - 1
    BY <1>1, <2>0
  <2>2. (k + (n - d + 1) - 1) % MRQ = Wrap(k + (n - d + 1) - 1)
    BY <1>6, <2>1, Zenon
  <2>3. Wrap(k + (n - d + 1) - 1) = Wrap(h + n)
    BY <1>1, <1>5, <2>0 DEF Wrap
  <2> QED
    BY <1>12, <2>2, <2>3
<1>14. t_push_miss => \A j \in DOMAIN mq : Tag(j) # r_mq_tail_ptr
  <2> SUFFICES ASSUME n < MRQ, NEW j \in 1 .. n PROVE (h + j - 1) % MRQ # (h + n) % MRQ
    BY <1>2, <1>3, <1>9, <1>11 DEF Tag
  <2>1. h + j - 1 \in 0 .. 2 * MRQ - 1
    BY <1>1
  <2>2. (h + j - 1) % MRQ = Wrap(h + j - 1)
    BY <1>6, <2>1, Zenon
  <2>3. Wrap(h + j - 1) # Wrap(h + n)
    BY <1>1 DEF Wrap
  <2> QED
    BY <1>12, <2>2, <2>3
<1>15. (h + n) % MRQ < MRQ /\ (h + n) % MRQ \in Int
  BY <1>1, <1>10
<1>16. (h + 1 - 1) % MRQ = h
  <2>1. h + 1 - 1 \in 0 .. 2 * MRQ - 1
    BY <1>1
  <2>2. (h + 1 - 1) % MRQ = Wrap(h + 1 - 1)
    BY <1>6, <2>1, Zenon
  <2> QED
    BY <1>1, <2>2 DEF Wrap
<1> QED
  BY <1>2, <1>8, <1>11, <1>13, <1>14, <1>15, <1>16 DEF Tag

(* While a probe waits for its write back, something is in flight until    *)
(* the wait ends.                                                          *)
LEMMA WaitGoesOn ==
  ASSUME NEW f, Step(f), In("FLUSH_CL_WAIT"), l2 # <<>> \/ l2q # <<>>
  PROVE  f.st = "FLUSH_CL_WAIT"
<1>1. ProbeNext(f) /\ l2 \in Seq(Request) /\ l2q \in Seq(Request) /\ MRQ \in Nat
  BY Sizes DEF Step, Controls, IInv, Types
<1>2. ~w_queues_drained
  <2>1. PICK a \in Nat, b \in Nat : a = Len(l2) /\ b = Len(l2q)
    BY <1>1
  <2>2. a # 0 \/ b # 0
    BY <1>1, <2>1
  <2>3. MRQ - 1 - a - b # MRQ - 1
    BY <1>1, <2>2
  <2> QED
    BY <2>1, <2>3 DEF w_queues_drained, r_mrq_credits
<1> QED
  BY <1>1, <1>2 DEF ProbeNext, In, Probing

ApartNext(j) ==
  /\ VIdx(mq'[j]) = IdxOf(mq'[j])
  /\ ~(cache'[IdxOf(mq'[j])].v /\ cache'[IdxOf(mq'[j])].d)
  /\ \A k \in 1 .. j - 1 : Low[VIdx(mq'[k])] # Low[IdxOf(mq'[j])]
  /\ Busy1' => Set1' # IdxOf(mq'[j])
KnownNext(r) ==
  IF r.wb THEN r.t = EbTag \/ r_state' = "FLUSH_CL_WAIT"
  ELSE \/ r.t = FetchTag /\ r_state' = "INJECT_RELOAD" /\ r.l = Line(p1'.p)
       \/ /\ r.t \in r_mq_inflight' \/ r_state' = "FLUSH_CL_WAIT"
          /\ \E j \in DOMAIN mq' : r.t = TagNext(j) /\ r.l = Line(mq'[j]) /\ ApartNext(j)

(* The set of a queued request with a fetch in flight stays free for it.   *)
LEMMA StaysApart ==
  ASSUME NEW f, Step(f), NEW j \in DOMAIN mq, Apart(j), f.pop => j # 1
  PROVE  /\ j - Popped(f) \in DOMAIN mq' /\ mq'[j - Popped(f)] = mq[j]
         /\ ApartNext(j - Popped(f)) /\ j > Popped(f)
<1>1. IInv /\ mq \in Seq(Pos) /\ mq' \in Seq(Pos) /\ prog \in PROGRAMS
  BY MoveQ, Registers DEF Step, IInv, Types
<1>2. PICK n \in Nat, d \in 0 .. 1 : /\ n = Len(mq) /\ d = Popped(f)
                                     /\ (f.pop <=> d = 1) /\ d <= n
  BY MoveQ DEF Popped
<1>3. j \in 1 .. n /\ j > d /\ DOMAIN mq = 1 .. n
  BY <1>1, <1>2
<1>4. /\ \A i \in 1 .. n - d : i \in DOMAIN mq' /\ mq'[i] = mq[i + d]
  <2>1. Len(mq') \in Nat /\ Len(mq') >= n - d /\ DOMAIN mq' = 1 .. Len(mq')
    BY <1>1, <1>2, MoveQ
  <2> QED
    BY <1>2, <2>1, MoveQ
<1>5. PICK i \in 1 .. n - d : i = j - d
  BY <1>3
<1>6. i \in DOMAIN mq' /\ mq'[i] = mq[j] /\ i + d = j
  <2>1. i + d = j
    BY <1>3, <1>5
  <2> QED
    BY <1>4, <2>1
<1>7. PICK p \in Pos, s \in IDX : p = mq[j] /\ s = IdxOf(p)
  <2>1. mq[j] \in Pos
    BY <1>1
  <2> QED
    BY <1>1, <2>1, Operation
<1>8. /\ VIdx(p) = s /\ ~(cache[s].v /\ cache[s].d) /\ (Busy1 => Set1 # s)
      /\ \A k \in 1 .. j - 1 : Low[VIdx(mq[k])] # Low[s]
  BY <1>7 DEF Apart
<1>9. ~(cache'[s].v /\ cache'[s].d)
  BY <1>1, <1>8, CacheDirty, Storing DEF Store
<1>10. \A k \in 1 .. i - 1 : Low[VIdx(mq'[k])] # Low[s]
  <2> TAKE k \in 1 .. i - 1
  <2>1. k \in 1 .. n - d /\ k + d \in 1 .. j - 1
    BY <1>3, <1>5
  <2> QED
    BY <1>4, <1>8, <2>1
<1>11. Busy1' => Set1' # s
  <2> SUFFICES ASSUME Busy1' PROVE Set1' # s
    OBVIOUS
  <2>1. Set1' = IdxOf(p1'.p)
    BY CoreEdge DEF Set1, IdxOf, Line
  <2>2. CASE f.pop
    <3>1. p1'.p = mq[1] /\ mq[1] \in Pos /\ 1 \in 1 .. j - 1
      BY <1>1, <1>2, <1>3, <2>2, Move1
    <3>2. Low[VIdx(mq[1])] # Low[s] /\ Low[VIdx(mq[1])] = Low[IdxOf(mq[1])]
      BY <1>1, <1>8, <3>1, Operation
    <3> QED
      BY <2>1, <3>1, <3>2
  <2>3. CASE ~f.pop
    BY <1>8, <2>1, <2>3, Move1 DEF Set1
  <2> QED
    BY <2>2, <2>3
<1> QED
  BY <1>2, <1>3, <1>5, <1>6, <1>7, <1>8, <1>9, <1>10, <1>11 DEF ApartNext

(* Which tags are taken: those of the echo buffer and of a probe's write   *)
(* back, port 1's, and those of queue entries with a fetch in flight.      *)
LEMMA TagsTaken ==
  ASSUME IInv, NEW r, Known(r)
  PROVE  \/ r.t = EbTag \/ In("FLUSH_CL_WAIT")
         \/ r.t = FetchTag /\ In("INJECT_RELOAD")
         \/ \E j \in DOMAIN mq : r.t = Tag(j)
  BY DEF Known, Expected

LEMMA TagsDiffer == FetchTag # EbTag /\ ~(FetchTag < MRQ) /\ ~(EbTag < MRQ)
  BY Sizes DEF FetchTag, EbTag

(* A request that is still in flight is still the one it was expected to be*)
LEMMA KnownStays ==
  ASSUME NEW f, Step(f), NEW r, Known(r), l2 # <<>> \/ l2q # <<>>,
         mem_rsp_valid => mem_rsp.t # r.t \/ r.t = EbTag \/ In("FLUSH_CL_WAIT")
  PROVE  KnownNext(r)
<1>1. IInv /\ HeldNext(f) /\ Port1Next(f) /\ Queue(f)
  BY DEF Step, Controls, Edge
<1>2. In("FLUSH_CL_WAIT") => r_state' = "FLUSH_CL_WAIT"
  BY WaitGoesOn, Port1Edge
<1>3. f.pop => CanIssue
  BY <1>1 DEF Port1Next
<1>4. CASE r.wb
  BY <1>2, <1>4 DEF Known, KnownNext
<1>5. CASE ~r.wb /\ r.t = FetchTag /\ In("INJECT_RELOAD") /\ r.l = Line(p1.p)
  <2>1. ~(mem_rsp_reload /\ mem_rsp.t = FetchTag)
    BY <1>5, TagsDiffer DEF mem_rsp_reload, In
  <2>2. f.st = "INJECT_RELOAD"
    BY <1>1, <1>5, <2>1 DEF HeldNext
  <2>3. ~f.pop
    BY <1>3, <1>5 DEF CanIssue, In
  <2>4. f.p = p1.p
    BY <1>1, <2>2, <2>3 DEF Port1Next, HeldSt
  <2> QED
    BY <1>5, <2>2, <2>4, Port1Edge DEF KnownNext
<1>6. ASSUME ~r.wb, NEW j \in DOMAIN mq, r.t = Tag(j), r.l = Line(mq[j]), Apart(j),
             r.t \in r_mq_inflight \/ In("FLUSH_CL_WAIT")
      PROVE  KnownNext(r)
  <2>1. f.pop => j # 1
    <3> SUFFICES ASSUME f.pop, j = 1 PROVE FALSE
      OBVIOUS
    <3>1. In("ACTIVE") /\ ~HeadInflight
      BY <1>3 DEF CanIssue
    <3>2. r_mq_head_ptr = Tag(1)
      BY TagMoves
    <3> QED
      BY <1>6, <3>1, <3>2 DEF HeadInflight, In
  <2>2. /\ j - Popped(f) \in DOMAIN mq' /\ mq'[j - Popped(f)] = mq[j]
        /\ ApartNext(j - Popped(f)) /\ j > Popped(f)
    BY <1>6, <2>1, StaysApart
  <2>3. TagNext(j - Popped(f)) = Tag(j)
    BY <2>2, TagMoves
  <2>4. r.t \in r_mq_inflight' \/ r_state' = "FLUSH_CL_WAIT"
    <3>1. CASE In("FLUSH_CL_WAIT")
      BY <1>2, <3>1
    <3>2. CASE ~In("FLUSH_CL_WAIT")
      <4>1. r.t # EbTag
        BY <1>1, <1>6, TagType
      <4>2. mem_rsp_valid => mem_rsp.t # r.t
        BY <3>2, <4>1
      <4> QED
        BY <1>1, <1>6, <3>2, <4>2 DEF Queue, Only
    <3> QED
      BY <3>1, <3>2
  <2>5. PICK i : i = j - Popped(f)
    OBVIOUS
  <2>6. i \in DOMAIN mq' /\ r.t = TagNext(i) /\ r.l = Line(mq'[i]) /\ ApartNext(i)
    BY <1>6, <2>2, <2>3, <2>5
  <2> QED
    BY <1>6, <2>4, <2>6 DEF KnownNext
<1> QED
  BY <1>4, <1>5, <1>6 DEF Known, Expected

(* No answer on its way carries the queue's next tag.                      *)
LEMMA TailFree ==
  ASSUME NEW f, Step(f), NEW r, Known(r), t_push_miss, r.t = r_mq_tail_ptr,
         l2 # <<>> \/ l2q # <<>>
  PROVE  r_state' = "FLUSH_CL_WAIT"
<1>1. IInv
  BY DEF Step
<1>2. r_mq_tail_ptr < MRQ /\ \A j \in DOMAIN mq : Tag(j) # r_mq_tail_ptr
  BY TagMoves
<1>3. In("FLUSH_CL_WAIT")
  BY <1>1, <1>2, TagsTaken, TagsDiffer
<1> QED
  BY <1>3, WaitGoesOn, Port1Edge

LEMMA AnswerKnown ==
  ASSUME IInv, mem_rsp_valid
  PROVE  Known(mem_rsp) /\ l2q # <<>> /\ 1 \in DOMAIN l2q /\ mem_rsp = l2q[1]
<1>1. l2q # <<>> /\ l2q \in Seq(Request)
  BY DEF mem_rsp_valid, IInv, Types
<1>2. 1 \in DOMAIN l2q /\ mem_rsp = l2q[1]
  BY <1>1 DEF mem_rsp
<1> QED
  BY <1>1, <1>2 DEF IInv, Fetches

(* An early fetch is sent for a set nothing is using.                      *)
LEMMA EarlyKnown ==
  ASSUME NEW f, Step(f), w_gen_early_req(f), NEW r, ~r.wb, r.l = Line(p2.p), r.t = r_mq_tail_ptr
  PROVE  KnownNext(r)
<1>1. /\ IInv /\ Queue(f) /\ Port2Inv /\ Port1Inv /\ t_push_miss /\ w_hit_or_idle /\ p2.got
      /\ p2.p \in Pos /\ mq \in Seq(Pos) /\ mq' \in Seq(Pos) /\ prog \in PROGRAMS
      /\ VIdx(p2.p) = IdxOf(p2.p) /\ ~DirtyInTheWay /\ ~SetInUse(f)
  BY MoveQ, Registers DEF Step, Edge, IInv, Types, w_gen_early_req
<1>2. PICK p \in Pos, s \in IDX : p = p2.p /\ s = IdxOf(p)
  BY <1>1, Operation
<1>3. PICK n \in Nat, d \in 0 .. 1 : /\ n = Len(mq) /\ d = Popped(f)
                                     /\ (f.pop <=> d = 1) /\ d <= n
  BY MoveQ DEF Popped
<1>4. PICK j \in Nat : j = n - d + 1
  BY <1>3
<1>5. j \in DOMAIN mq' /\ mq'[j] = p
  <2>1. Len(mq') = j
    BY <1>1, <1>3, <1>4, MoveQ
  <2>2. DOMAIN mq' = 1 .. j /\ j \in 1 .. j
    BY <1>1, <1>3, <1>4, <2>1
  <2>3. mq'[Len(mq) - Popped(f) + 1] = p2.p
    BY <1>1, MoveQ
  <2> QED
    BY <1>2, <1>3, <1>4, <2>2, <2>3
<1>6. TagNext(j) = r_mq_tail_ptr
  <2>1. TagNext(Len(mq) - Popped(f) + 1) = r_mq_tail_ptr
    BY <1>1, TagMoves
  <2>2. j = Len(mq) - Popped(f) + 1
    BY <1>3, <1>4
  <2> QED
    BY <2>1, <2>2, Zenon
<1>7. r.t \in r_mq_inflight' \/ r_state' = "FLUSH_CL_WAIT"
  <2>1. CASE mem_rsp_valid /\ mem_rsp.t = r.t
    BY <1>1, <2>1, AnswerKnown, TailFree
  <2>2. CASE ~(mem_rsp_valid /\ mem_rsp.t = r.t)
    BY <1>1, <2>2 DEF Queue, Only
  <2> QED
    BY <2>1, <2>2
<1>8. /\ p2.idx = s /\ VIdx(p) = s /\ ~p2.line /\ ~p2.fwd
      /\ rr # None => Low[rr] # Low[s]
      /\ p1.lw => Low[p1.idx] # Low[s]
  BY <1>1, <1>2 DEF Port2Inv, SetInUse
<1>9. \A i \in DOMAIN mq : Low[VIdx(mq[i])] # Low[s]
  BY <1>1, <1>8 DEF Port2Inv
<1>10. ~(cache[s].v /\ cache[s].d)
  <2>1. s # None
    BY <1>2, Sizes DEF IDX, None
  <2> QED
    BY <1>1, <1>8, <2>1 DEF Port2Inv, DirtyInTheWay
<1>11. ~(cache'[s].v /\ cache'[s].d)
  <2>1. ~Store(s)
    BY <1>1, <1>8, Storing DEF Store, Busy2
  <2> QED
    BY <1>10, <2>1, CacheDirty
<1>12. \A k \in 1 .. j - 1 : Low[VIdx(mq'[k])] # Low[s]
  <2> TAKE k \in 1 .. j - 1
  <2>1. k \in 1 .. n - d /\ k + d \in 1 .. n
    BY <1>3, <1>4
  <2>2. mq'[k] = mq[k + d] /\ k + d \in DOMAIN mq
    BY <1>1, <1>3, <2>1, MoveQ
  <2> QED
    BY <1>9, <2>2
<1>13. Busy1' => Set1' # s
  <2> SUFFICES ASSUME Busy1' PROVE Set1' # s
    OBVIOUS
  <2>1. Set1' = IdxOf(p1'.p)
    BY CoreEdge DEF Set1, IdxOf, Line
  <2>2. CASE f.pop
    <3>1. p1'.p = mq[1] /\ mq[1] \in Pos /\ 1 \in DOMAIN mq
      BY <1>1, <2>2, Move1
    <3>2. Low[VIdx(mq[1])] # Low[s] /\ Low[VIdx(mq[1])] = Low[IdxOf(mq[1])]
      BY <1>1, <1>9, <3>1, Operation
    <3> QED
      BY <2>1, <3>1, <3>2
  <2>3. CASE ~f.pop
    <3>1. p1'.p = p1.p /\ Held
      BY <1>1, <2>3, Move1 DEF Busy1, w_got_hit, w_hit_or_idle
    <3>2. Set1 # s
      BY <1>1, <1>8, <3>1 DEF Port2Inv, Port1Inv
    <3> QED
      BY <2>1, <3>1, <3>2 DEF Set1
  <2> QED
    BY <2>2, <2>3
<1>14. ApartNext(j)
  BY <1>2, <1>5, <1>8, <1>11, <1>12, <1>13 DEF ApartNext
<1>15. r.t = TagNext(j) /\ r.l = Line(mq'[j])
  BY <1>2, <1>5, <1>6
<1> QED
  BY <1>5, <1>7, <1>14, <1>15 DEF KnownNext

(* A new request is expected, and its tag is not that of another.          *)
LEMMA NewKnown ==
  ASSUME NEW f, Step(f), NEW r
  PROVE  n_mem_req(f) = <<r>> =>
           /\ KnownNext(r)
           /\ \A q : Known(q) /\ q.t = r.t /\ (l2 # <<>> \/ l2q # <<>>) =>
                       r.t = EbTag \/ r_state' = "FLUSH_CL_WAIT"
<1>1. n_mem_req(f) = <<r>> =>
        \/ w_gen_early_req(f) /\ ~r.wb /\ r.l = Line(p2.p) /\ r.t = r_mq_tail_ptr /\ t_push_miss
        \/ r.wb /\ r.t = EbTag
        \/ f.st = "INJECT_RELOAD" /\ CleanVictim /\ ~r.wb /\ r.l = Line(p1.p) /\ r.t = FetchTag
        \/ f.st = "FLUSH_CL_WAIT" /\ r.wb
  BY Outgoing, Zenon
<1>2. ASSUME w_gen_early_req(f), ~r.wb, r.l = Line(p2.p), r.t = r_mq_tail_ptr, t_push_miss
      PROVE  /\ KnownNext(r)
             /\ \A q : Known(q) /\ q.t = r.t /\ (l2 # <<>> \/ l2q # <<>>) => r_state' = "FLUSH_CL_WAIT"
  BY <1>2, EarlyKnown, TailFree
<1>3. ASSUME r.wb, r.t = EbTag PROVE KnownNext(r)
  BY <1>3 DEF KnownNext
<1>4. ASSUME f.st = "INJECT_RELOAD", CleanVictim, ~r.wb, r.l = Line(p1.p), r.t = FetchTag
      PROVE  KnownNext(r) /\ \A q : Known(q) => q.t # r.t
  <2>1. IInv /\ Port1Next(f) /\ In("ACTIVE") /\ ~w_hit_or_idle
    BY <1>4 DEF Step, Controls, IInv, Port1Inv, CleanVictim, w_hit_or_idle
  <2>2. f.p = p1.p
    BY <1>4, <2>1 DEF Port1Next, CanIssue, HeldSt
  <2>3. KnownNext(r)
    BY <1>4, <2>2, Port1Edge DEF KnownNext
  <2>4. ASSUME NEW q, Known(q), q.t = FetchTag PROVE FALSE
    BY <2>1, <2>4, TagsTaken, TagsDiffer, TagType DEF In
  <2> QED
    BY <1>4, <2>3, <2>4
<1>5. ASSUME f.st = "FLUSH_CL_WAIT", r.wb
      PROVE  KnownNext(r) /\ r_state' = "FLUSH_CL_WAIT"
  BY <1>5, Port1Edge DEF KnownNext
<1> QED
  BY <1>1, <1>2, <1>3, <1>4, <1>5

(* A request in flight by its place: -x in l2, x in l2q. *)
Flies(x) == x \in Int /\ ((x < 0 /\ -x \in DOMAIN l2) \/ (x > 0 /\ x \in DOMAIN l2q))
At(x) == IF x < 0 THEN l2[-x] ELSE l2q[x]

LEMMA Flying ==
  ASSUME IInv, NEW x, Flies(x)
  PROVE  /\ Known(At(x)) /\ (l2 # <<>> \/ l2q # <<>>)
         /\ \A y : Flies(y) /\ x # y /\ At(x).t = At(y).t => At(x).t = EbTag \/ In("FLUSH_CL_WAIT")
<1>1. l2 \in Seq(Request) /\ l2q \in Seq(Request) /\ Fetches
  BY DEF IInv, Types
<1>2. CASE x < 0
  <2>1. PICK i \in DOMAIN l2 : i = -x
    BY <1>2 DEF Flies
  <2>2. At(x) = l2[i] /\ Known(l2[i])
    BY <1>1, <1>2, <2>1 DEF At, Fetches
  <2>3. l2 # <<>>
    BY <2>1
  <2>4. ASSUME NEW y, Flies(y), x # y, At(x).t = At(y).t
        PROVE  At(x).t = EbTag \/ In("FLUSH_CL_WAIT")
    <3>1. CASE y < 0
      <4>1. PICK k \in DOMAIN l2 : k = -y
        BY <2>4, <3>1 DEF Flies
      <4>2. At(y) = l2[k]
        BY <3>1, <4>1 DEF At
      <4>3. i # k
        BY <2>1, <2>4, <4>1 DEF Flies
      <4> QED
        BY <1>1, <2>2, <2>4, <4>2, <4>3 DEF Fetches
    <3>2. CASE ~(y < 0)
      <4>1. y \in DOMAIN l2q /\ At(y) = l2q[y]
        BY <2>4, <3>2 DEF Flies, At
      <4> QED
        BY <1>1, <2>2, <2>4, <4>1 DEF Fetches
    <3> QED
      BY <3>1, <3>2
  <2> QED
    BY <2>2, <2>3, <2>4
<1>3. CASE ~(x < 0)
  <2>2. x \in DOMAIN l2q /\ At(x) = l2q[x] /\ Known(l2q[x])
    BY <1>1, <1>3 DEF Flies, At, Fetches
  <2>3. l2q # <<>>
    BY <2>2
  <2>4. ASSUME NEW y, Flies(y), x # y, At(x).t = At(y).t
        PROVE  At(x).t = EbTag \/ In("FLUSH_CL_WAIT")
    <3>1. CASE y < 0
      <4>1. PICK k \in DOMAIN l2 : k = -y
        BY <2>4, <3>1 DEF Flies
      <4>2. At(y) = l2[k]
        BY <3>1, <4>1 DEF At
      <4> QED
        BY <1>1, <2>2, <2>4, <4>2 DEF Fetches
    <3>2. CASE ~(y < 0)
      <4>1. y \in DOMAIN l2q /\ At(y) = l2q[y]
        BY <2>4, <3>2 DEF Flies, At
      <4> QED
        BY <1>1, <2>2, <2>4, <4>1 DEF Fetches
    <3> QED
      BY <3>1, <3>2
  <2> QED
    BY <2>2, <2>3, <2>4
<1> QED
  BY <1>2, <1>3

LEMMA StillFlying ==
  ASSUME NEW f, Step(f), NEW x, Flies(x), mem_rsp_valid => x # 1
  PROVE  KnownNext(At(x))
<1>1. IInv
  BY DEF Step
<1>2. Known(At(x)) /\ (l2 # <<>> \/ l2q # <<>>)
  BY <1>1, Flying
<1>3. mem_rsp_valid => Flies(1) /\ At(1) = mem_rsp
  <2>1. 1 \in Int /\ 1 > 0 /\ ~(1 < 0)
    OBVIOUS
  <2> QED
    BY <1>1, <2>1, AnswerKnown DEF Flies, At
<1>4. mem_rsp_valid => mem_rsp.t # At(x).t \/ At(x).t = EbTag \/ In("FLUSH_CL_WAIT")
  BY <1>1, <1>3, Flying
<1> QED
  BY <1>2, <1>4, KnownStays

(* Every request in flight is expected, and its answer is told from the    *)
(* others by its tag.                                                      *)
LEMMA FetchesStep == ASSUME NEW f, Step(f) PROVE Fetches'
<1>1. IInv /\ l2 \in Seq(Request) /\ l2q \in Seq(Request) /\ prog' = prog
  BY CoreEdge DEF Step, IInv, Types
<1>2. PICK g, h : Tracks(f, g, h)
  BY L2Edge DEF Traced
<1>3. ASSUME NEW k \in DOMAIN l2'
      PROVE  \/ g[k] = 0 /\ n_mem_req(f) = <<l2'[k]>>
             \/ Flies(g[k]) /\ (mem_rsp_valid => g[k] # 1) /\ l2'[k] = At(g[k])
  <2>1. PICK x : x = g[k]
    OBVIOUS
  <2>2. \/ g[k] = 0 /\ n_mem_req(f) = <<l2'[k]>>
        \/ x \in Int /\ x < 0 /\ -x \in DOMAIN l2 /\ l2'[k] = l2[-x]
    BY <1>2, <1>3, <2>1, Zenon DEF Tracks
  <2>3. x \in Int /\ x < 0 /\ -x \in DOMAIN l2 /\ l2'[k] = l2[-x] =>
          Flies(x) /\ x # 1 /\ l2'[k] = At(x)
    BY DEF Flies, At
  <2> QED
    BY <2>1, <2>2, <2>3, Zenon
<1>4. ASSUME NEW k \in DOMAIN l2q'
      PROVE  Flies(h[k]) /\ (mem_rsp_valid => h[k] # 1) /\ Same(l2q'[k], At(h[k]))
  <2>1. PICK x : x = h[k]
    OBVIOUS
  <2>2. \/ /\ x \in Int /\ x > 0 /\ x \in DOMAIN l2q /\ l2q'[k] = l2q[x]
           /\ mem_rsp_valid => x # 1
        \/ x \in Int /\ x < 0 /\ -x \in DOMAIN l2 /\ Same(l2q'[k], l2[-x])
    BY <1>2, <1>4, <2>1, Zenon DEF Tracks
  <2>3. CASE x \in Int /\ x > 0
    <3>1. ~(x < 0)
      BY <2>3
    <3>2. At(x) = l2q[x]
      BY <3>1 DEF At
    <3>3. Same(l2q[x], l2q[x])
      BY DEF Same
    <3> QED
      BY <2>1, <2>2, <2>3, <3>1, <3>2, <3>3 DEF Flies
  <2>4. CASE x \in Int /\ x < 0
    <3>1. ~(x > 0) /\ x # 1 /\ At(x) = l2[-x]
      BY <2>4 DEF At
    <3> QED
      BY <2>1, <2>2, <2>4, <3>1 DEF Flies
  <2> QED
    BY <2>2, <2>3, <2>4
<1>5. \A q, r : Same(q, r) /\ KnownNext(r) => KnownNext(q)
  BY DEF Same, KnownNext
<1>6. \A k \in DOMAIN l2' : KnownNext(l2'[k])
  <2> TAKE k \in DOMAIN l2'
  <2>1. PICK r : r = l2'[k]
    OBVIOUS
  <2>2. n_mem_req(f) = <<r>> => KnownNext(r)
    BY NewKnown, Zenon
  <2>3. Flies(g[k]) /\ (mem_rsp_valid => g[k] # 1) => KnownNext(At(g[k]))
    BY StillFlying
  <2> QED
    BY <1>3, <2>1, <2>2, <2>3, Zenon
<1>7. \A k \in DOMAIN l2q' : KnownNext(l2q'[k])
  BY <1>4, <1>5, StillFlying
<1>8. In("FLUSH_CL_WAIT") /\ (l2 # <<>> \/ l2q # <<>>) => r_state' = "FLUSH_CL_WAIT"
  BY WaitGoesOn, Port1Edge
<1>9. ASSUME NEW x, NEW y, Flies(x), Flies(y), x # y, At(x).t = At(y).t
      PROVE  At(x).t = EbTag \/ r_state' = "FLUSH_CL_WAIT"
  BY <1>1, <1>8, <1>9, Flying
<1>10. ASSUME NEW r, NEW y, Flies(y), r.t = At(y).t
       PROVE  n_mem_req(f) = <<r>> => r.t = EbTag \/ r_state' = "FLUSH_CL_WAIT"
  <2>1. Known(At(y)) /\ (l2 # <<>> \/ l2q # <<>>)
    BY <1>1, <1>10, Flying
  <2> QED
    BY <1>10, <2>1, NewKnown, Zenon
<1>11. ASSUME NEW j \in DOMAIN l2', NEW k \in DOMAIN l2', j # k, l2'[j].t = l2'[k].t
       PROVE  l2'[j].t = EbTag \/ r_state' = "FLUSH_CL_WAIT"
  <2>1. g[j] # g[k]
    BY <1>2, <1>11 DEF Tracks
  <2>2. PICK a, b : a = l2'[j] /\ b = l2'[k]
    OBVIOUS
  <2>3. CASE Flies(g[j]) /\ a = At(g[j]) /\ Flies(g[k]) /\ b = At(g[k])
    BY <1>9, <1>11, <2>1, <2>2, <2>3
  <2>4. CASE n_mem_req(f) = <<a>> /\ Flies(g[k]) /\ b = At(g[k])
    BY <1>10, <1>11, <2>2, <2>4, Zenon
  <2>5. CASE n_mem_req(f) = <<b>> /\ Flies(g[j]) /\ a = At(g[j])
    BY <1>10, <1>11, <2>2, <2>5, Zenon
  <2>6. CASE g[j] = 0 /\ g[k] = 0
    BY <2>1, <2>6
  <2> QED
    BY <1>3, <2>2, <2>3, <2>4, <2>5, <2>6, Zenon
<1>12. ASSUME NEW j \in DOMAIN l2q', NEW k \in DOMAIN l2q', j # k, l2q'[j].t = l2q'[k].t
       PROVE  l2q'[j].t = EbTag \/ r_state' = "FLUSH_CL_WAIT"
  <2>1. h[j] # h[k]
    BY <1>2, <1>12 DEF Tracks
  <2> QED
    BY <1>4, <1>9, <1>12, <2>1 DEF Same
<1>13. ASSUME NEW j \in DOMAIN l2', NEW k \in DOMAIN l2q', l2'[j].t = l2q'[k].t
       PROVE  l2'[j].t = EbTag \/ r_state' = "FLUSH_CL_WAIT"
  <2>1. g[j] # h[k]
    BY <1>2, <1>13 DEF Tracks
  <2>2. PICK a, b : a = l2'[j] /\ b = l2q'[k]
    OBVIOUS
  <2>3. Flies(h[k]) /\ b.t = At(h[k]).t
    BY <1>4, <2>2 DEF Same
  <2>4. CASE Flies(g[j]) /\ a = At(g[j])
    BY <1>9, <1>13, <2>1, <2>2, <2>3, <2>4
  <2>5. CASE n_mem_req(f) = <<a>>
    BY <1>10, <1>13, <2>2, <2>3, <2>5, Zenon
  <2> QED
    BY <1>3, <2>2, <2>4, <2>5, Zenon
<1>14. (\A i \in DOMAIN l2 : Known(l2[i]))'
  <2> SUFFICES ASSUME NEW i \in DOMAIN l2' PROVE Known(l2[i])'
    OBVIOUS
  <2>1. KnownNext(l2'[i])
    BY <1>6
  <2> QED
    BY <1>1, <2>1 DEF Known, Expected, KnownNext, Apart, ApartNext, Tag, TagNext, In, Set1, Line, VIdx, IdxOf
<1>15. (\A i \in DOMAIN l2q : Known(l2q[i]))'
  <2> SUFFICES ASSUME NEW i \in DOMAIN l2q' PROVE Known(l2q[i])'
    OBVIOUS
  <2>1. KnownNext(l2q'[i])
    BY <1>7
  <2> QED
    BY <1>1, <2>1 DEF Known, Expected, KnownNext, Apart, ApartNext, Tag, TagNext, In, Set1, Line, VIdx, IdxOf
<1>16. /\ (\A i, j \in DOMAIN l2 : i # j /\ l2[i].t = l2[j].t => l2[i].t = EbTag \/ In("FLUSH_CL_WAIT"))'
       /\ (\A i, j \in DOMAIN l2q : i # j /\ l2q[i].t = l2q[j].t => l2q[i].t = EbTag \/ In("FLUSH_CL_WAIT"))'
       /\ (\A i \in DOMAIN l2, j \in DOMAIN l2q : l2[i].t = l2q[j].t => l2[i].t = EbTag \/ In("FLUSH_CL_WAIT"))'
  BY <1>11, <1>12, <1>13 DEF In
<1> QED
  BY <1>14, <1>15, <1>16 DEF Fetches

-----------------------------------------------------------------------------
(* The registers stay in their ranges.                                     *)
TypesA ==
  /\ ret \in 0 .. sent /\ sent \in 0 .. N /\ base \in 0 .. ret
  /\ dead \subseteq Pos /\ done \subseteq Pos /\ pulse \subseteq 1 .. ret
  /\ mode \in {"run", "ds", "drain"} /\ req \in 0 .. sent /\ prog \in PROGRAMS
LEMMA TypesCore == ASSUME NEW f, Step(f) PROVE TypesA'
<1>1. /\ IInv /\ ret \in Int /\ sent \in Int /\ base \in Int /\ 0 <= base /\ base <= ret
      /\ ret <= sent /\ sent <= N /\ req \in 0 .. sent /\ dead \subseteq Pos /\ done \subseteq Pos
      /\ prog \in PROGRAMS /\ (f.flushed => Sweeping)
  BY Registers DEF Step, IInv, Types, TypeOK, Controls, SweepNext
<1>0. N \in Nat /\ \A x \in Int : 0 < x /\ x <= N => x \in Pos
  BY Sizes DEF Pos
<1>2. PICK s \in Int : /\ s = sent' /\ sent <= s /\ (s = sent \/ s = sent + 1) /\ s <= N
  <2>1. PICK s \in Int : s = sent'
    BY CoreEdge
  <2>2. sent <= s /\ (s = sent \/ (s = sent + 1 /\ MayRun(sent + 1)))
    BY <2>1, CoreEdge
  <2> QED
    BY <1>1, <2>1, <2>2 DEF MayRun
<1>3. PICK r \in Int, b \in Int : /\ r = ret' /\ b = base' /\ ret <= r /\ r <= sent
                                  /\ base <= b /\ b <= r
  <2>1. PICK r \in Int, b \in Int : r = ret' /\ b = base'
    BY RetireEdge
  <2> QED
    BY <2>1, RetireEdge
<1>4. r \in 0 .. s /\ s \in 0 .. N /\ b \in 0 .. r
  BY <1>0, <1>1, <1>2, <1>3
<1>5. mode' \in {"run", "ds", "drain"} /\ dead' \subseteq Pos /\ pulse' \subseteq 1 .. r
  <2>1. mode' \in {"run", "ds", "drain"} /\ dead' \subseteq dead \cup (ret + 1 .. sent)
        /\ pulse' \subseteq 1 .. ret'
    BY RetireEdge
  <2>2. ret + 1 .. sent \subseteq Pos
    BY <1>0, <1>1
  <2> QED
    BY <1>1, <1>3, <2>1, <2>2
<1>6. done' \subseteq Pos
  <2> SUFFICES ASSUME NEW x \in done' PROVE x \in Pos
    OBVIOUS
  <2>1. \/ x \in done \/ x \in Answers
        \/ f.flushed /\ x = sent
        \/ x = sent + 1 /\ s = x
    BY <1>2, CoreEdge
  <2>2. f.flushed => sent \in Pos
    BY <1>1, FlushAlone
  <2>3. s = sent + 1 => s \in Pos
    BY <1>0, <1>1, <1>2
  <2>4. x \in Answers => x \in Pos
    BY <1>1, Answering
  <2> QED
    BY <1>1, <2>1, <2>2, <2>3, <2>4
<1>7. req' \in 0 .. s
  <2>1. req' = 0 \/ req' = req \/ (req' = sent + 1 /\ s = sent + 1)
    BY <1>2, CoreEdge
  <2> QED
    BY <1>1, <1>2, <2>1
<1>8. prog' \in PROGRAMS
  BY <1>1, CoreEdge
<1> QED
  BY <1>2, <1>3, <1>4, <1>5, <1>6, <1>7, <1>8 DEF TypesA

(* What is written to the array, and what is read of it. *)
LEMMA Written ==
  ASSUME NEW w \in [WORDS -> Value], NEW p \in Pos
  PROVE  Merge(w, p) \in [WORDS -> Value] /\ Loaded(p, w) \in [WORDS -> Value]
         /\ [x \in WORDS |-> Junk] \in [WORDS -> Value]
<1>1. p \in Value /\ Junk \in Value /\ 0 \in Value
  BY Sizes DEF Value, Junk, Pos
<1> QED
  BY <1>1 DEF Merge, Loaded

TypesB ==
  /\ cache \in [IDX -> Line1] /\ \A i \in IDX : Named(cache[i])
  /\ mem \in [LINES -> [WORDS -> Value]] /\ res \in [Pos -> [WORDS -> Value]]
LEMMA TypesArrays == ASSUME NEW f, Step(f) PROVE TypesB'
<1>1. /\ IInv /\ Array(f) /\ L2(f) /\ Results /\ cache \in [IDX -> Line1] /\ p1.out \in Line1
      /\ p2.out \in Line1 /\ l2 \in Seq(Request) /\ mem \in [LINES -> [WORDS -> Value]]
      /\ res \in [Pos -> [WORDS -> Value]] /\ r_inhibit_write \in BOOLEAN
      /\ \A i \in IDX : Named(cache[i])
  BY Registers DEF Step, Edge, IInv, Types, TypeOK
<1>2. mem_rsp_valid => mem_rsp \in Request
  BY <1>1, AnswerKnown DEF IInv, Types
<1>3. mem_rsp_reload => mem_rsp.l \in LINES /\ mem_rsp.w \in [WORDS -> Value]
  BY <1>2 DEF mem_rsp_reload, Request
<1>4. t_wr_array => p1.p \in Pos
  BY <1>1, Live, Storing
<1>5. ASSUME NEW i \in IDX
      PROVE  cache'[i].w \in [WORDS -> Value]
  <2>1. cache[i].w \in [WORDS -> Value]
    BY <1>1 DEF Line1
  <2>2. cache' = [x \in IDX |->
          [l |-> IF Fill(x) THEN mem_rsp.l ELSE cache[x].l,
           w |-> IF Fill(x) THEN mem_rsp.w
                 ELSE IF ~(Store(x) /\ ~mem_rsp_reload) THEN cache[x].w
                 ELSE Merge(IF mem_rsp_valid THEN [y \in WORDS |-> Junk]
                            ELSE cache[x].w, p1.p),
           v |-> IF x = f.inval THEN FALSE
                 ELSE IF f.inval = None /\ Fill(x) THEN ~r_inhibit_write
                 ELSE cache[x].v,
           d |-> IF x = f.inval THEN FALSE
                 ELSE IF f.inval # None THEN cache[x].d
                 ELSE IF Fill(x) THEN FALSE
                 ELSE (Store(x) /\ ~mem_rsp_reload) \/ cache[x].d]]
    BY <1>1, Zenon DEF Array, Fill, Store
  <2>3. cache'[i].w = IF Fill(i) THEN mem_rsp.w
                      ELSE IF ~(Store(i) /\ ~mem_rsp_reload) THEN cache[i].w
                      ELSE Merge(IF mem_rsp_valid THEN [y \in WORDS |-> Junk]
                                 ELSE cache[i].w, p1.p)
    BY <2>2
  <2>4. Fill(i) => mem_rsp.w \in [WORDS -> Value]
    BY <1>3 DEF Fill
  <2>5. Store(i) => /\ Merge([y \in WORDS |-> Junk], p1.p) \in [WORDS -> Value]
                    /\ Merge(cache[i].w, p1.p) \in [WORDS -> Value]
    BY <1>4, <2>1, Written DEF Store
  <2> QED
    BY <2>1, <2>3, <2>4, <2>5
<1>6. ASSUME NEW i \in IDX
      PROVE  /\ cache'[i].v \in BOOLEAN /\ cache'[i].d \in BOOLEAN
             /\ cache'[i].l \in LINES \cup {NoLine}
             /\ cache'[i].v \/ cache'[i].d => cache'[i].l \in LINES
  <2>1. cache[i].v \in BOOLEAN /\ cache[i].d \in BOOLEAN /\ cache[i].l \in LINES \cup {NoLine}
        /\ (cache[i].v \/ cache[i].d => cache[i].l \in LINES)
    BY <1>1 DEF Line1, Named
  <2>2. Fill(i) => mem_rsp.l \in LINES
    BY <1>3 DEF Fill
  <2>3. Store(i) => cache[i].v
    BY <1>1, Storing DEF Store
  <2>4. /\ cache'[i].v = (IF i = f.inval THEN FALSE
                           ELSE IF f.inval = None /\ Fill(i) THEN ~r_inhibit_write
                           ELSE cache[i].v)
        /\ cache'[i].d = (IF i = f.inval THEN FALSE
                           ELSE IF f.inval # None THEN cache[i].d
                           ELSE IF Fill(i) THEN FALSE
                           ELSE (Store(i) /\ ~mem_rsp_reload) \/ cache[i].d)
        /\ cache'[i].l = (IF Fill(i) THEN mem_rsp.l ELSE cache[i].l)
    BY ArrayEdge
  <2> QED
    BY <1>1, <2>1, <2>2, <2>3, <2>4
<1>7. cache' \in [IDX -> Line1]
  <2>1. \E F : cache' = [i \in IDX |-> F[i]]
    <3>1. cache' = [i \in IDX |-> cache'[i]]
      BY <1>1 DEF Array
    <3> QED
      BY <3>1, Zenon
  <2>2. ASSUME NEW i \in IDX PROVE cache'[i] \in Line1
    <3>1. cache'[i] = [l |-> cache'[i].l, w |-> cache'[i].w, v |-> cache'[i].v, d |-> cache'[i].d]
      BY <1>1 DEF Array
    <3> QED
      BY <1>5, <1>6, <3>1 DEF Line1
  <2> QED
    BY <2>1, <2>2
<1>8. mem' \in [LINES -> [WORDS -> Value]]
  <2>1. mem' = mem \/ \E i \in DOMAIN l2 : mem' = IF l2[i].wb THEN [mem EXCEPT ![l2[i].l] = l2[i].w] ELSE mem
    BY <1>1 DEF L2
  <2>2. ASSUME NEW i \in DOMAIN l2 PROVE l2[i].l \in LINES /\ l2[i].w \in [WORDS -> Value]
    <3>1. l2[i] \in Request
      BY <1>1
    <3> QED
      BY <3>1 DEF Request
  <2> QED
    BY <1>1, <2>1, <2>2
<1>9. res' \in [Pos -> [WORDS -> Value]]
  <2>1. p1.out.w \in [WORDS -> Value] /\ p2.out.w \in [WORDS -> Value]
    BY <1>1 DEF Line1
  <2>2. Answer1 => p1.p \in Pos
    BY <1>1, Live DEF Answer1, w_got_hit, Busy1
  <2>3. ReadHit2 => p2.p \in Pos
    BY <1>1, Live DEF ReadHit2, Ready2, Access2, Live2, Busy2
  <2>4. Answer1 => Loaded(p1.p, p1.out.w) \in [WORDS -> Value]
    BY <2>1, <2>2, Written
  <2>5. ReadHit2 => Loaded(p2.p, p2.out.w) \in [WORDS -> Value]
    BY <2>1, <2>3, Written
  <2>6. \/ res' = res
        \/ Answer1 /\ res' = [res EXCEPT ![p1.p] = Loaded(p1.p, p1.out.w)]
        \/ ReadHit2 /\ res' = [res EXCEPT ![p2.p] = Loaded(p2.p, p2.out.w)]
    BY <1>1, Zenon DEF Results
  <2> QED
    BY <1>1, <2>2, <2>3, <2>4, <2>5, <2>6
<1> QED
  BY <1>6, <1>7, <1>8, <1>9 DEF TypesB, Named

TypesC ==
  /\ r_state \in States /\ p1 \in P1Type /\ p2 \in P2Type /\ Named(p1.out)
  /\ rr \in IDX \cup {None} /\ r_miss_idx \in IDX
  /\ r_last_early \in LINES \cup {NoLine} /\ r_link_reg \in LINES \cup {NoLine}
  /\ r_pending_tlb_miss \in BOOLEAN /\ r_flush_req \in BOOLEAN
  /\ r_flush_cl_req \in BOOLEAN /\ r_flush_was_active \in BOOLEAN
  /\ r_lock_cache \in BOOLEAN /\ r_inhibit_write \in BOOLEAN
  /\ probe \in LINES \cup {NoLine}
LEMMA TypesPorts == ASSUME NEW f, Step(f) PROVE TypesC'
<1>1. /\ IInv /\ Typed(f) /\ Port1(f) /\ Port2(f, t_accept(f)) /\ Back(f) /\ Probes(f)
      /\ cache \in [IDX -> Line1] /\ p1.out \in Line1 /\ p1.idx \in IDX
      /\ \A i \in IDX : Named(cache[i])
      /\ p2.p \in 0 .. N /\ p2.nop \in BOOLEAN /\ prog \in PROGRAMS
      /\ r_link_reg \in LINES \cup {NoLine} /\ probe \in LINES \cup {NoLine}
  BY Registers DEF Step, Edge, IInv, Types, TypeOK
<1>2. req \in 0 .. N /\ 0 \in IDX
  <2>1. req \in 0 .. sent /\ sent <= N /\ sent \in Int
    BY <1>1, Registers DEF IInv
  <2> QED
    BY <2>1, Sizes DEF IDX
<1>3. Unread \in Line1 /\ ~Unread.v /\ ~Unread.d
  BY <1>1, Out1 DEF Unread, Line1, IInv
<1>4. ReadAt(f.idx) \in Line1 /\ Named(ReadAt(f.idx))
  <2>1. CASE f.idx = None
    BY <1>3, <2>1 DEF ReadAt, Named
  <2>2. CASE f.idx # None
    <3>1. f.idx \in IDX
      BY <1>1, <2>2 DEF Typed, Set0
    <3> QED
      BY <1>1, <2>2, <3>1 DEF ReadAt
  <2> QED
    BY <2>1, <2>2
<1>5. PICK i \in IDX : i = IF f.idx = None THEN 0 ELSE f.idx
  BY <1>2, <1>1 DEF Typed, Set0
<1>6. PICK b \in BOOLEAN : b <=> f.go /\ \E j \in DOMAIN mq : ~(f.pop /\ j = 1) /\ VIdx(mq[j]) = i
  OBVIOUS
<1>7. PICK c : c = ReadAt(f.idx) /\ c \in Line1 /\ Named(c)
  BY <1>4
<1>8. p1' = [p |-> f.p, got |-> f.go, retry |-> f.retry, lw |-> f.lw, idx |-> i, busy |-> b, out |-> c]
  <2>1. b = (f.go /\ \E j \in DOMAIN mq : ~(f.pop /\ j = 1) /\ VIdx(mq[j]) = i)
    BY <1>1, <1>6 DEF Typed
  <2> QED
    BY <1>1, <1>5, <1>7, <2>1, Zenon DEF Port1
<1>9. p1' \in P1Type /\ Named(p1'.out)
  <2>1. f.p \in 0 .. N /\ f.go \in BOOLEAN /\ f.retry \in BOOLEAN /\ f.lw \in BOOLEAN
    BY <1>1 DEF Typed
  <2>2. p1'.out = c
    BY <1>8
  <2> QED
    BY <1>5, <1>6, <1>7, <1>8, <2>1, <2>2 DEF P1Type
<1>10. PICK g \in BOOLEAN : g = (f.replay \/ t_accept(f))
  BY <1>1 DEF Typed
<1>11. PICK n : n = IF f.replay THEN p2.p ELSE req
  OBVIOUS
<1>12. n \in 0 .. N
  BY <1>2, <1>1, <1>11
<1>13. g => n \in Pos
  <2>1. f.replay => p2.p \in Pos
    <3>1. f.replay => Busy2
      BY DEF Step, Controls, WalkNext, IInv, Port2Inv, Walking, In, Busy2
    <3> QED
      BY <1>1, <3>1, Live
  <2>2. t_accept(f) => req \in Pos
    BY <1>1, Live DEF t_accept, t_new_req
  <2> QED
    BY <1>10, <1>11, <2>1, <2>2
<1>14. PICK k \in IDX : k = IF g THEN VIdx(n) ELSE 0
  BY <1>2, <1>1, <1>13, Operation
<1>15. PICK same : same = {j \in DOMAIN mq : Low[VIdx(mq[j])] = Low[k]}
  OBVIOUS
<1>16. PICK fwd : fwd = (t_accept(f) /\ p1.got /\ p1.lw /\ p1.idx = k)
  OBVIOUS
<1>17. PICK o : o = IF ~g THEN Unread
                    ELSE IF fwd THEN [cache[k] EXCEPT !.w = Merge(p1.out.w, p1.p)]
                    ELSE cache[k]
  OBVIOUS
<1>18. o \in Line1
  <2>1. cache[k] \in Line1
    BY <1>1
  <2>2. fwd => Merge(p1.out.w, p1.p) \in [WORDS -> Value]
    <3>1. fwd => p1.p \in Pos
      BY <1>1, <1>16, Live DEF Busy1
    <3>2. p1.out.w \in [WORDS -> Value]
      BY <1>1 DEF Line1
    <3> QED
      BY <3>1, <3>2, Written
  <2>3. fwd => [cache[k] EXCEPT !.w = Merge(p1.out.w, p1.p)] \in Line1
    BY <2>1, <2>2 DEF Line1
  <2> QED
    BY <1>3, <1>17, <2>1, <2>3
<1>19. PICK b1 \in BOOLEAN : b1 = (f.fault \/ (p2.nop /\ ~t_accept(f)))
  BY <1>1 DEF Typed
<1>20. PICK b2 \in BOOLEAN : b2 = (g /\ IsStore(n) /\ ~b1)
  OBVIOUS
<1>21. PICK b3 \in BOOLEAN : b3 = (g /\ same # {})
  OBVIOUS
<1>22. PICK b4 \in BOOLEAN : b4 = (g /\ \E j \in same : /\ IsStore(mq[j])
                                     /\ prog[mq[j]].m \cap prog[n].m # {})
  OBVIOUS
<1>23. PICK b5 \in BOOLEAN : b5 = (g /\ t_push_miss /\ Low[k] = Low[p2.idx])
  OBVIOUS
<1>24. PICK b6 \in BOOLEAN : b6 = (g /\ f.pop)
  OBVIOUS
<1>25. PICK b7 \in BOOLEAN : b7 = (/\ g /\ t_new_req /\ mq # <<>> /\ w_got_hit
                                   /\ ~(p1.lw /\ p1.idx = IdxOf(Head(mq)))
                                   /\ ~r_lock_cache /\ ~n_pending_tlb_miss
                                   /\ Kind(Head(mq)) \notin {"st", "sc"})
  OBVIOUS
<1>26. PICK m \in 0 .. N : m = IF g THEN n ELSE p2.p
  BY <1>1, <1>12
<1>27. p2' = [p |-> m, got |-> g, nop |-> b1, lw |-> b2, idx |-> k, line |-> b3, addr |-> b4,
              fwd |-> b5, pop |-> b6, rd_retry |-> b7, out |-> o]
  BY <1>1, <1>10, <1>11, <1>14, <1>15, <1>16, <1>17, <1>19, <1>20, <1>21, <1>22, <1>23, <1>24,
     <1>25, <1>26, Zenon DEF Port2
<1>28. p2' \in P2Type
  BY <1>18, <1>27 DEF P2Type
<1>29. r_state' \in States /\ r_miss_idx' \in IDX /\ r_lock_cache' \in BOOLEAN
       /\ r_inhibit_write' \in BOOLEAN /\ rr' \in IDX \cup {None}
  BY <1>1, Port1Edge DEF Typed
<1>30. r_link_reg' \in LINES \cup {NoLine}
  <2>1. Kind(p1.p) = "ll" => p1.p \in Pos
    BY <1>1, Registers DEF Kind, Pos, IInv
  <2> QED
    BY <1>1, <2>1, Operation DEF Port1
<1>31. r_last_early' \in LINES \cup {NoLine}
  <2>1. w_gen_early_req(f) => Line(p2.p) \in LINES
    BY <1>1, MoveQ, Operation DEF w_gen_early_req
  <2> QED
    BY <1>1, <2>1 DEF Port2
<1>32. r_pending_tlb_miss' \in BOOLEAN
  <2>1. n_pending_tlb_miss \in BOOLEAN
    BY <1>1 DEF n_pending_tlb_miss, IInv, Types, TlbMiss2
  <2> QED
    BY <2>1, Port2Edge
<1>33. r_flush_req' \in BOOLEAN /\ r_flush_cl_req' \in BOOLEAN /\ r_flush_was_active' \in BOOLEAN
       /\ probe' \in LINES \cup {NoLine}
  <2>1. r_flush_req' \in BOOLEAN
    BY <1>1, CoreEdge DEF Typed
  <2> QED
    BY <1>1, <2>1 DEF Typed, Back, Probes
<1> QED
  BY <1>9, <1>28, <1>29, <1>30, <1>31, <1>32, <1>33 DEF TypesC, Named

TypesD ==
  /\ mq \in Seq(Pos) /\ eb \in Seq(WriteBack) /\ l2 \in Seq(Request) /\ l2q \in Seq(Request)
  /\ Len(mq) <= MRQ /\ Len(eb) <= EBS
  /\ r_mq_head_ptr \in 0 .. MRQ - 1 /\ r_mem_req_tag \in 0 .. EbTag
  /\ r_mq_inflight \subseteq {(r_mq_head_ptr + i) % MRQ : i \in 0 .. Len(mq) - 1}
  /\ r_rob_inflight \subseteq Slots /\ r_graduated \in [Slots -> 0 .. 2]
LEMMA TypesQueues == ASSUME NEW f, Step(f) PROVE TypesD'
<1>1. /\ IInv /\ Typed(f) /\ Leaving(f) /\ Queue(f) /\ Back(f) /\ mq \in Seq(Pos)
      /\ r_mq_head_ptr \in 0 .. MRQ - 1 /\ r_mem_req_tag \in 0 .. EbTag
      /\ r_rob_inflight \subseteq Slots /\ r_graduated \in [Slots -> 0 .. 2]
      /\ r_mq_inflight \subseteq {(r_mq_head_ptr + i) % MRQ : i \in 0 .. Len(mq) - 1}
      /\ mq' \in Seq(Pos) /\ base \in Int /\ Pos \subseteq Int
  BY MoveQ, Registers, Positions DEF Step, Edge, Controls, IInv, Types, TypeOK
<1>2. MRQ \in Nat /\ MRQ > 1 /\ EBS \in Nat /\ EBS >= 1
  BY Sizes
<1>3. l2' \in Seq(Request) /\ l2q' \in Seq(Request)
  BY L2Edge DEF Traced
<1>4. eb' \in Seq(WriteBack) /\ Len(eb') <= EBS
  <2>1. eb' = f.evict /\ f.evict \in Seq(WriteBack)
    BY <1>1, EchoEdge DEF Typed
  <2>2. Len(f.evict) <= 1
    <3>1. f.evict = <<>> \/ \E e : f.evict = <<e>>
      BY <1>1, Zenon DEF Leaving
    <3>2. Len(<<>>) = 0 /\ \A e : Len(<<e>>) = 1
      OBVIOUS
    <3>3. Len(f.evict) = 0 \/ Len(f.evict) = 1
      BY <3>1, <3>2, Zenon
    <3>4. \A n : n = 0 \/ n = 1 => n <= 1
      OBVIOUS
    <3> QED
      BY <3>3, <3>4, Zenon
  <2>3. Len(f.evict) \in Nat
    BY <2>1
  <2>4. Len(f.evict) <= EBS
    BY <1>2, <2>2, <2>3
  <2> QED
    BY <2>1, <2>4
<1>5. PICK n \in Nat, d \in 0 .. 1, k \in Nat, m \in Nat :
        /\ n = Len(mq) /\ d = Popped(f) /\ (f.pop <=> d = 1) /\ d <= n
        /\ k = (IF t_push_miss THEN 1 ELSE 0) /\ m = Len(mq') /\ m = n - d + k
  <2>1. PICK n \in Nat, d \in 0 .. 1 : n = Len(mq) /\ d = Popped(f) /\ (f.pop <=> d = 1) /\ d <= n
    BY MoveQ DEF Popped
  <2>2. PICK k \in Nat : k = (IF t_push_miss THEN 1 ELSE 0)
    OBVIOUS
  <2>3. PICK m \in Nat : m = Len(mq')
    BY <1>1
  <2>4. m = n - d + k
    BY <2>1, <2>2, <2>3, MoveQ
  <2> QED
    BY <2>1, <2>2, <2>3, <2>4
<1>6. Len(mq') <= MRQ
  <2>1. n <= MRQ
    BY <1>1, <1>5 DEF IInv, Types, TypeOK
  <2>2. t_push_miss => n < MRQ
    BY <1>1, <1>5, MoveQ DEF IInv, Port2Inv, Busy2
  <2>3. m <= MRQ
    BY <1>2, <1>5, <2>1, <2>2
  <2> QED
    BY <1>5, <2>3
<1>7. r_mq_head_ptr' \in 0 .. MRQ - 1
  <2>1. PICK h \in 0 .. MRQ - 1 : h = r_mq_head_ptr
    BY <1>1
  <2>2. (h + 1) % MRQ \in 0 .. MRQ - 1
    BY <1>2
  <2> QED
    BY <1>1, <2>1, <2>2 DEF Queue
<1>8. r_mem_req_tag' \in 0 .. EbTag
  <2>1. n_mem_req(f) = <<>> \/ \E r \in Request : n_mem_req(f) = <<r>>
    BY Outgoing
  <2>2. ASSUME NEW r \in Request, n_mem_req(f) = <<r>>
        PROVE  n_mem_req(f)[1].t \in 0 .. EbTag
    BY <2>2 DEF Request
  <2> QED
    BY <1>1, <2>1, <2>2 DEF Back
<1>9. ASSUME NEW t \in r_mq_inflight
      PROVE  \E j \in DOMAIN mq : t = Tag(j) /\ (f.pop => j > Popped(f))
  <2>1. PICK i \in 0 .. Len(mq) - 1 : t = (r_mq_head_ptr + i) % MRQ
    BY <1>1
  <2>2. PICK h \in Int, j \in Int : h = r_mq_head_ptr /\ j = i + 1
    BY <1>1, <1>5
  <2>3. j \in 1 .. n /\ h + j - 1 = h + i /\ DOMAIN mq = 1 .. n
    BY <1>1, <1>5, <2>1, <2>2
  <2>4. t = Tag(j)
    BY <2>1, <2>2, <2>3 DEF Tag
  <2>5. f.pop => j # 1
    <3>1. f.pop => r_mq_head_ptr \notin r_mq_inflight
      BY MoveQ DEF CanIssue, HeadInflight
    <3> QED
      BY <2>4, <3>1, TagMoves
  <2>6. f.pop => j > Popped(f)
    BY <1>5, <2>3, <2>5
  <2> QED
    BY <2>3, <2>4, <2>6
<1>10. ASSUME NEW t \in r_mq_inflight' PROVE \E i \in 1 .. m : t = TagNext(i)
  <2>1. t \in r_mq_inflight \/ (w_gen_early_req(f) /\ t = r_mq_tail_ptr)
    BY <1>1 DEF Queue, Only
  <2>2. CASE t \in r_mq_inflight
    <3>1. PICK j \in DOMAIN mq : t = Tag(j) /\ (f.pop => j > Popped(f))
      BY <1>9, <2>2
    <3>2. j \in 1 .. n /\ j > d
      BY <1>1, <1>5, <3>1
    <3>3. TagNext(j - Popped(f)) = Tag(j)
      BY <1>5, <3>2, TagMoves
    <3>4. j - d \in 1 .. m
      BY <1>5, <3>2
    <3> QED
      BY <1>5, <3>1, <3>3, <3>4
  <2>3. CASE w_gen_early_req(f) /\ t = r_mq_tail_ptr
    <3>1. t_push_miss
      BY <2>3 DEF w_gen_early_req
    <3>2. TagNext(Len(mq) - Popped(f) + 1) = r_mq_tail_ptr
      BY <3>1, TagMoves
    <3>3. n - d + 1 \in 1 .. m
      BY <1>5, <3>1
    <3> QED
      BY <1>5, <2>3, <3>2, <3>3
  <2> QED
    BY <2>1, <2>2, <2>3
<1>11. r_mq_inflight' \subseteq {(r_mq_head_ptr' + i) % MRQ : i \in 0 .. Len(mq') - 1}
  <2>1. PICK h \in Int : h = r_mq_head_ptr'
    BY <1>2, <1>7
  <2>2. ASSUME NEW t \in r_mq_inflight' PROVE \E i \in 0 .. m - 1 : t = (h + i) % MRQ
    <3>1. PICK j \in 1 .. m : t = TagNext(j)
      BY <1>10, <2>2
    <3>2. t = (h + j - 1) % MRQ
      BY <2>1, <3>1 DEF TagNext
    <3>3. PICK i \in 0 .. m - 1 : i = j - 1
      BY <3>1
    <3>4. h + j - 1 = h + i
      BY <3>3
    <3> QED
      BY <3>2, <3>4
  <2>3. r_mq_inflight' \subseteq {(h + i) % MRQ : i \in 0 .. m - 1}
    BY <2>2
  <2> QED
    BY ONLY <1>5, <2>1, <2>3, Zenon
<1>12. r_rob_inflight' \subseteq Slots
  <2>1. t_push_miss => Slot(p2.p) \in Slots
    BY <1>1, MoveQ, SlotType
  <2> QED
    BY <1>1, <2>1 DEF Queue, Only
<1>13. r_graduated' \in [Slots -> 0 .. 2]
  <2>1. PICK g : g = Only(f.clear, Slot(Head(mq))) \cup Only(t_reset_graduated, Slot(p1.p))
    OBVIOUS
  <2>2. PICK h, i : h = Slot(p2.p) /\ i = {Slot(q) : q \in pulse}
    OBVIOUS
  <2>3. r_graduated' = [s \in Slots |->
       IF s \in g THEN 0 ELSE IF t_incr_busy /\ s = h THEN 1
       ELSE IF r_graduated[s] = 1 /\ s \in i THEN 2 ELSE r_graduated[s]]
    BY <1>1, <2>1, <2>2, Zenon DEF Queue
  <2> QED
    BY <1>1, <2>3
<1> QED
  BY <1>1, <1>3, <1>4, <1>6, <1>7, <1>8, <1>11, <1>12, <1>13 DEF TypesD

(* The invariant is inductive.                                             *)
LEMMA TypesStep == ASSUME NEW f, Step(f) PROVE Types'
<1>1. TypesA' /\ TypesB' /\ TypesC' /\ TypesD' /\ r_mrq_credits' \in 0 .. MRQ - 1
  BY TypesCore, TypesArrays, TypesPorts, TypesQueues, CreditsStep
<1>2. /\ {p1'.p, p2'.p} \subseteq 0 .. N /\ {p1'.out, p2'.out} \subseteq Line1
  <2>1. p1' \in P1Type /\ p2' \in P2Type
    BY <1>1 DEF TypesC
  <2> QED
    BY <2>1 DEF P1Type, P2Type
<1>3. /\ Elements(mq)' \subseteq Pos
      /\ Elements(eb)' \subseteq [l : LINES, w : [WORDS -> Value]]
      /\ Elements(l2)' \cup Elements(l2q)' \subseteq Request
  <2>1. \A S, s : s \in Seq(S) => Elements(s) \subseteq S
    BY DEF Elements
  <2>2. mq' \in Seq(Pos) /\ eb' \in Seq(WriteBack) /\ l2' \in Seq(Request) /\ l2q' \in Seq(Request)
    BY <1>1 DEF TypesD
  <2> QED
    BY <2>1, <2>2 DEF Elements, WriteBack
<1>4. TypeOK'
  BY <1>1, <1>2, <1>3, Zenon DEF TypeOK, TypesA, TypesB, TypesC, TypesD
<1> QED
  BY <1>1, <1>4, Zenon DEF Types, TypesA, TypesB, TypesC, TypesD

(* Nothing is looked up in the cycle behind a store to its set.            *)
LEMMA FreshStep == ASSUME NEW f, Step(f) PROVE Fresh'
<1>1. IInv /\ Port1Inv /\ Port1Next(f) /\ p1.lw \in BOOLEAN /\ p1.idx \in IDX
  BY Registers DEF Step, Controls, IInv
<1> SUFFICES ASSUME f.go PROVE rr' # p1'.idx
  BY Port1Edge DEF Fresh
<1>2. f.idx = IdxOf(f.p)
  BY <1>1 DEF Port1Next
<1>3. f.p \in Pos /\ IdxOf(f.p) \in IDX /\ None \notin IDX
  <2>1. f.p \in Pos
    <3>1. CASE f.pop
      BY <1>1, <3>1 DEF Port1Next, CanIssue, IInv, Types
    <3>2. CASE ~f.pop
      BY <1>1, <3>2, Live DEF Port1Next
    <3> QED
      BY <3>1, <3>2
  <2> QED
    BY <1>1, <2>1, Operation, Registers, Sizes DEF IInv, IDX, None
<1>4. p1'.idx = IdxOf(f.p)
  BY <1>2, <1>3, Port1Edge
<1>5. CASE f.pop
  <2>1. f.p = Head(mq) /\ ~w_mh_block
    BY <1>1, <1>5 DEF Port1Next, CanIssue
  <2>2. p1.lw => p1.idx # IdxOf(f.p)
    BY <1>1, <2>1 DEF w_mh_block, Port1Inv
  <2> QED
    BY <1>3, <1>4, <2>2, Port1Edge
<1>6. CASE ~f.pop
  <2>1. ~p1.lw
    BY <1>1, <1>6 DEF Port1Next, Port1Inv, In
  <2> QED
    BY <1>3, <1>4, <2>1, Port1Edge
<1> QED
  BY <1>5, <1>6

LEMMA StepIInv == ASSUME NEW f, Step(f) PROVE IInv'
<1>1. Types' /\ Window' /\ Places' /\ Ordered' /\ Slotted' /\ Port1Inv'
  BY TypesStep, WindowStep, PlacesStep, OrderedStep, SlottedStep, Port1Step
<1>2. Port2Inv' /\ Fetches' /\ Credits' /\ Sweeps' /\ Probes1' /\ Fresh'
  BY Port2Step, FetchesStep, CreditsStep, SweepsStep, Probes1Step, FreshStep
<1> QED
  BY <1>1, <1>2 DEF IInv

LEMMA InitIInv == ASSUME Init PROVE IInv
<1>1. /\ N \in Nat \ {0} /\ NIDX \in Nat \ {0} /\ MRQ \in Nat /\ MRQ > 1 /\ EBS \in Nat
      /\ NROB \in Nat /\ 0 \in IDX /\ 0 \in 0 .. N /\ 0 \in 0 .. MRQ - 1 /\ 0 \in 0 .. EbTag
  BY Sizes DEF IDX, EbTag
<1>2. Zero \in [WORDS -> Value] /\ Unread \in Line1 /\ Named(Unread)
  BY <1>1 DEF Zero, Value, Unread, Line1, Named
<1>3. r_mrq_credits = MRQ - 1
  BY <1>1 DEF Init, r_mrq_credits
<1>4. ~Busy1 /\ ~Busy2 /\ ~Held /\ ~Walking /\ ~Probing /\ ~Sweeping /\ In("ACTIVE")
  BY DEF Init, Busy1, Busy2, Held, Walking, Probing, Sweeping, In
<1>5. mq = <<>> /\ l2 = <<>> /\ l2q = <<>> /\ eb = <<>>
  BY DEF Init
<1>6. p1 \in P1Type /\ p2 \in P2Type
  BY <1>1, <1>2 DEF Init, P1Type, P2Type
<1>7. TypeOK
  <2>1. /\ ret \in 0 .. sent /\ sent \in 0 .. N /\ base \in 0 .. ret
        /\ dead \subseteq Pos /\ done \subseteq Pos /\ pulse \subseteq 1 .. ret
        /\ mode \in {"run", "ds", "drain"} /\ req \in 0 .. sent
    BY <1>1 DEF Init
  <2>2. /\ cache \in [IDX -> Line1] /\ r_state \in States
        /\ {p1.p, p2.p} \subseteq 0 .. N /\ {p1.out, p2.out} \subseteq Line1
        /\ rr \in IDX \cup {None} /\ r_miss_idx \in IDX
        /\ r_last_early \in LINES \cup {NoLine} /\ r_link_reg \in LINES \cup {NoLine}
    BY <1>1, <1>2 DEF Init, States
  <2>3. /\ Elements(mq) \subseteq Pos /\ Len(mq) <= MRQ
        /\ r_mq_head_ptr \in 0 .. MRQ - 1 /\ r_mem_req_tag \in 0 .. EbTag
        /\ r_mq_inflight \subseteq {(r_mq_head_ptr + i) % MRQ : i \in 0 .. Len(mq) - 1}
        /\ r_rob_inflight \subseteq Slots
        /\ r_graduated \in [Slots -> 0 .. 2]
    BY <1>1, <1>5 DEF Init, Elements
  <2>4. /\ Elements(eb) \subseteq [l : LINES, w : [WORDS -> Value]] /\ Len(eb) <= EBS
        /\ Elements(l2) \cup Elements(l2q) \subseteq Request
        /\ r_mrq_credits \in 0 .. MRQ - 1
    BY <1>1, <1>3, <1>5 DEF Elements
  <2>5. /\ probe \in LINES \cup {NoLine} /\ mem \in [LINES -> [WORDS -> Value]]
        /\ res \in [Pos -> [WORDS -> Value]]
    BY <1>2 DEF Init
  <2> QED
    BY <2>1, <2>2, <2>3, <2>4, <2>5, Zenon DEF TypeOK
<1>8. Types
  <2>1. mq \in Seq(Pos) /\ eb \in Seq(WriteBack) /\ l2 \in Seq(Request) /\ l2q \in Seq(Request)
    BY <1>5
  <2>2. prog \in PROGRAMS /\ (\A i \in IDX : Named(cache[i])) /\ Named(p1.out)
        /\ r_pending_tlb_miss \in BOOLEAN /\ r_flush_req \in BOOLEAN
        /\ r_flush_cl_req \in BOOLEAN /\ r_flush_was_active \in BOOLEAN
        /\ r_lock_cache \in BOOLEAN /\ r_inhibit_write \in BOOLEAN
    BY <1>2 DEF Init
  <2> QED
    BY <1>6, <1>7, <2>1, <2>2, Zenon DEF Types
<1>9. Window
  BY <1>1 DEF Init, Window, Pos
<1>10. Places /\ Ordered /\ Slotted
  BY <1>4, <1>5 DEF Init, Places, Ordered, Slotted
<1>11. Port1Inv /\ Port2Inv /\ Fresh
  BY <1>4, <1>5 DEF Init, Port1Inv, Port2Inv, Fresh, In, Held, Busy2, Walking, Probing
<1>12. Fetches
  BY <1>5 DEF Fetches
<1>13. Credits /\ Sweeps /\ Probes1
  BY <1>1, <1>3, <1>4, <1>5 DEF Init, Credits, Sweeps, Probes1, In, Probing, Sweeping
<1> QED
  BY <1>8, <1>9, <1>10, <1>11, <1>12, <1>13 DEF IInv

LEMMA NextStep == ASSUME IInv, Next PROVE \E f : Step(f)
<1>1. PICK f : Edge(f) /\ Typed(f) /\ Controls(f) /\ Reasons(f)
  BY StepControls DEF IInv
<1> QED
  BY <1>1 DEF Step

LEMMA NextIInv == IInv /\ [Next]_vars => IInv'
<1> SUFFICES ASSUME IInv, [Next]_vars PROVE IInv'
  OBVIOUS
<1>1. CASE Next
  BY <1>1, NextStep, StepIInv
<1>2. CASE UNCHANGED vars
  <2>1. /\ UNCHANGED <<prog, sent, ret, base, dead, mode, req, pulse, done, res>>
        /\ UNCHANGED <<cache, r_state, p1, p2, rr, r_pending_tlb_miss, r_miss_idx,
                       r_lock_cache, r_inhibit_write>>
        /\ UNCHANGED <<r_last_early, r_link_reg>>
        /\ UNCHANGED <<mq, r_mq_head_ptr, r_mq_inflight, r_graduated, r_rob_inflight>>
        /\ UNCHANGED <<eb, r_flush_req, r_flush_cl_req, r_flush_was_active, probe>>
        /\ UNCHANGED <<r_mem_req_tag, l2, l2q, mem>>
    BY <1>2 DEF vars, core, front, queue, back
  <2>2. Types'
    <3>1. TypeOK'
      BY <2>1 DEF IInv, Types, TypeOK, Elements, r_mrq_credits
    <3> QED
      BY <2>1, <3>1 DEF IInv, Types, Named
  <2>3. Window'
    BY <2>1 DEF IInv, Window, Kind
  <2>4. Places'
    BY <2>1 DEF IInv, Places, Awaited, Queued, Busy1, Busy2, Held, Kind
  <2>5. Ordered' /\ Slotted'
    BY <2>1 DEF IInv, Ordered, Slotted, Slot, Busy1, Busy2, Held
  <2>6. Port1Inv' /\ Fresh'
    BY <2>1 DEF IInv, Port1Inv, Fresh, Set1, IdxOf, Line, Kind, IsStore, In, Held, w_cache_port1_hit
  <2>7. Port2Inv'
    BY <2>1 DEF IInv, Port2Inv, VIdx, Held, Busy2, Walking, Probing
  <2>8. Fetches'
    BY <2>1 DEF IInv, Fetches, Known, Expected, Apart, Tag, In, Busy1, Held, Set1, IdxOf, Line, VIdx
  <2>9. Credits' /\ Sweeps' /\ Probes1'
    BY <2>1 DEF IInv, Credits, Sweeps, Probes1, r_mrq_credits, In, Walking, Probing, Sweeping, Kind
  <2> QED
    BY <2>2, <2>3, <2>4, <2>5, <2>6, <2>7, <2>8, <2>9 DEF IInv
<1> QED
  BY <1>1, <1>2

LEMMA Invariance == Spec => []IInv
<1>1. Init => IInv
  BY InitIInv
<1> QED
  BY <1>1, NextIInv, PTL DEF Spec

-----------------------------------------------------------------------------
(* What the invariant gives. *)
LEMMA FlushOnly ==
  ASSUME IInv, r_flush_req \/ Sweeping
  PROVE  (\A x : ~Awaited(x)) /\ ~Busy2 /\ req = 0
<1>1. /\ ret < sent /\ Kind(sent) = "fl" /\ sent \notin done
      /\ ret \in Int /\ sent \in Int /\ 0 <= ret /\ sent <= N
  <2>1. base \in Int /\ 0 <= base /\ base <= ret
    BY Registers DEF IInv
  <2> QED
    BY <2>1, Registers DEF IInv, Sweeps
<1>2. sent \in Pos /\ sent <= sent
  BY <1>1, Sizes DEF Pos
<1>3. \A q \in Pos : ret < q /\ q <= sent => q = sent
  BY <1>1, <1>2 DEF IInv, Window, Serial
<1>4. \A x : ~Awaited(x)
  BY <1>1, <1>3 DEF Awaited
<1> QED
  BY <1>4 DEF IInv, Places

LEMMA StopsNowhere == ASSUME IInv PROVE NoStop
<1>1. ~(mem_rsp_reload /\ t_wr_array)
  <2> SUFFICES ASSUME mem_rsp_reload, t_wr_array PROVE FALSE
    OBVIOUS
  <2>1. In("ACTIVE") /\ p1.got /\ Busy1 /\ Kind(p1.p) \in {"st", "sc"}
    BY Storing
  <2>2. Kind(p1.p) = "sc"
    BY <2>1 DEF mem_rsp_reload, mem_rsp_valid, IsStore
  <2>3. \A i : i \notin DOMAIN mq
    BY <2>1, <2>2, SerialAlone
  <2> QED
    BY <2>1, <2>3, FillWhere DEF In
<1>2. ~(Answer1 /\ Answer2)
  <2> SUFFICES ASSUME Answer1, Answer2 PROVE FALSE
    OBVIOUS
  <2>1. p1.got /\ ~IsStore(p1.p) /\ p2.got /\ Busy1 /\ Busy2
    BY DEF Answer1, Answer2, w_got_hit, Busy1, Busy2
  <2>2. Kind(p1.p) = "sc"
    BY <2>1 DEF IInv, Port1Inv, Port2Inv, IsStore
  <2> QED
    BY <2>1, <2>2, SerialAlone
<1>3. CleanVictim => ~p1.busy \/ p1.retry \/ r_lock_cache
  BY DEF CleanVictim, IInv, Port1Inv
<1>4. t_push_miss => Slot(p2.p) \notin r_rob_inflight /\ Len(mq) < MRQ
  <2>1. t_push_miss => p2.got
    BY DEF t_push_miss, Prefetch2, Ready2, Access2, Live2
  <2> QED
    BY <2>1 DEF IInv, Slotted, Port2Inv, Busy2
<1> QED
  BY <1>1, <1>2, <1>3, <1>4 DEF NoStop

LEMMA DropsNothing == ASSUME IInv PROVE NothingDropped
<1>1. DirtyVictim => ~p1.busy \/ p1.retry
  BY DEF DirtyVictim, IInv, Port1Inv
<1>2. /\ p1.got /\ ~w_cache_port1_hit => rr # p1.idx
      /\ In("FLUSH_CL") => ~p2.got
      /\ p1.got => In("ACTIVE")
  BY DEF IInv, Fresh, Port1Inv, Port2Inv, In
<1>3. FlushGo => w_hit_or_idle /\ ~TlbGo
  <2> SUFFICES ASSUME FlushGo PROVE w_hit_or_idle /\ ~TlbGo
    OBVIOUS
  <2>1. (\A x : ~Awaited(x)) /\ ~Busy2
    BY FlushOnly DEF FlushGo
  <2>2. ~n_pending_tlb_miss
    BY <2>1 DEF n_pending_tlb_miss, Busy2
  <2>3. ~p1.got
    <3>1. p1.got => Kind(p1.p) = "st"
      BY <2>1, Live DEF Queued, Busy1, IInv, Places
    <3> QED
      BY <3>1 DEF IInv, Port1Inv, IsStore, FlushGo
  <2> QED
    BY <2>2, <2>3 DEF w_hit_or_idle, TlbGo
<1> QED
  BY <1>1, <1>2, <1>3 DEF NothingDropped

LEMMA FillsWhereExpected == ASSUME IInv PROVE FillsAreExpected
<1>1. mem_rsp_reload => ~(cache[PIdx[mem_rsp.l]].v /\ cache[PIdx[mem_rsp.l]].d)
  <2> SUFFICES ASSUME mem_rsp_reload PROVE ~(cache[PIdx[mem_rsp.l]].v /\ cache[PIdx[mem_rsp.l]].d)
    OBVIOUS
  <2>1. CASE In("INJECT_RELOAD") /\ mem_rsp.l = Line(p1.p)
    BY <2>1 DEF IInv, Port1Inv, Set1, IdxOf
  <2>2. CASE \E j \in DOMAIN mq : mem_rsp.l = Line(mq[j]) /\ Apart(j)
    BY <2>2 DEF Apart, IdxOf
  <2> QED
    BY <2>1, <2>2, FillWhere
<1>2. In("ACTIVE") => \A i \in DOMAIN l2 :
        ~l2[i].wb /\ l2[i].t < MRQ => l2[i].t \in r_mq_inflight
  <2> SUFFICES ASSUME In("ACTIVE"), NEW i \in DOMAIN l2, ~l2[i].wb, l2[i].t < MRQ
               PROVE  l2[i].t \in r_mq_inflight
    OBVIOUS
  <2>1. Known(l2[i])
    BY DEF IInv, Fetches
  <2> QED
    BY <2>1, TagsDiffer DEF Known, Expected, In
<1> QED
  BY <1>1, <1>2 DEF FillsAreExpected

LEMMA FlushStep == ASSUME NEW f, Step(f), FlushComplete
                   PROVE  (\A i \in IDX : ~cache'[i].v) /\ eb' = <<>>
<1>1. IInv /\ Leaving(f) /\ SweepNext(f)
  BY DEF Step, Controls
<1>2. PICK p \in done' \ done : Kind(p) = "fl"
  BY DEF FlushComplete
<1>3. p \notin Answers
  BY <1>1, <1>2, Answering
<1>4. f.flushed
  BY <1>2, <1>3, CoreEdge
<1>5. Sweeping /\ f.st = "ACTIVE"
  BY <1>1, <1>4 DEF SweepNext
<1>6. eb' = <<>>
  BY <1>1, <1>5, EchoEdge DEF Leaving
<1> QED
  BY <1>5, <1>6, SweepEnds

-----------------------------------------------------------------------------
(* Every register, queue and credit of the cache stays in its range, for   *)
(* every geometry, queue length and program (nu_l1d.sv).                   *)
THEOREM Typing == Spec => []TypeOK
<1>1. IInv => TypeOK
  BY DEF IInv, Types
<1> QED
  BY <1>1, Invariance, PTL

(* The conditions of NoStop, on which nu_l1d.sv stops the simulation, are   *)
(* never reached, and the retry queue is not pushed beyond its last entry. *)
THEOREM NeverStops == Spec => []NoStop
<1>1. IInv => NoStop
  BY StopsNowhere
<1> QED
  BY <1>1, Invariance, PTL

(* The state machine drops no request it has no transition for: misses that*)
(* may not evict, looks behind a store, a flush that meets a request.      *)
THEOREM DropsNone == Spec => []NothingDropped
<1>1. IInv => NothingDropped
  BY DropsNothing
<1> QED
  BY <1>1, Invariance, PTL

(* A line that comes back never overwrites a dirty set, and every early    *)
(* fetch in flight holds its queue entry (r_mq_inflight).                  *)
THEOREM FillsExpected == Spec => []FillsAreExpected
<1>1. IInv => FillsAreExpected
  BY FillsWhereExpected
<1> QED
  BY <1>1, Invariance, PTL

(* When the flush of the whole cache is reported complete no set is valid  *)
(* and the echo buffer has handed over every write back (FLUSH_CACHE).     *)
THEOREM FlushIsWhole == Spec => FlushEmpties
<1>1. IInv /\ [Next]_vars => [FlushComplete => (\A i \in IDX : ~cache[i].v') /\ eb' = <<>>]_vars
  <2> SUFFICES ASSUME IInv, Next, FlushComplete
               PROVE  (\A i \in IDX : ~cache'[i].v) /\ eb' = <<>>
    OBVIOUS
  <2> QED
    BY NextStep, FlushStep
<1> QED
  BY <1>1, Invariance, PTL DEF Spec, FlushEmpties
-----------------------------------------------------------------------------
(* What the lines hold.  Behind(l) is what the cache's owner of l would    *)
(* find without it: the write back on its way, or the L2's memory.         *)
Wb(l, w) == \/ \E i \in DOMAIN l2 : l2[i].wb /\ l2[i].l = l /\ l2[i].w = w
            \/ \E i \in DOMAIN eb : eb[i].l = l /\ eb[i].w = w
Leaves(l) == \/ \E i \in DOMAIN l2 : l2[i].wb /\ l2[i].l = l
             \/ \E i \in DOMAIN eb : eb[i].l = l
Behind(l, w) == Wb(l, w) \/ (~Leaves(l) /\ w = mem[l])
Cached(l) == cache[PIdx[l]].v /\ cache[PIdx[l]].l = l

(* A line is in its own set, and a dirty set is valid.                     *)
Home == \A i \in IDX : /\ cache[i].v => PIdx[cache[i].l] = i
                       /\ cache[i].d => cache[i].v
(* The flush and the probe see the set they read as it is.                 *)
Looks == /\ In("FLUSH_CACHE") \/ In("FLUSH_CL") => p1.out = cache[p1.idx]
         /\ In("FLUSH_CL") => p1.idx = PIdx[probe]
(* A clean copy is what is behind it.                                      *)
Copies == \A i \in IDX : cache[i].v /\ ~cache[i].d => Behind(cache[i].l, cache[i].w)
(* A line is written back once, and is not in the cache meanwhile: only a  *)
(* probe keeps it.                                                         *)
OneWb ==
  /\ \A i, j \in DOMAIN l2 : l2[i].wb /\ l2[j].wb /\ l2[i].l = l2[j].l => i = j
  /\ \A i \in DOMAIN l2, j \in DOMAIN eb : l2[i].wb => l2[i].l # eb[j].l
  /\ \A l \in LINES : Leaves(l) /\ Cached(l) => In("FLUSH_CL_WAIT") /\ l = probe
(* A fetch is behind every write back of its line.                         *)
ReadsLast ==
  /\ \A i \in DOMAIN l2 : ~l2[i].wb =>
       /\ \A j \in DOMAIN l2 : i < j => ~(l2[j].wb /\ l2[j].l = l2[i].l)
       /\ \A j \in DOMAIN eb : eb[j].l # l2[i].l
  /\ \A i \in DOMAIN l2q : ~l2q[i].wb => ~Leaves(l2q[i].l) /\ l2q[i].w = mem[l2q[i].l]
(* A probed line that was dirty stays what is behind it.                   *)
ProbeKeeps ==
  /\ In("FLUSH_CL") => \A l \in LINES : ~Leaves(l)
  /\ In("FLUSH_CL_WAIT") =>
       /\ \A l \in LINES : Leaves(l) => l = probe
       /\ Cached(probe) /\ cache[PIdx[probe]].d /\ Behind(probe, cache[PIdx[probe]].w)
DInv == Home /\ Looks /\ Copies /\ OneWb /\ ReadsLast /\ ProbeKeeps

-----------------------------------------------------------------------------
(* A write back of l is the only one.                                      *)
LEMMA OneBehind ==
  ASSUME IInv, OneWb, NEW l, NEW v, NEW w, Wb(l, v), Wb(l, w)
  PROVE  v = w
<1>1. eb # <<>> => Len(eb) = 1 /\ \A i \in DOMAIN eb : i = 1
  BY DEF IInv, Credits, Types
<1>2. \A i, j \in DOMAIN eb : i = j
  <2>1. eb = <<>> => \A i : i \notin DOMAIN eb
    BY DEF IInv, Types
  <2> QED
    BY <1>1, <2>1
<1> QED
  BY <1>2 DEF Wb, OneWb

(* What a line holds, read off the invariant.                              *)
Holds(l, w) == IF Cached(l) THEN w = cache[PIdx[l]].w ELSE Behind(l, w)
LEMMA ViewIs ==
  ASSUME IInv, Home, OneWb, NEW l \in LINES, NEW w, Holds(l, w)
  PROVE  View(l) = w
<1> DEFINE here == {i \in IDX : cache[i].v /\ cache[i].l = l}
           out  == l2 \o [i \in DOMAIN eb |-> [wb |-> TRUE, l |-> eb[i].l, w |-> eb[i].w]]
           wbs  == {i \in DOMAIN out : out[i].wb /\ out[i].l = l}
<1>1. View(l) = IF here # {} THEN cache[CHOOSE i \in here : TRUE].w
                ELSE IF wbs # {} THEN out[CHOOSE i \in wbs : \A j \in wbs : j <= i].w
                ELSE mem[l]
  BY DEF View
<1>2. PIdx[l] \in IDX
  BY Sizes
<1>3. \A i \in here : i = PIdx[l]
  BY DEF Home
<1>4. CASE Cached(l)
  <2>1. PIdx[l] \in here
    BY <1>2, <1>4 DEF Cached
  <2>2. (CHOOSE i \in here : TRUE) = PIdx[l]
    BY <1>3, <2>1
  <2> QED
    BY <1>1, <1>4, <2>1, <2>2 DEF Holds
<1>5. CASE ~Cached(l)
  <2>1. here = {}
    BY <1>3, <1>5 DEF Cached
  <2>2. /\ l2 \in Seq(Request) /\ eb \in Seq(WriteBack) /\ (eb = <<>> \/ Len(eb) = 1)
    BY DEF IInv, Types, Credits
  <2>3. PICK a \in Nat, b \in 0 .. 1 : /\ a = Len(l2) /\ b = Len(eb)
                                       /\ DOMAIN l2 = 1 .. a /\ DOMAIN eb = 1 .. b
    <3>1. Len(eb) \in 0 .. 1
      BY <2>2
    <3> QED
      BY <2>2, <3>1
  <2> DEFINE R == [wb : BOOLEAN, l : LINES, w : [WORDS -> Value]]
             e == [i \in DOMAIN eb |-> [wb |-> TRUE, l |-> eb[i].l, w |-> eb[i].w]]
  <2>4. PICK s : s = l2 \o e
    OBVIOUS
  <2>5. /\ DOMAIN s = 1 .. a + b
        /\ \A i \in 1 .. a : s[i] = l2[i]
        /\ \A i \in 1 .. a + b : i > a => i = a + 1 /\ b = 1 /\ s[i] = e[1]
    <3>3. e = [i \in 1 .. b |-> e[i]] /\ Len(e) = b /\ DOMAIN e = 1 .. b
      BY <2>3
    <3>4. s = [i \in 1 .. a + b |-> IF i <= a THEN l2[i] ELSE e[i - a]]
      BY <2>3, <2>4, <3>3 DEF \o
    <3>5. DOMAIN s = 1 .. a + b
      BY <3>4
    <3>6. ASSUME NEW i \in 1 .. a PROVE s[i] = l2[i]
      <4>1. i \in 1 .. a + b /\ i <= a
        OBVIOUS
      <4> QED
        BY <3>4, <4>1
    <3>7. ASSUME NEW i \in 1 .. a + b, i > a PROVE i = a + 1 /\ b = 1 /\ s[i] = e[1]
      <4>1. i = a + 1 /\ b = 1 /\ ~(i <= a) /\ i - a = 1
        BY <3>7
      <4> HIDE DEF e
      <4> QED
        BY <3>4, <4>1
    <3> QED
      BY <3>5, <3>6, <3>7
  <2>6. ASSUME NEW i \in wbs
        PROVE  \/ i \in DOMAIN l2 /\ l2[i].wb /\ l2[i].l = l /\ out[i] = l2[i]
               \/ /\ b = 1 /\ i = a + 1 /\ eb[1].l = l /\ out[i].w = eb[1].w
                  /\ 1 \in DOMAIN eb
    <3>1. out = s /\ i \in 1 .. a + b /\ s[i].wb /\ s[i].l = l
      BY <2>4, <2>5
    <3>2. CASE i <= a
      BY <2>3, <2>5, <3>1, <3>2
    <3>3. CASE i > a
      <4>1. i = a + 1 /\ b = 1 /\ s[i] = e[1] /\ 1 \in DOMAIN eb
        BY <2>3, <2>5, <3>1, <3>3
      <4>2. e[1].l = eb[1].l /\ e[1].w = eb[1].w
        BY <4>1
      <4> QED
        BY <3>1, <4>1, <4>2
    <3> QED
      BY <3>1, <3>2, <3>3
  <2>7. ASSUME NEW i \in wbs, NEW j \in wbs PROVE i = j
    <3>1. CASE i \in DOMAIN l2 /\ l2[i].wb /\ l2[i].l = l
      BY <2>6, <3>1 DEF OneWb
    <3>2. CASE i = a + 1 /\ eb[1].l = l /\ 1 \in DOMAIN eb
      BY <2>6, <3>2 DEF OneWb
    <3> QED
      BY <2>6, <3>1, <3>2
  <2>8. wbs \subseteq Int
    BY <2>4, <2>5
  <2>9. Leaves(l) => wbs # {}
    <3>1. ASSUME NEW i \in DOMAIN l2, l2[i].wb, l2[i].l = l PROVE i \in wbs
      BY <2>3, <2>4, <2>5, <3>1
    <3>2. ASSUME NEW i \in DOMAIN eb, eb[i].l = l PROVE a + 1 \in wbs
      <4>1. i = 1 /\ b = 1
        BY <2>3
      <4>2. e[1].l = l /\ e[1].wb
        BY <3>2, <4>1
      <4>3. a + 1 \in 1 .. a + b /\ a + 1 > a
        BY <4>1
      <4>4. s[a + 1] = e[1] /\ a + 1 \in DOMAIN s
        BY <2>5, <4>3
      <4> QED
        BY <2>4, <4>2, <4>4
    <3> QED
      BY <3>1, <3>2 DEF Leaves
  <2>10. CASE wbs = {}
    <3>1. ~Leaves(l)
      BY <2>9, <2>10
    <3>2. ~Wb(l, w)
      BY <3>1 DEF Leaves, Wb
    <3> QED
      BY <1>1, <1>5, <2>1, <2>10, <3>1, <3>2 DEF Holds, Behind
  <2>11. CASE wbs # {}
    <3>1. PICK k : k \in wbs
      BY <2>11
    <3>2. (CHOOSE i \in wbs : \A j \in wbs : j <= i) = k
      <4>1. \A j \in wbs : j <= k
        <5>1. k <= k
          BY <2>8, <3>1
        <5> QED
          BY <2>7, <3>1, <5>1
      <4> QED
        BY <2>7, <3>1, <4>1
    <3>3. View(l) = out[k].w
      BY <1>1, <2>1, <2>11, <3>2
    <3>4. Wb(l, out[k].w)
      BY <2>6, <3>1 DEF Wb
    <3>5. Leaves(l)
      BY <3>4 DEF Leaves, Wb
    <3> QED
      BY <1>5, <3>3, <3>4, <3>5, OneBehind DEF Holds, Behind
  <2> QED
    BY <2>10, <2>11
<1> QED
  BY <1>4, <1>5

(* Every line holds something. *)
LEMMA HoldsSome == ASSUME NEW l PROVE \E w : Holds(l, w)
  BY DEF Holds, Behind, Leaves, Wb

-----------------------------------------------------------------------------
(* What a step does in the L2: it performs the a-th request, or none       *)
(* (a = 0); the others keep their order, and a new one, at m, is the last. *)
Shift(a, i) == IF a # 0 /\ i > a THEN i - 1 ELSE i
Gone(a, l)  == a # 0 /\ l2[a].wb /\ l2[a].l = l
Performs(f, a, m) ==
  /\ a \in 0 .. Len(l2)
  /\ a # 0 => a \in DOMAIN l2 /\ \A j \in 1 .. a - 1 : l2[j].l # l2[a].l
  /\ mem' = IF a # 0 /\ l2[a].wb THEN [mem EXCEPT ![l2[a].l] = l2[a].w] ELSE mem
  /\ \A k \in DOMAIN l2' :
       \/ k = m /\ n_mem_req(f) = <<l2'[k]>>
       \/ \E i \in DOMAIN l2 : i # a /\ k = Shift(a, i) /\ l2'[k] = l2[i]
  /\ \A i \in DOMAIN l2 : i # a => /\ Shift(a, i) \in DOMAIN l2' /\ Shift(a, i) < m
                                  /\ l2'[Shift(a, i)] = l2[i]
  /\ \A r : n_mem_req(f) = <<r>> => m \in DOMAIN l2' /\ l2'[m] = r
  /\ \A k \in DOMAIN l2q' :
       \/ \E i \in DOMAIN l2q : l2q'[k] = l2q[i] /\ (mem_rsp_valid => i # 1)
       \/ /\ a # 0 /\ l2q'[k].wb = l2[a].wb /\ l2q'[k].l = l2[a].l
          /\ ~l2[a].wb => l2q'[k].w = mem[l2[a].l]

LEMMA Performed == ASSUME NEW f, Step(f) PROVE \E a, m \in Int : Performs(f, a, m)
<1>1. L2(f) /\ l2 \in Seq(Request) /\ l2q \in Seq(Request) /\ IInv
  BY DEF Step, Edge, IInv, Types
<1>2. PICK n, z : n = n_mem_req(f) /\ z = IF mem_rsp_valid THEN Tail(l2q) ELSE l2q
  OBVIOUS
<1>3. n \in Seq(Request) /\ Len(n) \in 0 .. 1 /\ (\A k \in DOMAIN n : k = 1 /\ n = <<n[1]>>)
      /\ \A r : n = <<r>> => Len(n) = 1 /\ n[1] = r
  <2>1. n = <<>> \/ \E r \in Request : n = <<r>>
    BY <1>2, Outgoing
  <2>2. CASE n = <<>>
    BY <2>2
  <2>3. ASSUME NEW r \in Request, n = <<r>>
        PROVE  n \in Seq(Request) /\ Len(n) \in 0 .. 1 /\ (\A k \in DOMAIN n : k = 1 /\ n = <<n[1]>>)
               /\ \A q : n = <<q>> => Len(n) = 1 /\ n[1] = q
    BY <2>3
  <2> QED
    BY <2>1, <2>2, <2>3
<1>4. PICK u \in Nat, c \in 0 .. 1 : u = Len(l2) /\ c = Len(n) /\ DOMAIN l2 = 1 .. u
  BY <1>1, <1>3
<1>5. z \in Seq(Request) /\ \A k \in DOMAIN z : \E i \in DOMAIN l2q : z[k] = l2q[i] /\ (mem_rsp_valid => i # 1)
  <2>1. CASE mem_rsp_valid
    <3>1. l2q # <<>> /\ z = Tail(l2q)
      BY <1>2, <2>1 DEF mem_rsp_valid
    <3>2. /\ z \in Seq(Request) /\ DOMAIN z = 1 .. Len(l2q) - 1
          /\ \A k \in 1 .. Len(l2q) - 1 : z[k] = l2q[k + 1] /\ k + 1 \in DOMAIN l2q /\ k + 1 # 1
      BY <1>1, <3>1
    <3> QED
      BY <3>2
  <2>2. CASE ~mem_rsp_valid
    BY <1>1, <1>2, <2>2
  <2> QED
    BY <2>1, <2>2
<1>7. CASE l2' = l2 \o n /\ mem' = mem /\ l2q' = z
  <2>1. PICK x : x = l2'
    OBVIOUS
  <2>2. /\ x \in Seq(Request) /\ DOMAIN x = 1 .. u + c
        /\ \A k \in 1 .. u : x[k] = l2[k]
        /\ \A k \in 1 .. u + c : k > u => k = u + 1 /\ n = <<x[k]>>
        /\ \A r : n = <<r>> => u + 1 \in DOMAIN x /\ x[u + 1] = r
    <3>1. x = l2 \o n
      BY <1>7, <2>1
    <3> QED
      BY ONLY <1>1, <1>3, <1>4, <3>1
  <2>3. \A i \in 1 .. u : /\ Shift(0, i) = i /\ i \in 1 .. u + c /\ i < u + 1 /\ i # 0
    BY <1>4 DEF Shift
  <2>4. \A k \in 1 .. u + c : \/ k = u + 1 /\ n = <<x[k]>>
                              \/ \E i \in 1 .. u : i # 0 /\ k = Shift(0, i) /\ x[k] = l2[i]
    <3> TAKE k \in 1 .. u + c
    <3>1. CASE k > u
      BY <2>2, <3>1
    <3>2. CASE k <= u
      <4>1. k \in 1 .. u
        BY <3>2
      <4> QED
        BY <2>2, <2>3, <4>1
    <3> QED
      BY <1>4, <3>1, <3>2
  <2>5. 0 \in 0 .. u /\ u + 1 \in Int
    BY <1>4
  <2>6. Performs(f, 0, u + 1)
    <3>1. mem' = IF 0 # 0 /\ l2[0].wb THEN [mem EXCEPT ![l2[0].l] = l2[0].w] ELSE mem
      BY <1>7
    <3>2. \A r : n_mem_req(f) = <<r>> => u + 1 \in DOMAIN l2' /\ l2'[u + 1] = r
      BY <1>2, <2>1, <2>2
    <3>3. \A k \in DOMAIN l2' : \/ k = u + 1 /\ n_mem_req(f) = <<l2'[k]>>
                                \/ \E i \in DOMAIN l2 : i # 0 /\ k = Shift(0, i) /\ l2'[k] = l2[i]
      <4> SUFFICES ASSUME NEW k \in DOMAIN l2'
                   PROVE  \/ k = u + 1 /\ n = <<x[k]>>
                          \/ \E i \in 1 .. u : i # 0 /\ k = Shift(0, i) /\ x[k] = l2[i]
        BY <1>2, <1>4, <2>1
      <4>1. k \in 1 .. u + c
        BY <2>1, <2>2
      <4> QED
        BY ONLY <2>4, <4>1
    <3>4. \A i \in DOMAIN l2 : i # 0 => /\ Shift(0, i) \in DOMAIN l2' /\ Shift(0, i) < u + 1
                                        /\ l2'[Shift(0, i)] = l2[i]
      BY <1>4, <2>1, <2>2, <2>3
    <3>5. \A k \in DOMAIN l2q' : \E i \in DOMAIN l2q : l2q'[k] = l2q[i] /\ (mem_rsp_valid => i # 1)
      BY <1>5, <1>7
    <3>6. 0 \in 0 .. Len(l2) /\ ~(0 # 0)
      BY <1>4
    <3> QED
      BY ONLY <3>1, <3>2, <3>3, <3>4, <3>5, <3>6, Zenon DEF Performs
  <2> QED
    BY <2>5, <2>6
<1>8. ASSUME NEW a \in DOMAIN l2, \A j \in 1 .. a - 1 : l2[j].l # l2[a].l,
             l2' = SubSeq(l2, 1, a - 1) \o SubSeq(l2, a + 1, Len(l2)) \o n,
             mem' = IF l2[a].wb THEN [mem EXCEPT ![l2[a].l] = l2[a].w] ELSE mem,
             l2q' = z \o <<[l2[a] EXCEPT !.w = IF l2[a].wb THEN Zero ELSE mem[l2[a].l]]>>
      PROVE  \E b, m \in Int : Performs(f, b, m)
  <2>0. a \in 1 .. u /\ a \in Int /\ a # 0 /\ u - 1 \in Nat /\ u \in Int /\ a \in 0 .. u
    BY <1>4
  <2>1. PICK x, s : x = l2' /\ s = SubSeq(l2, 1, a - 1) \o SubSeq(l2, a + 1, Len(l2))
    OBVIOUS
  <2>2. /\ s \in Seq(Request) /\ Len(s) = u - 1
        /\ \A k \in 1 .. u - 1 : s[k] = l2[IF k < a THEN k ELSE k + 1]
    <3>1. \A q : q = SubSeq(l2, 1, a - 1) \o SubSeq(l2, a + 1, Len(l2)) =>
             /\ q \in Seq(Request) /\ Len(q) = Len(l2) - 1
             /\ \A k \in 1 .. Len(l2) - 1 : q[k] = l2[IF k < a THEN k ELSE k + 1]
      BY ONLY <1>1, <1>8, Removed
    <3> QED
      BY ONLY <1>4, <2>1, <3>1
  <2>3. /\ x \in Seq(Request) /\ DOMAIN x = 1 .. u - 1 + c
        /\ \A k \in 1 .. u - 1 : x[k] = s[k]
        /\ \A k \in 1 .. u - 1 + c : k > u - 1 => k = u - 1 + 1 /\ n = <<x[k]>>
        /\ \A r : n = <<r>> => u - 1 + 1 \in DOMAIN x /\ x[u - 1 + 1] = r
    <3>1. x = s \o n
      BY <1>8, <2>1
    <3> QED
      BY ONLY <1>3, <1>4, <2>0, <2>2, <3>1
  <2>4. u - 1 + 1 = u
    BY <2>0
  <2>5. \A i \in 1 .. u : i # a => /\ Shift(a, i) \in 1 .. u - 1 /\ Shift(a, i) < u
                                   /\ Shift(a, i) \in 1 .. u - 1 + c
                                   /\ (IF Shift(a, i) < a THEN Shift(a, i) ELSE Shift(a, i) + 1) = i
    BY <1>4, <2>0 DEF Shift
  <2>6. \A k \in 1 .. u - 1 : \E i \in 1 .. u : i # a /\ k = Shift(a, i)
                                 /\ i = (IF k < a THEN k ELSE k + 1)
    <3> TAKE k \in 1 .. u - 1
    <3>1. CASE k < a
      <4>1. k \in 1 .. u /\ k # a /\ Shift(a, k) = k
        BY <2>0, <3>1 DEF Shift
      <4> QED
        BY <3>1, <4>1
    <3>2. CASE ~(k < a)
      <4>1. k + 1 \in 1 .. u /\ k + 1 # a /\ Shift(a, k + 1) = k
        BY <2>0, <3>2 DEF Shift
      <4> QED
        BY <3>2, <4>1
    <3> QED
      BY <3>1, <3>2
  <2>7. \A i \in 1 .. u : i # a => x[Shift(a, i)] = l2[i]
    BY <2>2, <2>3, <2>5
  <2>8. \A k \in 1 .. u - 1 + c : \/ k = u /\ n = <<x[k]>>
                                  \/ \E i \in 1 .. u : i # a /\ k = Shift(a, i) /\ x[k] = l2[i]
    <3> TAKE k \in 1 .. u - 1 + c
    <3>1. CASE k > u - 1
      BY <2>3, <2>4, <3>1
    <3>2. CASE k <= u - 1
      <4>1. k \in 1 .. u - 1
        BY <3>2
      <4>2. PICK i \in 1 .. u : i # a /\ k = Shift(a, i)
        BY <2>6, <4>1
      <4> QED
        BY <2>7, <4>2
    <3> QED
      BY <2>0, <1>4, <3>1, <3>2
  <2>9. \A k \in DOMAIN l2q' :
          \/ \E i \in DOMAIN l2q : l2q'[k] = l2q[i] /\ (mem_rsp_valid => i # 1)
          \/ /\ l2q'[k].wb = l2[a].wb /\ l2q'[k].l = l2[a].l
             /\ ~l2[a].wb => l2q'[k].w = mem[l2[a].l]
    <3>1. PICK y, e : y = l2q' /\ e = [l2[a] EXCEPT !.w = IF l2[a].wb THEN Zero ELSE mem[l2[a].l]]
      OBVIOUS
    <3>2. e.wb = l2[a].wb /\ e.l = l2[a].l /\ (~l2[a].wb => e.w = mem[l2[a].l])
      <4>1. l2[a] \in Request
        BY <1>1
      <4> QED
        BY <3>1, <4>1 DEF Request
    <3>3. y = Append(z, e)
      <4>1. y = z \o <<e>>
        BY <1>8, <3>1
      <4> QED
        BY <1>5, <4>1
    <3>4. \A k \in DOMAIN y : (k \in DOMAIN z /\ y[k] = z[k]) \/ y[k] = e
      BY <1>5, <3>3
    <3>5. \A k \in DOMAIN y :
          \/ \E i \in DOMAIN l2q : y[k] = l2q[i] /\ (mem_rsp_valid => i # 1)
          \/ /\ y[k].wb = l2[a].wb /\ y[k].l = l2[a].l
             /\ ~l2[a].wb => y[k].w = mem[l2[a].l]
      BY ONLY <1>5, <3>2, <3>4
    <3> QED
      BY ONLY <3>1, <3>5, Zenon
  <2>10. Performs(f, a, u)
    <3>1. /\ mem' = IF a # 0 /\ l2[a].wb THEN [mem EXCEPT ![l2[a].l] = l2[a].w] ELSE mem
          /\ a \in 0 .. Len(l2)
      BY <1>4, <1>8, <2>0
    <3>2. \A r : n_mem_req(f) = <<r>> => u \in DOMAIN l2' /\ l2'[u] = r
      BY <1>2, <2>1, <2>3, <2>4
    <3>3. \A k \in DOMAIN l2' : \/ k = u /\ n_mem_req(f) = <<l2'[k]>>
                                \/ \E i \in DOMAIN l2 : i # a /\ k = Shift(a, i) /\ l2'[k] = l2[i]
      <4> SUFFICES ASSUME NEW k \in DOMAIN l2'
                   PROVE  \/ k = u /\ n = <<x[k]>>
                          \/ \E i \in 1 .. u : i # a /\ k = Shift(a, i) /\ x[k] = l2[i]
        BY <1>2, <1>4, <2>1
      <4>1. k \in 1 .. u - 1 + c
        BY <2>1, <2>3
      <4> QED
        BY ONLY <2>8, <4>1
    <3>4. \A i \in DOMAIN l2 : i # a => /\ Shift(a, i) \in DOMAIN l2' /\ Shift(a, i) < u
                                        /\ l2'[Shift(a, i)] = l2[i]
      BY <1>4, <2>1, <2>3, <2>5, <2>7
    <3> QED
      BY <1>8, <2>0, <2>9, <3>1, <3>2, <3>3, <3>4 DEF Performs
  <2> QED
    BY <2>0, <2>10
<1> QED
  <2>1. \/ l2' = l2 \o n /\ mem' = mem /\ l2q' = z
        \/ \E a \in DOMAIN l2 :
              /\ \A j \in 1 .. a - 1 : l2[j].l # l2[a].l
              /\ l2' = SubSeq(l2, 1, a - 1) \o SubSeq(l2, a + 1, Len(l2)) \o n
              /\ mem' = IF l2[a].wb THEN [mem EXCEPT ![l2[a].l] = l2[a].w] ELSE mem
              /\ l2q' = z \o <<[l2[a] EXCEPT !.w = IF l2[a].wb THEN Zero ELSE mem[l2[a].l]]>>
    BY <1>1, <1>2, Zenon DEF L2
  <2> QED
    BY <1>7, <1>8, <2>1

(* The write backs a step sends to the L2, and what it evicts or a probe   *)
(* sends out (New).                                                        *)
New(f) == f.evict # <<>> \/ (In("FLUSH_CL") /\ f.st = "FLUSH_CL_WAIT")
LEMMA Writes ==
  ASSUME NEW f, Step(f)
  PROVE  /\ \A r : n_mem_req(f) = <<r>> /\ r.wb =>
              \/ 1 \in DOMAIN eb /\ r.l = eb[1].l /\ r.w = eb[1].w
              \/ In("FLUSH_CL") /\ f.st = "FLUSH_CL_WAIT" /\ r.l = p1.out.l /\ r.w = p1.out.w
         /\ eb # <<>> => \E r : n_mem_req(f) = <<r>> /\ r.wb /\ r.l = eb[1].l /\ r.w = eb[1].w
         /\ In("FLUSH_CL") /\ f.st = "FLUSH_CL_WAIT" =>
              \E r : n_mem_req(f) = <<r>> /\ r.wb /\ r.l = p1.out.l /\ r.w = p1.out.w
         /\ \A i \in DOMAIN eb : i = 1 /\ eb # <<>>
<1>1. /\ IInv /\ Leaving(f) /\ Reasons(f) /\ eb \in Seq(WriteBack)
      /\ eb # <<>> => Len(eb) = 1 /\ r_state \in {"CLEAR_DIRTY", "FLUSH_CACHE_WAIT", "FLUSH_CACHE_LAST_WAIT"}
  BY DEF Step, IInv, Types, Controls, Credits
<1>2. (eb # <<>> => 1 \in DOMAIN eb /\ Head(eb) = eb[1]) /\ \A i \in DOMAIN eb : i = 1 /\ eb # <<>>
  BY <1>1
<1>3. eb # <<>> => /\ ~w_gen_early_req(f) /\ n_mem_req(f) # <<>> /\ f.fetch = <<>>
  <2> SUFFICES ASSUME eb # <<>> PROVE ~w_gen_early_req(f) /\ n_mem_req(f) # <<>> /\ f.fetch = <<>>
    OBVIOUS
  <2>1. ~p2.got /\ ~p1.got
    BY <1>1 DEF IInv, Port2Inv, Port1Inv, In
  <2>2. f.fetch = <<>>
    BY <1>1, <2>1 DEF Leaving, CleanVictim, In
  <2> QED
    BY <2>1, <2>2, Outgoing, EchoEdge
<1>4. w_gen_early_req(f) => \A r : n_mem_req(f) = <<r>> => ~r.wb
  <2> SUFFICES ASSUME w_gen_early_req(f), NEW r, n_mem_req(f) = <<r>> PROVE ~r.wb
    OBVIOUS
  <2>1. n_mem_req(f) = <<[wb |-> FALSE, l |-> Line(p2.p), w |-> Zero, t |-> r_mq_tail_ptr]>>
    BY DEF n_mem_req
  <2> QED
    BY <2>1
<1>5. t_pop_eb(f) => /\ n_mem_req(f) = <<[wb |-> TRUE, l |-> Head(eb).l, w |-> Head(eb).w, t |-> EbTag]>>
                     /\ eb # <<>>
  BY DEF t_pop_eb, n_mem_req
<1>6. ~w_gen_early_req(f) /\ ~t_pop_eb(f) => n_mem_req(f) = f.fetch
  BY DEF n_mem_req
<1>7. f.fetch # <<>> =>
       \/ f.fetch = <<[wb |-> FALSE, l |-> Line(p1.p), w |-> Zero, t |-> FetchTag]>>
       \/ /\ In("FLUSH_CL") /\ f.st = "FLUSH_CL_WAIT"
          /\ f.fetch = <<[wb |-> TRUE, l |-> p1.out.l, w |-> p1.out.w, t |-> r_mem_req_tag]>>
  BY <1>1 DEF Leaving
<1>8. eb # <<>> => \E r : n_mem_req(f) = <<r>> /\ r.wb /\ r.l = eb[1].l /\ r.w = eb[1].w
  <2> SUFFICES ASSUME eb # <<>> PROVE \E r : n_mem_req(f) = <<r>> /\ r.wb /\ r.l = eb[1].l /\ r.w = eb[1].w
    OBVIOUS
  <2>1. t_pop_eb(f)
    BY <1>3, <1>6
  <2>2. PICK r : r = [wb |-> TRUE, l |-> Head(eb).l, w |-> Head(eb).w, t |-> EbTag]
    OBVIOUS
  <2>3. n_mem_req(f) = <<r>>
    BY <1>5, <2>1, <2>2
  <2>4. r.wb /\ r.l = eb[1].l /\ r.w = eb[1].w
    BY <1>2, <2>2
  <2> QED
    BY <2>3, <2>4
<1>9. In("FLUSH_CL") /\ f.st = "FLUSH_CL_WAIT" =>
              \E r : n_mem_req(f) = <<r>> /\ r.wb /\ r.l = p1.out.l /\ r.w = p1.out.w
  <2> SUFFICES ASSUME In("FLUSH_CL"), f.st = "FLUSH_CL_WAIT"
               PROVE  \E r : n_mem_req(f) = <<r>> /\ r.wb /\ r.l = p1.out.l /\ r.w = p1.out.w
    OBVIOUS
  <2>1. f.fetch # <<>>
    BY <1>1 DEF Reasons
  <2>2. n_mem_req(f) = f.fetch
    BY <2>1, Outgoing
  <2>3. ~CleanVictim
    BY <1>1 DEF CleanVictim, IInv, Port1Inv, In
  <2>4. f.fetch = <<[wb |-> TRUE, l |-> p1.out.l, w |-> p1.out.w, t |-> r_mem_req_tag]>>
    BY <1>1, <2>1, <2>3 DEF Leaving
  <2>5. PICK r : r = [wb |-> TRUE, l |-> p1.out.l, w |-> p1.out.w, t |-> r_mem_req_tag]
    OBVIOUS
  <2> QED
    BY <2>2, <2>4, <2>5
<1>10. ASSUME NEW r, n_mem_req(f) = <<r>>, r.wb
       PROVE  \/ 1 \in DOMAIN eb /\ r.l = eb[1].l /\ r.w = eb[1].w
              \/ In("FLUSH_CL") /\ f.st = "FLUSH_CL_WAIT" /\ r.l = p1.out.l /\ r.w = p1.out.w
  <2>1. CASE t_pop_eb(f)
    <3>1. r = [wb |-> TRUE, l |-> Head(eb).l, w |-> Head(eb).w, t |-> EbTag]
      BY <1>5, <1>10, <2>1
    <3> QED
      BY <1>2, <1>5, <2>1, <3>1
  <2>2. CASE ~t_pop_eb(f)
    <3>1. f.fetch = <<r>> /\ f.fetch # <<>>
      BY <1>4, <1>6, <1>10, <2>2
    <3>2. \/ r = [wb |-> FALSE, l |-> Line(p1.p), w |-> Zero, t |-> FetchTag]
          \/ /\ In("FLUSH_CL") /\ f.st = "FLUSH_CL_WAIT"
             /\ r = [wb |-> TRUE, l |-> p1.out.l, w |-> p1.out.w, t |-> r_mem_req_tag]
      BY <1>7, <3>1
    <3> QED
      BY <1>10, <3>2
  <2> QED
    BY <2>1, <2>2
<1> QED
  BY <1>2, <1>8, <1>9, <1>10

(* What leaves is a dirty line of the cache, in its set, which is not being*)
(* filled; an evicted one is marked invalid, a probed one is not.          *)
LEMMA Evicted ==
  ASSUME NEW f, Step(f), Home, Looks, OneWb, New(f)
  PROVE  /\ p1.idx \in IDX /\ p1.out = cache[p1.idx] /\ p1.out.v /\ p1.out.d
         /\ p1.out.l \in LINES /\ PIdx[p1.out.l] = p1.idx /\ Cached(p1.out.l)
         /\ ~Fill(p1.idx) /\ ~Leaves(p1.out.l) /\ ~In("FLUSH_CL_WAIT")
         /\ f.evict # <<>> =>
              /\ f.evict = <<[l |-> p1.out.l, w |-> p1.out.w]>> /\ f.inval = p1.idx
              /\ ~w_gen_early_req(f) /\ f.fetch = <<>> /\ f.st \notin ProbeSt
              /\ ~In("FLUSH_CL") /\ eb = <<>> /\ n_mem_req(f) = <<>>
         /\ f.evict = <<>> => /\ In("FLUSH_CL") /\ f.st = "FLUSH_CL_WAIT" /\ p1.out.l = probe
                              /\ f.inval = None /\ eb = <<>>
<1>1. /\ IInv /\ Leaving(f) /\ HeldNext(f) /\ SweepNext(f) /\ Reasons(f) /\ Types /\ Port1Inv
      /\ p1.idx \in IDX
  BY Registers DEF Step, IInv, Controls
<1>2. CASE f.evict # <<>>
  <2>1. /\ f.evict = <<[l |-> p1.out.l, w |-> p1.out.w]>> /\ f.fetch = <<>> /\ eb = <<>>
        /\ \/ f.st = "CLEAR_DIRTY"
           \/ In("FLUSH_CACHE") /\ f.st \in {"FLUSH_CACHE_WAIT", "FLUSH_CACHE_LAST_WAIT"}
    BY <1>1, <1>2, EchoEdge DEF Leaving
  <2>4. /\ p1.out = cache[p1.idx] /\ p1.out.v /\ p1.out.d /\ f.inval = p1.idx
        /\ ~w_gen_early_req(f) /\ f.st \notin ProbeSt /\ ~In("FLUSH_CL") /\ ~In("FLUSH_CL_WAIT")
    <3>1. CASE f.st = "CLEAR_DIRTY"
      <4>1. DirtyVictim /\ f.inval = p1.idx /\ p1.got /\ ~w_cache_port1_hit
        BY <1>1, <3>1 DEF HeldNext, DirtyVictim
      <4>2. p1.out = cache[p1.idx] /\ In("ACTIVE")
        BY <1>1, <4>1 DEF Port1Inv
      <4>3. ~w_gen_early_req(f)
        BY <4>1, Outgoing DEF w_hit_or_idle
      <4>4. p1.out.v /\ p1.out.d
        BY <4>1 DEF DirtyVictim
      <4> QED
        BY <3>1, <4>1, <4>2, <4>3, <4>4 DEF ProbeSt, In
    <3>2. CASE In("FLUSH_CACHE") /\ f.st \in {"FLUSH_CACHE_WAIT", "FLUSH_CACHE_LAST_WAIT"}
      <4>1. f.inval = p1.idx /\ p1.out.d
        BY <1>1, <3>2 DEF SweepNext
      <4>2. p1.out = cache[p1.idx]
        BY <3>2 DEF Looks
      <4>3. p1.out.v
        BY <1>1, <4>1, <4>2 DEF Home
      <4>4. ~w_gen_early_req(f)
        BY <1>1, <3>2, Outgoing DEF IInv, Port2Inv, In
      <4> QED
        BY <3>2, <4>1, <4>2, <4>3, <4>4 DEF ProbeSt, In
    <3> QED
      BY <2>1, <3>1, <3>2
  <2>5. ~t_pop_eb(f)
    BY <2>1 DEF t_pop_eb
  <2>6. n_mem_req(f) = <<>>
    BY <2>1, <2>4, <2>5 DEF n_mem_req
  <2>7. PIdx[p1.out.l] = p1.idx /\ p1.out.l \in LINES
    BY <1>1, <2>4, Out1 DEF Home
  <2>8. Cached(p1.out.l)
    BY <2>4, <2>7 DEF Cached
  <2>9. ~Fill(p1.idx)
    BY <1>1, <2>4, FillsWhereExpected DEF FillsAreExpected, Fill
  <2>10. ~Leaves(p1.out.l)
    BY <2>4, <2>7, <2>8 DEF OneWb
  <2> QED
    BY <1>1, <1>2, <2>1, <2>4, <2>6, <2>7, <2>8, <2>9, <2>10
<1>3. CASE f.evict = <<>>
  <2>1. In("FLUSH_CL") /\ f.st = "FLUSH_CL_WAIT" /\ ~In("FLUSH_CL_WAIT")
    BY <1>3 DEF New, In
  <2>2. w_flush_hit /\ p1.out.d
    BY <1>1, <2>1 DEF Reasons
  <2>3. p1.out = cache[p1.idx] /\ p1.out.v /\ p1.out.l = probe
    BY <2>1, <2>2 DEF Looks, w_flush_hit
  <2>4. PIdx[p1.out.l] = p1.idx /\ p1.out.l \in LINES
    BY <1>1, <2>2, <2>3, Out1 DEF Home
  <2>5. Cached(p1.out.l)
    BY <2>3, <2>4 DEF Cached
  <2>6. ~Fill(p1.idx)
    BY <1>1, <2>2, <2>3, FillsWhereExpected DEF FillsAreExpected, Fill
  <2>7. ~Leaves(p1.out.l)
    BY <2>1, <2>4, <2>5 DEF OneWb
  <2>8. f.inval = None
    BY <1>1, <2>1, <2>2 DEF Leaving, In
  <2>9. eb = <<>>
    BY <1>1, <2>1 DEF IInv, Probes1, Probing, In
  <2> QED
    BY <1>1, <1>3, <2>1, <2>2, <2>3, <2>4, <2>5, <2>6, <2>7, <2>8, <2>9
<1> QED
  BY <1>2, <1>3

(* A fetch in flight is for a set without a dirty line.                    *)
LEMMA FetchesClean ==
  ASSUME IInv, NEW r, Known(r), ~r.wb
  PROVE  ~(cache[PIdx[r.l]].v /\ cache[PIdx[r.l]].d)
<1>1. CASE In("INJECT_RELOAD") /\ r.l = Line(p1.p)
  BY <1>1 DEF IInv, Port1Inv, Set1, IdxOf
<1>2. CASE \E j \in DOMAIN mq : r.l = Line(mq[j]) /\ Apart(j)
  BY <1>2 DEF Apart, IdxOf
<1> QED
  BY <1>1, <1>2 DEF Known, Expected

(* The write backs of a line before and after a step.                      *)
LEMMA Leaving1 == ASSUME NEW l PROVE Leaves(l) <=> \E w : Wb(l, w)
  BY DEF Leaves, Wb

LEMMA WbEdge ==
  ASSUME NEW f, Step(f), Home, Looks, OneWb, NEW a \in Int, NEW m \in Int, Performs(f, a, m),
         NEW l, NEW w
  PROVE  /\ Wb(l, w) /\ ~Gone(a, l) => Wb(l, w)'
         /\ New(f) /\ l = p1.out.l /\ w = p1.out.w => Wb(l, w)'
         /\ Wb(l, w)' => \/ Wb(l, w) /\ ~Gone(a, l)
                         \/ New(f) /\ l = p1.out.l /\ w = p1.out.w
         /\ Gone(a, l) => Wb(l, l2[a].w) /\ (l \in LINES => mem'[l] = l2[a].w)
         /\ ~Gone(a, l) => mem'[l] = mem[l]
<1>1. /\ IInv /\ eb' = f.evict /\ (eb # <<>> => n_mem_req(f) # <<>> /\ f.evict = <<>>)
      /\ (a # 0 => a \in DOMAIN l2) /\ mem \in [LINES -> [WORDS -> Value]]
  BY EchoEdge DEF Step, Performs, IInv, Types, TypeOK
<1>2. ASSUME NEW r, n_mem_req(f) = <<r>>, r.wb PROVE Wb(r.l, r.w)'
  <2>1. m \in DOMAIN l2' /\ l2'[m] = r
    BY <1>2 DEF Performs
  <2> QED
    BY <1>2, <2>1 DEF Wb
<1>3. ASSUME Wb(l, w), ~Gone(a, l) PROVE Wb(l, w)'
  <2>1. ASSUME NEW i \in DOMAIN l2, l2[i].wb, l2[i].l = l, l2[i].w = w PROVE Wb(l, w)'
    <3>1. i # a
      BY <1>3, <2>1 DEF Gone, Performs
    <3>2. Shift(a, i) \in DOMAIN l2' /\ l2'[Shift(a, i)] = l2[i]
      BY <3>1 DEF Performs
    <3> QED
      BY <2>1, <3>2 DEF Wb
  <2>2. ASSUME NEW i \in DOMAIN eb, eb[i].l = l, eb[i].w = w PROVE Wb(l, w)'
    <3>1. i = 1 /\ eb # <<>>
      BY Writes
    <3>2. PICK r : n_mem_req(f) = <<r>> /\ r.wb /\ r.l = eb[1].l /\ r.w = eb[1].w
      BY <3>1, Writes
    <3> QED
      BY <1>2, <2>2, <3>1, <3>2
  <2> QED
    BY <1>3, <2>1, <2>2 DEF Wb
<1>4. ASSUME New(f), l = p1.out.l, w = p1.out.w PROVE Wb(l, w)'
  <2>1. CASE f.evict # <<>>
    <3>1. eb' = <<[l |-> p1.out.l, w |-> p1.out.w]>>
      BY <1>1, <1>4, <2>1, Evicted
    <3>2. 1 \in DOMAIN eb' /\ eb'[1].l = l /\ eb'[1].w = w
      BY <1>4, <3>1
    <3> QED
      BY <3>2 DEF Wb
  <2>2. CASE f.evict = <<>>
    <3>1. PICK r : n_mem_req(f) = <<r>> /\ r.wb /\ r.l = l /\ r.w = w
      BY <1>4, <2>2, Writes DEF New
    <3> QED
      BY <1>2, <3>1
  <2> QED
    BY <2>1, <2>2
<1>5. ASSUME Wb(l, w)'
      PROVE  \/ Wb(l, w) /\ ~Gone(a, l)
             \/ New(f) /\ l = p1.out.l /\ w = p1.out.w
  <2>1. ASSUME NEW k \in DOMAIN l2', l2'[k].wb, l2'[k].l = l, l2'[k].w = w
        PROVE  \/ Wb(l, w) /\ ~Gone(a, l)
               \/ New(f) /\ l = p1.out.l /\ w = p1.out.w
    <3>1. CASE n_mem_req(f) = <<l2'[k]>>
      <4>1. CASE 1 \in DOMAIN eb /\ eb[1].l = l /\ eb[1].w = w
        <5>1. Wb(l, w)
          BY <4>1 DEF Wb
        <5>2. ~Gone(a, l)
          BY <1>1, <4>1 DEF Gone, OneWb
        <5> QED
          BY <5>1, <5>2
      <4>2. CASE In("FLUSH_CL") /\ f.st = "FLUSH_CL_WAIT" /\ l = p1.out.l /\ w = p1.out.w
        BY <4>2 DEF New
      <4>3. PICK r : r = l2'[k]
        OBVIOUS
      <4>4. n_mem_req(f) = <<r>> /\ r.wb /\ r.l = l /\ r.w = w
        BY <2>1, <3>1, <4>3
      <4> QED
        BY <4>1, <4>2, <4>4, Writes
    <3>2. ASSUME NEW i \in DOMAIN l2, i # a, l2'[k] = l2[i] PROVE Wb(l, w) /\ ~Gone(a, l)
      <4>1. l2[i].wb /\ l2[i].l = l /\ l2[i].w = w
        BY <2>1, <3>2
      <4>2. ~Gone(a, l)
        BY <1>1, <3>2, <4>1 DEF Gone, OneWb
      <4> QED
        BY <4>1, <4>2 DEF Wb
    <3> QED
      BY <3>1, <3>2 DEF Performs
  <2>2. ASSUME NEW k \in DOMAIN eb', eb'[k].l = l, eb'[k].w = w
        PROVE  New(f) /\ l = p1.out.l /\ w = p1.out.w
    <3>1. PICK e : e = eb'
      OBVIOUS
    <3>2. e = f.evict /\ k \in DOMAIN e /\ e[k].l = l /\ e[k].w = w
      BY <1>1, <2>2, <3>1
    <3>3. f.evict # <<>>
      BY <3>2
    <3>4. New(f)
      BY <3>3 DEF New
    <3>5. e = <<[l |-> p1.out.l, w |-> p1.out.w]>>
      BY <3>2, <3>3, <3>4, Evicted
    <3>6. k = 1
      BY <3>2, <3>5
    <3> QED
      BY <3>2, <3>4, <3>5, <3>6
  <2> QED
    BY <1>5, <2>1, <2>2 DEF Wb
<1>6. Gone(a, l) => Wb(l, l2[a].w) /\ (l \in LINES => mem'[l] = l2[a].w)
  <2> SUFFICES ASSUME Gone(a, l) PROVE Wb(l, l2[a].w) /\ (l \in LINES => mem'[l] = l2[a].w)
    OBVIOUS
  <2>1. a \in DOMAIN l2 /\ l2[a].wb /\ l2[a].l = l /\ a # 0
    BY <1>1 DEF Gone
  <2>2. mem' = [mem EXCEPT ![l] = l2[a].w]
    BY <2>1 DEF Performs
  <2> QED
    BY <1>1, <2>1, <2>2 DEF Wb
<1>7. ~Gone(a, l) => mem'[l] = mem[l]
  <2> SUFFICES ASSUME ~Gone(a, l) PROVE mem'[l] = mem[l]
    OBVIOUS
  <2>1. CASE a # 0 /\ l2[a].wb
    <3>1. l2[a].l # l /\ mem' = [mem EXCEPT ![l2[a].l] = l2[a].w]
      BY <2>1 DEF Gone, Performs
    <3> QED
      BY <3>1
  <2>2. CASE ~(a # 0 /\ l2[a].wb)
    BY <2>2 DEF Performs
  <2> QED
    BY <2>1, <2>2
<1> QED
  BY <1>3, <1>4, <1>5, <1>6, <1>7

LEMMA LeavesEdge ==
  ASSUME NEW f, Step(f), Home, Looks, OneWb, NEW l, Leaves(l)'
  PROVE  Leaves(l) \/ (New(f) /\ l = p1.out.l)
<1>1. PICK a, m \in Int : Performs(f, a, m)
  BY Performed
<1>2. PICK w : Wb(l, w)'
  BY DEF Leaves, Wb
<1>3. Wb(l, w) => Leaves(l)
  BY Leaving1
<1> QED
  BY <1>1, <1>2, <1>3, WbEdge

(* What is behind a line stays, unless the line itself leaves the cache.   *)
LEMMA BehindStays ==
  ASSUME NEW f, Step(f), Home, Looks, OneWb, NEW l \in LINES, NEW w, Behind(l, w),
         ~(New(f) /\ l = p1.out.l)
  PROVE  Behind(l, w)'
<1>0. IInv
  BY DEF Step
<1>1. PICK a, m \in Int : Performs(f, a, m)
  BY Performed
<1>2. ASSUME Gone(a, l) PROVE Behind(l, w)'
  <2>1. Wb(l, l2[a].w) /\ mem'[l] = l2[a].w
    BY <1>1, <1>2, WbEdge
  <2>2. Wb(l, w)
    BY <2>1, Leaving1 DEF Behind
  <2>3. w = l2[a].w
    BY <1>0, <2>1, <2>2, OneBehind
  <2>4. \A v : ~Wb(l, v)'
    BY <1>1, <1>2, WbEdge
  <2>5. ~Leaves(l)'
    BY <2>4 DEF Leaves, Wb
  <2> QED
    BY <2>1, <2>3, <2>5 DEF Behind
<1>3. ASSUME ~Gone(a, l), Wb(l, w) PROVE Behind(l, w)'
  <2>1. Wb(l, w)'
    BY <1>1, <1>3, WbEdge
  <2> QED
    BY <2>1 DEF Behind
<1>4. ASSUME ~Gone(a, l), ~Wb(l, w) PROVE Behind(l, w)'
  <2>1. ~Leaves(l) /\ w = mem[l]
    BY <1>4 DEF Behind
  <2>2. mem'[l] = mem[l]
    BY <1>1, <1>4, WbEdge
  <2>3. ~Leaves(l)'
    BY <2>1, LeavesEdge
  <2> QED
    BY <2>1, <2>2, <2>3 DEF Behind
<1> QED
  BY <1>2, <1>3, <1>4

(* What a step does to a set: it is filled with a line that comes, or made *)
(* invalid, or stored to, or left alone.                                   *)
LEMMA SetEdge ==
  ASSUME NEW f, Step(f), Home, NEW i \in IDX
  PROVE  \/ /\ Fill(i) /\ i = PIdx[mem_rsp.l] /\ ~Store(i) /\ mem_rsp_valid /\ ~mem_rsp.wb
            /\ cache'[i].l = mem_rsp.l /\ cache'[i].w = mem_rsp.w /\ ~cache'[i].d
            /\ ~cache[i].d
         \/ /\ ~Fill(i) /\ ~Store(i) /\ i = f.inval /\ ~cache'[i].v /\ ~cache'[i].d
         \/ /\ ~Fill(i) /\ Store(i) /\ i # f.inval /\ cache'[i].v /\ cache'[i].d /\ cache[i].v
            /\ cache'[i].l = cache[i].l /\ cache[i].l = Line(p1.p)
            /\ cache'[i].w = Merge(IF mem_rsp_valid THEN [y \in WORDS |-> Junk] ELSE cache[i].w, p1.p)
         \/ ~Fill(i) /\ ~Store(i) /\ i # f.inval /\ cache'[i] = cache[i]
<1>1. /\ IInv /\ Leaving(f) /\ HeldNext(f) /\ i # None /\ cache[i] \in Line1
      /\ \A x \in IDX : x # None
  BY Registers, Sizes DEF Step, IInv, Controls, IDX, None
<1>2. ~(mem_rsp_reload /\ t_wr_array)
  BY <1>1, StopsNowhere DEF NoStop
<1>3. i = f.inval => ~Store(i)
  <2> SUFFICES ASSUME i = f.inval, t_wr_array PROVE FALSE
    BY DEF Store
  <2>1. In("ACTIVE") /\ w_got_hit
    BY <1>1, Storing
  <2>2. f.st = "CLEAR_DIRTY"
    BY <1>1, <2>1 DEF Leaving, In
  <2> QED
    BY <1>1, <2>1, <2>2 DEF HeldNext, DirtyVictim, w_got_hit
<1>4. CASE Fill(i)
  <2>1. i = PIdx[mem_rsp.l] /\ mem_rsp_reload /\ mem_rsp_valid /\ ~mem_rsp.wb
    BY <1>4 DEF Fill, mem_rsp_reload
  <2>2. ~Store(i)
    BY <1>2, <2>1 DEF Store
  <2>3. ~(cache[i].v /\ cache[i].d)
    BY <1>1, <2>1, FillsWhereExpected DEF FillsAreExpected
  <2>4. ~cache[i].d
    BY <2>3 DEF Home
  <2>5. ~cache'[i].d
    BY <1>4, <2>4, ArrayEdge
  <2> QED
    BY <1>4, <2>1, <2>2, <2>4, <2>5, ArrayEdge
<1>5. CASE ~Fill(i) /\ i = f.inval
  BY <1>3, <1>5, ArrayEdge
<1>6. CASE ~Fill(i) /\ i # f.inval /\ Store(i)
  <2>1. cache[i].v /\ cache[i].l = Line(p1.p) /\ t_wr_array /\ ~mem_rsp_reload
    BY <1>1, <1>2, <1>6, Storing DEF Store
  <2>2. f.inval = None
    <3>1. f.inval # None => f.inval = p1.idx
      BY <1>1 DEF Leaving
    <3> QED
      BY <1>6, <3>1 DEF Store
  <2> QED
    BY <1>6, <2>1, <2>2, ArrayEdge
<1>7. CASE ~Fill(i) /\ i # f.inval /\ ~Store(i)
  BY <1>7, ArrayEdge
<1> QED
  BY <1>4, <1>5, <1>6, <1>7

-----------------------------------------------------------------------------
(* DInv is preserved.                                                      *)
LEMMA HomeStep == ASSUME NEW f, Step(f), DInv PROVE Home'
<1> SUFFICES ASSUME NEW i \in IDX
             PROVE  (cache'[i].v => PIdx[cache'[i].l] = i) /\ (cache'[i].d => cache'[i].v)
  BY DEF Home
<1> QED
  BY SetEdge DEF DInv, Home

(* What the machine does while no dirty line is at stake.                  *)
LEMMA NoAnswers ==
  ASSUME IInv, w_queues_drained
  PROVE  l2 = <<>> /\ l2q = <<>> /\ eb = <<>> /\ ~mem_rsp_valid /\ \A i : ~Fill(i)
<1>1. l2 \in Seq(Request) /\ l2q \in Seq(Request) /\ MRQ \in Nat
  BY Sizes DEF IInv, Types
<1>2. PICK a \in Nat, b \in Nat : a = Len(l2) /\ b = Len(l2q)
  BY <1>1
<1>3. MRQ - 1 - a - b = MRQ - 1 /\ eb = <<>>
  BY <1>2 DEF w_queues_drained, r_mrq_credits
<1>4. a = 0 /\ b = 0
  BY <1>1, <1>3
<1>5. l2 = <<>> /\ l2q = <<>>
  BY <1>1, <1>2, <1>4, EmptySeq
<1> QED
  BY <1>3, <1>5 DEF mem_rsp_valid, mem_rsp_reload, Fill

LEMMA NoLeaver == ASSUME l2 = <<>>, eb = <<>> PROVE \A l : ~Leaves(l)
  BY DEF Leaves

(* The sets do not change in the step that starts a look.                  *)
LEMMA LookStarts ==
  ASSUME NEW f, Step(f), DInv, f.st \in {"FLUSH_CACHE", "FLUSH_CL"}
  PROVE  f.idx \in IDX /\ cache'[f.idx] = cache[f.idx]
<1>1. /\ IInv /\ Leaving(f) /\ SweepNext(f) /\ ProbeNext(f) /\ Reasons(f) /\ Home
      /\ p1.idx \in IDX /\ 0 \in IDX /\ IDX \subseteq Int /\ NIDX \in Nat /\ IDX = 0 .. NIDX - 1
  BY Registers, Sizes DEF Step, IInv, Controls, IDX, DInv
<1>2. CASE f.st = "FLUSH_CL"
  <2>1. /\ f.idx = PIdx[probe] /\ ~t_wr_array /\ ~Probing /\ r_flush_cl_req /\ w_queues_drained
        /\ In("TLB_RELOAD") \/ In("ACTIVE")
    BY <1>1, <1>2 DEF Reasons, ProbeNext
  <2>2. probe \in LINES /\ f.idx \in IDX
    BY <1>1, <2>1, Sizes DEF IInv, Probes1
  <2>3. ~Fill(f.idx) /\ ~Store(f.idx)
    BY <1>1, <2>1, NoAnswers DEF Store
  <2>4. f.inval = None
    BY <1>1, <1>2, <2>1 DEF Leaving, In
  <2> QED
    BY <2>2, <2>3, <2>4, SetEdge, <1>1, Sizes DEF IDX, None
<1>3. CASE f.st = "FLUSH_CACHE" /\ ~Sweeping
  <2>1. In("ACTIVE") /\ FlushGo /\ f.idx = 0 /\ r_flush_req /\ mq = <<>>
    BY <1>1, <1>3 DEF SweepNext, SweepSt, FlushGo
  <2>2. ~Store(0)
    <3> SUFFICES ASSUME t_wr_array PROVE FALSE
      BY DEF Store
    <3>1. Busy1 /\ p1.got /\ Kind(p1.p) \in {"st", "sc"} /\ (p1.lw \/ Kind(p1.p) = "sc")
      BY <1>1, Storing DEF IInv, Port1Inv, IsStore
    <3>2. Kind(p1.p) = "sc"
      BY <2>1, <3>1 DEF FlushGo
    <3>3. Awaited(p1.p)
      BY <1>1, <3>1, <3>2, Live DEF Queued
    <3> QED
      BY <1>1, <2>1, <3>3, FlushOnly
  <2>3. ~Fill(0)
    BY <1>1, <2>1, FillWhere DEF Fill, In
  <2>4. f.inval = None
    BY <1>1, <1>3, <2>1 DEF Leaving, In
  <2> QED
    BY <1>1, <2>1, <2>2, <2>3, <2>4, SetEdge, Sizes DEF None
<1>4. CASE f.st = "FLUSH_CACHE" /\ Sweeping
  <2>1. f.idx \in IDX /\ f.idx # f.inval
    <3>1. CASE In("FLUSH_CACHE")
      <4>1. f.inval = p1.idx /\ f.idx = NextSet /\ ~LastSet
        BY <1>1, <1>4, <3>1 DEF SweepNext
      <4>2. NextSet = p1.idx + 1 /\ p1.idx + 1 \in IDX /\ p1.idx # p1.idx + 1
        <5>1. p1.idx + 1 \in 0 .. NIDX - 1
          BY <1>1, <4>1 DEF LastSet
        <5> QED
          BY <1>1, <5>1 DEF NextSet
      <4> QED
        BY <4>1, <4>2
    <3>2. CASE In("FLUSH_CACHE_WAIT")
      <4>1. f.idx = p1.idx /\ f.inval = None
        BY <1>1, <1>4, <3>2 DEF SweepNext, Leaving, In
      <4> QED
        BY <1>1, <4>1 DEF None
    <3>3. ~In("FLUSH_CACHE_LAST_WAIT")
      BY <1>1, <1>4 DEF SweepNext
    <3> QED
      BY <1>4, <3>1, <3>2, <3>3 DEF Sweeping, In
  <2>2. ~Store(f.idx)
    BY <1>1, <1>4, Storing DEF Store, Sweeping, In
  <2>3. ~Fill(f.idx)
    BY <1>4, <2>1, SweepFills
  <2> QED
    BY <1>1, <2>1, <2>2, <2>3, SetEdge
<1> QED
  BY <1>2, <1>3, <1>4

(* A probe goes on about the line it is for.                               *)
LEMMA ProbeStays ==
  ASSUME NEW f, Step(f), f.st \in ProbeSt
  PROVE  probe' = probe /\ probe \in LINES
<1>1. /\ IInv /\ ProbeNext(f) /\ Probes(f) /\ NoLine \notin LINES /\ Probes1
  BY Sizes DEF Step, IInv, Controls, Edge
<1>2. (r_flush_cl_req \/ Probing) /\ ~f.ack
  BY <1>1 DEF ProbeNext, ProbeSt, Probes1
<1>3. probe \in LINES /\ probe # NoLine
  BY <1>1, <1>2 DEF Probes1
<1> QED
  BY <1>1, <1>2, <1>3 DEF Probes

LEMMA LooksStep == ASSUME NEW f, Step(f), DInv PROVE Looks'
<1>1. r_state' = f.st /\ p1'.idx = (IF f.idx = None THEN 0 ELSE f.idx) /\ p1'.out = ReadAt(f.idx)
  BY Port1Edge
<1>2. f.st \in {"FLUSH_CACHE", "FLUSH_CL"} => p1'.out = cache'[p1'.idx]
  <2> SUFFICES ASSUME f.st \in {"FLUSH_CACHE", "FLUSH_CL"} PROVE p1'.out = cache'[p1'.idx]
    OBVIOUS
  <2>1. f.idx \in IDX /\ cache'[f.idx] = cache[f.idx] /\ f.idx # None
    BY LookStarts, Sizes DEF IDX, None
  <2> QED
    BY <1>1, <2>1 DEF ReadAt
<1>3. f.st = "FLUSH_CL" => p1'.idx = PIdx[probe']
  <2> SUFFICES ASSUME f.st = "FLUSH_CL" PROVE p1'.idx = PIdx[probe']
    OBVIOUS
  <2>1. f.idx \in IDX /\ f.idx # None
    BY LookStarts, Sizes DEF IDX, None
  <2>2. f.idx = PIdx[probe]
    BY DEF Step, Reasons
  <2> QED
    BY <1>1, <2>1, <2>2, ProbeStays DEF ProbeSt
<1> QED
  BY <1>1, <1>2, <1>3 DEF Looks, In

LEMMA CopiesStep == ASSUME NEW f, Step(f), DInv PROVE Copies'
<1>1. IInv /\ Home /\ Looks /\ OneWb /\ Copies /\ ReadsLast /\ l2q \in Seq(Request)
      /\ cache \in [IDX -> Line1] /\ \A i \in IDX : cache[i].v => cache[i].l \in LINES
  BY Registers DEF Step, DInv, IInv, Types, Named
<1> SUFFICES ASSUME NEW i \in IDX, cache'[i].v, ~cache'[i].d,
                    NEW l, NEW w, l = cache'[i].l, w = cache'[i].w
             PROVE  Behind(l, w)'
  <2>1. ASSUME \A i \in IDX : cache'[i].v /\ ~cache'[i].d =>
                 \A l, w : l = cache'[i].l /\ w = cache'[i].w => Behind(l, w)'
        PROVE  Copies'
    <3>1. ASSUME NEW i \in IDX, cache'[i].v, ~cache'[i].d
          PROVE  Behind(cache[i].l, cache[i].w)'
      <4>1. PICK l, w : l = cache'[i].l /\ w = cache'[i].w
        OBVIOUS
      <4>2. Behind(l, w)'
        BY <2>1, <3>1, <4>1
      <4> QED
        BY <4>1, <4>2 DEF Behind, Wb, Leaves
    <3> QED
      BY <3>1 DEF Copies
  <2> QED
    BY <2>1
<1>2. CASE Fill(i)
  <2>1. /\ l = mem_rsp.l /\ w = mem_rsp.w /\ i = PIdx[mem_rsp.l] /\ ~mem_rsp.wb /\ mem_rsp_valid
    BY <1>1, <1>2, SetEdge
  <2>2. l2q # <<>> /\ mem_rsp = l2q[1] /\ 1 \in DOMAIN l2q /\ l2q[1] \in Request
    BY <1>1, <2>1 DEF mem_rsp_valid, mem_rsp
  <2>3. ~Leaves(l) /\ w = mem[l] /\ l \in LINES
    BY <1>1, <2>1, <2>2 DEF ReadsLast, Request
  <2>4. Behind(l, w)
    BY <2>3 DEF Behind
  <2>5. ~(New(f) /\ l = p1.out.l)
    BY <1>1, <1>2, <2>1, Evicted
  <2> QED
    BY <1>1, <2>3, <2>4, <2>5, BehindStays
<1>3. CASE ~Fill(i)
  <2>1. cache'[i] = cache[i]
    BY <1>1, <1>3, SetEdge
  <2>2. cache[i].v /\ ~cache[i].d /\ l = cache[i].l /\ w = cache[i].w /\ l \in LINES
    BY <1>1, <2>1
  <2>3. Behind(l, w)
    BY <1>1, <2>2 DEF Copies
  <2>4. PIdx[l] = i
    BY <1>1, <2>2 DEF Home
  <2>5. ~(New(f) /\ l = p1.out.l)
    BY <1>1, <2>2, <2>4, Evicted
  <2> QED
    BY <1>1, <2>2, <2>3, <2>5, BehindStays
<1> QED
  BY <1>2, <1>3

LEMMA OneWbStep == ASSUME NEW f, Step(f), DInv PROVE OneWb'
<1>1. IInv /\ Home /\ Looks /\ OneWb /\ ReadsLast /\ ProbeNext(f) /\ l2q \in Seq(Request)
  BY DEF Step, DInv, IInv, Types, Controls
<1>2. PICK a \in Int, m \in Int : Performs(f, a, m)
  BY Performed
<1>3. PICK u \in Nat : DOMAIN l2 = 1 .. u
  BY <1>1 DEF IInv, Types
<1>4. ASSUME NEW l, NEW k \in DOMAIN l2', l2'[k].wb, l2'[k].l = l, NEW i \in DOMAIN l2, i # a,
             l2[i].wb, l2[i].l = l
      PROVE  k = Shift(a, i)
  <2>1. CASE n_mem_req(f) = <<l2'[k]>>
    <3>1. PICK r : r = l2'[k]
      OBVIOUS
    <3>2. n_mem_req(f) = <<r>> /\ r.wb /\ r.l = l
      BY <1>4, <2>1, <3>1
    <3>3. Leaves(l)
      BY <1>4 DEF Leaves
    <3>4. ~(1 \in DOMAIN eb /\ eb[1].l = l)
      BY <1>1, <1>4 DEF OneWb
    <3>5. New(f) /\ p1.out.l = l
      BY <3>2, <3>4, Writes DEF New
    <3> QED
      BY <1>1, <3>3, <3>5, Evicted
  <2>2. ASSUME NEW j \in DOMAIN l2, j # a, k = Shift(a, j), l2'[k] = l2[j]
        PROVE  k = Shift(a, i)
    <3>1. l2[j].wb /\ l2[j].l = l
      BY <1>4, <2>2
    <3>2. i = j
      BY <1>1, <1>4, <3>1 DEF OneWb
    <3> QED
      BY <2>2, <3>2
  <2> QED
    BY <1>2, <2>1, <2>2 DEF Performs
<1>5. ASSUME NEW j \in DOMAIN l2', NEW k \in DOMAIN l2', l2'[j].wb, l2'[k].wb, l2'[j].l = l2'[k].l
      PROVE  j = k
  <2>1. PICK l : l = l2'[j].l /\ l = l2'[k].l
    BY <1>5
  <2>2. \/ j = m /\ n_mem_req(f) = <<l2'[j]>>
        \/ \E i \in DOMAIN l2 : i # a /\ j = Shift(a, i) /\ l2'[j] = l2[i]
    BY <1>2 DEF Performs
  <2>3. \/ k = m /\ n_mem_req(f) = <<l2'[k]>>
        \/ \E i \in DOMAIN l2 : i # a /\ k = Shift(a, i) /\ l2'[k] = l2[i]
    BY <1>2 DEF Performs
  <2>4. CASE j = m /\ k = m
    BY <2>4
  <2>5. ASSUME NEW i \in DOMAIN l2, i # a, j = Shift(a, i), l2'[j] = l2[i] PROVE j = k
    BY <1>4, <1>5, <2>1, <2>5
  <2>6. ASSUME NEW i \in DOMAIN l2, i # a, k = Shift(a, i), l2'[k] = l2[i] PROVE j = k
    BY <1>4, <1>5, <2>1, <2>6
  <2> QED
    BY <2>2, <2>3, <2>4, <2>5, <2>6
<1>6. ASSUME NEW j \in DOMAIN l2', NEW k \in DOMAIN eb', l2'[j].wb PROVE l2'[j].l # eb'[k].l
  <2>1. PICK e : e = eb' /\ e = f.evict
    BY EchoEdge
  <2>2. f.evict # <<>> /\ New(f)
    BY <2>1 DEF New
  <2>3. e = <<[l |-> p1.out.l, w |-> p1.out.w]>> /\ n_mem_req(f) = <<>> /\ ~Leaves(p1.out.l)
    BY <1>1, <2>1, <2>2, Evicted
  <2>4. e[k].l = p1.out.l
    BY <2>1, <2>3
  <2>5. n_mem_req(f) # <<l2'[j]>>
    BY <2>3
  <2>6. PICK i \in DOMAIN l2 : l2'[j] = l2[i]
    BY <1>2, <2>5 DEF Performs
  <2>7. l2[i].wb /\ l2[i].l # p1.out.l
    BY <1>6, <2>3, <2>6 DEF Leaves
  <2> QED
    BY <2>1, <2>4, <2>6, <2>7
<1>7. ASSUME NEW l \in LINES, Leaves(l)', Cached(l)'
      PROVE  f.st = "FLUSH_CL_WAIT" /\ l = probe'
  <2>1. Leaves(l) \/ (New(f) /\ l = p1.out.l)
    BY <1>1, <1>7, LeavesEdge
  <2>2. PICK i \in IDX : i = PIdx[l]
    BY Sizes
  <2>3. cache'[i].v /\ cache'[i].l = l
    BY <1>7, <2>2 DEF Cached
  <2>4. CASE New(f) /\ l = p1.out.l
    <3>1. ~Fill(i) /\ i = p1.idx
      BY <1>1, <2>2, <2>4, Evicted
    <3>2. i # f.inval
      BY <1>1, <2>3, <3>1, SetEdge
    <3>3. f.evict = <<>>
      BY <1>1, <2>4, <3>1, <3>2, Evicted
    <3>4. f.st = "FLUSH_CL_WAIT" /\ l = probe
      BY <1>1, <2>4, <3>3, Evicted
    <3> QED
      BY <3>4, ProbeStays DEF ProbeSt
  <2>5. CASE Leaves(l)
    <3>1. CASE Fill(i)
      <4>1. l = mem_rsp.l /\ ~mem_rsp.wb /\ mem_rsp_valid
        BY <1>1, <2>3, <3>1, SetEdge
      <4>2. l2q # <<>> /\ mem_rsp = l2q[1] /\ 1 \in DOMAIN l2q
        BY <1>1, <4>1 DEF mem_rsp_valid, mem_rsp
      <4> QED
        BY <1>1, <2>5, <4>1, <4>2 DEF ReadsLast
    <3>2. CASE ~Fill(i)
      <4>1. cache[i].v /\ cache[i].l = l
        BY <1>1, <2>3, <3>2, SetEdge
      <4>2. In("FLUSH_CL_WAIT") /\ l = probe
        BY <1>1, <2>2, <2>5, <4>1 DEF OneWb, Cached
      <4>3. eb = <<>>
        BY <1>1, <4>2 DEF IInv, Probes1, Probing, In
      <4>4. l2 # <<>>
        BY <2>5, <4>3, NoLeaver
      <4>5. f.st = "FLUSH_CL_WAIT"
        BY <4>2, <4>4, WaitGoesOn
      <4> QED
        BY <4>2, <4>5, ProbeStays DEF ProbeSt
    <3> QED
      BY <3>1, <3>2
  <2> QED
    BY <2>1, <2>4, <2>5
<1>8. r_state' = f.st
  BY Port1Edge
<1> QED
  BY <1>5, <1>6, <1>7, <1>8 DEF OneWb, In

LEMMA ReadsLastStep == ASSUME NEW f, Step(f), DInv PROVE ReadsLast'
<1>1. /\ IInv /\ Home /\ Looks /\ OneWb /\ ReadsLast /\ l2 \in Seq(Request) /\ l2q \in Seq(Request)
      /\ mem \in [LINES -> [WORDS -> Value]]
  BY DEF Step, DInv, IInv, Types, TypeOK
<1>2. PICK a \in Int, m \in Int : Performs(f, a, m)
  BY Performed
<1>3. PICK u \in Nat : DOMAIN l2 = 1 .. u
  BY <1>1
(* Nothing that leaves is being read. *)
<1>4. ASSUME NEW r, Known(r), ~r.wb PROVE ~(New(f) /\ r.l = p1.out.l)
  BY <1>1, <1>4, FetchesClean, Evicted
<1>5. /\ \A i \in DOMAIN l2 : ~l2[i].wb => ~(New(f) /\ l2[i].l = p1.out.l)
      /\ \A i \in DOMAIN l2q : ~l2q[i].wb => ~(New(f) /\ l2q[i].l = p1.out.l)
  BY <1>1, <1>4 DEF IInv, Fetches
<1>6. ASSUME NEW j \in DOMAIN l2', NEW k \in DOMAIN l2', ~l2'[j].wb, l2'[k].wb, l2'[k].l = l2'[j].l,
             j < k
      PROVE  FALSE
  <2>1. PICK l : l = l2'[j].l /\ l = l2'[k].l
    BY <1>6
  <2>2. \/ j = m /\ n_mem_req(f) = <<l2'[j]>>
        \/ \E i \in DOMAIN l2 : i # a /\ j = Shift(a, i) /\ l2'[j] = l2[i]
    BY <1>2 DEF Performs
  <2>3. \/ k = m /\ n_mem_req(f) = <<l2'[k]>>
        \/ \E i \in DOMAIN l2 : i # a /\ k = Shift(a, i) /\ l2'[k] = l2[i]
    BY <1>2 DEF Performs
  <2>4. \A i \in DOMAIN l2 : i # a => Shift(a, i) < m /\ Shift(a, i) \in Int
    BY <1>2, <1>3 DEF Performs, Shift
  <2>5. ~(j = m)
    <3>1. j = m => k = m \/ \E i \in DOMAIN l2 : i # a /\ k = Shift(a, i)
      BY <2>3
    <3> QED
      BY <1>2, <1>6, <2>4, <3>1
  <2>6. PICK i \in DOMAIN l2 : i # a /\ j = Shift(a, i) /\ l2'[j] = l2[i]
    BY <2>2, <2>5
  <2>7. ~l2[i].wb /\ l2[i].l = l
    BY <1>6, <2>1, <2>6
  <2>8. CASE n_mem_req(f) = <<l2'[k]>>
    <3>1. PICK r : r = l2'[k]
      OBVIOUS
    <3>2. n_mem_req(f) = <<r>> /\ r.wb /\ r.l = l
      BY <1>6, <2>1, <2>8, <3>1
    <3>3. ~(1 \in DOMAIN eb /\ eb[1].l = l)
      BY <1>1, <2>7 DEF ReadsLast
    <3>4. New(f) /\ p1.out.l = l
      BY <3>2, <3>3, Writes DEF New
    <3> QED
      BY <1>5, <2>7, <3>4
  <2>9. ASSUME NEW h \in DOMAIN l2, h # a, k = Shift(a, h), l2'[k] = l2[h] PROVE FALSE
    <3>1. l2[h].wb /\ l2[h].l = l
      BY <1>6, <2>1, <2>9
    <3>2. i < h
      BY <1>3, <1>6, <2>6, <2>9 DEF Shift
    <3> QED
      BY <1>1, <2>7, <3>1, <3>2 DEF ReadsLast
  <2> QED
    BY <2>3, <2>8, <2>9
<1>7. ASSUME NEW j \in DOMAIN l2', NEW k \in DOMAIN eb', ~l2'[j].wb PROVE eb'[k].l # l2'[j].l
  <2>1. PICK e : e = eb' /\ e = f.evict
    BY EchoEdge
  <2>2. f.evict # <<>> /\ New(f)
    BY <2>1 DEF New
  <2>3. e = <<[l |-> p1.out.l, w |-> p1.out.w]>> /\ n_mem_req(f) = <<>>
    BY <1>1, <2>1, <2>2, Evicted
  <2>4. e[k].l = p1.out.l
    BY <2>1, <2>3
  <2>5. n_mem_req(f) # <<l2'[j]>>
    BY <2>3
  <2>6. PICK i \in DOMAIN l2 : l2'[j] = l2[i]
    BY <1>2, <2>5 DEF Performs
  <2>7. ~l2[i].wb /\ l2[i].l # p1.out.l
    BY <1>5, <1>7, <2>2, <2>6
  <2> QED
    BY <2>1, <2>4, <2>6, <2>7
<1>8. ASSUME NEW k \in DOMAIN l2q', ~l2q'[k].wb, NEW l, l = l2q'[k].l
      PROVE  ~Leaves(l)' /\ l2q'[k].w = mem'[l]
  <2>1. ASSUME NEW i \in DOMAIN l2q, l2q'[k] = l2q[i] PROVE ~Leaves(l)' /\ l2q'[k].w = mem'[l]
    <3>1. ~l2q[i].wb /\ l2q[i].l = l /\ l2q'[k].w = l2q[i].w
      BY <1>8, <2>1
    <3>2. ~Leaves(l) /\ l2q[i].w = mem[l]
      BY <1>1, <3>1 DEF ReadsLast
    <3>3. ~Leaves(l)'
      BY <1>1, <1>5, <3>1, <3>2, LeavesEdge
    <3>4. ~Gone(a, l)
      BY <1>2, <3>2 DEF Gone, Leaves, Performs
    <3>5. mem'[l] = mem[l]
      BY <1>1, <1>2, <3>4, WbEdge
    <3> QED
      BY <3>1, <3>2, <3>3, <3>5
  <2>2. ASSUME a # 0, l2q'[k].wb = l2[a].wb, l2q'[k].l = l2[a].l, ~l2[a].wb => l2q'[k].w = mem[l2[a].l]
        PROVE  ~Leaves(l)' /\ l2q'[k].w = mem'[l]
    <3>1. ~l2[a].wb /\ l2[a].l = l /\ l2q'[k].w = mem[l] /\ a \in DOMAIN l2
      BY <1>2, <1>8, <2>2 DEF Performs
    <3>2. mem' = mem
      BY <1>2, <3>1 DEF Performs
    <3>3. ~Leaves(l)
      <4>1. ASSUME NEW i \in DOMAIN l2, l2[i].wb, l2[i].l = l PROVE FALSE
        <5>1. i # a /\ i \in Int /\ a \in Int
          BY <1>3, <3>1, <4>1
        <5>2. CASE i < a
          <6>1. i \in 1 .. a - 1
            BY <1>3, <5>1, <5>2
          <6> QED
            BY <1>2, <2>2, <3>1, <4>1, <6>1 DEF Performs
        <5>3. CASE a < i
          BY <1>1, <3>1, <4>1, <5>3 DEF ReadsLast
        <5> QED
          BY <5>1, <5>2, <5>3
      <4>2. ASSUME NEW i \in DOMAIN eb, eb[i].l = l PROVE FALSE
        BY <1>1, <3>1, <4>2 DEF ReadsLast
      <4> QED
        BY <4>1, <4>2 DEF Leaves
    <3>4. ~Leaves(l)'
      BY <1>1, <1>5, <3>1, <3>3, LeavesEdge
    <3> QED
      BY <3>1, <3>2, <3>4
  <2> QED
    BY <1>2, <2>1, <2>2 DEF Performs
<1>9. \A k \in DOMAIN l2q' : ~l2q'[k].wb =>
         \A l : l = l2q'[k].l => ~Leaves(l)' /\ l2q'[k].w = mem'[l]
  BY <1>8
<1>10. ASSUME NEW k \in DOMAIN l2q', ~l2q'[k].wb
       PROVE  ~Leaves(l2q[k].l)' /\ l2q'[k].w = mem'[l2q'[k].l]
  <2>1. PICK l : l = l2q'[k].l
    OBVIOUS
  <2>2. ~Leaves(l)' /\ l2q'[k].w = mem'[l]
    BY <1>9, <1>10, <2>1
  <2> QED
    BY <2>1, <2>2 DEF Leaves
<1> QED
  BY <1>6, <1>7, <1>10 DEF ReadsLast

LEMMA ProbeKeepsStep == ASSUME NEW f, Step(f), DInv PROVE ProbeKeeps'
<1>1. /\ IInv /\ Home /\ Looks /\ OneWb /\ ReadsLast /\ ProbeKeeps /\ ProbeNext(f) /\ Leaving(f) /\ Reasons(f)
      /\ r_state' = f.st /\ p1.idx \in IDX /\ HeldNext(f)
  BY Port1Edge, Registers DEF Step, DInv, IInv, Controls
<1>2. ASSUME f.st = "FLUSH_CL", NEW l \in LINES PROVE ~Leaves(l)'
  <2>1. w_queues_drained /\ (In("TLB_RELOAD") \/ In("ACTIVE"))
    BY <1>1, <1>2 DEF ProbeNext
  <2>2. ~Leaves(l)
    BY <1>1, <2>1, NoAnswers, NoLeaver
  <2>3. ~New(f)
    BY <1>1, <1>2, <2>1 DEF New, Leaving, In
  <2> QED
    BY <1>1, <2>2, <2>3, LeavesEdge
<1>3. ASSUME f.st = "FLUSH_CL_WAIT"
      PROVE  /\ \A l \in LINES : Leaves(l)' => l = probe
             /\ cache'[PIdx[probe]] = cache[PIdx[probe]] /\ Cached(probe) /\ cache[PIdx[probe]].d
             /\ \A w : w = cache[PIdx[probe]].w => Behind(probe, w)'
             /\ probe' = probe
  <2>1. probe' = probe /\ probe \in LINES
    BY <1>3, ProbeStays DEF ProbeSt
  <2>2. PICK i, w, l : i = PIdx[probe] /\ i \in IDX /\ w = cache[i].w /\ l = probe
    BY <2>1, Sizes
  <2>3. In("FLUSH_CL") \/ In("FLUSH_CL_WAIT")
    BY <1>1, <1>3 DEF ProbeNext, Probing, In
  <2>4. /\ f.evict = <<>> /\ f.inval = None
    <3>1. In("FLUSH_CL") => w_flush_hit /\ p1.out.d
      BY <1>1, <1>3 DEF Reasons
    <3>2. In("FLUSH_CL_WAIT") => ~In("FLUSH_CL")
      BY DEF In
    <3> QED
      BY <1>1, <1>3, <2>3, <3>1, <3>2 DEF Leaving, In
  <2>5. Cached(probe) /\ cache[i].d
    <3>1. CASE In("FLUSH_CL")
      <4>1. New(f)
        BY <1>3, <3>1 DEF New
      <4>2. p1.out = cache[p1.idx] /\ p1.out.v /\ p1.out.d /\ p1.out.l = probe /\ p1.idx = PIdx[p1.out.l]
        BY <1>1, <2>4, <4>1, Evicted
      <4> QED
        BY <2>2, <4>2 DEF Cached
    <3>2. CASE In("FLUSH_CL_WAIT")
      BY <1>1, <2>2, <3>2 DEF ProbeKeeps
    <3> QED
      BY <2>3, <3>1, <3>2
  <2>6. cache'[i] = cache[i]
    <3>1. ~Store(i)
      BY <1>1, <2>3, Storing DEF Store, In
    <3>2. i # None
      BY <2>2, Sizes DEF IDX, None
    <3> QED
      BY <1>1, <2>2, <2>4, <2>5, <3>1, <3>2, SetEdge
  <2>7. ASSUME NEW q \in LINES, Leaves(q)' PROVE q = probe
    <3>1. Leaves(q) \/ (New(f) /\ q = p1.out.l)
      BY <1>1, <2>7, LeavesEdge
    <3>2. New(f) => p1.out.l = probe
      BY <1>1, <2>4, Evicted
    <3>3. Leaves(q) => q = probe
      BY <1>1, <2>3 DEF ProbeKeeps
    <3> QED
      BY <3>1, <3>2, <3>3
  <2>8. Behind(l, w)'
    <3>1. CASE In("FLUSH_CL")
      <4>1. New(f)
        BY <1>3, <3>1 DEF New
      <4>2. p1.out = cache[p1.idx] /\ p1.out.l = l /\ p1.idx = i
        BY <1>1, <2>2, <2>4, <4>1, Evicted
      <4>3. p1.out.w = w
        BY <2>2, <4>2
      <4>4. PICK a \in Int, m \in Int : Performs(f, a, m)
        BY Performed
      <4>5. Wb(l, w)'
        BY <1>1, <4>1, <4>2, <4>3, <4>4, WbEdge
      <4> QED
        BY <4>5 DEF Behind
    <3>2. CASE In("FLUSH_CL_WAIT")
      <4>1. Behind(l, w)
        BY <1>1, <2>2, <3>2 DEF ProbeKeeps
      <4>2. ~New(f)
        BY <2>4, <3>2 DEF New, In
      <4> QED
        BY <1>1, <2>1, <2>2, <4>1, <4>2, BehindStays
    <3> QED
      BY <2>3, <3>1, <3>2
  <2>9. \A x : x = cache[PIdx[probe]].w => Behind(probe, x)'
    <3>1. ASSUME NEW x, x = cache[PIdx[probe]].w PROVE Behind(probe, x)'
      <4>1. x = w
        BY <2>2, <3>1
      <4> QED
        BY <2>1, <2>2, <2>8, <4>1 DEF Behind, Wb, Leaves
    <3> QED
      BY <3>1
  <2> QED
    BY <2>1, <2>2, <2>5, <2>6, <2>7, <2>9
<1>4. In("FLUSH_CL")' => \A l \in LINES : ~Leaves(l)'
  BY <1>1, <1>2 DEF In
<1>5. In("FLUSH_CL_WAIT")' =>
       /\ \A l \in LINES : Leaves(l)' => l = probe'
       /\ Cached(probe)' /\ cache'[PIdx[probe']].d /\ Behind(probe, cache[PIdx[probe]].w)'
  <2> SUFFICES ASSUME f.st = "FLUSH_CL_WAIT"
               PROVE /\ \A l \in LINES : Leaves(l)' => l = probe'
                     /\ Cached(probe)' /\ cache'[PIdx[probe']].d /\ Behind(probe, cache[PIdx[probe]].w)'
    BY <1>1 DEF In
  <2>1. Cached(probe)' /\ cache'[PIdx[probe']].d
    BY <1>3 DEF Cached
  <2>2. PICK w : w = cache[PIdx[probe]].w
    OBVIOUS
  <2>3. Behind(probe, w)' /\ w = cache'[PIdx[probe']].w
    BY <1>3, <2>2
  <2>4. Behind(probe, cache[PIdx[probe]].w)'
    BY <2>3 DEF Behind, Wb
  <2> QED
    BY <1>3, <2>1, <2>4
<1> QED
  BY <1>4, <1>5 DEF ProbeKeeps

LEMMA InitDInv == ASSUME Init PROVE DInv
<1>1. /\ cache = [i \in IDX |-> Unread] /\ r_state = "ACTIVE" /\ l2 = <<>> /\ l2q = <<>> /\ eb = <<>>
  BY DEF Init
<1>2. \A i \in IDX : ~cache[i].v /\ ~cache[i].d
  BY <1>1 DEF Unread
<1>3. \A l : ~Leaves(l)
  BY <1>1, NoLeaver
<1> QED
  BY <1>1, <1>2, <1>3 DEF DInv, Home, Looks, Copies, OneWb, ReadsLast, ProbeKeeps, In

LEMMA NextDInv == IInv /\ DInv /\ [Next]_vars => DInv'
<1> SUFFICES ASSUME IInv, DInv, [Next]_vars PROVE DInv'
  OBVIOUS
<1>1. CASE Next
  <2>1. PICK f : Step(f)
    BY <1>1, NextStep
  <2> QED
    BY <2>1, HomeStep, LooksStep, CopiesStep, OneWbStep, ReadsLastStep, ProbeKeepsStep DEF DInv
<1>2. CASE UNCHANGED vars
  <2>1. UNCHANGED <<cache, r_state, p1, eb, probe, l2, l2q, mem>>
    BY <1>2 DEF vars, core, front, queue, back
  <2>2. Home' /\ Looks'
    BY <2>1 DEF DInv, Home, Looks, In
  <2>3. Copies'
    BY <2>1 DEF DInv, Copies, Behind, Wb, Leaves
  <2>4. OneWb' /\ ReadsLast'
    BY <2>1 DEF DInv, OneWb, ReadsLast, Leaves, Cached, In
  <2>5. ProbeKeeps'
    BY <2>1 DEF DInv, ProbeKeeps, Leaves, Wb, Behind, Cached, In
  <2> QED
    BY <2>2, <2>3, <2>4, <2>5 DEF DInv
<1> QED
  BY <1>1, <1>2

LEMMA DInvariance == Spec => [](IInv /\ DInv)
<1>1. Init => IInv /\ DInv
  BY InitIInv, InitDInv
<1>2. IInv /\ DInv /\ [Next]_vars => (IInv /\ DInv)'
  BY NextIInv, NextDInv
<1> QED
  BY <1>1, <1>2, PTL DEF Spec

LEMMA ProbeAnswered ==
  ASSUME NEW f, Step(f), DInv, ProbeAck PROVE mem[probe] = View(probe)
<1>1. /\ IInv /\ Home /\ Looks /\ OneWb /\ Copies /\ ProbeKeeps /\ ProbeNext(f) /\ Probes(f) /\ Reasons(f)
  BY DEF Step, DInv, Controls, Edge
<1>2. f.ack /\ Probing /\ probe \in LINES
  <2>1. probe # NoLine /\ probe' # probe
    BY DEF ProbeAck
  <2> QED
    BY <1>1, <2>1 DEF Probes, ProbeNext, IInv, Probes1
<1>3. f.st # "FLUSH_CL_WAIT"
  BY <1>1, <1>2 DEF ProbeNext
<1>4. PICK i \in IDX : i = PIdx[probe]
  BY <1>2, Sizes
<1>5. ~Leaves(probe)
  <2>1. CASE In("FLUSH_CL")
    BY <1>1, <1>2, <2>1 DEF ProbeKeeps
  <2>2. CASE In("FLUSH_CL_WAIT")
    <3>1. w_queues_drained
      BY <1>1, <1>2, <2>2 DEF ProbeNext
    <3> QED
      BY <1>1, <3>1, NoAnswers, NoLeaver
  <2> QED
    BY <1>2, <2>1, <2>2 DEF Probing, In
<1>6. Cached(probe) => Behind(probe, cache[i].w)
  <2>1. CASE In("FLUSH_CL") /\ Cached(probe)
    <3>1. p1.out = cache[i]
      BY <1>1, <1>4, <2>1 DEF Looks
    <3>2. w_flush_hit /\ cache[i].v /\ cache[i].l = probe
      BY <1>4, <2>1, <3>1 DEF Cached, w_flush_hit
    <3>3. ~cache[i].d
      BY <1>1, <1>3, <2>1, <3>1, <3>2 DEF Reasons
    <3> QED
      BY <1>1, <3>2, <3>3 DEF Copies
  <2>2. CASE In("FLUSH_CL_WAIT")
    BY <1>1, <1>4, <2>2 DEF ProbeKeeps
  <2> QED
    BY <1>2, <2>1, <2>2 DEF Probing, In
<1>7. \A w : Behind(probe, w) => w = mem[probe]
  BY <1>5, Leaving1 DEF Behind
<1>8. Behind(probe, mem[probe])
  BY <1>5 DEF Behind
<1>9. Holds(probe, mem[probe])
  BY <1>4, <1>6, <1>7, <1>8 DEF Holds
<1> QED
  BY <1>1, <1>2, <1>9, ViewIs

(* When a probe is acknowledged the L2 holds the line as the core left it  *)
(* (l2_probe_ack, the states FLUSH_CL and FLUSH_CL_WAIT).                  *)
THEOREM ProbesAnswered == Spec => ProbedIsInL2
<1>1. IInv /\ DInv /\ [Next]_vars => [ProbeAck => mem[probe] = View(probe)]_vars
  <2> SUFFICES ASSUME IInv, DInv, Next, ProbeAck PROVE mem[probe] = View(probe)
    OBVIOUS
  <2> QED
    BY NextStep, ProbeAnswered
<1> QED
  BY <1>1, DInvariance, PTL DEF Spec, ProbedIsInL2
-----------------------------------------------------------------------------
(* Which stores are written, and when.  First what retirement says: what   *)
(* is squashed is behind base, what faulted is squashed, and a program     *)
(* that drains has no serializing operation left that would count.         *)
Squashed ==
  /\ \A q \in dead : q <= base
  /\ \A q \in Pos : q <= ret /\ Faults(q) => q \in dead
Halts ==
  /\ mode # "run" => \A q \in Pos : ret < q /\ q <= sent /\ Kind(q) \in Serial
                                      => q \in done /\ Faults(q)
  /\ mode = "drain" => pulse = {}
Pulses == \A q \in pulse : q \in Pos /\ base < q /\ q <= ret /\ sent - q < NROB

(* Nothing that faults is queued: a walk that faulted makes it a MEM_NOP.  *)
Again == In("TLB_TURNAROUND") \/ (p2.got /\ r_pending_tlb_miss)
Nops ==
  /\ Busy2 /\ p2.nop => prog[p2.p].t = "fault"
  /\ Again /\ prog[p2.p].t = "fault" => p2.nop
Unfaulted ==
  /\ \A i \in DOMAIN mq : ~Faults(mq[i])
  /\ Busy1 => ~Faults(p1.p)

(* A queued store's bits say whether it has retired, and port 1 has none   *)
(* that has not.                                                           *)
Graduates ==
  /\ \A i \in DOMAIN mq : IsStore(mq[i]) =>
       /\ r_graduated[Slot(mq[i])] # 0
       /\ r_graduated[Slot(mq[i])] = 2 => mq[i] <= ret
       /\ mq[i] <= ret /\ mq[i] \notin pulse => r_graduated[Slot(mq[i])] = 2
  /\ Busy1 /\ IsStore(p1.p) => p1.p <= ret

(* Nothing waits that is older than the last store.                        *)
Later ==
  /\ last \in 0 .. N /\ last <= sent
  /\ last <= ret \/ (last = ret + 1 /\ last \in done /\ ~Faults(last) /\ mode = "run")
  /\ last \notin dead
  /\ \A i \in DOMAIN mq : last < mq[i]
  /\ Busy1 => last < p1.p

(* A store that counts and is not written waits, on port 1 or before it.   *)
Waits1(q) == Busy1 /\ p1.p = q
Waits2(q) == Busy2 /\ p2.p = q
Queues(q) == \E i \in DOMAIN mq : mq[i] = q
Ahead(q)  == Queues(q) \/ Waits2(q) \/ (req = q /\ req # 0)
Counts(q) == q \notin dead /\ DM!Stores(q) /\ ~Faults(q)
Kept == \A q \in Pos : last < q /\ q <= sent /\ Counts(q) /\ (mode = "run" \/ q <= ret)
                        => Waits1(q) \/ Ahead(q)

(* The link register is the line of the last load-linked that counts.      *)
LinkNow == IF Kind(p1.p) = "ll" THEN Line(p1.p) ELSE r_link_reg
Linkers(q) == /\ q \in Pos /\ q <= sent /\ Kind(q) = "ll" /\ q \notin dead /\ ~Faults(q)
              /\ ~Ahead(q)
Link == \/ LinkNow = NoLine /\ \A q \in Pos : ~Linkers(q)
        \/ \E q \in Pos : Linkers(q) /\ LinkNow = Line(q) /\ \A r \in Pos : Linkers(r) => r <= q
SInv == /\ Squashed /\ Halts /\ Pulses /\ Nops /\ Unfaulted /\ Graduates /\ Later
        /\ Kept /\ Link

-----------------------------------------------------------------------------
(* What the core does in a step: nothing to the window, or it retires one  *)
(* or two, or stops at a fault, or restarts with nothing in the cache.     *)
Rests ==
  /\ ret' = ret /\ base' = base /\ dead' = dead /\ pulse' = {}
  /\ mode' = IF mode = "run" THEN "run" ELSE "drain"
Graduated ==
  /\ mode = "run" /\ base' = base /\ dead' = dead /\ ret < ret' /\ ret + 1 <= ret'
  /\ mode' = "ds" => Restarts(ret + 1) /\ ret' = ret + 1
  /\ mode' \in {"run", "ds"}
  /\ \A q : q \in pulse' <=> q \in ret + 1 .. ret'
  /\ \A q \in ret + 1 .. ret' : Retires(q)
StopsAtFault ==
  /\ ret' = ret /\ base' = base /\ dead' = dead /\ pulse' = {} /\ mode' = "ds"
  /\ mode = "run" /\ ret < sent /\ ret + 1 \in done /\ Faults(ret + 1)
StartsAgain ==
  /\ mode = "drain" /\ mode' = "run" /\ ret' = sent /\ base' = sent /\ pulse' = {}
  /\ dead' = dead \cup (ret + 1 .. sent) /\ sent' = sent
  /\ mq = <<>> /\ ~Busy1 /\ ~Busy2 /\ req = 0 /\ base + 1 .. sent \subseteq done
  /\ mq' = <<>> /\ ~Busy1' /\ ~Busy2' /\ req' = 0

LEMMA CoreStep ==
  ASSUME NEW f, Step(f)
  PROVE  Rests \/ Graduated \/ StopsAtFault \/ StartsAgain
<1>1. Retiring(f) /\ IInv /\ ret \in Int /\ sent \in Int
  BY Registers DEF Step, Edge, IInv
<1>2. CASE UNCHANGED <<ret, base, dead>> /\ pulse' = {}
           /\ mode' = IF mode = "run" THEN "run" ELSE "drain"
  BY <1>2 DEF Rests
<1>3. ASSUME NEW n \in {1, 2}, mode = "run", \A i \in 1 .. n : Retires(ret + i),
             ret' = ret + n, pulse' = {ret + i : i \in 1 .. n},
             mode' = IF n = 1 /\ Restarts(ret + 1) THEN "ds" ELSE "run",
             UNCHANGED <<base, dead>>
      PROVE  Graduated
  <2>1. \A q : q \in ret + 1 .. ret + n <=> \E i \in 1 .. n : q = ret + i
    <3>1. ASSUME NEW q \in ret + 1 .. ret + n PROVE \E i \in 1 .. n : q = ret + i
      <4>1. q - ret \in 1 .. n /\ q = ret + (q - ret)
        BY <1>1
      <4> QED
        BY <4>1
    <3>2. \A i \in 1 .. n : ret + i \in ret + 1 .. ret + n
      BY <1>1
    <3> QED
      BY <3>1, <3>2
  <2>2. \A q : q \in pulse' <=> q \in ret + 1 .. ret'
    BY <1>3, <2>1
  <2>3. \A q \in ret + 1 .. ret' : Retires(q)
    BY <1>3, <2>1
  <2>4. ret < ret + n /\ ret + 1 <= ret + n
    BY <1>1
  <2> QED
    BY <1>3, <2>2, <2>3, <2>4 DEF Graduated
<1>4. CASE /\ mode = "run" /\ ret < sent /\ ret + 1 \in done /\ Faults(ret + 1)
           /\ mode' = "ds" /\ pulse' = {} /\ UNCHANGED <<ret, base, dead>>
  BY <1>4 DEF StopsAtFault
<1>5. CASE /\ mode = "drain" /\ memq_empty(f)
           /\ mode' = "run" /\ ret' = sent /\ base' = sent /\ pulse' = {}
           /\ dead' = dead \cup (ret + 1 .. sent)
  <2>1. mq = <<>> /\ ~Busy1 /\ ~Busy2 /\ req = 0 /\ base + 1 .. sent \subseteq done
    BY <1>1, <1>5, Emptied
  <2>2. sent' = sent /\ req' = 0
    <3>1. ~MayRun(sent + 1)
      BY <1>5 DEF MayRun
    <3>2. sent' = sent
      BY <3>1, CoreEdge
    <3>3. sent # sent + 1
      BY <1>1
    <3> QED
      BY <2>1, <3>2, <3>3, CoreEdge
  <2>3. ~Busy1'
    BY <2>1, Move1
  <2>4. ~Busy2'
    BY <2>1, Move2
  <2>5. mq' = <<>>
    <3>1. ~p2.got /\ ~f.pop
      BY <2>1, MoveQ DEF Busy2
    <3>2. ~t_push_miss
      BY <3>1, MoveQ
    <3> QED
      BY <1>1, <2>1, <3>1, <3>2 DEF Step, Edge, Queue, n_mq
  <2> QED
    BY <1>5, <2>1, <2>2, <2>3, <2>4, <2>5 DEF StartsAgain
<1> QED
  <2>1. \/ UNCHANGED <<ret, base, dead>> /\ pulse' = {}
           /\ mode' = IF mode = "run" THEN "run" ELSE "drain"
        \/ \E n \in {1, 2} :
              /\ mode = "run" /\ \A i \in 1 .. n : Retires(ret + i)
              /\ ret' = ret + n /\ pulse' = {ret + i : i \in 1 .. n}
              /\ mode' = IF n = 1 /\ Restarts(ret + 1) THEN "ds" ELSE "run"
              /\ UNCHANGED <<base, dead>>
        \/ /\ mode = "run" /\ ret < sent /\ ret + 1 \in done /\ Faults(ret + 1)
           /\ mode' = "ds" /\ pulse' = {} /\ UNCHANGED <<ret, base, dead>>
        \/ /\ mode = "drain" /\ memq_empty(f)
           /\ mode' = "run" /\ ret' = sent /\ base' = sent /\ pulse' = {}
           /\ dead' = dead \cup (ret + 1 .. sent)
    BY <1>1 DEF Retiring
  <2> QED
    BY <1>2, <1>3, <1>4, <1>5, <2>1

(* The program does not change, and what of an instruction follows from it.*)
LEMMA SameProgram ==
  ASSUME NEW f, Step(f), NEW q
  PROVE  /\ prog' = prog /\ Kind(q)' = Kind(q) /\ Line(q)' = Line(q) /\ Faults(q)' = Faults(q)
         /\ IsStore(q)' = IsStore(q) /\ VIdx(q)' = VIdx(q)
  BY CoreEdge DEF Kind, Line, Faults, IsStore, VIdx

(* Requests before port 1 stay until the queue's head is taken or port 2   *)
(* answers one; only the core adds one.                                    *)
LEMMA StaysAhead ==
  ASSUME NEW f, Step(f), NEW q, Ahead(q)
  PROVE  \/ Ahead(q)'
         \/ f.pop /\ q = Head(mq)
         \/ Waits2(q) /\ p2.got /\ Answer2 /\ ~t_push_miss
<1>1. IInv /\ mq \in Seq(Pos) /\ r_pending_tlb_miss \in BOOLEAN /\ p2.got \in BOOLEAN
  BY Registers DEF Step, IInv, Types
<1>2. f.replay => r_pending_tlb_miss /\ ~p2.got
  BY <1>1 DEF Step, Controls, WalkNext, IInv, Port2Inv, Walking, In
<1>3. t_accept(f) => req # 0 /\ ~n_pending_tlb_miss /\ ~r_pending_tlb_miss
  BY DEF t_accept, t_new_req
<1>4. CASE Queues(q)
  <2>1. PICK i \in DOMAIN mq : mq[i] = q
    BY <1>4 DEF Queues
  <2>2. CASE f.pop /\ i = 1
    BY <1>1, <2>1, <2>2, MoveQ
  <2>3. CASE ~(f.pop /\ i = 1)
    <3>1. PICK n \in Nat, m \in Nat, d \in 0 .. 1 : n = Len(mq) /\ m = Len(mq') /\ d = Popped(f)
      <4>1. Len(mq') \in Nat /\ Len(mq) \in Nat
        BY <1>1, MoveQ
      <4> QED
        BY <4>1, MoveQ
    <3>2. i \in 1 .. n /\ DOMAIN mq' = 1 .. m /\ d <= n /\ m >= n - d
      BY <1>1, <2>1, <3>1, MoveQ
    <3>3. i - d \in 1 .. n - d /\ i - d \in 1 .. m /\ i - d + d = i
      <4>1. i > d
        BY <2>3, <3>1, <3>2 DEF Popped
      <4> QED
        BY <3>1, <3>2, <4>1
    <3>4. mq'[i - d] = mq[i - d + d]
      BY <3>1, <3>3, MoveQ
    <3> QED
      BY <2>1, <3>2, <3>3, <3>4 DEF Ahead, Queues
  <2> QED
    BY <2>2, <2>3
<1>5. CASE Waits2(q)
  <2>1. p2.p = q /\ Busy2
    BY <1>5 DEF Waits2
  <2>2. p2.got => TlbMiss2 \/ t_push_miss \/ Answer2
    BY DEF TlbMiss2, t_push_miss, Answer2, Access2, Ready2, Prefetch2, Nop2, Live2, Fault2,
           t_incr_busy, ReadHit2, drain_ds_complete
  <2>3. CASE t_push_miss
    <3>1. PICK k : k = Len(mq) - Popped(f) + 1
      OBVIOUS
    <3>2. mq'[k] = q
      BY <2>1, <2>3, <3>1, MoveQ
    <3>3. k \in DOMAIN mq'
      <4>1. Len(mq') = k /\ k \in Nat \ {0} /\ mq' \in Seq(Pos)
        BY <2>3, <3>1, MoveQ
      <4> QED
        BY <4>1
    <3> QED
      BY <3>2, <3>3 DEF Ahead, Queues
  <2>4. CASE p2.got /\ TlbMiss2
    <3>1. n_pending_tlb_miss
      BY <2>4 DEF n_pending_tlb_miss
    <3>2. r_pending_tlb_miss' /\ p2'.p = p2.p
      BY <1>2, <1>3, <2>4, <3>1, Port2Edge
    <3> QED
      BY <2>1, <3>2 DEF Ahead, Waits2, Busy2
  <2>5. CASE ~p2.got
    <3>1. r_pending_tlb_miss /\ n_pending_tlb_miss
      BY <2>1, <2>5 DEF Busy2, n_pending_tlb_miss
    <3>2. r_pending_tlb_miss' /\ p2'.p = p2.p
      BY <1>3, <3>1, Port2Edge
    <3> QED
      BY <2>1, <3>2 DEF Ahead, Waits2, Busy2
  <2> QED
    BY <1>5, <2>2, <2>3, <2>4, <2>5
<1>6. CASE req = q /\ req # 0
  <2>1. CASE t_accept(f)
    <3>1. p2'.p = q /\ p2'.got
      BY <1>2, <1>3, <1>6, <2>1, Port2Edge
    <3> QED
      BY <3>1 DEF Ahead, Waits2, Busy2
  <2>2. CASE ~t_accept(f)
    <3>1. req' = q
      BY <1>6, <2>2 DEF Step, Edge, Sending
    <3> QED
      BY <1>6, <3>1 DEF Ahead
  <2> QED
    BY <2>1, <2>2
<1> QED
  BY <1>4, <1>5, <1>6 DEF Ahead

LEMMA CameAhead ==
  ASSUME NEW f, Step(f), NEW q, Ahead(q)'
  PROVE  /\ Ahead(q) \/ (q = sent + 1 /\ sent' = sent + 1)
         /\ f.pop => q # Head(mq)
<1>1. /\ IInv /\ mq \in Seq(Pos) /\ Ordered /\ Pos \subseteq Int /\ sent \in Int
      /\ \A i \in DOMAIN mq : mq[i] \in Pos /\ mq[i] <= sent
  BY Registers, Positions, Live DEF Step, IInv, Types
<1>2. f.pop => mq # <<>>
  BY MoveQ
<1>3. ASSUME f.pop PROVE 1 \in DOMAIN mq /\ Head(mq) = mq[1] /\ mq[1] \in Int
  <2>1. \A s \in Seq(Pos) : s # <<>> => 1 \in DOMAIN s /\ Head(s) = s[1] /\ s[1] \in Pos
    OBVIOUS
  <2> QED
    BY <1>1, <1>2, <1>3, <2>1
<1>4. CASE Queues(q)'
  <2>1. PICK i \in DOMAIN mq' : mq'[i] = q
    BY <1>4 DEF Queues
  <2>2. CASE i + Popped(f) \in DOMAIN mq /\ mq'[i] = mq[i + Popped(f)]
    <3>1. Queues(q)
      BY <2>1, <2>2 DEF Queues
    <3>2. ASSUME f.pop PROVE mq[1] < q
      <4>1. i \in Nat \ {0} /\ Popped(f) = 1
        BY <3>2, OldOrNew DEF Popped
      <4>2. 1 < i + 1 /\ i + 1 \in DOMAIN mq /\ mq[i + 1] = q
        BY <2>1, <2>2, <4>1
      <4> QED
        BY <1>1, <1>3, <3>2, <4>2 DEF Ordered
    <3>3. q \in Int
      BY <1>1, <2>1, OldOrNew
    <3> QED
      BY <1>3, <3>1, <3>2, <3>3 DEF Ahead
  <2>3. CASE t_push_miss /\ p2.got /\ mq'[i] = p2.p
    <3>1. Busy2 /\ p2.p = q
      BY <2>1, <2>3 DEF Busy2
    <3>2. f.pop => mq[1] < q
      BY <1>1, <1>3, <3>1 DEF Ordered
    <3>3. q \in Int
      BY <1>1, <2>1, OldOrNew
    <3> QED
      BY <1>3, <3>1, <3>2, <3>3 DEF Ahead, Waits2
  <2> QED
    BY <2>1, <2>2, <2>3, OldOrNew
<1>5. CASE Waits2(q)'
  <2>1. Busy2' /\ p2'.p = q
    BY <1>5 DEF Waits2
  <2>2. \/ p2.p = q /\ Busy2
        \/ req # 0 /\ req = q
    BY <2>1, Move2
  <2>3. q \in Int
    BY <1>1, <2>2, Live
  <2>4. f.pop => mq[1] < q
    BY <1>1, <1>3, <2>2 DEF Ordered
  <2> QED
    BY <1>3, <2>2, <2>3, <2>4 DEF Ahead, Waits2
<1>6. CASE req' = q /\ req' # 0
  <2>1. (req = q /\ req # 0) \/ (q = sent + 1 /\ sent' = sent + 1)
    BY <1>6, CoreEdge
  <2>2. CASE req = q /\ req # 0
    <3>1. q \in Int
      BY <1>1, <2>2, Live
    <3>2. f.pop => mq[1] < q
      BY <1>1, <1>3, <2>2 DEF Ordered
    <3> QED
      BY <1>3, <2>2, <3>1, <3>2 DEF Ahead
  <2>3. CASE q = sent + 1 /\ sent' = sent + 1
    <3>1. f.pop => mq[1] <= sent
      BY <1>1, <1>3
    <3> QED
      BY <1>1, <1>3, <2>3, <3>1
  <2> QED
    BY <2>1, <2>2, <2>3
<1> QED
  BY <1>4, <1>5, <1>6 DEF Ahead

(* Port 1 keeps its request until it hits, and gets the queue's head.      *)
LEMMA StaysOn1 ==
  ASSUME NEW f, Step(f)
  PROVE  /\ Busy1 /\ ~w_got_hit => Busy1' /\ p1'.p = p1.p
         /\ f.pop /\ ~f.clear => Busy1' /\ p1'.p = Head(mq)
         /\ w_got_hit => Busy1 /\ p1.got /\ (Busy1' => f.pop)
         /\ Busy1' => IF f.pop THEN p1'.p = Head(mq) /\ ~f.clear ELSE p1'.p = p1.p /\ Busy1
<1>1. /\ IInv /\ HeldNext(f) /\ Port1Next(f) /\ p1.got \in BOOLEAN
      /\ f.go \in BOOLEAN /\ f.pop \in BOOLEAN /\ f.clear \in BOOLEAN
  BY Registers DEF Step, Controls, IInv, Typed
<1>2. Busy1' <=> f.go \/ f.st \in HeldSt
  BY Port1Edge DEF Busy1, Held, HeldSt
<1>3. ASSUME Busy1, ~w_got_hit PROVE Busy1'
  <2>1. CASE p1.got
    BY <1>1, <1>2, <1>3, <2>1 DEF HeldNext, HeldSt
  <2>2. CASE ~p1.got
    BY <1>1, <1>2, <1>3, <2>2 DEF HeldNext, HeldSt, Busy1, Held, In
  <2> QED
    BY <1>1, <2>1, <2>2
<1>4. ASSUME Busy1, ~w_got_hit, f.pop PROVE FALSE
  <2>1. In("ACTIVE") /\ w_hit_or_idle
    BY <1>1, <1>4 DEF Port1Next, CanIssue
  <2> QED
    BY <1>4, <2>1 DEF Busy1, Held, In, w_hit_or_idle, w_got_hit
<1>5. f.pop /\ f.st \in HeldSt => FALSE
  BY <1>1 DEF Port1Next, HeldSt
<1>6. f.pop => (f.clear <=> ~f.go)
  BY <1>1 DEF Port1Next
<1>7. w_got_hit => Busy1 /\ p1.got
  BY DEF w_got_hit, Busy1
<1> QED
  BY <1>1, <1>2, <1>3, <1>4, <1>5, <1>6, <1>7, Move1

-----------------------------------------------------------------------------
(* SInv is preserved.                                                      *)
LEMMA Window1 ==
  ASSUME NEW f, Step(f)
  PROVE  /\ ret \in Int /\ sent \in Int /\ base \in Int /\ ret' \in Int /\ base' \in Int /\ sent' \in Int
         /\ base <= ret /\ ret <= sent /\ ret <= ret' /\ ret' <= sent /\ sent <= sent'
         /\ base <= base' /\ base' <= ret' /\ Pos \subseteq Int
  BY RetireEdge, CoreEdge, Registers, Positions DEF Step, IInv

LEMMA SquashedStep == ASSUME NEW f, Step(f), Squashed PROVE Squashed'
<1>1. /\ ret \in Int /\ sent \in Int /\ base \in Int /\ base <= ret /\ ret <= sent /\ Pos \subseteq Int
  BY Window1
<1>2. SUFFICES /\ \A q \in dead' : q <= base'
               /\ \A q \in Pos : q <= ret' /\ Faults(q) => q \in dead'
  BY SameProgram DEF Squashed
<1>3. CASE ret' = ret /\ base' = base /\ dead' = dead
  BY <1>3 DEF Squashed
<1>4. CASE Graduated
  <2>1. ret' \in Int
    BY Window1
  <2>2. \A q \in Pos : q <= ret' /\ ~(q <= ret) => q \in ret + 1 .. ret'
    BY <1>1, <2>1
  <2>3. \A q \in ret + 1 .. ret' : ~Faults(q)
    BY <1>4 DEF Graduated, Retires
  <2> QED
    BY <1>4, <2>2, <2>3 DEF Squashed, Graduated
<1>5. CASE StartsAgain
  <2>1. \A q \in dead : q <= sent
    <3>1. \A q \in Int : q <= base => q <= sent
      BY <1>1
    <3>2. dead \subseteq Pos
      BY DEF Step, IInv, Types, TypeOK
    <3> QED
      BY <1>1, <3>1, <3>2 DEF Squashed
  <2>2. \A q \in ret + 1 .. sent : q <= sent
    BY <1>1
  <2>3. \A q \in Pos : q <= sent /\ ~(q <= ret) => q \in ret + 1 .. sent
    BY <1>1
  <2> QED
    BY <1>5, <2>1, <2>2, <2>3 DEF StartsAgain, Squashed
<1> QED
  BY <1>3, <1>4, <1>5, CoreStep DEF Rests, StopsAtFault

LEMMA HaltsStep == ASSUME NEW f, Step(f), Halts PROVE Halts'
<1>1. /\ ret \in Int /\ sent \in Int /\ ret <= sent /\ Pos \subseteq Int /\ IInv
      /\ mode \in {"run", "ds", "drain"} /\ ret' \in Int /\ ret <= ret'
  BY Window1, Registers DEF Step, IInv
<1>2. SUFFICES /\ mode' # "run" => \A q \in Pos : ret' < q /\ q <= sent' /\ Kind(q) \in Serial
                                                   => q \in done' /\ Faults(q)
               /\ mode' = "drain" => pulse' = {}
  BY SameProgram DEF Halts
<1>3. \A q \in Pos, p \in Pos : /\ ret < q /\ q <= sent /\ Kind(q) \in Serial
                                /\ ret < p /\ p <= sent
                                => p = q
  BY <1>1 DEF IInv, Window
<1>4. sent' # sent => mode = "run" /\ sent' = sent + 1
                      /\ (Kind(sent + 1) \in Serial => ret = sent)
  BY CoreEdge DEF MayRun
<1>5. done \subseteq done'
  BY CoreEdge
<1>6. CASE Rests
  <2>1. mode' # "run" => mode # "run" /\ sent' = sent
    BY <1>4, <1>6 DEF Rests
  <2> QED
    BY <1>5, <1>6, <2>1 DEF Rests, Halts
<1>7. ASSUME mode' = "ds", mode = "run", ret < sent, ret + 1 \in done, pulse' = {} \/ TRUE,
             Faults(ret + 1) \/ ret' = ret + 1
      PROVE  \A q \in Pos : ret' < q /\ q <= sent' /\ Kind(q) \in Serial => q \in done' /\ Faults(q)
  <2> SUFFICES ASSUME NEW q \in Pos, ret' < q, q <= sent', Kind(q) \in Serial
               PROVE  q \in done' /\ Faults(q)
    OBVIOUS
  <2>1. q <= sent
    <3>1. CASE sent' = sent
      BY <3>1
    <3>2. CASE sent' = sent + 1
      <4>1. q # sent + 1
        BY <1>1, <1>4, <1>7, <3>2
      <4> QED
        BY <1>1, <3>2, <4>1
    <3> QED
      BY <1>4, <3>1, <3>2
  <2>2. ret < q /\ ret + 1 \in Pos /\ ret < ret + 1 /\ ret + 1 <= sent
    <3>1. done \subseteq Pos
      BY <1>1 DEF IInv, Types, TypeOK
    <3> QED
      BY <1>1, <1>7, <3>1
  <2>3. q = ret + 1
    BY <1>3, <2>1, <2>2
  <2>4. ret' # ret + 1
    BY <1>1, <2>3
  <2> QED
    BY <1>5, <1>7, <2>3, <2>4
<1>8. CASE Graduated
  <2>1. mode' = "ds" => ret < sent /\ ret + 1 \in done /\ ret' = ret + 1
    <3>1. ret + 1 \in ret + 1 .. ret'
      BY <1>1, <1>8 DEF Graduated
    <3>2. ret + 1 <= sent /\ ret + 1 \in done
      BY <1>8, <3>1 DEF Graduated, Retires
    <3> QED
      BY <1>1, <1>8, <3>2 DEF Graduated
  <2> QED
    BY <1>7, <1>8, <2>1 DEF Graduated
<1>9. CASE StopsAtFault
  BY <1>7, <1>9 DEF StopsAtFault
<1>10. CASE StartsAgain
  BY <1>10 DEF StartsAgain
<1> QED
  BY <1>6, <1>8, <1>9, <1>10, CoreStep

LEMMA PulsesStep == ASSUME NEW f, Step(f), Pulses PROVE Pulses'
<1>1. CASE pulse' = {}
  BY <1>1 DEF Pulses
<1>2. CASE Graduated
  <2> SUFFICES ASSUME NEW q \in ret + 1 .. ret'
               PROVE  q \in Pos /\ base' < q /\ q <= ret' /\ sent' - q < NROB
    BY <1>2 DEF Graduated, Pulses
  <2>1. /\ ret \in Int /\ sent \in Int /\ base \in Int /\ base <= ret /\ ret' \in Int /\ NROB \in Int
        /\ base' = base /\ ret' <= sent /\ sent' \in Int
    BY <1>2, Window1, Sizes DEF Graduated
  <2>2. sent - ret <= NROB /\ done \subseteq Pos
    BY DEF Step, IInv, Window, Types, TypeOK
  <2>3. sent' - ret <= NROB
    <3>1. CASE sent' = sent
      BY <2>2, <3>1
    <3>2. CASE sent' = sent + 1 /\ MayRun(sent + 1)
      BY <3>2 DEF MayRun
    <3> QED
      BY <3>1, <3>2, CoreEdge
  <2>4. q \in done
    BY <1>2 DEF Graduated, Retires
  <2>5. q \in Int /\ ret < q /\ q <= ret'
    BY <2>1
  <2>6. base < q
    BY <2>1, <2>5
  <2>7. \A s \in Int : s - ret <= NROB => s - q < NROB
    BY ONLY <2>1, <2>5
  <2> QED
    BY <2>1, <2>2, <2>3, <2>4, <2>5, <2>6, <2>7
<1> QED
  BY <1>1, <1>2, CoreStep DEF Rests, StopsAtFault, StartsAgain

LEMMA NopsStep == ASSUME NEW f, Step(f), Nops PROVE Nops'
<1>1. /\ IInv /\ f.replay \in BOOLEAN /\ f.fault \in BOOLEAN /\ p2.nop \in BOOLEAN
      /\ r_pending_tlb_miss \in BOOLEAN /\ p2.got \in BOOLEAN
  BY Registers DEF Step, IInv, Types, Typed
<1>2. p2'.nop = (f.fault \/ (p2.nop /\ ~t_accept(f))) /\ prog' = prog
  BY DEF Step, Edge, Port2
<1>3. f.fault => prog[p2.p].t = "fault" /\ f.st = "TLB_TURNAROUND"
  BY DEF Step, Reasons
<1>4. f.st = "TLB_TURNAROUND" => In("TLB_RELOAD") /\ (prog[p2.p].t = "fault" => f.fault)
  BY DEF Step, Reasons
<1>5. f.replay => In("TLB_TURNAROUND") /\ r_pending_tlb_miss /\ ~p2.got
  BY <1>1 DEF Step, Controls, WalkNext, IInv, Port2Inv, Walking, In
<1>6. In("TLB_RELOAD") => r_pending_tlb_miss /\ ~f.replay
  BY <1>1, <1>5 DEF IInv, Port2Inv, Walking, In
<1>7. r_pending_tlb_miss => ~t_accept(f)
  BY DEF t_accept, t_new_req
<1>8. ASSUME Busy2', p2'.nop PROVE prog'[p2'.p].t = "fault"
  <2>1. CASE f.fault
    <3>1. p2'.p = p2.p
      BY <1>3, <1>4, <1>6, <1>7, <2>1, Port2Edge
    <3> QED
      BY <1>2, <1>3, <2>1, <3>1
  <2>2. CASE p2.nop /\ ~t_accept(f)
    <3>1. p2'.p = p2.p /\ Busy2
      BY <1>8, <2>2, Move2
    <3> QED
      BY <1>2, <2>2, <3>1 DEF Nops
  <2> QED
    BY <1>2, <1>8, <2>1, <2>2
<1>9. ASSUME Again', prog'[p2'.p].t = "fault" PROVE p2'.nop
  <2>1. CASE f.st = "TLB_TURNAROUND"
    <3>1. p2'.p = p2.p
      BY <1>4, <1>6, <1>7, <2>1, Port2Edge
    <3> QED
      BY <1>2, <1>4, <1>9, <2>1, <3>1
  <2>2. CASE p2'.got /\ r_pending_tlb_miss' /\ f.st # "TLB_TURNAROUND"
    <3>1. ~t_accept(f)
      BY <2>2, Port2Edge DEF t_accept, t_new_req
    <3>2. f.replay
      BY <2>2, <3>1, Port2Edge
    <3>3. p2'.p = p2.p /\ Again
      BY <1>5, <3>2, Port2Edge DEF Again
    <3> QED
      BY <1>2, <1>9, <3>1, <3>3 DEF Nops
  <2> QED
    BY <1>9, <2>1, <2>2, Port1Edge DEF Again, In
<1> QED
  BY <1>8, <1>9 DEF Nops

(* What port 2 queues does not fault.                                      *)
LEMMA PushedIsSound == ASSUME IInv, Nops, t_push_miss PROVE ~Faults(p2.p) /\ Busy2 /\ ~p2.nop
<1>1. CASE Prefetch2 /\ w_tlb_hit
  BY <1>1 DEF Prefetch2, Faults, Live2, Busy2, Nop2
<1>2. CASE Ready2 /\ ~ReadHit2
  <2>1. Live2 /\ p2.got /\ ~Nop2 /\ ~Fault2 /\ w_tlb_hit
    BY <1>2 DEF Ready2, Access2, Live2
  <2>2. Kind(p2.p) # "nop" /\ ~p2.nop
    BY <2>1 DEF Nop2
  <2>3. prog[p2.p].t # "fault"
    <3>1. prog[p2.p].t = "fault" => r_pending_tlb_miss
      BY <2>1 DEF w_tlb_hit
    <3> QED
      BY <2>1, <2>2, <3>1 DEF Nops, Again
  <2>4. prog[p2.p].t # "zero" /\ ~(prog[p2.p].t = "ro" /\ Kind(p2.p) \in {"st", "sc"})
    BY <1>2, <2>1 DEF Fault2, Ready2
  <2> QED
    BY <2>1, <2>2, <2>3, <2>4 DEF Faults, Busy2
<1> QED
  BY <1>1, <1>2 DEF t_push_miss

LEMMA UnfaultedStep == ASSUME NEW f, Step(f), Nops, Unfaulted PROVE Unfaulted'
<1>1. IInv /\ mq \in Seq(Pos)
  BY DEF Step, IInv, Types
<1>2. ASSUME NEW i \in DOMAIN mq' PROVE ~Faults(mq'[i])
  BY <1>1, OldOrNew, PushedIsSound DEF Unfaulted
<1>3. ASSUME Busy1' PROVE ~Faults(p1'.p)
  <2>1. CASE f.pop
    <3>1. p1'.p = Head(mq) /\ mq # <<>>
      BY <1>3, <2>1, Move1
    <3>2. 1 \in DOMAIN mq /\ Head(mq) = mq[1]
      BY <1>1, <3>1
    <3> QED
      BY <3>1, <3>2 DEF Unfaulted
  <2>2. CASE ~f.pop
    BY <1>3, <2>2, Move1 DEF Unfaulted
  <2> QED
    BY <2>1, <2>2
<1>4. \A q : Faults(q)' <=> Faults(q)
  BY SameProgram
<1> QED
  BY <1>2, <1>3, CoreEdge DEF Unfaulted, Faults, Kind

LEMMA GraduatesStep == ASSUME NEW f, Step(f), Pulses, Graduates PROVE Graduates'
<1>1. /\ IInv /\ mq \in Seq(Pos) /\ Slotted /\ r_graduated \in [Slots -> 0 .. 2]
      /\ NROB \in Nat /\ Port1Next(f) /\ Reasons(f)
  BY Sizes DEF Step, IInv, Types, TypeOK, Controls
<1>2. \A q : IsStore(q)' = IsStore(q)
  BY SameProgram
<1>3. CASE StartsAgain
  <2>1. mq' = <<>> /\ ~Busy1'
    BY <1>3 DEF StartsAgain
  <2>2. DOMAIN mq' = {}
    BY <2>1
  <2> QED
    BY <2>1, <2>2 DEF Graduates
<1>4. ASSUME base' = base,
             \A q \in Pos : q <= ret' /\ q \notin pulse' => q <= ret
      PROVE  Graduates'
  <2>1. \A q : Slot(q)' = Slot(q)
    BY <1>4 DEF Slot
  <2>2. SUFFICES /\ \A i \in DOMAIN mq' : IsStore(mq'[i]) =>
                     /\ r_graduated'[Slot(mq'[i])] # 0
                     /\ r_graduated'[Slot(mq'[i])] = 2 => mq'[i] <= ret'
                     /\ mq'[i] <= ret' /\ mq'[i] \notin pulse' => r_graduated'[Slot(mq'[i])] = 2
                 /\ Busy1' /\ IsStore(p1'.p) => p1'.p <= ret'
    <3>1. prog' = prog
      BY CoreEdge
    <3> QED
      BY <1>4, <2>2, <3>1 DEF Graduates, Slot, IsStore, Kind
  <2>3. ASSUME NEW i \in DOMAIN mq', NEW x, x = mq'[i], IsStore(x)
        PROVE  /\ r_graduated'[Slot(x)] # 0
               /\ r_graduated'[Slot(x)] = 2 => x <= ret'
               /\ x <= ret' /\ x \notin pulse' => r_graduated'[Slot(x)] = 2
    <3>1. /\ x \in Pos /\ x \in Int /\ base \in Int /\ ret \in Int /\ ret' \in Int /\ sent \in Int
          /\ ret <= ret' /\ Pos \subseteq Int
      BY <2>3, OldOrNew, Window1
    <3>2. PICK s : s = Slot(x)
      OBVIOUS
    <3>3. s \in Slots
      BY <3>1, <3>2, SlotType
    <3>4. r_graduated'[s] = IF s \in Only(f.clear, Slot(Head(mq))) \cup Only(t_reset_graduated, Slot(p1.p)) THEN 0
                            ELSE IF t_incr_busy /\ s = Slot(p2.p) THEN 1
                            ELSE IF r_graduated[s] = 1 /\ s \in {Slot(q) : q \in pulse} THEN 2
                            ELSE r_graduated[s]
      BY <3>3 DEF Step, Edge, Queue
    <3>5. f.clear => f.pop /\ mq # <<>> /\ Head(mq) = mq[1] /\ 1 \in DOMAIN mq
      BY <1>1, MoveQ DEF Port1Next
    <3>6. t_reset_graduated => Busy1
      BY DEF t_reset_graduated, w_got_hit, Busy1
    <3>7. t_incr_busy => p2.got
      BY DEF t_incr_busy, Ready2, Access2, Live2
    <3>8. CASE i + Popped(f) \in DOMAIN mq /\ mq'[i] = mq[i + Popped(f)]
      <4>1. PICK j \in DOMAIN mq : x = mq[j] /\ (f.pop => j # 1)
        <5>1. f.pop => i + Popped(f) # 1
          BY OldOrNew DEF Popped
        <5> QED
          BY <2>3, <3>8, <5>1
      <4>2. s \notin Only(f.clear, Slot(Head(mq))) \cup Only(t_reset_graduated, Slot(p1.p))
        BY <1>1, <3>2, <3>5, <3>6, <4>1 DEF Slotted, Only
      <4>3. ~(t_incr_busy /\ s = Slot(p2.p))
        BY <1>1, <3>2, <3>7, <4>1 DEF Slotted
      <4>4. /\ r_graduated[s] # 0 /\ (r_graduated[s] = 2 => x <= ret)
            /\ x <= ret /\ x \notin pulse => r_graduated[s] = 2
        BY <2>3, <3>2, <4>1 DEF Graduates
      <4>5. s \in {Slot(q) : q \in pulse} => x <= ret
        <5> SUFFICES ASSUME NEW q \in pulse, Slot(q) = Slot(x), ~(x <= ret) PROVE FALSE
          BY <3>2
        <5>1. q \in Pos /\ base < q /\ q <= ret /\ sent - q < NROB
          BY DEF Pulses
        <5>2. x <= sent
          BY <1>1, <4>1, Live
        <5>3. q \in Int /\ q < x /\ x - q < NROB
          BY <1>1, <3>1, <5>1, <5>2
        <5> QED
          BY <3>1, <5>3, SlotsDiffer
      <4>6. r_graduated'[s] = IF r_graduated[s] = 1 /\ s \in {Slot(q) : q \in pulse} THEN 2 ELSE r_graduated[s]
        BY <3>4, <4>2, <4>3
      <4>7. x <= ret' /\ x \notin pulse' => x <= ret
        BY <1>4, <3>1
      <4>8. x \in pulse => s \in {Slot(q) : q \in pulse}
        BY <3>2
      <4>9. r_graduated[s] \in 0 .. 2
        BY <1>1, <3>3
      <4>10. r_graduated'[s] # 0
        BY <4>4, <4>6
      <4>11. r_graduated'[s] = 2 => x <= ret'
        <5>1. r_graduated'[s] = 2 => x <= ret
          BY <4>4, <4>5, <4>6
        <5> QED
          BY <3>1, <5>1
      <4>12. x <= ret' /\ x \notin pulse' => r_graduated'[s] = 2
        <5>1. r_graduated[s] = 1 \/ r_graduated[s] = 2
          BY <4>4, <4>9
        <5> QED
          BY <4>4, <4>6, <4>7, <4>8, <5>1
      <4> QED
        BY <3>2, <4>10, <4>11, <4>12
    <3>9. CASE t_push_miss /\ p2.got /\ mq'[i] = p2.p
      <4>1. x = p2.p /\ Busy2 /\ Slot(x) \notin r_rob_inflight
        BY <1>1, <2>3, <3>9 DEF Slotted, Busy2
      <4>2. t_incr_busy
        BY <2>3, <3>9, <4>1 DEF t_push_miss, t_incr_busy, Prefetch2, IsStore
      <4>3. s \notin Only(f.clear, Slot(Head(mq))) \cup Only(t_reset_graduated, Slot(p1.p))
        BY <1>1, <3>2, <3>5, <3>6, <4>1 DEF Slotted, Only
      <4>4. r_graduated'[s] = 1
        BY <3>2, <3>4, <4>1, <4>2, <4>3
      <4>5. ~(x <= ret')
        <5>1. ret < x /\ x \notin done
          BY <1>1, <4>1, Live DEF Awaited
        <5> QED
          BY <3>1, <5>1, RetireEdge
      <4> QED
        BY <3>2, <4>4, <4>5
    <3> QED
      BY <3>8, <3>9, OldOrNew
  <2>4. ASSUME Busy1', IsStore(p1'.p) PROVE p1'.p <= ret'
    <3>1. \A x \in Pos : x <= ret => x <= ret'
      <4>1. ret \in Int /\ ret' \in Int /\ ret <= ret' /\ Pos \subseteq Int
        BY Window1
      <4> QED
        BY <4>1
    <3>2. CASE f.pop
      <4>1. p1'.p = Head(mq) /\ ~f.clear /\ 1 \in DOMAIN mq /\ Head(mq) = mq[1] /\ mq[1] \in Pos
        <5>1. p1'.p = Head(mq) /\ ~f.clear /\ mq # <<>>
          BY <2>4, <3>2, StaysOn1, MoveQ
        <5>2. \A t \in Seq(Pos) : t # <<>> => 1 \in DOMAIN t /\ Head(t) = t[1] /\ t[1] \in Pos
          OBVIOUS
        <5> QED
          BY <1>1, <5>1, <5>2
      <4>2. w_st_amo_grad
        BY <1>1, <3>2, <4>1 DEF Reasons, Port1Next
      <4>3. p1'.p <= ret
        BY <2>4, <4>1, <4>2 DEF w_st_amo_grad, Graduates
      <4> QED
        BY <3>1, <4>1, <4>3
    <3>3. CASE ~f.pop
      <4>1. p1'.p = p1.p /\ Busy1 /\ p1.p \in Pos
        BY <1>1, <2>4, <3>3, StaysOn1, Live
      <4>2. p1.p <= ret
        BY <2>4, <4>1 DEF Graduates
      <4> QED
        BY <3>1, <4>1, <4>2
    <3> QED
      BY <3>2, <3>3
  <2> QED
    BY <2>3, <2>4
<1>5. Pos \subseteq Int /\ ret \in Int /\ ret' \in Int
  BY Window1
<1>6. CASE Graduated
  <2>1. \A q \in Pos : q <= ret' /\ q \notin ret + 1 .. ret' => q <= ret
    BY <1>5
  <2> QED
    BY <1>4, <1>6, <2>1 DEF Graduated
<1> QED
  BY <1>3, <1>4, <1>6, CoreStep DEF Rests, StopsAtFault

(* A write: of the oldest request, which has retired or, if it is a store- *)
(* conditional, is the oldest instruction and answered by it.              *)
LEMMA Writing ==
  ASSUME NEW f, Step(f), t_wr_array, Squashed, Halts, Unfaulted, Graduates
  PROVE  /\ Busy1 /\ w_got_hit /\ p1.p \in Pos /\ p1.p <= sent /\ base < p1.p
         /\ p1.p \notin dead /\ p1.p \notin dead' /\ ~Faults(p1.p) /\ base' = base
         /\ Kind(p1.p) \in {"st", "sc"} /\ (Kind(p1.p) = "sc" => w_match_link)
         /\ \/ p1.p <= ret
            \/ /\ Kind(p1.p) = "sc" /\ p1.p = ret + 1 /\ ret' = ret /\ mode = "run" /\ mode' = "run"
               /\ p1.p \in done'
<1>1. /\ IInv /\ Busy1 /\ w_got_hit /\ Kind(p1.p) \in {"st", "sc"} /\ In("ACTIVE")
      /\ (Kind(p1.p) = "sc" => w_match_link)
  BY Storing DEF Step, t_wr_array
<1>2. PICK p : p = p1.p
  OBVIOUS
<1>3. p \in Pos /\ base < p /\ p <= sent /\ Queued(p) /\ ~Faults(p)
  BY <1>1, <1>2, Live DEF Unfaulted
<1>4. /\ ret \in Int /\ sent \in Int /\ base \in Int /\ Pos \subseteq Int /\ ret' \in Int
  BY Window1
<1>5. base' = base
  BY <1>1, RetireEdge
<1>6. p \notin dead /\ p \notin dead'
  <2>1. \A q \in dead' : q <= base
    BY <1>5, SquashedStep DEF Squashed
  <2> QED
    BY <1>3, <1>4, <2>1 DEF Squashed
<1>7. CASE Kind(p) = "st"
  <2>1. p <= ret
    BY <1>1, <1>2, <1>7 DEF Graduates, IsStore
  <2> QED
    BY <1>1, <1>2, <1>3, <1>5, <1>6, <2>1
<1>8. CASE Kind(p) = "sc"
  <2>1. ret < p /\ p \notin done
    BY <1>3, <1>8 DEF Queued, Awaited
  <2>2. ret + 1 \in Pos /\ ret < ret + 1 /\ ret + 1 <= sent
    <3>1. 0 <= ret
      BY Registers DEF Step, IInv
    <3> QED
      BY <1>3, <1>4, <2>1, <3>1, Sizes DEF Pos
  <2>3. ret + 1 = p
    <3>1. Window
      BY <1>1 DEF IInv
    <3> QED
      BY <1>3, <1>8, <2>1, <2>2, <3>1 DEF Window, Serial
  <2>4. mode = "run"
    BY <1>3, <1>8, <2>1 DEF Halts, Serial
  <2>5. ret' = ret /\ mode' = "run"
    <3>1. ~StopsAtFault /\ ~StartsAgain
      BY <2>1, <2>3, <2>4 DEF StopsAtFault, StartsAgain
    <3>2. ~Graduated
      <4> SUFFICES ASSUME Graduated PROVE FALSE
        OBVIOUS
      <4>1. ret + 1 \in ret + 1 .. ret'
        BY <1>4 DEF Graduated
      <4> QED
        BY <2>1, <2>3, <4>1 DEF Graduated, Retires
    <3> QED
      BY <2>4, <3>1, <3>2, CoreStep DEF Rests
  <2>6. p \in done'
    <3>1. Answer1
      BY <1>1, <1>2, <1>8 DEF Answer1, IsStore, In
    <3> QED
      BY <1>2, <3>1, CoreEdge DEF Answers, Only
  <2> QED
    BY <1>1, <1>2, <1>3, <1>5, <1>6, <1>8, <2>3, <2>4, <2>5, <2>6
<1> QED
  BY <1>1, <1>2, <1>7, <1>8

LEMMA LaterStep ==
  ASSUME NEW f, Step(f), Squashed, Halts, Unfaulted, Graduates, Later PROVE Later'
<1>1. /\ IInv /\ mq \in Seq(Pos) /\ Ordered /\ Pos \subseteq Int
      /\ ret \in Int /\ sent \in Int /\ sent' \in Int /\ ret' \in Int /\ ret <= ret' /\ sent <= sent'
      /\ last \in Int /\ 0 <= last /\ last <= N /\ last <= sent /\ N \in Int
  BY Window1, Sizes DEF Step, IInv, Types, Later
<1>2. last' = IF t_wr_array THEN p1.p ELSE last
  BY DEF Step, Edge, Back
<1>3. PICK n : n = last'
  OBVIOUS
<1>4. t_wr_array => /\ Busy1 /\ w_got_hit /\ n = p1.p /\ n \in Pos /\ n <= sent /\ ~Faults(n) /\ n \notin dead'
                    /\ \/ n <= ret
                       \/ n = ret + 1 /\ ret' = ret /\ mode' = "run" /\ n \in done'
  BY <1>2, <1>3, Writing
<1>5. ~t_wr_array => n = last
  BY <1>2, <1>3
<1>6. ASSUME NEW q \in Pos, \/ Busy2 /\ q = p2.p
                            \/ \E j \in DOMAIN mq : q = mq[j]
      PROVE  n < q
  <2>1. CASE t_wr_array
    BY <1>1, <1>4, <1>6, <2>1 DEF Ordered
  <2>2. CASE ~t_wr_array /\ \E j \in DOMAIN mq : q = mq[j]
    BY <1>5, <2>2 DEF Later
  <2>3. CASE ~t_wr_array /\ Busy2 /\ q = p2.p
    <3>1. ret < q /\ q \notin done
      BY <1>1, <2>3, Live DEF Awaited
    <3>2. n <= ret \/ (n = ret + 1 /\ n \in done)
      BY <1>5, <2>3 DEF Later
    <3> QED
      BY <1>1, <1>5, <2>3, <3>1, <3>2
  <2> QED
    BY <1>6, <2>1, <2>2, <2>3
<1>7. n \in 0 .. N /\ n <= sent'
  <2>1. \A q \in Int : q <= sent => q <= sent'
    BY <1>1
  <2>2. \A q \in Pos : q \in 0 .. N
    BY DEF Pos
  <2>3. last \in 0 .. N
    BY <1>1
  <2> QED
    BY <1>1, <1>4, <1>5, <2>1, <2>2, <2>3
<1>8. n <= ret' \/ (n = ret' + 1 /\ n \in done' /\ ~Faults(n) /\ mode' = "run")
  <2>0. \A q \in Int : (q <= ret => q <= ret') /\ (ret' = ret /\ q = ret + 1 => q = ret' + 1)
    <3>1. \A q \in Int : q <= ret => q <= ret'
      BY <1>1
    <3>2. ret' = ret => ret + 1 = ret' + 1
      OBVIOUS
    <3> QED
      BY <3>1, <3>2
  <2>1. CASE t_wr_array
    BY <1>1, <1>4, <2>0, <2>1
  <2>2. CASE ~t_wr_array /\ last <= ret
    BY <1>1, <1>5, <2>0, <2>2
  <2>3. CASE ~t_wr_array /\ last = ret + 1 /\ last \in done /\ ~Faults(last) /\ mode = "run"
    <3>1. last \in done'
      BY <2>3, CoreEdge
    <3>2. ~StopsAtFault /\ ~StartsAgain
      BY <2>3 DEF StopsAtFault, StartsAgain
    <3>3. Graduated => last <= ret'
      BY <1>1, <2>3 DEF Graduated
    <3> QED
      BY <1>5, <2>3, <3>1, <3>2, <3>3, CoreStep DEF Rests
  <2> QED
    BY <2>1, <2>2, <2>3 DEF Later
<1>9. n \notin dead'
  <2>1. CASE t_wr_array
    BY <1>4, <2>1
  <2>2. CASE ~t_wr_array
    <3>1. n = last /\ last \notin dead
      BY <1>5, <2>2 DEF Later
    <3>2. StartsAgain => last <= ret
      BY DEF Later, StartsAgain
    <3>3. StartsAgain => n \notin dead'
      BY <1>1, <3>1, <3>2 DEF StartsAgain
    <3> QED
      BY <3>1, <3>3, CoreStep DEF Rests, Graduated, StopsAtFault
  <2> QED
    BY <2>1, <2>2
<1>10. ASSUME NEW i \in DOMAIN mq' PROVE n < mq'[i]
  BY <1>6, OldOrNew DEF Busy2
<1>11. ASSUME Busy1' PROVE n < p1'.p
  <2>1. CASE f.pop
    <3>1. p1'.p = Head(mq) /\ mq # <<>>
      BY <1>11, <2>1, Move1
    <3>2. 1 \in DOMAIN mq /\ Head(mq) = mq[1] /\ mq[1] \in Pos
      <4>1. \A s \in Seq(Pos) : s # <<>> => 1 \in DOMAIN s /\ Head(s) = s[1] /\ s[1] \in Pos
        OBVIOUS
      <4> QED
        BY <1>1, <3>1, <4>1
    <3> QED
      BY <1>6, <3>1, <3>2
  <2>2. CASE ~f.pop
    <3>1. p1'.p = p1.p /\ Busy1 /\ ~w_got_hit
      BY <1>11, <2>2, Move1
    <3> QED
      BY <1>4, <1>5, <3>1 DEF Later
  <2> QED
    BY <2>1, <2>2
<1>12. Faults(n)' <=> Faults(n)
  BY SameProgram
<1> QED
  <2>1. \A q : (q = last' => (Faults(last)' <=> Faults(q)'))
    BY DEF Faults, Kind
  <2> QED
    BY <1>3, <1>7, <1>8, <1>9, <1>10, <1>11, <1>12, <2>1 DEF Later

(* Nothing that has retired is squashed later.                             *)
LEMMA DeadStays ==
  ASSUME NEW f, Step(f)
  PROVE  /\ dead \subseteq dead' /\ (~StartsAgain => dead' = dead)
         /\ \A r \in Int : r <= ret => (r \in dead' <=> r \in dead)
<1>1. ret \in Int /\ sent \in Int
  BY Window1
<1>2. \A r \in Int : r <= ret => r \notin ret + 1 .. sent
  BY <1>1
<1> QED
  BY <1>2, CoreStep DEF Rests, Graduated, StopsAtFault, StartsAgain

LEMMA SameStores ==
  ASSUME NEW f, Step(f), NEW q \in Int, \A r \in Int : r < q => (r \in dead' <=> r \in dead)
  PROVE  DM!Stores(q)' <=> DM!Stores(q)
<1>1. prog' = prog
  BY CoreEdge
<1>2. \A r \in 1 .. q - 1 : r \in Int /\ r < q /\ \A s \in r + 1 .. q - 1 : s \in Int /\ s < q
  OBVIOUS
<1>3. DM!Linked(q)' <=> DM!Linked(q)
  <2>1. DM!Linked(q)' <=> \E r \in 1 .. q - 1 :
           /\ prog[r].k = "ll" /\ prog[r].l = prog[q].l /\ r \notin dead'
           /\ \A s \in r + 1 .. q - 1 : prog[s].k = "ll" => s \in dead'
    BY <1>1 DEF DM!Linked
  <2>2. DM!Linked(q) <=> \E r \in 1 .. q - 1 :
           /\ prog[r].k = "ll" /\ prog[r].l = prog[q].l /\ r \notin dead
           /\ \A s \in r + 1 .. q - 1 : prog[s].k = "ll" => s \in dead
    BY DEF DM!Linked
  <2>3. ASSUME NEW r \in 1 .. q - 1
        PROVE  /\ r \in dead' <=> r \in dead
               /\ (\A s \in r + 1 .. q - 1 : prog[s].k = "ll" => s \in dead')
                    <=> (\A s \in r + 1 .. q - 1 : prog[s].k = "ll" => s \in dead)
    BY <1>2
  <2> QED
    BY <2>1, <2>2, <2>3, Zenon
<1> QED
  BY <1>1, <1>3 DEF DM!Stores

(* A store-conditional on port 1 is linked exactly if the register has its *)
(* line.                                                                   *)
LEMMA LinkedIs ==
  ASSUME IInv, Squashed, Link, Busy1, Kind(p1.p) = "sc"
  PROVE  DM!Linked(p1.p) <=> w_match_link
<1>1. PICK p : p = p1.p
  OBVIOUS
<1>2. /\ p \in Pos /\ ret < p /\ p <= sent /\ Kind(p) \in Serial /\ Line(p) \in LINES
      /\ ret \in Int /\ sent \in Int /\ Pos \subseteq Int /\ p \in Int
  BY <1>1, Live, Registers, Positions, Operation DEF Queued, Awaited, Serial, IInv
<1>3. \A y \in Pos : ret < y /\ y <= sent => y = p
  <2>1. Window
    BY DEF IInv
  <2> QED
    BY <1>2, <2>1 DEF Window
<1>4. \A r : ~Ahead(r)
  BY SerialAlone DEF Ahead, Queues, Waits2
<1>5. LinkNow = r_link_reg /\ \A r \in Pos : r # 0 /\ Kind(r) = prog[r].k /\ Line(r) = prog[r].l
  BY Positions DEF LinkNow, Kind, Line
<1>6. \A r \in Pos : r <= sent /\ Kind(r) = "ll" => r <= ret /\ r < p
  <2> TAKE r \in Pos
  <2> HAVE r <= sent /\ Kind(r) = "ll"
  <2>1. r # p
    BY <1>1
  <2>2. ~(ret < r)
    BY <1>3, <2>1
  <2> QED
    BY <1>2, <2>2
<1>7. \A r \in Pos : Linkers(r) <=> r <= sent /\ Kind(r) = "ll" /\ r \notin dead
  BY <1>4, <1>6 DEF Linkers, Squashed
<1>8. 1 .. p - 1 \subseteq Pos /\ \A r \in 1 .. p - 1 : r < p /\ r <= sent
  BY <1>2, Sizes DEF Pos
<1>9. ASSUME DM!Linked(p) PROVE r_link_reg = Line(p)
  <2>1. PICK r \in 1 .. p - 1 : /\ prog[r].k = "ll" /\ prog[r].l = prog[p].l /\ r \notin dead
                                /\ \A s \in r + 1 .. p - 1 : prog[s].k = "ll" => s \in dead
    BY <1>9 DEF DM!Linked
  <2>2. Linkers(r) /\ r \in Pos
    BY <1>5, <1>7, <1>8, <2>1
  <2>3. PICK q \in Pos : Linkers(q) /\ LinkNow = Line(q) /\ r <= q
    BY <2>2 DEF Link
  <2>4. q < p /\ q \notin dead /\ prog[q].k = "ll"
    BY <1>5, <1>6, <1>7, <2>3
  <2>5. q = r
    <3>1. q \notin r + 1 .. p - 1
      BY <2>1, <2>4
    <3> QED
      BY <1>2, <2>3, <2>4, <3>1
  <2> QED
    BY <1>2, <1>5, <2>1, <2>2, <2>3, <2>5
<1>10. ASSUME r_link_reg = Line(p) PROVE DM!Linked(p)
  <2>1. LinkNow # NoLine
    BY <1>2, <1>5, <1>10, Sizes
  <2>2. PICK q \in Pos : Linkers(q) /\ LinkNow = Line(q) /\ \A r \in Pos : Linkers(r) => r <= q
    BY <2>1 DEF Link
  <2>3. q < p /\ q \notin dead /\ prog[q].k = "ll" /\ prog[q].l = prog[p].l
    BY <1>2, <1>5, <1>6, <1>7, <1>10, <2>2
  <2>4. q \in 1 .. p - 1
    BY <1>2, <2>3, Sizes DEF Pos
  <2>5. ASSUME NEW s \in q + 1 .. p - 1, prog[s].k = "ll" PROVE s \in dead
    <3>1. s \in 1 .. p - 1 /\ ~(s <= q)
      BY <1>2, <2>4
    <3>2. s \in Pos /\ s <= sent
      BY <1>8, <3>1
    <3> QED
      BY <1>5, <1>7, <2>2, <2>5, <3>1, <3>2
  <2> QED
    BY <2>3, <2>4, <2>5 DEF DM!Linked
<1> QED
  BY <1>1, <1>9, <1>10 DEF w_match_link

(* Port 2 answers, and does not queue, a load, a prefetch or what faults;  *)
(* or anything while the core drains.                                      *)
LEMMA AnsweredBy2 ==
  ASSUME IInv, Nops, p2.got, Answer2, ~t_push_miss
  PROVE  mode = "drain" \/ Faults(p2.p) \/ Kind(p2.p) \in {"ld", "pf"}
<1>1. Busy2 /\ p2.p \in Pos /\ Kind(p2.p) \notin {"alu", "br", "fl"} /\ Kind(p2.p) \in Kinds
  BY Live, Operation, Registers DEF Busy2, Awaited, IInv
<1>2. CASE Nop2
  BY <1>1, <1>2 DEF Nop2, Nops, Faults, Kinds
<1>3. CASE Prefetch2
  BY <1>3 DEF Prefetch2
<1>4. CASE Fault2
  BY <1>1, <1>4 DEF Fault2, Access2, Live2, Nop2, Prefetch2, Faults, Kinds
<1>5. CASE t_incr_busy
  BY <1>5 DEF t_incr_busy, t_push_miss, ReadHit2, IsStore
<1>6. CASE ReadHit2
  BY <1>6 DEF ReadHit2
<1> QED
  BY <1>2, <1>3, <1>4, <1>5, <1>6 DEF Answer2, drain_ds_complete

(* A queued operation is dropped if it is a prefetch, or a store the core  *)
(* squashes.                                                               *)
LEMMA Dropped ==
  ASSUME NEW f, Step(f), Halts, Graduates, f.clear
  PROVE  /\ f.pop /\ Queues(Head(mq))
         /\ Kind(Head(mq)) = "pf" \/ (IsStore(Head(mq)) /\ mode = "drain" /\ ~(Head(mq) <= ret))
<1>1. /\ f.pop /\ mq # <<>> /\ mq \in Seq(Pos)
      /\ Kind(Head(mq)) = "pf" \/ (DeadHead /\ ~w_st_amo_grad)
  BY MoveQ DEF Step, Controls, Port1Next, Reasons, IInv, Types
<1>2. 1 \in DOMAIN mq /\ Head(mq) = mq[1]
  BY <1>1
<1>3. ASSUME DeadHead, ~w_st_amo_grad
      PROVE  IsStore(Head(mq)) /\ mode = "drain" /\ ~(Head(mq) <= ret)
  <2>1. IsStore(mq[1]) /\ mode = "drain" /\ r_graduated[Slot(mq[1])] # 2
    BY <1>2, <1>3 DEF DeadHead, w_st_amo_grad, drain_ds_complete
  <2>2. pulse = {}
    BY <2>1 DEF Halts
  <2> QED
    BY <1>2, <2>1, <2>2 DEF Graduates
<1> QED
  BY <1>1, <1>2, <1>3 DEF Queues

(* A store that counts waits until it is written.                          *)
LEMMA KeptStep ==
  ASSUME NEW f, Step(f), Squashed, Halts, Nops, Unfaulted, Graduates, Later, Kept, Link
  PROVE  Kept'
<1> SUFFICES ASSUME NEW q \in Pos, last' < q, q <= sent', Counts(q)', mode' = "run" \/ q <= ret'
             PROVE  Waits1(q)' \/ Ahead(q)'
  BY DEF Kept
<1>1. /\ IInv /\ ret \in Int /\ sent \in Int /\ sent' \in Int /\ ret' \in Int /\ q \in Int
      /\ q # 0 /\ last \in Int
  BY Window1, Positions, Sizes DEF Step, Later
<1>2. q \notin dead' /\ DM!Stores(q)' /\ ~Faults(q)
  BY SameProgram DEF Counts
<1>3. last < q /\ (t_wr_array => p1.p < q)
  <2>1. last' = IF t_wr_array THEN p1.p ELSE last
    BY DEF Step, Edge, Back
  <2>2. t_wr_array => last < p1.p /\ p1.p \in Int
    BY <1>1, Writing DEF Later, Pos
  <2> QED
    BY <1>1, <2>1, <2>2
<1>4. CASE StartsAgain
  <2>1. q <= sent /\ q <= ret
    BY <1>1, <1>2, <1>4 DEF StartsAgain
  <2>2. DM!Stores(q)
    <3>1. \A r \in Int : r < q => (r \in dead' <=> r \in dead)
      <4>1. \A r \in Int : r < q => r <= ret
        BY <1>1, <2>1
      <4> QED
        BY <4>1, DeadStays
    <3> QED
      BY <1>1, <1>2, <3>1, SameStores
  <2>3. q \notin dead
    BY <1>2, DeadStays
  <2>4. Waits1(q) \/ Ahead(q)
    BY <1>2, <1>3, <2>1, <2>2, <2>3 DEF Kept, Counts
  <2> QED
    BY <1>4, <2>4 DEF StartsAgain, Waits1, Ahead, Queues, Waits2
<1>5. CASE ~StartsAgain
  <2>1. Counts(q)
    <3>1. dead' = dead
      BY <1>5, DeadStays
    <3>2. DM!Stores(q)
      BY <1>1, <1>2, <3>1, SameStores
    <3> QED
      BY <1>2, <3>1, <3>2 DEF Counts
  <2>2. mode = "run" \/ q <= ret
    BY <1>5, CoreStep DEF Rests, Graduated, StopsAtFault
  <2>3. Kind(q) \in {"st", "sc"} /\ (Kind(q) = "sc" => DM!Linked(q))
    BY <1>1, <2>1 DEF Counts, DM!Stores, Kind
  <2>4. CASE ~(q <= sent)
    <3>1. sent' = sent + 1 /\ q = sent + 1 /\ sent' # sent
      <4>1. PICK n \in Int, s \in Int : n = sent' /\ s = sent
        BY <1>1
      <4>2. q <= n /\ ~(q <= s) /\ (n = s \/ n = s + 1)
        BY <2>4, <4>1, CoreEdge
      <4>3. n = s + 1 /\ q = s + 1 /\ n # s
        BY <1>1, <4>2
      <4> QED
        BY <4>1, <4>3
    <3>2. req' = q
      BY <2>3, <3>1 DEF Step, Edge, Sending
    <3> QED
      BY <1>1, <3>2 DEF Ahead
  <2>5. CASE q <= sent /\ Waits1(q)
    <3>1. CASE w_got_hit
      <4>1. In("ACTIVE") /\ p1.p = q /\ Busy1
        BY <1>1, <2>5, <3>1 DEF w_got_hit, IInv, Port1Inv, Waits1
      <4>2. t_wr_array
        BY <1>1, <2>3, <3>1, <4>1, LinkedIs DEF t_wr_array, In
      <4> QED
        BY <1>1, <1>3, <4>1, <4>2
    <3>2. CASE ~w_got_hit
      BY <2>5, <3>2, StaysOn1 DEF Waits1
    <3> QED
      BY <3>1, <3>2
  <2>6. CASE q <= sent /\ Ahead(q)
    <3>1. CASE f.pop /\ q = Head(mq)
      <4>1. ~f.clear
        BY <2>2, <2>3, <3>1, Dropped DEF IsStore
      <4> QED
        BY <3>1, <4>1, StaysOn1 DEF Waits1
    <3>2. CASE Waits2(q) /\ p2.got /\ Answer2 /\ ~t_push_miss
      <4>1. p2.p = q /\ Busy2 /\ ret < q
        BY <1>1, <3>2, Live DEF Waits2
      <4>2. mode # "drain"
        BY <1>1, <2>2, <4>1
      <4> QED
        BY <1>1, <1>2, <2>3, <3>2, <4>1, <4>2, AnsweredBy2
    <3> QED
      BY <2>6, <3>1, <3>2, StaysAhead
  <2> QED
    BY <1>3, <2>1, <2>2, <2>4, <2>5, <2>6 DEF Kept
<1> QED
  BY <1>4, <1>5

(* A load-linked counts from the cycle port 1 takes it.                    *)
LEMMA LinkersStep ==
  ASSUME NEW f, Step(f), Squashed, Halts, Nops, Unfaulted, Graduates, NEW q \in Pos
  PROVE  Linkers(q)' <=> Linkers(q) \/ (f.pop /\ q = Head(mq) /\ Kind(q) = "ll")
<1>1. /\ IInv /\ ret \in Int /\ sent \in Int /\ base \in Int /\ sent' \in Int /\ sent <= sent' /\ q \in Int
      /\ q # 0 /\ mq \in Seq(Pos)
  BY Window1, Positions DEF Step, IInv, Types
<1>2. f.pop => 1 \in DOMAIN mq /\ Head(mq) = mq[1] /\ mq # <<>>
  <2>1. \A s \in Seq(Pos) : s # <<>> => 1 \in DOMAIN s /\ Head(s) = s[1]
    OBVIOUS
  <2> QED
    BY <1>1, <2>1, MoveQ
<1>3. Linkers(q)' <=> /\ q <= sent' /\ Kind(q) = "ll" /\ q \notin dead' /\ ~Faults(q) /\ ~Ahead(q)'
  BY SameProgram DEF Linkers
<1>4. ASSUME Linkers(q)' PROVE Linkers(q) \/ (f.pop /\ q = Head(mq) /\ Kind(q) = "ll")
  <2>1. q <= sent
    <3> SUFFICES ASSUME ~(q <= sent) PROVE FALSE
      OBVIOUS
    <3>1. sent' = sent + 1 /\ q = sent + 1 /\ sent' # sent
      <4>1. PICK n \in Int, s \in Int : n = sent' /\ s = sent
        BY <1>1
      <4>2. q <= n /\ ~(q <= s) /\ (n = s \/ n = s + 1)
        BY <1>3, <1>4, <4>1, CoreEdge
      <4>3. n = s + 1 /\ q = s + 1 /\ n # s
        BY <1>1, <4>2
      <4> QED
        BY <4>1, <4>3
    <3>2. req' = q
      BY <1>3, <1>4, <3>1 DEF Step, Edge, Sending
    <3> QED
      BY <1>1, <1>3, <1>4, <3>2 DEF Ahead
  <2>2. q \notin dead
    BY <1>3, <1>4, DeadStays
  <2>3. CASE Ahead(q) /\ ~(f.pop /\ q = Head(mq))
    <3>1. Waits2(q) /\ p2.got /\ Answer2 /\ ~t_push_miss
      BY <1>3, <1>4, <2>3, StaysAhead
    <3>2. p2.p = q /\ ret < q /\ mode = "drain"
      BY <1>1, <1>3, <1>4, <3>1, AnsweredBy2, Live DEF Waits2
    <3> QED
      BY <1>3, <1>4, <2>1, <3>2 DEF Halts, Serial
  <2> QED
    BY <1>1, <1>3, <1>4, <2>1, <2>2, <2>3 DEF Linkers
<1>5. ASSUME Linkers(q) PROVE Linkers(q)'
  <2>1. q <= sent /\ Kind(q) = "ll" /\ q \notin dead /\ ~Faults(q) /\ ~Ahead(q)
    BY <1>5 DEF Linkers
  <2>2. q <= sent'
    BY <1>1, <2>1
  <2>3. q \notin dead'
    <3>1. StartsAgain => ~(ret < q)
      BY <2>1 DEF StartsAgain, Halts, Serial
    <3>2. ~(ret < q) => q \notin ret + 1 .. sent
      BY <1>1
    <3> QED
      BY <2>1, <3>1, <3>2, DeadStays DEF StartsAgain
  <2>4. ~Ahead(q)'
    <3>1. q # sent + 1
      BY <1>1, <2>1
    <3> QED
      BY <2>1, <3>1, CameAhead
  <2> QED
    BY <1>3, <2>1, <2>2, <2>3, <2>4
<1>6. ASSUME f.pop, q = Head(mq), Kind(q) = "ll" PROVE Linkers(q)'
  <2>1. q <= sent /\ base < q /\ ~Faults(q)
    BY <1>1, <1>2, <1>6, Live DEF Unfaulted
  <2>2. q <= sent'
    BY <1>1, <2>1
  <2>3. q \notin dead'
    <3>1. dead' = dead
      BY <1>2, <1>6, DeadStays DEF StartsAgain
    <3>2. ~(q <= base)
      BY <1>1, <2>1
    <3> QED
      BY <3>1, <3>2 DEF Squashed
  <2>4. ~Ahead(q)'
    BY <1>6, CameAhead
  <2> QED
    BY <1>3, <1>6, <2>1, <2>2, <2>3, <2>4
<1> QED
  BY <1>4, <1>5, <1>6

LEMMA LinkNowEdge ==
  ASSUME NEW f, Step(f), Halts, Graduates
  PROVE  LinkNow' = IF f.pop /\ Kind(Head(mq)) = "ll" THEN Line(Head(mq)) ELSE LinkNow
<1>1. r_link_reg' = LinkNow
  BY DEF Step, Edge, Port1, LinkNow
<1>2. p1'.p = f.p
  BY Port1Edge
<1>3. LinkNow' = IF Kind(f.p) = "ll" THEN Line(f.p) ELSE LinkNow
  <2>1. \A q : Kind(q)' = Kind(q) /\ Line(q)' = Line(q)
    BY SameProgram
  <2>2. LinkNow' = IF Kind(f.p)' = "ll" THEN Line(f.p)' ELSE LinkNow
    BY <1>1, <1>2 DEF LinkNow, Kind, Line
  <2> QED
    BY <2>1, <2>2
<1>4. CASE f.pop /\ Kind(Head(mq)) = "ll"
  <2>1. ~f.clear
    BY <1>4, Dropped DEF IsStore
  <2>2. f.p = Head(mq)
    BY <1>2, <1>4, <2>1, StaysOn1
  <2> QED
    BY <1>3, <1>4, <2>2
<1>5. CASE ~(f.pop /\ Kind(Head(mq)) = "ll")
  <2>1. f.p = p1.p \/ (f.pop /\ f.p = Head(mq))
    BY DEF Step, Reasons
  <2> QED
    BY <1>3, <1>5, <2>1 DEF LinkNow
<1> QED
  BY <1>4, <1>5

LEMMA LinkStep ==
  ASSUME NEW f, Step(f), Squashed, Halts, Nops, Unfaulted, Graduates, Link
  PROVE  Link'
<1>1. /\ IInv /\ ret \in Int /\ sent \in Int /\ Pos \subseteq Int /\ mq \in Seq(Pos)
  BY Window1 DEF Step, IInv, Types
<1>2. \A q : Line(q)' = Line(q)
  BY SameProgram
<1>3. CASE f.pop /\ Kind(Head(mq)) = "ll"
  <2>1. PICK z : z = Head(mq)
    OBVIOUS
  <2>2. 1 \in DOMAIN mq /\ z = mq[1]
    <3>1. \A s \in Seq(Pos) : s # <<>> => 1 \in DOMAIN s /\ Head(s) = s[1]
      OBVIOUS
    <3> QED
      BY <1>1, <1>3, <2>1, <3>1, MoveQ
  <2>3. z \in Pos /\ ret < z /\ z <= sent
    BY <1>1, <1>3, <2>1, <2>2, Live DEF Queued, Awaited
  <2>4. \A y \in Pos : y <= sent => y <= z
    <3>1. Window
      BY <1>1 DEF IInv
    <3>2. \A y \in Pos : ret < y /\ y <= sent => y = z
      BY <1>3, <2>1, <2>3, <3>1 DEF Window, Serial
    <3> QED
      BY <1>1, <2>3, <3>2
  <2>5. Linkers(z)' /\ LinkNow' = Line(z)'
    BY <1>2, <1>3, <2>1, <2>3, LinkersStep, LinkNowEdge
  <2>6. \A y \in Pos : Linkers(y)' => y <= z
    <3>1. \A y \in Pos : Linkers(y)' => Linkers(y) \/ y = z
      BY <2>1, LinkersStep
    <3> QED
      BY <1>1, <2>3, <2>4, <3>1 DEF Linkers
  <2> QED
    BY <2>3, <2>5, <2>6 DEF Link
<1>4. CASE ~(f.pop /\ Kind(Head(mq)) = "ll")
  <2>1. \A y \in Pos : Linkers(y)' <=> Linkers(y)
    BY <1>4, LinkersStep
  <2>2. LinkNow' = LinkNow
    BY <1>4, LinkNowEdge
  <2> QED
    BY <1>2, <2>1, <2>2 DEF Link
<1> QED
  BY <1>3, <1>4

-----------------------------------------------------------------------------
LEMMA StepSInv == ASSUME NEW f, Step(f), SInv PROVE SInv'
  BY SquashedStep, HaltsStep, PulsesStep, NopsStep, UnfaultedStep, GraduatesStep,
     LaterStep, KeptStep, LinkStep DEF SInv

LEMMA InitSInv == ASSUME Init PROVE SInv
<1>1. /\ mode = "run" /\ dead = {} /\ pulse = {} /\ mq = <<>> /\ ~Busy1 /\ ~Busy2
      /\ ret = 0 /\ sent = 0 /\ last = 0 /\ req = 0 /\ p1.p = 0 /\ r_link_reg = NoLine
      /\ \A i : i \notin DOMAIN mq
  BY DEF Init, Busy1, Busy2, Held
<1>2. 0 \in 0 .. N /\ \A q \in Pos : ~(q <= 0)
  BY Sizes DEF Pos
<1>3. Squashed
  BY <1>1, <1>2 DEF Squashed
<1>4. Halts /\ Pulses
  BY <1>1 DEF Halts, Pulses
<1>5. Nops /\ Unfaulted /\ Graduates
  BY <1>1 DEF Init, Nops, Again, In, Unfaulted, Graduates
<1>6. Later
  BY <1>1, <1>2 DEF Later
<1>7. Kept
  BY <1>1, <1>2 DEF Kept
<1>8. Link
  BY <1>1, <1>2 DEF Link, LinkNow, Linkers, Kind
<1> QED
  BY <1>3, <1>4, <1>5, <1>6, <1>7, <1>8 DEF SInv

LEMMA NextSInv == IInv /\ SInv /\ [Next]_vars => SInv'
<1> SUFFICES ASSUME IInv, SInv, [Next]_vars PROVE SInv'
  OBVIOUS
<1>1. CASE Next
  BY <1>1, NextStep, StepSInv
<1>2. CASE UNCHANGED vars
  <2> USE <1>2 DEF vars, core, front, queue, back
  <2>1. Squashed'
    BY DEF SInv, Squashed, Faults, Kind
  <2>2. Halts'
    BY DEF SInv, Halts, Faults, Kind
  <2>3. Pulses'
    BY DEF SInv, Pulses
  <2>4. Nops'
    BY DEF SInv, Nops, Again, In, Busy2
  <2>5. Unfaulted'
    BY DEF SInv, Unfaulted, Busy1, Held, Faults, Kind
  <2>6. Graduates'
    BY DEF SInv, Graduates, Busy1, Held, IsStore, Kind, Slot
  <2>7. Later'
    BY DEF SInv, Later, Busy1, Held, Faults, Kind
  <2>8. Kept'
    <3>1. \A q : (Waits1(q)' <=> Waits1(q)) /\ (Ahead(q)' <=> Ahead(q)) /\ (Faults(q)' <=> Faults(q))
      BY DEF Waits1, Ahead, Queues, Waits2, Busy1, Busy2, Held, Faults, Kind
    <3>2. \A q : DM!Stores(q)' <=> DM!Stores(q)
      BY DEF DM!Stores, DM!Linked
    <3> QED
      BY <3>1, <3>2 DEF SInv, Kept, Counts
  <2>9. Link'
    <3>1. \A q : (Ahead(q)' <=> Ahead(q)) /\ (Faults(q)' <=> Faults(q)) /\ Kind(q)' = Kind(q) /\ Line(q)' = Line(q)
      BY DEF Ahead, Queues, Waits2, Busy2, Faults, Kind, Line
    <3>2. \A q : Linkers(q)' <=> Linkers(q)
      BY <3>1 DEF Linkers
    <3>3. LinkNow' = LinkNow
      BY DEF LinkNow, Kind, Line
    <3> QED
      BY <3>1, <3>2, <3>3 DEF SInv, Link
  <2> QED
    BY <2>1, <2>2, <2>3, <2>4, <2>5, <2>6, <2>7, <2>8, <2>9 DEF SInv
<1> QED
  BY <1>1, <1>2

LEMMA SInvariance == Spec => [](IInv /\ DInv /\ SInv)
<1>1. Init => SInv
  BY InitSInv
<1>2. IInv /\ SInv /\ [Next]_vars => SInv'
  BY NextSInv
<1> QED
  BY <1>1, <1>2, DInvariance, PTL DEF Spec

-----------------------------------------------------------------------------
(* What the lines hold.  A write and an answer of the L2 in one cycle would*)
(* spoil the line: the last clause of the source's check (nu_l1d.sv:1307), *)
(* which a store-conditional beside a dirty victim can break.              *)
NoMultipleActions == ~(mem_rsp_valid /\ t_wr_array)

(* The memory port 1 writes: its line's words, and nothing else.           *)
LEMMA ViewEdge ==
  ASSUME NEW f, Step(f), DInv, NoMultipleActions, NEW l \in LINES, NEW w, Holds(l, w),
         NEW v, v = IF t_wr_array /\ l = Line(p1.p) THEN Merge(w, p1.p) ELSE w
  PROVE  Holds(l, v)'
<1>1. /\ IInv /\ Home /\ Looks /\ OneWb /\ Copies /\ ReadsLast /\ l2q \in Seq(Request)
      /\ Reasons(f) /\ Leaving(f) /\ HeldNext(f)
  BY DEF Step, DInv, IInv, Types, Controls
<1>2. PICK i \in IDX : i = PIdx[l]
  BY Sizes
<1>3. Cached(l) <=> cache[i].v /\ cache[i].l = l
  BY <1>2 DEF Cached
<1>4. Holds(l, v)' <=> IF cache'[i].v /\ cache'[i].l = l THEN v = cache'[i].w ELSE Behind(l, v)'
  BY <1>2 DEF Holds, Cached, Behind, Wb, Leaves
<1>5. Holds(l, w) <=> IF cache[i].v /\ cache[i].l = l THEN w = cache[i].w ELSE Behind(l, w)
  BY <1>2 DEF Holds, Cached
<1>6. t_wr_array /\ l = Line(p1.p) => Store(i) /\ cache[i].v /\ cache[i].l = l
  BY <1>1, <1>2, Storing DEF Store, Set1, IdxOf
<1>7. New(f) /\ l = p1.out.l =>
        i = p1.idx /\ p1.out = cache[i] /\ ~Fill(i) /\ cache[i].v /\ cache[i].l = l
  BY <1>1, <1>2, <1>3, Evicted
<1>8. ASSUME Fill(i), mem_rsp.l = l
      PROVE  ~Leaves(l) /\ mem_rsp.w = mem[l]
  <2>1. mem_rsp_valid /\ ~mem_rsp.wb
    BY <1>8 DEF Fill, mem_rsp_reload
  <2>2. l2q # <<>> /\ mem_rsp = l2q[1] /\ 1 \in DOMAIN l2q
    BY <1>1, <2>1 DEF mem_rsp_valid, mem_rsp
  <2> QED
    BY <1>1, <1>8, <2>1, <2>2 DEF ReadsLast
<1>9. CASE Cached(l)
  <2>1. w = cache[i].w /\ cache[i].v /\ cache[i].l = l
    BY <1>3, <1>5, <1>9
  <2>2. CASE Fill(i) /\ ~Store(i)
    <3>1. ~cache[i].d /\ v = w /\ cache'[i].l = mem_rsp.l /\ cache'[i].w = mem_rsp.w
      BY <1>1, <1>6, <2>2, SetEdge
    <3>2. Behind(l, w)
      BY <1>1, <2>1, <3>1 DEF Copies
    <3>3. Behind(l, w)'
      BY <1>1, <1>7, <2>2, <3>2, BehindStays
    <3>4. mem_rsp.l = l => w = mem_rsp.w
      BY <1>8, <2>2, <3>2, Leaving1 DEF Behind
    <3> QED
      BY <1>4, <3>1, <3>3, <3>4
  <2>3. CASE ~Fill(i) /\ ~Store(i) /\ i = f.inval /\ ~cache'[i].v
    <3>1. v = w
      BY <1>6, <2>3
    <3>2. CASE New(f) /\ l = p1.out.l
      <4>1. w = p1.out.w
        BY <1>7, <2>1, <3>2
      <4>2. PICK a \in Int, m \in Int : Performs(f, a, m)
        BY Performed
      <4>3. Wb(l, w)'
        BY <1>1, <3>2, <4>1, <4>2, WbEdge
      <4> QED
        BY <1>4, <2>3, <3>1, <4>3 DEF Behind
    <3>3. CASE ~(New(f) /\ l = p1.out.l)
      <4>1. ~cache[i].d
        <5>1. i = p1.idx /\ (\/ f.st = "CLEAR_DIRTY" \/ In("FLUSH_CACHE")
                             \/ In("FLUSH_CL") /\ w_flush_hit /\ ~p1.out.d)
          BY <1>1, <2>3 DEF Leaving, None, IDX
        <5>2. ~New(f)
          <6>1. New(f) => p1.out = cache[p1.idx]
            BY <1>1, Evicted
          <6> QED
            BY <2>1, <3>3, <5>1, <6>1
        <5>3. f.evict = <<>>
          BY <5>2 DEF New
        <5>4. f.st # "CLEAR_DIRTY"
          BY <1>1, <5>3 DEF HeldNext
        <5>5. CASE In("FLUSH_CACHE")
          BY <1>1, <5>1, <5>3, <5>5 DEF Reasons, Looks
        <5>6. CASE In("FLUSH_CL") /\ ~p1.out.d
          BY <1>1, <5>1, <5>6 DEF Looks
        <5> QED
          BY <5>1, <5>4, <5>5, <5>6
      <4>2. Behind(l, w)
        BY <1>1, <2>1, <4>1 DEF Copies
      <4>3. Behind(l, w)'
        BY <1>1, <3>3, <4>2, BehindStays
      <4> QED
        BY <1>4, <2>3, <3>1, <4>3
    <3> QED
      BY <3>2, <3>3
  <2>4. CASE Store(i) /\ ~Fill(i) /\ cache'[i].v /\ cache'[i].l = cache[i].l /\ cache[i].l = Line(p1.p)
             /\ cache'[i].w = Merge(IF mem_rsp_valid THEN [y \in WORDS |-> Junk] ELSE cache[i].w, p1.p)
    <3>1. t_wr_array /\ ~mem_rsp_valid /\ l = Line(p1.p)
      BY <2>1, <2>4 DEF Store, NoMultipleActions
    <3>2. v = cache'[i].w
      BY <2>1, <2>4, <3>1
    <3> QED
      BY <1>4, <2>1, <2>4, <3>2
  <2>5. CASE ~Store(i) /\ cache'[i] = cache[i]
    BY <1>4, <1>6, <2>1, <2>5
  <2> QED
    BY <1>1, <2>2, <2>3, <2>4, <2>5, SetEdge
<1>10. CASE ~Cached(l)
  <2>1. Behind(l, w) /\ ~(cache[i].v /\ cache[i].l = l)
    BY <1>3, <1>5, <1>10
  <2>2. v = w /\ ~(New(f) /\ l = p1.out.l)
    BY <1>6, <1>7, <2>1
  <2>3. Behind(l, w)'
    BY <1>1, <2>1, <2>2, BehindStays
  <2>4. ASSUME cache'[i].v, cache'[i].l = l PROVE w = cache'[i].w
    <3>1. Fill(i) /\ mem_rsp.l = l /\ cache'[i].w = mem_rsp.w
      BY <1>1, <2>1, <2>4, SetEdge
    <3> QED
      BY <1>8, <2>1, <3>1, Leaving1 DEF Behind
  <2> QED
    BY <1>4, <2>2, <2>3, <2>4
<1> QED
  BY <1>9, <1>10

(* What the memory holds: of each word the last store written to it.       *)
StoresTo(l, x) == {0} \cup {q \in 1 .. last : /\ prog[q].l = l /\ x \in prog[q].m
                                              /\ q \notin dead /\ DM!Stores(q)}
CInv == \A l \in LINES : \E w : /\ Holds(l, w)
                                /\ \A x \in WORDS : w[x] = DM!Max(StoresTo(l, x))

LEMMA MaxIs ==
  ASSUME NEW S \in SUBSET Int, NEW n \in S, \A y \in S : y <= n
  PROVE  DM!Max(S) = n
<1>1. DM!Max(S) = CHOOSE y \in S : \A z \in S : y >= z
  BY DEF DM!Max
<1>2. \A y \in S : (\A z \in S : y >= z) => y = n
  OBVIOUS
<1>3. \A z \in S : n >= z
  OBVIOUS
<1> QED
  BY <1>1, <1>2, <1>3

(* Without a write the last stores are what they were: what is squashed is *)
(* younger.                                                                *)
LEMMA NothingStored ==
  ASSUME NEW f, Step(f), Later, ~t_wr_array, NEW l, NEW x
  PROVE  StoresTo(l, x)' = StoresTo(l, x)
<1>1. /\ last \in Int /\ ret \in Int /\ prog' = prog /\ last' = last
  <2>1. last \in Int
    BY Sizes DEF Later
  <2>2. last' = last
    BY DEF Step, Edge, Back
  <2> QED
    BY <2>1, <2>2, Window1, CoreEdge
<1>2. \A r \in Int : r <= last => (r \in dead' <=> r \in dead)
  <2>1. CASE last <= ret
    <3>1. \A r \in Int : r <= last => r <= ret
      BY <1>1, <2>1
    <3> QED
      BY <3>1, DeadStays
  <2>2. CASE mode = "run"
    BY <2>2, DeadStays DEF StartsAgain
  <2> QED
    BY <2>1, <2>2 DEF Later
<1>3. ASSUME NEW q \in 1 .. last
      PROVE  (q \in dead' <=> q \in dead) /\ (DM!Stores(q)' <=> DM!Stores(q))
  <2>1. q \in Int /\ q <= last /\ \A r \in Int : r < q => r <= last
    BY <1>1
  <2> QED
    BY <1>2, <2>1, SameStores
<1>4. StoresTo(l, x)' = {0} \cup {q \in 1 .. last : /\ prog[q].l = l /\ x \in prog[q].m
                                                    /\ q \notin dead' /\ DM!Stores(q)'}
  BY <1>1 DEF StoresTo
<1> QED
  BY <1>3, <1>4 DEF StoresTo

(* A write is the next store that counts.                                  *)
LEMMA NextStored ==
  ASSUME NEW f, Step(f), SInv, t_wr_array, NEW l, NEW x
  PROVE  /\ StoresTo(l, x)' = StoresTo(l, x)
                               \cup Only(l = Line(p1.p) /\ x \in prog[p1.p].m, p1.p)
         /\ \A y \in StoresTo(l, x) : y < p1.p
         /\ p1.p \in Pos /\ last < p1.p /\ DM!Stores(p1.p)
         /\ \A q \in Int : last < q /\ q < p1.p /\ DM!Stores(q) => q \in dead
<1>1. /\ Squashed /\ Halts /\ Unfaulted /\ Graduates /\ Later /\ Kept /\ Link /\ IInv
      /\ ret \in Int /\ sent \in Int /\ last \in Int /\ 0 <= last
  BY Window1, Sizes DEF SInv, Later, Step
<1>2. PICK n : n = p1.p
  OBVIOUS
<1>3. /\ n \in Pos /\ n \in Int /\ 0 < n /\ n <= sent /\ n \notin dead /\ Busy1 /\ last < n
      /\ n <= ret \/ n = ret + 1
      /\ Kind(n) \in {"st", "sc"} /\ (Kind(n) = "sc" => w_match_link)
  BY <1>1, <1>2, Writing, Positions DEF Later
<1>4. dead' = dead /\ prog' = prog /\ last' = n
  <2>1. dead' = dead
    BY <1>3, DeadStays DEF StartsAgain
  <2> QED
    BY <1>2, <2>1, CoreEdge DEF Step, Edge, Back
<1>5. \A q \in Int : DM!Stores(q)' <=> DM!Stores(q)
  BY <1>4, SameStores
<1>6. DM!Stores(n) /\ n # 0
  <2>1. prog[n].k = Kind(n)
    BY <1>3 DEF Kind
  <2> QED
    BY <1>1, <1>2, <1>3, <2>1, LinkedIs DEF DM!Stores
<1>7. ASSUME NEW q \in Int, last < q, q < n, q \notin dead, DM!Stores(q) PROVE FALSE
  <2>1. q \in Pos /\ q <= sent /\ q <= ret
    BY <1>1, <1>3, <1>7, Sizes DEF Pos
  <2>2. Counts(q)
    BY <1>1, <1>7, <2>1 DEF Squashed, Counts
  <2>3. Waits1(q) \/ Ahead(q)
    BY <1>1, <1>7, <2>1, <2>2 DEF Kept
  <2>4. n < q
    <3>1. Ordered /\ q # n
      BY <1>1, <1>3, <1>7 DEF IInv
    <3> QED
      BY <1>2, <1>3, <2>3, <3>1 DEF Ordered, Waits1, Ahead, Queues, Waits2
  <2> QED
    BY <1>3, <1>7, <2>4
<1>8. StoresTo(l, x)' = {0} \cup {q \in 1 .. n : /\ prog[q].l = l /\ x \in prog[q].m
                                                 /\ q \notin dead /\ DM!Stores(q)'}
  BY <1>4 DEF StoresTo
<1>9. \A q : q \in 1 .. n <=> q \in 1 .. last \/ q = n \/ (q \in Int /\ last < q /\ q < n)
  BY <1>1, <1>3
<1>10. \A q : q \in 1 .. n => q \in Int
  OBVIOUS
<1>11. Line(n) = prog[n].l
  BY DEF Line
<1>12. StoresTo(l, x)' = StoresTo(l, x) \cup Only(l = Line(n) /\ x \in prog[n].m, n)
  <2>1. ASSUME NEW q PROVE q \in StoresTo(l, x)' <=> q \in StoresTo(l, x) \cup Only(l = Line(n) /\ x \in prog[n].m, n)
    <3>1. q \in StoresTo(l, x)' <=>
             q = 0 \/ (q \in 1 .. n /\ prog[q].l = l /\ x \in prog[q].m /\ q \notin dead /\ DM!Stores(q))
      <4>1. q \in StoresTo(l, x)' <=>
               q = 0 \/ (q \in 1 .. n /\ prog[q].l = l /\ x \in prog[q].m /\ q \notin dead /\ DM!Stores(q)')
        BY <1>8
      <4>2. q \in 1 .. n => (DM!Stores(q)' <=> DM!Stores(q))
        BY <1>5, <1>10
      <4> QED
        BY <4>1, <4>2
    <3>2. q \in StoresTo(l, x) <=>
             q = 0 \/ (q \in 1 .. last /\ prog[q].l = l /\ x \in prog[q].m /\ q \notin dead /\ DM!Stores(q))
      BY DEF StoresTo
    <3>3. q \in Only(l = Line(n) /\ x \in prog[n].m, n) <=> q = n /\ l = prog[n].l /\ x \in prog[n].m
      BY <1>11 DEF Only
    <3>4. q \in 1 .. n <=> q \in 1 .. last \/ q = n \/ (q \in Int /\ last < q /\ q < n)
      BY <1>9
    <3>5. ~(q \in Int /\ last < q /\ q < n /\ q \notin dead /\ DM!Stores(q))
      BY <1>7
    <3>6. q = n => q \notin dead /\ DM!Stores(q)
      BY <1>3, <1>6
    <3> QED
      BY ONLY <3>1, <3>2, <3>3, <3>4, <3>5, <3>6, Zenon
  <2> QED
    BY <2>1
<1>13. \A y \in StoresTo(l, x) : y < n
  BY <1>1, <1>3 DEF StoresTo
<1>14. \A q \in Int : last < q /\ q < n /\ DM!Stores(q) => q \in dead
  BY <1>7
<1> QED
  BY <1>2, <1>3, <1>6, <1>12, <1>13, <1>14

(* A step changes what a line holds as it changes the last stores to it.   *)
LEMMA ContentsEdge ==
  ASSUME NEW f, Step(f), SInv, NEW l, NEW w, NEW v,
         \A x \in WORDS : w[x] = DM!Max(StoresTo(l, x)),
         v = IF t_wr_array /\ l = Line(p1.p) THEN Merge(w, p1.p) ELSE w
  PROVE  \A x \in WORDS : v[x] = DM!Max(StoresTo(l, x)')
<1>1. Later
  BY DEF SInv
<1> SUFFICES ASSUME NEW x \in WORDS PROVE v[x] = DM!Max(StoresTo(l, x)')
  OBVIOUS
<1>2. CASE ~t_wr_array
  <2>1. StoresTo(l, x)' = StoresTo(l, x)
    BY <1>1, <1>2, NothingStored
  <2> QED
    BY <1>2, <2>1
<1>3. CASE t_wr_array /\ l = Line(p1.p) /\ x \in prog[p1.p].m
  <2>1. PICK n, S, T : n = p1.p /\ S = StoresTo(l, x) /\ T = StoresTo(l, x)'
    OBVIOUS
  <2>2. T = S \cup {n} /\ n \in Int /\ \A y \in S : y < n
    BY <1>3, <2>1, NextStored, Positions DEF Only
  <2>3. S \subseteq Int
    BY <2>1 DEF StoresTo
  <2>4. DM!Max(T) = n
    BY <2>2, <2>3, MaxIs
  <2>5. v[x] = n
    BY <1>3, <2>1 DEF Merge
  <2> QED
    BY <2>1, <2>4, <2>5
<1>4. CASE t_wr_array /\ ~(l = Line(p1.p) /\ x \in prog[p1.p].m)
  <2>1. StoresTo(l, x)' = StoresTo(l, x)
    BY <1>4, NextStored DEF Only
  <2>2. v[x] = w[x]
    BY <1>4 DEF Merge
  <2> QED
    BY <2>1, <2>2
<1> QED
  BY <1>2, <1>3, <1>4

LEMMA CInvStep ==
  ASSUME NEW f, Step(f), DInv, SInv, CInv, NoMultipleActions
  PROVE  CInv'
<1> SUFFICES ASSUME NEW l \in LINES
             PROVE  \E w : Holds(l, w)' /\ \A x \in WORDS : w[x] = DM!Max(StoresTo(l, x)')
  BY DEF CInv, Holds, Cached, Behind, Wb, Leaves, StoresTo, DM!Max
<1>1. PICK w : Holds(l, w) /\ \A x \in WORDS : w[x] = DM!Max(StoresTo(l, x))
  BY DEF CInv
<1>2. PICK v : v = IF t_wr_array /\ l = Line(p1.p) THEN Merge(w, p1.p) ELSE w
  OBVIOUS
<1>3. Holds(l, v)'
  BY <1>1, <1>2, ViewEdge
<1>4. \A x \in WORDS : v[x] = DM!Max(StoresTo(l, x)')
  BY <1>1, <1>2, ContentsEdge
<1> QED
  BY <1>3, <1>4

LEMMA InitCInv == ASSUME Init PROVE CInv
<1> SUFFICES ASSUME NEW l \in LINES PROVE \E w : Holds(l, w) /\ \A x \in WORDS : w[x] = DM!Max(StoresTo(l, x))
  BY DEF CInv
<1>1. PIdx[l] \in IDX
  BY Sizes
<1>2. ~cache[PIdx[l]].v /\ mem[l] = Zero /\ l2 = <<>> /\ eb = <<>>
  BY <1>1 DEF Init, Unread
<1>3. Holds(l, Zero)
  BY <1>2, NoLeaver DEF Holds, Cached, Behind
<1>4. \A x : StoresTo(l, x) = {0}
  BY DEF Init, StoresTo
<1>5. DM!Max({0}) = 0
  BY MaxIs
<1> QED
  BY <1>3, <1>4, <1>5 DEF Zero

LEMMA NextCInv == IInv /\ DInv /\ SInv /\ CInv /\ NoMultipleActions /\ [Next]_vars => CInv'
<1> SUFFICES ASSUME IInv, DInv, SInv, CInv, NoMultipleActions, [Next]_vars PROVE CInv'
  OBVIOUS
<1>1. CASE Next
  BY <1>1, NextStep, CInvStep
<1>2. CASE UNCHANGED vars
  <2> USE <1>2 DEF vars, core, front, queue, back
  <2>1. \A l, w : Holds(l, w)' <=> Holds(l, w)
    BY DEF Holds, Cached, Behind, Wb, Leaves
  <2>2. \A l, x : StoresTo(l, x)' = StoresTo(l, x)
    BY DEF StoresTo, DM!Stores, DM!Linked
  <2>3. CInv' <=> \A l \in LINES : \E w : Holds(l, w)' /\ \A x \in WORDS : w[x] = DM!Max(StoresTo(l, x)')
    BY DEF CInv, Holds, Cached, Behind, Wb, Leaves, StoresTo, DM!Max
  <2> QED
    BY <2>1, <2>2, <2>3 DEF CInv
<1> QED
  BY <1>1, <1>2

LEMMA CoherentIs == ASSUME IInv, DInv, CInv PROVE Coherent
<1> SUFFICES ASSUME NEW l \in LINES, NEW x \in WORDS PROVE View(l)[x] = DM!LastStore(l, x, last)
  BY DEF Coherent
<1>1. PICK w : Holds(l, w) /\ \A y \in WORDS : w[y] = DM!Max(StoresTo(l, y))
  BY DEF CInv
<1>2. View(l) = w
  BY <1>1, ViewIs DEF DInv
<1>3. DM!LastStore(l, x, last) = DM!Max(StoresTo(l, x))
  BY DEF DM!LastStore, StoresTo
<1> QED
  BY <1>1, <1>2, <1>3

(* The memory the core sees is that of its retired stores (nu_l1d.sv, the  *)
(* whole of it), as long as no write meets an answer of the L2: the source *)
(* checks that they do not.                                                *)
THEOREM StoresAreKept == Spec /\ []NoMultipleActions => []Coherent
<1>1. Init => CInv
  BY InitCInv
<1>2. IInv /\ DInv /\ SInv /\ CInv /\ NoMultipleActions /\ [Next]_vars => CInv'
  BY NextCInv
<1>3. IInv /\ DInv /\ CInv => Coherent
  BY CoherentIs
<1> QED
  BY <1>1, <1>2, <1>3, SInvariance, PTL DEF Spec

(* A plain store keeps the answers of the L2 back (mem_rsp_valid), so in a *)
(* program without store-conditionals the two never meet.                  *)
Plain == \A prg \in PROGRAMS : \A p \in Pos : prg[p].k # "sc"
LEMMA PlainNeverMeets == ASSUME Plain PROVE Spec => []NoMultipleActions
<1>1. IInv => NoMultipleActions
  <2> SUFFICES ASSUME IInv, t_wr_array, mem_rsp_valid PROVE FALSE
    BY DEF NoMultipleActions
  <2>1. p1.got /\ p1.p \in Pos /\ Kind(p1.p) \in {"st", "sc"} /\ prog \in PROGRAMS
    BY Storing, Live, Registers DEF IInv
  <2>2. Kind(p1.p) # "sc"
    BY <2>1, Positions DEF Kind, Plain
  <2> QED
    BY <2>1, <2>2 DEF mem_rsp_valid, IsStore
<1> QED
  BY <1>1, Invariance, PTL

(* So there the memory is that of the retired stores, without a condition. *)
THEOREM PlainStoresAreKept == ASSUME Plain PROVE Spec => []Coherent
  BY PlainNeverMeets, StoresAreKept, PTL

-----------------------------------------------------------------------------
(* What loads are given.  The stores a load must see are those written,    *)
(* once no older one that names its word waits.                            *)
OlderDone(p, l, x) == \A q \in Pos : /\ last < q /\ q < p /\ Counts(q)
                                     /\ Line(q) = l /\ x \in prog[q].m
                                     => ~Waits1(q) /\ ~Ahead(q)
BeforeIs == \A p \in Pos : \A l, x :
  /\ p <= sent /\ last < p /\ ~WrongPath(p) /\ Kind(p) \in {"ld", "ll"} /\ OlderDone(p, l, x)
  => DM!LastStore(l, x, p) = DM!Max(StoresTo(l, x))

LEMMA Before == IInv /\ SInv => BeforeIs
<1> SUFFICES ASSUME IInv, SInv, NEW p \in Pos, NEW l, NEW x, p <= sent, last < p, ~WrongPath(p),
                    Kind(p) \in {"ld", "ll"}, OlderDone(p, l, x)
             PROVE  DM!LastStore(l, x, p) = DM!Max(StoresTo(l, x))
  BY DEF BeforeIs
<1>1. /\ Squashed /\ Kept /\ Pos \subseteq Int /\ p \in Int /\ last \in Int /\ 0 <= last
      /\ ret \in Int /\ sent \in Int /\ p \in 1 .. N /\ Later
  BY Registers, Positions, Sizes DEF IInv, SInv, Later, Pos
<1>2. ~(mode # "run" /\ p > ret) /\ \A q \in ret + 1 .. p - 1 : ~Faults(q)
  BY DEF WrongPath
<1>3. ASSUME NEW q \in Int, last < q, q <= p, q \notin dead, DM!Stores(q), prog[q].l = l, x \in prog[q].m
      PROVE  FALSE
  <2>1. q \in Pos /\ q # 0 /\ q <= sent
    BY <1>1, <1>3, Sizes DEF Pos
  <2>2. Kind(q) \in {"st", "sc"}
    BY <1>3, <2>1 DEF DM!Stores, Kind
  <2>3. q < p
    BY <1>1, <1>3, <2>2
  <2>4. ~Faults(q) /\ (mode = "run" \/ q <= ret)
    <3>1. CASE q <= ret
      BY <1>1, <1>3, <2>1, <3>1 DEF Squashed
    <3>2. CASE ~(q <= ret)
      <4>1. q \in ret + 1 .. p - 1 /\ p > ret
        BY <1>1, <2>3, <3>2
      <4> QED
        BY <1>2, <4>1, Registers DEF IInv
    <3> QED
      BY <3>1, <3>2
  <2>5. Counts(q)
    BY <1>3, <2>4 DEF Counts
  <2>6. Waits1(q) \/ Ahead(q)
    BY <1>1, <1>3, <2>1, <2>4, <2>5 DEF Kept
  <2>7. Line(q) = l
    BY <1>3 DEF Line
  <2> QED
    BY <1>3, <2>1, <2>3, <2>5, <2>6, <2>7 DEF OlderDone
<1>4. \A q : q \in 1 .. p <=> q \in 1 .. last \/ (q \in Int /\ last < q /\ q <= p)
  BY <1>1
<1>5. DM!LastStore(l, x, p) = DM!Max({0} \cup {q \in 1 .. p : /\ prog[q].l = l /\ x \in prog[q].m
                                                              /\ q \notin dead /\ DM!Stores(q)})
  BY DEF DM!LastStore
<1>6. {q \in 1 .. p : prog[q].l = l /\ x \in prog[q].m /\ q \notin dead /\ DM!Stores(q)}
        = {q \in 1 .. last : prog[q].l = l /\ x \in prog[q].m /\ q \notin dead /\ DM!Stores(q)}
  BY <1>3, <1>4
<1> QED
  BY <1>5, <1>6 DEF StoresTo

(* Port 1 gives a load what its line holds.                                *)
LEMMA PortOneIs ==
  ASSUME IInv, DInv, SInv, CInv, Answer1, Kind(p1.p) \in {"ld", "ll"}, ~WrongPath(p1.p)
  PROVE  Loaded(p1.p, p1.out.w) = DM!Answer(p1.p)
<1>1. PICK p \in Pos : p = p1.p /\ p <= sent /\ p \in Int /\ Line(p) \in LINES
  BY Live, Operation, Registers, Positions DEF Answer1, w_got_hit, Busy1, IInv
<1>2. Busy1 /\ p1.got /\ p1.idx = PIdx[Line(p)] /\ p1.out = cache[PIdx[Line(p)]]
      /\ p1.out.v /\ p1.out.l = Line(p)
  BY <1>1 DEF Answer1, w_got_hit, w_cache_port1_hit, Busy1, IInv, Port1Inv, Set1, IdxOf
<1>3. \A x \in WORDS : p1.out.w[x] = DM!Max(StoresTo(Line(p), x))
  <2>1. PICK w : Holds(Line(p), w) /\ \A x \in WORDS : w[x] = DM!Max(StoresTo(Line(p), x))
    BY <1>1 DEF CInv
  <2>2. w = p1.out.w
    BY <1>2, <2>1 DEF Holds, Cached
  <2> QED
    BY <2>1, <2>2
<1>4. ASSUME NEW x PROVE OlderDone(p, Line(p), x)
  <2> SUFFICES ASSUME NEW q \in Pos, q < p, Waits1(q) \/ Ahead(q) PROVE FALSE
    BY DEF OlderDone
  <2>1. q \in Int /\ Ordered
    BY Positions DEF IInv
  <2>2. q # p
    BY <1>1, <2>1
  <2>3. p < q
    BY <1>1, <1>2, <2>1, <2>2 DEF Ordered, Waits1, Ahead, Queues, Waits2
  <2> QED
    BY <1>1, <2>1, <2>3
<1>5. last < p
  BY <1>1, <1>2 DEF SInv, Later
<1>6. \A x : DM!LastStore(Line(p), x, p) = DM!Max(StoresTo(Line(p), x))
  BY <1>1, <1>4, <1>5, Before DEF BeforeIs
<1>7. prog[p].m \subseteq WORDS /\ Line(p) = prog[p].l
  BY <1>1, Operation, Registers DEF Line, IInv
<1> QED
  BY <1>1, <1>3, <1>6, <1>7 DEF Loaded, DM!Answer

(* What port 2 learns of a request it accepts.                             *)
LEMMA AcceptEdge ==
  ASSUME NEW f, Step(f), t_accept(f), ~f.replay
  PROVE  /\ p2'.got /\ p2'.p = req
         /\ \A j \in DOMAIN mq : /\ Low[VIdx(mq[j])] = Low[VIdx(req)] /\ IsStore(mq[j])
                                 /\ prog[mq[j]].m \cap prog[req].m # {}
                                 => p2'.addr
         /\ p2'.out = IF p1.got /\ p1.lw /\ p1.idx = VIdx(req)
                      THEN [cache[VIdx(req)] EXCEPT !.w = Merge(p1.out.w, p1.p)]
                      ELSE cache[VIdx(req)]
<1>1. Port2(f, TRUE) /\ p2'.got /\ p2'.p = req
  BY Port2Edge DEF Step, Edge
<1>2. p2'.addr = \E j \in {j \in DOMAIN mq : Low[VIdx(mq[j])] = Low[VIdx(req)]} :
                    /\ IsStore(mq[j]) /\ prog[mq[j]].m \cap prog[req].m # {}
  BY <1>1 DEF Port2
<1>3. p2'.out = IF p1.got /\ p1.lw /\ p1.idx = VIdx(req)
                THEN [cache[VIdx(req)] EXCEPT !.w = Merge(p1.out.w, p1.p)]
                ELSE cache[VIdx(req)]
  BY <1>1 DEF Port2
<1> QED
  BY <1>1, <1>2, <1>3

(* A store on port 2 is marked, so that no load is accepted behind it.     *)
Marks2 == p2.got /\ IsStore(p2.p) /\ ~p2.nop => p2.lw
LEMMA Marks2Step == ASSUME NEW f, Step(f) PROVE Marks2'
<1>1. Port2(f, t_accept(f)) /\ prog' = prog
  BY CoreEdge DEF Step, Edge
<1> DEFINE got == f.replay \/ t_accept(f)
           new == IF f.replay THEN p2.p ELSE req
           nop == f.fault \/ (p2.nop /\ ~t_accept(f))
<1>2. p2'.got = got /\ p2'.p = (IF got THEN new ELSE p2.p) /\ p2'.nop = nop
      /\ p2'.lw = (got /\ IsStore(new) /\ ~nop)
  BY <1>1 DEF Port2
<1>3. IsStore(p2.p)' <=> IsStore(p2'.p)
  BY <1>1 DEF IsStore, Kind
<1>4. got => (IsStore(p2'.p) <=> IsStore(new))
  BY <1>2
<1> QED
  BY <1>2, <1>3, <1>4 DEF Marks2

(* Where a line has one virtual name, a store that counts and waits while  *)
(* its load is accepted is in the queue, and port 2 sees it there.         *)
OneName == \A prg \in PROGRAMS : \A p, q \in Pos : prg[p].l = prg[q].l => prg[p].v = prg[q].v
LEMMA SeesOlder ==
  ASSUME NEW f, Step(f), SInv, Marks2, OneName, t_accept(f), ~f.replay, Kind(req) = "ld",
         VIdx(req) = IdxOf(req), NEW q \in Pos, q < req, Kind(q) \in {"st", "sc"}, ~Faults(q),
         Line(q) = Line(req), prog[q].m \cap prog[req].m # {}, Waits1(q)' \/ Ahead(q)'
  PROVE  p2'.addr
<1>1. /\ IInv /\ Nops /\ req # 0 /\ req \in Pos /\ ret < req /\ req <= sent /\ prog \in PROGRAMS
      /\ w_hit_or_idle /\ ~n_pending_tlb_miss /\ ~r_pending_tlb_miss
      /\ ~(p2.lw /\ p2.idx = VIdx(req) /\ ~IsStore(req)) /\ ~w_reload_line(f)
      /\ Pos \subseteq Int /\ ret \in Int /\ sent \in Int
  BY Live, Registers, Positions DEF Step, SInv, t_accept, t_new_req, IInv
<1>2. VIdx(q) = VIdx(req) /\ IdxOf(q) = IdxOf(req)
  BY <1>1 DEF OneName, VIdx, Line, IdxOf
<1>3. ASSUME Kind(q) = "sc", q <= sent, Awaited(q) PROVE FALSE
  <2>1. Window
    BY <1>1 DEF IInv
  <2>2. req = q
    BY <1>1, <1>3, <2>1 DEF Window, Serial, Awaited
  <2> QED
    BY <1>1, <2>2
<1>4. CASE Queues(q)
  <2>1. PICK j \in DOMAIN mq : mq[j] = q
    BY <1>4 DEF Queues
  <2>2. Queued(q) /\ q <= sent
    BY <1>1, <2>1, Live
  <2>3. IsStore(q)
    BY <1>3, <2>2 DEF Queued, IsStore
  <2> QED
    BY <1>2, <2>1, <2>3, AcceptEdge
<1>5. CASE Waits2(q)
  <2>1. p2.p = q /\ p2.got /\ Busy2
    BY <1>1, <1>5 DEF Waits2, Busy2
  <2>2. Awaited(q) /\ q <= sent
    BY <1>1, <2>1, Live
  <2>3. IsStore(q)
    BY <1>3, <2>2 DEF IsStore
  <2>4. ~p2.nop
    BY <1>1, <2>1 DEF Nops, Faults
  <2>5. p2.idx = VIdx(req)
    BY <1>1, <1>2, <2>1 DEF IInv, Port2Inv
  <2> QED
    BY <1>1, <2>1, <2>3, <2>4, <2>5 DEF Marks2, IsStore
<1>6. CASE Busy1 /\ p1.p = q /\ ~w_got_hit
  <2>1. ~p1.got /\ Held
    BY <1>1, <1>6 DEF w_hit_or_idle, w_got_hit, Busy1
  <2>2. r_state # "ACTIVE" /\ VIdx(req) = r_miss_idx
    BY <1>1, <1>2, <1>6, <2>1 DEF IInv, Port1Inv, Held, Set1
  <2> QED
    BY <1>1, <2>2 DEF w_reload_line
<1>7. CASE Waits1(q)'
  <2>1. Busy1' /\ p1'.p = q
    BY <1>7 DEF Waits1
  <2>2. CASE f.pop
    <3>1. q = Head(mq) /\ mq # <<>> /\ mq \in Seq(Pos)
      BY <1>1, <2>1, <2>2, Move1 DEF IInv, Types
    <3>2. Queues(q)
      BY <3>1 DEF Queues
    <3> QED
      BY <1>4, <3>2
  <2>3. CASE ~f.pop
    BY <1>6, <2>1, <2>3, Move1
  <2> QED
    BY <2>2, <2>3
<1>8. CASE Ahead(q)'
  <2>1. Ahead(q) \/ q = sent + 1
    BY <1>8, CameAhead
  <2>2. q # sent + 1 /\ q # req
    BY <1>1
  <2> QED
    BY <1>4, <1>5, <2>1, <2>2 DEF Ahead
<1> QED
  BY <1>7, <1>8

(* What port 2 read of the line is what its load must return.              *)
Reads2 == \A p \in Pos :
  /\ p2.got /\ p2.p = p /\ Kind(p) = "ld" /\ p2.out.v /\ p2.out.l = Line(p) /\ ~p2.addr
  /\ ~r_pending_tlb_miss /\ ~WrongPath(p)
  => \A x \in prog[p].m : p2.out.w[x] = DM!LastStore(Line(p), x, p)

LEMMA Reads2Step ==
  ASSUME NEW f, Step(f), DInv, SInv, CInv, Marks2, OneName, NoMultipleActions
  PROVE  Reads2'
<1> SUFFICES ASSUME NEW p \in Pos, p = p2'.p, p2'.got, Kind(p)' = "ld", p2'.out.v, p2'.out.l = Line(p)',
                    ~p2'.addr, ~r_pending_tlb_miss', ~WrongPath(p)', NEW x, x \in prog'[p].m
             PROVE  p2'.out.w[x] = DM!LastStore(Line(p), x, p)'
  BY DEF Reads2
<1>1. /\ IInv /\ IInv' /\ SInv' /\ Home /\ Later /\ prog' = prog /\ cache \in [IDX -> Line1]
      /\ Ordered /\ Kind(p) = "ld" /\ Line(p)' = Line(p)
      /\ Pos \subseteq Int /\ ret \in Int /\ last \in Int
  BY StepIInv, StepSInv, SameProgram, Registers, Positions, Sizes DEF Step, DInv, SInv, IInv, Later
<1>2. ~f.replay /\ t_accept(f) /\ p = req
  <2>1. f.replay => r_pending_tlb_miss /\ ~p2.got
    BY <1>1 DEF Step, Controls, WalkNext, IInv, Port2Inv, Walking, In
  <2>2. f.replay => r_pending_tlb_miss'
    BY <2>1, Port2Edge DEF n_pending_tlb_miss
  <2> QED
    BY <2>2, Port2Edge
<1>3. /\ req # 0 /\ w_hit_or_idle /\ Awaited(p) /\ p \in Pos /\ p <= sent /\ ret < p /\ p \notin done
      /\ VIdx(p) \in IDX /\ Line(p) \in LINES /\ prog[p].m \subseteq WORDS /\ p \in Int
  BY <1>1, <1>2, Live, Operation, Registers DEF t_accept, t_new_req, Awaited, IInv
<1>4. PICK i \in IDX : i = VIdx(p)
  BY <1>3
<1>5. p2'.out = IF p1.got /\ p1.lw /\ p1.idx = i
                THEN [cache[i] EXCEPT !.w = Merge(p1.out.w, p1.p)] ELSE cache[i]
  BY <1>2, <1>4, AcceptEdge
<1>6. cache[i] \in Line1 /\ p2'.out.v = cache[i].v /\ p2'.out.l = cache[i].l
      /\ p2'.out.w = IF p1.got /\ p1.lw /\ p1.idx = i THEN Merge(p1.out.w, p1.p) ELSE cache[i].w
  BY <1>1, <1>5 DEF Line1
<1>7. cache[i].v /\ cache[i].l = Line(p) /\ PIdx[Line(p)] = i /\ Cached(Line(p))
  BY <1>1, <1>6 DEF Home, Cached
<1>8. PICK w : w = cache[i].w /\ \A y \in WORDS : w[y] = DM!Max(StoresTo(Line(p), y))
  <2>1. PICK w : Holds(Line(p), w) /\ \A y \in WORDS : w[y] = DM!Max(StoresTo(Line(p), y))
    BY <1>3 DEF CInv
  <2> QED
    BY <1>7, <2>1 DEF Holds
<1>9. PICK v : v = IF t_wr_array /\ Line(p) = Line(p1.p) THEN Merge(w, p1.p) ELSE w
  OBVIOUS
<1>10. v[x] = DM!Max(StoresTo(Line(p), x)')
  <2>1. PICK l : l = Line(p) /\ l = Line(p)'
    BY <1>1
  <2>2. \A y \in WORDS : w[y] = DM!Max(StoresTo(l, y))
    BY <1>8, <2>1
  <2>3. v = IF t_wr_array /\ l = Line(p1.p) THEN Merge(w, p1.p) ELSE w
    BY <1>9, <2>1
  <2>4. \A y \in WORDS : v[y] = DM!Max(StoresTo(l, y)')
    BY <2>2, <2>3, ContentsEdge
  <2>5. StoresTo(l, x)' = StoresTo(Line(p), x)'
    BY <2>1 DEF StoresTo
  <2> QED
    BY <1>1, <1>3, <2>4, <2>5
<1>11. p2'.out.w = v
  <2>1. CASE p1.got /\ p1.lw /\ p1.idx = i
    <3>1. In("ACTIVE") /\ w_got_hit /\ p1.out = cache[i] /\ Kind(p1.p) \in {"st", "sc"} /\ Busy1
      BY <1>1, <1>3, <2>1 DEF w_hit_or_idle, w_got_hit, IInv, Port1Inv, Busy1
    <3>2. Kind(p1.p) = "st"
      BY <1>1, <1>3, <3>1, SerialAlone
    <3>3. t_wr_array /\ Line(p) = Line(p1.p)
      BY <1>7, <3>1, <3>2 DEF t_wr_array, In, w_got_hit, w_cache_port1_hit
    <3> QED
      BY <1>6, <1>8, <1>9, <2>1, <3>1, <3>3
  <2>2. CASE ~(p1.got /\ p1.lw /\ p1.idx = i)
    <3>1. ~(t_wr_array /\ Line(p) = Line(p1.p))
      <4> SUFFICES ASSUME t_wr_array, Line(p) = Line(p1.p) PROVE FALSE
        OBVIOUS
      <4>1. p1.got /\ p1.idx = i /\ p1.lw
        BY <1>1, <1>3, <1>7, Storing DEF Set1, IdxOf
      <4> QED
        BY <2>2, <4>1
    <3> QED
      BY <1>6, <1>8, <1>9, <2>2, <3>1
  <2> QED
    BY <2>1, <2>2
<1>12. DM!LastStore(Line(p), x, p)' = DM!Max(StoresTo(Line(p), x)')
  <2>1. BeforeIs'
    BY <1>1, Before, PTL
  <2>2. p <= sent'
    BY <1>1, <1>3, Window1
  <2>3. last' < p
    <3>1. t_wr_array => p1.p < p
      BY <1>1, <1>2, <1>3, Storing DEF Ordered
    <3>2. last < p
      BY <1>1, <1>3 DEF Later
    <3> QED
      BY <3>1, <3>2 DEF Step, Edge, Back
  <2>4. OlderDone(p, Line(p), x)'
    <3> SUFFICES ASSUME NEW q \in Pos, q < p, Counts(q)', Line(q)' = Line(p)', x \in prog'[q].m,
                        Waits1(q)' \/ Ahead(q)'
                 PROVE  FALSE
      BY DEF OlderDone, Line
    <3>1. Line(q) = Line(p) /\ ~Faults(q) /\ x \in prog[q].m \cap prog[p].m
      BY <1>1, SameProgram DEF Counts
    <3>2. Kind(q) \in {"st", "sc"}
      BY <1>1, Positions DEF Counts, DM!Stores, Kind
    <3>3. VIdx(req) = IdxOf(req)
      BY <1>2, <1>4, <1>7 DEF IdxOf
    <3>4. p2'.addr
      BY <1>1, <1>2, <3>1, <3>2, <3>3, SeesOlder
    <3> QED
      BY <3>4
  <2>5. BeforeIs' => (/\ p <= sent' /\ last' < p /\ ~WrongPath(p)' /\ Kind(p)' \in {"ld", "ll"}
                      /\ OlderDone(p, Line(p), x)'
                      => DM!LastStore(Line(p), x, p)' = DM!Max(StoresTo(Line(p), x))')
    BY <1>3 DEF BeforeIs
  <2> QED
    BY <2>1, <2>2, <2>3, <2>4, <2>5
<1> QED
  BY <1>1, <1>10, <1>11, <1>12

(* Port 2 gives a load what the stores before it wrote.                    *)
LEMMA PortTwoIs ==
  ASSUME IInv, Reads2, ReadHit2, ~WrongPath(p2.p)
  PROVE  Loaded(p2.p, p2.out.w) = DM!Answer(p2.p)
<1>1. p2.got /\ Kind(p2.p) = "ld" /\ p2.out.v /\ p2.out.l = Line(p2.p) /\ ~p2.addr /\ ~r_pending_tlb_miss
  BY DEF ReadHit2, Ready2, Access2, Live2, w_port2_rd_hit, w_port2_hit_cache
<1>2. PICK p \in Pos : p = p2.p
  BY <1>1, Live DEF Busy2
<1>3. \A x \in prog[p].m : p2.out.w[x] = DM!LastStore(Line(p), x, p)
  BY <1>1, <1>2 DEF Reads2
<1>4. Line(p) = prog[p].l
  BY DEF Line
<1> QED
  BY <1>2, <1>3, <1>4 DEF Loaded, DM!Answer

(* What does not count will not count, or is squashed.                     *)
LEMMA WrongStays ==
  ASSUME NEW f, Step(f), NEW p \in Pos, p <= sent, WrongPath(p)
  PROVE  WrongPath(p)' \/ p \in dead'
<1>1. ret \in Int /\ sent \in Int /\ p \in Int /\ \A q \in Int : Faults(q)' <=> Faults(q)
  BY Window1, SameProgram
<1>2. p > ret
  <2>1. ASSUME NEW q \in ret + 1 .. p - 1 PROVE p > ret
    BY <1>1
  <2> QED
    BY <2>1 DEF WrongPath
<1>3. CASE StartsAgain
  <2>1. p \in ret + 1 .. sent
    BY <1>1, <1>2
  <2> QED
    BY <1>3, <2>1 DEF StartsAgain
<1>4. CASE mode # "run" /\ ~StartsAgain
  <2>1. ret' = ret /\ mode' # "run"
    BY <1>4, CoreStep DEF Rests, Graduated, StopsAtFault
  <2> QED
    BY <1>2, <2>1 DEF WrongPath
<1>5. CASE (\E q \in ret + 1 .. p - 1 : Faults(q)) /\ ~StartsAgain
  <2>1. PICK q \in ret + 1 .. p - 1 : Faults(q)
    BY <1>5
  <2>2. q \in Int /\ ret < q /\ q <= p - 1 /\ ret' \in Int
    BY <1>1, Window1
  <2>3. q > ret'
    <3>1. ret' = ret \/ \A r \in ret + 1 .. ret' : ~Faults(r)
      BY <1>5, CoreStep DEF Rests, Graduated, StopsAtFault, Retires
    <3>2. q <= ret' => q \in ret + 1 .. ret'
      BY <2>2
    <3> QED
      BY <1>1, <2>1, <2>2, <3>1, <3>2
  <2>4. q \in ret' + 1 .. p - 1
    <3>1. PICK n \in Int : n = ret'
      BY <2>2
    <3>2. q > n /\ q <= p - 1
      BY <2>2, <2>3, <3>1
    <3>3. q \in n + 1 .. p - 1
      BY <1>1, <2>2, <3>2
    <3> QED
      BY <3>1, <3>3
  <2>5. Faults(q)'
    BY <1>1, <2>1, <2>2
  <2>6. WrongPath(p)' <=> (mode' # "run" /\ p > ret') \/ \E r \in ret' + 1 .. p - 1 : Faults(r)'
    BY DEF WrongPath, Faults, Kind
  <2> QED
    BY <2>4, <2>5, <2>6
<1> QED
  BY <1>3, <1>4, <1>5 DEF WrongPath

(* What a load must return is settled when it is sent.                     *)
LEMMA AnswerStays ==
  ASSUME NEW f, Step(f), NEW p \in Pos, p <= sent, p \notin dead'
  PROVE  DM!Answer(p)' = DM!Answer(p)
<1>1. ret \in Int /\ sent \in Int /\ p \in Int /\ prog' = prog
  BY Window1, CoreEdge
<1>2. \A r \in Int : r <= p => (r \in dead' <=> r \in dead)
  <2>1. CASE StartsAgain
    <3>1. p <= ret
      <4>1. p \notin ret + 1 .. sent
        BY <2>1 DEF StartsAgain
      <4> QED
        BY <1>1, <4>1
    <3>2. \A r \in Int : r <= p => r <= ret
      BY <1>1, <3>1
    <3> QED
      BY <3>2, DeadStays
  <2>2. CASE ~StartsAgain
    BY <2>2, DeadStays
  <2> QED
    BY <2>1, <2>2
<1>3. ASSUME NEW q \in 1 .. p
      PROVE  (q \in dead' <=> q \in dead) /\ (DM!Stores(q)' <=> DM!Stores(q))
  <2>1. q \in Int /\ q <= p /\ \A r \in Int : r < q => r <= p
    BY <1>1
  <2> QED
    BY <1>2, <2>1, SameStores
<1>4. ASSUME NEW l, NEW x PROVE DM!LastStore(l, x, p)' = DM!LastStore(l, x, p)
  <2>1. DM!LastStore(l, x, p)' =
          DM!Max({0} \cup {q \in 1 .. p : /\ prog[q].l = l /\ x \in prog[q].m
                                          /\ q \notin dead' /\ DM!Stores(q)'})
    BY <1>1 DEF DM!LastStore, DM!Max
  <2>2. {q \in 1 .. p : prog[q].l = l /\ x \in prog[q].m /\ q \notin dead' /\ DM!Stores(q)'}
          = {q \in 1 .. p : prog[q].l = l /\ x \in prog[q].m /\ q \notin dead /\ DM!Stores(q)}
    BY <1>3
  <2> QED
    BY <2>1, <2>2 DEF DM!LastStore
<1>5. PICK l : l = prog[p].l /\ l = prog'[p].l
  BY <1>1
<1>6. DM!Answer(p)' = [x \in WORDS |-> IF x \in prog[p].m THEN DM!LastStore(l, x, p)' ELSE 0]
  BY <1>1, <1>5 DEF DM!Answer, DM!LastStore
<1>7. DM!Answer(p) = [x \in WORDS |-> IF x \in prog[p].m THEN DM!LastStore(l, x, p) ELSE 0]
  BY <1>5 DEF DM!Answer
<1> QED
  BY <1>4, <1>6, <1>7

(* A step answers at most one load that counts, with what it must return.  *)
Given(p) == /\ ret < p /\ p <= sent /\ p \notin done /\ Kind(p) \in {"ld", "ll"}
            /\ res' = [res EXCEPT ![p] = DM!Answer(p)]

LEMMA GivenOne ==
  ASSUME NEW f, Step(f), DInv, SInv, CInv, Reads2
  PROVE  res' = res \/ \E p \in Pos : Given(p)
<1>1. IInv /\ Results
  BY DEF Step, Edge
<1>2. ASSUME Answer1, Kind(p1.p) \in {"ld", "ll"}, ~WrongPath(p1.p)
      PROVE  p1.p \in Pos /\ Given(p1.p)
  <2>1. Busy1 /\ p1.p \in Pos /\ Awaited(p1.p)
    BY <1>1, <1>2, Live DEF Answer1, w_got_hit, Busy1, Queued
  <2>2. res' = [res EXCEPT ![p1.p] = DM!Answer(p1.p)]
    BY <1>1, <1>2, PortOneIs DEF Results
  <2> QED
    BY <1>2, <2>1, <2>2 DEF Given, Awaited
<1>3. ASSUME ~(Answer1 /\ Kind(p1.p) \in {"ld", "ll"} /\ ~WrongPath(p1.p)), ReadHit2, ~WrongPath(p2.p)
      PROVE  p2.p \in Pos /\ Given(p2.p)
  <2>1. p2.p \in Pos /\ Awaited(p2.p) /\ Kind(p2.p) = "ld"
    BY <1>1, <1>3, Live DEF ReadHit2, Ready2, Access2, Live2, Busy2
  <2>2. res' = [res EXCEPT ![p2.p] = DM!Answer(p2.p)]
    BY <1>1, <1>3, PortTwoIs DEF Results
  <2> QED
    BY <2>1, <2>2 DEF Given, Awaited
<1> QED
  BY <1>1, <1>2, <1>3 DEF Results

LEMMA AnsweredRight ==
  ASSUME NEW f, Step(f), DInv, SInv, CInv, Reads2, NEW p \in Pos, p \in Answers,
         Kind(p) \in {"ld", "ll"}, ~WrongPath(p), ~Faults(p)
  PROVE  res'[p] = DM!Answer(p)
<1>1. IInv /\ Results /\ NoStop /\ Nops /\ p \in DOMAIN res
  BY StopsNowhere DEF Step, Edge, SInv, IInv, Types, TypeOK
<1>2. CASE Answer1 /\ p = p1.p
  <2>1. res' = [res EXCEPT ![p] = DM!Answer(p)]
    BY <1>1, <1>2, PortOneIs DEF Results
  <2> QED
    BY <1>1, <2>1
<1>3. CASE Answer2 /\ p = p2.p /\ p2.got
  <2>1. Busy2 /\ ret < p
    BY <1>1, <1>3, Live DEF Busy2
  <2>2. ~drain_ds_complete
    BY <2>1, Registers, <1>1 DEF WrongPath, drain_ds_complete, IInv
  <2>3. ~Nop2
    BY <1>1, <1>3, <2>1 DEF Nop2, Nops, Faults
  <2>4. ~Prefetch2 /\ ~Fault2 /\ ~t_incr_busy
    BY <1>3 DEF Prefetch2, Fault2, t_incr_busy, IsStore, Faults
  <2>5. ReadHit2
    BY <1>3, <2>2, <2>3, <2>4 DEF Answer2
  <2>6. ~Answer1
    BY <1>1, <1>3 DEF NoStop
  <2>7. res' = [res EXCEPT ![p] = DM!Answer(p)]
    BY <1>1, <1>3, <2>5, <2>6, PortTwoIs DEF Results
  <2> QED
    BY <1>1, <2>7
<1> QED
  BY <1>1, <1>2, <1>3, Answering

LEMMA LoadsStep ==
  ASSUME NEW f, Step(f), DInv, SInv, CInv, Reads2, LoadsSeeStores
  PROVE  LoadsSeeStores'
<1> SUFFICES ASSUME NEW p, p \in done', Kind(p)' \in {"ld", "ll"}, p \notin dead',
                    ~WrongPath(p)', ~Faults(p)'
             PROVE  res'[p] = DM!Answer(p)'
  BY DEF LoadsSeeStores
<1>1. /\ IInv /\ IInv' /\ Kind(p) \in {"ld", "ll"} /\ ~Faults(p) /\ dead \subseteq dead'
      /\ res \in [Pos -> [WORDS -> Value]]
  BY StepIInv, SameProgram, DeadStays DEF Step, IInv, Types, TypeOK
<1>2. p \in done \/ p \in Answers
  <2>1. Kind(sent) = "fl" \/ ~f.flushed
    BY FlushAlone DEF Step, Controls, SweepNext
  <2> QED
    BY <1>1, <2>1, CoreEdge
<1>3. p \in Pos /\ p <= sent
  <2>1. CASE p \in done
    BY <1>1, <2>1 DEF IInv, Window
  <2>2. CASE p \in Answers
    BY <1>1, <2>2, Answering
  <2> QED
    BY <1>2, <2>1, <2>2
<1>4. ~WrongPath(p) /\ DM!Answer(p)' = DM!Answer(p)
  BY <1>3, WrongStays, AnswerStays
<1>5. CASE p \in Answers
  BY <1>1, <1>3, <1>4, <1>5, AnsweredRight
<1>6. CASE p \in done
  <2>1. res[p] = DM!Answer(p)
    BY <1>1, <1>4, <1>6 DEF LoadsSeeStores
  <2>2. res'[p] = res[p]
    BY <1>1, <1>3, <1>6, GivenOne DEF Given
  <2> QED
    BY <1>4, <2>1, <2>2
<1> QED
  BY <1>2, <1>5, <1>6

LEMMA NextLoads ==
  ASSUME OneName
  PROVE  /\ Init => Marks2 /\ Reads2 /\ LoadsSeeStores
         /\ /\ IInv /\ DInv /\ SInv /\ CInv /\ NoMultipleActions /\ [Next]_vars
            /\ Marks2 /\ Reads2 /\ LoadsSeeStores
            => Marks2' /\ Reads2' /\ LoadsSeeStores'
<1>1. Init => Marks2 /\ Reads2 /\ LoadsSeeStores
  BY DEF Init, Marks2, Reads2, LoadsSeeStores
<1>2. ASSUME IInv, DInv, SInv, CInv, NoMultipleActions, Marks2, Reads2, LoadsSeeStores, Next
      PROVE  Marks2' /\ Reads2' /\ LoadsSeeStores'
  <2>1. PICK f : Step(f)
    BY <1>2, NextStep
  <2> QED
    BY <1>2, <2>1, Marks2Step, Reads2Step, LoadsStep
<1>3. ASSUME UNCHANGED vars, Marks2, Reads2, LoadsSeeStores
      PROVE  Marks2' /\ Reads2' /\ LoadsSeeStores'
  <2> USE <1>3 DEF vars, core, front, queue, back
  <2>1. Marks2'
    BY DEF Marks2, IsStore, Kind
  <2>2. \A p : /\ WrongPath(p)' <=> WrongPath(p)
               /\ Faults(p)' <=> Faults(p)
               /\ Kind(p)' = Kind(p) /\ Line(p)' = Line(p)
    BY DEF WrongPath, Kind, Line, Faults
  <2>3. \A l, x, p : DM!LastStore(l, x, p)' = DM!LastStore(l, x, p)
    BY DEF DM!LastStore, DM!Max, DM!Stores, DM!Linked
  <2>4. \A p : DM!Answer(p)' = DM!Answer(p)
    BY DEF DM!Answer, DM!LastStore, DM!Max, DM!Stores, DM!Linked
  <2>5. Reads2'
    <3> SUFFICES ASSUME NEW p \in Pos, p2'.got, p2'.p = p, Kind(p)' = "ld", p2'.out.v,
                        p2'.out.l = Line(p)', ~p2'.addr, ~r_pending_tlb_miss', ~WrongPath(p)',
                        NEW x \in prog'[p].m
                 PROVE  p2'.out.w[x] = DM!LastStore(Line(p), x, p)'
      BY DEF Reads2
    <3>1. p2.out.w[x] = DM!LastStore(Line(p), x, p)
      BY <2>2 DEF Reads2
    <3>2. PICK l : l = Line(p) /\ l = Line(p)'
      BY <2>2
    <3>3. DM!LastStore(Line(p), x, p)' = DM!LastStore(l, x, p)'
      BY <3>2 DEF DM!LastStore
    <3> QED
      BY <2>3, <3>1, <3>2, <3>3
  <2>6. LoadsSeeStores'
    BY <2>2, <2>4 DEF LoadsSeeStores
  <2> QED
    BY <2>1, <2>5, <2>6
<1> QED
  BY <1>1, <1>2, <1>3

(* A load returns the last older store to each word it reads, whichever    *)
(* port answers it (nu_l1d.sv, the triage of port 2 and the replay from    *)
(* the queue), where each line has one virtual name and no write meets an  *)
(* answer of the L2.                                                       *)
THEOREM LoadsAreRight ==
  ASSUME OneName
  PROVE  Spec /\ []NoMultipleActions => []LoadsSeeStores
<1>1. /\ Init => Marks2 /\ Reads2 /\ LoadsSeeStores
      /\ /\ IInv /\ DInv /\ SInv /\ CInv /\ NoMultipleActions /\ [Next]_vars
         /\ Marks2 /\ Reads2 /\ LoadsSeeStores
         => Marks2' /\ Reads2' /\ LoadsSeeStores'
  BY NextLoads
<1>2. Init => CInv
  BY InitCInv
<1>3. IInv /\ DInv /\ SInv /\ CInv /\ NoMultipleActions /\ [Next]_vars => CInv'
  BY NextCInv
<1> QED
  BY <1>1, <1>2, <1>3, SInvariance, PTL DEF Spec

-----------------------------------------------------------------------------
(* The refinement of DataMemory, a step at a time.                         *)
ViewsAre == \A l \in LINES : \A w : Holds(l, w) => View(l) = w
LEMMA AllViews == IInv /\ DInv => ViewsAre
  BY ViewIs DEF ViewsAre, DInv

LEMMA ViewStep ==
  ASSUME NEW f, Step(f), DInv, ViewsAre', CInv, NoMultipleActions, NEW l \in LINES
  PROVE  View(l)' = IF t_wr_array /\ l = Line(p1.p) THEN Merge(View(l), p1.p) ELSE View(l)
<1>1. PICK w : Holds(l, w) /\ View(l) = w
  BY AllViews DEF Step, CInv, ViewsAre
<1>2. PICK v : v = IF t_wr_array /\ l = Line(p1.p) THEN Merge(w, p1.p) ELSE w
  OBVIOUS
<1>3. Holds(l, v)'
  BY <1>1, <1>2, ViewEdge
<1>4. View(l)' = v
  BY <1>3 DEF ViewsAre
<1> QED
  BY <1>1, <1>2, <1>4

LEMMA AppliesOrNot ==
  ASSUME NEW f, Step(f), DInv, ViewsAre', SInv, CInv, NoMultipleActions
  PROVE  DM!Apply \/ (last' = last /\ [l \in LINES |-> View(l)]' = [l \in LINES |-> View(l)])
<1>1. /\ Squashed /\ Halts /\ Unfaulted /\ Graduates /\ Later
      /\ last \in Int /\ sent \in Int /\ sent <= N
  BY Registers, Sizes DEF Step, IInv, SInv, Later
<1>2. last' = IF t_wr_array THEN p1.p ELSE last
  BY DEF Step, Edge, Back
<1>3. CASE ~t_wr_array
  BY <1>2, <1>3, ViewStep
<1>4. CASE t_wr_array
  <2>1. PICK n \in Pos : n = p1.p
    BY <1>4, NextStored
  <2>2. /\ n \in Int /\ last < n /\ n <= N /\ n \notin dead /\ DM!Stores(n) /\ last' = n
        /\ Kind(n) = prog[n].k /\ Line(n) = prog[n].l /\ Line(n) \in LINES
        /\ n <= ret \/ (Kind(n) = "sc" /\ n = ret + 1)
        /\ \A q \in Int : last < q /\ q < n /\ DM!Stores(q) => q \in dead
    <3>1. n <= ret \/ (Kind(n) = "sc" /\ n = ret + 1)
      BY <1>1, <1>4, <2>1, Writing
    <3>2. n \notin dead
      BY <1>1, <1>4, <2>1, Writing
    <3>3. last < n /\ DM!Stores(n) /\ \A q \in Int : last < q /\ q < n /\ DM!Stores(q) => q \in dead
      BY <1>4, <2>1, NextStored
    <3>4. n \in Int /\ n <= N /\ Line(n) \in LINES
      BY Operation, Positions, Registers DEF Step, IInv
    <3>5. Kind(n) = prog[n].k /\ Line(n) = prog[n].l
      BY <2>1, Positions DEF Kind, Line
    <3>6. last' = n
      BY <1>2, <1>4, <2>1
    <3> QED
      BY <3>1, <3>2, <3>3, <3>4, <3>5, <3>6
  <2>3. n \in last + 1 .. N /\ \A q \in last + 1 .. n - 1 : DM!Stores(q) => q \in dead
    BY <1>1, <2>2, Sizes
  <2>4. [l \in LINES |-> View(l)]' =
          [[l \in LINES |-> View(l)] EXCEPT ![prog[n].l] =
             [x \in WORDS |-> IF x \in prog[n].m THEN n ELSE @[x]]]
    <3>1. \A l \in LINES : View(l)' = IF l = prog[n].l THEN Merge(View(l), n) ELSE View(l)
      BY <1>4, <2>1, <2>2, ViewStep
    <3>2. \A w : Merge(w, n) = [x \in WORDS |-> IF x \in prog[n].m THEN n ELSE w[x]]
      BY DEF Merge
    <3>3. \A l \in LINES : View(l)' = IF l = prog[n].l
                                      THEN [x \in WORDS |-> IF x \in prog[n].m THEN n ELSE View(l)[x]]
                                      ELSE View(l)
      BY <3>1, <3>2
    <3> QED
      BY <2>2, <3>3
  <2> QED
    BY <2>2, <2>3, <2>4 DEF DM!Apply
<1> QED
  BY <1>3, <1>4

LEMMA StepImplements ==
  ASSUME NEW f, Step(f), DInv, ViewsAre', SInv, CInv, Reads2, NoMultipleActions
  PROVE  DM!Next
<1>1. prog' = prog
  BY CoreEdge
<1>2. DM!Retire
  <2>1. ret' \in Int /\ ret \in Int /\ ret <= ret' /\ ret' <= sent /\ sent \in Int /\ sent <= N /\ N \in Int
    BY Window1, Registers, Sizes DEF Step, IInv
  <2>2. ret' \in ret .. N
    <3>1. PICK n \in Int : n = ret'
      BY <2>1
    <3> QED
      BY <2>1, <3>1
  <2>3. dead' \in {dead, dead \cup (ret + 1 .. ret')}
    BY CoreStep DEF Rests, Graduated, StopsAtFault, StartsAgain
  <2> QED
    BY <2>2, <2>3 DEF DM!Retire
<1>3. DM!Load \/ res' = res
  <2>1. ASSUME NEW p \in Pos, Given(p) PROVE DM!Load
    <3>1. p \in ret + 1 .. N /\ prog[p].k = Kind(p)
      BY <2>1, Positions, Window1 DEF Given, Kind, Pos
    <3> QED
      BY <2>1, <3>1 DEF DM!Load, Given
  <2> QED
    BY <2>1, GivenOne
<1> QED
  BY <1>1, <1>2, <1>3, AppliesOrNot DEF DM!Next

LEMMA NextImplements ==
  /\ IInv /\ DInv /\ ViewsAre' /\ SInv /\ CInv /\ Reads2 /\ NoMultipleActions /\ [Next]_vars
  => [DM!Next]_(DM!vars)
<1> SUFFICES ASSUME IInv, DInv, ViewsAre', SInv, CInv, Reads2, NoMultipleActions, [Next]_vars
             PROVE  [DM!Next]_(DM!vars)
  OBVIOUS
<1>1. CASE Next
  BY <1>1, NextStep, StepImplements
<1>2. CASE UNCHANGED vars
  <2>1. \A l : View(l)' = View(l)
    BY <1>2 DEF View, vars, core, front, queue, back
  <2>2. [l \in LINES |-> View(l)]' = [l \in LINES |-> View(l)]
    BY <2>1
  <2> QED
    BY <1>2, <2>2 DEF DM!vars, vars, core, front, queue, back
<1> QED
  BY <1>1, <1>2

LEMMA InitImplements == Init => DM!Init
<1> SUFFICES ASSUME Init PROVE DM!Init
  OBVIOUS
<1>1. ASSUME NEW l \in LINES PROVE View(l) = Zero
  <2>1. PIdx[l] \in IDX
    BY Sizes
  <2>2. ~cache[PIdx[l]].v /\ mem[l] = Zero /\ l2 = <<>> /\ eb = <<>>
    BY <2>1 DEF Init, Unread
  <2>3. Holds(l, Zero)
    BY <2>2, NoLeaver DEF Holds, Cached, Behind
  <2> QED
    BY <2>3, InitIInv, InitDInv, AllViews DEF ViewsAre
<1>2. [l \in LINES |-> View(l)] = [l \in LINES |-> DM!Zero]
  BY <1>1 DEF Zero, DM!Zero
<1> QED
  BY <1>2 DEF Init, DM!Init, DM!Zero, DM!Pos, Zero, Pos

(* The cache is the memory its core expects (nu_l1d.sv, the whole of it),  *)
(* where each line has one virtual name and no write meets an answer of the*)
(* L2.                                                                     *)
THEOREM IsDataMemory ==
  ASSUME OneName
  PROVE  Spec /\ []NoMultipleActions => Implements
<1>1. /\ Init => Marks2 /\ Reads2 /\ LoadsSeeStores
      /\ /\ IInv /\ DInv /\ SInv /\ CInv /\ NoMultipleActions /\ [Next]_vars
         /\ Marks2 /\ Reads2 /\ LoadsSeeStores
         => Marks2' /\ Reads2' /\ LoadsSeeStores'
  BY NextLoads
<1>2. (Init => CInv) /\ (IInv /\ DInv /\ SInv /\ CInv /\ NoMultipleActions /\ [Next]_vars => CInv')
  BY InitCInv, NextCInv
<1>3. IInv /\ DInv => ViewsAre
  BY AllViews
<1>4. /\ IInv /\ DInv /\ ViewsAre' /\ SInv /\ CInv /\ Reads2 /\ NoMultipleActions /\ [Next]_vars
      => [DM!Next]_(DM!vars)
  BY NextImplements
<1>5. Init => DM!Init
  BY InitImplements
<1> QED
  BY <1>1, <1>2, <1>3, <1>4, <1>5, SInvariance, PTL DEF Spec, Implements, DM!Spec

(* And for a program without store-conditionals, without that condition.   *)
THEOREM PlainIsDataMemory ==
  ASSUME OneName, Plain
  PROVE  Spec => Implements /\ []LoadsSeeStores
  BY PlainNeverMeets, IsDataMemory, LoadsAreRight, PTL
=============================================================================

-------------------------------- MODULE L1D --------------------------------
(***************************************************************************)
(* The L1 data cache (nu_l1d.sv): direct mapped, write back, read by the   *)
(* core on port 2 and by its own retry queue (MRQ) on port 1.  Port 2 is   *)
(* indexed with the virtual address; a load that hits there is answered,   *)
(* everything else is queued with its physical address.  A store is        *)
(* acknowledged when it is queued, "graduates" when it retires and is      *)
(* written when it reaches the head of the queue.  Port 1 handles the      *)
(* head: it hits, or evicts the dirty victim into the echo buffer (EB),    *)
(* fetches the line and looks again.  A queued load may send its fetch     *)
(* early, tagged with its queue entry.                                     *)
(*                                                                         *)
(* A step is a clock edge.  There is one action per state of r_state;      *)
(* ACTIVE has one for each thing port 1 does.  An action fixes the state   *)
(* machine's outputs as a record, and Edge says what all registers do.     *)
(* The core, the L2 and the page walker are the environment.               *)
(***************************************************************************)
EXTENDS Integers, Sequences, FiniteSetsExt

CONSTANTS
  LINES,        \* physical cache lines
  NoLine,       \* not a line
  NIDX,         \* number of sets
  PIdx,         \* the set a line lives in (its physical index)
  Low,          \* of a set, the index bits below the page size
  WORDS,        \* the parts of a line accesses can name
  N,            \* length of a program
  PROGRAMS,     \* the instruction streams considered
  NROB,         \* reorder buffer entries
  MRQ,          \* retry queue entries; there are MRQ - 1 credits
  EBS,          \* echo buffer entries
  MaxProbe(_)   \* bound on the probes while a program runs

IDX   == 0 .. NIDX - 1
Pos   == 1 .. N
Slots == 0 .. NROB - 1
Value == -1 .. N        \* a word holds the store it came from; 0: initial
Junk  == -1             \* what no store wrote
None  == -1             \* no set
Zero  == [w \in WORDS |-> 0]

(* A program is a sequence of operations [k, l, v, m, t]: kind, physical   *)
(* line, virtual index, words, and what the TLB has to say of it.          *)
Kinds == {"ld", "st", "ll", "sc", "pf", "nop", "alu", "br", "fl"}
Tlbs  == {"hit", "miss", "fault", "zero", "ro", "clean"}

ASSUME L1DAssumption ==
  /\ NoLine \notin LINES
  /\ NIDX \in Nat \ {0} /\ N \in Nat \ {0} /\ NROB \in Nat \ {0, 1}
  /\ MRQ \in Nat \ {0, 1} /\ EBS \in Nat \ {0}
  /\ PIdx \in [LINES -> IDX] /\ DOMAIN Low = IDX
  /\ \A prg \in PROGRAMS : MaxProbe(prg) \in Nat
  /\ \A prg \in PROGRAMS : \A p \in Pos :
       /\ prg[p] \in [k : Kinds, l : LINES, v : IDX, m : SUBSET WORDS, t : Tlbs]
       /\ Low[prg[p].v] = Low[PIdx[prg[p].l]]

VARIABLES
  \* the core: program, instructions sent and retired, those squashed since
  prog, sent, ret, base, dead, mode, req, pulse, done, res,
  \* the cache and its two pipelines
  cache, r_state, p1, p2, rr, r_pending_tlb_miss, r_miss_idx, r_lock_cache,
  r_inhibit_write, r_last_early, r_link_reg, r_wr_array,
  \* the retry queue, its entries with a fetch on the way, per-ROB-entry bits
  mq, r_mq_head_ptr, r_mq_inflight, r_graduated, r_rob_inflight,
  \* the echo buffer, flush and probe requests
  eb, r_flush_req, r_flush_cl_req, r_flush_was_active, probe, probes,
  \* the tag of the last request, requests in the L2, answers on the way back,
  \* what the L2 holds; and the last store written
  r_mem_req_tag, l2, l2q, mem, last

core  == <<prog, sent, ret, base, dead, mode, req, pulse, done, res>>
front == <<cache, r_state, p1, p2, rr, r_pending_tlb_miss, r_miss_idx,
           r_lock_cache, r_inhibit_write, r_last_early, r_link_reg, r_wr_array>>
queue == <<mq, r_mq_head_ptr, r_mq_inflight, r_graduated, r_rob_inflight>>
back  == <<eb, r_flush_req, r_flush_cl_req, r_flush_was_active, probe, probes,
           r_mem_req_tag, l2, l2q, mem, last>>
vars  == <<core, front, queue, back>>

-----------------------------------------------------------------------------
(* Instructions *)

Kind(p)  == IF p = 0 THEN "alu" ELSE prog[p].k
Line(p)  == prog[p].l
VIdx(p)  == prog[p].v
IdxOf(p) == PIdx[Line(p)]
IsStore(p) == Kind(p) = "st"
Serial == {"ll", "sc", "fl"}                \* alone in the reorder buffer
Slot(p) == (p - base - 1) % NROB

(* Faults(p) is an architectural fault: p itself is squashed.  Restarts(p) *)
(* retires and, unless it retires second (t_retire_two does not look at    *)
(* mark_page_dirty), squashes what follows.  WrongPath(p): p will be       *)
(* squashed, behind a fault or because the core has begun to restart.      *)
Faults(p)   == \/ Kind(p) = "nop"
               \/ Kind(p) \in {"ld", "st", "ll", "sc"} /\ prog[p].t \in {"fault", "zero"}
               \/ Kind(p) \in {"st", "sc"} /\ prog[p].t = "ro"
Restarts(p) == \/ Kind(p) = "br"
               \/ Kind(p) = "st" /\ prog[p].t = "clean"
WrongPath(p) == \/ mode # "run" /\ p > ret
                \/ \E q \in ret + 1 .. p - 1 : Faults(q)

drain_ds_complete == mode = "drain"
dead_rob_mask == {Slot(p) : p \in ret + 1 .. sent}

Unread == [l |-> NoLine, v |-> FALSE, d |-> FALSE, w |-> Zero]
ReadAt(i) == IF i = None THEN Unread ELSE cache[i]
Merge(w, p) == [x \in WORDS |-> IF x \in prog[p].m THEN p ELSE w[x]]

r_mrq_credits == MRQ - 1 - Len(l2) - Len(l2q)
w_queues_drained_Eb == eb = <<>>     \* Mutant: forgets the write back sent
w_queues_drained == r_mrq_credits = MRQ - 1 /\ eb = <<>>

(* Tags of requests: the queue entry of an early fetch, or these two. *)
FetchTag == MRQ
EbTag    == 2 * MRQ - 1
r_mq_tail_ptr == (r_mq_head_ptr + Len(mq)) % MRQ

-----------------------------------------------------------------------------
(* Port 1: the registered lookup of the queue's head *)

w_cache_port1_hit == p1.out.v /\ p1.out.l = Line(p1.p)
w_got_hit  == p1.got /\ w_cache_port1_hit
w_hit_or_idle == p1.got => w_cache_port1_hit
DirtyVictim == p1.got /\ ~w_cache_port1_hit /\ p1.out.v /\ p1.out.d
CleanVictim == p1.got /\ ~w_cache_port1_hit /\ ~(p1.out.v /\ p1.out.d)

(* The line is written by a store, or by a store-conditional whose line is *)
(* the one in the link register.                                           *)
w_match_link_Any == TRUE     \* Mutant
w_match_link == Line(p1.p) = r_link_reg
t_wr_array == /\ r_state = "ACTIVE" /\ w_got_hit
              /\ Kind(p1.p) = "sc" => w_match_link
              /\ Kind(p1.p) \in {"st", "sc"}

(* An answer of the L2 waits while a store may be writing. *)
mem_rsp_valid_Always == l2q # <<>>     \* Mutant: does not wait
mem_rsp_valid == ~(p1.got /\ IsStore(p1.p)) /\ l2q # <<>>
mem_rsp == Head(l2q)
mem_rsp_reload == mem_rsp_valid /\ ~mem_rsp.wb

-----------------------------------------------------------------------------
(* Port 2: triage of the request accepted in the previous cycle *)

w_tlb_hit == prog[p2.p].t \notin {"miss", "fault", "zero"} \/ r_pending_tlb_miss
w_port2_hit_cache == p2.out.v /\ p2.out.l = Line(p2.p)
w_port2_rd_hit == w_port2_hit_cache /\ ~p2.addr /\ ~r_pending_tlb_miss

Live2    == p2.got /\ ~drain_ds_complete
Nop2     == Live2 /\ (p2.nop \/ Kind(p2.p) = "nop")
Prefetch2 == Live2 /\ ~Nop2 /\ Kind(p2.p) = "pf"
Access2  == Live2 /\ ~Nop2 /\ ~Prefetch2
Fault2   == Access2 /\ \/ prog[p2.p].t = "zero"
                       \/ prog[p2.p].t = "ro" /\ Kind(p2.p) \in {"st", "sc"}
TlbMiss2 == Access2 /\ ~Fault2 /\ ~w_tlb_hit
Ready2   == Access2 /\ ~Fault2 /\ w_tlb_hit
ReadHit2 == Ready2 /\ Kind(p2.p) = "ld" /\ w_port2_rd_hit /\ ~p2.rd_retry
t_incr_busy == Ready2 /\ IsStore(p2.p)
t_push_miss == \/ Prefetch2 /\ w_tlb_hit
               \/ Ready2 /\ ~ReadHit2

n_pending_tlb_miss == IF p2.got THEN TlbMiss2 ELSE r_pending_tlb_miss

(* t_core_mem_rsp_valid: answered by port 2. *)
Answer2 == p2.got /\ (drain_ds_complete \/ Nop2 \/ Prefetch2 \/ Fault2
                       \/ t_incr_busy \/ ReadHit2)
(* Port 1 answers loads and store-conditionals. *)
Answer1 == r_state = "ACTIVE" /\ w_got_hit /\ ~IsStore(p1.p)

-----------------------------------------------------------------------------
(* The state machine's outputs.  p: the request on port 1 (n_req), go: it   *)
(* is looked up, idx: the set port 1 reads, lw: n_last_wr; pop: the head    *)
(* leaves the queue, clear: and is forgotten; miss: t_got_miss, midx: its   *)
(* set; evict: pushed to the EB; inval: the set marked invalid; fetch: port *)
(* 1's own request; replay, fault: port 2 looks again, the walk faulted;    *)
(* flush, cl, was: the requests that remain; flushed, ack: their answers.   *)

Outputs == [st |-> r_state, p |-> p1.p, go |-> FALSE, idx |-> None,
            lw |-> FALSE, retry |-> FALSE, pop |-> FALSE, clear |-> FALSE,
            miss |-> FALSE, midx |-> r_miss_idx, lock |-> r_lock_cache,
            inh |-> r_inhibit_write, evict |-> <<>>, inval |-> None,
            fetch |-> <<>>, replay |-> FALSE, fault |-> FALSE,
            flush |-> r_flush_req, cl |-> r_flush_cl_req,
            was |-> r_flush_was_active, flushed |-> FALSE, ack |-> FALSE]

-----------------------------------------------------------------------------
(* Acceptance of the core's request *)

RoomInQueue == Len(mq) < MRQ - 1
t_new_req ==
  /\ req # 0
  /\ w_hit_or_idle
  /\ RoomInQueue
  /\ ~(p2.lw /\ p2.idx = VIdx(req) /\ ~IsStore(req))
  /\ ~(n_pending_tlb_miss \/ r_pending_tlb_miss)
  /\ Slot(req) \notin r_rob_inflight

w_reload_line(f) == \/ r_state # "ACTIVE" /\ VIdx(req) = r_miss_idx
                    \/ f.miss /\ VIdx(req) = f.midx

t_accept(f) == t_new_req /\ (f.go => f.lw) /\ ~w_reload_line(f)

(* A load that will miss may send its fetch when it is queued, unless      *)
(* anything in the queue or on its way to the array could use the same set.*)
SetInUse_Queue(f) == p2.line     \* Mutant: only what is in the queue
SetInUse(f) ==
  LET here == Low[VIdx(p2.p)] IN
  \/ p2.line \/ p2.fwd
  \/ Low[p1.idx] = here /\ (p2.pop \/ p1.lw)
  \/ rr # None /\ Low[rr] = here
  \/ f.lw /\ Low[f.idx] = here

DirtyInTheWay_Never == FALSE     \* Mutant
DirtyInTheWay == p2.out.v /\ p2.out.d

w_gen_early_req(f) ==
  /\ t_push_miss /\ w_tlb_hit /\ r_mrq_credits > 2
  /\ ~w_port2_hit_cache /\ VIdx(p2.p) = IdxOf(p2.p)
  /\ ~DirtyInTheWay /\ ~SetInUse(f)
  /\ r_last_early # Line(p2.p)
  /\ Kind(p2.p) \in {"ld", "pf"} \/ IsStore(p1.p)
  /\ w_hit_or_idle

-----------------------------------------------------------------------------
(* The clock edge *)

Port1(f) ==
  LET i == IF f.idx = None THEN 0 ELSE f.idx IN
  /\ p1' = [p |-> f.p, got |-> f.go, retry |-> f.retry, lw |-> f.lw, idx |-> i,
            busy |-> f.go /\ \E j \in DOMAIN mq : /\ ~(f.pop /\ j = 1)
                                                  /\ VIdx(mq[j]) = i,
            out |-> ReadAt(f.idx)]
  /\ rr' = IF p1.lw THEN p1.idx ELSE None
  /\ r_link_reg' = IF Kind(p1.p) = "ll" THEN Line(p1.p) ELSE r_link_reg
  /\ r_wr_array' = t_wr_array
  /\ r_state' = f.st /\ r_miss_idx' = f.midx
  /\ r_lock_cache' = f.lock /\ r_inhibit_write' = f.inh

(* What the new request on port 2 learns of the queue when it is accepted. *)
(* A load accepted while a store writes its set gets the store's line.     *)
Port2(f, acc) ==
  LET got  == f.replay \/ acc
      new  == IF f.replay THEN p2.p ELSE req
      i    == IF got THEN VIdx(new) ELSE 0
      same == {j \in DOMAIN mq : Low[VIdx(mq[j])] = Low[i]}
      fwd  == acc /\ p1.got /\ p1.lw /\ p1.idx = i
      nop  == f.fault \/ (p2.nop /\ ~acc)
  IN
  /\ p2' = [p |-> IF got THEN new ELSE p2.p, got |-> got, nop |-> nop,
            lw |-> got /\ IsStore(new) /\ ~nop, idx |-> i,
            line |-> got /\ same # {},
            addr |-> got /\ \E j \in same : /\ IsStore(mq[j])
                               /\ prog[mq[j]].m \cap prog[new].m # {},
            fwd |-> got /\ t_push_miss /\ Low[i] = Low[p2.idx],
            pop |-> got /\ f.pop,
            rd_retry |-> /\ got /\ t_new_req /\ mq # <<>> /\ w_got_hit
                         /\ ~(p1.lw /\ p1.idx = IdxOf(Head(mq)))
                         /\ ~r_lock_cache /\ ~n_pending_tlb_miss
                         /\ Kind(Head(mq)) \notin {"st", "sc"},
            out |-> IF ~got THEN Unread
                    ELSE IF fwd THEN [cache[i] EXCEPT !.w = Merge(p1.out.w, p1.p)]
                    ELSE cache[i]]
  /\ r_pending_tlb_miss' = n_pending_tlb_miss
  /\ r_last_early' = IF w_gen_early_req(f) THEN Line(p2.p) ELSE NoLine

(* The arrays: a set is marked invalid, filled by a reload, or stored to.  *)
(* Valid and dirty bits have one write port, in that order of priority.    *)
(* Any answer of the L2 enables all bytes.                                 *)
Array(f) ==
  LET fill(i)  == mem_rsp_reload /\ i = PIdx[mem_rsp.l]
      store(i) == t_wr_array /\ ~mem_rsp_reload /\ i = p1.idx
  IN
  cache' = [i \in IDX |->
    [l |-> IF fill(i) THEN mem_rsp.l ELSE cache[i].l,
     w |-> IF fill(i) THEN mem_rsp.w
           ELSE IF ~store(i) THEN cache[i].w
           ELSE Merge(IF mem_rsp_valid THEN [x \in WORDS |-> Junk]
                      ELSE cache[i].w, p1.p),
     v |-> IF i = f.inval THEN FALSE
           ELSE IF f.inval = None /\ fill(i) THEN ~r_inhibit_write
           ELSE cache[i].v,
     d |-> IF i = f.inval THEN FALSE
           ELSE IF f.inval # None THEN cache[i].d
           ELSE IF fill(i) THEN FALSE
           ELSE store(i) \/ cache[i].d]]

Only(cond, x) == IF cond THEN {x} ELSE {}

(* The retry queue, and the bits kept per reorder buffer entry: 0, then 1  *)
(* when a store is queued, 2 when it has retired.                          *)
t_reset_graduated == r_state = "ACTIVE" /\ w_got_hit /\ IsStore(p1.p)
n_mq(f) == IF f.pop THEN Tail(mq) ELSE mq
Queue(f) ==
  LET gone == Only(f.clear, Slot(Head(mq))) IN
  /\ mq' = IF t_push_miss THEN Append(n_mq(f), p2.p) ELSE n_mq(f)
  /\ r_mq_head_ptr' = IF f.pop THEN (r_mq_head_ptr + 1) % MRQ ELSE r_mq_head_ptr
  /\ r_mq_inflight' = (r_mq_inflight \cup Only(w_gen_early_req(f), r_mq_tail_ptr))
                        \ Only(mem_rsp_valid, mem_rsp.t)
  /\ r_rob_inflight' = (r_rob_inflight \cup Only(t_push_miss, Slot(p2.p)))
                        \ (Only(w_got_hit, Slot(p1.p)) \cup gone)
  /\ r_graduated' = [s \in Slots |->
       IF s \in gone \cup Only(t_reset_graduated, Slot(p1.p)) THEN 0
       ELSE IF t_incr_busy /\ s = Slot(p2.p) THEN 1
       ELSE IF r_graduated[s] = 1 /\ s \in {Slot(q) : q \in pulse} THEN 2
       ELSE r_graduated[s]]

(* At most one request leaves in a cycle: port 2's, port 1's or the EB's.  *)
t_pop_eb(f) == ~w_gen_early_req(f) /\ f.fetch = <<>> /\ eb # <<>> /\ r_mrq_credits >= 1
n_mem_req(f) ==
  IF w_gen_early_req(f)
  THEN <<[wb |-> FALSE, l |-> Line(p2.p), w |-> Zero, t |-> r_mq_tail_ptr]>>
  ELSE IF t_pop_eb(f)
  THEN <<[wb |-> TRUE, l |-> Head(eb).l, w |-> Head(eb).w, t |-> EbTag]>>
  ELSE f.fetch

memq_empty(f) ==
  /\ mq = <<>> /\ r_rob_inflight = {} /\ req = 0 /\ eb = <<>>
  /\ l2 = <<>> /\ l2q = <<>> /\ n_mem_req(f) = <<>> /\ ~f.go
  /\ base + 1 .. sent \subseteq done

Back(f) ==
  /\ eb' = (IF t_pop_eb(f) THEN Tail(eb) ELSE eb) \o f.evict
  /\ r_flush_was_active' = f.was
  /\ r_mem_req_tag' = IF n_mem_req(f) = <<>> THEN r_mem_req_tag
                      ELSE n_mem_req(f)[1].t
  /\ last' = IF t_wr_array THEN p1.p ELSE last

-----------------------------------------------------------------------------
(* External: the L2 answers requests to one line in order, others in any   *)
(* order; it processes a request when it answers it.  It probes the L1D    *)
(* before the page walker reads a line.                                    *)
L2(f) ==
  /\ \/ l2' = l2 \o n_mem_req(f) /\ mem' = mem
        /\ l2q' = IF mem_rsp_valid THEN Tail(l2q) ELSE l2q
     \/ \E i \in DOMAIN l2 :
          LET r == l2[i] IN
          /\ \A j \in 1 .. i - 1 : l2[j].l # r.l
          /\ l2' = SubSeq(l2, 1, i - 1) \o SubSeq(l2, i + 1, Len(l2)) \o n_mem_req(f)
          /\ mem' = IF r.wb THEN [mem EXCEPT ![r.l] = r.w] ELSE mem
          /\ l2q' = (IF mem_rsp_valid THEN Tail(l2q) ELSE l2q)
                      \o <<[r EXCEPT !.w = IF r.wb THEN Zero ELSE mem[r.l]]>>

Probes(f) ==
  \/ /\ probe' = IF f.ack THEN NoLine ELSE probe
     /\ r_flush_cl_req' = f.cl /\ UNCHANGED probes
  \/ /\ probe = NoLine /\ probes < MaxProbe(prog)
     /\ probe' \in LINES /\ probes' = probes + 1 /\ r_flush_cl_req' = TRUE

-----------------------------------------------------------------------------
(* External: the core sends memory operations in order, retires in order   *)
(* what was answered, two at a time, and after a fault or a misprediction  *)
(* drains: r_ds_done, a cycle later drain_ds_complete, until memq_empty.   *)

Answers == Only(Answer2, p2.p) \cup Only(Answer1, p1.p)

MayRun(n) == /\ mode = "run" /\ n <= N /\ n - ret <= NROB
             /\ Kind(n) \in Serial => ret = sent
             /\ Kind(sent) \in Serial => ret = sent

Sending(f, acc) ==
  LET n == sent + 1
      kept == IF acc THEN 0 ELSE req
  IN
  \/ /\ UNCHANGED sent /\ req' = kept /\ r_flush_req' = f.flush
     /\ done' = done \cup Answers \cup Only(f.flushed, sent)
  \/ /\ MayRun(n) /\ kept = 0 /\ Kind(n) \notin {"alu", "br", "fl"}
     /\ Kind(n) \in {"ll", "sc"} => memq_empty(f)
     /\ sent' = n /\ req' = n /\ r_flush_req' = f.flush
     /\ done' = done \cup Answers
  \/ /\ MayRun(n) /\ Kind(n) \in {"alu", "br"}
     /\ sent' = n /\ req' = kept /\ r_flush_req' = f.flush
     /\ done' = done \cup Answers \cup {n}
  \/ /\ MayRun(n) /\ Kind(n) = "fl"
     /\ sent' = n /\ req' = kept /\ r_flush_req' = TRUE
     /\ done' = done \cup Answers

Retires(p) == p <= sent /\ p \in done /\ ~Faults(p)
Retiring(f) ==
  \/ /\ UNCHANGED <<ret, base, dead>> /\ pulse' = {}
     /\ mode' = IF mode = "run" THEN "run" ELSE "drain"
  \/ \E n \in {1, 2} :
       /\ mode = "run" /\ \A i \in 1 .. n : Retires(ret + i)
       /\ n = 2 => ~Restarts(ret + 1) /\ Kind(ret + 2) # "br"
       /\ ret' = ret + n /\ pulse' = {ret + i : i \in 1 .. n}
       /\ mode' = IF n = 1 /\ Restarts(ret + 1) THEN "ds" ELSE "run"
       /\ UNCHANGED <<base, dead>>
  \/ /\ mode = "run" /\ ret < sent /\ ret + 1 \in done /\ Faults(ret + 1)
     /\ mode' = "ds" /\ pulse' = {} /\ UNCHANGED <<ret, base, dead>>
  \/ /\ mode = "drain" /\ memq_empty(f)
     /\ mode' = "run" /\ ret' = sent /\ base' = sent /\ pulse' = {}
     /\ dead' = dead \cup (ret + 1 .. sent)

(* What loads that count were answered with. *)
Loaded(p, w) == [x \in WORDS |-> IF x \in prog[p].m THEN w[x] ELSE 0]
Results ==
  res' = IF Answer1 /\ Kind(p1.p) \in {"ld", "ll"} /\ ~WrongPath(p1.p)
         THEN [res EXCEPT ![p1.p] = Loaded(p1.p, p1.out.w)]
         ELSE IF ReadHit2 /\ ~WrongPath(p2.p)
         THEN [res EXCEPT ![p2.p] = Loaded(p2.p, p2.out.w)]
         ELSE res

Edge(f) ==
  LET acc == t_accept(f) IN
  /\ Port1(f) /\ Port2(f, acc) /\ Array(f) /\ Queue(f) /\ Back(f)
  /\ L2(f) /\ Probes(f)
  /\ Sending(f, acc) /\ Retiring(f) /\ Results /\ UNCHANGED prog

-----------------------------------------------------------------------------
(* ACTIVE: port 1's lookup missed *)

In(st) == r_state = st
FlushGo == ~t_new_req /\ r_flush_req /\ mq = <<>> /\ ~(p1.got /\ p1.lw) /\ Len(eb) < EBS

(* The victim is dirty: it goes to the echo buffer and its set is invalid; *)
(* the same request is looked up once more.                                *)
EvictVictim ==
  /\ In("ACTIVE") /\ DirtyVictim /\ ~FlushGo /\ (p1.busy => p1.retry)
  /\ Edge([Outputs EXCEPT !.st = "CLEAR_DIRTY", !.miss = TRUE, !.midx = p1.idx,
             !.lock = TRUE, !.inh = TRUE, !.inval = p1.idx,
             !.evict = <<[l |-> p1.out.l, w |-> p1.out.w]>>])

(* CLEAR_DIRTY and HANDLE_RELOAD are the same look, the second after the   *)
(* line has come.                                                          *)
LookAgain(st) ==
  /\ In(st)
  /\ Edge([Outputs EXCEPT !.st = "ACTIVE", !.go = TRUE, !.idx = IdxOf(p1.p),
             !.lw = IsStore(p1.p)])

FetchLine ==
  /\ In("ACTIVE") /\ CleanVictim /\ ~FlushGo /\ (p1.busy => p1.retry \/ r_lock_cache)
  /\ Edge([Outputs EXCEPT !.st = "INJECT_RELOAD", !.miss = TRUE, !.midx = p1.idx,
             !.lock = FALSE, !.inh = FALSE, !.idx = p1.idx,
             !.fetch = <<[wb |-> FALSE, l |-> Line(p1.p), w |-> Zero,
                            t |-> FetchTag]>>])

WaitReload ==
  /\ In("INJECT_RELOAD")
  /\ Edge(IF mem_rsp_reload /\ mem_rsp.t = FetchTag
          THEN [Outputs EXCEPT !.st = "HANDLE_RELOAD", !.inh = FALSE]
          ELSE Outputs)

-----------------------------------------------------------------------------
(* ACTIVE: port 1 hit or idle, the queue's head is served *)

w_mh_block_Off == FALSE     \* Mutant
w_mh_block == p1.got /\ p1.lw /\ p1.idx = IdxOf(Head(mq))
w_eb_port1_hit == \E i \in DOMAIN eb : eb[i].l = Line(Head(mq))
HeadInflight_Off == FALSE     \* Mutant
HeadInflight == r_mq_head_ptr \in r_mq_inflight

CanIssue ==
  /\ In("ACTIVE") /\ w_hit_or_idle /\ mq # <<>> /\ ~w_mh_block
  /\ ~r_lock_cache /\ ~n_pending_tlb_miss
  /\ ~w_eb_port1_hit /\ Len(eb) < EBS /\ r_mrq_credits > 1
  /\ ~HeadInflight

w_st_amo_grad_Early == IsStore(Head(mq)) => r_graduated[Slot(Head(mq))] # 0     \* Mutant
w_st_amo_grad == IsStore(Head(mq)) => r_graduated[Slot(Head(mq))] = 2
DeadHead_Stays == FALSE     \* Mutant
DeadHead == /\ Kind(Head(mq)) \in {"st", "sc"}
            /\ drain_ds_complete /\ Slot(Head(mq)) \in dead_rob_mask

(* A store's data is there when it retires; a store-conditional waits.     *)
IssueStore ==
  /\ CanIssue /\ Kind(Head(mq)) \in {"st", "sc"} /\ w_st_amo_grad
  /\ Edge([Outputs EXCEPT !.p = Head(mq), !.go = TRUE, !.idx = IdxOf(Head(mq)),
             !.lw = TRUE, !.retry = TRUE, !.pop = TRUE])

DropDead ==
  /\ CanIssue /\ DeadHead /\ ~w_st_amo_grad
  /\ Edge([Outputs EXCEPT !.pop = TRUE, !.clear = TRUE])

IssueLoad ==
  /\ CanIssue /\ Kind(Head(mq)) \in {"ld", "ll"}
  /\ Edge([Outputs EXCEPT !.p = Head(mq), !.go = TRUE, !.idx = IdxOf(Head(mq)),
             !.retry = TRUE, !.pop = TRUE])

DropPrefetch ==
  /\ CanIssue /\ Kind(Head(mq)) = "pf"
  /\ Edge([Outputs EXCEPT !.p = Head(mq), !.idx = IdxOf(Head(mq)),
             !.pop = TRUE, !.clear = TRUE])

Waits == CanIssue => \/ Kind(Head(mq)) = "sc"
                     \/ Kind(Head(mq)) = "st" /\ ~w_st_amo_grad /\ ~DeadHead
TlbGo   == ~p1.got /\ n_pending_tlb_miss
ProbeGo == /\ ~t_new_req /\ ~FlushGo /\ r_flush_cl_req /\ mq = <<>>
           /\ w_queues_drained /\ ~(p1.got /\ p1.lw)
           /\ ~TlbGo /\ ~r_wr_array /\ ~t_wr_array
Quiet   == In("ACTIVE") /\ w_hit_or_idle /\ Waits

Idle == Quiet /\ ~TlbGo /\ ~FlushGo /\ ~ProbeGo /\ Edge(Outputs)

StartWalk == Quiet /\ TlbGo /\ ~FlushGo /\ Edge([Outputs EXCEPT !.st = "TLB_RELOAD"])

StartFlush ==
  /\ Quiet /\ FlushGo
  /\ Edge([Outputs EXCEPT !.st = "FLUSH_CACHE", !.idx = 0, !.flush = FALSE])

StartProbe ==
  /\ Quiet /\ ProbeGo
  /\ Edge([Outputs EXCEPT !.st = "FLUSH_CL", !.idx = PIdx[probe],
             !.cl = FALSE, !.was = TRUE])

-----------------------------------------------------------------------------
(* Address translation: wait for the walk, then triage the request again;  *)
(* if the walk faulted it has become a MEM_NOP.                            *)

WalkEnds ==
  /\ In("TLB_RELOAD")
  /\ Edge([Outputs EXCEPT !.st = "TLB_TURNAROUND", !.fault = prog[p2.p].t = "fault"])

WalkGoesOn ==
  /\ In("TLB_RELOAD") /\ ~(r_flush_cl_req /\ w_queues_drained)
  /\ Edge(Outputs)

ProbeInWalk ==
  /\ In("TLB_RELOAD") /\ r_flush_cl_req /\ w_queues_drained
  /\ Edge([Outputs EXCEPT !.st = "FLUSH_CL", !.idx = PIdx[probe],
             !.cl = FALSE, !.was = FALSE])

TurnAround ==
  /\ In("TLB_TURNAROUND")
  /\ Edge([Outputs EXCEPT !.st = "ACTIVE", !.replay = TRUE])

-----------------------------------------------------------------------------
(* The L2's probe of one line: a clean copy is dropped, a dirty one is     *)
(* written back first and kept.                                            *)

w_flush_hit == p1.out.v /\ p1.out.l = probe
Resume == IF r_flush_was_active THEN "ACTIVE" ELSE "TLB_RELOAD"

ProbeClean ==
  /\ In("FLUSH_CL") /\ ~(p1.out.d /\ w_flush_hit)
  /\ Edge([Outputs EXCEPT !.st = Resume, !.was = FALSE, !.ack = TRUE,
             !.inval = IF w_flush_hit THEN p1.idx ELSE None])

ProbeDirty ==
  /\ In("FLUSH_CL") /\ p1.out.d /\ w_flush_hit
  /\ Edge([Outputs EXCEPT !.st = "FLUSH_CL_WAIT", !.inh = TRUE,
             !.fetch = <<[wb |-> TRUE, l |-> p1.out.l, w |-> p1.out.w,
                          t |-> r_mem_req_tag]>>])

ProbeWait ==
  /\ In("FLUSH_CL_WAIT")
  /\ Edge(IF w_queues_drained
          THEN [Outputs EXCEPT !.st = Resume, !.was = FALSE, !.inh = FALSE,
                  !.ack = TRUE]
          ELSE Outputs)

-----------------------------------------------------------------------------
(* The flush of the whole cache, one set after the other *)

LastSet == p1.idx = NIDX - 1
NextSet == (p1.idx + 1) % NIDX

FlushClean ==
  /\ In("FLUSH_CACHE") /\ ~p1.out.d
  /\ Edge([Outputs EXCEPT !.inval = p1.idx, !.idx = NextSet,
             !.st = IF LastSet THEN "ACTIVE" ELSE "FLUSH_CACHE",
             !.flushed = LastSet])

FlushDirty_Keeps ==     \* Mutant: written back, not invalidated
  /\ In("FLUSH_CACHE") /\ p1.out.d
  /\ Edge([Outputs EXCEPT !.idx = NextSet, !.inh = TRUE,
             !.st = IF LastSet THEN "FLUSH_CACHE_LAST_WAIT" ELSE "FLUSH_CACHE_WAIT",
             !.evict = <<[l |-> p1.out.l, w |-> p1.out.w]>>])

FlushDirty ==
  /\ In("FLUSH_CACHE") /\ p1.out.d
  /\ Edge([Outputs EXCEPT !.inval = p1.idx, !.idx = NextSet, !.inh = TRUE,
             !.st = IF LastSet THEN "FLUSH_CACHE_LAST_WAIT" ELSE "FLUSH_CACHE_WAIT",
             !.evict = <<[l |-> p1.out.l, w |-> p1.out.w]>>])

FlushWait ==
  /\ In("FLUSH_CACHE_WAIT")
  /\ Edge(IF mem_rsp_valid
          THEN [Outputs EXCEPT !.idx = p1.idx, !.inh = FALSE, !.st = "FLUSH_CACHE"]
          ELSE [Outputs EXCEPT !.idx = p1.idx])

FlushLastWait ==
  /\ In("FLUSH_CACHE_LAST_WAIT")
  /\ Edge(IF mem_rsp_valid
          THEN [Outputs EXCEPT !.idx = p1.idx, !.inh = FALSE, !.st = "ACTIVE",
                  !.flushed = TRUE]
          ELSE [Outputs EXCEPT !.idx = p1.idx])

-----------------------------------------------------------------------------
(* Reset, and the initial sweep of the cache, are over. *)
Init ==
  /\ prog \in PROGRAMS
  /\ sent = 0 /\ ret = 0 /\ base = 0 /\ dead = {} /\ mode = "run"
  /\ req = 0 /\ pulse = {} /\ done = {} /\ res = [p \in Pos |-> Zero]
  /\ cache = [i \in IDX |-> Unread] /\ r_state = "ACTIVE"
  /\ p1 = [p |-> 0, got |-> FALSE, retry |-> FALSE, lw |-> FALSE, idx |-> 0,
           busy |-> FALSE, out |-> Unread]
  /\ p2 = [p |-> 0, got |-> FALSE, nop |-> FALSE, lw |-> FALSE, idx |-> 0,
           line |-> FALSE, addr |-> FALSE, fwd |-> FALSE, pop |-> FALSE,
           rd_retry |-> FALSE, out |-> Unread]
  /\ rr = None /\ r_pending_tlb_miss = FALSE /\ r_miss_idx = 0
  /\ r_lock_cache = FALSE /\ r_inhibit_write = FALSE
  /\ r_last_early = NoLine /\ r_link_reg = NoLine /\ r_wr_array = FALSE
  /\ mq = <<>> /\ r_mq_head_ptr = 0 /\ r_mq_inflight = {} /\ r_graduated = [s \in Slots |-> 0]
  /\ r_rob_inflight = {}
  /\ eb = <<>> /\ r_flush_req = FALSE /\ r_flush_cl_req = FALSE
  /\ r_flush_was_active = FALSE /\ probe = NoLine /\ probes = 0
  /\ r_mem_req_tag = 0 /\ l2 = <<>> /\ l2q = <<>> /\ mem = [l \in LINES |-> Zero] /\ last = 0

Next ==
  \/ EvictVictim \/ LookAgain("CLEAR_DIRTY") \/ FetchLine \/ WaitReload
  \/ LookAgain("HANDLE_RELOAD")
  \/ IssueStore \/ DropDead \/ IssueLoad \/ DropPrefetch \/ Idle
  \/ StartWalk \/ StartFlush \/ StartProbe
  \/ WalkEnds \/ WalkGoesOn \/ ProbeInWalk \/ TurnAround
  \/ ProbeClean \/ ProbeDirty \/ ProbeWait
  \/ FlushClean \/ FlushDirty \/ FlushWait \/ FlushLastWait

Spec == Init /\ [][Next]_vars

(* Fairness: the clock runs, the L2 answers, a page walk ends, and the core *)
(* goes on sending and retiring what it may.                               *)
Served  == Len(l2q') > Len(l2q) - IF mem_rsp_valid THEN 1 ELSE 0
Retired == ret' > ret \/ mode' # mode
FairSpec == /\ Spec /\ WF_vars(Next) /\ WF_vars(Next /\ Served) /\ WF_vars(WalkEnds)
            /\ WF_vars(Next /\ sent' > sent) /\ WF_vars(Next /\ Retired)

-----------------------------------------------------------------------------
(* Type invariant: registers, queues and credits stay in their ranges.     *)
Line1 == [l : LINES \cup {NoLine}, v : BOOLEAN, d : BOOLEAN, w : [WORDS -> Value]]
Request == [wb : BOOLEAN, l : LINES, w : [WORDS -> Value], t : 0 .. EbTag]
States == {"ACTIVE", "CLEAR_DIRTY", "INJECT_RELOAD", "HANDLE_RELOAD",
           "TLB_RELOAD", "TLB_TURNAROUND", "FLUSH_CL", "FLUSH_CL_WAIT",
           "FLUSH_CACHE", "FLUSH_CACHE_WAIT", "FLUSH_CACHE_LAST_WAIT"}
Elements(s) == {s[i] : i \in DOMAIN s}
TypeOK ==
  /\ ret \in 0 .. sent /\ sent \in 0 .. N /\ base \in 0 .. ret
  /\ dead \subseteq Pos /\ done \subseteq Pos /\ pulse \subseteq 1 .. ret
  /\ mode \in {"run", "ds", "drain"} /\ req \in 0 .. sent
  /\ cache \in [IDX -> Line1] /\ r_state \in States
  /\ {p1.p, p2.p} \subseteq 0 .. N /\ {p1.out, p2.out} \subseteq Line1
  /\ rr \in IDX \cup {None} /\ r_miss_idx \in IDX
  /\ r_last_early \in LINES \cup {NoLine} /\ r_link_reg \in LINES \cup {NoLine}
  /\ Elements(mq) \subseteq Pos /\ Len(mq) <= MRQ
  /\ r_mq_head_ptr \in 0 .. MRQ - 1 /\ r_mem_req_tag \in 0 .. EbTag
  /\ r_mq_inflight \subseteq {(r_mq_head_ptr + i) % MRQ : i \in 0 .. Len(mq) - 1}
  /\ r_rob_inflight \subseteq Slots
  /\ r_graduated \in [Slots -> 0 .. 2]
  /\ Elements(eb) \subseteq [l : LINES, w : [WORDS -> Value]] /\ Len(eb) <= EBS
  /\ Elements(l2) \cup Elements(l2q) \subseteq Request
  /\ r_mrq_credits \in 0 .. MRQ - 1
  /\ probe \in LINES \cup {NoLine} /\ mem \in [LINES -> [WORDS -> Value]]
  /\ res \in [Pos -> [WORDS -> Value]]

(* What a line holds: its valid copy, or the youngest write back on its    *)
(* way, or what the L2 has.                                                *)
View(l) ==
  LET here == {i \in IDX : cache[i].v /\ cache[i].l = l}
      out  == l2 \o [i \in DOMAIN eb |-> [wb |-> TRUE, l |-> eb[i].l, w |-> eb[i].w]]
      wbs  == {i \in DOMAIN out : out[i].wb /\ out[i].l = l}
  IN IF here # {} THEN cache[CHOOSE i \in here : TRUE].w
     ELSE IF wbs # {} THEN out[CHOOSE i \in wbs : \A j \in wbs : j <= i].w
     ELSE mem[l]

DM == INSTANCE DataMemory WITH contents <- [l \in LINES |-> View(l)]

(* The cache implements the memory its core expects: stores take effect     *)
(* one at a time, in program order, after they retired, and loads return    *)
(* the last older store, whatever lines are evicted, fetched or written     *)
(* back in between (nu_l1d.sv, the whole of it).                            *)
Implements == DM!Spec

(* The memory the core sees is that of its retired stores: each word is    *)
(* the last store to it that port 1 has written, no squashed store, none   *)
(* lost between the cache, the echo buffer and the L2 and none overwritten *)
(* by an older copy of its line.                                           *)
Coherent == \A l \in LINES, x \in WORDS : View(l)[x] = DM!LastStore(l, x, last)

(* A load returns the last older store to each word it reads, whether it   *)
(* hit on port 2 beside the queue or was replayed on port 1.               *)
LoadsSeeStores == \A p \in done :
  Kind(p) \in {"ld", "ll"} /\ p \notin dead /\ ~WrongPath(p) /\ ~Faults(p) =>
    res[p] = DM!Answer(p)

(* These things the source stops the simulation for never happen: a fill   *)
(* and a store in one cycle, both ports answering the core in one cycle, a *)
(* clean miss in a set the queue has more of, and a push with no queue     *)
(* entry left or over a live reorder buffer entry.  A probe of the line    *)
(* last load-linked does meet its $stop; the model goes on after it.       *)
NoStop ==
  /\ ~(mem_rsp_reload /\ t_wr_array)
  /\ ~(Answer1 /\ Answer2)
  /\ CleanVictim => ~p1.busy \/ p1.retry \/ r_lock_cache
  /\ t_push_miss => Slot(p2.p) \notin r_rob_inflight /\ Len(mq) < MRQ

(* What the state machine has no transition for never happens: a miss that *)
(* may not evict, a stale lookup missing right behind the store to its set,*)
(* a lookup while the machine is elsewhere, a flush or probe that takes a  *)
(* port 1 or port 2 request with it.                                       *)
NothingDropped ==
  /\ DirtyVictim => ~p1.busy \/ p1.retry
  /\ p1.got /\ ~w_cache_port1_hit => rr # p1.idx
  /\ In("FLUSH_CL") => ~p2.got
  /\ p1.got => In("ACTIVE")
  /\ FlushGo => w_hit_or_idle /\ ~TlbGo

(* A line that arrives never overwrites a set holding stores the L2 has    *)
(* not got, and while port 1 works every early fetch on its way is flagged *)
(* in the queue, so that its request waits for it (r_mq_inflight).         *)
FillsAreExpected ==
  /\ mem_rsp_reload => LET i == PIdx[mem_rsp.l] IN ~(cache[i].v /\ cache[i].d)
  /\ In("ACTIVE") => \A i \in DOMAIN l2 :
       ~l2[i].wb /\ l2[i].t < MRQ => l2[i].t \in r_mq_inflight

(* When a probe is acknowledged the L2 holds the line as the core left it  *)
(* (l2_probe_ack, the states FLUSH_CL and FLUSH_CL_WAIT).                  *)
ProbeAck == probe # NoLine /\ probe' # probe
ProbedIsInL2 == [][ProbeAck => mem[probe] = View(probe)]_vars

(* When a flush is reported complete no set is valid and every write back  *)
(* was handed to the L2, although the queue, the echo buffer and early     *)
(* fetches were at work before it and the flush takes any answer of the L2 *)
(* for its own (FLUSH_CACHE_WAIT, FLUSH_CACHE_LAST_WAIT): the L2's queue   *)
(* may still hold them, the L2's own flush comes behind.                   *)
FlushComplete == \E p \in done' \ done : Kind(p) = "fl"
FlushEmpties == [][FlushComplete => (\A i \in IDX : ~cache[i].v') /\ eb' = <<>>]_vars

(* The core and the cache come to rest with every instruction retired or   *)
(* squashed and every probe answered: no request waits for ever for its    *)
(* line, its graduation, a credit, an echo buffer entry or a busy set.     *)
Drained  == /\ ret = N /\ mode = "run" /\ mq = <<>> /\ probe = NoLine
            /\ l2 = <<>> /\ l2q = <<>> /\ eb = <<>>
Progress == <>[]Drained

=============================================================================

-------------------------------- MODULE Exec --------------------------------
(***************************************************************************)
(* The execution units (exec.sv): three queues filled by the core, two     *)
(* integer schedulers and one for memory, the pipeline of the multiplier,  *)
(* register file and forwarding, the store data queue, and the wait bits   *)
(* by which a recovery tells what never started.  One step is one clock    *)
(* edge; the core's part of it (hand over, retire, recover) and the L1D's  *)
(* (accept, answer, take data) are as wide as their interfaces allow.      *)
(*                                                                         *)
(* Values are left out but for one thing: whether a register holds, when   *)
(* it is read, what its producer computed.  Uops are numbered in program   *)
(* order and the physical register a uop writes has its number; a wrong    *)
(* path is the program itself, executed again after the recovery.          *)
(***************************************************************************)
EXTENDS Integers, Sequences

CONSTANTS
  LEN,              \* uops of a program
  NROB,             \* reorder buffer entries
  NQ,               \* entries of each queue
  NS0, NS1, NSM,    \* entries of the schedulers
  MUL_LAT,          \* cycles of the multiplier
  PROGRAMS          \* [k, a, b]: kind, and who computes each operand (0: nobody)

Pos   == 1 .. LEN
CheapInt  == {"alu", "br"}               \* is_cheap_int: either integer port
IntOps   == CheapInt \cup {"cmov", "mul"}
MemOps   == {"ld", "st"}
Writes == {"alu", "cmov"}            \* t_wr_int_prf: in the cycle they execute

ASSUME ExecAssumption ==
  /\ {LEN, NROB, NQ, NS0, NS1, NSM, MUL_LAT} \subseteq Nat \ {0} /\ NQ > 1
  /\ PROGRAMS \subseteq [Pos -> [k : IntOps \cup MemOps, a : 0 .. LEN, b : 0 .. LEN]]
  /\ \A g \in PROGRAMS, p \in Pos : g[p].a < p /\ g[p].b < p
  /\ \A g \in PROGRAMS, p \in Pos : ~\E q \in Pos :
       g[q].k \in {"br", "st"} /\ q \in {g[p].a, g[p].b}

VARIABLES
  prog,
  \* the core: recovery, next uop to hand over, oldest not retired, first of
  \* this path (its entry of the reorder buffer is 0)
  mode, next, head, base,
  r_rob_inflight, r_rob_complete, r_rob_sd_complete,
  r_uq_wait, r_mq_wait,              \* entries of the reorder buffer
  r_uq, r_mem_uq, r_mem_dq, r_mdq,   \* queues, oldest first
  sched, sched2, schedm,             \* entry -> [u, waits, older]
  int_uop, int_uop2, mem_uop, mem_dq,  \* what executes; 0 if nothing does
  r_mem_req,                         \* a request the L1D has not accepted, or 0
  mul, r_wb_bitvec,                  \* stages of the multiplier; when it will write
  r_prf_inflight, prf,               \* registers awaited; registers written
  l1d,                               \* accesses the L1D has not answered
  stale                              \* operands read too early: <<uop, which>>

corevars == <<mode, next, head, base, r_rob_inflight, r_rob_complete, r_rob_sd_complete>>
vars == <<prog, corevars, r_uq_wait, r_mq_wait, r_uq, r_mem_uq, r_mem_dq, r_mdq,
          sched, sched2, schedm, int_uop, int_uop2, mem_uop, mem_dq, r_mem_req,
          mul, r_wb_bitvec, r_prf_inflight, prf, l1d, stale>>

-----------------------------------------------------------------------------
Some(p)    == {p} \ {0}                \* the uop in a register, if there is one
Kind(p)    == prog[p].k
IsInt(p)   == Kind(p) \in IntOps
IsMem(p)   == Kind(p) \in MemOps
IsSt(p)    == Kind(p) = "st"           \* srcB_valid: its data go another way
HasDst(p)  == Kind(p) \in Writes \cup {"mul", "ld"}
Slot(p)    == (p - base) % NROB        \* rob_ptr
Operands(p) == {prog[p].a, prog[p].b} \ {0}
Addr(p)    == Some(prog[p].a)
Data(p)    == Some(prog[p].b)

ds_done    == mode # "ACTIVE"
mem_dq_clr == mode = "RAT"             \* t_clr_rob

(* What writes a register in this cycle: the first port, the second, the   *)
(* multiplier, the L1D.  wake is what all of them announce.                *)
t_wr_int_prf  == {p \in Some(int_uop) : Kind(p) \in Writes}
t_wr_int_prf2 == {p \in Some(int_uop2) : Kind(p) \in Writes}
t_mul_complete == Some(mul[MUL_LAT])
mem_rsp(ans)  == {p \in Some(ans) : HasDst(p)}
wake(ans) == t_wr_int_prf \cup t_wr_int_prf2 \cup t_mul_complete \cup mem_rsp(ans)

(* Only the integer ports have a multiplexer input for the multiplier.     *)
fwd_int(ans) == wake(ans)
fwd_mem(ans) == t_wr_int_prf \cup t_wr_int_prf2 \cup mem_rsp(ans)
fwd_dq(ans)  == t_wr_int_prf \cup t_wr_int_prf2 \cup mem_rsp(ans)

(* The first port's write gives way to the multiplier's.                   *)
wr0 == IF t_mul_complete # {} THEN t_mul_complete ELSE t_wr_int_prf

-----------------------------------------------------------------------------
(* Queues: full, or with room for one only, if any of the three is. *)
Full(q)     == Len(q) = NQ
NextFull(q) == Len(q) = NQ - 1
uq_full      == Full(r_uq) \/ Full(r_mem_uq) \/ Full(r_mem_dq)
uq_next_full == NextFull(r_uq) \/ NextFull(r_mem_uq) \/ NextFull(r_mem_dq)
New(n) == next .. next + n - 1            \* what the core hands over
Put(n, i, kinds) ==
  IF i \leq n /\ Kind(next + i - 1) \in kinds THEN <<next + i - 1>> ELSE <<>>
Pushed(n, kinds) == Put(n, 1, kinds) \o Put(n, 2, kinds)
From(q, k) == SubSeq(q, k + 1, Len(q))

(* Schedulers.  An entry's waits are the operands it has not seen written; *)
(* older is its row of the matrix.                                         *)
None == [u |-> 0, waits |-> {}, older |-> {}]
Valid(s) == {i \in DOMAIN s : s[i].u # 0}
Avail(s) == Valid(s) # DOMAIN s /\ ~ds_done
First(S) == IF S = {} THEN 0 ELSE CHOOSE i \in S : \A j \in S : i \geq j   \* the last bit
Woken(s, w) == {i \in Valid(s) : s[i].waits \subseteq w}
Oldest(s, rdy) == {i \in rdy : s[i].older \cap rdy = {}}
Pick(s, rdy) == IF rdy = {} THEN {} ELSE {First(Oldest(s, rdy))}
Picked(s, sel) == IF sel = {} \/ ds_done THEN 0 ELSE s[First(sel)].u

Mask_All(s, sel) == Valid(s)   \* Mutant: the entry that leaves still counts
Mask(s, sel) == Valid(s) \ sel
(* Alloc u, if it is one, to the first free entry; sel leaves.             *)
Update(s, u, waits, sel, w) ==
  LET new == IF u = 0 THEN {} ELSE {First(DOMAIN s \ Valid(s))} IN
  [i \in DOMAIN s |->
     IF ds_done THEN None
     ELSE IF i \in new THEN [u |-> u, waits |-> (waits \cap r_prf_inflight) \ w,
                             older |-> Mask(s, sel)]
     ELSE IF i \in sel THEN None
     ELSE [s[i] EXCEPT !.waits = @ \ w, !.older = @ \ sel]]

(* Which of the two oldest integer uops goes to which scheduler.           *)
TwoUops == /\ Avail(sched) /\ Avail(sched2) /\ Len(r_uq) > 1
           /\ Kind(r_uq[1]) \in CheapInt \/ Kind(r_uq[2]) \in CheapInt
OnSched1 == Avail(sched) /\ r_uq # <<>>
OnSched2 == Avail(sched2) /\ r_uq # <<>> /\ Kind(r_uq[1]) \in CheapInt
Dispatch ==
  IF TwoUops
  THEN IF Kind(r_uq[1]) \in CheapInt /\ Kind(r_uq[2]) \notin CheapInt
       THEN <<r_uq[2], r_uq[1]>> ELSE <<r_uq[1], r_uq[2]>>
  ELSE IF OnSched2 THEN <<0, r_uq[1]>>
  ELSE IF OnSched1 THEN <<r_uq[1], 0>> ELSE <<0, 0>>
popped == IF TwoUops THEN 2 ELSE IF OnSched1 \/ OnSched2 THEN 1 ELSE 0

(* A uop of the first port would write together with the multiplier.       *)
PortBusy(p) == (IF Kind(p) = "mul" THEN MUL_LAT + 2 ELSE 1) \in r_wb_bitvec
Ready(w)  == {i \in Woken(sched, w) : ~PortBusy(sched[i].u)}
Ready2(w) == Woken(sched2, w)

(* Memory uops: none starts before the last request is accepted; with a    *)
(* store among them, strictly the oldest.                                  *)
MemCap(ack) == r_mem_req = 0 /\ (mem_uop = 0 \/ ack)
MemReady(w, ack) == IF MemCap(ack) THEN Woken(schedm, w) ELSE {}
SomeStore == \E i \in Valid(schedm) : IsSt(schedm[i].u)
MemPick(w, ack) ==
  LET rdy == MemReady(w, ack)
      old == IF SomeStore THEN {i \in rdy : schedm[i].older = {}} ELSE Oldest(schedm, rdy)
  IN IF old = {} THEN {} ELSE {First(old)}

DqReady_OneLeft(ans) ==   \* Mutant: the data under way are not counted
  /\ r_mem_dq # <<>> /\ ~mem_dq_clr /\ ~Full(r_mdq)
  /\ Data(Head(r_mem_dq)) \cap r_prf_inflight \subseteq fwd_dq(ans)
(* Store data wait for their register and for two entries of r_mdq.        *)
DqReady(ans) == /\ r_mem_dq # <<>> /\ ~mem_dq_clr
                /\ Data(Head(r_mem_dq)) \cap r_prf_inflight \subseteq fwd_dq(ans)
                /\ ~Full(r_mdq) /\ ~NextFull(r_mdq)

-----------------------------------------------------------------------------
(* Issue: the uops picked read the register file; those that find a        *)
(* register neither written nor forwarded read it too early.               *)
TooEarly(p, which, operands, fwd) ==
  IF p # 0 /\ ~(operands \subseteq prf \cup fwd) THEN {<<p, which>>} ELSE {}

Issue(ans, ack) ==
  LET w == wake(ans)
      sel == Pick(sched, Ready(w))   sel2 == Pick(sched2, Ready2(w))
      selm == MemPick(w, ack)
      u == Picked(sched, sel)  u2 == Picked(sched2, sel2)  um == Picked(schedm, selm)
      ud == IF DqReady(ans) THEN Head(r_mem_dq) ELSE 0
      new == Dispatch
      newm == IF r_mem_uq # <<>> /\ Avail(schedm) THEN Head(r_mem_uq) ELSE 0
      Waits(p) == IF p = 0 THEN {} ELSE IF IsMem(p) THEN Addr(p) ELSE Operands(p)
  IN
  /\ int_uop' = u /\ int_uop2' = u2 /\ mem_uop' = um /\ mem_dq' = ud
  /\ sched' = Update(sched, new[1], Waits(new[1]), sel, w)
  /\ sched2' = Update(sched2, new[2], Waits(new[2]), sel2, w)
  /\ schedm' = Update(schedm, newm, Waits(newm), selm, w)
  /\ stale' = IF ds_done THEN stale ELSE stale
       \cup TooEarly(u, "op", Waits(u), fwd_int(ans))
       \cup TooEarly(u2, "op", Waits(u2), fwd_int(ans))
       \cup TooEarly(um, "addr", Waits(um), fwd_mem(ans))
       \cup TooEarly(ud, "data", IF ud = 0 THEN {} ELSE Data(ud), fwd_dq(ans))

(* The queues: what the core pushes comes in, what is dispatched leaves.   *)
Enqueue(n, dack) ==
  LET poppedm == IF r_mem_uq # <<>> /\ Avail(schedm) THEN 1 ELSE 0
  IN
  /\ r_uq' = IF ds_done THEN <<>> ELSE From(r_uq, popped) \o Pushed(n, IntOps)
  /\ r_mem_uq' = IF ds_done THEN <<>>
                 ELSE From(r_mem_uq, poppedm) \o Pushed(n, MemOps)
  /\ r_mdq' = IF mem_dq_clr THEN <<>>
              ELSE From(r_mdq, IF dack THEN 1 ELSE 0)
                   \o (IF mem_dq = 0 THEN <<>> ELSE <<mem_dq>>)
EnqueueData(n, ans) ==
  r_mem_dq' = IF mem_dq_clr THEN <<>>
              ELSE From(r_mem_dq, IF DqReady(ans) THEN 1 ELSE 0)
                   \o Pushed(n, {"st"})

(* The multiplier does not start what was issued when the recovery began.  *)
t_start_mul == {p \in Some(int_uop) : Kind(p) = "mul" /\ ~ds_done}
Multiply ==
  /\ mul' = [i \in 0 .. MUL_LAT |->
               IF i > 0 THEN mul[i - 1] ELSE IF t_start_mul = {} THEN 0 ELSE int_uop]
  /\ r_wb_bitvec' = {i - 1 : i \in r_wb_bitvec \ {0}}
                    \cup (IF t_start_mul = {} THEN {} ELSE {MUL_LAT})

(* One cycle without bypass: what is written now is read from the next on. *)
Registers(n, ans) ==
  LET dsts == {p \in New(n) : HasDst(p)} IN
  /\ prf' = (prf \cup wr0 \cup t_wr_int_prf2 \cup mem_rsp(ans)) \ dsts
  /\ r_prf_inflight' =
       IF ds_done THEN {}
       ELSE (r_prf_inflight \cup dsts)
            \ (mem_rsp(ans) \cup t_wr_int_prf2
               \cup (IF t_wr_int_prf # {} THEN t_wr_int_prf ELSE t_mul_complete))

(* The L1D accepts a request, or it waits in r_mem_req; it answers, and    *)
(* takes the data of a store that has retired.                             *)
Request == IF r_mem_req # 0 THEN r_mem_req ELSE mem_uop
Memory(ans, ack) ==
  /\ ack => Request # 0
  /\ ans \in l1d \cup {0}
  /\ r_mem_req' = IF ack THEN 0 ELSE Request
  /\ l1d' = (l1d \ {ans}) \cup (IF ack THEN {Request} ELSE {})
TakesData == r_mdq # <<>> /\ Head(r_mdq) < head /\ ~mem_dq_clr

(* uq_wait, mq_wait: set when a uop is queued, cleared when it starts, but *)
(* by the second integer port never.                                       *)
WaitBits(n, complete) ==
  LET news(kinds) == {Slot(p) : p \in {q \in New(n) : Kind(q) \in kinds}} IN
  /\ r_uq_wait' = IF complete THEN {}
                  ELSE (r_uq_wait \cup news(IntOps)) \ {Slot(p) : p \in Some(int_uop)}
  /\ r_mq_wait' = IF complete THEN {}
                  ELSE (r_mq_wait \cup news(MemOps)) \ {Slot(p) : p \in Some(mem_uop)}

(* Completions: the first port's gives way to the multiplier's.            *)
Completed(ans) ==
  (IF t_mul_complete # {} THEN t_mul_complete
   ELSE {p \in Some(int_uop) : Kind(p) # "mul"}) \cup Some(int_uop2) \cup Some(ans)

(* A clock edge of the units.                                              *)
Units(n, ans, ack, dack, complete) ==
  /\ Memory(ans, ack)
  /\ dack => TakesData
  /\ Enqueue(n, dack) /\ EnqueueData(n, ans) /\ Issue(ans, ack)
  /\ Multiply /\ Registers(n, ans) /\ WaitBits(n, complete)
  /\ UNCHANGED prog

-----------------------------------------------------------------------------
(* The core *)
HeadComplete(p) == /\ p < next /\ p \in r_rob_complete
                   /\ IsSt(p) => p \in r_rob_sd_complete
Mispredicted == HeadComplete(head) /\ Kind(head) = "br"
Retired == IF ~HeadComplete(head) THEN 0
           ELSE IF HeadComplete(head + 1) /\ Kind(head + 1) # "br" THEN 2 ELSE 1

Room(n) == /\ next + n \leq LEN + 1 /\ next + n - head \leq NROB
           /\ n > 0 => ~uq_full
           /\ n > 1 => ~uq_next_full

(* Uops are handed over and retired.                                       *)
Active(n, ans, ack, dack) ==
  /\ mode = "ACTIVE" /\ ~Mispredicted /\ Room(n)
  /\ next' = next + n /\ head' = head + Retired
  /\ Units(n, ans, ack, dack, FALSE)
  /\ r_rob_complete' = {p \in r_rob_complete \cup Completed(ans) : p \geq head'}
  /\ r_rob_sd_complete' = {p \in r_rob_sd_complete \cup Some(mem_dq) : p \geq head'}
  /\ r_rob_inflight' = (r_rob_inflight \ {Slot(p) : p \in Completed(ans)})
                       \cup {Slot(p) : p \in New(n)}
  /\ UNCHANGED <<mode, base>>

(* A mispredicted branch is the oldest uop.                                *)
Recover(ans, ack, dack) ==
  /\ mode = "ACTIVE" /\ Mispredicted
  /\ Units(0, ans, ack, dack, FALSE)
  /\ mode' = "DRAIN" /\ head' = head + 1
  /\ r_rob_complete' = {} /\ r_rob_sd_complete' = {}
  /\ r_rob_inflight' = r_rob_inflight \ {Slot(p) : p \in Completed(ans)}
  /\ UNCHANGED <<next, base>>

memq_empty == l1d = {} /\ Request = 0 /\ ~TakesData   \* bits 0, 3, 9, 10
ClearedInflight_Completed(ans) ==   \* Mutant: what never started is waited for
  r_rob_inflight \ {Slot(p) : p \in Completed(ans)}
ClearedInflight(ans) ==
  r_rob_inflight \ (r_uq_wait \cup r_mq_wait \cup {Slot(p) : p \in Completed(ans)})

(* Mutant: the request that starts as the recovery begins is forgotten.     *)
Drained_Started == r_rob_inflight = {} /\ l1d = {} /\ ~TakesData
Drained == r_rob_inflight = {} /\ memq_empty
Drain(ans, ack, dack) ==
  /\ mode = "DRAIN"
  /\ Units(0, ans, ack, dack, FALSE)
  /\ mode' = IF Drained THEN "RAT" ELSE "DRAIN"
  /\ r_rob_inflight' = ClearedInflight(ans)
  /\ UNCHANGED <<next, head, base, r_rob_complete, r_rob_sd_complete>>

(* The path starts again behind the branch, once the front end has         *)
(* acknowledged.                                                           *)
RatCopy(ans, ack, dack) ==
  /\ mode = "RAT"
  /\ \E acked \in BOOLEAN :
       /\ Units(0, ans, ack, dack, acked)
       /\ mode' = IF acked THEN "ACTIVE" ELSE "RAT"
  /\ r_rob_inflight' = ClearedInflight(ans)
  /\ next' = head /\ base' = head
  /\ UNCHANGED <<head, r_rob_complete, r_rob_sd_complete>>

Empty(n) == [i \in 0 .. n - 1 |-> None]
Init ==
  /\ prog \in PROGRAMS /\ mode = "ACTIVE" /\ next = 1 /\ head = 1 /\ base = 1
  /\ r_rob_inflight = {} /\ r_rob_complete = {} /\ r_rob_sd_complete = {}
  /\ r_uq_wait = {} /\ r_mq_wait = {}
  /\ r_uq = <<>> /\ r_mem_uq = <<>> /\ r_mem_dq = <<>> /\ r_mdq = <<>>
  /\ sched = Empty(NS0) /\ sched2 = Empty(NS1) /\ schedm = Empty(NSM)
  /\ int_uop = 0 /\ int_uop2 = 0 /\ mem_uop = 0 /\ mem_dq = 0 /\ r_mem_req = 0
  /\ mul = [i \in 0 .. MUL_LAT |-> 0] /\ r_wb_bitvec = {}
  /\ r_prf_inflight = {} /\ prf = {} /\ l1d = {} /\ stale = {}

Clock(n, ans, ack, dack) ==
  \/ Active(n, ans, ack, dack)
  \/ n = 0 /\ Recover(ans, ack, dack)
  \/ n = 0 /\ Drain(ans, ack, dack)
  \/ n = 0 /\ RatCopy(ans, ack, dack)
Answer == l1d \cup {0}
Next == \E n \in 0 .. 2, ans \in Answer, ack, dack \in BOOLEAN :
          Clock(n, ans, ack, dack)
Spec == Init /\ [][Next]_vars

(* Fairness: the clock runs; the front end supplies and acknowledges, the  *)
(* L1D accepts, answers and takes data, each in the end.                   *)
FairSpec ==
  /\ Spec /\ WF_vars(Next)
  /\ WF_vars(\E ans \in Answer, ack, dack \in BOOLEAN : Active(1, ans, ack, dack))
  /\ WF_vars(\E ans \in Answer, ack, dack \in BOOLEAN :
               RatCopy(ans, ack, dack) /\ mode' = "ACTIVE")
  /\ WF_vars(\E n \in 0 .. 2, ans \in Answer, dack \in BOOLEAN : Clock(n, ans, TRUE, dack))
  /\ WF_vars(\E n \in 0 .. 2, ans \in l1d, ack, dack \in BOOLEAN : Clock(n, ans, ack, dack))
  /\ WF_vars(\E n \in 0 .. 2, ans \in Answer, ack \in BOOLEAN : Clock(n, ans, ack, TRUE))

-----------------------------------------------------------------------------
(* Properties *)
Queued == {r_uq[i] : i \in DOMAIN r_uq} \cup {r_mem_uq[i] : i \in DOMAIN r_mem_uq}
          \cup UNION {{s[i].u : i \in Valid(s)} : s \in {sched, sched2, schedm}}
          \cup Some(int_uop) \cup Some(int_uop2) \cup Some(mem_uop)
Started == {mul[i] : i \in 0 .. MUL_LAT} \cup {r_mem_req} \cup l1d
Gone(p) == p \geq next \/ (ds_done /\ p \geq head)

DF == INSTANCE Dataflow WITH
  stage <- [p \in Pos |->
              IF Gone(p) THEN "out" ELSE IF <<p, "op">> \in stale \/ <<p, "addr">> \in stale
              THEN "stale" ELSE IF p \in Queued THEN "waits"
              ELSE IF p \in Started THEN "started" ELSE "done"],
  data  <- [p \in Pos |->
              IF Gone(p) \/ ~IsSt(p) THEN "out" ELSE IF <<p, "data">> \in stale
              THEN "stale"
              ELSE IF p \in {r_mem_dq[i] : i \in DOMAIN r_mem_dq} \cup Some(mem_dq)
              THEN "waits" ELSE IF mem_dq_clr /\ p \in {r_mdq[i] : i \in DOMAIN r_mdq}
              THEN "lost" ELSE "done"]

TypeOK ==
  /\ prog \in PROGRAMS /\ mode \in {"ACTIVE", "DRAIN", "RAT"}
  /\ {next, head, base} \subseteq 1 .. LEN + 1 /\ base \leq head /\ head \leq next
  /\ \A q \in {r_uq, r_mem_uq, r_mem_dq, r_mdq} : q \in Seq(Pos) /\ Len(q) \leq NQ
  /\ \A s \in {sched, sched2, schedm}, i \in 0 .. NS0 + NS1 + NSM : i \in DOMAIN s =>
       s[i] \in [u : Pos \cup {0}, waits : SUBSET Pos, older : SUBSET DOMAIN s]
  /\ {int_uop, int_uop2, mem_uop, mem_dq, r_mem_req} \subseteq Pos \cup {0}
  /\ mul \in [0 .. MUL_LAT -> Pos \cup {0}] /\ r_wb_bitvec \subseteq 0 .. MUL_LAT
  /\ r_prf_inflight \cup prf \cup l1d \subseteq Pos
  /\ r_rob_inflight \cup r_uq_wait \cup r_mq_wait \subseteq 0 .. NROB - 1

(* Although entries are freed and taken again in any order, each row of a  *)
(* matrix names exactly the entries that hold older uops: a ready uop is   *)
(* never passed by a younger one of its scheduler.                         *)
OldestFirst == \A s \in {sched, sched2, schedm} : \A i \in Valid(s) :
  s[i].older = {j \in Valid(s) : s[j].u < s[i].u}

(* Every uop starts once, with operands that are there, memory accesses in *)
(* order; after a misprediction nothing younger has an effect.             *)
Implements == DF!Spec

(* Whatever is waited for, every uop of the program is executed and        *)
(* retired: no wake-up is lost, no queue or port stays blocked.            *)
Finishes == <>(head = LEN + 1)

(* An address is never computed from a register that is not written yet.   *)
AddressFresh == \A p \in Pos : <<p, "addr">> \notin stale
=============================================================================

-------------------------------- MODULE Core --------------------------------
(***************************************************************************)
(* The state machine of core.sv with the structures it steers: the decode  *)
(* queue, the reorder buffer, the uops in the execution units (exec.sv) as *)
(* far as the core can tell them apart, and the front end's restart        *)
(* handshake.  One step is one clock edge.                                 *)
(*                                                                         *)
(* Data are left out: a uop is its kind and its position in the program.   *)
(* Positions count modulo LEN; OFF is every position of a wrong path.      *)
(* The front end fetches along its prediction, so what follows a           *)
(* mispredicted branch or a faulting instruction is at OFF.                *)
(***************************************************************************)
EXTENDS Integers, Sequences, FiniteSets

CONSTANTS
  NROB,         \* reorder buffer entries
  NDQ,          \* decode queue entries
  NMRQ,         \* stores the L1D holds for retirement
  LEN,          \* positions in the program
  Programs      \* what to run: see Program

Positions == 0 .. LEN - 1
OFF == LEN

(* What decode, execution and the L1D tell the core about a uop.           *)
Folded     == {"nop", "ill", "irq"}       \* complete at allocation
Mem        == {"ld", "ldf", "st", "dst", "ll", "llf", "sc"}
HasData    == {"st", "dst", "sc"}         \* is_mem with a second source
AckedEarly == {"st", "dst"}               \* written after retirement
FlushFirst == {"imb", "mon"}              \* FENCEI and MONITOR
Serializing == {"ser", "ll", "llf", "sc"} \cup FlushFirst
IsBr       == {"br", "misbr"}
OnePort    == {"mul", "ser"} \cup FlushFirst    \* not is_cheap_int
TwoPorts   == {"alu", "cmov"} \cup IsBr
ArchFault  == {"ill", "irq", "ldf", "llf"}      \* faulted, with a cause
MarksDirty == {"dst"}                           \* a store to a clean page
Faulted    == ArchFault \cup {"misbr"}
Kinds == Folded \cup Mem \cup OnePort \cup TwoPorts

(* A program: its code, what the front end may find on a wrong path, how   *)
(* many interrupts are raised, and whether faults go to the harness        *)
(* instead of a handler (the build's SYSCALL_EMU).                         *)
Program == [code : [Positions -> Kinds \ {"irq"}], wrong : SUBSET (Kinds \ {"irq"}),
            MAXIRQ : Nat, SYSCALL_EMU : BOOLEAN]

ASSUME CoreAssumption ==
  /\ NROB \in Nat /\ NROB >= 2
  /\ NDQ \in Nat /\ NDQ >= 2
  /\ NMRQ \in Nat /\ NMRQ >= 1
  /\ LEN \in Nat /\ LEN > NROB + NDQ
  /\ Programs \subseteq Program

Uop == [kind : Kinds, pos : Positions \cup {OFF}, half : {"whole", "lo", "hi"}]

States == {"FLUSH_FOR_HALT", "HALT", "ACTIVE", "DRAIN", "RAT",
  "ALLOC_FOR_SERIALIZE", "FLUSH_CACHE", "HANDLE_MONITOR",
  "ALLOC_FOR_MONITOR", "WAIT_FOR_MONITOR", "HALT_WAIT_FOR_RESTART",
  "WAIT_FOR_SERIALIZE_AND_RESTART", "WAIT_FOR_ACK", "MONITOR_WAIT_FOR_ACK",
  "ARCH_FAULT", "WRITE_CSRS", "WAIT_FOR_CSR_WRITE", "WAIT_FOR_MMU"}

VARIABLES
  r_state, r_ds_done, r_pending_fault, r_got_restart_ack, r_restart_pc,
  r_epc, r_irq,        \* the exception's instruction; is it an interrupt
  stopped,             \* r_pending_ii, r_pending_badva, r_pending_break
  r_dq,                \* decode queue
  r_rob, r_rob_head_ptr, r_rob_tail_ptr,
  r_rob_complete, r_rob_sd_complete, r_rob_inflight,   \* sets of slots
  unit,                \* slot -> where its uop is in the execution units
  r_uq_wait,           \* slots whose uq_wait bit outlived the issue
  mem_dq,              \* slots waiting for store data, oldest first
  wrq,                 \* acknowledged stores the L1D has not written
  flushing,            \* caches that have not completed the flush
  fe_on, fe_pos,       \* the front end is fetching, and where
  fe_req, restart_ack, \* its restart handshake
  irq_line, irqs,      \* w_any_irq; interrupts raised so far
  prog, arch_pos       \* the program and what of it has been executed

fsm  == <<r_state, r_ds_done, r_pending_fault, r_got_restart_ack,
          r_restart_pc, r_epc, r_irq, stopped>>
trap == <<r_epc, r_irq, stopped>>
rob  == <<r_rob, r_rob_head_ptr, r_rob_tail_ptr>>
exec == <<r_rob_complete, r_rob_sd_complete, r_rob_inflight, unit, r_uq_wait,
          mem_dq, wrq>>
fe   == <<fe_on, fe_pos, fe_req, restart_ack, irq_line, irqs>>
corevars == <<fsm, r_dq, rob, exec, flushing, fe, prog, arch_pos>>

-----------------------------------------------------------------------------
Slots == 0 .. NROB - 1
Ptrs  == 0 .. 2 * NROB - 1
Adv(p, k) == (p + k) % (2 * NROB)
Slot(p)   == p % NROB

Occupancy == (r_rob_tail_ptr - r_rob_head_ptr) % (2 * NROB)
Entry(k)  == r_rob[Slot(Adv(r_rob_head_ptr, k))]      \* k-th oldest uop
Live      == {Slot(Adv(r_rob_head_ptr, k)) : k \in 0 .. Occupancy - 1}
NoUop     == [kind |-> "nop", pos |-> OFF, half |-> "whole"]

HeadComplete(k) ==
  Slot(Adv(r_rob_head_ptr, k)) \in r_rob_complete \cap r_rob_sd_complete

(* Program order.                                                          *)
Inc(p)    == IF p = OFF THEN OFF ELSE (p + 1) % LEN
Follow(u) == IF u.kind \in Faulted THEN OFF ELSE Inc(u.pos)

-----------------------------------------------------------------------------
(* The front end and the decode queue.                                     *)

(* An instruction the front end may present when it is at p.               *)
Insns(p) ==
  IF irq_line THEN {[kind |-> "irq", pos |-> p, half |-> "whole"]}
  ELSE IF p = OFF
  THEN {[kind |-> k, pos |-> p, half |-> "whole"] : k \in prog.wrong}
  ELSE {[kind |-> prog.code[p], pos |-> p, half |-> "whole"]}

Offers ==
  IF ~fe_on \/ restart_ack THEN {<<>>}
  ELSE {<<>>} \cup UNION {{<<u>>} \cup {<<u, v>> : v \in Insns(Follow(u))} :
                          u \in Insns(fe_pos)}

IsCmov(u) == u.kind = "cmov"
Crack(u)  == <<[u EXCEPT !.half = "lo"], [u EXCEPT !.half = "hi"]>>

(* The instructions of an offer that the decode queue takes this cycle.    *)
Taken(offer) ==
  LET room == NDQ - Len(r_dq) IN
  IF offer = <<>> \/ room = 0 THEN <<>>
  ELSE IF IsCmov(offer[1]) THEN IF room >= 2 THEN <<offer[1]>> ELSE <<>>
  ELSE IF Len(offer) = 2 /\ room >= 2 /\ ~IsCmov(offer[2]) THEN offer
  ELSE <<offer[1]>>

Pushed(taken) ==
  IF taken # <<>> /\ IsCmov(taken[1]) THEN Crack(taken[1]) ELSE taken

(* The queue takes instructions in every state, but only ACTIVE tells the  *)
(* front end so (insn_ack).  A restart is answered any time after the      *)
(* request; a flush leaves the front end idle until the next restart.      *)
FrontEnd(c, flushed) ==
  \E offer \in Offers, answer \in BOOLEAN :
    LET taken == Taken(offer) IN
    /\ answer => fe_req
    /\ r_dq' = IF c.clr_dq \/ c.clr_rob THEN <<>>
               ELSE SubSeq(r_dq, c.alloc + 1, Len(r_dq)) \o Pushed(taken)
    /\ restart_ack' = answer
    /\ fe_req' = (c.restart \/ (fe_req /\ ~answer))
    /\ fe_on' = (answer \/ (fe_on /\ "l1i" \notin flushed))
    /\ fe_pos' = IF answer THEN r_restart_pc
                 ELSE IF r_state = "ACTIVE" /\ taken # <<>>
                 THEN Follow(taken[Len(taken)])
                 ELSE fe_pos

(* w_any_irq: raised at any time, masked once a handler is entered.        *)
Interrupts ==
  IF r_state = "WRITE_CSRS"
  THEN irq_line' = FALSE /\ UNCHANGED irqs
  ELSE \/ UNCHANGED <<irq_line, irqs>>
       \/ ~irq_line /\ irqs < prog.MAXIRQ /\ irq_line' = TRUE /\ irqs' = irqs + 1

-----------------------------------------------------------------------------
(* The execution units and the L1D, as the core sees them.                 *)

AtMostOne(S) == {{}} \cup {{x} : x \in S}
KindAt(s) == r_rob[s].kind
At(where) == {s \in Slots : unit[s] = where}

(* r_graduated: a store leaves the retry queue once it has retired, or is  *)
(* dropped while ds_done holds.                                            *)
AckedUnretired ==
  {s \in Live : KindAt(s) \in AckedEarly /\ s \in r_rob_complete}
CanWrite == wrq > (IF r_ds_done THEN 0 ELSE Cardinality(AckedUnretired))

(* A store-conditional is answered when it is written; any other store when*)
(* the retry queue takes it, which blocks once the queue is full.          *)
MayAnswer(s) ==
  /\ KindAt(s) = "sc" => s \in r_rob_sd_complete
  /\ KindAt(s) \in AckedEarly => wrq < NMRQ

(* The L1D's view: it knows a request from the cycle after r_mem_ready.    *)
memq_empty_Queues == At("mem") = {}     \* Mutant: forgets retired stores
memq_empty == At("mem") = {} /\ wrq = 0

(* uq_wait | mq_wait: set when a uop is queued, still set in the cycle its *)
(* issue starts, and never cleared by an issue on the second integer port. *)
WaitBits == At("queued") \cup At("start1") \cup At("start2") \cup At("startm")
              \cup r_uq_wait

NewSlots(c) == {Slot(Adv(r_rob_tail_ptr, k - 1)) : k \in 1 .. c.alloc}
NewUop(c, s) ==
  r_dq[CHOOSE k \in 1 .. c.alloc : s = Slot(Adv(r_rob_tail_ptr, k - 1))]

(* The slot of the k-th new uop, if it waits for store data.                *)
NewData(c, k) ==
  IF k <= c.alloc /\ r_dq[k].kind \in HasData
  THEN <<Slot(Adv(r_rob_tail_ptr, k - 1))>> ELSE <<>>

Execute(c) ==
  \E p1 \in AtMostOne({s \in At("queued") : KindAt(s) \in OnePort \cup TwoPorts}),
     p2 \in AtMostOne({s \in At("queued") : KindAt(s) \in TwoPorts}),
     pm \in AtMostOne({s \in At("queued") : KindAt(s) \in Mem}),
     mul \in AtMostOne(At("mul")),
     rsp \in AtMostOne({s \in At("mem") : MayAnswer(s)}),
     sd \in {{}} \cup (IF mem_dq = <<>> THEN {} ELSE {{Head(mem_dq)}}),
     written \in BOOLEAN :
    LET new   == NewSlots(c)
        added == {s \in new : NewUop(c, s).kind \notin Folded}
        mulop == {s \in At("start1") : KindAt(s) = "mul"}
        done  == (At("start1") \ mulop) \cup At("start2") \cup mul \cup rsp
    IN
    /\ p1 \cap p2 = {}
    /\ r_ds_done => p1 \cup p2 \cup pm = {}
    /\ written => CanWrite
    /\ unit' = [s \in Slots |->
         CASE s \in added -> "queued"
           [] s \in p1    -> "start1"
           [] s \in p2    -> "start2"
           [] s \in pm    -> "startm"
           [] s \in done  -> "idle"
           [] s \in mulop -> IF r_ds_done THEN "idle" ELSE "mul"
           [] unit[s] = "startm" -> "mem"
           [] unit[s] = "queued" /\ r_ds_done -> "idle"
           [] OTHER -> unit[s]]
    /\ r_uq_wait' = IF c.restart_complete THEN {}
                    ELSE (r_uq_wait \cup At("start2")) \ At("start1")
    /\ r_rob_inflight' =
         IF r_ds_done THEN r_rob_inflight \ (WaitBits \cup done)
         ELSE (r_rob_inflight \ done) \cup added
    /\ r_rob_complete' =
         IF c.clr_rob THEN {}
         ELSE (r_rob_complete \ added) \cup (new \ added) \cup done
    /\ r_rob_sd_complete' =
         IF c.clr_rob THEN {}
         ELSE (r_rob_sd_complete \ new) \cup sd
                \cup {s \in new : NewUop(c, s).kind \notin HasData}
    /\ mem_dq' =
         IF c.clr_rob THEN <<>>
         ELSE SubSeq(mem_dq, 1 + Cardinality(sd), Len(mem_dq))
                \o NewData(c, 1) \o NewData(c, 2)
    /\ wrq' = wrq - (IF written THEN 1 ELSE 0)
                  + (IF ~r_ds_done /\ \E s \in rsp : KindAt(s) \in AckedEarly
                     THEN 1 ELSE 0)
    /\ r_pending_fault' =
         IF c.calm THEN FALSE
         ELSE r_pending_fault \/ \E s \in done \ rsp : KindAt(s) \in Faulted

(* Reorder buffer entries and pointers.  c.heads counts t_retire,          *)
(* t_retire_two and t_bump_rob_head.                                       *)
Buffer(c) ==
  /\ r_rob' = [s \in Slots |-> IF s \in NewSlots(c) THEN NewUop(c, s)
                               ELSE r_rob[s]]
  /\ r_rob_head_ptr' = IF c.clr_rob THEN 0 ELSE Adv(r_rob_head_ptr, c.heads)
  /\ r_rob_tail_ptr' = IF c.clr_rob THEN 0 ELSE Adv(r_rob_tail_ptr, c.alloc)

(* What a uop that leaves the head has done of the program: an interrupt   *)
(* and the low half of a conditional move complete no instruction.         *)
Done(p, u) == IF u.kind = "irq" \/ u.half = "lo" THEN p ELSE Inc(p)
Architectural(c) ==
  arch_pos' = CASE c.heads = 0 -> arch_pos
                [] c.heads = 1 -> Done(arch_pos, Entry(0))
                [] OTHER -> Done(Done(arch_pos, Entry(0)), Entry(1))

Caches == {"l1i", "l1d", "l2"}

(* The L1D starts its flush with empty queues; the L2 waits for both L1s.  *)
FlushAnswers ==
  {S \in SUBSET flushing : /\ "l1d" \in S => memq_empty
                           /\ "l2" \in S => flushing = {"l2"}}

(* Everything that is clocked, given the state machine's outputs c.        *)
Edge(c) ==
  \E flushed \in FlushAnswers :
    /\ flushing' = IF c.flush THEN Caches ELSE flushing \ flushed
    /\ FrontEnd(c, flushed)
    /\ Interrupts
    /\ Execute(c)
    /\ Buffer(c)
    /\ Architectural(c)
    /\ UNCHANGED prog

(* The outputs of a cycle in which the state machine only waits.           *)
Quiet == [alloc |-> 0, heads |-> 0, clr_rob |-> FALSE, clr_dq |-> FALSE,
          restart |-> FALSE, restart_complete |-> FALSE, calm |-> FALSE,
          flush |-> FALSE]

ClearQueue == [Quiet EXCEPT !.clr_dq = TRUE]
ClearAll == [ClearQueue EXCEPT !.clr_rob = TRUE]

n_got_restart_ack == restart_ack \/ r_got_restart_ack

-----------------------------------------------------------------------------
(* The state machine: one action per state, a whole clock edge each.       *)

Init ==
  /\ r_state = "FLUSH_FOR_HALT" /\ flushing = Caches
  /\ r_ds_done = FALSE /\ r_pending_fault = FALSE
  /\ r_got_restart_ack = FALSE /\ stopped = FALSE
  /\ r_restart_pc = 0 /\ arch_pos = 0 /\ r_epc = 0 /\ r_irq = FALSE
  /\ r_dq = <<>> /\ mem_dq = <<>> /\ wrq = 0
  /\ r_rob = [s \in Slots |-> NoUop]
  /\ r_rob_head_ptr = 0 /\ r_rob_tail_ptr = 0
  /\ r_rob_complete = {} /\ r_rob_sd_complete = {} /\ r_rob_inflight = {}
  /\ unit = [s \in Slots |-> "idle"] /\ r_uq_wait = {}
  /\ fe_on = FALSE /\ fe_pos = 0 /\ fe_req = FALSE /\ restart_ack = FALSE
  /\ irq_line = FALSE /\ irqs = 0
  /\ prog \in Programs

RobHead == Entry(0)
t_can_retire_rob_head == Occupancy > 0 /\ HeadComplete(0)

t_retire_two_Blind ==     \* Mutant: the second entry's fault is not seen
  /\ Occupancy > 1 /\ HeadComplete(1)
  /\ RobHead.kind \notin Faulted \cup MarksDirty
  /\ ~(RobHead.kind \in IsBr /\ Entry(1).kind \in IsBr)

t_retire_two ==
  /\ Occupancy > 1 /\ HeadComplete(1)
  /\ RobHead.kind \notin Faulted \cup MarksDirty
  /\ Entry(1).kind \notin Faulted
  /\ ~(RobHead.kind \in IsBr /\ Entry(1).kind \in IsBr)

Allocs_Full ==     \* Mutant: a full buffer goes unnoticed
  {n \in 0 .. 2 : /\ n <= Len(r_dq)
                  /\ \A k \in 1 .. n : r_dq[k].kind \notin Serializing}

(* How many uops may be allocated.  The issue queues and the free list may *)
(* have less room: module Rename has the registers.                        *)
Allocs ==
  {n \in 0 .. 2 : /\ n <= Len(r_dq) /\ Occupancy + n <= NROB
                  /\ \A k \in 1 .. n : r_dq[k].kind \notin Serializing}

(* The front end's acknowledgement is kept until the core is ACTIVE.       *)
LatchAck_Lost == r_got_restart_ack' = FALSE     \* Mutant
LatchAck == r_got_restart_ack' = n_got_restart_ack
DropAck == r_got_restart_ack' = FALSE

(* No uop is left that could still write its buffer entry.                 *)
Drained_Mem == memq_empty     \* Mutant: forgets the integer units
Drained == r_rob_inflight = {} /\ memq_empty

Goto(s) == r_state' = s

(* ACTIVE, the head has an architectural fault.                            *)
ActiveFault ==
  /\ r_state = "ACTIVE" /\ t_can_retire_rob_head /\ RobHead.kind \in ArchFault
  /\ Goto("ARCH_FAULT") /\ r_ds_done' = TRUE
  /\ r_restart_pc' = Inc(RobHead.pos)
  /\ r_epc' = RobHead.pos /\ r_irq' = (RobHead.kind = "irq")
  /\ DropAck
  /\ Edge(Quiet)
  /\ UNCHANGED stopped

(* ACTIVE, the head is a mispredicted branch: it retires, and the front    *)
(* end is restarted at once.                                               *)
ActiveMispredict ==
  /\ r_state = "ACTIVE" /\ t_can_retire_rob_head
  /\ RobHead.kind \in Faulted \ ArchFault
  /\ Goto("DRAIN") /\ r_ds_done' = TRUE
  /\ r_restart_pc' = Inc(RobHead.pos)
  /\ DropAck
  /\ Edge([Quiet EXCEPT !.heads = 1, !.restart = TRUE])
  /\ UNCHANGED trap

(* ACTIVE, the head is a store to a clean page: it retires, and the page   *)
(* is marked before anything else executes.                                *)
ActiveDirty ==
  /\ r_state = "ACTIVE" /\ t_can_retire_rob_head /\ RobHead.kind \in MarksDirty
  /\ Goto("WAIT_FOR_MMU") /\ r_ds_done' = TRUE
  /\ r_restart_pc' = Inc(RobHead.pos)
  /\ DropAck
  /\ Edge([Quiet EXCEPT !.heads = 1])
  /\ UNCHANGED trap

(* ACTIVE, an ordinary head retires, perhaps with its successor.           *)
ActiveRetire ==
  /\ r_state = "ACTIVE" /\ t_can_retire_rob_head
  /\ RobHead.kind \notin Faulted \cup MarksDirty
  /\ \E n \in Allocs :
       /\ n > 0 => ~r_pending_fault
       /\ Edge([Quiet EXCEPT !.alloc = n,
                             !.heads = IF t_retire_two THEN 2 ELSE 1])
  /\ DropAck
  /\ UNCHANGED <<r_state, r_ds_done, r_restart_pc, trap>>

(* ACTIVE, nothing to retire: allocate.                                    *)
ActiveAlloc ==
  /\ r_state = "ACTIVE" /\ ~t_can_retire_rob_head
  /\ Occupancy = 0 /\ r_dq # <<>> => r_dq[1].kind \notin Serializing
  /\ \E n \in Allocs : Edge([Quiet EXCEPT !.alloc = n])
  /\ DropAck
  /\ UNCHANGED <<r_state, r_ds_done, r_restart_pc, trap>>

(* ACTIVE, the buffer is empty and a serializing uop is next.              *)
ActiveSerialize ==
  /\ r_state = "ACTIVE" /\ ~t_can_retire_rob_head
  /\ r_dq # <<>> /\ Occupancy = 0 /\ r_dq[1].kind \in Serializing
  /\ IF r_dq[1].kind \in FlushFirst
     THEN Goto("FLUSH_CACHE") /\ Edge([Quiet EXCEPT !.flush = TRUE])
     ELSE Goto("ALLOC_FOR_SERIALIZE") /\ Edge(Quiet)
  /\ DropAck
  /\ UNCHANGED <<r_ds_done, r_restart_pc, trap>>

(* DRAIN: wait until no uop is left that could still write its entry.      *)
Drain ==
  /\ r_state = "DRAIN"
  /\ Goto(IF Drained THEN "RAT" ELSE "DRAIN")
  /\ LatchAck /\ Edge(Quiet)
  /\ UNCHANGED <<r_ds_done, r_restart_pc, trap>>

(* RAT: clear everything speculative until the front end has restarted.    *)
Rat ==
  /\ r_state = "RAT"
  /\ IF n_got_restart_ack
     THEN /\ Goto("ACTIVE") /\ r_ds_done' = FALSE
          /\ Edge([ClearAll EXCEPT !.calm = TRUE, !.restart_complete = TRUE])
     ELSE UNCHANGED <<r_state, r_ds_done>> /\ Edge(ClearAll)
  /\ LatchAck
  /\ UNCHANGED <<r_restart_pc, trap>>

(* ALLOC_FOR_SERIALIZE: the buffer is empty; wait for the memory queues.   *)
AllocForSerialize ==
  /\ r_state = "ALLOC_FOR_SERIALIZE"
  /\ IF memq_empty /\ r_dq # <<>>
     THEN /\ Goto("WAIT_FOR_SERIALIZE_AND_RESTART")
          /\ Edge([Quiet EXCEPT !.alloc = 1])
     ELSE UNCHANGED r_state /\ Edge(Quiet)
  /\ LatchAck
  /\ UNCHANGED <<r_ds_done, r_restart_pc, trap>>

(* The serializing uop is done: restart the front end behind it.           *)
WaitForSerialize ==
  /\ r_state = "WAIT_FOR_SERIALIZE_AND_RESTART"
  /\ IF HeadComplete(0)
     THEN /\ Goto("WAIT_FOR_ACK") /\ r_restart_pc' = Inc(RobHead.pos)
          /\ Edge([Quiet EXCEPT !.restart = TRUE, !.calm = TRUE])
     ELSE UNCHANGED <<r_state, r_restart_pc>> /\ Edge(Quiet)
  /\ LatchAck
  /\ UNCHANGED <<r_ds_done, trap>>

WaitForAck ==
  /\ r_state = "WAIT_FOR_ACK"
  /\ Goto(IF n_got_restart_ack THEN "ACTIVE" ELSE r_state)
  /\ LatchAck /\ Edge(ClearQueue)
  /\ UNCHANGED <<r_ds_done, r_restart_pc, trap>>

(* FLUSH_CACHE: MONITOR and FENCEI wait until every cache has answered.    *)
FlushCache ==
  /\ r_state = "FLUSH_CACHE"
  /\ Edge(Quiet)
  /\ Goto(IF flushing' # {} THEN r_state
          ELSE IF r_dq[1].kind = "mon" THEN "HANDLE_MONITOR"
          ELSE "ALLOC_FOR_SERIALIZE")
  /\ LatchAck
  /\ UNCHANGED <<r_ds_done, r_restart_pc, trap>>

(* HANDLE_MONITOR: the host serves the call, then acknowledges.            *)
HandleMonitor ==
  /\ r_state = "HANDLE_MONITOR"
  /\ r_state' \in {"HANDLE_MONITOR", "ALLOC_FOR_MONITOR"}
  /\ LatchAck /\ Edge(Quiet)
  /\ UNCHANGED <<r_ds_done, r_restart_pc, trap>>

AllocForMonitor ==
  /\ r_state = "ALLOC_FOR_MONITOR"
  /\ Goto("WAIT_FOR_MONITOR")
  /\ LatchAck
  /\ Edge([Quiet EXCEPT !.alloc =
             IF r_dq # <<>> /\ Occupancy < NROB THEN 1 ELSE 0])
  /\ UNCHANGED <<r_ds_done, r_restart_pc, trap>>

WaitForMonitor ==
  /\ r_state = "WAIT_FOR_MONITOR"
  /\ IF HeadComplete(0)
     THEN /\ Goto("MONITOR_WAIT_FOR_ACK") /\ r_restart_pc' = Inc(RobHead.pos)
          /\ Edge([Quiet EXCEPT !.restart = TRUE, !.calm = TRUE])
     ELSE UNCHANGED <<r_state, r_restart_pc>> /\ Edge(Quiet)
  /\ LatchAck
  /\ UNCHANGED <<r_ds_done, trap>>

(* The monitor call retires when the front end acknowledges.               *)
MonitorWaitForAck ==
  /\ r_state = "MONITOR_WAIT_FOR_ACK"
  /\ Goto(IF n_got_restart_ack THEN "ACTIVE" ELSE r_state)
  /\ LatchAck
  /\ Edge([ClearQueue EXCEPT !.heads = IF n_got_restart_ack THEN 1 ELSE 0])
  /\ UNCHANGED <<r_ds_done, r_restart_pc, trap>>

(* ARCH_FAULT: step over the faulting entry.                               *)
ArchitecturalFault ==
  /\ r_state = "ARCH_FAULT"
  /\ Goto(IF prog.SYSCALL_EMU THEN "FLUSH_FOR_HALT" ELSE "WRITE_CSRS")
  /\ stopped' = (stopped \/ prog.SYSCALL_EMU)
  /\ Edge([Quiet EXCEPT !.heads = 1, !.flush = prog.SYSCALL_EMU])
  /\ LatchAck
  /\ UNCHANGED <<r_ds_done, r_restart_pc, r_epc, r_irq>>

WriteCsrs ==
  /\ r_state = "WRITE_CSRS"
  /\ Goto("WAIT_FOR_CSR_WRITE")
  /\ LatchAck /\ Edge(Quiet)
  /\ UNCHANGED <<r_ds_done, r_restart_pc, trap>>

(* The handler returns to the interrupted instruction, and behind one that *)
(* faulted.  It is not modelled: what it executes is the program's rest.   *)
HandlerReturn == IF r_irq THEN r_epc ELSE Inc(r_epc)

(* The privilege level has changed: restart at the handler.                *)
WaitForCsrWrite ==
  /\ r_state = "WAIT_FOR_CSR_WRITE"
  /\ \/ /\ Goto("DRAIN") /\ r_restart_pc' = HandlerReturn /\ r_irq' = FALSE
        /\ Edge([Quiet EXCEPT !.restart = TRUE])
     \/ UNCHANGED <<r_state, r_restart_pc, r_irq>> /\ Edge(Quiet)
  /\ LatchAck
  /\ UNCHANGED <<r_ds_done, r_epc, stopped>>

(* core_mark_dirty_rsp_valid: the page table entry is marked.              *)
WaitForMmu ==
  /\ r_state = "WAIT_FOR_MMU"
  /\ \/ Goto("DRAIN") /\ Edge([Quiet EXCEPT !.restart = TRUE])
     \/ UNCHANGED r_state /\ Edge(Quiet)
  /\ LatchAck
  /\ UNCHANGED <<r_ds_done, r_restart_pc, trap>>

(* FLUSH_FOR_HALT: the reset state, and the end of a run after a fault     *)
(* under syscall emulation.                                                *)
FlushForHalt ==
  /\ r_state = "FLUSH_FOR_HALT"
  /\ Edge(Quiet)
  /\ IF flushing' = {} THEN Goto("HALT") /\ r_ds_done' = FALSE
     ELSE UNCHANGED <<r_state, r_ds_done>>
  /\ LatchAck
  /\ UNCHANGED <<r_restart_pc, trap>>

(* HALT: the board resumes the core after reset, never after a fault.      *)
Halt ==
  /\ r_state = "HALT"
  /\ \/ /\ ~stopped
        /\ Goto("HALT_WAIT_FOR_RESTART") /\ r_restart_pc' = 0
        /\ Edge([ClearQueue EXCEPT !.restart = TRUE])
     \/ UNCHANGED <<r_state, r_restart_pc>> /\ Edge(Quiet)
  /\ LatchAck
  /\ UNCHANGED <<r_ds_done, trap>>

HaltWaitForRestart ==
  /\ r_state = "HALT_WAIT_FOR_RESTART"
  /\ Goto(IF n_got_restart_ack THEN "ACTIVE" ELSE r_state)
  /\ LatchAck /\ Edge([Quiet EXCEPT !.calm = TRUE])
  /\ UNCHANGED <<r_ds_done, r_restart_pc, trap>>

Next ==
  \/ ActiveFault \/ ActiveMispredict \/ ActiveDirty
  \/ ActiveRetire \/ ActiveAlloc \/ ActiveSerialize
  \/ Drain \/ Rat
  \/ AllocForSerialize \/ WaitForSerialize \/ WaitForAck
  \/ FlushCache \/ HandleMonitor \/ AllocForMonitor
  \/ WaitForMonitor \/ MonitorWaitForAck
  \/ ArchitecturalFault \/ WriteCsrs \/ WaitForCsrWrite \/ WaitForMmu
  \/ FlushForHalt \/ Halt \/ HaltWaitForRestart

Spec == Init /\ [][Next]_corevars

-----------------------------------------------------------------------------
(* What lasts only as long as the parts around the core let it.  Of the    *)
(* core itself only its clock is assumed; every other part is assumed to   *)
(* answer, in its own variable, a request that stays.                      *)
Where == {"idle", "queued", "start1", "start2", "startm", "mul", "mem"}
Waiting == {"HANDLE_MONITOR", "WAIT_FOR_CSR_WRITE", "WAIT_FOR_MMU"}
MayAlloc ==
  /\ r_state = "ACTIVE" /\ ~(t_can_retire_rob_head /\ r_pending_fault)
  /\ \E n \in Allocs : n > 0

Fairness ==
  /\ WF_corevars(Next)
  (* the front end: restarts, and fetches while the queue has room         *)
  /\ WF_fe_req(fe_req /\ fe_req' = FALSE)
  /\ WF_fe_pos(/\ r_state = "ACTIVE" /\ fe_on /\ fe_pos # OFF
               /\ NDQ - Len(r_dq) >= 2
               /\ fe_pos' \in Positions \cup {OFF})
  (* the issue queues and the free list get room                           *)
  /\ WF_r_rob_tail_ptr(MayAlloc /\ r_rob_tail_ptr' \in Ptrs)
  (* the schedulers pick, the multiplier and the L1D answer                *)
  /\ \A s \in Slots :
       WF_unit(/\ unit[s] # "idle"
               /\ unit' \in [Slots -> Where] /\ unit'[s] # unit[s])
  /\ WF_r_rob_sd_complete(/\ mem_dq # <<>>
                          /\ r_rob_sd_complete' \in SUBSET Slots
                          /\ Head(mem_dq) \in r_rob_sd_complete')
  (* the L1D writes retired stores, the caches complete a flush            *)
  /\ WF_wrq(CanWrite /\ wrq' = wrq - 1)
  /\ WF_flushing(\E S \in FlushAnswers : flushing' = flushing \ S)
  (* the board resumes; the host, the CSRs and the MMU answer              *)
  /\ WF_r_state(/\ r_state \in Waiting \/ (r_state = "HALT" /\ ~stopped)
                /\ r_state' \in States)

FairSpec == Spec /\ Fairness

-----------------------------------------------------------------------------
SeqRange(q) == {q[k] : k \in DOMAIN q}

TypeOK ==
  /\ r_state \in States
  /\ {r_ds_done, r_pending_fault, r_got_restart_ack, stopped, fe_on, fe_req,
      restart_ack, irq_line, r_irq} \subseteq BOOLEAN
  /\ r_restart_pc \in Positions \cup {OFF} /\ fe_pos \in Positions \cup {OFF}
  /\ arch_pos \in Positions /\ r_epc \in Positions
  /\ r_dq \in Seq(Uop) /\ Len(r_dq) <= NDQ
  /\ r_rob \in [Slots -> Uop]
  /\ r_rob_head_ptr \in Ptrs /\ r_rob_tail_ptr \in Ptrs /\ Occupancy <= NROB
  /\ r_rob_complete \cup r_rob_sd_complete \cup r_rob_inflight
       \cup r_uq_wait \subseteq Slots
  /\ unit \in [Slots -> Where]
  /\ SeqRange(mem_dq) \subseteq Slots /\ wrq \in 0 .. NMRQ
  /\ flushing \subseteq Caches /\ irqs \in 0 .. prog.MAXIRQ
  /\ prog \in Programs

(* The uops between retirement and fetch, oldest first.                    *)
Pipeline == [k \in 1 .. Occupancy |-> Entry(k - 1)] \o r_dq

(* v is what comes after u.  A serializing load that faults restarts the   *)
(* front end twice: at first, wrongly, behind itself.                      *)
Succeeds(p, u) ==
  p = Follow(u) \/ (u.kind = "llf" /\ p = Inc(u.pos))

(* Precise, in-order execution: whenever the core runs, the reorder buffer *)
(* starts with the next instruction of the program, and buffer, decode     *)
(* queue and fetch continue it without a gap, a repetition, or a uop of a  *)
(* wrong path before the uop that reveals it.  The decode queue takes the  *)
(* same instruction over and over while the core is not ACTIVE, and the    *)
(* clears on the way back to ACTIVE must remove every copy.                *)
ProgramOrder ==
  r_state = "ACTIVE" =>
    /\ Pipeline # <<>> => Pipeline[1].pos = arch_pos
    /\ \A k \in 1 .. Len(Pipeline) - 1 :
         LET u == Pipeline[k]  v == Pipeline[k + 1] IN
         IF u.half = "lo" THEN v = [u EXCEPT !.half = "hi"]
         ELSE v.half # "hi" /\ Succeeds(v.pos, u)
    /\ fe_on => IF Pipeline = <<>> THEN fe_pos = arch_pos
                ELSE Succeeds(fe_pos, Pipeline[Len(Pipeline)])

(* No result is written to a reorder buffer entry that has been given to   *)
(* another uop: what executes, and the store data that is still awaited,   *)
(* belongs to an entry of the buffer that waits for exactly that.          *)
NoLateCompletion ==
  /\ \A s \in Slots : unit[s] # "idle" => s \in Live \ r_rob_complete
  /\ SeqRange(mem_dq) \subseteq Live \ r_rob_sd_complete

(* A serializing uop executes alone: nothing else is in the buffer or in   *)
(* the execution units, and every older store has been written.            *)
SerializingAlone ==
  (\E s \in Live : KindAt(s) \in Serializing) =>
    /\ Occupancy = 1
    /\ wrq = 0
    /\ \A s \in Slots \ Live : unit[s] = "idle"

(* While the host serves a MONITOR call it reads memory behind the caches: *)
(* all stores are written and no access is under way.                      *)
HostSeesMemory ==
  r_state = "HANDLE_MONITOR" => wrq = 0 /\ \A s \in Slots : unit[s] = "idle"

(* Restarts and acknowledgements pair up: when the core runs, no restart   *)
(* is pending and no acknowledgement is on its way, which the next         *)
(* recovery would take for its own.                                        *)
RestartsPair ==
  r_state = "ACTIVE" => ~fe_req /\ ~restart_ack

(* The program never stops at an instruction: instruction after            *)
(* instruction leaves the machine for ever, unless the core halts.         *)
Progress == <>stopped \/ []<><<arch_pos' # arch_pos>>_arch_pos
=============================================================================

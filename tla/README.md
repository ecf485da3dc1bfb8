# axpcore: a verification development in TLA+

axpcore is a two-wide out-of-order Alpha core (EV4 integer subset with BWX) in
SystemVerilog, with an instruction-set simulator and a Verilator harness that
compares the two.  This directory holds TLA+ models of the parts of the core
whose correctness depends on *when* things happen, TLC configurations that
check them, and TLAPS proofs about them.

## 1. The system

| component | source | state it keeps | operations |
|---|---|---|---|
| core state machine | `core.sv` | `r_state`, `r_ds_done`, `r_pending_fault`, restart and flush latches | one per state: run, recover, serialize, serve a system call, take an exception, mark a page dirty, halt |
| reorder buffer | `core.sv` | ring pointers, `r_rob`, complete / sd_complete / inflight / dead bits | allocate two, complete three, retire two, clear |
| decode queue | `core.sv`, `decode_alpha.sv` | four uops | push one or two (or both halves of a conditional move), pop, clear |
| register renaming | `core.sv` | speculative and retirement alias tables and free lists, bank toggle | rename two, retire two, restore |
| execution units | `exec.sv`, `mul.sv` | uop queues, three matrix schedulers, store data queue, scoreboard, CSRs | accept, wake up, pick oldest ready, complete, flash clear |
| L1 data cache | `nu_l1d.sv` | tags, retry queue, graduated bits, echo buffer, link register | hit, miss, retry, acknowledge stores early, write after retirement, flush |
| instruction fetch | `l1i_2way.sv`, `predecode.sv` | fetch, lookup and miss address, two ways of tags and lines, fetch queue, TLB, predictors, return stack | fetch and predict, miss, walk, restart, flush |
| L2 and its wiring | `l2_2way.sv`, `core_l1d_l1i.sv` | two ways of tags, data, valid and dirty bits; a reorder buffer of misses; a victim's write back; the L1D's queue; flush and probe state | look up, fill, write back, probe the L1D, flush |
| translation | `tlb.sv`, `mmu.sv` | TLB entries, one page walk, the requests of three clients | look up, fill, clear, walk, mark accessed or dirty |
| simulator and harness | `alpha_*.cc`, `top.cc`, `syscall.cc` | architectural state | step, compare, serve MONITOR |

The parts talk by valid/ack signals that are registered on both sides: the
front end presents instructions and the core acknowledges them; the core sends
a restart pulse and the front end answers with another; uops go to the
execution units and come back as completions that name a reorder buffer entry;
the L1D acknowledges stores before it writes them, and learns from the core
which have retired; flushes are pulses that each cache answers when it is done.

What is hard here is time.  Entries, registers and queue slots are reused while
something that was given their name may still be on its way; stores are
"complete" long before they exist in memory; two instructions are handled in a
cycle with hand-written conditions for the second; speculation ends in six
different ways, each with its own route back to `ACTIVE`.  `PROJECT.json` lists
these hazards at their lines with the properties that guard them.

What each component has to get right: renaming - every physical register has
exactly one owner, a flush restores a consistent state, register 0 stays zero (it
does not, section 5);
the core - precise in-order execution, no late completion, serializing
instructions alone, no lost or stale handshake, progress; execution units -
oldest ready first, nothing issued before its operands; L1D - stores written
once, in order, only after they retire, loads see them; instruction fetch - one
predicted path, each instruction from its own line, every restart answered; L2 and glue - a memory
of lines to three clients, one answer for each request, nobody starved, nothing
dirty after a flush; translation - no lost accessed or dirty bit, no use of a
stale entry.

## 2. Modules

`Rename` - `r_alloc_rat`, `r_retire_rat`, `r_prf_free`, `r_retire_prf_free`,
`r_bank_sel` and the destination fields of the reorder buffer.  A step is a
clock edge.  `Run` is a cycle with up to two allocations and two retirements,
`SerialAlloc` the allocation of `ALLOC_FOR_SERIALIZE` with its own, weaker
condition, `Flush`, `BumpHead`, `RatCopy` and `Drain` the ways through a
recovery.  When each happens is left to the core: the model allows every
order the state machine respects.  A register is its index in the register
file; the bit that says which of the two arrays holds the value is dropped, as
the free lists drop it.  `find_first_set` answers 0 for an empty vector because
the caller keeps only the low bits of its answer.

`RenameProofs` - the theorems about `Rename` (section 4).

`Core` - the state machine with everything it steers.  There is one action per
state of `r_state` (`ACTIVE` has one for each thing it does), and each is the
whole clock edge: the action fixes the state machine's outputs as a record
(`alloc`, `heads`, `clr_rob`, `clr_dq`, `restart`, ...), and `Edge` says what
every register does with them.  `Execute` is the execution units and the L1D
as far as the core can tell: a uop is queued, then issues on the first or
second integer port or the memory port, then completes, possibly much later;
`r_uq_wait` and `r_rob_inflight` are kept bit by bit because recovery depends
on them.  `wrq` counts the stores that were acknowledged and not yet written.
`FrontEnd` follows the prediction, answers a restart at any later time and may
offer nothing, one or two instructions in any cycle.  Interrupts are raised at
any time.  A uop is a kind and a position in the program; what follows a
mispredicted branch or a fault is at position `OFF`, the wrong path, on which
the front end may find anything the program's `wrong` holds.  The exception handler is
external: it returns to the interrupted instruction and behind a faulting one.

`CoreProofs` - the theorems about `Core` (section 4).

`L1D` - the data cache (`nu_l1d.sv`), one action per state of `r_state` with
`ACTIVE` split by what it does.  The state machine's combinational outputs are
a record (`Outputs`, `[Outputs EXCEPT ...]`), as the source sets defaults
and overrides them, and `Edge` derives what every register does at the clock
edge: `Port1`, `Port2`, `Array`, `Queue`, `Back` are the always blocks, grouped
by the hardware they update.  `p1` and `p2` are the registered lookups of the
two ports (`r_req`, `r_got_req`, `r_last_wr`, `r_cache_idx`, the RAM outputs; and the
same with a 2), with what port 2 learned of the queue when it accepted its
request (`r_hit_busy_line2`, `r_hit_busy_addr2`, `r_fwd_busy_addr2`, `r_pop_busy_addr2`,
`r_got_rd_retry`); `mq` is the retry queue and `eb` the echo buffer.  The core, the
L2 and the page walker are its environment: the core sends a program's
operations, retires what was answered one or two at a time, squashes after
branches and faults and drains as `Core` does; the L2 answers requests for one
line in order and others in any order, because misses wait in its reorder buffer
while hits pass them; it may probe any line at any time.  A word holds the
position of the store it came from, so a stale or a lost store shows.

Left out of `L1D`, each because no property here depends on it: byte lanes below a
word, counters, `mtimecmp`, uncached accesses.  The privilege level and paging
mode are constant (`decode_alpha.sv` has no return that changes them), so the link
register is not reset by them.  The outgoing request register is part of the
L2's queue and credits are derived from what is outstanding; loads leave the
core in program order; a store's data is there once it has retired; an answer
is seen by the core as soon as it is given.  `t_cm_block_stall` and `r_must_forward`
never hold, because a request on port 1 is always a retry or a reload and
`w_mh_block` stops the pop.  `WAIT_INJECT_RELOAD` has no action: the property
`NothingDropped` checks that its condition never arises.

`DataMemory` - what the core may rely on of the data cache: retired stores are
applied to memory one at a time in program order, a load that counts returns
the last older store to each word.  `L1D` implements it with `View` as the
refinement mapping: a line is its valid copy, or the youngest write back on its
way (echo buffer, then L2 queue), or what the L2 holds.

`L1DProofs` - the theorems about `L1D` (section 4).

`L2` - the second level cache (`l2_2way.sv`), one action per state of `r_state`
and decision made in it: `IDLE` is `PopWriteback`, `Fill`, `WriteBack`,
`StartFlush`, `TakeMark`, `TakeMmu`, `TakeL1I` and `TakeL1D` in the source's
priority, `CHECK_VALID_AND_TAG` is an answer to each client, `StoreHit`,
`UpdatePte` and `Miss`, the flush is `FlushSet`, `MemRspInFlush` and `FlushWay2`.
`rob` is the reorder buffer as a sequence, `TagOf` the tags memory requests carry;
`wb` is `r_need_wb` with its registers; `r` the lookup.  The
states that only let the arrays turn around (`WAIT_CLEAN_RELOAD`,
`WAIT_STORE_IDLE`, `STORE_TURNAROUND`, `PREPARE_WRITEBACK`) are part of the action
before them: nothing is accepted in them, and what arrives meanwhile is latched
or queued, as it is here.  `r_was_rob` is set for one cycle, and zero again when
the lookup that follows a fill is checked, so `Early` does not mention it; `r_rob_hitbusy`
is never set (`SetInterlock`).  `Perform` is the memory of `top.cc`, which answers in
order.  The clients are `L1DRequest` and `L1IRequest`, what `nu_l1d.sv` and
`l1i_2way.sv` can send, `MmuRequest`, `ProbeAck` and `MemMark`, and the flush
handshake.  A line's content is a set of bits, which is what the walker's marks
need; the word of a store is one more bit.

`Mmu` - the page walker (`mmu.sv`): `Start`, `Load`, `Take`, `BadVa`, `Done` and
`Marked` are its states, the three levels one action with a level.
`Path` gives for each page the lines of the entries on the way.

`Uncore` - the two together, wired as in `core_l1d_l1i.sv`: an answer of the L2 to
the walker and the walker's step are one action.  The L1 caches and the core
remain the environment, limited by what they do: the core asks for a dirty bit
only for a page the L1D was told is clean, a flush starts when nothing is
walking, and both L1s are silent until the L2 has flushed.  `window` bounds how many
requests the L1 caches still send while the core is held up by a walk, a
flush or a dirty bit (their buffers hold no more); without it the liveness run
would let an L1 cache overtake the walker for ever.  `UncoreAssumption` says what a
page table is: `Path` leads on where an entry is valid and no leaf, at most to the third level,
and the program stores neither to valid entries nor what would be one.

`UncoreProofs` - the proofs about it (section 4).

`LineMemory` - what its clients may rely on of the L2: each request is performed
at the moment it is answered; the L1D's requests for one line are answered in the
order sent, others in any order.  `L2` implements it with `View`: a line is its
copy in the arrays, or the second way a flush has still to store, or the waiting
victim, or the youngest store on its way to the memory, or the memory.

`L2Proofs` and `L2Memory` - the theorems about `L2`: what it never loses track of, and
that it is a `LineMemory` (section 4).

`L1I` - the front end (`l1i_2way.sv`), one action per state of `r_state` and decision
in it: `ACTIVE` is `StartPath`, `PageFault`, `TlbMiss`, `CacheMiss`, `QueueFull` and
`Deliver` (`PushJump`, `PushFirst`, `PushStraight`) in the source's priority, behind
`StartFlush` and `RestartRunning`.  `r_pc`, `r_cache_pc` and `r_miss_pc` are kept
apart as in the source, and so is `r_cache_idx`: the set is chosen by the step before
(`NextSet`), the tag is compared with this step's address.  `Kind` and `Target` are what
`predecode.sv` and the displacement select say of the instruction stored at a physical
address; `brs` are the conditional branches predicted taken, any set of them.  An
entry of the queue remembers the line it was cut from (`line`), which no register
does: it is what `ReadsItsLine` is about.  A set is read by the address and filled by what
it translates to, and only tags are compared, so what a fetch can hit is `Fetched`: the
line of the translation's tag in the address's set, which is the line it translates to where
page and frame agree in the index bits (`Agrees`).  Nothing assumes that they do.  The L2's and the walker's answers are steps
(`Reloaded`, `WalkEnds`); the core restarts, flushes, clears the TLB and takes one or two
instructions as `Core` does.  Waiting states whose one input is a counter
(`INIT_PHT`, `ZERO_PAGE_TLB_MISS`) are one step.  Left out: what predictors and return stack
learn, the permission bits, other page sizes, a change of `paging_active` while it runs
(the core changes it with the machine drained and restarts behind).

`Fetch` - what the core may rely on of the front end: a queue that is one path, where
each instruction may follow the one before; it faults only where the address space has no
page (`DeliverFault`); a restart begins a path at its target and a flush ends it; each is
answered once.  One thing of a path that a flush ended may remain, its fault: `leftover` says
that there is one and `DeliverLeftover` is its delivery, the first of the next path and at any address
(section 5 says how it comes about).
`L1I` implements it with `Pos`, the place where the path goes on, which is in
another register in every state.

`L1IProofs` - the theorems about `L1I` (section 4).

`Exec` - the execution units (`exec.sv`); a step is a clock edge.  `Units` is what every
register of the units does at it: `Enqueue` and `EnqueueData` are the three queues and
`r_mdq`, `Issue` the three schedulers with their matrices (`Update`, `Pick`, `MemPick`),
wake-up (`wake`) and what the ports can forward (`fwd_int`, `fwd_mem`, `fwd_dq`),
`Multiply` the multiplier with `r_wb_bitvec`, `Registers` the scoreboard and the register
file, `WaitBits` `r_uq_wait` and `r_mq_wait`.  The core's part is limited to what the
units see of it: `Active` hands over up to two uops and retires up to two, `Recover`,
`Drain` and `RatCopy` are a misprediction, with `r_rob_inflight` cleared bit by
bit; the L1D's part is to accept, to answer in any order and to take data.  Uops are
numbered in program order and each has a register of its own (that renaming gives it
one is `Rename`); a wrong path is the program itself, which is executed
again.  `stale` is a history variable: the operands read when they were neither
written nor forwarded.  Left out: what is computed, the CSRs, the putchar FIFO.

`Dataflow` - what the core may rely on of them: every uop reads its operands once,
after those who produce them are done; accesses to memory start in program order
unless both are loads; a misprediction takes back what is younger and nothing else.  `Exec`
implements it: a uop waits while it is in a queue, a scheduler or a port's register,
has started while it is in the multiplier or with the L1D, and is done after; an operand
that was read too early maps to a stage `Dataflow` does not have.

`ExecProofs` - the theorems about `Exec` (section 4).

`MCRename`, `MCCore`, `MCL1D`, `MCL1I`, `MCUncore` and `MCExec` give the constants values for TLC: sizes,
the programs each run goes through, which programs see a probe (`MaxProbe`), the
page table.

## 3. Runs

| run | checks | instance |
|---|---|---|
| `rename` | `TypeOK`, `NoRegisterLeak`, `RetireListExact` | 3 architectural, 6 physical registers, 2 entries |
| `rename_zero` | `ZeroRegisterPinned` (violated, section 5) | 4 architectural, 8 physical registers, 2 entries |
| `core` | `TypeOK`, `ProgramOrder`, `NoLateCompletion`, `SerializingAlone`, `HostSeesMemory`, `RestartsPair`, `Progress` | 17 programs: mispredictions, faults, dirty pages; serializing instructions behind stores and behind each other; cracked instructions, exceptions and an interrupt; system calls (`MONITOR`) and a fault that ends the run under `SYSCALL_EMU`; one of each kind of delay; 2 entries, queue of 3; fair |
| `l1d_safe` | `TypeOK`, `Coherent`, `NoStop`, `FillsAreExpected`, `LoadsSeeStores`, `NothingDropped`, `Implements` (the refinement of `DataMemory`), `ProbedIsInL2`, `FlushEmpties` | programs of 4 operations: two stores and two loads of one or both words of two lines of one set (`Conflict`); a store and three loads of three lines in two sets (`Early`); a load-linked with a later store-conditional among loads and stores (`Locks`); one branch before the last of loads, stores and prefetches (`Squash`); one flush behind stores to all lines (`Flush`); two accesses with any outcome of the TLB (`Translate`, with a probe where at most one is not a hit); 4 credits so that early fetches are sent |
| `l1d_live` | `Progress` | 2 operations of each kind that waits, 2 credits, one probe, fair |
| `l1i` | `TypeOK`, `ReadsItsLine`, `FlushEmpties`, `Implements` (the refinement of `Fetch`), `Serves` | 16 addresses, four pages of a line each, one with a frame of its own index, one with a frame of the other, two with none; two sets of two ways, a TLB of one entry, a queue of 4; with and without translation; fair |
| `l1i_fault` | `FaultNamesItsMiss` (violated, section 5) | the same |
| `uncore` | `TypeOK`, `SetInterlock`, `AnswersExpected`, `OneCopy`, `VictimKept`, `VictimUnread`, `DirtyKept`, `Implements` (the refinement of `LineMemory`), `FlushCleans` | two sets of two ways, a reorder buffer of 2, 2 requests of the L1D; the page table's leaf in a set of its own, its root and two lines of data in the other; one page, invalidating flushes |
| `uncore_live` | `Answered` | one set for two page table entries and a line of data, so that everything evicts everything; a page, one without an entry, one whose address is not legal; flushes that only write back; fair |
| `l2_mark` | `MarkHits` (violated, section 5) | as `uncore`, but the leaf shares its set with two lines the L1 caches use |
| `exec` | `TypeOK`, `OldestFirst`, `Implements` (the refinement of `Dataflow`), `Finishes` | programs of 5 uops: results that meet the multiplier's at the write port (`Ports`); memory accesses whose addresses are there at once, loaded or computed (`Order`); more stores than there is room for data (`Stores`); a misprediction found late with everything begun behind it (`Wrong`), or right behind a store that retires (`Stored`); queues and schedulers of 2, a reorder buffer of 4; fair |
| `exec_mul_address` | `AddressFresh` (violated, section 5) | a load whose base is a product |

Bounds.  Two reorder buffer entries are the fewest with which two instructions
allocate and retire together and an entry is reused at once, which is when a
late completion hurts; the pointers still wrap twice over.  A decode queue of
three holds a cracked instruction and one
more, and fills and empties in two cycles.
Programs repeat with a period larger than everything in flight, so a position
names one instruction.  A program brings its own wrong path, its interrupt budget
(`MAXIRQ`) and its build (`SYSCALL_EMU`), so that one run crosses all kinds of
trouble without multiplying them.  Six physical registers for three names are the shipped
ratio: each bank has as many registers as there are names, so one can run empty, ordinary
allocation is refused and serializing allocation is given register 0.  `rename_zero` uses
eight for four, also of the shipped ratio.

For the data cache: two sets of one line each are where a line is evicted by its
neighbour while the other set is at work; two words tell an overlapping from a
disjoint access; two echo buffer entries are the shipped number; early
fetches need three free credits, so a queue of five, with its four credits, is the shortest
with which one is sent behind another request;
two reorder buffer entries reuse a name at once.  Runs enumerate all programs over their operations, so every pair and
triple of accesses meets in every relative timing the L2 and the core can
produce.  `Low` says which index bits lie below the page size; no run
lets two virtual indexes name one line (section 5).

For the L2: two entries of the reorder buffer are the fewest that can be of
different sets, and both L1 caches, the walker and a victim meet at its limit; three
lines compete for two ways, so that a victim is chosen by use and the line evicted is
asked for again.  The instances have a set per entry of the reorder buffer, so a
miss always finds a free entry; that it does with many sets (`RobHasRoom`) is
proved and not run.

For the front end: a queue as long as a line is the shortest that takes a whole line
and is too full for it after any smaller push; the program has a taken branch or jump in every
place of a line, a call, a return, a branch behind a branch and lines with none;
addresses wrap after 16 instructions.  A page is as long as a line, half of a way, so the index
bit lies above the page: one page's frame has the same index, and the other's has the other
one, so a fetch from it misses for ever or hits what an untranslated or agreeing address
left in the wrong set.  The two drive each other out of the
one TLB entry; branches go to an unmapped page and to
the zero page, which waits before it walks.  `MaxWait` bounds for how many cycles a fault waits for room: the
fetch address goes on counting meanwhile (section 5), one cycle shows it.

For the execution units: two entries are the least a queue can tell "full" from "room for
one" with, and three stores or three dependent uops overrun them; four reorder buffer
entries and five uops reuse an entry while the wait bits of the first are set; the
multiplier has its shipped three cycles (machine.vh:69), so every distance between a
product and another result at the port occurs.  No program of `exec` has a product for a base
address: what happens then is finding 3.

Deadlock is checked in every run: in each state some action is enabled (the
machine is clocked), so stopping shows up in `Progress` instead.

Fairness (`FairSpec`) assumes the core's clock and, of each other part, only
that it answers in its own variable a request that stays: the schedulers pick,
the L1D answers and writes, the caches finish a flush, the front end restarts
and fetches, the host and the page walker reply, the board resumes the core
after reset.  These are the obligations of the other parts, each a module of
the plan; nothing is assumed about how they are interleaved.  `FairSpec` of
`L1D` assumes that the clock runs, that the L2 answers some request when it has one,
that a page walk ends, and that the core sends and retires what it may; these are
the duties of `l2_2way.sv` and `mmu.sv` (`uncore_live`) and of the core (`core`).
`FairSpec` of `L1I` assumes that the clock runs and that the L2 and the walker answer
(`uncore_live`); nothing of the core, so `Serves` holds for one that stops taking
instructions.  `Serves` excepts an address whose page and frame disagree: that may miss
for ever, and a restart or flush is answered there, too.
`FairSpec` of `Uncore` assumes that the clock runs, that the memory answers, that
the L1D answers a probe and both L1 caches a flush (`l1d_live`).  It is strong
fairness for what the L2 takes of the L1 caches: a request it can take in an idle
cycle it takes in that very cycle, while in the model the walker's next request
could come first each time.
`FairSpec` of `Exec` assumes that the clock runs; that the front end has an instruction
for a core with room (`l1i`) and acknowledges a restart; and that the L1D accepts a
request that stays, answers what it accepted and takes retired data (`l1d_live`), each
whatever else happens at the same edge.

## 4. Proofs

The theorems of `RenameProofs` hold for all sizes with the assumptions `RenameAssumption` (at
least two architectural registers, more physical ones, at least two entries), the
shipped ones among them.  `NoRegisterLeak` is not inductive: a flush may come at
any time, so the state a flush would install has to be consistent too, and a
retirement now must find the mapping an allocation long ago wrote.  While register 0 is in
its place the invariant is therefore `IInv`: (a) `Exact`: the retirement list is the
complement of the retirement map, which is injective; (b) `Pinned`: register 0;
(c) outside a recovery, `Sound`: there is a *history* of register maps, one per
reorder buffer entry and one more, that leads from the retirement map to the
speculative map, each step changing the one register its entry names from its
old to its new physical register; the speculative free list is the complement of
what the last map and the old registers use.  `RunGood` composes the up to four
operations of a cycle from what `AllocGood` and `RetireGood` say of one.

Register 0 does not stay in its place (section 5, 4), and `NoRegisterLeak` and `RetireListExact`
say what is true all the same: as long as it is there nothing is lost or shared, and the architectural
side stays exact until a uop that was given it retires.  `NoLeak` and `RetireList`
prove this of every behaviour.  They need an invariant of what happens after the accident, `GInv`:
the uop that has register 0 was renamed alone, so it is the head (`AtHead`) while the
architectural side is `Intact`, and a flush mends everything; once it has retired, register 0 is
the name of another register or free, and stays so (`Gone`), for which it
is enough that every uop replaces the name that was there before it (`Trail`), exact or not.  `OnlySerialGivesZero` says that the accident is the
only way: in a behaviour in which each serializing uop with a destination finds a register in its
bank (`SerialFinds`, what `ALLOC_FOR_SERIALIZE` does not test), register 0 stays pinned.  And
`OddBankNeverEmpty`: where the odd bank has as many registers as there are names, as shipped, it is the
turn of the even bank that does it.

`L2Proofs` proves six properties of `L2` for every number of lines, sets, reorder
buffer entries and requests, with clients that may ask for anything at any time
(more than `Uncore` lets them).  They need each other.  `OneCopy` is a statement
about fills: a fill is harmless if its line is not in the arrays, which was true
when it missed and must have stayed true.  It stayed so because nothing
of its set has been looked up since (`SetInterlock`), which for the walker and its
marks is true because they wait for an empty reorder buffer.  The invariant
`Inv` therefore has `SetInterlock`; `SetHome` (a line is in its own set, and the way
chosen for an entry stays what it was); `NotCached` (the line of an entry of the
reorder buffer is in no way); `ReadOnce`, `MarkOnce` and `FetchOnce` (a client whose
request is looked up or in the reorder buffer does not have another one
waiting, so a pop and a new request do not meet); `RobHasRoom`, which bounds what
an early accepted load adds; `VictimKept`; and `FlushSweep` (the sets before `r_idx` are
clean while a flush goes on, and the second way's register holds what its state
says), from which `FlushCleans` follows as an action property.  `NeverOverfull`
rests on the same invariant: at an early accept the entry in hand hits, so it adds none, and
the cycle that accepted it had room.

`L2Memory` proves of the same model that it implements `LineMemory` (`IsLineMemory`),
and `AnswersExpected` and `VictimUnread`, again for every size.  All three are stated
under `[]MarkHits`: a mark that misses is a state the source has no way out of (section
5, 1), and behind it the three are false.  The idea is
that a value may only disappear from a place if what is *behind* that place
holds it too.  A line has a chain of places: its copy in the arrays, the second
way of a flush, the waiting victim, the youngest store on its way to the
memory, the memory; `View` is the first of them that has the line, `Behind` is `View` without the arrays.
The invariant `LinesKept` says (a) `Copies`: a clean copy equals what is behind
it; (b) `Fetches`: so does the way a fill will replace, and the data that
have arrived for it; (c) what keeps a fetch from reading the memory before the
store it must see: `StoresFirst` (loads never overtake stores), `Victims` (a
waiting victim is of no line that is being fetched, and its write back is first in the
reorder buffer), `FlushAlone` (a flush has the memory to itself); (d) `OneForOne`, or
`OneMore` in a flush: the requests on their way are those of the entries not yet done, each
once, so an answer is that of the entry with its tag; (e) `Owners` and `OneEach`: whose
request is looked up, and that of one line the L1D awaits at most a store
and, behind it, a load, which is what lets `Pending`, the order in which `LineMemory` answers, be
read off the state.  `StepRefines` then maps each step: an answer to one of
`LineMemory`'s, a new request to a request, and everything else - victims, write
backs, fills, the whole flush - to a stutter.

`CoreProofs` proves all six safety properties of `core` for every size of the
buffers and every program, from one invariant, `IInv`.  `ProgramOrder` is the
strongest of them and is not inductive: it speaks of the states in which the core
runs, so the invariant has to say where in the program it is in every state of a
recovery as well, and why nothing of the abandoned path is left when it ends.
That needs `Handshake` (exactly one of asked, being answered and answered holds of a
restart while the core waits for it), `Counted` and `DataOnce` (what executes
is inflight or with the L1D, once, so `DRAIN`, which waits for those bits, waits for all of it),
`NoLateCompletion` itself, `Serial` and `InOrder` (the ways of a serializing uop), and `Whole`
(both halves of a conditional move are in the buffer and the decode queue in this order).  The
23 actions of the state machine are first abstracted: each is an `Edge` whose outputs `c` satisfy
`Good` and `Controls`, what the rest of the proof may rely on; every conjunct is
then proved once, of an edge with such outputs.

`ExecProofs` proves `TypeOK` and `OldestFirst` of `Exec` for every program, size and
latency.  That a row of the matrix names exactly the entries with older uops
follows from the order in which uops come: each queue is sorted, a scheduler holds
older uops than the queue in front of it, and all are older than the next one the core hands
over.  After a misprediction the uops start again at an older number, so the
invariant says that by then queues and schedulers are empty.  `TypeOK` needs
`DataHasRoom`: a store's data that are being read have their place in the queue of the
L1D, although `w_dq_ready` looked a cycle earlier.

`L1IProofs` proves `TypeOK`, `ReadsItsLine` and `FlushEmpties` of `L1I`, and that it
implements `Fetch`, for every program and page table, number of sets, page size, length of the
queue and size of the TLB that `L1IAssumption` admits, which says nothing of the index
bits of page and frame.  The invariant is `IInv`.  `ReadsItsLine` is not
inductive, because tags alone are compared: it takes `Home` (a line is in its set, and
what the TLB holds has a frame) and `Lookups` (the set that was read is the set of the address
that was read, and `r_pc` is the address behind it unless the read is to be ignored).  `Lookups` survives a
push because `NextSet` finds the set of the next lookup, which is where the
arithmetic is (`SameLine`, `NextLine`); a line of the address's set and the translation's tag is
`Fetched` (`FetchedIs`), and where page and frame agree that is the line translated to (`PhysIs`).  `Sweep` (the sets a
flush has passed are empty) carries `FlushEmpties`.  For `Fetch` each push is shown to be a path of
instructions that may follow each other (`PathBefore`, `FollowIs`, `Pushed`), and
`Handshake` says which request is outstanding and that nothing is queued where the
path has no place to go on from; misses, walks, fills and waits for room leave
`Pos` where it is.  A fault is `Fetch`'s `DeliverFault` because the page that missed has
no frame (`Faulty`), or `DeliverLeftover` (`LeftoverIs`).

`UncoreProofs` carries the L2's theorems over to the system: `UncoreStep` shows each step
of the two to be a step of `L2` with some client or a stutter of it, which is why `L2Proofs` lets
clients ask for anything; so `UncoreIsL2`, and with it `UncoreSafe`.  `DirtyBitsKept` then
is about the walker and needs to know what the lines hold, that is `View`, which
`StepRefines` describes: `Entries` (an entry stays valid or not and a leaf or not, since
only `StoresData` and marks of A and D reach the memory), `Walking` (the
walk is on the path of its page; while it waits the L2 reads the entry of its level; at its end it
has read the leaf and, of a page the core was told is dirty, read the dirty bit), `Served` (the
client a walk will tell asks for nothing else meanwhile) and `DirtyPages`.  A walk that read the leaf before the
dirty bit was set cannot tell the L1D `clean` after it, because walk and mark are one
occupation of the walker.  The theorems are stated under `[]MarkHits`, as those of
`L2Memory` are; the run `uncore` is a system in which it holds: there nothing that can
evict the entry is asked for between the walker's read and its mark.  `UncoreAssumption` is
what software owes the hardware: a program that rewrites a leaf by stores
clears the bit itself.

`L1DProofs` first proves `TypeOK`, `NoStop`, `NothingDropped`, `FillsAreExpected` and
`FlushEmpties` of `L1D` for every number of lines and sets, length of the queue and of
the reorder buffer and every program that `L1DAssumption` admits.  `NoStop` has four of the
conditions the source stops the simulation for; that a probe is of the line last load-linked is one
more, and can be met (section 5).  `NoStop` is about names
that are used again: a request's slot of `r_rob_inflight`, a place in the queue, a
tag.  What makes it true is where requests can be: the invariant `IInv` has `Window`,
`Places` and `Ordered` (port 1, the queue, port 2 and the request the core presents
hold, in this order, older and younger requests of a window no longer than the reorder buffer) and
`Slotted` (each has a bit of its own).  `Port1Inv` and `Port2Inv` say what a
lookup registered a cycle ago still says of the present: port 1 shows its set as it is, port 2 has
seen every queued request of its set, or the write of this cycle.  `Fetches` is what an early fetch
rests on: a request on its way to the L2 is a write back, the miss of port 1, or
belongs to the entry of the queue with its tag, and then `Apart` holds: nothing ahead of that
entry is of its set, so the set cannot become dirty before the line comes.  It is
stated of the L2's queue and of the outgoing one with no assumption on the order of the answers.
`Credits` says where a credit is there because an earlier step kept it; `Sweeps` that a flush is alone
and how far it is; `Probes1` that a probe waits for the echo buffer; `Fresh` that port 1
does not read what the same cycle wrote.  The actions are abstracted first: each is
an `Edge` with outputs `f` satisfying `Controls(f)`, and every conjunct is proved
once, of such an edge.  `TypeOK` includes that the queue is not overrun: a push finds
`Len(mq) < MRQ` because a request is accepted only when two places are free
(nu_l1d.sv:2014), one of them for the request in front of it; so the queue may fill
to its last entry, which the small instance never does.

`ProbesAnswered` is about what the lines hold.  `DInv`, proved of steps from states of
`IInv`, says which copy of a line is the current one.  A line not in the cache may
be in the echo buffer or on its way as a write back (`Leaves`); if it is nowhere, the memory has it
(`Behind`).  `OneWb`: it leaves once, and is not in the cache meanwhile, except while a probe
waits for it.  `ReadsLast`: a fetch is behind every write back of its line, so what comes
back is the latest.  `Copies`: a clean copy may be dropped.  `Home` and `Looks` tie the port's registers to
the arrays, `ProbeKeeps` says that a probe found no write back and what it wrote stays the same.

What loads are given rests on a third invariant, `SInv`, about the stores.  `Squashed`,
`Halts` and `Pulses` say what the core's window and its retirement pulses mean;
`Graduates`, that a queued store's two bits say whether it has retired and that port 1
has none that has not; `Nops` and `Unfaulted`, that nothing is queued that faults;
`Later`, that all that waits is younger than the last store written.  Its heart is `Kept`: every store
that counts, is sent and is not written still waits on port 1, in the queue, on port 2 or
at the core (no step drops one: `KeptStep`), and `Link`: the link register names the line
of the last load-linked that counts, so that a store-conditional writes exactly when
`DataMemory` says.  With `DInv`, a step changes what a line holds as a write does and in
no other way (`ViewEdge`); so each word is the last store written to it (`CInv`), which
is `Coherent` (`StoresAreKept`).  A load port 1 answers is older than all that waits, so what was
written is all it may see (`PortOneIs`).  A load port 2 answers may pass stores that wait:
`Reads2` says that what it read is right unless `addr` is set, because every older store
to its words is, in the cycle it is accepted, in the queue and seen there, on port 1 and
forwarded or held back by `w_reload_line`, or on port 2, which holds the load back by
`lw` (`SeesOlder`).  What a load must return is settled when it is sent
(`AnswerStays`), so `LoadsAreRight` follows, and `IsDataMemory`: each edge is a step of
`DataMemory`.

These three theorems have hypotheses, which are the cases of section 5 in which the code
does not do it.  `NoMultipleActions` is the last clause of the source's DEBUG check
(nu_l1d.sv:1307): no write meets an answer of the L2; it is a hypothesis on the
behaviour, `[]NoMultipleActions`, and holds of every behaviour of a program without
store-conditionals (`PlainNeverMeets`), for which `PlainStoresAreKept` and `PlainIsDataMemory`
need it no more.  `OneName` is a hypothesis on the programs: a line has
one virtual index in each.  `Coherent` does not need it, loads do.

Model-checked only: the liveness of `Mmu` and all other liveness (fairness is beyond the
prover), the refinement of `Dataflow`, and `AddressFresh` of `Exec`, which does not hold.

## 5. Findings

1. The walker's mark may miss (`l2_mark`): between the read of a page table entry and
   the request to set its accessed or dirty bit the L1 caches can evict its line.
   The mark then allocates a reorder buffer entry of type `MARK_PTE`, for which the
   case that pops the buffer has only `$stop()` (l2_2way.sv:1377).  The shipped L2 has
   enough sets to make this rare: it takes two misses in the entry's set.
2. A fetch that faults while the queue is full is reported for a later address
   (`l1i_fault`): `r_page_fault` waits for room (l1i_2way.sv:793), but the entry is built
   from `r_cache_pc`, and the defaults of `ACTIVE` (758-762) move that on by an instruction
   in every cycle of the wait.
3. A load or store whose base address is a product may compute it from the register's
   old content (`exec_mul_address`): the memory scheduler wakes it by `t_mul_complete`
   (exec.sv:3175) and may pick it in that cycle, but its address multiplexer has no input
   for the multiplier (891-894), as both integer ports have (866-888), and the register
   file does not pass a write on to a read of the same cycle (rf6r3w.sv:106-127).  The README
   calls the execution "fully bypassed".
4. Physical register 0, whose reads answer zero, may be renamed (`rename_zero`), which the
   comment at core.sv:1492-1496 and PORT.md:190-191 exclude: "never renamed, never freed".
   `ALLOC_FOR_SERIALIZE` (core.sv:1225-1229) tests `r_prf_free != 'd0`, a vector of 128 bits
   of which half are never taken, and not the bank it will take from.  If all the program's names have
   come to lie in the even bank and it is that bank's turn, `rpcc` or a load-locked gets register 0 and
   its result reads as zero; when the name is replaced, 0 is freed and goes around.
   `ALLOC_FOR_MONITOR` has the same test.  A flush before it retires undoes it (`RetireListExact`).

Further observations, which no run states:

- `t_retire_two` (core.sv:1151-1160) does not look at the second entry's
  `mark_page_dirty`: a store to a clean page that retires second leaves its
  page clean.  The programs of `core` have such a store only in the first place.
- A multiplication asks for the write port `MUL_LAT + 2` cycles ahead (exec.sv:1177), a bit
  that `n_wb_bitvec` never sets, so that check never refuses one; multiplications start one
  at a time from one port and so do not meet each other.
- A store-conditional that is written in the cycle an answer to a write back
  arrives overwrites its whole line: only `is_store` requests hold
  answers back (nu_l1d.sv:365), and an answer of any kind enables all bytes
  (1739).  A DEBUG check says the two never meet (1307).  It takes a dirty victim
  still on its way to the L2 when the load-linked and the store-conditional run.
- A flush while a fault waits for room leaves `r_page_fault` set, and the restart out of
  `IDLE` (l1i_2way.sv:743), unlike the others, does not clear it: the first
  instruction behind the flush is then a page fault at address 0.  `Fetch` has a step of its own
  for it (`DeliverLeftover`), so that it allows no other fault that is not the path's.
- The instruction cache reads a set by virtual and fills it by physical index bits, three
  of which lie above a 4 kB page; the `$display` for a mismatch (l1i_2way.sv:562) compares bit 15 only,
  which is above them.  Where page and frame differ there, a fetch misses for ever, or hits
  a line of the same tag in the wrong set: `ReadsItsLine` and `Serves` say so, and both happen in `l1i`.
- Two virtual names of one line: a load accepted in the cycle right behind a store to
  the other name is neither held back (nu_l1d.sv:2016 compares all index bits) nor sees
  the store in the queue yet, and returns old data.
- A store-conditional does not use up the lock (nu_l1d.sv:1716), the simulator's
  does (alpha_interp.cc:956); and a probe of the line last load-linked stops the
  simulation (nu_l1d.sv:2369), however long ago that was; `NoStop` leaves this condition out
  and the model goes on after it.
- A flush step takes any answer of the level below for its own, in both caches
  (nu_l1d.sv:2435, l2_2way.sv:1705), so a flush may be reported complete with a write
  still queued below.  `FlushEmpties` and `FlushCleans` are what does hold, and the
  write is performed before anything that could miss it (`Implements`).
- A walk for the core that ends in a fault answers nobody (mmu.sv:331): the core
  would stay in `WAIT_FOR_MMU`.
- `clear_tlb` is not used by the walker, so a walk that is under way when the TLBs
  are cleared fills one of them with what it read before.

## 6. Plan

In this order, most important behaviour first:

1. `L1D`: done, and proved to be `DataMemory` (section 4).
2. `Mmu`: done.  The TLBs (tlb.sv: replacement, clearing while a walk goes on) are not.
3. `L2` with its wiring: done.  L1D and L2 composed, `LineMemory` in the place of the
   environment `L1D` now has, is left.
4. `L1I`: done, against `Fetch`.  What its predictors learn and that `FrontEnd` of `Core`
   is `Fetch` with the program's kinds are left.
5. `Exec`: done, against `Dataflow`.  The CSRs and the putchar FIFO are left, and that
   `Execute` of `Core` is implemented by it.
6. `FairSched` and the pure helpers (`find_first_set`, byte zapping) against
   reference definitions; the simulator's LL/SC and PAL mode.
7. An abstract in-order machine that `Core` implements, and `Core` with `Rename`.
8. Proofs: `Rename`, `L2`, `Uncore`, `Core`, `L1I`, `L1D` and the order of `Exec` are
   done.  Left is `Exec` as a `Dataflow`, which needs that a picked uop's operands are
   written or forwarded.

Not modelled: instruction semantics (`decode_alpha.sv`, ALU, `alpha_zapper.sv`,
the simulator's arithmetic) - data path without control, compared instruction
by instruction with the simulator by the harness and, for the decoder, proved
in `formal/`; file, console and ELF handling of the harness; vendored
floating point; superseded units that no build of the core selects.

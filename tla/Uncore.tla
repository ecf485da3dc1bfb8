------------------------------- MODULE Uncore -------------------------------
(***************************************************************************)
(* The L2 and the page walker together, as core_l1d_l1i.sv wires them: the *)
(* walker's reads reach the L2 through a probe of the L1D, its marks       *)
(* directly, and the L2's answers go back.  The L1 caches and the core are *)
(* the environment: they ask for lines, for translations, for flushes, and *)
(* the core has the dirty bit of a page set when a store met it clean.     *)
(***************************************************************************)
EXTENDS L2, Mmu

CONSTANTS
  Asks,     \* the pages the L1 caches may ask for
  Flushes,  \* the kinds of flush: TRUE writes back only (wb_no_inv)
  WINDOW    \* requests the L1 caches can make while the core is held up

(* A page's path is where its entries lead: on from a valid one that is no *)
(* leaf, at most to the third level.  The program does not store to valid  *)
(* entries, nor what would be one.                                         *)
LeadsOn(path, i) == /\ "V" \in Contents0[path[i]] /\ "X" \notin Contents0[path[i]]
                    /\ i < 3
ASSUME UncoreAssumption ==
  /\ {"V", "X", "A", "D"} \subseteq Bits /\ NoVA \notin VA
  /\ Asks \in [{"l1i", "l1d"} -> SUBSET VA] /\ Flushes \subseteq BOOLEAN
  /\ Path \in [VA -> Seq(Lines)]
  /\ \A va \in VA : \A i \in DOMAIN Path[va] : i < Len(Path[va]) <=> LeadsOn(Path[va], i)
  /\ \A l \in L1DWrites : "V" \notin Contents0[l]
  /\ \A w \in StoreData : "V" \notin w

VARIABLE window

allvars == <<vars, mmu_vars, window>>

(* The core is held up by a walk, a flush, or the setting of a dirty bit:  *)
(* what it can still send is what its buffers hold.                        *)
HeldUp == \/ Flushing \/ reqs # {} \/ walk.st \in {"LOAD", "WAIT", "WALK_DONE"}
          \/ asked["dirty"] # NoVA

Refill == window' = IF HeldUp' THEN window ELSE WINDOW

WalkerAlone == Tick /\ Refill

(* The L2's answers to the walker. *)
WalkerSees == CASE rsp'.to = "mmu"  -> Take(rsp'.w)
                [] rsp'.to = "mark" -> Marked
                [] OTHER            -> UNCHANGED mmu_vars
L2Steps == (Engine \/ ProbeAck) /\ WalkerSees /\ Refill

WalkerReads == Load /\ MmuRequest(PteLine) /\ Refill
WalkerMarks == Done /\ NeedsMark /\ MemMark(PteLine, {BitToSet}) /\ Refill
WalkerEnds  == Done /\ ~NeedsMark /\ WalkerAlone
WalkerFails == BadVa /\ WalkerAlone
WalkerStarts == (\E c \in Clients : Start(c)) /\ WalkerAlone

InWindow == /\ HeldUp => window > 0
            /\ window' = IF HeldUp THEN window - 1 ELSE WINDOW

L1Asks ==
  /\ L1Request /\ UNCHANGED mmu_vars /\ InWindow
  /\ asked["l1i"] # NoVA => l1i' = l1i

(* The L1I waits for its fetch or its walk, not both; the core asks for a  *)
(* page the L1D was told is clean, perhaps while a younger load walks.     *)
Translate ==
  \/ \E va \in Asks["l1i"] : /\ (Flushing => r_need_l1i) /\ l1i = NoLine
                             /\ Request("l1i", va) /\ Tick /\ InWindow
  \/ \E va \in Asks["l1d"] : ~Flushing /\ Request("l1d", va) /\ Tick /\ InWindow
  \/ \E va \in clean       : ~Flushing /\ Request("dirty", va) /\ WalkerAlone

(* A flush: the core waits for it with nothing in flight. *)
FlushGoes ==
  /\ \/ \E b \in Flushes : RequestFlush(b) /\ asked["dirty"] = NoVA /\ asked["l1d"] = NoVA
     \/ L1DFlushed
     \/ L1IFlushed /\ walk.st = "IDLE" /\ reqs = {}
  /\ UNCHANGED mmu_vars /\ Refill

UncoreInit == Init /\ MmuInit /\ window = WINDOW

Step == \/ L2Steps \/ WalkerReads \/ WalkerMarks \/ WalkerEnds \/ WalkerFails
        \/ WalkerStarts \/ FlushGoes
UncoreNext == Step \/ L1Asks \/ Translate
UncoreSpec == UncoreInit /\ [][UncoreNext]_allvars

(* Fairness: the clock runs, the memory answers, the L1D answers the probe *)
(* and both L1 caches the flush.  What an idle L2 can take of the L1s it   *)
(* takes at the next clock, before the walker can come back: strong.       *)
Memory == MemRsp \/ MemRspInFlush
FairSpec ==
  /\ UncoreSpec
  /\ WF_allvars(L2Steps /\ ~Memory /\ ~ProbeAck)
  /\ SF_allvars(L2Steps /\ TakeL1I) /\ SF_allvars(L2Steps /\ TakeL1D)
  /\ WF_allvars(L2Steps /\ Memory) /\ WF_allvars(L2Steps /\ ProbeAck)
  /\ WF_allvars(WalkerReads \/ WalkerMarks \/ WalkerEnds \/ WalkerFails \/ WalkerStarts)
  /\ WF_allvars(FlushGoes /\ L1DFlushed) /\ WF_allvars(FlushGoes /\ L1IFlushed)

-----------------------------------------------------------------------------
Leaf(va) == Path[va][Len(Path[va])]

(* The dirty bit the core was told is set stays set, in the L2 or in the   *)
(* memory, whatever is evicted or flushed (UPDATE_PTE, w_updated_pte), and *)
(* the L1D is never again told that such a page is clean: a store does not *)
(* trap for ever (page_walk_rsp.dirty).                                    *)
DirtyKept == /\ \A va \in dirtied : "D" \in View(Leaf(va))
             /\ clean \cap dirtied = {}

(* An L1 cache or the core that waits for a line, a translation or a flush *)
(* gets it: neither L1 cache starves the other, and the walker, the write  *)
(* back of a victim and a flush get their turn although each needs an      *)
(* empty or idle cache (the priorities of IDLE, the probe).                *)
Answered ==
  /\ \A c \in Clients : []<>(asked[c] = NoVA)
  /\ \A l \in Lines : []<>(Pending(l) = <<>>)
  /\ []<>(l1i = NoLine) /\ []<>(~Flushing) /\ []<>(~wb.need)
=============================================================================

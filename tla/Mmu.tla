-------------------------------- MODULE Mmu ---------------------------------
(***************************************************************************)
(* The page walker (mmu.sv): translates for the L1I, the L1D and, when a   *)
(* store met a clean page, for the core, one walk at a time.  A walk reads *)
(* one page table entry per level through the L2; after the last one it    *)
(* answers, and has the entry's accessed or dirty bit set if it is clear.  *)
(*                                                                         *)
(* Its actions take what the L2 answers as a parameter; Uncore.tla joins   *)
(* them with the actions of the L2.  An entry is the set of its bits that  *)
(* matter: V (valid), X (some permission: a leaf), A and D.                *)
(***************************************************************************)
EXTENDS Integers, Sequences

CONSTANTS
  VA, NoVA,    \* virtual pages
  Path         \* the lines of the entries met on the way; <<>>: a bad address

Clients == {"l1i", "l1d", "dirty"}

VARIABLES
  asked,    \* what each client wants translated
  reqs,     \* the clients whose request was not taken up yet
  walk,     \* r_state, the client served, r_va, the level and the entry read
  clean,    \* pages the L1D's TLB has as clean
  dirtied   \* pages the core was told are dirty now

mmu_vars == <<asked, reqs, walk, clean, dirtied>>

Resting == [st |-> "IDLE", do |-> "l1i", va |-> NoVA, lvl |-> 0, pte |-> {}]

MmuInit == /\ asked = [c \in Clients |-> NoVA] /\ reqs = {}
           /\ walk = Resting /\ clean = {} /\ dirtied = {}

At(st) == walk.st = st
PteLine == Path[walk.va][walk.lvl + 1]

Tell_Clean(fault, dirty) ==   \* Mutant: the L1D's TLB keeps its entry
  /\ asked' = [asked EXCEPT ![walk.do] = NoVA]
  /\ clean' = IF walk.do = "l1d" /\ ~fault /\ ~dirty THEN clean \cup {walk.va} ELSE clean
  /\ dirtied' = IF walk.do = "dirty" THEN dirtied \cup {walk.va} ELSE dirtied
(* A walk that ends tells its client: the L1D's TLB takes the page and its *)
(* dirty bit, and the core clears that TLB when a page becomes dirty.  A   *)
(* walk for the core that faults ends without a word.                      *)
Tell(fault, dirty) ==
  /\ asked' = [asked EXCEPT ![walk.do] = NoVA]
  /\ clean' = CASE walk.do = "l1d" /\ ~fault /\ ~dirty -> clean \cup {walk.va}
                [] walk.do = "l1d" /\ ~fault /\ dirty  -> clean \ {walk.va}
                [] walk.do = "dirty" -> {}
                [] OTHER             -> clean
  /\ dirtied' = IF walk.do = "dirty" THEN dirtied \cup {walk.va} ELSE dirtied
Silent == UNCHANGED <<asked, clean, dirtied>>

(* A client asks (r_l1i_req, r_l1d_req, r_dirty_req). *)
Request(c, va) ==
  /\ asked[c] = NoVA /\ asked' = [asked EXCEPT ![c] = va]
  /\ reqs' = reqs \cup {c} /\ UNCHANGED <<walk, clean, dirtied>>

(* IDLE: the L1I first, then the L1D, then the core. *)
Start(c) ==
  /\ At("IDLE") /\ c \in reqs
  /\ (c = "l1d" => "l1i" \notin reqs) /\ (c = "dirty" => reqs = {"dirty"})
  /\ walk' = [st |-> "LOAD", do |-> c, va |-> asked[c], lvl |-> 0, pte |-> {}]
  /\ reqs' = reqs \ {c} /\ Silent

(* LOAD0 of an address that is not canonical: a fault at once. *)
Fault == /\ walk' = Resting
         /\ IF walk.do = "dirty" THEN Silent ELSE Tell(TRUE, FALSE)
BadVa == At("LOAD") /\ Path[walk.va] = <<>> /\ Fault /\ UNCHANGED reqs

(* LOAD0, LOAD1, LOAD2: the request for the entry of this level. *)
Load == /\ At("LOAD") /\ Path[walk.va] # <<>>
        /\ walk' = [walk EXCEPT !.st = "WAIT"] /\ Silent /\ UNCHANGED reqs

Take_SameLevel(pte) ==   \* Mutant: the next level's entry is not the one read next
  /\ At("WAIT") /\ UNCHANGED reqs
  /\ \/ "V" \notin pte /\ Fault
     \/ /\ "V" \in pte /\ Silent
        /\ walk' = [walk EXCEPT !.pte = pte,
             !.st  = IF "X" \in pte \/ walk.lvl = 2 THEN "WALK_DONE" ELSE "LOAD"]
(* WAIT0, WAIT1, WAIT2: the entry arrives; the last level is a leaf.       *)
Take(pte) ==
  /\ At("WAIT") /\ UNCHANGED reqs
  /\ \/ "V" \notin pte /\ Fault
     \/ /\ "V" \in pte /\ Silent
        /\ walk' = [walk EXCEPT !.pte = pte,
             !.st  = IF "X" \in pte \/ walk.lvl = 2 THEN "WALK_DONE" ELSE "LOAD",
             !.lvl = IF "X" \in pte \/ walk.lvl = 2 THEN @ ELSE @ + 1]

(* WALK_DONE: the L1 caches are answered now, the core when the entry is   *)
(* dirty.  Bit A is set for them, bit D for the core.                      *)
BitToSet == IF walk.do = "dirty" THEN "D" ELSE "A"
NeedsMark == BitToSet \notin walk.pte
Done ==
  /\ At("WALK_DONE") /\ UNCHANGED reqs
  /\ walk' = IF NeedsMark THEN [walk EXCEPT !.st = "MARK_ACCESS"] ELSE Resting
  /\ IF walk.do = "dirty" /\ NeedsMark THEN Silent ELSE Tell(FALSE, "D" \in walk.pte)

(* MARK_ACCESS: the bit is set; now the core is answered too. *)
Marked ==
  /\ At("MARK_ACCESS") /\ walk' = Resting /\ UNCHANGED reqs
  /\ IF walk.do = "dirty" THEN Tell(FALSE, TRUE) ELSE Silent
=============================================================================

------------------------------ MODULE Dataflow ------------------------------
(***************************************************************************)
(* What the core may rely on of the execution units: each uop it hands     *)
(* over reads its operands once, after the uops that produce them are      *)
(* done; two accesses to memory read their addresses in program order      *)
(* unless both are loads; a misprediction takes back all younger uops and  *)
(* the core hands them over again.  Queues, ports and forwarding are not   *)
(* to be seen.                                                             *)
(***************************************************************************)
EXTENDS Integers, FiniteSets

CONSTANTS LEN      \* uops of a program, numbered in program order

VARIABLES
  prog,    \* each uop's kind and the producers of its two operands, 0 if none
  stage,   \* how far each uop is
  data     \* how far a store's data is

vars == <<prog, stage, data>>

Pos    == 1 .. LEN
Stages == {"out", "waits", "started", "done"}
IsMem(p) == prog[p].k \in {"ld", "st"}
IsSt(p)  == prog[p].k = "st"
Slow(p)  == IsMem(p) \/ prog[p].k = "mul"   \* its result comes later
Done(o)  == o = 0 \/ stage[o] = "done"
Addr(p)  == IF IsMem(p) THEN {prog[p].a} ELSE {prog[p].a, prog[p].b}

Init == /\ stage = [p \in Pos |-> "out"] /\ data = [p \in Pos |-> "out"]

(* A uop may start when its operands are done and, if it accesses memory,   *)
(* every older access still waiting is a load as it is.                     *)
MayStart(p) ==
  /\ stage[p] = "waits" /\ \A o \in Addr(p) : Done(o)
  /\ IsMem(p) => \A q \in 1 .. p - 1 :
       IsMem(q) /\ stage[q] = "waits" => ~IsSt(p) /\ ~IsSt(q)
Moves(p) ==
  \/ stage'[p] = stage[p]
  \/ MayStart(p) /\ stage'[p] = IF Slow(p) THEN "started" ELSE "done"
  \/ stage[p] = "started" /\ stage'[p] = "done"
DataMoves(p) ==
  \/ data'[p] = data[p]
  \/ data[p] = "waits" /\ Done(prog[p].b) /\ data'[p] = "done"

(* The core hands over up to two uops, the oldest it has not handed over.   *)
Handed == {p \in Pos : stage[p] = "out" /\ stage'[p] # "out"}
Push ==
  /\ Cardinality(Handed) \leq 2
  /\ \A p \in Handed : /\ stage'[p] = "waits"
                       /\ data'[p] = IF IsSt(p) THEN "waits" ELSE "out"
  /\ \A p \in Pos \ Handed : Moves(p) /\ DataMoves(p)
  /\ \A p \in Handed : \A q \in 1 .. p - 1 : stage'[q] # "out"

Squash(b) ==
  /\ prog[b].k = "br" /\ stage[b] = "done"
  /\ \A p \in Pos : IF p > b THEN stage'[p] = "out" /\ data'[p] = "out"
                             ELSE Moves(p) /\ DataMoves(p)

Next == /\ stage' \in [Pos -> Stages] /\ data' \in [Pos -> Stages] /\ UNCHANGED prog
        /\ Push \/ \E b \in Pos : Squash(b)
Spec == Init /\ [][Next]_vars
=============================================================================

----------------------------- MODULE DataMemory -----------------------------
(***************************************************************************)
(* What the core may rely on of the data cache: the stores that count are  *)
(* applied to memory one by one in program order, once they have retired   *)
(* (a store-conditional: while it is the oldest instruction), and a load   *)
(* that counts returns for each word it reads the last older store to it.  *)
(* Nothing is said of lines, queues and requests.                          *)
(*                                                                         *)
(* An instruction p is its position in the program, and a word holds the   *)
(* position of the store it came from, 0 before the first.                 *)
(***************************************************************************)
EXTENDS Integers, FiniteSetsExt

CONSTANTS LINES, WORDS, N, PROGRAMS

VARIABLES
  prog,      \* the program
  ret,       \* instructions retired, or passed over because squashed
  dead,      \* those that were squashed
  contents,  \* memory
  last,      \* the last store applied
  res        \* what loads were answered with

vars == <<prog, ret, dead, contents, last, res>>
Pos  == 1 .. N
Zero == [w \in WORDS |-> 0]

(* A store-conditional stores if the last load-linked was to its line. *)
Linked(q) == \E r \in 1 .. q - 1 :
  /\ prog[r].k = "ll" /\ prog[r].l = prog[q].l /\ r \notin dead
  /\ \A s \in r + 1 .. q - 1 : prog[s].k = "ll" => s \in dead

Stores(q) == \/ prog[q].k = "st"
             \/ prog[q].k = "sc" /\ Linked(q)

(* The last store to a word among the first p instructions. *)
LastStore(l, x, p) ==
  Max({0} \cup {q \in 1 .. p : /\ prog[q].l = l /\ x \in prog[q].m
                               /\ q \notin dead /\ Stores(q)})

Answer(p) == [x \in WORDS |-> IF x \in prog[p].m THEN LastStore(prog[p].l, x, p) ELSE 0]

-----------------------------------------------------------------------------
Init ==
  /\ prog \in PROGRAMS /\ ret = 0 /\ dead = {} /\ last = 0
  /\ contents = [l \in LINES |-> Zero] /\ res = [p \in Pos |-> Zero]

(* The core retires, or squashes, what it has not retired. *)
Retire == /\ ret' \in ret .. N
          /\ dead' \in {dead, dead \cup (ret + 1 .. ret')}

(* The next store that counts is applied. *)
Apply == \E p \in last + 1 .. N :
  /\ p \notin dead /\ Stores(p)
  /\ p <= ret \/ (prog[p].k = "sc" /\ p = ret + 1)
  /\ \A q \in last + 1 .. p - 1 : Stores(q) => q \in dead
  /\ last' = p
  /\ contents' = [contents EXCEPT ![prog[p].l] =
                    [x \in WORDS |-> IF x \in prog[p].m THEN p ELSE @[x]]]

(* A load that has not retired is answered. *)
Load == \E p \in ret + 1 .. N :
  /\ prog[p].k \in {"ld", "ll"}
  /\ res' = [res EXCEPT ![p] = Answer(p)]

Next ==
  /\ UNCHANGED prog /\ Retire
  /\ Apply \/ UNCHANGED <<contents, last>>
  /\ Load \/ UNCHANGED res

Spec == Init /\ [][Next]_vars
=============================================================================

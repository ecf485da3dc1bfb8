------------------------------ MODULE MCUncore ------------------------------
(***************************************************************************)
(* Two sets of two ways.  Page v is found through T and its leaf entry P,  *)
(* page h has no entry where its first one should be, u no legal address.  *)
(* B and C hold data and compete with T for their set.                     *)
(***************************************************************************)
EXTENDS Uncore

CONSTANTS P, T, B, C, v, h, u

MCSetOf == [l \in Lines |-> IF l = P THEN 0 ELSE 1]
(* P with B and C: three lines for the two ways of a set. *)
MCSetOfMark == [l \in Lines |-> IF l = T THEN 0 ELSE 1]
(* All in one set; what competes with an entry is a line only. *)
MCSetOf1 == [l \in Lines |-> 0]
MCContents == [l \in Lines |-> CASE l = P -> {"V", "X"} [] l = T -> {"V"} [] OTHER -> {}]
MCPath == [va \in VA |-> CASE va = v -> <<T, P>> [] va = h -> <<C>> [] va = u -> <<>>]
MCAsks == [who \in {"l1i", "l1d"} |-> IF who = "l1d" THEN {v} ELSE {}]
MCAsksLive == [who \in {"l1i", "l1d"} |-> IF who = "l1d" THEN {v} ELSE {h, u}]
=============================================================================

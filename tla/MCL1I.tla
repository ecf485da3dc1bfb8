------------------------------- MODULE MCL1I -------------------------------
(* An instance of L1I for TLC: four pages of a line each, two sets, so     *)
(* that the index bit lies above the page.  Page 3 has a frame of its own  *)
(* index, page 1 has one of the other; the rest has none.                  *)
EXTENDS L1I

MCFrame == [p \in Pages |-> CASE p = 1 -> 2 [] p = 3 -> 3 [] OTHER -> NoFrame]

Code == <<"op",   "br",   "op",   "ret",
          "op",   "op",   "op",   "j",
          "op",   "op",   "call", "ind",
          "op",   "br",   "op",   "br">>
MCKind == [a \in PC |-> Code[a + 1]]
Goes == <<0,      13,     0,      0,
          0,      0,      0,      12,
          0,      0,      5,      0,
          0,      9,      0,      5>>
MCTarget == [a \in PC |-> Goes[a + 1]]
=============================================================================

------------------------------- MODULE MCL1D -------------------------------
(* Instances of L1D for TLC.  A and B live in one set, C in the other; a    *)
(* line has two words, and an access names one of them or both.  A run's    *)
(* PROGRAMS are all the sequences of N operations of the kinds it is about. *)
EXTENDS L1D
CONSTANTS A, B, C

MCPIdx  == [l \in LINES |-> IF l = C THEN 1 ELSE 0]
MCWords == {1, 2}

(* All index bits are below the page size: a line has one virtual index.   *)
MCLow     == [i \in 0 .. 1 |-> i]

(* A probe in each program, in those that end in a no-op and translate one *)
(* access at most otherwise than by a hit, or in none.                     *)
Count(p, P(_)) == Cardinality({i \in Pos : P(p[i])})
Xlated(o)    == o.t # "hit"
NopsLast(p)  == \A i \in Pos : i > N - 2 <=> p[i].k = "nop"
OneProbe(p)  == 1
NopProbe(p)  == IF NopsLast(p) /\ Count(p, Xlated) \leq 1 THEN 1 ELSE 0
NoProbe(p)   == 0

Op(k, l)     == [k |-> k, l |-> l, v |-> PIdx[l], m |-> {1}, t |-> "hit"]
Wide(op)     == [op EXCEPT !.m = WORDS]
Right(op)    == [op EXCEPT !.m = {2}]
Xlat(op, t)  == [op EXCEPT !.t = t]
Seqs(ops)    == [Pos -> ops]
IsSt(o)      == o.k = "st"
IsBr(o)      == o.k = "br"
IsFl(o)      == o.k = "fl"

(* Two stores and two loads of one set, accesses that overlap in part. *)
Conflict == {p \in Seqs({Op("ld", A), Right(Op("ld", A)), Op("ld", B),
                         Wide(Op("st", A)), Op("st", B)}) : Count(p, IsSt) = 2}
(* Fetches sent early, with and without a line in their way: one store. *)
Early == {p \in Seqs({Op("ld", A), Op("ld", B), Op("ld", C), Op("st", A)}) :
          Count(p, IsSt) = 1}
(* A mispredicted branch over stores, loads and prefetches. *)
Squash == {p \in Seqs({Op("ld", A), Op("st", A), Op("st", B), Op("br", A),
                       Op("pf", B)}) : Count(p, IsBr) = 1 /\ ~IsBr(p[N])}
(* Two accesses that hit, or meet a TLB miss, a page fault, a protection or *)
(* dirty-page fault; the last operations are no-ops.                        *)
Translate == {p \in Seqs({Op("nop", A), Op("ld", A), Op("st", B)}
                  \cup {Xlat(Op("ld", A), t) : t \in {"miss", "fault", "zero"}}
                  \cup {Xlat(Op("st", A), t) : t \in {"miss", "fault", "ro", "clean"}}) :
              NopsLast(p)}
(* Load-linked, later store-conditional, never in a set with a dirty victim. *)
Locks == {p \in Seqs({Op("ld", A), Op("ld", B), Op("ll", A), Op("sc", A), Op("st", A),
                      Op("st", C), Op("ll", C), Op("sc", C)}) :
          \E i, j \in Pos : i < j /\ p[i].k = "ll" /\ p[j].k = "sc"}
(* One flush, with dirty lines in both sets. *)
Flush == {p \in Seqs({Op("ld", A), Op("st", A), Op("st", B), Op("st", C),
                      Op("fl", A)}) : Count(p, IsFl) = 1 /\ ~IsFl(p[1])}

Memory == Conflict \cup Early \cup Locks
Events == Squash \cup Translate \cup Flush
Both == Memory \cup Events

(* Everything that waits: for a line, a walk, retirement, an empty queue.  *)
Waiting == Seqs({Op("st", A), Op("ld", B), Xlat(Op("ld", A), "miss"), Op("st", B),
                 Op("br", A), Op("nop", A), Op("fl", A), Op("pf", B), Op("ll", A)})
=============================================================================

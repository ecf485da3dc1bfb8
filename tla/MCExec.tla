------------------------------- MODULE MCExec -------------------------------
(* Programs for Exec. *)
EXTENDS Exec

U(k, a, b) == [k |-> k, a |-> a, b |-> b]
Programs(S) == {[i \in Pos |-> g[i]] : g \in S}

(* A multiplication, integer uops that reach the write port around it, and *)
(* one that needs both.                                                    *)
Ports == {<<U("mul", 0, 0), U(k, 0, 0), U(l, 2, 0), U(m, 3, 1), U("alu", 2, 0)>> :
            k \in {"alu", "cmov", "mul"}, l \in {"alu", "cmov"}, m \in {"alu", "st"}}
(* Memory accesses whose addresses are there at once, loaded, or computed. *)
Order == {<<U("ld", 0, 0), U("alu", 1, 0), U("st", a, 1), U(l, b, 2), U("ld", 0, 0)>> :
            l \in {"ld", "st"}, a \in {0, 1, 2}, b \in {0, 1, 2}}
(* More stores than there is room for their data.                          *)
Stores == {<<U("st", 0, 0), U("st", 0, 0), U("st", 0, 0), U(k, 0, 0), U("st", 4, 4)>> :
            k \in {"ld", "alu"}}
(* A misprediction found late, and what is begun behind it.                *)
Wrong == {<<U(j, 0, 0), U("br", 1, 0), U(k, 0, 0), U(l, 0, c), U("alu", c, 0)>> :
            j \in {"ld", "mul"}, k \in {"mul", "ld", "cmov"}, c \in {1, 3}, l \in {"st", "alu", "ld"}}
(* A store retires and the branch behind it was mispredicted.              *)
Stored == {<<U("st", 0, 0), U("br", 0, 0), U(k, 0, 0), U(l, 0, 0), U("alu", 3, 4)>> :
            k \in {"mul", "ld"}, l \in {"ld", "cmov"}}
TestPrograms == Programs(Ports \cup Order \cup Stores \cup Wrong \cup Stored)
(* An address that is a product.                                           *)
ProductPrograms == Programs({<<U("mul", 0, 0), U("ld", 1, 0), U("alu", 0, 0), U("alu", 2, 0),
                               U("alu", 0, 0)>>})
=============================================================================

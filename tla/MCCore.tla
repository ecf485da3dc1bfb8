------------------------------- MODULE MCCore -------------------------------
(***************************************************************************)
(* Core at sizes TLC can exhaust: the programs it runs.                    *)
(***************************************************************************)
EXTENDS Core

(* A program that starts with s; ordinary instructions fill it up.         *)
Run(s, ordinary, wrong) ==
  [code |-> [i \in Positions |-> IF i < Len(s) THEN s[i + 1] ELSE ordinary],
   wrong |-> wrong, MAXIRQ |-> 0, SYSCALL_EMU |-> FALSE]
Interrupted(p) == [p EXCEPT !.MAXIRQ = 1]
Emulated(p)    == [p EXCEPT !.SYSCALL_EMU = TRUE]

(* Whatever ends speculation: a mispredicted branch, a fault, a store to a *)
(* clean page; alone, or one in the shadow of another.                     *)
RecoverPrograms ==
  {Run(<<k>>, "alu", {"mul", "st"}) : k \in {"misbr", "ldf"}}
    \cup {Run(<<"dst", "misbr">>, "nop", {"mul", "misbr", "st"}),
          Run(<<"misbr", "ldf">>, "nop", {"misbr", "mul"})}

(* Instructions that wait for an empty machine, next to stores.            *)
SerializePrograms ==
  LET Wrong == {"alu", "ser", "st"} IN
  {Run(<<"st", k>>, "nop", Wrong) : k \in {"ser", "ll", "sc", "llf", "imb"}}
    \cup {Run(<<"misbr", "ser">>, "nop", Wrong)}

(* System calls served by the host, and a fault that ends the run.         *)
MonitorPrograms ==
  {Emulated(Run(<<"st", "mon">>, "alu", {"nop"})),
   Emulated(Run(<<"st", "mon", "ill">>, "nop", {"nop"}))}

(* Instructions cracked into two uops, branches, exceptions, interrupts.   *)
TrapPrograms ==
  {Interrupted(Run(<<"ill">>, "cmov", {"nop"})),
   Interrupted(Run(<<"cmov", "misbr">>, "nop", {"nop"})),
   Interrupted(Run(<<"br">>, "nop", {"nop"}))}

(* Two serializing uops in a row, and the delays no other program has.     *)
DelayPrograms ==
  {Run(<<"st", "ser", "ser">>, "nop", {"nop", "st"}),
   Run(<<"mul", "dst">>, "nop", {"nop"})}

AllPrograms ==
  RecoverPrograms \cup SerializePrograms \cup MonitorPrograms
    \cup TrapPrograms \cup DelayPrograms
=============================================================================

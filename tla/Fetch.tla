-------------------------------- MODULE Fetch --------------------------------
(***************************************************************************)
(* What the core may rely on of the front end: a queue of instructions     *)
(* that follows one predicted path.  A restart empties the queue and       *)
(* starts a path at the address asked for; a flush empties it and ends the *)
(* path; each is answered once.  Until a fetch faults every instruction is *)
(* the one the last was predicted to be followed by, and it faults only    *)
(* where the address space has no page.  One thing of a path that a flush  *)
(* ended may remain: its fault, which the next path then begins with.      *)
(* Caches, translation and what the predictor learns are not to be seen.   *)
(***************************************************************************)
EXTENDS Integers, Sequences

CONSTANTS PC, NoPC,
          Modes,   \* the address spaces, and in each
          Succ,    \* what the instruction at an address may be followed by
          Faults,  \* in each, the addresses that cannot be fetched
          NFQ      \* instructions the queue holds

VARIABLES
  mode,    \* the address space the core is in
  fq,      \* the queue of [pc, nxt, fault]
  pos,     \* where the path goes on, or NoPC
  waits,   \* what the core waits for: "none", "ack", "flush", "wb", or "off"
  target,  \* the address of the restart it asked for
  leftover \* the last path was flushed with a fault that was not delivered

vars == <<mode, fq, pos, waits, target, leftover>>

Items == [pc : PC, nxt : PC \cup {NoPC}, fault : BOOLEAN]
Flushing == waits \in {"flush", "wb"}

Init == /\ mode \in Modes /\ fq = <<>> /\ pos = NoPC
        /\ waits = "flush" /\ target \in PC /\ leftover = FALSE

(* The core asks, while nothing it asked for is outstanding: for a flush    *)
(* only of a front end that runs, for a restart also after a flush.         *)
AskRestart == /\ waits \in {"none", "off"} /\ waits' = "ack" /\ target' \in PC
              /\ UNCHANGED <<mode, fq, pos, leftover>>
AskFlush == /\ waits = "none" /\ waits' \in {"flush", "wb"}
            /\ UNCHANGED <<mode, fq, pos, target, leftover>>
Take == /\ fq # <<>> /\ \E n \in 1 .. 2 : n \leq Len(fq) /\ fq' = SubSeq(fq, n + 1, Len(fq))
        /\ UNCHANGED <<mode, pos, waits, target, leftover>>

(* The front end delivers up to a line of instructions, or a fault.         *)
Path(items, from, to) ==
  /\ items[1].pc = from /\ items[Len(items)].nxt = to
  /\ \A i \in DOMAIN items :
       /\ ~items[i].fault /\ items[i].nxt \in Succ[mode][items[i].pc]
       /\ i > 1 => items[i].pc = items[i - 1].nxt
Deliver ==
  /\ ~leftover
  /\ pos # NoPC /\ Len(fq') \in Len(fq) + 1 .. NFQ /\ SubSeq(fq', 1, Len(fq)) = fq
  /\ pos' # NoPC /\ Path(SubSeq(fq', Len(fq) + 1, Len(fq')), pos, pos')
  /\ UNCHANGED <<mode, waits, target, leftover>>
Report ==
  /\ Len(fq) < NFQ
  /\ \E pc \in PC : fq' = Append(fq, [pc |-> pc, nxt |-> NoPC, fault |-> TRUE])
  /\ UNCHANGED <<mode, waits, target>>
DeliverFault == /\ ~leftover /\ pos \in Faults[mode] /\ Report
                /\ pos' \in PC /\ UNCHANGED leftover
DeliverLeftover == /\ leftover /\ pos # NoPC /\ fq = <<>> /\ Report
                   /\ leftover' = FALSE /\ UNCHANGED pos

(* A restart of a path that runs forgets its fault, a flush may not.       *)
Restart == /\ waits = "ack" /\ waits' = "none" /\ pos' = target /\ fq' = <<>>
           /\ leftover' = (leftover /\ pos = NoPC)
           /\ target' \in PC /\ UNCHANGED mode
End == /\ pos' = NoPC /\ fq' = <<>> /\ UNCHANGED <<mode, target>>
       /\ (leftover' = leftover) \/ (leftover' /\ pos \in Faults[mode])
Stop == /\ waits = "flush" /\ pos # NoPC /\ End /\ UNCHANGED waits
FlushDone == /\ Flushing /\ (pos = NoPC \/ waits = "wb") /\ End
             /\ waits' = "off"

Next == \/ AskRestart \/ AskFlush \/ Take \/ Deliver
        \/ DeliverFault \/ DeliverLeftover \/ Restart \/ Stop \/ FlushDone
Spec == Init /\ [][Next]_vars
=============================================================================

----------------------------- MODULE LineMemory -----------------------------
(***************************************************************************)
(* What the L1 caches and the page walker may rely on of the L2: a memory  *)
(* of lines that performs each request at the moment it answers it.  The   *)
(* L1D's requests for one line are answered in the order they were sent,   *)
(* those for different lines in any order; L1I and page walker have one    *)
(* request at a time.  Ways, evictions, the reorder buffer, the memory     *)
(* behind the cache and flushes are not to be seen.                        *)
(***************************************************************************)
EXTENDS Integers, Sequences

CONSTANTS Lines, NoLine, Data, Bits

VARIABLES
  contents,  \* what each line holds
  l1d,       \* per line, the L1D's requests [op, l, w] not yet answered
  l1i,       \* the line the L1I waits for, or NoLine
  walker,    \* the line the page walker reads, or NoLine
  mark,      \* the bits [l, bits] it wants set in a page table entry
  rsp        \* the answer of this step [to, l, w]

vars == <<contents, l1d, l1i, walker, mark, rsp>>

NoMark == [l |-> NoLine, bits |-> {}]
NoRsp  == [to |-> "nobody", l |-> NoLine, w |-> {}]
Rsp(c, line, word) == [to |-> c, l |-> line, w |-> word]

Init ==
  /\ contents \in [Lines -> Data] /\ l1d = [l \in Lines |-> <<>>] /\ l1i = NoLine
  /\ walker = NoLine /\ mark = NoMark /\ rsp = NoRsp

(* Requests *)
Requests == [op : {"LW", "SW"}, l : Lines, w : Data]
Send == \E l \in Lines :
  /\ Len(l1d'[l]) > Len(l1d[l]) /\ rsp' = NoRsp
  /\ \E q \in Requests : l1d' = [l1d EXCEPT ![l] = Append(@, q)]
  /\ UNCHANGED <<l1i, walker, mark, contents>>
Fetch == /\ l1i = NoLine /\ l1i' \in Lines /\ rsp' = NoRsp
         /\ UNCHANGED <<walker, mark, l1d, contents>>
Read == /\ walker = NoLine /\ walker' \in Lines /\ rsp' = NoRsp
        /\ UNCHANGED <<l1i, mark, l1d, contents>>
SetBits == /\ mark = NoMark /\ mark' \in [l : Lines, bits : (SUBSET Bits) \ {{}}]
           /\ rsp' = NoRsp /\ UNCHANGED <<l1i, walker, l1d, contents>>

(* Answers *)
AnswerLoad == \E l \in Lines :
  /\ rsp' = Rsp("l1d", l, contents[l])
  /\ l1d[l] # <<>> /\ Head(l1d[l]).op = "LW" /\ l1d' = [l1d EXCEPT ![l] = Tail(@)]
  /\ UNCHANGED <<l1i, walker, mark, contents>>
AnswerStore == \E l \in Lines :
  /\ l1d[l] # <<>> /\ Head(l1d[l]).op = "SW" /\ l1d' = [l1d EXCEPT ![l] = Tail(@)]
  /\ rsp' = Rsp("l1d", l, Head(l1d[l]).w)
  /\ contents' = [contents EXCEPT ![l] = Head(l1d[l]).w]
  /\ UNCHANGED <<l1i, walker, mark>>
AnswerFetch ==
  /\ l1i # NoLine /\ l1i' = NoLine /\ rsp' = Rsp("l1i", l1i, contents[l1i])
  /\ UNCHANGED <<walker, mark, l1d, contents>>
AnswerRead ==
  /\ walker # NoLine /\ walker' = NoLine /\ rsp' = Rsp("mmu", walker, contents[walker])
  /\ UNCHANGED <<l1i, mark, l1d, contents>>
AnswerMark ==
  /\ mark # NoMark /\ mark' = NoMark
  /\ rsp' = Rsp("mark", mark.l, contents[mark.l] \cup mark.bits)
  /\ contents' = [contents EXCEPT ![mark.l] = @ \cup mark.bits]
  /\ UNCHANGED <<l1i, walker, l1d>>
Over == rsp' = NoRsp /\ UNCHANGED <<l1i, walker, mark, l1d, contents>>

Next == \/ Over \/ Send \/ Fetch \/ Read \/ SetBits
        \/ AnswerLoad \/ AnswerStore \/ AnswerFetch \/ AnswerRead \/ AnswerMark
Spec == Init /\ [][Next]_vars
=============================================================================

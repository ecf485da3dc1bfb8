------------------------------ MODULE L1IProofs ------------------------------
(***************************************************************************)
(* Proofs about L1I: for every program, page table, cache, TLB and queue,  *)
(* each instruction delivered is of its translation's tag in its address's *)
(* set (so of its own line where these agree, which nothing assumes), a    *)
(* flush empties the cache, and the front end implements Fetch.            *)
(***************************************************************************)
EXTENDS L1I, TLAPS, SequenceTheorems, FiniteSetTheorems

-----------------------------------------------------------------------------
(* Division by a positive number.                                          *)
LEMMA DivMod ==
  ASSUME NEW a \in Int, NEW b \in Nat \ {0}
  PROVE  /\ a \div b \in Int /\ a % b \in 0 .. b - 1
         /\ a = b * (a \div b) + (a % b)
         /\ a \in Nat => a \div b \in Nat
  OBVIOUS

(* Quotient and remainder are the only ones.                               *)
Divided(a, b, q, r) ==
  a \in Int /\ b \in Nat \ {0} /\ q \in Int /\ r \in 0 .. b - 1 /\ a = b * q + r
LEMMA DivModIs ==
  ASSUME NEW a, NEW b, NEW q, NEW r, Divided(a, b, q, r)
  PROVE  a \div b = q /\ a % b = r
<1>0. a \in Int /\ b \in Nat \ {0} /\ q \in Int /\ r \in 0 .. b - 1 /\ a = b * q + r
  BY DEF Divided
<1>1. PICK e \in Int, t \in 0 .. b - 1 : a = b * e + t /\ a \div b = e /\ a % b = t
  BY <1>0, DivMod
<1>2. PICK d \in Int : d = e - q
  BY <1>0, <1>1
<1>3. b * d = r - t
  BY <1>0, <1>1, <1>2
<1>4. d >= 1 => b * d >= b
  BY <1>0, <1>2
<1>5. d <= -1 => b * d <= 0 - b
  BY <1>0, <1>2
<1>6. r - t < b /\ r - t > 0 - b
  BY <1>0, <1>1
<1>7. d = 0
  BY <1>0, <1>1, <1>2, <1>3, <1>4, <1>5, <1>6
<1> QED
  BY <1>0, <1>1, <1>2, <1>3, <1>7

LEMMA Sizes ==
  /\ NSETS \in Nat \ {0} /\ PAGE \in Nat \ {0} /\ LEN \in Nat \ {0} /\ W = 4
  /\ NSETS * 4 \in Nat \ {0}
  /\ \E k \in Nat \ {0} : LEN = (NSETS * 4) * k
  /\ \E h \in Nat \ {0} : LEN = PAGE * h /\ Pages = 0 .. h - 1
  /\ \E g \in Nat \ {0} : PAGE = 4 * g
<1>1. /\ NSETS \in Nat \ {0} /\ PAGE \in Nat \ {0} /\ LEN \in Nat \ {0} /\ W = 4
      /\ NSETS * 4 \in Nat \ {0}
      /\ LEN % PAGE = 0 /\ LEN % (NSETS * 4) = 0 /\ PAGE % 4 = 0
  BY L1IAssumption DEF W
<1>2. ASSUME NEW a \in Nat \ {0}, NEW b \in Nat \ {0}, a % b = 0
      PROVE  a \div b \in Nat \ {0} /\ a = b * (a \div b)
  <2>1. PICK d \in Nat : d = a \div b /\ a = b * d
    <3>1. a \in Int
      OBVIOUS
    <3> QED
      BY <1>2, <3>1, DivMod
  <2>2. d # 0
    BY <2>1
  <2> QED
    BY <2>1, <2>2
<1>3. \E k \in Nat \ {0} : LEN = (NSETS * 4) * k
  <2>1. PICK b \in Nat \ {0} : b = NSETS * 4
    BY <1>1
  <2>2. LEN \div b \in Nat \ {0} /\ LEN = b * (LEN \div b)
    BY <1>1, <1>2, <2>1
  <2> QED
    BY <2>1, <2>2
<1>4. \E h \in Nat \ {0} : LEN = PAGE * h /\ Pages = 0 .. h - 1
  BY <1>1, <1>2 DEF Pages
<1>5. \E g \in Nat \ {0} : PAGE = 4 * g
  BY <1>1, <1>2
<1> QED
  BY <1>1, <1>3, <1>4, <1>5

-----------------------------------------------------------------------------
(* Addresses, lines and sets.                                              *)
LEMMA LineOf ==
  ASSUME NEW pc \in PC
  PROVE  /\ pc \in Nat /\ Off(pc) \in 0 .. 3 /\ pc = 4 * (pc \div W) + Off(pc)
         /\ pc \div W \in Lines /\ pc \div W \in Nat /\ Idx(pc) \in Sets
<1>1. PICK k \in Nat \ {0} : LEN = (NSETS * 4) * k
  BY Sizes
<1>2. pc \in Nat /\ pc < LEN
  BY Sizes DEF PC
<1>3. Off(pc) \in 0 .. 3 /\ pc = 4 * (pc \div W) + Off(pc) /\ pc \div W \in Nat
  BY <1>2, DivMod DEF W, Off
<1>4. PICK n \in Nat : n = NSETS * k
  BY Sizes, <1>1
<1>5. LEN = 4 * n
  BY Sizes, <1>1, <1>4
<1>6. LEN \div W = n
  BY <1>5 DEF W
<1>7. pc \div W \in Lines
  BY <1>2, <1>3, <1>5, <1>6 DEF Lines
<1>8. Idx(pc) \in Sets
  <2>1. pc \div W \in Int /\ NSETS \in Nat \ {0}
    BY <1>3, Sizes
  <2> QED
    BY <2>1, DivMod DEF Idx, Sets
<1> QED
  BY <1>2, <1>3, <1>7, <1>8

LEMMA LinesIs == \E n \in Nat \ {0} : LEN = 4 * n /\ Lines = 0 .. n - 1 /\ n % NSETS = 0
<1>1. PICK k \in Nat \ {0} : LEN = (NSETS * 4) * k
  BY Sizes
<1>4. PICK n \in Nat \ {0} : n = NSETS * k
  BY Sizes, <1>1
<1>5. LEN = 4 * n
  BY Sizes, <1>1, <1>4
<1>6. LEN \div W = n
  BY <1>5 DEF W
<1>7. n % NSETS = 0
  <2>1. Divided(n, NSETS, k, 0)
    BY <1>4, Sizes DEF Divided
  <2> QED
    BY <2>1, DivModIs
<1> QED
  BY <1>5, <1>6, <1>7 DEF Lines

(* Lines of one set with one tag are the same.                             *)
LEMMA SameTag ==
  ASSUME NEW l \in Lines, NEW x \in Lines, TagOf(l) = TagOf(x), l % NSETS = x % NSETS
  PROVE  l = x
<1>1. l \in Int /\ x \in Int
  BY LinesIs
<1> QED
  BY <1>1, Sizes, DivMod DEF TagOf

LEMMA AddIs ==
  ASSUME NEW pc \in PC, NEW n \in 0 .. 4
  PROVE  /\ Add(pc, n) \in PC
         /\ Add(pc, n) = IF pc + n < LEN THEN pc + n ELSE pc + n - LEN
<1>1. PICK k \in Nat \ {0} : LEN = 4 * k
  BY LinesIs
<1>2. pc \in Nat /\ pc < LEN /\ LEN \in Nat \ {0} /\ LEN >= 4
  BY <1>1, Sizes DEF PC
<1>3. CASE pc + n < LEN
  <2>1. Divided(pc + n, LEN, 0, pc + n) /\ pc + n \in 0 .. LEN - 1
    BY <1>2, <1>3 DEF Divided
  <2>2. (pc + n) % LEN = pc + n
    BY <2>1, DivModIs
  <2> QED
    BY <1>3, <2>1, <2>2 DEF Add, PC
<1>4. CASE pc + n >= LEN
  <2>1. Divided(pc + n, LEN, 1, pc + n - LEN) /\ pc + n - LEN \in 0 .. LEN - 1
    BY <1>2, <1>4 DEF Divided
  <2>2. (pc + n) % LEN = pc + n - LEN
    BY <2>1, DivModIs
  <2> QED
    BY <1>2, <1>4, <2>1, <2>2 DEF Add, PC
<1> QED
  BY <1>2, <1>3, <1>4

(* The rest of a line lies behind an address in it.                        *)
LEMMA SameLine ==
  ASSUME NEW pc \in PC, NEW n \in 0 .. 3, Off(pc) + n <= 3
  PROVE  /\ Add(pc, n) = pc + n /\ Add(pc, n) \in PC
         /\ Add(pc, n) \div W = pc \div W /\ Idx(Add(pc, n)) = Idx(pc)
         /\ Off(Add(pc, n)) = Off(pc) + n
<1>1. pc \in Nat /\ Off(pc) \in 0 .. 3 /\ pc = 4 * (pc \div W) + Off(pc)
      /\ pc \div W \in Lines /\ pc \div W \in Nat
  BY LineOf
<1>2. PICK u \in Nat \ {0} : LEN = 4 * u /\ Lines = 0 .. u - 1
  BY LinesIs
<1>3. pc + n < LEN
  BY <1>1, <1>2
<1>4. Add(pc, n) = pc + n /\ Add(pc, n) \in PC
  <2>1. n \in 0 .. 4
    OBVIOUS
  <2> QED
    BY <1>3, <2>1, AddIs
<1>5. (pc + n) \div 4 = pc \div W /\ (pc + n) % 4 = Off(pc) + n
  <2>1. Divided(pc + n, 4, pc \div W, Off(pc) + n)
    BY <1>1 DEF Divided
  <2> QED
    BY <2>1, DivModIs
<1> QED
  BY <1>4, <1>5 DEF Idx, Off, W

(* Behind the end of a line comes one of the next set.                     *)
LEMMA NextLine ==
  ASSUME NEW pc \in PC, NEW n \in 1 .. 4, Off(pc) + n = 4
  PROVE  Idx(Add(pc, n)) = (Idx(pc) + 1) % NSETS
<1>1. /\ pc \in Nat /\ Off(pc) \in 0 .. 3 /\ pc = 4 * (pc \div W) + Off(pc)
      /\ pc \div W \in Lines /\ pc \div W \in Nat /\ NSETS \in Nat \ {0}
  BY LineOf, Sizes
<1>2. PICK u \in Nat \ {0} : LEN = 4 * u /\ Lines = 0 .. u - 1 /\ u % NSETS = 0
  BY LinesIs
<1>3. PICK l \in Nat : l = pc \div W /\ l < u /\ pc + n = 4 * (l + 1)
  BY <1>1, <1>2
<1>4. (l + 1) % NSETS = ((l % NSETS) + 1) % NSETS
  <2>1. PICK q \in Int, r \in 0 .. NSETS - 1 : l = NSETS * q + r /\ l % NSETS = r
    <3>1. l \in Int
      BY <1>3
    <3> QED
      BY <1>1, <3>1, DivMod
  <2>2. CASE r + 1 < NSETS
    <3>1. Divided(l + 1, NSETS, q, r + 1) /\ Divided(r + 1, NSETS, 0, r + 1)
      BY <1>1, <1>3, <2>1, <2>2 DEF Divided
    <3> QED
      BY <2>1, <3>1, DivModIs
  <2>3. CASE r + 1 = NSETS
    <3>1. Divided(l + 1, NSETS, q + 1, 0) /\ Divided(r + 1, NSETS, 1, 0)
      <4>1. NSETS * (q + 1) = NSETS * q + NSETS
        BY <1>1
      <4> QED
        <5>0. PICK v \in Int : v = NSETS * q
          BY <1>1, <2>1
        <5>1. l + 1 = NSETS * (q + 1) + 0 /\ r + 1 = NSETS * 1 + 0
          <6>1. l \in Int /\ r \in Int /\ NSETS \in Int /\ l = v + r /\ r + 1 = NSETS
            BY <1>1, <1>3, <2>1, <2>3, <5>0
          <6>2. NSETS * (q + 1) = v + NSETS
            BY <4>1, <5>0
          <6>3. NSETS * 1 + 0 = NSETS
            BY <6>1
          <6> QED
            BY <6>1, <6>2, <6>3
        <5>2. l + 1 \in Int /\ q + 1 \in Int /\ r + 1 \in Int /\ 0 \in 0 .. NSETS - 1
          BY <1>1, <1>3, <2>1
        <5> QED
          BY <1>1, <5>1, <5>2 DEF Divided
    <3> QED
      BY <2>1, <3>1, DivModIs
  <2> QED
    BY <1>1, <2>1, <2>2, <2>3
<1>5. CASE l + 1 < u
  <2>1. Add(pc, n) = 4 * (l + 1)
    <3>1. n \in 0 .. 4
      OBVIOUS
    <3>2. pc + n < LEN
      BY <1>2, <1>3, <1>5
    <3> QED
      BY <1>3, <3>1, <3>2, AddIs
  <2>2. (4 * (l + 1)) \div 4 = l + 1
    OBVIOUS
  <2> QED
    BY <1>3, <1>4, <2>1, <2>2 DEF Idx, W
<1>6. CASE l + 1 = u
  <2>1. Add(pc, n) = 0
    <3>1. n \in 0 .. 4
      OBVIOUS
    <3>2. pc + n = LEN
      BY <1>2, <1>3, <1>6
    <3> QED
      BY <1>1, <3>1, <3>2, AddIs, Sizes
  <2>2. 0 \div 4 = 0 /\ 0 % NSETS = 0
    <3>1. Divided(0, NSETS, 0, 0)
      BY <1>1 DEF Divided
    <3> QED
      BY <3>1, DivModIs
  <2>3. ((l % NSETS) + 1) % NSETS = 0
    BY <1>2, <1>4, <1>6
  <2> QED
    BY <1>3, <2>1, <2>2, <2>3 DEF Idx, W
<1> QED
  BY <1>2, <1>3, <1>5, <1>6

-----------------------------------------------------------------------------
(* Translation.                                                            *)

(* It keeps instructions of a line together.                               *)
Translated(pc) == ~paging_active \/ Frame[PageOf(pc)] # NoFrame
LEMMA PhysIs ==
  ASSUME NEW pc \in PC, paging_active \in BOOLEAN, Translated(pc)
  PROVE  /\ Phys(pc) \in PC /\ Off(Phys(pc)) = Off(pc)
         /\ \A n \in 0 .. 3 : Off(pc) + n <= 3 =>
              Phys(Add(pc, n)) = Phys(pc) + n /\ Translated(Add(pc, n))
<1>1. CASE ~paging_active
  <2>1. Phys(pc) = pc /\ \A n : Phys(Add(pc, n)) = Add(pc, n)
    BY <1>1 DEF Phys
  <2> QED
    BY <1>1, <2>1, SameLine DEF Translated
<1>2. CASE paging_active
  <2>1. PICK g \in Nat \ {0} : PAGE = 4 * g
    BY Sizes
  <2>2. PICK h \in Nat \ {0} : LEN = PAGE * h /\ Pages = 0 .. h - 1
    BY Sizes
  <2>3. /\ pc \in Nat /\ pc < LEN /\ PAGE \in Nat \ {0} /\ NSETS \in Nat \ {0} /\ W = 4
        /\ Off(pc) \in 0 .. 3 /\ NSETS * 4 \in Nat \ {0}
    BY Sizes, LineOf DEF PC
  <2>4. PICK p \in Nat, r \in 0 .. PAGE - 1 : /\ pc = PAGE * p + r
                                              /\ PageOf(pc) = p /\ pc % PAGE = r
    <3>1. pc \in Int /\ PAGE \in Nat \ {0}
      BY <2>3
    <3>2. /\ pc \div PAGE \in Nat /\ pc % PAGE \in 0 .. PAGE - 1
          /\ pc = PAGE * (pc \div PAGE) + (pc % PAGE)
      BY <2>3, <3>1, DivMod
    <3> QED
      BY <3>2 DEF PageOf
  <2>5. p \in Pages
    <3>1. ~(p >= h)
      <4>1. ASSUME p >= h PROVE PAGE * p >= PAGE * h
        BY <2>2, <2>3, <4>1
      <4> QED
        BY <2>2, <2>3, <2>4, <4>1
    <3> QED
      BY <2>2, <2>4, <3>1
  <2>6. PICK f \in Nat : f = Frame[p] /\ f < h
    <3>1. Frame[p] # NoFrame
      BY <1>2, <2>4 DEF Translated
    <3>2. Frame[p] \in Pages
      BY <2>5, <3>1, L1IAssumption
    <3> QED
      BY <2>2, <3>2
  <2>7. InFrame(pc) = PAGE * f + r /\ PAGE * f \in Nat
    BY <2>3, <2>4, <2>6 DEF InFrame
  <2>8. PAGE * f + PAGE <= PAGE * h
    <3>1. PICK d \in Nat : h = f + 1 + d
      <4>1. h - f - 1 \in Nat /\ h = f + 1 + (h - f - 1)
        BY <2>2, <2>6, SMTT(30)
      <4> QED
        BY <4>1
    <3>2. PAGE * h = PAGE * f + PAGE + PAGE * d /\ PAGE * d \in Nat
      BY <2>3, <2>6, <3>1
    <3> QED
      BY <2>3, <2>6, <3>2
  <2>9. PICK x \in PC : x = InFrame(pc) /\ x = PAGE * f + r
    BY <2>2, <2>3, <2>4, <2>7, <2>8 DEF PC
  <2>10. PICK a \in Int, o \in 0 .. 3 : r = 4 * a + o
    <3>1. r = 4 * (r \div 4) + (r % 4) /\ r \div 4 \in Int /\ r % 4 \in 0 .. 3
      OBVIOUS
    <3> QED
      BY <3>1
  <2>11. o = Off(pc)
    <3>1. PAGE * p = 4 * (g * p) /\ g * p \in Int
      BY <2>1, <2>4
    <3>2. Divided(pc, 4, g * p + a, o)
      BY <2>3, <2>4, <2>10, <3>1 DEF Divided
    <3> QED
      BY <3>2, DivModIs DEF Off, W
  <2>12. x % 4 = Off(pc)
    <3>1. PAGE * f = 4 * (g * f) /\ g * f \in Int
      BY <2>1, <2>6
    <3>2. Divided(x, 4, g * f + a, o)
      BY <2>9, <2>10, <3>1 DEF Divided
    <3> QED
      BY <2>11, <3>2, DivModIs
  <2>13. ASSUME NEW n \in 0 .. 3, Off(pc) + n <= 3
         PROVE  Phys(Add(pc, n)) = x + n /\ Translated(Add(pc, n))
    <3>3. r + n \in 0 .. PAGE - 1
      BY <2>1, <2>10, <2>11, <2>13
    <3>4. Add(pc, n) = pc + n
      BY <2>13, SameLine
    <3>5. Divided(pc + n, PAGE, p, r + n)
      BY <2>3, <2>4, <3>3 DEF Divided
    <3>6. PageOf(pc + n) = p /\ (pc + n) % PAGE = r + n
      BY <3>5, DivModIs DEF PageOf
    <3>7. InFrame(pc + n) = PAGE * f + (r + n)
      BY <2>3, <2>6, <3>6 DEF InFrame
    <3>8. InFrame(pc + n) = x + n
      BY <2>3, <2>6, <2>9, <3>7
    <3> QED
      BY <1>2, <2>4, <3>4, <3>6, <3>8 DEF Phys, Translated
  <2> QED
    BY <1>2, <2>9, <2>12, <2>13 DEF Phys, Off, W
<1> QED
  BY <1>1, <1>2

(* What can hit is one line for the instructions of a line, the one they   *)
(* translate to where page and frame agree.                                *)
LEMMA FetchedIs ==
  ASSUME NEW pc \in PC, paging_active \in BOOLEAN, Translated(pc)
  PROVE  /\ Fetched(paging_active, pc) = NSETS * TagOf(Phys(pc) \div W) + Idx(pc)
         /\ Agrees(paging_active, pc) => Fetched(paging_active, pc) = Phys(pc) \div W
         /\ \A n \in 0 .. 3 : Off(pc) + n <= 3 =>
              Fetched(paging_active, Add(pc, n)) = Fetched(paging_active, pc)
<1>1. /\ Phys(pc) \in PC /\ Phys(pc) \div W \in Int /\ Idx(pc) \in Nat /\ NSETS \in Nat \ {0}
      /\ Off(Phys(pc)) = Off(pc)
  BY PhysIs, LineOf, Sizes DEF Sets
<1>2. TagOf(Phys(pc) \div W) \in Int
  BY <1>1, DivMod DEF TagOf
<1>3. \A a : Fetched(paging_active, a) = (TagOf(Phys(a) \div W) * NSETS) + Idx(a)
  BY DEF Fetched, Phys
<1>4. Fetched(paging_active, pc) = NSETS * TagOf(Phys(pc) \div W) + Idx(pc)
  BY <1>1, <1>2, <1>3
<1>5. ASSUME Agrees(paging_active, pc)
      PROVE  Fetched(paging_active, pc) = Phys(pc) \div W
  <2>1. Idx(pc) = (Phys(pc) \div W) % NSETS
    BY <1>5 DEF Agrees, Phys, Idx
  <2>2. PICK l \in Int : l = Phys(pc) \div W
    BY <1>1
  <2>3. l = NSETS * (l \div NSETS) + (l % NSETS)
    BY <1>1, DivMod
  <2> QED
    BY <1>4, <2>1, <2>2, <2>3 DEF TagOf
<1>6. ASSUME NEW n \in 0 .. 3, Off(pc) + n <= 3
      PROVE  Fetched(paging_active, Add(pc, n)) = Fetched(paging_active, pc)
  <2>1. Phys(Add(pc, n)) = Phys(pc) + n /\ Idx(Add(pc, n)) = Idx(pc)
    BY <1>6, PhysIs, SameLine
  <2>2. Off(Phys(pc)) + n <= 3
    BY <1>1, <1>6
  <2>3. (Phys(pc) + n) \div W = Phys(pc) \div W
    BY <1>1, <2>2, SameLine
  <2> QED
    BY <1>3, <2>1, <2>3
<1> QED
  BY <1>4, <1>5, <1>6

-----------------------------------------------------------------------------
(* The inductive invariant.                                                *)
Item == [pc : PC, nxt : PC \cup {NoPC}, fault : BOOLEAN, line : Lines \cup {NoLine}]
Running == r_state \notin {"INITIALIZE", "FLUSH_CACHE", "IDLE"}

(* A line is in its set; what the TLB holds has a frame.                   *)
Home == /\ \A i \in Sets, k \in Ways : cache[i][k] # NoLine => cache[i][k] % NSETS = i
        /\ \A p \in itlb : Frame[p] # NoFrame

(* What was read is the set of the address, and the address to read next   *)
(* is the one behind it, unless it comes behind a jump; so it is when the  *)
(* front end comes back from where it waits.                               *)
Lookups ==
  /\ r_req => In("ACTIVE") /\ r_cache_idx = Idx(r_cache_pc)
  /\ r_req /\ ~r_resteer_bubble => r_pc = Add(r_cache_pc, 1)
  /\ Running /\ ~In("ACTIVE") => r_pc = Add(r_miss_pc, 1)
  /\ r_resteer_bubble => r_req /\ ~r_page_fault

(* One request at most, and the one the core waits for; with nothing read  *)
(* for the path nothing is queued.                                         *)
Handshake ==
  /\ r_restart_req <=> waits = "ack"
  /\ r_flush_req => waits \in {"flush", "wb"} /\ Running
  /\ waits = "flush" /\ ~r_flush_req => r_state \in {"INITIALIZE", "FLUSH_CACHE"}
  /\ waits = "wb" => r_flush_req
  /\ r_wb_no_inv <=> waits = "wb"
  /\ waits = "off" => In("IDLE")
  /\ waits = "none" => Running
  /\ r_state \in {"INITIALIZE", "FLUSH_CACHE"} => waits = "flush"
  /\ r_req \/ (Running /\ ~In("ACTIVE")) \/ fq = <<>>

(* The sets that a flush has passed are empty.                             *)
Sweep == In("FLUSH_CACHE") => \A i \in Sets, k \in Ways : i < r_cache_idx => cache[i][k] = NoLine

(* The TLB misses only while the core translates.  A fault that waits is   *)
(* that of the address that missed, or a flush has left it.                *)
Faulty ==
  /\ r_state \in {"TLB_MISS", "ZERO_PAGE_TLB_MISS"} => paging_active
  /\ r_page_fault => r_state \in {"TLB_MISS_TURNAROUND", "ACTIVE", "FLUSH_CACHE", "IDLE"}
  /\ r_page_fault /\ (In("TLB_MISS_TURNAROUND") \/ (In("ACTIVE") /\ r_req))
       => Unmapped(paging_active, r_miss_pc)

IInv == TypeOK /\ Home /\ Lookups /\ Handshake /\ Sweep /\ Faulty /\ ReadsItsLine

-----------------------------------------------------------------------------
(* What a hit delivers.                                                    *)

(* The line that hits is of the translation's tag, in the address's set.    *)
LEMMA HitIs ==
  ASSUME IInv, FetchHit
  PROVE  /\ Translated(r_cache_pc) /\ w_array \in Lines /\ w_array = Fetched(paging_active, r_cache_pc)
         /\ r_cache_idx = Idx(r_cache_pc) /\ r_pc = Add(r_cache_pc, 1) /\ r_cache_pc \in PC
<1>1. /\ r_cache_pc \in PC /\ r_cache_idx \in Sets /\ paging_active \in BOOLEAN
      /\ cache \in [Sets -> [Ways -> Lines \cup {NoLine}]]
  BY DEF IInv, TypeOK
<1>2. Translated(r_cache_pc)
  BY DEF FetchHit, w_tlb_hit, Translated, IInv, Home
<1>3. Phys(r_cache_pc) \in PC /\ w_line \in Lines
  BY <1>1, <1>2, PhysIs, LineOf DEF w_line
<1>4. r_cache_idx = Idx(r_cache_pc) /\ r_pc = Add(r_cache_pc, 1)
  BY DEF FetchHit, Fetching, Active, IInv, Lookups
<1>5. PICK k \in Ways : Hits(k) /\ w_array = cache[r_cache_idx][k]
  BY DEF FetchHit, w_hit, w_array, Ways
<1>6. w_array \in Lines /\ TagOf(w_array) = TagOf(w_line) /\ w_array % NSETS = r_cache_idx
  BY <1>1, <1>5 DEF Hits, IInv, Home
<1>7. w_array \in Int /\ NSETS \in Nat \ {0}
  BY <1>6, LinesIs, Sizes
<1>8. w_array = NSETS * TagOf(w_array) + (w_array % NSETS)
  BY <1>7, DivMod DEF TagOf
<1>9. Fetched(paging_active, r_cache_pc) = NSETS * TagOf(w_line) + Idx(r_cache_pc)
  BY <1>1, <1>2, FetchedIs DEF w_line
<1> QED
  BY <1>1, <1>2, <1>4, <1>6, <1>8, <1>9

(* The words of the line from the address on are the instructions that    *)
(* can be fetched there.                                                   *)
LEMMA WordIs ==
  ASSUME IInv, FetchHit, NEW i \in Rest
  PROVE  LET a == Add(r_cache_pc, i) IN
         /\ i \in 0 .. 3 /\ Off(r_cache_pc) + i <= 3 /\ Off(r_cache_pc) \in 0 .. 3
         /\ a \in PC /\ Translated(a) /\ Fetched(paging_active, a) = w_array
         /\ Word(i) = (Fetched(paging_active, a) * W) + Off(a) /\ Word(i) \in PC
<1>1. Off(r_cache_pc) \in 0 .. 3 /\ r_cache_pc \in PC /\ paging_active \in BOOLEAN
  BY HitIs, LineOf DEF IInv, TypeOK
<1>2. i \in 0 .. 3 /\ Off(r_cache_pc) + i <= 3
  BY <1>1 DEF Rest, W
<1>3. Translated(Add(r_cache_pc, i)) /\ Fetched(paging_active, Add(r_cache_pc, i)) = w_array
  BY <1>1, <1>2, HitIs, PhysIs, FetchedIs
<1>4. Add(r_cache_pc, i) \in PC /\ Off(Add(r_cache_pc, i)) = Off(r_cache_pc) + i
  BY <1>1, <1>2, SameLine
<1>5. PICK n \in Nat, l \in Nat : LEN = 4 * n /\ l = w_array /\ l < n
  BY HitIs, LinesIs
<1>6. Word(i) = (w_array * W) + Off(Add(r_cache_pc, i))
  BY <1>1, <1>2, <1>4, <1>5 DEF Word, W
<1>7. Word(i) \in PC
  BY <1>1, <1>2, <1>4, <1>5, <1>6 DEF PC, W
<1> QED
  BY <1>1, <1>2, <1>3, <1>4, <1>6, <1>7

LEMMA LeastIs ==
  ASSUME NEW S \in SUBSET (0 .. 4), S # {}
  PROVE  Least(S) \in S /\ \A j \in S : Least(S) <= j
<1>1. \E i \in S : \A j \in S : i <= j
  <2>1. \A j \in S : j = 0 \/ j = 1 \/ j = 2 \/ j = 3 \/ j = 4
    OBVIOUS
  <2>2. CASE 0 \in S
    BY <2>1, <2>2
  <2>3. CASE 0 \notin S /\ 1 \in S
    BY <2>1, <2>3
  <2>4. CASE 0 \notin S /\ 1 \notin S /\ 2 \in S
    BY <2>1, <2>4
  <2>5. CASE 0 \notin S /\ 1 \notin S /\ 2 \notin S /\ 3 \in S
    BY <2>1, <2>5
  <2>6. CASE 0 \notin S /\ 1 \notin S /\ 2 \notin S /\ 3 \notin S
    <3>1. PICK e \in S : TRUE
      OBVIOUS
    <3>2. e = 4 /\ \A j \in S : j = 4
      BY <2>1, <2>6
    <3> QED
      BY <3>1, <3>2
  <2> QED
    BY <2>2, <2>3, <2>4, <2>5, <2>6
<1> QED
  BY <1>1 DEF Least

(* What may follow what: the first branch ends the straight part.          *)
LEMMA FirstBranch ==
  ASSUME IInv, FetchHit, NEW brs \in SUBSET Branches
  PROVE  LET f == first_branch(brs) IN
         /\ f \in 0 .. 4 /\ Off(r_cache_pc) + f <= 4
         /\ f \notin Taken(brs) => Off(r_cache_pc) + f = 4
         /\ f \in Taken(brs) => f \in Rest
         /\ \A i \in Rest : i < f => i \notin Taken(brs)
<1>1. Off(r_cache_pc) \in 0 .. 3
  BY HitIs, LineOf
<1>2. Taken(brs) \subseteq Rest /\ Rest = 0 .. 3 - Off(r_cache_pc)
  BY <1>1 DEF Taken, Rest, W
<1>3. PICK S \in SUBSET (0 .. 4) : S = Taken(brs) \cup {4 - Off(r_cache_pc)}
  <2>1. PICK o \in 0 .. 3 : o = Off(r_cache_pc)
    BY <1>1
  <2>2. Taken(brs) \cup {4 - o} \in SUBSET (0 .. 4)
    BY <1>2, <2>1
  <2> QED
    BY <2>1, <2>2
<1>4. first_branch(brs) = Least(S)
  BY <1>3 DEF first_branch, W
<1>5. Least(S) \in S /\ \A j \in S : Least(S) <= j
  BY <1>3, LeastIs
<1>6. PICK o \in 0 .. 3, f \in 0 .. 4 : o = Off(r_cache_pc) /\ f = Least(S)
  BY <1>1, <1>3, <1>5
<1>7. /\ f \in S /\ \A j \in S : f <= j
      /\ S = Taken(brs) \cup {4 - o} /\ Taken(brs) \subseteq 0 .. 3 - o /\ Rest = 0 .. 3 - o
  BY <1>2, <1>3, <1>5, <1>6
<1>8. /\ o + f <= 4 /\ (f \notin Taken(brs) => o + f = 4) /\ (f \in Taken(brs) => f \in Rest)
      /\ \A i \in Rest : i < f => i \notin Taken(brs)
  <2>1. 4 - o \in S
    BY <1>7
  <2>2. f <= 4 - o
    BY <1>7, <2>1
  <2> QED
    BY <1>7, <2>2
<1> QED
  BY <1>4, <1>6, <1>8

Follows(from, to) == to \in MayFollow(paging_active, from)

LEMMA FollowIs ==
  ASSUME IInv, FetchHit, NEW i \in Rest, NEW brs \in SUBSET Branches
  PROVE  LET a == Add(r_cache_pc, i) IN
         /\ i \notin Taken(brs) => Follows(a, Add(a, 1))
         /\ Kind[Word(i)] \in {"br", "j", "call"} => Follows(a, Target[Word(i)])
         /\ Kind[Word(i)] \in {"ind", "ret"} => \A to \in PREDICTED : Follows(a, to)
         /\ Kind[Word(i)] \in {"op", "br", "j", "call", "ind", "ret"}
         /\ Target[Word(i)] \in PC
<1>1. /\ Word(i) = (Fetched(paging_active, Add(r_cache_pc, i)) * W) + Off(Add(r_cache_pc, i))
      /\ Word(i) \in PC /\ Translated(Add(r_cache_pc, i))
  BY WordIs
<1>2. Kind[Word(i)] \in {"op", "br", "j", "call", "ind", "ret"} /\ Target[Word(i)] \in PC
  BY <1>1, L1IAssumption
<1>3. i \notin Taken(brs) => Kind[Word(i)] \in {"op", "br"}
  BY <1>2 DEF Taken, Branches
<1>4. ~Unmapped(paging_active, Add(r_cache_pc, i))
  BY <1>1 DEF Translated, Unmapped
<1>5. MayFollow(paging_active, Add(r_cache_pc, i)) =
        UNION {IF Kind[Word(i)] \in {"op", "br"} THEN {Add(Add(r_cache_pc, i), 1)} ELSE {},
               IF Kind[Word(i)] \in {"br", "j", "call"} THEN {Target[Word(i)]} ELSE {},
               IF Kind[Word(i)] \in {"ind", "ret"} THEN PREDICTED ELSE {}}
  BY <1>1, <1>4 DEF MayFollow
<1> QED
  BY <1>2, <1>3, <1>5 DEF Follows

LEMMA AddOne ==
  ASSUME NEW pc \in PC, NEW i \in 0 .. 3, Off(pc) + i <= 3
  PROVE  Add(Add(pc, i), 1) = Add(pc, i + 1)
<1>1. Add(pc, i) = pc + i /\ pc \in Nat
  BY SameLine, LineOf
<1>2. (pc + i) + 1 = pc + (i + 1)
  BY <1>1
<1> QED
  BY <1>1, <1>2 DEF Add

(* A push: n instructions of a line, a path that goes on at last.          *)
Pushed(n, last) ==
  /\ n \in 1 .. 4 /\ n - 1 \in Rest /\ n <= room /\ last \in PC /\ Push(n, last)
  /\ \A i \in 1 .. n :
       Follows(Add(r_cache_pc, i - 1), IF i = n THEN last ELSE Add(r_cache_pc, i))
  /\ r_cache_pc' \in PC /\ r_pc' \in PC /\ r_req' = TRUE
  /\ r_cache_idx' = Idx(r_cache_pc') /\ r_resteer_bubble' \in BOOLEAN
  /\ IF r_resteer_bubble' THEN r_pc' = last
     ELSE r_cache_pc' = last /\ r_pc' = Add(last, 1)

LEMMA PathBefore ==
  ASSUME IInv, FetchHit, NEW brs \in SUBSET Branches, NEW i \in Nat, i < first_branch(brs)
  PROVE  Follows(Add(r_cache_pc, i), Add(r_cache_pc, i + 1)) /\ i \in Rest
<1>1. PICK f \in 0 .. 4, o \in 0 .. 3 :
        /\ f = first_branch(brs) /\ o = Off(r_cache_pc) /\ o + f <= 4
        /\ \A j \in Rest : j < f => j \notin Taken(brs)
  BY FirstBranch, HitIs, LineOf
<1>2. i \in Rest /\ i \notin Taken(brs) /\ i \in 0 .. 3 /\ o + i <= 3
  BY <1>1 DEF Rest, W
<1>3. Add(Add(r_cache_pc, i), 1) = Add(r_cache_pc, i + 1)
  BY <1>1, <1>2, HitIs, AddOne
<1> QED
  BY <1>2, <1>3, FollowIs

LEMMA JumpIs ==
  ASSUME IInv, FetchHit, room > 0, NEW brs \in SUBSET Branches,
         PushJump(brs) \/ PushFirst(brs)
  PROVE  \E n, last : Pushed(n, last)
<1>0. r_pc \in PC /\ Idx(r_pc) \in Sets /\ Off(r_cache_pc) \in 0 .. 3 /\ room \in Int
  BY LenProperties, L1IAssumption, LineOf, HitIs DEF IInv, TypeOK, room
<1>1. PICK f, last : /\ f \in Rest /\ last \in PC /\ Jump(f, last) /\ room > f
                     /\ f \in Taken(brs) /\ f <= first_branch(brs)
                     /\ Follows(Add(r_cache_pc, f), last)
  <2>1. CASE PushJump(brs)
    <3>1. PICK f \in Rest : /\ f = first_branch(brs) /\ f \in Taken(brs) /\ room > f
                            /\ Kind[Word(f)] \in {"br", "j"} /\ Jump(f, Target[Word(f)])
      BY <2>1, FirstBranch DEF PushJump, FarJump
    <3>2. f <= first_branch(brs)
      BY <3>1, FirstBranch
    <3> QED
      BY <3>1, <3>2, FollowIs
  <2>2. CASE PushFirst(brs)
    <3>1. 0 \in Taken(brs) /\ 0 \in Rest
      BY <2>2 DEF PushFirst, Taken
    <3>2. PICK to : /\ to \in IF Kind[Word(0)] \in {"ind", "ret"} THEN PREDICTED
                              ELSE {Target[Word(0)]}
                    /\ Jump(0, to)
      BY <2>2 DEF PushFirst
    <3>3. 0 <= first_branch(brs)
      BY FirstBranch
    <3>4. Kind[Word(0)] # "op"
      BY <3>1 DEF Taken
    <3>5. to \in PC /\ Follows(Add(r_cache_pc, 0), to)
      BY <3>1, <3>2, <3>4, FollowIs, L1IAssumption
    <3> QED
      BY <3>1, <3>2, <3>3, <3>5
  <2> QED
    BY <2>1, <2>2
<1>2. f \in 0 .. 3 /\ first_branch(brs) \in 0 .. 4
  BY <1>0, <1>1, FirstBranch DEF Rest, W
<1>3. ASSUME NEW i \in 1 .. f + 1
      PROVE  Follows(Add(r_cache_pc, i - 1), IF i = f + 1 THEN last ELSE Add(r_cache_pc, i))
  <2>1. CASE i = f + 1
    <3>1. i - 1 = f
      BY <1>2, <2>1
    <3> QED
      BY <1>1, <2>1, <3>1
  <2>2. CASE i # f + 1
    <3>1. i - 1 \in Nat /\ i - 1 < first_branch(brs) /\ (i - 1) + 1 = i
      BY <1>1, <1>2, <2>2
    <3> QED
      BY <2>2, <3>1, PathBefore
  <2> QED
    BY <2>1, <2>2
<1>4. f + 1 \in 1 .. 4 /\ (f + 1) - 1 = f /\ f + 1 <= room
  BY <1>0, <1>1, <1>2
<1>5. /\ Push(f + 1, last) /\ r_pc' = last /\ r_resteer_bubble' = TRUE
      /\ r_cache_pc' = r_pc /\ r_cache_idx' = Idx(r_pc) /\ r_req' = TRUE
  BY <1>1 DEF Jump, Lookup
<1>6. Pushed(f + 1, last)
  BY <1>0, <1>1, <1>3, <1>4, <1>5 DEF Pushed
<1> QED
  BY <1>6

LEMMA StraightIs ==
  ASSUME IInv, FetchHit, room > 0, NEW brs \in SUBSET Branches, PushStraight(brs)
  PROVE  \E n, last : Pushed(n, last)
<1>0. room \in Int /\ r_cache_pc \in PC /\ r_pc = Add(r_cache_pc, 1)
      /\ r_cache_idx = Idx(r_cache_pc)
  BY LenProperties, L1IAssumption, HitIs DEF IInv, TypeOK, room
<1>1. PICK f \in 0 .. 4, o \in 0 .. 3, n \in 0 .. 4 :
        /\ f = first_branch(brs) /\ o = Off(r_cache_pc) /\ o + f <= 4
        /\ (f \notin Taken(brs) => o + f = 4) /\ n = straight(brs)
  BY FirstBranch, HitIs, LineOf DEF straight
<1>2. 0 \notin Taken(brs)
  BY DEF PushStraight
<1>3. n \in 1 .. 4 /\ n <= f /\ n <= room
  BY <1>0, <1>1, <1>2 DEF straight
<1>4. PICK to \in PC : to = Add(r_cache_pc, n)
  BY <1>0, <1>3, AddIs
<1>5. /\ Push(n, to) /\ r_pc' = Add(to, 1) /\ r_cache_pc' = to /\ r_req' = TRUE
      /\ r_cache_idx' = NextSet(n) /\ r_resteer_bubble' = FALSE
  BY <1>1, <1>4 DEF PushStraight, Lookup
<1>6. NextSet(n) = Idx(to)
  <2>1. CASE o + n = 4
    <3>1. NextSet(n) = (r_cache_idx + 1) % NSETS
      <4>1. n = 1 \/ n = 2 \/ n = 3 \/ n = 4
        BY <1>3
      <4>2. CASE n = 1
        <5>1. Idx(r_pc) = (r_cache_idx + 1) % NSETS
          BY <1>0, <1>1, <2>1, <4>2, NextLine
        <5> QED
          BY <4>2, <5>1 DEF NextSet
      <4> QED
        BY <1>1, <2>1, <4>1, <4>2 DEF NextSet
    <3> QED
      BY <1>0, <1>1, <1>3, <1>4, <2>1, <3>1, NextLine
  <2>2. CASE o + n < 4
    <3>1. NextSet(n) = Idx(r_pc)
      <4>1. ~(n = 4 \/ (n = 3 /\ o # 0) \/ (n = 2 /\ o = 2))
        <5>1. o \in 0 .. 3 /\ n \in 1 .. 4 /\ o + n < 4
          BY <1>3, <2>2
        <5> QED
          BY <5>1
      <4> QED
        BY <1>1, <4>1 DEF NextSet
    <3>2. n \in 0 .. 3 /\ 1 \in 0 .. 3 /\ o + n <= 3 /\ o + 1 <= 3
      <4>1. o \in 0 .. 3 /\ n \in 1 .. 4 /\ o + n < 4
        BY <1>3, <2>2
      <4> QED
        BY <4>1
    <3>3. Idx(Add(r_cache_pc, 1)) = Idx(r_cache_pc) /\ Idx(Add(r_cache_pc, n)) = Idx(r_cache_pc)
      BY <1>0, <1>1, <3>2, SameLine
    <3> QED
      BY <1>0, <1>4, <3>1, <3>3
  <2> QED
    BY <1>1, <1>3, <2>1, <2>2
<1>7. ASSUME NEW i \in 1 .. n
      PROVE  Follows(Add(r_cache_pc, i - 1), IF i = n THEN to ELSE Add(r_cache_pc, i))
  <2>1. i - 1 \in Nat /\ i - 1 < first_branch(brs) /\ (i - 1) + 1 = i
    BY <1>1, <1>3
  <2>2. Follows(Add(r_cache_pc, i - 1), Add(r_cache_pc, i))
    BY <2>1, PathBefore
  <2> QED
    BY <1>4, <2>2
<1>8. n - 1 \in Rest
  BY <1>1, <1>3 DEF Rest, W
<1>9. Add(to, 1) \in PC
  BY <1>4, AddIs
<1>10. Pushed(n, to)
  BY <1>3, <1>4, <1>5, <1>6, <1>7, <1>8, <1>9 DEF Pushed
<1> QED
  BY <1>10

LEMMA DeliverIs ==
  ASSUME IInv, Deliver
  PROVE  /\ \E n, last : Pushed(n, last)
         /\ FetchHit /\ UNCHANGED <<r_state, r_miss_pc, r_page_fault, unmoved>>
<1>1. PICK brs \in SUBSET Branches : PushJump(brs) \/ PushFirst(brs) \/ PushStraight(brs)
  BY DEF Deliver
<1>2. FetchHit /\ room > 0 /\ UNCHANGED <<r_state, r_miss_pc, r_page_fault, unmoved>>
  BY DEF Deliver
<1> QED
  BY <1>1, <1>2, JumpIs, StraightIs

-----------------------------------------------------------------------------
(* The queue after each step.                                              *)
PushedItem(n, last, i) ==
  [pc |-> Add(r_cache_pc, i - 1), fault |-> FALSE, line |-> w_array,
   nxt |-> IF i = n THEN last ELSE Add(r_cache_pc, i)]

LEMMA QueueIs ==
  ASSUME IInv
  PROVE  /\ fq \in Seq(Item) /\ Len(fq) \in Nat /\ Len(fq) <= NFQ /\ DOMAIN fq = 1 .. Len(fq)
         /\ NFQ \in Nat \ {0} /\ room = NFQ - Len(fq)
         /\ \A i \in DOMAIN fq : fq[i] \in Item
         /\ (Len(fq) = 0 <=> fq = <<>>)
<1>1. fq \in Seq(Item) /\ Len(fq) <= NFQ /\ NFQ \in Nat \ {0}
  BY L1IAssumption DEF IInv, TypeOK, Item
<1>2. Len(fq) \in Nat /\ DOMAIN fq = 1 .. Len(fq) /\ \A i \in DOMAIN fq : fq[i] \in Item
  BY <1>1, LenProperties, ElementOfSeq
<1>3. Len(fq) = 0 <=> fq = <<>>
  BY <1>1, EmptySeq
<1> QED
  BY <1>1, <1>2, <1>3 DEF room

LEMMA PushIs ==
  ASSUME IInv, FetchHit, NEW n, NEW last, Pushed(n, last)
  PROVE  /\ fq' \in Seq(Item) /\ Len(fq') = Len(fq) + n /\ Len(fq') <= NFQ
         /\ \A i \in 1 .. Len(fq) : fq'[i] = fq[i]
         /\ \A i \in 1 .. n : fq'[Len(fq) + i] = PushedItem(n, last, i)
         /\ \A i \in 1 .. n : i - 1 \in Rest
<1> DEFINE q == [i \in 1 .. n |-> PushedItem(n, last, i)]
<1>1. /\ n \in 1 .. 4 /\ n - 1 \in Rest /\ n <= room /\ last \in PC /\ Off(r_cache_pc) \in 0 .. 3
      /\ w_array \in Lines /\ r_cache_pc \in PC
  BY HitIs, LineOf DEF Pushed
<1>2. \A i \in 1 .. n : i - 1 \in Rest /\ i \in 0 .. 4
  BY <1>1 DEF Rest, W
<1>3. ASSUME NEW i \in 1 .. n PROVE PushedItem(n, last, i) \in Item
  <2>1. Add(r_cache_pc, i - 1) \in PC
    BY <1>2, WordIs
  <2>2. Add(r_cache_pc, i) \in PC
    BY <1>1, <1>2, AddIs
  <2> QED
    BY <1>1, <2>1, <2>2 DEF PushedItem, Item
<1>4. q \in Seq(Item) /\ Len(q) = n /\ \A i \in 1 .. n : q[i] = PushedItem(n, last, i)
  <2>1. n \in Nat
    BY <1>1
  <2>2. q \in [1 .. n -> Item]
    BY <1>3
  <2>3. q \in Seq(Item)
    BY <2>1, <2>2, SeqDef
  <2>4. Len(q) = n
    BY <2>1, <2>2, <2>3, LenProperties
  <2> QED
    BY <2>3, <2>4
<1>5. fq' = fq \o q
  BY DEF Pushed, Push, PushedItem
<1> HIDE DEF q
<1>6. /\ fq' \in Seq(Item) /\ Len(fq') = Len(fq) + Len(q)
      /\ \A i \in 1 .. Len(fq) + Len(q) :
           fq'[i] = IF i <= Len(fq) THEN fq[i] ELSE q[i - Len(fq)]
  <2>1. fq \in Seq(Item) /\ q \in Seq(Item)
    BY <1>4, QueueIs
  <2> QED
    BY <1>5, <2>1, ConcatProperties
<1>7. \A i \in 1 .. Len(fq) : fq'[i] = fq[i]
  BY <1>1, <1>4, <1>6, QueueIs
<1>8. ASSUME NEW i \in 1 .. n PROVE fq'[Len(fq) + i] = PushedItem(n, last, i)
  <2>1. /\ Len(fq) + i \in 1 .. Len(fq) + Len(q) /\ ~(Len(fq) + i <= Len(fq))
        /\ (Len(fq) + i) - Len(fq) = i
    BY <1>1, <1>4, QueueIs
  <2> QED
    BY <1>4, <1>6, <2>1
<1> QED
  BY <1>1, <1>2, <1>4, <1>6, <1>7, <1>8, QueueIs

(* The ways a step changes the queue.                                      *)
FaultItem == [pc |-> r_cache_pc, nxt |-> NoPC, fault |-> TRUE, line |-> NoLine]
QueueMoves ==
  \/ fq' = <<>> \/ fq' = fq \/ Take \/ Deliver
  \/ room > 0 /\ fq' = Append(fq, FaultItem)

LEMMA QueueCases == [Next]_vars => QueueMoves /\ UNCHANGED paging_active
<1> SUFFICES ASSUME [Next]_vars PROVE QueueMoves /\ UNCHANGED paging_active
  OBVIOUS
<1>1. CASE Initialize \/ FlushSet \/ TurnAround \/ NotFull \/ WalkTurnAround \/ ZeroPageWalk
  BY <1>1 DEF Initialize, FlushSet, TurnAround, NotFull, WalkTurnAround, ZeroPageWalk, Wait,
     QueueMoves
<1>2. CASE RestartIdle \/ RestartRunning \/ RestartZeroPage \/ StartFlush
  BY <1>2 DEF RestartIdle, RestartRunning, RestartZeroPage, StartFlush, Restart, Flush,
     QueueMoves
<1>3. CASE StartPath \/ TlbMiss \/ CacheMiss \/ QueueFull \/ Deliver
  BY <1>3 DEF StartPath, TlbMiss, CacheMiss, QueueFull, Leave, unmoved, Deliver, QueueMoves
<1>4. CASE PageFault
  BY <1>4 DEF PageFault, unmoved, FaultItem, QueueMoves
<1>5. CASE Reloaded \/ WalkEnds
  BY <1>5 DEF Reloaded, WalkEnds, Wait, QueueMoves
<1>6. CASE Take \/ AskRestart \/ AskFlush \/ ClearTlb \/ UNCHANGED vars
  BY <1>6 DEF Take, AskRestart, AskFlush, ClearTlb, frontend, vars, QueueMoves
<1> QED
  BY <1>1, <1>2, <1>3, <1>4, <1>5, <1>6 DEF Next, Clock

(* A part of a sequence, and what is left of one without its first n.      *)
LEMMA Part ==
  ASSUME NEW S, NEW s \in Seq(S), NEW a \in Nat, NEW b \in Nat, a + b <= Len(s)
  PROVE  /\ SubSeq(s, a + 1, a + b) \in Seq(S)
         /\ Len(SubSeq(s, a + 1, a + b)) = b
         /\ \A i \in 1 .. b : SubSeq(s, a + 1, a + b)[i] = s[a + i]
<1>1. a + 1 \in Int /\ a + b \in Int /\ \A i \in a + 1 .. a + b : s[i] \in S
  <2>1. Len(s) \in Nat
    BY LenProperties
  <2>2. \A i \in a + 1 .. a + b : i \in 1 .. Len(s)
    BY <2>1
  <2> QED
    BY <2>1, <2>2, ElementOfSeq
<1>2. PICK q, m, n : q = SubSeq(s, m, n) /\ m = a + 1 /\ n = a + b
  OBVIOUS
<1>3. /\ q \in Seq(S) /\ Len(q) = IF m <= n THEN n - m + 1 ELSE 0
      /\ \A i \in 1 .. n - m + 1 : q[i] = s[m + i - 1]
  <2>1. m \in Int /\ n \in Int /\ \A i \in m .. n : s[i] \in S
    BY <1>1, <1>2
  <2> QED
    BY <1>2, <2>1, SubSeqProperties
<1>4. n - m + 1 = b /\ \A i \in 1 .. b : m + i - 1 = a + i
  BY <1>1, <1>2
<1>5. Len(q) = b
  <2>1. ~(m <= n) => b = 0
    BY <1>1, <1>2
  <2> QED
    BY <1>3, <1>4, <2>1
<1> QED
  BY <1>2, <1>3, <1>4, <1>5

LEMMA Suffix ==
  ASSUME NEW S, NEW s \in Seq(S), NEW n \in 1 .. 2, n <= Len(s)
  PROVE  /\ SubSeq(s, n + 1, Len(s)) \in Seq(S)
         /\ Len(SubSeq(s, n + 1, Len(s))) = Len(s) - n
         /\ \A i \in 1 .. Len(s) - n : SubSeq(s, n + 1, Len(s))[i] = s[n + i]
<1>1. Len(s) \in Nat
  BY LenProperties
<1>2. PICK b \in Nat : b = Len(s) - n /\ n + b = Len(s) /\ n + b <= Len(s) /\ n \in Nat
  BY <1>1
<1> QED
  BY <1>2, Part

Right(e) == ~e.fault =>
  /\ Agrees(paging_active, e.pc) => e.line = Phys(e.pc) \div W
  /\ e.line = Fetched(paging_active, e.pc)

LEMMA QueueStep ==
  ASSUME IInv, [Next]_vars
  PROVE  fq' \in Seq(Item) /\ Len(fq') <= NFQ /\ ReadsItsLine'
<1>0. \A i \in DOMAIN fq : Right(fq[i])
  BY DEF IInv, ReadsItsLine, Right
<1>1. UNCHANGED paging_active /\ \A e : Right(e)' <=> Right(e)
  BY QueueCases DEF Right, Agrees, Fetched, Phys, InFrame
<1>2. SUFFICES /\ fq' \in Seq(Item) /\ Len(fq') <= NFQ
               /\ \A i \in 1 .. Len(fq') : Right(fq'[i])
  <2>1. ASSUME fq' \in Seq(Item), \A i \in 1 .. Len(fq') : Right(fq'[i])
        PROVE  ReadsItsLine'
    <3>1. DOMAIN fq' = 1 .. Len(fq')
      BY <2>1, LenProperties
    <3> QED
      BY <1>1, <2>1, <3>1 DEF ReadsItsLine, Right, Agrees, Fetched, Phys, InFrame
  <2> QED
    BY <1>2, <2>1
<1>3. CASE fq' = <<>>
  <2>1. <<>> \in Seq(Item) /\ Len(<<>>) = 0
    BY EmptySeq
  <2> QED
    BY <1>3, <2>1, QueueIs
<1>4. CASE fq' = fq
  BY <1>0, <1>4, QueueIs
<1>5. CASE Take
  <2>1. PICK n \in 1 .. 2 : n <= Len(fq) /\ fq' = SubSeq(fq, n + 1, Len(fq))
    BY <1>5 DEF Take
  <2>2. n + 1 \in 1 .. Len(fq) + 1 /\ Len(fq) \in n .. Len(fq)
    BY <2>1, QueueIs
  <2>3. /\ fq' \in Seq(Item) /\ Len(fq') = Len(fq) - n
        /\ \A i \in 1 .. Len(fq) - n : fq'[i] = fq[n + i]
    <3>1. fq \in Seq(Item) /\ n <= Len(fq)
      BY <2>1, QueueIs
    <3> QED
      BY <2>1, <3>1, Suffix
  <2>4. \A i \in 1 .. Len(fq) - n : n + i \in DOMAIN fq
    BY <2>1, QueueIs
  <2>5. \A i \in 1 .. Len(fq') : Right(fq'[i])
    BY <1>0, <2>3, <2>4
  <2>6. Len(fq') <= NFQ
    <3>1. Len(fq) - n <= NFQ
      BY <2>1, QueueIs
    <3> QED
      BY <2>3, <3>1
  <2> QED
    BY <2>3, <2>5, <2>6
<1>6. CASE Deliver
  <2>1. PICK n, last : Pushed(n, last) /\ FetchHit
    BY <1>6, DeliverIs
  <2>2. /\ fq' \in Seq(Item) /\ Len(fq') = Len(fq) + n /\ Len(fq') <= NFQ
        /\ \A i \in 1 .. Len(fq) : fq'[i] = fq[i]
        /\ \A i \in 1 .. n : fq'[Len(fq) + i] = PushedItem(n, last, i) /\ i - 1 \in Rest
    BY <2>1, PushIs
  <2>3. n \in 1 .. 4
    BY <2>1 DEF Pushed
  <2>4. ASSUME NEW i \in 1 .. n PROVE Right(fq'[Len(fq) + i])
    <3>1. /\ Fetched(paging_active, Add(r_cache_pc, i - 1)) = w_array
          /\ Add(r_cache_pc, i - 1) \in PC /\ Translated(Add(r_cache_pc, i - 1))
      BY <2>1, <2>2, WordIs
    <3>3. Agrees(paging_active, Add(r_cache_pc, i - 1))
            => Phys(Add(r_cache_pc, i - 1)) \div W = w_array
      BY <3>1, FetchedIs DEF IInv, TypeOK
    <3>2. fq'[Len(fq) + i].line = w_array /\ fq'[Len(fq) + i].pc = Add(r_cache_pc, i - 1)
      <4>1. fq'[Len(fq) + i] = PushedItem(n, last, i)
        BY <2>2
      <4>2. /\ PushedItem(n, last, i).line = w_array
            /\ PushedItem(n, last, i).pc = Add(r_cache_pc, i - 1)
        BY DEF PushedItem
      <4> QED
        BY <4>1, <4>2
    <3> QED
      BY <3>1, <3>2, <3>3 DEF Right
  <2>5. ASSUME NEW i \in 1 .. Len(fq') PROVE Right(fq'[i])
    <3>1. CASE i <= Len(fq)
      BY <1>0, <2>2, <3>1, QueueIs
    <3>2. CASE i > Len(fq)
      <4>1. i - Len(fq) \in 1 .. n /\ Len(fq) + (i - Len(fq)) = i
        BY <2>2, <2>3, <3>2, QueueIs
      <4> QED
        BY <2>4, <4>1
    <3> QED
      BY <3>1, <3>2, QueueIs
  <2> QED
    BY <2>2, <2>5
<1>7. CASE room > 0 /\ fq' = Append(fq, FaultItem)
  <2>1. FaultItem \in Item /\ FaultItem.fault
    BY DEF FaultItem, Item, IInv, TypeOK
  <2>2. /\ fq' \in Seq(Item) /\ Len(fq') = Len(fq) + 1
        /\ \A i \in 1 .. Len(fq) : fq'[i] = fq[i]
        /\ fq'[Len(fq) + 1] = FaultItem
    BY <1>7, <2>1, QueueIs, AppendProperties
  <2>3. \A i \in 1 .. Len(fq') : i \in 1 .. Len(fq) \/ i = Len(fq) + 1
    BY <2>2, QueueIs
  <2> QED
    BY <1>0, <1>7, <2>1, <2>2, <2>3, QueueIs DEF Right
<1> QED
  BY <1>3, <1>4, <1>5, <1>6, <1>7, QueueCases DEF QueueMoves

-----------------------------------------------------------------------------
(* The registers and arrays after each step.                               *)
States == {"INITIALIZE", "IDLE", "ACTIVE", "INJECT_RELOAD", "RELOAD_TURNAROUND",
           "FLUSH_CACHE", "WAIT_FOR_NOT_FULL", "TLB_MISS", "TLB_MISS_TURNAROUND",
           "ZERO_PAGE_TLB_MISS"}
Addresses == r_pc \in PC /\ r_cache_pc \in PC /\ r_miss_pc \in PC /\ r_cache_idx \in Sets
Flags == /\ r_state \in States /\ restart_pc \in PC /\ r_mem_req_addr \in Lines
         /\ r_req \in BOOLEAN /\ r_resteer_bubble \in BOOLEAN /\ r_page_fault \in BOOLEAN
         /\ r_restart_req \in BOOLEAN /\ r_flush_req \in BOOLEAN /\ r_wb_no_inv \in BOOLEAN
         /\ clears \in BOOLEAN /\ paging_active \in BOOLEAN
         /\ waits \in {"none", "ack", "flush", "wb", "off"}
Arrays == /\ cache \in [Sets -> [Ways -> Lines \cup {NoLine}]]
          /\ itlb \in SUBSET Pages /\ Cardinality(itlb) <= NTLB

LEMMA TypeParts ==
  TypeOK <=> Addresses /\ Flags /\ Arrays /\ fq \in Seq(Item) /\ Len(fq) <= NFQ
  BY DEF TypeOK, Addresses, Flags, Arrays, Item, States

LEMMA Small ==
  /\ 0 \in PC /\ 0 \in Sets /\ 0 \in Lines
  /\ \A pc \in PC : Idx(pc) \in Sets /\ Add(pc, 1) \in PC /\ PageOf(pc) \in Pages
  /\ \A i \in Sets : (i + 1) % NSETS \in Sets
  /\ \A l \in Lines : l % NSETS \in Sets
<1>1. NSETS \in Nat \ {0} /\ LEN \in Nat \ {0} /\ PAGE \in Nat \ {0}
  BY Sizes
<1>2. PICK n \in Nat \ {0} : Lines = 0 .. n - 1
  BY LinesIs
<1>3. \A i \in Int : i % NSETS \in Sets
  BY <1>1 DEF Sets
<1>4. ASSUME NEW pc \in PC PROVE PageOf(pc) \in Pages
  <2>1. PICK h \in Nat \ {0} : LEN = PAGE * h /\ Pages = 0 .. h - 1
    BY Sizes
  <2>2. PICK p \in Nat, r \in 0 .. PAGE - 1 : pc = PAGE * p + r /\ PageOf(pc) = p
    <3>1. pc \in Int /\ pc \in Nat
      BY DEF PC
    <3>2. /\ pc \div PAGE \in Nat /\ pc % PAGE \in 0 .. PAGE - 1
          /\ pc = PAGE * (pc \div PAGE) + (pc % PAGE)
      BY <1>1, <3>1, DivMod
    <3> QED
      BY <3>2 DEF PageOf
  <2>3. ASSUME p >= h PROVE PAGE * p >= PAGE * h
    BY <1>1, <2>1, <2>3
  <2>4. PAGE * p \in Nat /\ PAGE * p < PAGE * h
    BY <1>1, <2>1, <2>2 DEF PC
  <2>5. ~(p >= h)
    BY <1>1, <2>1, <2>2, <2>3, <2>4
  <2> QED
    BY <2>1, <2>2, <2>5
<1>5. 0 \in PC /\ 0 \in Sets /\ 0 \in Lines
  BY <1>1, <1>2 DEF PC, Sets
<1>6. ASSUME NEW pc \in PC PROVE Idx(pc) \in Sets /\ Add(pc, 1) \in PC
  BY LineOf, AddIs
<1>7. \A i \in Sets : (i + 1) % NSETS \in Sets
  BY <1>1, <1>3 DEF Sets
<1>8. \A l \in Lines : l % NSETS \in Sets
  BY <1>2, <1>3
<1> QED
  BY <1>4, <1>5, <1>6, <1>7, <1>8

Quiet == Take \/ AskRestart \/ AskFlush \/ ClearTlb \/ UNCHANGED vars

LEMMA AddressStep ==
  ASSUME IInv, [Next]_vars
  PROVE  Addresses'
<1>0. Addresses /\ Flags
  BY TypeParts DEF IInv
<1>1. CASE Initialize \/ FlushSet
  BY <1>0, <1>1, Small DEF Initialize, FlushSet, Addresses
<1>2. CASE RestartIdle \/ RestartRunning \/ RestartZeroPage
  BY <1>0, <1>2, Small DEF RestartIdle, RestartRunning, RestartZeroPage, Restart, Addresses, Flags
<1>3. CASE StartFlush
  BY <1>0, <1>3, Small DEF StartFlush, Flush, NoLookup, Addresses
<1>4. CASE StartPath \/ PageFault
  BY <1>0, <1>4, Small DEF StartPath, PageFault, ReadNext, Lookup, Addresses
<1>5. CASE TlbMiss \/ CacheMiss \/ QueueFull
  BY <1>0, <1>5, Small DEF TlbMiss, CacheMiss, QueueFull, Leave, NoLookup, Addresses
<1>6. CASE Deliver
  <2>1. /\ r_cache_pc' \in PC /\ r_pc' \in PC /\ r_cache_idx' = Idx(r_cache_pc')
        /\ r_miss_pc' = r_miss_pc
    BY <1>6, DeliverIs DEF Pushed
  <2>2. PICK pc \in PC : pc = r_cache_pc' /\ r_cache_idx' = Idx(pc)
    BY <2>1
  <2> QED
    BY <1>0, <2>1, <2>2, Small DEF Addresses
<1>7. CASE TurnAround \/ NotFull \/ WalkTurnAround
  BY <1>0, <1>7, Small DEF TurnAround, NotFull, WalkTurnAround, Wait, ReadAgain, Lookup, Addresses
<1>8. CASE ZeroPageWalk \/ Reloaded \/ WalkEnds
  BY <1>0, <1>8 DEF ZeroPageWalk, Reloaded, WalkEnds, Wait, unread, Addresses
<1>9. CASE Quiet
  BY <1>0, <1>9 DEF Quiet, Take, AskRestart, AskFlush, ClearTlb, frontend, addresses, vars,
     Addresses
<1> QED
  BY <1>1, <1>2, <1>3, <1>4, <1>5, <1>6, <1>7, <1>8, <1>9 DEF Next, Clock, Quiet

LEMMA FlagStep ==
  ASSUME IInv, [Next]_vars
  PROVE  Flags'
<1>0. Addresses /\ Flags
  BY TypeParts DEF IInv
<1>1. CASE Initialize
  BY <1>0, <1>1 DEF Initialize, requests, core, Flags, States
<1>11. CASE FlushSet
  <2>1. UNCHANGED <<restart_pc, r_mem_req_addr, r_req, r_resteer_bubble, r_page_fault,
                    r_restart_req, r_flush_req, clears, paging_active>>
    BY <1>11 DEF FlushSet
  <2>2. \/ r_state' = "IDLE" /\ waits' = "off" /\ r_wb_no_inv' = FALSE
        \/ UNCHANGED <<r_state, waits, r_wb_no_inv>>
    BY <1>11 DEF FlushSet, FlushComplete
  <2>3. r_state' \in States /\ waits' \in {"none", "ack", "flush", "wb", "off"}
        /\ r_wb_no_inv' \in BOOLEAN
    BY <1>0, <2>2 DEF Flags, States
  <2> QED
    BY <1>0, <2>1, <2>3 DEF Flags
<1>2. CASE RestartIdle \/ RestartRunning \/ RestartZeroPage
  BY <1>0, <1>2, Small DEF RestartIdle, RestartRunning, RestartZeroPage, Restart, Flags, States
<1>3. CASE StartFlush
  BY <1>0, <1>3, Small DEF StartFlush, Flush, FlushComplete, NoLookup, Flags, States
<1>4. CASE StartPath \/ PageFault
  <2>1. /\ UNCHANGED <<r_state, restart_pc, r_mem_req_addr, r_restart_req, r_flush_req,
                       r_wb_no_inv, clears, waits, paging_active>>
        /\ r_req' = TRUE
    BY <1>4 DEF StartPath, PageFault, ReadNext, Lookup, unmoved, requests, core
  <2>2. /\ r_resteer_bubble' = FALSE \/ r_resteer_bubble' = r_resteer_bubble
        /\ r_page_fault' = FALSE \/ r_page_fault' = r_page_fault
    BY <1>4 DEF StartPath, PageFault
  <2> QED
    BY <1>0, <2>1, <2>2 DEF Flags
<1>5. CASE TlbMiss \/ QueueFull
  <2>1. UNCHANGED <<restart_pc, r_mem_req_addr, r_resteer_bubble, r_page_fault,
                    r_restart_req, r_flush_req, r_wb_no_inv, clears, waits, paging_active>>
    BY <1>5 DEF TlbMiss, QueueFull, Leave, requests, core
  <2>2. r_state' \in States /\ r_req' = FALSE
    BY <1>5 DEF TlbMiss, QueueFull, Leave, NoLookup, States
  <2> QED
    BY <1>0, <2>1, <2>2 DEF Flags
<1>10. CASE CacheMiss
  <2>1. r_cache_pc \in PC /\ paging_active \in BOOLEAN /\ Translated(r_cache_pc)
    BY <1>0, <1>10 DEF Addresses, Flags, CacheMiss, w_tlb_hit, Translated, IInv, Home
  <2>2. w_line \in Lines
    BY <2>1, PhysIs, LineOf DEF w_line
  <2> QED
    BY <1>0, <1>10, <2>2 DEF CacheMiss, Leave, NoLookup, requests, core, Flags, States
<1>6. CASE Deliver
  <2>1. r_req' = TRUE /\ r_resteer_bubble' \in BOOLEAN
    BY <1>6, DeliverIs DEF Pushed
  <2> QED
    BY <1>0, <1>6, <2>1, DeliverIs DEF unmoved, requests, core, Flags
<1>7. CASE TurnAround \/ NotFull \/ WalkTurnAround
  <2>1. UNCHANGED <<restart_pc, r_resteer_bubble, r_page_fault, r_restart_req, r_flush_req,
                    r_wb_no_inv, clears, waits, paging_active>>
    BY <1>7 DEF TurnAround, NotFull, WalkTurnAround, Wait, requests, core
  <2>2. r_state' \in States /\ r_req' = TRUE /\ r_mem_req_addr' = 0
    BY <1>7 DEF TurnAround, NotFull, WalkTurnAround, Wait, ReadAgain, Lookup, States
  <2> QED
    BY <1>0, <2>1, <2>2, Small DEF Flags
<1>8. CASE ZeroPageWalk \/ Reloaded
  BY <1>0, <1>8, Small DEF ZeroPageWalk, Reloaded, Wait, unread, requests, core, Flags, States
<1>12. CASE WalkEnds
  <2>1. r_page_fault' \in BOOLEAN /\ r_state' = "TLB_MISS_TURNAROUND" /\ r_mem_req_addr' = 0
    BY <1>12 DEF WalkEnds, Wait
  <2>2. UNCHANGED <<r_req, r_resteer_bubble, requests, core, paging_active>>
    BY <1>12 DEF WalkEnds, Wait, unread
  <2> QED
    BY <1>0, <2>1, <2>2, Small DEF requests, core, Flags, States
<1>9. CASE Take \/ ClearTlb \/ UNCHANGED vars
  <2>1. /\ UNCHANGED <<r_state, restart_pc, r_mem_req_addr, r_req, r_resteer_bubble, r_page_fault,
                       r_restart_req, r_flush_req, r_wb_no_inv, waits, paging_active>>
        /\ clears' = FALSE \/ clears' = clears
    <3>1. CASE Take
      BY <3>1 DEF Take, frontend, addresses, requests, core
    <3>2. CASE ClearTlb
      BY <3>2 DEF ClearTlb, frontend, addresses, requests
    <3>3. CASE UNCHANGED vars
      BY <3>3 DEF vars, addresses, requests, core
    <3> QED
      BY <1>9, <3>1, <3>2, <3>3
  <2> QED
    BY <1>0, <2>1 DEF Flags
<1>13. CASE AskRestart
  BY <1>0, <1>13, L1IAssumption DEF AskRestart, frontend, addresses, Flags
<1>14. CASE AskFlush
  <2>1. r_wb_no_inv' \in BOOLEAN /\ r_flush_req' \in BOOLEAN /\ waits' \in {"flush", "wb"}
    BY <1>14 DEF AskFlush
  <2>2. UNCHANGED <<frontend, r_restart_req, restart_pc, clears>>
    BY <1>14 DEF AskFlush
  <2> QED
    BY <1>0, <2>1, <2>2 DEF frontend, addresses, Flags
<1> QED
  BY <1>1, <1>2, <1>3, <1>4, <1>5, <1>6, <1>7, <1>8, <1>9, <1>10, <1>11, <1>12, <1>13,
     <1>14 DEF Next, Clock

(* The arrays change when a line is filed, a set cleared, a walk ends or   *)
(* the TLB is cleared.                                                     *)
LEMMA ArraysFrame ==
  ASSUME [Next]_vars
  PROVE  \/ UNCHANGED <<cache, itlb>> \/ FlushSet \/ Reloaded \/ WalkEnds
         \/ UNCHANGED cache /\ itlb' = {}
<1>1. CASE Initialize \/ ZeroPageWalk \/ TurnAround \/ NotFull \/ WalkTurnAround
  BY <1>1 DEF Initialize, ZeroPageWalk, TurnAround, NotFull, WalkTurnAround
<1>2. CASE RestartIdle \/ RestartRunning \/ RestartZeroPage \/ StartFlush
  BY <1>2 DEF RestartIdle, RestartRunning, RestartZeroPage, Restart, StartFlush, Flush
<1>3. CASE StartPath \/ PageFault \/ TlbMiss \/ CacheMiss \/ QueueFull \/ Deliver
  BY <1>3 DEF StartPath, PageFault, TlbMiss, CacheMiss, QueueFull, Leave, Deliver, unmoved
<1>4. CASE Quiet
  BY <1>4 DEF Quiet, Take, AskRestart, AskFlush, ClearTlb, frontend, vars
<1> QED
  BY <1>1, <1>2, <1>3, <1>4 DEF Next, Clock, Quiet

LEMMA ArrayStep ==
  ASSUME IInv, [Next]_vars
  PROVE  Arrays' /\ Home'
<1>0. /\ Addresses /\ Flags /\ Home
      /\ cache \in [Sets -> [Ways -> Lines \cup {NoLine}]]
      /\ itlb \in SUBSET Pages /\ Cardinality(itlb) <= NTLB
  BY TypeParts DEF IInv, Arrays
<1>1. CASE UNCHANGED <<cache, itlb>>
  BY <1>0, <1>1 DEF Arrays, Home
<1>2. CASE FlushSet
  <2>1. r_cache_idx \in Sets /\ itlb' = itlb
        /\ cache' = [cache EXCEPT ![r_cache_idx] = [k \in Ways |-> NoLine]]
    BY <1>0, <1>2 DEF FlushSet, Addresses
  <2> QED
    BY <1>0, <2>1 DEF Arrays, Home
<1>3. CASE Reloaded
  <2>1. PICK k \in Ways : cache' = [cache EXCEPT ![r_mem_req_addr % NSETS][k] = r_mem_req_addr]
    BY <1>3 DEF Reloaded, Fill
  <2>2. r_mem_req_addr \in Lines /\ r_mem_req_addr % NSETS \in Sets /\ itlb' = itlb
    BY <1>0, <1>3, Small DEF Flags, Reloaded
  <2>3. \A i \in Sets, j \in Ways :
          cache'[i][j] = IF i = r_mem_req_addr % NSETS /\ j = k THEN r_mem_req_addr
                         ELSE cache[i][j]
    BY <1>0, <2>1, <2>2
  <2>4. cache' \in [Sets -> [Ways -> Lines \cup {NoLine}]]
    BY <1>0, <2>1, <2>2
  <2> QED
    BY <1>0, <2>2, <2>3, <2>4 DEF Arrays, Home
<1>4. CASE WalkEnds
  <2>1. UNCHANGED cache /\ PageOf(r_miss_pc) \in Pages
    BY <1>0, <1>4, Small DEF WalkEnds, Addresses
  <2>2. CASE Frame[PageOf(r_miss_pc)] = NoFrame
    BY <1>0, <1>4, <2>1, <2>2 DEF WalkEnds, Arrays, Home
  <2>3. CASE Frame[PageOf(r_miss_pc)] # NoFrame
    BY <1>0, <1>4, <2>1, <2>3 DEF WalkEnds, Arrays, Home
  <2> QED
    BY <2>2, <2>3
<1>5. CASE UNCHANGED cache /\ itlb' = {}
  <2>1. Cardinality({}) = 0 /\ NTLB \in Nat
    BY FS_EmptySet, L1IAssumption
  <2> QED
    BY <1>0, <1>5, <2>1 DEF Arrays, Home
<1> QED
  BY <1>1, <1>2, <1>3, <1>4, <1>5, ArraysFrame

(* What is read, and the address behind it.                                *)
LEMMA LookupStep ==
  ASSUME IInv, [Next]_vars
  PROVE  Lookups'
<1>0. /\ r_req \in BOOLEAN /\ r_resteer_bubble \in BOOLEAN /\ Lookups
      /\ r_pc \in PC /\ r_miss_pc \in PC
  BY DEF IInv, TypeOK
<1>1. CASE Initialize \/ FlushSet
  BY <1>0, <1>1 DEF Initialize, FlushSet, FlushComplete, Lookups, Running, In
<1>2. CASE RestartIdle \/ RestartRunning \/ RestartZeroPage
  BY <1>0, <1>2 DEF RestartIdle, RestartRunning, RestartZeroPage, Restart, Lookups, Running, In
<1>3. CASE StartFlush
  BY <1>0, <1>3 DEF StartFlush, Flush, FlushComplete, NoLookup, Lookups, Running, In
<1>4. CASE StartPath \/ PageFault
  <2>1. /\ r_state' = "ACTIVE" /\ r_cache_pc' = r_pc /\ r_cache_idx' = Idx(r_pc) /\ r_req' = TRUE
        /\ r_pc' = Add(r_pc, 1) /\ r_resteer_bubble' = FALSE
    BY <1>4 DEF StartPath, PageFault, Active, ReadNext, Lookup, In
  <2> QED
    BY <2>1 DEF Lookups, Running, In
<1>5. CASE TlbMiss \/ CacheMiss \/ QueueFull
  <2>1. /\ r_pc = Add(r_cache_pc, 1) /\ ~r_resteer_bubble
    BY <1>0, <1>5 DEF TlbMiss, CacheMiss, QueueFull, FetchHit, Fetching, Active, Lookups
  <2>2. r_req' = FALSE /\ r_pc' = r_pc /\ r_miss_pc' = r_cache_pc /\ ~r_resteer_bubble'
    BY <1>5, <2>1 DEF TlbMiss, CacheMiss, QueueFull, Leave, NoLookup
  <2> QED
    BY <2>1, <2>2 DEF Lookups
<1>6. CASE Deliver
  <2>1. PICK n, last : Pushed(n, last)
    BY <1>6, DeliverIs
  <2>2. PICK pc \in PC : pc = r_cache_pc' /\ r_cache_idx' = Idx(pc)
    BY <2>1 DEF Pushed
  <2>3. /\ r_req' = TRUE /\ r_state' = "ACTIVE" /\ ~r_page_fault'
        /\ (~r_resteer_bubble' => r_pc' = Add(pc, 1))
    BY <1>6, <2>1, <2>2, DeliverIs DEF Pushed, FetchHit, Fetching, Active, In
  <2> QED
    BY <2>2, <2>3 DEF Lookups, Running, In
<1>7. CASE TurnAround \/ NotFull \/ WalkTurnAround
  <2>1. Running /\ ~In("ACTIVE")
    BY <1>7 DEF TurnAround, NotFull, WalkTurnAround, Running, In
  <2>2. /\ r_state' = "ACTIVE" /\ r_cache_pc' = r_miss_pc /\ r_cache_idx' = Idx(r_miss_pc)
        /\ r_req' = TRUE /\ UNCHANGED <<r_pc, r_resteer_bubble>>
    BY <1>7 DEF TurnAround, NotFull, WalkTurnAround, Wait, ReadAgain, Lookup
  <2>3. r_pc = Add(r_miss_pc, 1) /\ ~r_resteer_bubble
    BY <1>0, <2>1 DEF Lookups
  <2> QED
    BY <2>2, <2>3 DEF Lookups, Running, In
<1>8. CASE ZeroPageWalk \/ Reloaded \/ WalkEnds
  <2>1. Running /\ ~In("ACTIVE")
    BY <1>8 DEF ZeroPageWalk, Reloaded, WalkEnds, Running, In
  <2>2. UNCHANGED <<r_pc, r_miss_pc, r_req, r_resteer_bubble>>
    BY <1>8 DEF ZeroPageWalk, Reloaded, WalkEnds, Wait, unread
  <2> QED
    BY <1>0, <2>1, <2>2 DEF Lookups
<1>9. CASE Quiet
  <2>1. UNCHANGED <<r_state, addresses, r_page_fault>>
    BY <1>9 DEF Quiet, Take, AskRestart, AskFlush, ClearTlb, frontend, vars
  <2> QED
    BY <1>0, <2>1 DEF addresses, Lookups, Running, In
<1> QED
  BY <1>1, <1>2, <1>3, <1>4, <1>5, <1>6, <1>7, <1>8, <1>9 DEF Next, Clock, Quiet

(* What the core waits for, and what is left of a path that ended.         *)
LEMMA HandshakeStep ==
  ASSUME IInv, [Next]_vars
  PROVE  Handshake'
<1>0. /\ Handshake /\ r_state \in States /\ waits \in {"none", "ack", "flush", "wb", "off"}
      /\ r_restart_req \in BOOLEAN /\ r_flush_req \in BOOLEAN /\ r_wb_no_inv \in BOOLEAN
  BY DEF IInv, TypeOK, States
<1>1. CASE Initialize \/ FlushSet
  BY <1>0, <1>1 DEF Initialize, FlushSet, FlushComplete, requests, core, Handshake, Running, In
<1>2. CASE RestartIdle \/ RestartRunning \/ RestartZeroPage
  BY <1>0, <1>2 DEF RestartIdle, RestartRunning, RestartZeroPage, Restart, Handshake, Running, In
<1>3. CASE StartFlush
  BY <1>0, <1>3 DEF StartFlush, Flush, FlushComplete, NoLookup, Handshake, Running, In
<1>4. CASE StartPath \/ PageFault
  BY <1>0, <1>4 DEF StartPath, PageFault, Active, ReadNext, Lookup, unmoved, requests, core,
     Handshake, Running, In
<1>5. CASE TlbMiss \/ CacheMiss \/ QueueFull
  BY <1>0, <1>5 DEF TlbMiss, CacheMiss, QueueFull, FetchHit, Fetching, Active, Leave, NoLookup,
     requests, core, Handshake, Running, In
<1>6. CASE Deliver
  <2>1. r_req' = TRUE /\ In("ACTIVE")
    BY <1>6, DeliverIs DEF Pushed, FetchHit, Fetching, Active
  <2>2. UNCHANGED <<r_state, r_restart_req, r_flush_req, r_wb_no_inv, waits>>
    BY <1>6, DeliverIs DEF unmoved, requests, core
  <2> QED
    BY <1>0, <2>1, <2>2 DEF Handshake, Running, In
<1>7. CASE TurnAround \/ NotFull \/ WalkTurnAround
  BY <1>0, <1>7 DEF TurnAround, NotFull, WalkTurnAround, Wait, ReadAgain, Lookup, requests, core,
     Handshake, Running, In
<1>8. CASE ZeroPageWalk \/ Reloaded \/ WalkEnds
  BY <1>0, <1>8 DEF ZeroPageWalk, Reloaded, WalkEnds, Wait, unread, requests, core, Handshake,
     Running, In
<1>9. CASE AskRestart
  BY <1>0, <1>9 DEF AskRestart, frontend, addresses, Handshake, Running, In
<1>11. CASE AskFlush
  <2>1. /\ waits = "none" /\ waits' \in {"flush", "wb"} /\ r_flush_req' = TRUE
        /\ (r_wb_no_inv' <=> waits' = "wb")
        /\ UNCHANGED <<r_state, r_req, fq, r_restart_req>>
    BY <1>11 DEF AskFlush, frontend, addresses
  <2> QED
    BY <1>0, <2>1 DEF Handshake, Running, In
<1>12. CASE ClearTlb
  BY <1>0, <1>12 DEF ClearTlb, frontend, addresses, requests, Handshake, Running, In
<1>10. CASE Take \/ UNCHANGED vars
  <2>1. fq = <<>> => fq' = <<>>
    BY <1>10 DEF Take, vars
  <2>2. UNCHANGED <<r_state, r_req, r_restart_req, r_flush_req, r_wb_no_inv, waits>>
    BY <1>10 DEF Take, frontend, addresses, requests, core, vars
  <2> QED
    BY <1>0, <2>1, <2>2 DEF Handshake, Running, In
<1> QED
  BY <1>1, <1>2, <1>3, <1>4, <1>5, <1>6, <1>7, <1>8, <1>9, <1>10, <1>11, <1>12
     DEF Next, Clock

(* A flush goes through the sets one by one, from the first to the last.   *)
LEMMA SetCleared ==
  ASSUME IInv, FlushSet
  PROVE  \A i \in Sets, k \in Ways : i <= r_cache_idx => cache'[i][k] = NoLine
<1>1. /\ r_cache_idx \in Sets /\ Sets \subseteq Int
      /\ cache \in [Sets -> [Ways -> Lines \cup {NoLine}]] /\ In("FLUSH_CACHE") /\ Sweep
  BY DEF IInv, TypeOK, Sets, FlushSet
<1>2. cache' = [cache EXCEPT ![r_cache_idx] = [k \in Ways |-> NoLine]]
  BY DEF FlushSet
<1>3. \A i \in Sets, k \in Ways : i = r_cache_idx => cache'[i][k] = NoLine
  BY <1>1, <1>2
<1>4. \A i \in Sets, k \in Ways : i # r_cache_idx => cache'[i][k] = cache[i][k]
  BY <1>1, <1>2
<1>5. \A i \in Sets : i <= r_cache_idx => i = r_cache_idx \/ i < r_cache_idx
  BY <1>1
<1> QED
  BY <1>1, <1>3, <1>4, <1>5 DEF Sweep

LEMMA SweepStep ==
  ASSUME IInv, [Next]_vars
  PROVE  Sweep'
<1>0. Sweep /\ \A i \in Sets : ~(i < 0)
  BY DEF IInv, Sets
<1>1. CASE Initialize \/ StartFlush
  <2>1. r_cache_idx' = 0
    BY <1>1 DEF Initialize, StartFlush, Flush, NoLookup
  <2> QED
    BY <1>0, <2>1 DEF Sweep
<1>2. CASE FlushSet
  <2>1. CASE r_cache_idx = NSETS - 1 /\ FlushComplete
    BY <2>1 DEF FlushComplete, Sweep, In
  <2>2. CASE r_cache_idx < NSETS - 1
    <3>1. NSETS \in Nat \ {0} /\ r_cache_idx \in 0 .. NSETS - 1
      BY Sizes DEF IInv, TypeOK, Sets
    <3>2. r_cache_idx' = (r_cache_idx + 1) % NSETS
      BY <1>2 DEF FlushSet
    <3>3. Divided(r_cache_idx + 1, NSETS, 0, r_cache_idx + 1)
      BY <2>2, <3>1 DEF Divided
    <3>4. r_cache_idx' = r_cache_idx + 1
      BY <3>2, <3>3, DivModIs
    <3>5. \A i \in Sets : i < r_cache_idx' => i <= r_cache_idx
      BY <3>1, <3>4 DEF Sets
    <3> QED
      BY <1>2, <3>5, SetCleared DEF Sweep
  <2> QED
    BY <1>2, <2>1, <2>2 DEF FlushSet
<1>3. CASE RestartIdle \/ RestartRunning \/ RestartZeroPage
  BY <1>3 DEF RestartIdle, RestartRunning, RestartZeroPage, Restart, Sweep, In
<1>4. CASE StartPath \/ PageFault \/ Deliver
  BY <1>4 DEF StartPath, PageFault, Deliver, FetchHit, Fetching, Active, Sweep, In
<1>5. CASE TlbMiss \/ CacheMiss \/ QueueFull
  BY <1>5 DEF TlbMiss, CacheMiss, QueueFull, Leave, Sweep, In
<1>6. CASE TurnAround \/ NotFull \/ WalkTurnAround \/ ZeroPageWalk \/ Reloaded \/ WalkEnds
  BY <1>6 DEF TurnAround, NotFull, WalkTurnAround, ZeroPageWalk, Reloaded, WalkEnds, Wait, Sweep, In
<1>7. CASE Quiet
  <2>1. UNCHANGED <<r_state, r_cache_idx, cache>>
    BY <1>7 DEF Quiet, Take, AskRestart, AskFlush, ClearTlb, frontend, addresses, vars
  <2> QED
    BY <1>0, <2>1 DEF Sweep, In
<1> QED
  BY <1>1, <1>2, <1>3, <1>4, <1>5, <1>6, <1>7 DEF Next, Clock, Quiet

(* A fault comes of a walk, and waits for room or for the end of a flush.   *)
LEMMA FaultyStep ==
  ASSUME IInv, [Next]_vars
  PROVE  Faulty'
<1>0. /\ Faulty /\ Lookups /\ r_page_fault \in BOOLEAN /\ r_req \in BOOLEAN
      /\ paging_active' = paging_active
      /\ \A pc : Unmapped(paging_active', pc) <=> Unmapped(paging_active, pc)
  BY QueueCases DEF IInv, TypeOK
<1>1. CASE Initialize \/ FlushSet
  BY <1>0, <1>1 DEF Initialize, FlushSet, FlushComplete, Faulty, In
<1>2. CASE RestartIdle \/ RestartRunning \/ RestartZeroPage
  BY <1>0, <1>2 DEF RestartIdle, RestartRunning, RestartZeroPage, Restart, Faulty, In
<1>3. CASE StartFlush
  BY <1>0, <1>3 DEF StartFlush, Flush, FlushComplete, Faulty, In
<1>4. CASE StartPath
  <2>1. ~r_page_fault /\ ~r_page_fault' /\ r_state' = "ACTIVE"
    BY <1>0, <1>4 DEF StartPath, Active, Lookups, In
  <2> QED
    BY <2>1 DEF Faulty
<1>5. CASE PageFault
  <2>1. r_state' = "ACTIVE" /\ In("ACTIVE")
    BY <1>5 DEF PageFault, Active, unmoved, In
  <2>2. CASE ~r_page_fault'
    BY <2>1, <2>2 DEF Faulty
  <2>3. CASE room = 0 /\ UNCHANGED <<r_page_fault, r_miss_pc, fq>>
    <3>1. r_req
      BY <2>1, <2>3, QueueIs DEF IInv, Handshake
    <3> QED
      BY <1>0, <2>1, <2>3, <3>1 DEF Faulty, In
  <2> QED
    BY <1>5, <2>2, <2>3 DEF PageFault
<1>6. CASE TlbMiss \/ CacheMiss \/ QueueFull
  <2>1. ~r_page_fault /\ r_page_fault' = r_page_fault
    BY <1>6 DEF TlbMiss, CacheMiss, QueueFull, FetchHit, Fetching, Leave
  <2>2. r_state' \in {"INJECT_RELOAD", "WAIT_FOR_NOT_FULL"} \/ paging_active
    BY <1>6 DEF TlbMiss, CacheMiss, QueueFull, Leave, w_tlb_hit
  <2> QED
    BY <1>0, <2>1, <2>2 DEF Faulty
<1>7. CASE Deliver
  <2>1. ~r_page_fault /\ r_page_fault' = r_page_fault /\ r_state' = "ACTIVE"
    BY <1>7, DeliverIs DEF FetchHit, Fetching, Active, In
  <2> QED
    BY <2>1 DEF Faulty
<1>8. CASE TurnAround \/ NotFull \/ WalkTurnAround
  <2>1. /\ r_state' = "ACTIVE" /\ r_page_fault' = r_page_fault
        /\ (r_page_fault => r_miss_pc' = r_miss_pc)
        /\ r_state \in {"RELOAD_TURNAROUND", "WAIT_FOR_NOT_FULL", "TLB_MISS_TURNAROUND"}
    BY <1>8 DEF TurnAround, NotFull, WalkTurnAround, Wait, ReadAgain, In
  <2> QED
    BY <1>0, <2>1 DEF Faulty, In
<1>9. CASE ZeroPageWalk \/ Reloaded
  BY <1>0, <1>9 DEF ZeroPageWalk, Reloaded, Wait, unread, Faulty, In
<1>10. CASE WalkEnds
  <2>1. /\ paging_active /\ r_state' = "TLB_MISS_TURNAROUND" /\ r_miss_pc' = r_miss_pc
        /\ (r_page_fault' <=> Frame[PageOf(r_miss_pc)] = NoFrame)
    BY <1>0, <1>10 DEF WalkEnds, Wait, unread, Faulty, In
  <2> QED
    BY <1>0, <2>1 DEF Faulty, Unmapped, In
<1>11. CASE Quiet
  <2>1. UNCHANGED <<r_state, addresses, r_page_fault>>
    BY <1>11 DEF Quiet, Take, AskRestart, AskFlush, ClearTlb, frontend, vars
  <2> QED
    BY <1>0, <2>1 DEF addresses, Faulty, In
<1> QED
  BY <1>1, <1>2, <1>3, <1>4, <1>5, <1>6, <1>7, <1>8, <1>9, <1>10, <1>11 DEF Next, Clock, Quiet

LEMMA InvInit == Init => IInv
<1> SUFFICES ASSUME Init PROVE IInv
  OBVIOUS
<1>1. fq \in Seq(Item) /\ Len(fq) <= NFQ /\ DOMAIN fq = {} /\ fq = <<>>
  <2>1. <<>> \in Seq(Item) /\ Len(<<>>) = 0 /\ NFQ \in Nat
    BY EmptySeq, L1IAssumption
  <2> QED
    BY <2>1 DEF Init
<1>2. Cardinality({}) = 0 /\ NTLB \in Nat
  BY FS_EmptySet, L1IAssumption
<1>3. cache \in [Sets -> [Ways -> Lines \cup {NoLine}]]
      /\ \A i \in Sets, k \in Ways : cache[i][k] = NoLine
  BY DEF Init
<1>4. TypeOK
  <2>1. Addresses /\ Flags
    BY Small DEF Init, Addresses, Flags, States
  <2>2. Arrays
    BY <1>2, <1>3 DEF Init, Arrays
  <2> QED
    BY <1>1, <2>1, <2>2, TypeParts
<1>5. Home /\ Sweep /\ ReadsItsLine
  BY <1>1, <1>3 DEF Init, Home, Sweep, ReadsItsLine
<1>6. Lookups /\ Handshake /\ Faulty
  BY <1>1 DEF Init, Lookups, Handshake, Faulty, Running, In
<1> QED
  BY <1>4, <1>5, <1>6 DEF IInv

LEMMA InvStep == IInv /\ [Next]_vars => IInv'
<1> SUFFICES ASSUME IInv, [Next]_vars PROVE IInv'
  OBVIOUS
<1>1. TypeOK'
  BY AddressStep, FlagStep, ArrayStep, QueueStep
     DEF TypeOK, Addresses, Flags, Arrays, Item, States
<1> QED
  BY <1>1, ArrayStep, LookupStep, HandshakeStep, SweepStep, FaultyStep, QueueStep DEF IInv

LEMMA Invariance == Spec => []IInv
  BY InvInit, InvStep, PTL DEF Spec

(* The registers, arrays and the queue keep to their domains: a line never *)
(* overfills the queue, however much of it the state ACTIVE pushes.        *)
THEOREM L1ITypeCorrect == Spec => []TypeOK
<1>1. IInv => TypeOK
  BY DEF IInv
<1> QED
  BY <1>1, Invariance, PTL

(* Every instruction in the queue was read from the set of its address,    *)
(* chosen a cycle ahead (t_cache_idx), through every jump, miss, walk,     *)
(* fill and flush: from the line it translates to if page and frame agree  *)
(* in the index bits, and if not, from the line of that tag in that set.   *)
THEOREM OwnLine == Spec => []ReadsItsLine
<1>1. IInv => ReadsItsLine
  BY DEF IInv
<1> QED
  BY <1>1, Invariance, PTL

(* What ends the wait for a flush that invalidates is the last set's        *)
(* clearing.                                                               *)
LEMMA FlushEnds ==
  ASSUME IInv, [Next]_vars, waits = "flush", waits' = "off"
  PROVE  FlushSet /\ r_cache_idx = NSETS - 1
<1>0. Handshake
  BY DEF IInv
<1>1. ASSUME ~FlushSet PROVE FALSE
  <2>1. CASE Initialize \/ StartPath \/ PageFault \/ Deliver
    BY <2>1 DEF Initialize, StartPath, PageFault, Deliver, unmoved, core
  <2>2. CASE RestartIdle \/ RestartRunning \/ RestartZeroPage
    BY <2>2 DEF RestartIdle, RestartRunning, RestartZeroPage, Restart
  <2>3. CASE StartFlush
    BY <1>0, <2>3 DEF StartFlush, Flush, Handshake
  <2>4. CASE TlbMiss \/ CacheMiss \/ QueueFull
    BY <2>4 DEF TlbMiss, CacheMiss, QueueFull, Leave, core
  <2>5. CASE TurnAround \/ NotFull \/ WalkTurnAround \/ ZeroPageWalk \/ Reloaded \/ WalkEnds
    BY <2>5 DEF TurnAround, NotFull, WalkTurnAround, ZeroPageWalk, Reloaded, WalkEnds, Wait, core
  <2>6. CASE Quiet
    BY <2>6 DEF Quiet, Take, AskRestart, AskFlush, ClearTlb, core, vars
  <2> QED
    BY <1>1, <2>1, <2>2, <2>3, <2>4, <2>5, <2>6 DEF Next, Clock, Quiet
<1>2. CASE FlushSet
  BY <1>2 DEF FlushSet
<1> QED
  BY <1>1, <1>2

(* A flush that invalidates is reported complete when no line is valid.    *)
THEOREM FlushEmptiesAll == Spec => FlushEmpties
<1>1. ASSUME IInv, [Next]_vars, waits = "flush", waits' = "off"
      PROVE  \A i \in Sets, k \in Ways : cache'[i][k] = NoLine
  <2>1. FlushSet /\ r_cache_idx = NSETS - 1
    BY <1>1, FlushEnds
  <2>2. \A i \in Sets : i <= r_cache_idx
    BY <2>1, Sizes DEF Sets
  <2> QED
    BY <1>1, <2>1, <2>2, SetCleared
<1>2. IInv /\ [Next]_vars
        => [waits = "flush" /\ waits' = "off" =>
              \A i \in Sets, k \in Ways : cache'[i][k] = NoLine]_vars
  BY <1>1
<1> QED
  BY <1>2, Invariance, PTL DEF Spec, FlushEmpties

-----------------------------------------------------------------------------
(* The front end implements Fetch.                                         *)
Entry == [pc : PC, nxt : PC \cup {NoPC}, fault : BOOLEAN]
Shown(e) == [pc |-> e.pc, nxt |-> e.nxt, fault |-> e.fault]
ShownAll(s) == [i \in DOMAIN s |-> Shown(s[i])]

LEMMA ShownIs ==
  ASSUME NEW s \in Seq(Item)
  PROVE  /\ ShownAll(s) \in Seq(Entry) /\ Len(ShownAll(s)) = Len(s)
         /\ \A i \in 1 .. Len(s) : ShownAll(s)[i] = Shown(s[i])
         /\ (s = <<>> => ShownAll(s) = <<>>)
<1>1. Len(s) \in Nat /\ DOMAIN s = 1 .. Len(s) /\ \A i \in 1 .. Len(s) : s[i] \in Item
  BY LenProperties, ElementOfSeq
<1>2. ShownAll(s) \in [1 .. Len(s) -> Entry]
  BY <1>1 DEF ShownAll, Shown, Item, Entry
<1>3. ShownAll(s) \in Seq(Entry)
  BY <1>1, <1>2, SeqDef
<1>4. Len(ShownAll(s)) = Len(s)
  <2>1. DOMAIN ShownAll(s) = 1 .. Len(s)
    BY <1>1 DEF ShownAll
  <2> QED
    BY <1>1, <1>3, <2>1, LenProperties
<1>5. s = <<>> => ShownAll(s) = <<>>
  BY <1>3, <1>4, EmptySeq
<1> QED
  BY <1>1, <1>3, <1>4, <1>5 DEF ShownAll

LEMMA QueueShown ==
  ASSUME IInv, [Next]_vars
  PROVE  /\ fq \in Seq(Item) /\ fq' \in Seq(Item)
         /\ Queue = ShownAll(fq) /\ Queue' = ShownAll(fq')
         /\ Len(fq) \in Nat /\ Len(fq') \in Nat /\ Len(fq') <= NFQ /\ NFQ \in Nat
         /\ paging_active' = paging_active
<1>1. fq \in Seq(Item) /\ fq' \in Seq(Item) /\ Len(fq') <= NFQ /\ NFQ \in Nat
  BY QueueIs, QueueStep
<1>2. Len(fq) \in Nat /\ Len(fq') \in Nat
  BY <1>1, LenProperties
<1>3. Queue = ShownAll(fq) /\ Queue' = ShownAll(fq')
  BY DEF Queue, ShownAll, Shown
<1> QED
  BY <1>1, <1>2, <1>3, QueueCases

(* Where the path goes on, by what the front end is doing.                 *)
LEMMA PosIs ==
  ASSUME IInv
  PROVE  /\ ~Running => Pos = NoPC
         /\ Running => Pos \in PC /\ Pos # NoPC
         /\ Running /\ ~In("ACTIVE") => Pos = r_miss_pc
         /\ In("ACTIVE") /\ r_page_fault /\ r_req => Pos = r_miss_pc
         /\ In("ACTIVE") /\ ~r_page_fault /\ (r_resteer_bubble \/ ~r_req) => Pos = r_pc
         /\ In("ACTIVE") /\ ~r_req => Pos = r_pc
         /\ In("ACTIVE") /\ ~r_page_fault /\ ~r_resteer_bubble /\ r_req => Pos = r_cache_pc
<1>1. r_pc \in PC /\ r_cache_pc \in PC /\ r_miss_pc \in PC /\ NoPC \notin PC
  BY L1IAssumption DEF IInv, TypeOK
<1> QED
  BY <1>1 DEF Pos, Running, In

LEMMA PosNext ==
  ASSUME IInv', NoPC \notin PC
  PROVE  /\ (~Running)' => Pos' = NoPC
         /\ Running' => Pos' \in PC /\ Pos' # NoPC
         /\ Running' /\ r_state' # "ACTIVE" => Pos' = r_miss_pc'
         /\ r_state' = "ACTIVE" /\ r_page_fault' /\ r_req' => Pos' = r_miss_pc'
         /\ r_state' = "ACTIVE" /\ ~r_page_fault' /\ (r_resteer_bubble' \/ ~r_req') => Pos' = r_pc'
         /\ r_state' = "ACTIVE" /\ ~r_req' => Pos' = r_pc'
         /\ r_state' = "ACTIVE" /\ ~r_page_fault' /\ ~r_resteer_bubble' /\ r_req'
              => Pos' = r_cache_pc'
<1>1. r_pc' \in PC /\ r_cache_pc' \in PC /\ r_miss_pc' \in PC
  BY DEF IInv, TypeOK
<1> QED
  BY <1>1 DEF Pos, Running, In

(* What Fetch does not see.                                                *)
Unseen == UNCHANGED <<paging_active, fq, Pos, waits, restart_pc, Leftover>>

LEMMA UnseenStutters ==
  ASSUME IInv, [Next]_vars, Unseen
  PROVE  UNCHANGED F!vars
<1>1. Queue' = Queue
  BY QueueShown DEF Unseen
<1> QED
  BY <1>1 DEF Unseen, F!vars

(* A fault is left over where a flush is done or its path has not begun.   *)
LEMMA LeftoverIs ==
  ASSUME IInv
  PROVE  /\ Leftover \in BOOLEAN
         /\ ~Running => (Leftover <=> r_page_fault)
         /\ Running /\ ~In("ACTIVE") => ~Leftover
         /\ In("ACTIVE") => (Leftover <=> r_page_fault /\ ~r_req)
         /\ In("ACTIVE") /\ r_page_fault /\ r_req => Pos \in Faults[paging_active]
<1>1. /\ Faulty /\ r_page_fault \in BOOLEAN /\ r_req \in BOOLEAN /\ r_miss_pc \in PC
      /\ paging_active \in BOOLEAN
  BY DEF IInv, TypeOK
<1>2. In("ACTIVE") /\ r_page_fault /\ r_req => r_miss_pc \in Faults[paging_active]
  BY <1>1 DEF Faulty, Faults
<1> QED
  BY <1>1, <1>2, PosIs DEF Leftover, Faulty, Running, In

LEMMA LeftoverNext ==
  ASSUME IInv'
  PROVE  /\ Leftover' \in BOOLEAN
         /\ (~Running)' => (Leftover' <=> r_page_fault')
         /\ Running' /\ r_state' # "ACTIVE" => ~Leftover'
         /\ r_state' = "ACTIVE" => (Leftover' <=> r_page_fault' /\ ~r_req')
<1>1. Faulty' /\ r_page_fault' \in BOOLEAN /\ r_req' \in BOOLEAN
  BY DEF IInv, TypeOK
<1> QED
  BY <1>1 DEF Leftover, Faulty, Running, In

LEMMA RestartImplements ==
  ASSUME IInv, IInv', [Next]_vars, RestartIdle \/ RestartRunning \/ RestartZeroPage
  PROVE  F!Restart
<1>1. /\ r_restart_req /\ waits' = "none" /\ fq' = <<>> /\ r_state' = "ACTIVE" /\ ~r_req'
      /\ r_pc' = restart_pc /\ restart_pc' = 0
  BY DEF RestartIdle, RestartRunning, RestartZeroPage, Restart
<1>2. waits = "ack"
  BY <1>1 DEF IInv, Handshake
<1>3. Queue' = <<>> /\ paging_active' = paging_active
  BY <1>1, QueueShown, ShownIs
<1>4. Pos' = restart_pc /\ 0 \in PC
  BY <1>1, PosNext, L1IAssumption, Small
<1>5. Leftover' = (Leftover /\ Pos = NoPC)
  <2>1. CASE RestartIdle
    <3>1. ~Running /\ r_page_fault' = r_page_fault
      BY <2>1 DEF RestartIdle, Running, In
    <3> QED
      BY <1>1, <3>1, PosIs, LeftoverIs, LeftoverNext
  <2>2. CASE RestartRunning \/ RestartZeroPage
    <3>1. Running /\ ~r_page_fault'
      BY <2>2 DEF RestartRunning, RestartZeroPage, Running, In
    <3> QED
      BY <1>1, <3>1, PosIs, LeftoverNext
  <2> QED
    BY <2>1, <2>2
<1> QED
  BY <1>1, <1>2, <1>3, <1>4, <1>5 DEF F!Restart

LEMMA FlushImplements ==
  ASSUME IInv, IInv', [Next]_vars, StartFlush
  PROVE  F!Stop \/ F!FlushDone
<1>1. /\ r_flush_req /\ fq' = <<>> /\ UNCHANGED restart_pc
      /\ \/ r_wb_no_inv /\ FlushComplete
         \/ ~r_wb_no_inv /\ r_state' = "FLUSH_CACHE" /\ UNCHANGED waits
  BY DEF StartFlush, Flush
<1>2. waits \in {"flush", "wb"} /\ Running /\ (r_wb_no_inv <=> waits = "wb")
  BY <1>1 DEF IInv, Handshake
<1>3. Queue' = <<>> /\ paging_active' = paging_active
  BY <1>1, QueueShown, ShownIs
<1>4. Pos # NoPC /\ Pos' = NoPC
  BY <1>1, <1>2, PosIs, PosNext, L1IAssumption DEF FlushComplete, Running
<1>7. Leftover' = Leftover \/ (Leftover' /\ Pos \in Faults[paging_active])
  <2>1. r_page_fault' = r_page_fault /\ (~Running)'
    BY <1>1 DEF StartFlush, Flush, FlushComplete, Running
  <2>2. Leftover' <=> r_page_fault
    BY <2>1, LeftoverNext
  <2>3. CASE ~r_page_fault
    BY <2>2, <2>3, LeftoverNext, LeftoverIs DEF Leftover
  <2>4. CASE r_page_fault
    <3>1. In("ACTIVE")
      BY <1>2, <2>4 DEF IInv, Faulty, StartFlush, Running, In
    <3> QED
      BY <2>2, <2>4, <3>1, LeftoverIs, LeftoverNext
  <2> QED
    BY <2>3, <2>4
<1>8. F!End
  BY <1>1, <1>3, <1>4, <1>7 DEF F!End
<1>5. CASE r_wb_no_inv /\ FlushComplete
  BY <1>2, <1>4, <1>5, <1>8 DEF FlushComplete, F!FlushDone, F!Flushing
<1>6. CASE ~r_wb_no_inv /\ UNCHANGED waits
  BY <1>2, <1>4, <1>6, <1>8 DEF F!Stop
<1> QED
  BY <1>1, <1>5, <1>6

LEMMA SetImplements ==
  ASSUME IInv, IInv', [Next]_vars, FlushSet
  PROVE  [F!FlushDone]_(F!vars)
<1>1. /\ In("FLUSH_CACHE") /\ UNCHANGED <<fq, restart_pc>>
      /\ FlushComplete \/ UNCHANGED <<r_state, waits>>
  BY DEF FlushSet
<1>2. ~Running /\ waits = "flush" /\ fq = <<>> /\ ~Running'
  BY <1>1 DEF IInv, Handshake, Lookups, Running, In, FlushComplete
<1>3. Pos = NoPC /\ Pos' = NoPC /\ Queue' = <<>>
  BY <1>1, <1>2, PosIs, PosNext, L1IAssumption, QueueShown, ShownIs
<1>6. Leftover' = Leftover
  <2>1. r_page_fault' = r_page_fault
    BY DEF FlushSet
  <2> QED
    BY <1>2, <2>1, LeftoverIs, LeftoverNext
<1>4. CASE FlushComplete
  BY <1>1, <1>2, <1>3, <1>4, <1>6, QueueCases DEF FlushComplete, F!FlushDone, F!End, F!Flushing
<1>5. CASE UNCHANGED waits
  BY <1>1, <1>3, <1>5, <1>6, QueueCases, UnseenStutters DEF Unseen
<1> QED
  BY <1>1, <1>4, <1>5

LEMMA PageFaultImplements ==
  ASSUME IInv, IInv', [Next]_vars, PageFault
  PROVE  [F!DeliverFault \/ F!DeliverLeftover]_(F!vars)
<1>1. /\ In("ACTIVE") /\ r_state' = "ACTIVE" /\ r_page_fault
      /\ ~r_resteer_bubble /\ ~r_resteer_bubble' /\ r_req' /\ r_cache_pc' = r_pc
      /\ UNCHANGED <<waits, restart_pc>>
  BY DEF PageFault, Active, ReadNext, Lookup, In, unmoved, core
<1>2. Running /\ paging_active' = paging_active /\ NoPC \notin PC
  BY <1>1, QueueCases, L1IAssumption DEF Running, In
<1>3. CASE room > 0 /\ ~r_page_fault' /\ fq' = Append(fq, FaultItem)
  <2>1. FaultItem \in Item /\ r_cache_pc \in PC /\ r_pc \in PC /\ Len(fq) < NFQ
    BY <1>3, QueueIs DEF FaultItem, Item, IInv, TypeOK
  <2>2. /\ fq' \in Seq(Item) /\ Len(fq') = Len(fq) + 1
        /\ \A i \in 1 .. Len(fq) : fq'[i] = fq[i]
        /\ fq'[Len(fq) + 1] = FaultItem
    BY <1>3, <2>1, QueueIs, AppendProperties
  <2> DEFINE e == [pc |-> r_cache_pc, nxt |-> NoPC, fault |-> TRUE]
  <2>3. e \in Entry /\ Shown(FaultItem) = e
    BY <2>1 DEF Entry, Shown, FaultItem
  <2>4. Queue' = Append(Queue, e)
    <3>1. /\ Queue \in Seq(Entry) /\ Queue' \in Seq(Entry) /\ Len(Queue) = Len(fq)
          /\ Len(Queue') = Len(fq) + 1 /\ Len(fq) \in Nat
      BY <2>2, QueueShown, ShownIs
    <3>2. /\ Append(Queue, e) \in Seq(Entry) /\ Len(Append(Queue, e)) = Len(fq) + 1
          /\ \A i \in 1 .. Len(fq) : Append(Queue, e)[i] = Queue[i]
          /\ Append(Queue, e)[Len(fq) + 1] = e
      BY <2>3, <3>1, AppendProperties
    <3>3. ASSUME NEW i \in 1 .. Len(fq) + 1 PROVE Queue'[i] = Append(Queue, e)[i]
      <4>1. CASE i <= Len(fq)
        <5>1. Queue[i] = Shown(fq[i]) /\ Queue'[i] = Shown(fq'[i]) /\ fq'[i] = fq[i]
          BY <2>2, <3>1, <4>1, QueueShown, ShownIs
        <5> QED
          BY <3>1, <3>2, <4>1, <5>1
      <4>2. CASE i = Len(fq) + 1
        BY <2>2, <2>3, <3>1, <3>2, <4>2, QueueShown, ShownIs
      <4> QED
        BY <3>1, <4>1, <4>2
    <3> QED
      BY <3>1, <3>2, <3>3, SeqEqual
  <2>5. Len(Queue) < NFQ /\ Pos # NoPC /\ Pos' \in PC
    <3>1. Len(Queue) = Len(fq)
      BY QueueShown, ShownIs
    <3>2. Pos # NoPC
      BY <1>2, PosIs
    <3>3. Pos' = r_pc
      BY <1>1, <1>2, <1>3, PosNext
    <3> QED
      BY <2>1, <3>1, <3>2, <3>3
  <2>6. F!Report
    BY <1>1, <1>2, <2>1, <2>4, <2>5 DEF F!Report
  <2>7. ~Leftover'
    BY <1>1, <1>3, LeftoverNext
  <2>8. CASE r_req
    <3>1. ~Leftover /\ Pos \in Faults[paging_active]
      BY <1>1, <2>8, LeftoverIs
    <3> QED
      BY <2>5, <2>6, <2>7, <3>1, LeftoverNext, LeftoverIs DEF F!DeliverFault
  <2>9. CASE ~r_req
    <3>1. Leftover = TRUE /\ Leftover' = FALSE
      BY <1>1, <2>7, <2>9, LeftoverIs, LeftoverNext
    <3>2. Queue = <<>>
      BY <1>1, <1>2, <2>9, QueueShown, ShownIs DEF IInv, Handshake
    <3>3. Pos' = Pos
      BY <1>1, <1>2, <1>3, <2>9, PosIs, PosNext
    <3> QED
      BY <2>5, <2>6, <3>1, <3>2, <3>3 DEF F!DeliverLeftover
  <2> QED
    BY <2>8, <2>9
<1>4. CASE room = 0 /\ UNCHANGED <<r_page_fault, r_miss_pc, fq>>
  <2>1. fq # <<>>
    BY <1>4, QueueIs
  <2>2. r_req
    BY <1>1, <2>1 DEF IInv, Handshake
  <2>3. Pos = r_miss_pc
    BY <1>1, <2>2, PosIs
  <2>4. Pos' = r_miss_pc'
    BY <1>1, <1>2, <1>4, PosNext
  <2>5. Leftover' = Leftover
    BY <1>1, <2>2, LeftoverIs, LeftoverNext
  <2> QED
    BY <1>1, <1>2, <1>4, <2>3, <2>4, <2>5, UnseenStutters DEF Unseen
<1> QED
  BY <1>3, <1>4 DEF PageFault, FaultItem

(* The instructions pushed are a path from the address read to where the   *)
(* next lookup goes.                                                       *)
LEMMA DeliverImplements ==
  ASSUME IInv, IInv', [Next]_vars, Deliver
  PROVE  F!Deliver
<1>1. PICK n, last : Pushed(n, last)
  BY DeliverIs
<1>2. /\ FetchHit /\ UNCHANGED <<r_state, r_page_fault, waits, restart_pc>>
      /\ paging_active' = paging_active
  BY DeliverIs DEF unmoved, core
<1>3. /\ fq' \in Seq(Item) /\ Len(fq') = Len(fq) + n /\ Len(fq') <= NFQ
      /\ \A i \in 1 .. Len(fq) : fq'[i] = fq[i]
      /\ \A i \in 1 .. n : fq'[Len(fq) + i] = PushedItem(n, last, i) /\ i - 1 \in Rest
  BY <1>1, <1>2, PushIs
<1>4. /\ n \in 1 .. 4 /\ last \in PC /\ r_req' = TRUE /\ r_resteer_bubble' \in BOOLEAN
      /\ IF r_resteer_bubble' THEN r_pc' = last ELSE r_cache_pc' = last
      /\ \A i \in 1 .. n :
           Follows(Add(r_cache_pc, i - 1), IF i = n THEN last ELSE Add(r_cache_pc, i))
  BY <1>1 DEF Pushed
<1>5. In("ACTIVE") /\ ~r_page_fault /\ ~r_resteer_bubble /\ r_req /\ Running
  BY <1>2 DEF FetchHit, Fetching, Active, Running, In
<1>6. Pos = r_cache_pc /\ Pos # NoPC
  BY <1>5, PosIs
<1>7. Pos' = last /\ Pos' # NoPC
  BY <1>2, <1>4, <1>5, PosNext, L1IAssumption DEF In
<1>8. /\ Queue \in Seq(Entry) /\ Queue' \in Seq(Entry) /\ Len(Queue) = Len(fq)
      /\ Len(Queue') = Len(fq) + n /\ Len(fq) \in Nat
      /\ \A i \in 1 .. Len(fq) : Queue'[i] = Queue[i]
  <2>1. /\ Queue \in Seq(Entry) /\ Queue' \in Seq(Entry) /\ Len(Queue) = Len(fq)
        /\ Len(Queue') = Len(fq) + n /\ Len(fq) \in Nat
    BY <1>3, QueueShown, ShownIs
  <2>2. ASSUME NEW i \in 1 .. Len(fq) PROVE Queue'[i] = Queue[i]
    <3>1. Queue[i] = Shown(fq[i]) /\ i \in 1 .. Len(fq')
      BY <1>3, <1>4, <2>1, QueueShown, ShownIs
    <3>2. Queue'[i] = Shown(fq'[i])
      BY <3>1, QueueShown, ShownIs
    <3> QED
      BY <1>3, <3>1, <3>2
  <2> QED
    BY <2>1, <2>2
<1> DEFINE pushed(i) == [pc |-> Add(r_cache_pc, i - 1), fault |-> FALSE,
                         nxt |-> IF i = n THEN last ELSE Add(r_cache_pc, i)]
           items == SubSeq(Queue', Len(fq) + 1, Len(fq) + n)
<1>9. ASSUME NEW i \in 1 .. n PROVE Queue'[Len(fq) + i] = pushed(i)
  <2>1. Len(fq) + i \in 1 .. Len(fq')
    BY <1>3, <1>4, <1>8
  <2>2. Queue'[Len(fq) + i] = Shown(fq'[Len(fq) + i])
    BY <2>1, QueueShown, ShownIs
  <2>3. Shown(PushedItem(n, last, i)) = pushed(i)
    BY DEF Shown, PushedItem
  <2> QED
    BY <1>3, <2>2, <2>3
<1>10. /\ items \in Seq(Entry) /\ Len(items) = n /\ DOMAIN items = 1 .. n
       /\ \A i \in 1 .. n : items[i] = pushed(i)
  <2>1. PICK q : q = Queue' /\ q \in Seq(Entry)
    BY <1>8
  <2>2. Len(fq) \in Nat /\ n \in Nat /\ Len(fq) + n <= Len(q)
    BY <1>4, <1>8, <2>1
  <2>3. /\ items \in Seq(Entry) /\ Len(items) = n
        /\ \A i \in 1 .. n : items[i] = Queue'[Len(fq) + i]
    BY <2>1, <2>2, Part
  <2> HIDE DEF items, pushed
  <2>4. DOMAIN items = 1 .. n
    BY <2>3, LenProperties
  <2> QED
    BY <1>9, <2>3, <2>4
<1>11. SubSeq(Queue', 1, Len(Queue)) = Queue
  <2>1. PICK q : q = Queue' /\ q \in Seq(Entry)
    BY <1>8
  <2>2. 0 \in Nat /\ Len(fq) \in Nat /\ 0 + Len(fq) <= Len(q) /\ 0 + 1 = 1 /\ 0 + Len(fq) = Len(fq)
        /\ \A i \in 1 .. Len(fq) : 0 + i = i
    BY <1>4, <1>8, <2>1
  <2>3. /\ SubSeq(q, 1, Len(fq)) \in Seq(Entry) /\ Len(SubSeq(q, 1, Len(fq))) = Len(fq)
        /\ \A i \in 1 .. Len(fq) : SubSeq(q, 1, Len(fq))[i] = q[i]
    <3>1. /\ SubSeq(q, 0 + 1, 0 + Len(fq)) \in Seq(Entry)
          /\ Len(SubSeq(q, 0 + 1, 0 + Len(fq))) = Len(fq)
          /\ \A i \in 1 .. Len(fq) : SubSeq(q, 0 + 1, 0 + Len(fq))[i] = q[0 + i]
      BY <2>1, <2>2, Part
    <3> QED
      BY <2>2, <3>1
  <2>4. \A i \in 1 .. Len(fq) : SubSeq(q, 1, Len(fq))[i] = Queue[i]
    BY <1>8, <2>1, <2>3
  <2> QED
    BY <1>8, <2>1, <2>3, <2>4, SeqEqual
<1>12. F!Path(items, Pos, Pos')
  <2>0. Add(r_cache_pc, 0) = r_cache_pc /\ \A i \in 1 .. n : Add(r_cache_pc, i - 1) \in PC
    <3>1. r_cache_pc \in PC /\ Off(r_cache_pc) \in 0 .. 3
      BY <1>2, HitIs, LineOf
    <3>2. Add(r_cache_pc, 0) = r_cache_pc
      BY <3>1, SameLine, LineOf
    <3>3. ASSUME NEW i \in 1 .. n PROVE Add(r_cache_pc, i - 1) \in PC
      BY <1>2, <1>3, WordIs
    <3> QED
      BY <3>2, <3>3
  <2>1. items[1].pc = Pos
    <3>1. 1 \in 1 .. n /\ pushed(1).pc = Add(r_cache_pc, 0)
      BY <1>4
    <3> QED
      BY <1>6, <1>10, <2>0, <3>1
  <2>2. items[Len(items)].nxt = Pos'
    <3>1. n \in 1 .. n /\ pushed(n).nxt = last
      BY <1>4
    <3> QED
      BY <1>7, <1>10, <3>1
  <2>3. ASSUME NEW i \in 1 .. n
        PROVE  /\ ~pushed(i).fault /\ pushed(i).nxt \in Succ[paging_active][pushed(i).pc]
               /\ i > 1 => pushed(i).pc = pushed(i - 1).nxt
    <3>1. Follows(pushed(i).pc, pushed(i).nxt) /\ pushed(i).pc \in PC
      BY <1>4, <2>0
    <3>2. paging_active \in BOOLEAN
      BY DEF IInv, TypeOK
    <3>3. Succ[paging_active][pushed(i).pc] = MayFollow(paging_active, pushed(i).pc)
      BY <3>1, <3>2 DEF Succ
    <3>4. i > 1 => pushed(i).pc = pushed(i - 1).nxt
      <4>1. i - 1 # n /\ i \in Int
        BY <1>4
      <4> QED
        BY <4>1
    <3> QED
      BY <3>1, <3>3, <3>4 DEF Follows
  <2> HIDE DEF pushed, items
  <2>4. ASSUME NEW i \in DOMAIN items
        PROVE  /\ ~items[i].fault /\ items[i].nxt \in Succ[paging_active][items[i].pc]
               /\ i > 1 => items[i].pc = items[i - 1].nxt
    <3>1. i \in 1 .. n /\ (i > 1 => i - 1 \in 1 .. n)
      BY <1>4, <1>10
    <3> QED
      BY <1>10, <2>3, <3>1
  <2> QED
    BY <2>1, <2>2, <2>4 DEF F!Path
<1> HIDE DEF pushed
<1>13. items = SubSeq(Queue', Len(Queue) + 1, Len(Queue'))
  BY <1>8
<1> HIDE DEF items
<1>14. Len(Queue') \in Len(Queue) + 1 .. NFQ
  BY <1>3, <1>4, <1>8, QueueShown
<1>15. Leftover = FALSE /\ Leftover' = FALSE
  BY <1>2, <1>4, <1>5, LeftoverIs, LeftoverNext DEF In
<1> QED
  BY <1>2, <1>6, <1>7, <1>11, <1>12, <1>13, <1>14, <1>15 DEF F!Deliver

LEMMA TakeImplements ==
  ASSUME IInv, IInv', [Next]_vars, Take
  PROVE  F!Take
<1>1. PICK n \in 1 .. 2 : n <= Len(fq) /\ fq' = SubSeq(fq, n + 1, Len(fq))
  BY DEF Take
<1>2. fq # <<>> /\ UNCHANGED <<frontend, waits, restart_pc>>
  BY DEF Take, core
<1>3. /\ Queue \in Seq(Entry) /\ Queue' \in Seq(Entry) /\ Len(Queue) = Len(fq)
      /\ Len(Queue') = Len(fq') /\ Len(fq) \in Nat /\ fq' \in Seq(Item)
      /\ paging_active' = paging_active
  BY QueueShown, ShownIs
<1>4. Len(fq') = Len(fq) - n /\ \A i \in 1 .. Len(fq) - n : fq'[i] = fq[n + i]
  <2>1. fq \in Seq(Item) /\ n <= Len(fq)
    BY <1>1, QueueIs
  <2> QED
    BY <1>1, <2>1, Suffix
<1>5. \A i \in 1 .. Len(fq) - n : Queue'[i] = Queue[n + i]
  <2>1. ASSUME NEW i \in 1 .. Len(fq) - n PROVE Queue'[i] = Queue[n + i]
    <3>1. i \in 1 .. Len(fq') /\ n + i \in 1 .. Len(fq)
      BY <1>1, <1>3, <1>4
    <3>2. Queue'[i] = Shown(fq'[i]) /\ Queue[n + i] = Shown(fq[n + i])
      BY <3>1, QueueShown, ShownIs
    <3> QED
      BY <1>4, <3>2
  <2> QED
    BY <2>1
<1>6. Queue' = SubSeq(Queue, n + 1, Len(Queue))
  <2>1. PICK q : q = SubSeq(Queue, n + 1, Len(Queue))
    OBVIOUS
  <2>2. /\ q \in Seq(Entry) /\ Len(q) = Len(Queue) - n
        /\ \A i \in 1 .. Len(Queue) - n : q[i] = Queue[n + i]
    BY <1>1, <1>3, <2>1, Suffix
  <2>3. Len(Queue') = Len(q) /\ \A i \in 1 .. Len(Queue') : Queue'[i] = q[i]
    BY <1>3, <1>4, <1>5, <2>2
  <2> QED
    BY <1>3, <2>1, <2>2, <2>3, SeqEqual
<1>7. Queue # <<>>
  <2>1. Len(Queue) # 0
    BY <1>2, <1>3, QueueIs
  <2> QED
    BY <1>3, <2>1, EmptySeq
<1>8. Pos' = Pos /\ Leftover' = Leftover
  BY <1>2 DEF frontend, addresses, Pos, Leftover, In
<1> QED
  BY <1>1, <1>2, <1>3, <1>6, <1>7, <1>8 DEF F!Take

(* A step within the front end leaves the path where it is.                *)
LEMMA InsideStutters ==
  ASSUME IInv, IInv', [Next]_vars,
         \/ Initialize \/ StartPath \/ TlbMiss \/ CacheMiss \/ QueueFull \/ TurnAround
         \/ NotFull \/ WalkTurnAround \/ ZeroPageWalk \/ Reloaded \/ WalkEnds
  PROVE  UNCHANGED F!vars
<1>0. NoPC \notin PC /\ paging_active' = paging_active
  BY L1IAssumption, QueueCases
<1>1. UNCHANGED <<fq, waits, restart_pc>>
  BY DEF Initialize, StartPath, TlbMiss, CacheMiss, QueueFull, Leave, TurnAround, NotFull,
     WalkTurnAround, ZeroPageWalk, Reloaded, WalkEnds, Wait, unmoved, core
<1>2. Pos' = Pos
  <2>1. CASE Initialize
    <3>1. ~Running /\ (~Running)'
      BY <2>1 DEF Initialize, Running, In
    <3> QED
      BY <1>0, <3>1, PosIs, PosNext
  <2>2. CASE StartPath
    <3>1. /\ In("ACTIVE") /\ r_state' = "ACTIVE" /\ ~r_resteer_bubble' /\ r_req'
          /\ r_cache_pc' = r_pc /\ r_page_fault' = r_page_fault
          /\ r_resteer_bubble \/ (~r_page_fault /\ ~r_req)
      BY <2>2 DEF StartPath, Active, ReadNext, Lookup, In
    <3>2. ~r_page_fault
      BY <3>1 DEF IInv, Lookups
    <3> QED
      BY <1>0, <3>1, <3>2, PosIs, PosNext
  <2>3. CASE TlbMiss \/ CacheMiss \/ QueueFull
    <3>1. /\ In("ACTIVE") /\ ~r_page_fault /\ ~r_resteer_bubble /\ r_req
          /\ r_miss_pc' = r_cache_pc
          /\ r_state' \in {"ZERO_PAGE_TLB_MISS", "TLB_MISS", "INJECT_RELOAD",
                           "WAIT_FOR_NOT_FULL"}
      BY <2>3 DEF TlbMiss, CacheMiss, QueueFull, FetchHit, Fetching, Active, Leave
    <3>2. Running' /\ r_state' # "ACTIVE"
      BY <3>1 DEF Running
    <3> QED
      BY <1>0, <3>1, <3>2, PosIs, PosNext
  <2>4. CASE TurnAround \/ NotFull \/ WalkTurnAround
    <3>1. /\ Running /\ ~In("ACTIVE") /\ r_state' = "ACTIVE" /\ r_req' /\ r_cache_pc' = r_miss_pc
          /\ r_page_fault' = r_page_fault /\ r_resteer_bubble' = r_resteer_bubble
          /\ (r_page_fault => r_miss_pc' = r_miss_pc)
      BY <2>4 DEF TurnAround, NotFull, WalkTurnAround, Wait, ReadAgain, Lookup, Running, In
    <3>2. ~r_resteer_bubble
      BY <3>1 DEF IInv, Lookups
    <3> QED
      BY <1>0, <3>1, <3>2, PosIs, PosNext
  <2>5. CASE ZeroPageWalk \/ Reloaded \/ WalkEnds
    <3>1. /\ Running /\ ~In("ACTIVE") /\ Running' /\ r_state' # "ACTIVE"
          /\ r_miss_pc' = r_miss_pc
      BY <2>5 DEF ZeroPageWalk, Reloaded, WalkEnds, Wait, unread, Running, In
    <3> QED
      BY <1>0, <3>1, PosIs, PosNext
  <2> QED
    BY <2>1, <2>2, <2>3, <2>4, <2>5
<1>3. Leftover' = Leftover
  <2>1. CASE Initialize
    <3>1. ~r_page_fault /\ r_page_fault' = r_page_fault
      BY <2>1 DEF Initialize, IInv, Faulty, In
    <3> QED
      BY <3>1 DEF Leftover
  <2>2. CASE StartPath \/ TlbMiss \/ CacheMiss \/ QueueFull
    <3>1. ~r_page_fault /\ r_page_fault' = r_page_fault
      BY <2>2 DEF StartPath, TlbMiss, CacheMiss, QueueFull, FetchHit, Fetching, Active, Leave,
         IInv, Lookups
    <3> QED
      BY <3>1 DEF Leftover
  <2>3. CASE TurnAround \/ NotFull \/ WalkTurnAround
    <3>1. Running /\ ~In("ACTIVE") /\ r_state' = "ACTIVE" /\ r_req'
      BY <2>3 DEF TurnAround, NotFull, WalkTurnAround, Wait, ReadAgain, Lookup, Running, In
    <3> QED
      BY <3>1, LeftoverIs, LeftoverNext
  <2>4. CASE ZeroPageWalk \/ Reloaded \/ WalkEnds
    <3>1. Running /\ ~In("ACTIVE") /\ Running' /\ r_state' # "ACTIVE"
      BY <2>4 DEF ZeroPageWalk, Reloaded, WalkEnds, Wait, Running, In
    <3> QED
      BY <3>1, LeftoverIs, LeftoverNext
  <2> QED
    BY <2>1, <2>2, <2>3, <2>4
<1> QED
  BY <1>0, <1>1, <1>2, <1>3, UnseenStutters DEF Unseen

LEMMA AskImplements ==
  ASSUME IInv, IInv', [Next]_vars, AskRestart \/ AskFlush \/ ClearTlb \/ UNCHANGED vars
  PROVE  [F!AskRestart \/ F!AskFlush]_(F!vars)
<1>1. Pos' = Pos /\ Leftover' = Leftover /\ fq' = fq /\ paging_active' = paging_active
  <2>1. UNCHANGED <<r_state, addresses, r_page_fault, fq, paging_active>>
    <3>1. CASE AskRestart \/ AskFlush \/ ClearTlb
      BY <3>1 DEF AskRestart, AskFlush, ClearTlb, frontend
    <3>2. CASE UNCHANGED vars
      BY <3>2 DEF vars
    <3> QED
      BY <3>1, <3>2
  <2> QED
    BY <2>1 DEF addresses, Pos, Leftover, In
<1>2. Queue' = Queue
  BY <1>1, QueueShown
<1>3. CASE AskRestart
  BY <1>1, <1>2, <1>3, L1IAssumption DEF AskRestart, F!AskRestart
<1>4. CASE AskFlush
  BY <1>1, <1>2, <1>4 DEF AskFlush, F!AskFlush
<1>5. CASE ClearTlb \/ UNCHANGED vars
  BY <1>1, <1>2, <1>5 DEF ClearTlb, vars, core, F!vars
<1> QED
  BY <1>3, <1>4, <1>5

LEMMA StepImplements == IInv /\ IInv' /\ [Next]_vars => [F!Next]_(F!vars)
<1> SUFFICES ASSUME IInv, IInv', [Next]_vars PROVE [F!Next]_(F!vars)
  OBVIOUS
<1>1. CASE RestartIdle \/ RestartRunning \/ RestartZeroPage
  BY <1>1, RestartImplements DEF F!Next
<1>2. CASE StartFlush
  BY <1>2, FlushImplements DEF F!Next
<1>3. CASE FlushSet
  BY <1>3, SetImplements DEF F!Next
<1>4. CASE PageFault
  BY <1>4, PageFaultImplements DEF F!Next
<1>5. CASE Deliver
  BY <1>5, DeliverImplements DEF F!Next
<1>6. CASE Take
  BY <1>6, TakeImplements DEF F!Next
<1>7. CASE AskRestart \/ AskFlush \/ ClearTlb \/ UNCHANGED vars
  BY <1>7, AskImplements DEF F!Next
<1>8. CASE \/ Initialize \/ StartPath \/ TlbMiss \/ CacheMiss \/ QueueFull \/ TurnAround
           \/ NotFull \/ WalkTurnAround \/ ZeroPageWalk \/ Reloaded \/ WalkEnds
  BY <1>8, InsideStutters
<1> QED
  BY <1>1, <1>2, <1>3, <1>4, <1>5, <1>6, <1>7, <1>8 DEF Next, Clock

LEMMA InitImplements == Init => F!Init
<1> SUFFICES ASSUME Init PROVE F!Init
  OBVIOUS
<1>1. Queue = <<>>
  <2>1. fq = <<>> /\ <<>> \in Seq(Item) /\ Queue = ShownAll(fq)
    BY EmptySeq DEF Init, Queue, ShownAll, Shown
  <2> QED
    BY <2>1, ShownIs
<1>2. Pos = NoPC /\ Leftover = FALSE
  BY DEF Init, Pos, Leftover, In
<1> QED
  BY <1>1, <1>2, Small DEF Init, F!Init

(* The front end delivers one predicted path: through every miss, fill,    *)
(* walk, fault, full queue, flush and restart the core sees Fetch.  It     *)
(* faults only where no page is, but for the fault a flush left behind.    *)
THEOREM IsFetch == Spec => Implements
  BY Invariance, InitImplements, StepImplements, PTL DEF Spec, Implements, F!Spec
=============================================================================

--------------------------- MODULE UserMemoryProofs ---------------------------
(***************************************************************************)
(* Proofs about UserMemory for any number and size of pages, registers and *)
(* frames, and any calls the kernel may make.                              *)
(*                                                                         *)
(* The invariant says where the bytes of a page are at every moment of a   *)
(* change of the mapping, in a frame that is the process's and no other    *)
(* page's; and that the TLB, stale as it may be, leads to that frame and   *)
(* permits no more than what the change has not yet taken away.            *)
(***************************************************************************)
EXTENDS UserMemory, NumberTheorems, TLAPS

Prots == {"none", "r", "rw"}
Owners == {"process", "child", "other"}
PageData == [0 .. PageSize - 1 -> Int]
FrameType == [owners : SUBSET Owners, data : PageData]
Entry == [write : BOOLEAN, frame : 0 .. NFrames]

Types ==
  /\ call \in [fn : Routines, dst : Nat, src : Nat, n : Nat]
  /\ pc \in {"new", "load", "store", "trap", "idle"} /\ at \in {"load", "store"}
  /\ done \in Nat /\ reg \in Seq(Int) /\ res \in Int /\ pum \in BOOLEAN
  /\ kmem \in [0 .. KSize - 1 -> Int]
  /\ vma \in [Pages -> Prots]
  /\ pte \in [Pages -> Pte]
  /\ tlb \in [Pages -> Entry]
  /\ mm \in {"process", "other"}
  /\ frames \in [Frames -> FrameType]
  /\ op \in [kind : {"none", "migrate", "protect", "unmap", "fork"}, page : Pages,
             frame : 0 .. NFrames, prot : Prots, write : BOOLEAN, flushed : BOOLEAN]
  /\ budget \in Nat

(* Where the loop is. *)
Busy == pc \in {"load", "store", "trap"}
OfUser == call.fn \in UserStores \cup UserLoads

LoopInv ==
  /\ pum <=> ~(Busy /\ OfUser)
  /\ pc # "new" => call \in Calls
  /\ Busy =>
       /\ call.fn \in UserStores => call.dst + call.n <= TASK_SIZE
       /\ call.fn \in UserLoads => call.src + call.n <= TASK_SIZE
       /\ done <= call.n
       /\ IF Where = "load" THEN reg = <<>> ELSE left > 0 /\ Len(reg) = step
  /\ pc = "trap" => /\ left > 0
                    /\ IF at = "load" THEN call.fn \in UserLoads ELSE call.fn \in UserStores

(* Once the loop moves whole registers, it is at a register's boundary. *)
AlignInv ==
  Busy =>
    /\ call.fn \in {"copy_to_user", "copy_from_user"}
         => ((call.dst - call.src) % SZREG = 0 /\ Between(src, call.src) => src % SZREG = 0)
    /\ call.fn = "clear_user" => (Between(dst, call.dst) => dst % SZREG = 0)
    /\ call.fn \in {"get_user", "put_user"} => done % get_put_step = 0

(* Every page has a frame of its own, or none. *)
OwnInv ==
  \A p \in Pages :
    FrameOf(p) # 0 =>
      /\ "process" \in frames[FrameOf(p)].owners
      /\ \A q \in Pages \ {p} : FrameOf(q) # FrameOf(p)

PteInv ==
  \A p \in Pages :
    /\ pte_present(pte[p]) =>
         /\ pte[p].num # 0 /\ vma[p] # "none"
         /\ pte_write(pte[p]) => vma[p] = "rw" /\ "child" \notin frames[pte[p].num].owners
    /\ ~pte_present(pte[p]) => pte[p].flags = {}

(* What a change under way may rely on. *)
OpInv ==
  /\ op.kind \in {"migrate", "unmap"} =>
       /\ ~pte_present(pte[op.page])
       /\ op.frame # 0 => /\ "process" \in frames[op.frame].owners
                          /\ \A q \in Pages \ {op.page} : FrameOf(q) # op.frame
                          /\ op.prot # "none"
       /\ op.write => op.frame # 0 /\ op.prot = "rw" /\ "child" \notin frames[op.frame].owners
  /\ op.kind = "migrate" =>
       /\ op.frame # 0 /\ frames[op.frame].owners = {"process"}
       /\ vma[op.page] = op.prot
       /\ op.flushed /\ mm = "process" => tlb[op.page].frame = 0
  /\ op.kind = "unmap" => vma[op.page] = "none"
  /\ op.kind = "protect" =>
       /\ vma[op.page] # "none" /\ op.prot # "none"
       /\ ~pte_write(pte[op.page])
       /\ op.write => /\ op.prot = "rw" /\ pte_present(pte[op.page])
                      /\ "child" \notin frames[pte[op.page].num].owners

(* The TLB. *)
TlbInv ==
  mm = "process" =>
    \A p \in Pages :
      IF tlb[p].frame = 0 THEN tlb[p] = NoEntry
      ELSE /\ tlb[p].frame = FrameOf(p)
           /\ prots[p] # "none"
           /\ tlb[p].write =>
                /\ prots[p] = "rw"
                /\ "child" \in frames[FrameOf(p)].owners => op.kind = "fork" /\ ~op.flushed

MapInv == OwnInv /\ PteInv /\ OpInv /\ TlbInv

IInv == Types /\ LoopInv /\ AlignInv /\ MapInv

-----------------------------------------------------------------------------
(* What starts at a multiple of m and is no longer does not reach beyond   *)
(* the next multiple of m, and so none of a multiple n of m.               *)
LEMMA NoCrossing ==
  ASSUME NEW m \in Nat \ {0}, NEW n \in Nat \ {0}, NEW a \in Int, n % m = 0, a % m = 0
  PROVE  (a % n) + m <= n
  <1> DEFINE r == a % n
  <1>1. r \in 0 .. n - 1 /\ a \div n \in Int /\ a = n * (a \div n) + r BY DivMod
  <1>2. r % m = 0
    <2> DEFINE q == a \div n
               b == n * q
    <2>1. q \in Int /\ b \in Int /\ b = n * q /\ a = b + r BY <1>1
    <2> HIDE DEF q, b
    <2>2. b % n = 0 BY <2>1, Multiple
    <2>3. b % m = 0 BY <2>1, <2>2, MultipleTrans
    <2>4. r \in Int BY <1>1
    <2> HIDE DEF r
    <2>5. (b + r) % m = r % m BY <2>1, <2>3, <2>4, MultipleSum
    <2> QED BY <2>1, <2>5
  <1> HIDE DEF r
  <1>3. PICK j \in Int : n = m * j BY Multiple
  <1>4. PICK k \in Int : r = m * k
    <2>1. r \in Int BY <1>1
    <2> QED BY <1>2, <2>1, Multiple
  <1>5. k < j
    <2>1. r < n /\ r \in Int BY <1>1
    <2>2. CASE j = k BY <1>3, <1>4, <2>1, <2>2
    <2>3. CASE j < k
      <3>1. m * j + m <= m * k BY <2>3, MulMono
      <3> QED BY <1>3, <1>4, <2>1, <3>1
    <2> QED BY <2>2, <2>3
  <1>6. m * k + m <= m * j BY <1>5, MulMono
  <1> QED BY <1>3, <1>4, <1>6 DEF r

-----------------------------------------------------------------------------
(* Pages. *)
LEMMA Constants ==
  /\ NPages \in Nat \ {0} /\ PageSize \in Nat \ {0} /\ SZREG \in Nat \ {0}
  /\ DUFF \in Nat \ {0} /\ BLOCK \in Nat \ {0} /\ KSize \in Nat \ {0}
  /\ NFrames \in Nat \ {0} /\ NPages < NFrames
  /\ PageSize % SZREG = 0
  /\ TASK_SIZE = PageSize * NPages /\ TASK_SIZE \in Nat
  BY UserMemoryAssumption DEF TASK_SIZE

LEMMA PageOf ==
  ASSUME NEW a \in Nat, a < TASK_SIZE
  PROVE  /\ Page(a) \in Pages /\ a % PageSize \in 0 .. PageSize - 1
         /\ a = PageSize * Page(a) + (a % PageSize)
  <1> DEFINE q == a \div PageSize
             r == a % PageSize
  <1>1. q \in Int /\ r \in 0 .. PageSize - 1 /\ a = PageSize * q + r BY Constants, DivMod
  <1> HIDE DEF q, r
  <1>2. q >= 0
    <2>1. SUFFICES ASSUME q < 0 PROVE FALSE BY <1>1
    <2>2. PageSize * q + PageSize <= PageSize * 0 BY <1>1, <2>1, Constants, MulMono
    <2> QED BY <1>1, <2>2, Constants
  <1>3. q < NPages
    <2>1. CASE q = NPages BY <1>1, <2>1, Constants
    <2>2. CASE NPages < q
      <3>1. PageSize * NPages + PageSize <= PageSize * q BY <1>1, <2>2, Constants, MulMono
      <3>2. PageSize * NPages \in Int /\ PageSize * q \in Int BY <1>1, Constants
      <3> QED BY <1>1, <3>1, <3>2, Constants
    <2> QED BY <1>1, <2>1, <2>2, Constants
  <1> QED BY <1>1, <1>2, <1>3, Constants DEF q, r, Page, Pages

LEMMA WithinPage ==
  ASSUME NEW a \in Nat, NEW i \in Nat, (a % PageSize) + i < PageSize
  PROVE  Page(a + i) = Page(a) /\ (a + i) % PageSize = (a % PageSize) + i
  <1> DEFINE q == a \div PageSize
             r == a % PageSize
  <1>1. q \in Int /\ r \in 0 .. PageSize - 1 /\ a = PageSize * q + r BY Constants, DivMod
  <1>2. r + i \in 0 .. PageSize - 1 BY <1>1, Constants
  <1> HIDE DEF q, r
  <1>3. (PageSize * q + (r + i)) \div PageSize = q /\ (PageSize * q + (r + i)) % PageSize = r + i
    BY <1>1, <1>2, Constants, DivUnique
  <1>4. PageSize * q \in Int BY <1>1, Constants
  <1>5. a + i = PageSize * q + (r + i) BY <1>1, <1>4
  <1> QED BY <1>3, <1>5 DEF q, r, Page

(* Address r of page p. *)
LEMMA AddressOf ==
  ASSUME NEW p \in Pages, NEW r \in 0 .. PageSize - 1
  PROVE  /\ p * PageSize + r \in 0 .. TASK_SIZE - 1
         /\ Page(p * PageSize + r) = p /\ (p * PageSize + r) % PageSize = r
  <1>1. p * PageSize = PageSize * p /\ PageSize * p \in Nat BY Constants DEF Pages
  <1>2. PageSize * p + PageSize <= PageSize * NPages BY Constants, MulMono DEF Pages
  <1>3. (PageSize * p + r) \div PageSize = p /\ (PageSize * p + r) % PageSize = r
    BY Constants, DivUnique DEF Pages
  <1> QED BY <1>1, <1>2, <1>3, Constants DEF Page

(* The helpers flush the page they are called for, and no other. *)
LEMMA FlushPage ==
  ASSUME NEW p \in Pages, NEW T, tlb \in [Pages -> T]
  PROVE  /\ flush_tlb_page(p * PageSize) = [tlb EXCEPT ![p] = NoEntry]
         /\ flush_tlb_range(p * PageSize, (p + 1) * PageSize) = [tlb EXCEPT ![p] = NoEntry]
  <1> DEFINE b == p * PageSize
  <1>1. b \in Nat /\ (p + 1) * PageSize = b + PageSize
    <2>1. (p + 1) * PageSize = p * PageSize + PageSize BY Constants DEF Pages
    <2> QED BY <2>1, Constants DEF Pages
  <1>2. Page(b) = p
    <2>1. 0 \in 0 .. PageSize - 1 BY Constants
    <2>2. Page(p * PageSize + 0) = p BY <2>1, AddressOf
    <2> QED BY <1>1, <2>2
  <1>3. ASSUME NEW a \in b .. b + PageSize - 1 PROVE Page(a) = p
    <2>1. a - b \in 0 .. PageSize - 1 BY <1>1, Constants
    <2>2. Page(p * PageSize + (a - b)) = p BY <2>1, AddressOf
    <2>3. p * PageSize + (a - b) = a BY <1>1, <2>1
    <2> QED BY <2>2, <2>3
  <1> HIDE DEF b
  <1>4. \A q \in Pages : (\E a \in b .. b + PageSize - 1 : Page(a) = q) <=> q = p
    <2>1. b \in b .. b + PageSize - 1 BY <1>1, Constants
    <2> QED BY <1>2, <1>3, <2>1
  <1>5. \A q \in Pages : (\E a \in b .. b : Page(a) = q) <=> q = p
    BY <1>1, <1>2
  <1>6. b + ((b + 1) - b) - 1 = b /\ b + ((b + PageSize) - b) - 1 = b + PageSize - 1
    BY <1>1, Constants
  <1>7. flush_tlb_page(b) = [tlb EXCEPT ![p] = NoEntry]
    BY <1>5, <1>6 DEF flush_tlb_page, flush_tlb_range, sbi_remote_sfence_vm_range
  <1>8. flush_tlb_range(b, b + PageSize) = [tlb EXCEPT ![p] = NoEntry]
    BY <1>4, <1>6 DEF flush_tlb_range, sbi_remote_sfence_vm_range
  <1> QED BY <1>1, <1>7, <1>8 DEF b

-----------------------------------------------------------------------------
(* The loops. *)
LEMMA CallTypes ==
  ASSUME Types
  PROVE  /\ call.fn \in Routines /\ call.dst \in Nat /\ call.src \in Nat /\ call.n \in Nat
         /\ done \in Nat /\ dst \in Nat /\ src \in Nat /\ left \in Int
  BY DEF Types, dst, src, left

(* The loop over whole registers of __copy_user and __clear_user starts    *)
(* at a multiple of SZREG and does not go beyond the end.                  *)
LEMMA RegisterLoop ==
  ASSUME call.n \in Nat, NEW first \in Nat, NEW a \in Nat
  PROVE  /\ a % SZREG = 0 /\ Between(a, first) => a + SZREG <= first + call.n
         /\ Between(a + 1, first) /\ ~Between(a, first) => (a + 1) % SZREG = 0
         /\ Between(first, first) => first % SZREG = 0
         /\ a % SZREG = 0 => (a + SZREG) % SZREG = 0
  <1> DEFINE q0 == (first + SZREG - 1) \div SZREG
             q1 == (first + call.n) \div SZREG
             t0 == q0 * SZREG
             t1 == q1 * SZREG
             e == first + call.n
  <1>1. q0 \in Int /\ t0 \in Int /\ t0 >= first /\ t0 <= first + SZREG - 1 /\ t0 % SZREG = 0
    <2> DEFINE b == first + SZREG - 1
    <2>1. b \in Int BY Constants
    <2>2. b \div SZREG \in Int /\ b % SZREG \in 0 .. SZREG - 1 /\ b = SZREG * (b \div SZREG) + (b % SZREG)
      BY <2>1, Constants, DivMod
    <2> DEFINE r == b % SZREG
    <2>3. q0 \in Int /\ r \in 0 .. SZREG - 1 /\ b = SZREG * q0 + r BY <2>2
    <2> HIDE DEF r, q0
    <2>4. t0 = SZREG * q0 /\ t0 \in Int BY <2>3, Constants
    <2>5. t0 % SZREG = 0 BY <2>3, <2>4, Constants, Multiple
    <2> QED BY <2>3, <2>4, <2>5, Constants
  <1>2. q1 \in Int /\ t1 \in Int /\ t1 = SZREG * q1 /\ t1 <= e
    <2>1. e \in Int BY Constants
    <2>2. e \div SZREG \in Int /\ e % SZREG \in 0 .. SZREG - 1 /\ e = SZREG * (e \div SZREG) + (e % SZREG)
      BY <2>1, Constants, DivMod
    <2> DEFINE r == e % SZREG
    <2>3. q1 \in Int /\ r \in 0 .. SZREG - 1 /\ e = SZREG * q1 + r BY <2>2
    <2> HIDE DEF r, q1
    <2>4. t1 = SZREG * q1 /\ t1 \in Int BY <2>3, Constants
    <2> HIDE DEF e
    <2> QED BY <2>3, <2>4, Constants
  <1>3. \A b : Between(b, first) <=> b >= t0 /\ b < t1
    BY DEF Between
  <1> HIDE DEF q0, q1, t0, t1
  <1>4. ASSUME a % SZREG = 0, Between(a, first) PROVE a + SZREG <= first + call.n
    <2>1. PICK k \in Int : a = SZREG * k BY <1>4, Constants, Multiple
    <2>2. SZREG * k < SZREG * q1 BY <1>2, <1>3, <1>4, <2>1
    <2>3. k < q1
      <3>1. CASE k = q1 BY <1>2, <2>2, <3>1, Constants
      <3>2. CASE q1 < k
        <4>1. SZREG * q1 + SZREG <= SZREG * k BY <1>2, <3>2, Constants, MulMono
        <4> QED BY <1>2, <2>1, <2>2, <4>1, Constants
      <3> QED BY <1>2, <3>1, <3>2
    <2>4. SZREG * k + SZREG <= SZREG * q1 BY <1>2, <2>3, Constants, MulMono
    <2> QED BY <1>2, <2>1, <2>4, Constants
  <1>5. ASSUME Between(a + 1, first), ~Between(a, first) PROVE (a + 1) % SZREG = 0
    <2>1. a + 1 = t0 BY <1>1, <1>2, <1>3, <1>5
    <2> QED BY <1>1, <2>1
  <1>6. ASSUME Between(first, first) PROVE first % SZREG = 0
    <2>1. first = t0 BY <1>1, <1>3, <1>6
    <2> QED BY <1>1, <2>1
  <1>7. ASSUME a % SZREG = 0 PROVE (a + SZREG) % SZREG = 0
    <2>1. a \in Int /\ SZREG \in Nat \ {0} BY Constants
    <2> QED BY <1>7, <2>1, MultipleNext
  <1> QED BY <1>4, <1>5, <1>6, <1>7

(* get_user, put_user: one access, or two, none of them beyond a page. *)
LEMMA VariableStep ==
  ASSUME Types, LoopInv, AlignInv, Busy, left > 0, call.fn \in {"get_user", "put_user"}
  PROVE  /\ get_put_step \in 1 .. left
         /\ ((IF call.fn = "get_user" THEN src ELSE dst) % PageSize) + get_put_step <= PageSize
         /\ (done + get_put_step) % get_put_step = 0
  <1> DEFINE w == get_put_step
             first == IF call.fn = "get_user" THEN call.src ELSE call.dst
             n == call.n
             d == done
  <1>1. /\ n \in Int /\ d \in Int /\ first \in Nat /\ first + d \in Nat /\ d \in Nat
        /\ n > 0 /\ left = n - d /\ d < n
        /\ w = IF n > SZREG THEN SZREG ELSE n
        /\ (IF call.fn = "get_user" THEN src ELSE dst) = first + d
    BY CallTypes DEF left, get_put_step, dst, src
  <1>2. n % w = 0 /\ SZREG % w = 0 /\ first % w = 0
    BY CallsAssumption DEF LoopInv, Busy, Variable, get_put_step
  <1>3. d % w = 0
    BY DEF AlignInv
  <1> HIDE DEF w, first, n, d
  <1>4. w \in Nat \ {0} BY <1>1, Constants
  <1>5. PICK j \in Int : n = w * j BY <1>1, <1>2, <1>4, Multiple
  <1>6. PICK k \in Int : d = w * k BY <1>1, <1>3, <1>4, Multiple
  <1>7. k < j
    <2>1. w * k < w * j /\ w * k \in Int /\ w * j \in Int BY <1>1, <1>5, <1>6
    <2>2. CASE k = j BY <2>1, <2>2
    <2>3. CASE j < k
      <3>1. w * j + w <= w * k BY <1>4, <2>3, MulMono
      <3> QED BY <1>4, <2>1, <3>1
    <2> QED BY <2>2, <2>3
  <1>8. w * k + w <= w * j BY <1>4, <1>7, MulMono
  <1>9. w \in 1 .. n - d
    <2>1. d + w <= n BY <1>5, <1>6, <1>8
    <2> QED BY <1>1, <1>4, <2>1
  <1>10. (first + d) % w = 0
    <2>1. first \in Int BY <1>1
    <2>2. (first + d) % w = d % w BY <1>1, <1>2, <1>4, <2>1, MultipleSum
    <2> QED BY <1>3, <2>2
  <1>11. PageSize % w = 0
    <2>1. PageSize \in Int BY Constants
    <2> QED BY <1>2, <1>4, <2>1, Constants, MultipleTrans
  <1>12. ((first + d) % PageSize) + w <= PageSize
    <2>1. first + d \in Int BY <1>1
    <2> QED BY <1>4, <1>10, <1>11, <2>1, Constants, NoCrossing
  <1>13. (d + w) % w = 0 BY <1>1, <1>3, <1>4, MultipleNext
  <1> QED BY <1>1, <1>9, <1>12, <1>13 DEF w, d

(* memset: an iteration stores no more words than are left. *)
LEMMA MemsetStep ==
  ASSUME left \in Nat, left > 0
  PROVE  memset_step \in 1 .. left
  <1> DEFINE words == left \div SZREG
             x == IF words % DUFF = 0 THEN DUFF ELSE words % DUFF
             r == left % SZREG
             l == left
  <1>1. memset_step = 1 \/ (memset_step = SZREG * x /\ words # 0)
    BY DEF memset_step
  <1>2. words \in Int /\ r \in 0 .. SZREG - 1 /\ l = SZREG * words + r /\ l \in Nat /\ l > 0
    BY Constants, DivMod
  <1>3. SUFFICES ASSUME memset_step = SZREG * x, words # 0 PROVE memset_step \in 1 .. left
    BY <1>1
  <1> HIDE DEF words, r, l
  <1>4. words > 0
    <2>1. SUFFICES ASSUME words < 0 PROVE FALSE BY <1>2, <1>3
    <2>2. SZREG * words + SZREG <= SZREG * 0 BY <1>2, <2>1, Constants, MulMono
    <2> QED BY <1>2, <2>2, Constants
  <1>5. x \in Nat \ {0} /\ x <= words
    <2> DEFINE k == words \div DUFF
               s == words % DUFF
    <2>1. k \in Int /\ s \in 0 .. DUFF - 1 /\ words = DUFF * k + s BY <1>2, Constants, DivMod
    <2>2. x = IF s = 0 THEN DUFF ELSE s OBVIOUS
    <2> HIDE DEF k, s, x
    <2>3. k >= 0
      <3>1. SUFFICES ASSUME k < 0 PROVE FALSE BY <2>1
      <3>2. DUFF * k + DUFF <= DUFF * 0 BY <2>1, <3>1, Constants, MulMono
      <3> QED BY <1>2, <1>4, <2>1, <3>2, Constants
    <2>4. CASE k = 0 BY <1>2, <1>4, <2>1, <2>2, <2>4, Constants
    <2>5. CASE k > 0
      <3>1. DUFF * 0 + DUFF <= DUFF * k BY <2>1, <2>5, Constants, MulMono
      <3> QED BY <1>2, <1>4, <2>1, <2>2, <3>1, Constants
    <2> QED BY <2>1, <2>3, <2>4, <2>5
  <1> HIDE DEF x
  <1>6. SZREG * x <= SZREG * words /\ SZREG * x \in Nat /\ SZREG * words \in Int
    <2>1. CASE x = words BY <1>2, <1>5, <2>1, Constants
    <2>2. CASE x < words
      <3>1. SZREG * x + SZREG <= SZREG * words BY <1>2, <1>5, <2>2, Constants, MulMono
      <3> QED BY <1>2, <1>5, <3>1, Constants
    <2> QED BY <1>2, <1>5, <2>1, <2>2
  <1>7. SZREG * x >= 1
    <2>1. SZREG * 0 + SZREG <= SZREG * x BY <1>5, Constants, MulMono
    <2> QED BY <2>1, <1>6, Constants
  <1>8. SZREG * x <= l BY <1>2, <1>6
  <1> QED BY <1>2, <1>3, <1>6, <1>7, <1>8 DEF l

(* An iteration moves something, not beyond the end of the call, and in    *)
(* user memory within a page.                                              *)
UserAt == IF call.fn \in UserLoads THEN src ELSE dst

LEMMA StepBounds ==
  ASSUME Types, LoopInv, AlignInv, Busy, left > 0
  PROVE  /\ step \in 1 .. left
         /\ OfUser => (UserAt % PageSize) + step <= PageSize
  <1>1. /\ call.fn \in Routines /\ call.dst \in Nat /\ call.src \in Nat /\ call.n \in Nat
        /\ done \in Nat /\ dst \in Nat /\ src \in Nat /\ left \in Int /\ left \in Nat
    BY CallTypes
  <1>2. ASSUME NEW a \in Nat PROVE (a % PageSize) + 1 <= PageSize
    <2>1. a \in Int BY <1>2
    <2>2. a % PageSize \in 0 .. PageSize - 1 BY <2>1, Constants, DivMod
    <2> QED BY <2>2, Constants
  <1>3. ASSUME NEW a \in Nat, a % SZREG = 0 PROVE (a % PageSize) + SZREG <= PageSize
    <2>1. a \in Int BY <1>3
    <2> QED BY <1>3, <2>1, Constants, NoCrossing
  <1>4. CASE call.fn \in {"copy_to_user", "copy_from_user"}
    <2>1. step = copy_step BY <1>4 DEF step
    <2>2. CASE copy_step = 1
      <3>1. (UserAt % PageSize) + 1 <= PageSize BY <1>1, <1>2 DEF UserAt
      <3> QED BY <1>1, <2>1, <2>2, <3>1
    <2>3. CASE copy_step # 1
      <3>1. (call.dst - call.src) % SZREG = 0 /\ Between(src, call.src) /\ copy_step = SZREG
        BY <2>3 DEF copy_step
      <3>2. src % SZREG = 0 BY <1>4, <3>1 DEF AlignInv
      <3>3. src + SZREG <= call.src + call.n BY <1>1, <3>1, <3>2, RegisterLoop
      <3>4. SZREG \in 1 .. left BY <1>1, <3>3, Constants DEF left, src
      <3>5. dst % SZREG = 0
        <4>1. call.dst - call.src \in Int /\ src \in Int BY <1>1
        <4>2. ((call.dst - call.src) + src) % SZREG = src % SZREG
          BY <3>1, <4>1, Constants, MultipleSum
        <4>3. (call.dst - call.src) + src = dst BY <1>1 DEF src, dst
        <4> QED BY <3>2, <4>2, <4>3
      <3>6. (UserAt % PageSize) + SZREG <= PageSize BY <1>1, <1>3, <3>2, <3>5 DEF UserAt
      <3> QED BY <2>1, <3>1, <3>4, <3>6
    <2> QED BY <2>2, <2>3
  <1>5. CASE call.fn = "clear_user"
    <2>1. step = clear_step /\ UserAt = dst BY <1>5 DEF step, UserAt, UserLoads
    <2>2. CASE clear_step = 1
      <3>1. (UserAt % PageSize) + 1 <= PageSize BY <1>1, <1>2, <2>1
      <3> QED BY <1>1, <2>1, <2>2, <3>1
    <2>3. CASE clear_step # 1
      <3>1. Between(dst, call.dst) /\ clear_step = SZREG BY <2>3 DEF clear_step
      <3>2. dst % SZREG = 0 BY <1>5, <3>1 DEF AlignInv
      <3>3. dst + SZREG <= call.dst + call.n BY <1>1, <3>1, <3>2, RegisterLoop
      <3>4. SZREG \in 1 .. left BY <1>1, <3>3, Constants DEF left, dst
      <3>5. (UserAt % PageSize) + SZREG <= PageSize BY <1>1, <1>3, <2>1, <3>2
      <3> QED BY <2>1, <3>1, <3>4, <3>5
    <2> QED BY <2>2, <2>3
  <1>6. CASE call.fn \in {"get_user", "put_user"}
    <2>1. step = get_put_step BY <1>6 DEF step
    <2>2. UserAt = IF call.fn = "get_user" THEN src ELSE dst
      BY <1>6 DEF UserAt, UserLoads
    <2> QED BY <1>6, <2>1, <2>2, VariableStep
  <1>7. CASE call.fn = "memset"
    <2>1. step = memset_step /\ ~OfUser BY <1>7 DEF step, OfUser, UserStores, UserLoads
    <2> QED BY <1>1, <2>1, MemsetStep
  <1>8. CASE call.fn = "memcpy"
    <2>1. step = memcpy_step /\ ~OfUser BY <1>8 DEF step, OfUser, UserStores, UserLoads
    <2>2. BLOCK * SZREG \in Nat \ {0} BY Constants
    <2>3. memcpy_step = 1 \/ (memcpy_step = BLOCK * SZREG /\ ~(left < BLOCK * SZREG))
      BY DEF memcpy_step
    <2>4. memcpy_step \in 1 .. left BY <1>1, <2>2, <2>3
    <2> QED BY <2>1, <2>4
  <1> QED BY <1>1, <1>4, <1>5, <1>6, <1>7, <1>8 DEF Routines, UserStores, UserLoads

(* ... and keeps the loop aligned. *)
LEMMA StepAligned ==
  ASSUME Types, LoopInv, AlignInv, Busy, left > 0, call' = call, done' = done + step
  PROVE  AlignInv'
  <1>1. /\ call.fn \in Routines /\ call.dst \in Nat /\ call.src \in Nat /\ call.n \in Nat
        /\ done \in Nat /\ dst \in Nat /\ src \in Nat
    BY CallTypes
  <1>2. step \in Nat BY <1>1, StepBounds DEF left
  <1>3. dst' = dst + step /\ src' = src + step
    BY <1>1, <1>2 DEF dst, src
  <1>4. \A a, first : Between(a, first)' <=> Between(a, first)
    BY DEF Between
  <1>5. ASSUME call.fn \in {"copy_to_user", "copy_from_user"},
               (call.dst - call.src) % SZREG = 0, Between(src + step, call.src)
        PROVE  (src + step) % SZREG = 0
    <2>1. step = IF Between(src, call.src) THEN SZREG ELSE 1
      BY <1>5 DEF step, copy_step
    <2>2. CASE Between(src, call.src)
      <3>1. src % SZREG = 0 BY <1>5, <2>2 DEF AlignInv
      <3> QED BY <1>1, <2>1, <2>2, <3>1, RegisterLoop
    <2>3. CASE ~Between(src, call.src)
      BY <1>1, <1>5, <2>1, <2>3, RegisterLoop
    <2> QED BY <2>2, <2>3
  <1>6. ASSUME call.fn = "clear_user", Between(dst + step, call.dst)
        PROVE  (dst + step) % SZREG = 0
    <2>1. step = IF Between(dst, call.dst) THEN SZREG ELSE 1
      BY <1>6 DEF step, clear_step
    <2>2. CASE Between(dst, call.dst)
      <3>1. dst % SZREG = 0 BY <1>6, <2>2 DEF AlignInv
      <3> QED BY <1>1, <2>1, <2>2, <3>1, RegisterLoop
    <2>3. CASE ~Between(dst, call.dst)
      BY <1>1, <1>6, <2>1, <2>3, RegisterLoop
    <2> QED BY <2>2, <2>3
  <1>7. ASSUME call.fn \in {"get_user", "put_user"}
        PROVE  (done + step) % get_put_step = 0
    <2>1. step = get_put_step BY <1>7 DEF step
    <2> QED BY <1>7, <2>1, VariableStep
  <1>8. get_put_step' = get_put_step BY DEF get_put_step
  <1> QED BY <1>3, <1>4, <1>5, <1>6, <1>7, <1>8 DEF AlignInv

(* The addresses of user memory an iteration accesses. *)
LEMMA Addresses ==
  ASSUME Types, LoopInv, AlignInv, Busy, OfUser, left > 0
  PROVE  /\ UserAt \in Nat /\ step \in Nat \ {0} /\ UserAt + step <= TASK_SIZE
         /\ Page(UserAt) \in Pages /\ UserAt % PageSize \in 0 .. PageSize - 1
         /\ \A i \in 0 .. step - 1 :
              /\ Page(UserAt + i) = Page(UserAt)
              /\ (UserAt + i) % PageSize = (UserAt % PageSize) + i
              /\ (UserAt % PageSize) + i < PageSize
  <1>1. /\ call.fn \in Routines /\ call.dst \in Nat /\ call.src \in Nat /\ call.n \in Nat
        /\ done \in Nat /\ dst \in Nat /\ src \in Nat /\ left \in Int
    BY CallTypes
  <1>2. step \in 1 .. left /\ (UserAt % PageSize) + step <= PageSize
    BY StepBounds
  <1>3. UserAt \in Nat /\ UserAt + left <= TASK_SIZE
    <2>1. /\ call.fn \in UserStores => call.dst + call.n <= TASK_SIZE
          /\ call.fn \in UserLoads => call.src + call.n <= TASK_SIZE
      BY DEF LoopInv
    <2>2. src + left = call.src + call.n /\ dst + left = call.dst + call.n
      BY <1>1 DEF dst, src, left
    <2> QED BY <1>1, <2>1, <2>2 DEF UserAt, OfUser
  <1>4. UserAt + step <= TASK_SIZE /\ UserAt < TASK_SIZE /\ step \in Nat \ {0}
    BY <1>1, <1>2, <1>3, Constants
  <1>5. Page(UserAt) \in Pages /\ UserAt % PageSize \in 0 .. PageSize - 1
    BY <1>3, <1>4, PageOf
  <1>6. ASSUME NEW i \in 0 .. step - 1
        PROVE  /\ Page(UserAt + i) = Page(UserAt)
               /\ (UserAt + i) % PageSize = (UserAt % PageSize) + i
               /\ (UserAt % PageSize) + i < PageSize
    <2>1. i \in Nat /\ (UserAt % PageSize) + i < PageSize BY <1>2, <1>4, <1>5, Constants
    <2> QED BY <1>3, <2>1, WithinPage
  <1> QED BY <1>3, <1>4, <1>5, <1>6

(* The access that trapped, or may trap. *)
LEMMA TrapPage ==
  ASSUME Types, LoopInv, AlignInv, pc = "trap" \/ Accessing
  PROVE  /\ Busy /\ OfUser /\ left > 0 /\ ~pum
         /\ UserAddr = UserAt /\ UserPage = Page(UserAt) /\ UserPage \in Pages
         /\ IF Where = "load" THEN call.fn \in UserLoads ELSE call.fn \in UserStores
  <1>1. CASE pc = "trap"
    <2>1. Busy /\ OfUser /\ left > 0 /\ ~pum
      BY <1>1 DEF Busy, LoopInv, OfUser
    <2>2. /\ UserAddr = UserAt
          /\ IF Where = "load" THEN call.fn \in UserLoads ELSE call.fn \in UserStores
      BY <1>1 DEF LoopInv, UserAddr, UserAt, Where, UserLoads, UserStores
    <2> QED BY <2>1, <2>2, Addresses DEF UserPage
  <1>2. CASE Accessing
    <2>1. Busy /\ OfUser /\ left > 0 /\ ~pum
      BY <1>2 DEF Accessing, Running, Busy, LoopInv, OfUser, Where
    <2>2. /\ UserAddr = UserAt
          /\ IF Where = "load" THEN call.fn \in UserLoads ELSE call.fn \in UserStores
      BY <1>2 DEF Accessing, Running, UserAddr, UserAt, Where, UserLoads, UserStores
    <2> QED BY <2>1, <2>2, Addresses DEF UserPage
  <1> QED BY <1>1, <1>2

(* What the loop loads, and what it stores into a buffer. *)
LEMMA Loaded ==
  ASSUME Types, LoopInv, AlignInv, Load
  PROVE  reg' \in Seq(Int) /\ Len(reg') = step /\ step \in 1 .. left
  <1>1. Busy /\ left > 0 /\ Where = "load" /\ pc = "load"
    BY DEF Load, Running, Busy, Where
  <1>2. step \in 1 .. left BY <1>1, StepBounds
  <1>3. /\ call.fn \in Routines /\ call.dst \in Nat /\ call.src \in Nat /\ call.n \in Nat
        /\ done \in Nat /\ dst \in Nat /\ src \in Nat /\ left \in Int
    BY CallTypes
  <1> DEFINE Value(i) ==
       CASE call.fn = "memset" -> -1
         [] call.fn = "clear_user" -> 0
         [] call.fn \in UserLoads ->
              frames[FrameAt(src)].data[(src + i - 1) % PageSize]
         [] OTHER -> kmem[src + i - 1]
  <1>4. ASSUME NEW i \in 1 .. step PROVE Value(i) \in Int
    <2>1. CASE call.fn \in {"memset", "clear_user"}
      <3>1. Value(i) \in {-1, 0} BY <2>1 DEF UserLoads
      <3> HIDE DEF Value
      <3> QED BY <3>1
    <2>2. CASE call.fn \in UserLoads
      <3>1. Value(i) = frames[FrameAt(src)].data[(src + i - 1) % PageSize]
        BY <2>2 DEF UserLoads
      <3>2. FrameAt(src) \in Frames
        <4>1. Page(src) \in Pages BY <1>1, <2>2, Addresses DEF OfUser, UserAt
        <4>2. tlb[Page(src)] \in Entry BY <4>1 DEF Types
        <4>3. tlb[Page(src)].frame # 0 BY <2>2 DEF Load, Access, Allowed
        <4> QED BY <4>2, <4>3, Constants DEF Entry, FrameAt, Frames
      <3>3. frames[FrameAt(src)].data \in PageData BY <3>2 DEF Types, FrameType
      <3>4. (src + i - 1) % PageSize \in 0 .. PageSize - 1
        <4>1. src + i - 1 \in Int BY <1>3
        <4> QED BY <4>1, Constants, DivMod
      <3> HIDE DEF Value
      <3> QED BY <3>1, <3>3, <3>4 DEF PageData
    <2>3. CASE call.fn \in {"copy_to_user", "put_user", "memcpy"}
      <3>1. Value(i) = kmem[src + i - 1] BY <2>3 DEF UserLoads
      <3>2. call \in Calls BY <1>1 DEF LoopInv
      <3>3. call.src + call.n <= KSize BY <2>3, <3>2, CallsAssumption
      <3>4. src + i - 1 \in 0 .. KSize - 1 BY <1>2, <1>3, <3>3, Constants DEF src, left
      <3> HIDE DEF Value
      <3> QED BY <3>1, <3>4 DEF Types
    <2> QED BY <1>3, <2>1, <2>2, <2>3 DEF Routines, UserLoads, UserStores
  <1>5. reg' = [i \in 1 .. step |-> Value(i)] BY DEF Load
  <1> HIDE DEF Value
  <1>6. reg' \in Seq(Int) BY <1>2, <1>3, <1>4, <1>5
  <1>7. Len(reg') = step BY <1>2, <1>3, <1>5
  <1> QED BY <1>2, <1>6, <1>7

LEMMA OverwrittenType ==
  ASSUME reg \in Seq(Int), NEW m \in Nat, NEW mem \in [0 .. m - 1 -> Int], NEW first \in Nat
  PROVE  Overwritten(mem, first) \in [0 .. m - 1 -> Int]
  <1>1. \A i \in 0 .. m - 1 :
          i \in first .. first + Len(reg) - 1 => reg[i - first + 1] \in Int
    <2> SUFFICES ASSUME NEW i \in first .. first + Len(reg) - 1 PROVE reg[i - first + 1] \in Int
      OBVIOUS
    <2>1. i - first + 1 \in 1 .. Len(reg) OBVIOUS
    <2> QED BY <2>1
  <1> QED BY <1>1 DEF Overwritten

LEMMA FreeFrameIsFree ==
  ASSUME Free # {}
  PROVE  FreeFrame \in Frames /\ frames[FreeFrame].owners = {} /\ FreeFrame # 0
  <1>1. FreeFrame \in Free BY DEF FreeFrame
  <1>2. FreeFrame \in Frames /\ frames[FreeFrame].owners = {} BY <1>1 DEF Free
  <1> QED BY <1>2, Constants DEF Frames

LEMMA PteTypes ==
  ASSUME Types, NEW p \in Pages
  PROVE  /\ pte[p] \in Pte /\ mk_pte(0, {}) \in Pte
         /\ pte_mkwrite(pte[p]) \in Pte /\ pte_wrprotect(pte[p]) \in Pte
         /\ pte_present(pte[p]) \in BOOLEAN /\ pte_write(pte[p]) \in BOOLEAN
         /\ \A f \in 0 .. NFrames, prot \in Prots :
              /\ mk_pte(f, protection_map(prot)) \in Pte
              /\ pte_mkwrite(mk_pte(f, protection_map(prot))) \in Pte
              /\ pte_modify(pte[p], protection_map(prot)) \in Pte
              /\ __swp_entry_to_pte(f) \in Pte
  <1> DEFINE Flags == {"PRESENT", "READ", "WRITE", "USER"}
  <1>1. pte[p] \in Pte BY DEF Types
  <1>2. pte[p].flags \in SUBSET Flags /\ pte[p].num \in 0 .. NFrames BY <1>1 DEF Pte
  <1>3. \A fl \in SUBSET Flags, f \in 0 .. NFrames : [flags |-> fl, num |-> f] \in Pte
    BY DEF Pte
  <1>4. \A e \in Pte, fl \in SUBSET Flags : [e EXCEPT !.flags = fl] \in Pte
    BY DEF Pte
  <1>5. \A prot \in Prots : protection_map(prot) \in SUBSET Flags
    BY DEF protection_map, PAGE_READ
  <1>6. 0 \in 0 .. NFrames /\ {} \in SUBSET Flags BY Constants
  <1>7. \A e \in Pte : e.flags \cup {"WRITE"} \in SUBSET Flags /\ e.flags \ {"WRITE"} \in SUBSET Flags
    BY DEF Pte
  <1> HIDE DEF Flags
  <1>8. \A e \in Pte : pte_mkwrite(e) \in Pte /\ pte_wrprotect(e) \in Pte
    BY <1>4, <1>7 DEF pte_mkwrite, pte_wrprotect
  <1>9. pte_present(pte[p]) \in BOOLEAN /\ pte_write(pte[p]) \in BOOLEAN
    BY DEF pte_present, pte_write
  <1>10. ASSUME NEW f \in 0 .. NFrames, NEW prot \in Prots
         PROVE  /\ mk_pte(f, protection_map(prot)) \in Pte
                /\ pte_modify(pte[p], protection_map(prot)) \in Pte
                /\ __swp_entry_to_pte(f) \in Pte
    BY <1>1, <1>3, <1>4, <1>5, <1>6 DEF mk_pte, pte_modify, __swp_entry_to_pte
  <1>11. mk_pte(0, {}) \in Pte BY <1>3, <1>6 DEF mk_pte
  <1> QED BY <1>1, <1>8, <1>9, <1>10, <1>11

LEMMA WalkType ==
  ASSUME Types, NEW p \in Pages
  PROVE  Walk(p) \in Entry /\ NoEntry \in Entry /\ [write |-> TRUE, frame |-> NFrames] \in Entry
  <1>1. pte[p] \in Pte /\ pte_write(pte[p]) \in BOOLEAN BY PteTypes
  <1> QED BY <1>1, Constants DEF Walk, NoEntry, Entry, Pte

-----------------------------------------------------------------------------
(* The invariant holds initially. *)
LEMMA InitTypes == Init => Types
  <1> SUFFICES ASSUME Init PROVE Types
    OBVIOUS
  <1>1. call \in [fn : Routines, dst : Nat, src : Nat, n : Nat]
    BY DEF Init, Routines, UserStores, UserLoads
  <1>2. pc = "new" /\ at = "load" /\ done \in Nat /\ reg = <<>> /\ res \in Int /\ pum \in BOOLEAN
    BY DEF Init
  <1>3. kmem \in [0 .. KSize - 1 -> Int] BY Constants DEF Init
  <1>4. vma \in [Pages -> Prots] BY DEF Init, Prots
  <1>5. frames \in [Frames -> FrameType]
    <2>1. ASSUME NEW f \in Frames PROVE Data(100 + f * PageSize) \in PageData
      <3>1. 100 + f * PageSize \in Int BY Constants DEF Frames
      <3> QED BY <3>1, Constants DEF Data, PageData
    <2> DEFINE O(f) == IF f = NFrames THEN {"other"} ELSE IF f <= NPages THEN {"process"} ELSE {}
    <2>2. ASSUME NEW f \in Frames PROVE O(f) \in SUBSET Owners
      BY DEF Owners
    <2>3. frames = [f \in Frames |-> [owners |-> O(f), data |-> Data(100 + f * PageSize)]]
      BY DEF Init
    <2> HIDE DEF O
    <2> QED BY <2>1, <2>2, <2>3 DEF FrameType
  <1>6. pte \in [Pages -> Pte]
    <2>1. ASSUME NEW p \in Pages PROVE pte_mkwrite(mk_pte(p + 1, PAGE_READ)) \in Pte
      BY <2>1, Constants DEF Pages, pte_mkwrite, mk_pte, PAGE_READ, Pte
    <2> QED BY <2>1 DEF Init
  <1>7. tlb \in [Pages -> Entry] BY Constants DEF Init, flush_tlb_all, NoEntry, Entry
  <1>8. mm = "process" /\ op = NoOp /\ budget \in Nat BY UserMemoryAssumption DEF Init
  <1>9. op \in [kind : {"none", "migrate", "protect", "unmap", "fork"}, page : Pages,
             frame : 0 .. NFrames, prot : Prots, write : BOOLEAN, flushed : BOOLEAN]
    BY <1>8, Constants DEF NoOp, Pages, Prots
  <1>10. reg \in Seq(Int) BY <1>2
  <1> QED BY <1>1, <1>2, <1>3, <1>4, <1>5, <1>6, <1>7, <1>8, <1>9, <1>10 DEF Types

LEMMA InitIInv == Init => IInv
  <1> SUFFICES ASSUME Init PROVE IInv
    OBVIOUS
  <1>1. Types BY InitTypes
  <1>2. pc = "new" /\ pum = TRUE /\ mm = "process" /\ op = NoOp BY DEF Init
  <1>3. LoopInv /\ AlignInv BY <1>2 DEF LoopInv, AlignInv, Busy
  <1>4. /\ \A p \in Pages : /\ pte[p] = [flags |-> {"PRESENT", "USER", "READ", "WRITE"}, num |-> p + 1]
                            /\ tlb[p] = NoEntry /\ vma[p] = "rw"
        /\ \A p \in Pages : p + 1 \in Frames /\ p + 1 # 0 /\ frames[p + 1].owners = {"process"}
    <2>1. ASSUME NEW p \in Pages PROVE pte[p] = [flags |-> {"PRESENT", "USER", "READ", "WRITE"}, num |-> p + 1]
      <3>1. PAGE_READ \cup {"WRITE"} = {"PRESENT", "USER", "READ", "WRITE"} BY DEF PAGE_READ
      <3> QED BY <3>1 DEF Init, pte_mkwrite, mk_pte
    <2>2. \A p \in Pages : tlb[p] = NoEntry /\ vma[p] = "rw" BY DEF Init, flush_tlb_all
    <2>3. \A p \in Pages : p + 1 \in Frames /\ p + 1 # 0 /\ p + 1 <= NPages /\ p + 1 # NFrames
      BY Constants DEF Pages, Frames
    <2>4. \A f \in Frames : f # NFrames /\ f <= NPages => frames[f].owners = {"process"}
      BY DEF Init
    <2> QED BY <2>1, <2>2, <2>3, <2>4
  <1>5. op.kind = "none" /\ op.page = 0 BY <1>2 DEF NoOp
  <1>6. ASSUME NEW p \in Pages
        PROVE  /\ pte_present(pte[p]) /\ FrameOf(p) = p + 1 /\ pte[p].num = p + 1
    <2>1. pte[p] = [flags |-> {"PRESENT", "USER", "READ", "WRITE"}, num |-> p + 1] BY <1>4
    <2>2. pte[p].num = p + 1 /\ "PRESENT" \in pte[p].flags BY <2>1
    <2>3. ~Held(p) BY <1>5 DEF Held
    <2> QED BY <2>2, <2>3 DEF pte_present, FrameOf
  <1>7. OwnInv
    <2> SUFFICES ASSUME NEW p \in Pages
                 PROVE  /\ "process" \in frames[p + 1].owners
                        /\ \A q \in Pages \ {p} : q + 1 # p + 1
      BY <1>6 DEF OwnInv
    <2> QED BY <1>4 DEF Pages
  <1>8. PteInv
    <2> SUFFICES ASSUME NEW p \in Pages
                 PROVE  p + 1 # 0 /\ vma[p] = "rw" /\ "child" \notin frames[p + 1].owners
      BY <1>6 DEF PteInv
    <2> QED BY <1>4
  <1>9. OpInv BY <1>5 DEF OpInv
  <1>10. TlbInv
    <2>1. NoEntry.frame = 0 BY DEF NoEntry
    <2> QED BY <1>4, <2>1 DEF TlbInv
  <1> QED BY <1>1, <1>3, <1>7, <1>8, <1>9, <1>10 DEF IInv, MapInv

-----------------------------------------------------------------------------
(* Every action keeps the types. *)
LEMMA CallType ==
  ASSUME IInv, NEW c \in Calls, Call(c)
  PROVE  Types'
  <1>1. c \in [fn : Routines, dst : Nat, src : Nat, n : Nat] BY CallsAssumption
  <1>2. kmem' \in [0 .. KSize - 1 -> Int]
    <2>1. kmem' = kmem \/ kmem' = Failed(c) BY DEF Call
    <2>2. kmem \in [0 .. KSize - 1 -> Int] BY DEF IInv, Types
    <2>3. Failed(c) \in [0 .. KSize - 1 -> Int] BY <2>2 DEF Failed
    <2> QED BY <2>1, <2>2, <2>3
  <1>3. reg' = <<>> /\ <<>> \in Seq(Int) BY DEF Call
  <1>4. call' = c /\ done' = 0 /\ pc' \in {"load", "idle"} BY DEF Call
  <1>5. pum' \in BOOLEAN BY DEF Call, IInv, Types
  <1>6. res' \in Int BY <1>1 DEF Call, IInv, Types
  <1>7. UNCHANGED <<at, mapVars, tlb, mm, budget>> BY DEF Call
  <1> QED BY <1>1, <1>2, <1>3, <1>4, <1>5, <1>6, <1>7 DEF IInv, Types, mapVars

LEMMA LoopType ==
  ASSUME IInv, Load \/ Store \/ Return \/ Trap
  PROVE  Types'
  <1> USE DEF IInv
  <1>1. CASE Load
    <2>1. reg' \in Seq(Int) BY <1>1, Loaded
    <2>2. pc' = "store" /\ UNCHANGED <<call, at, done, res, pum, kmem, mapVars, tlb, mm, budget>>
      BY <1>1 DEF Load
    <2> QED BY <2>1, <2>2 DEF Types, mapVars
  <1>2. CASE Store
    <2>1. /\ done' = done + Len(reg) /\ reg' = <<>> /\ pc' = "load"
          /\ UNCHANGED <<call, at, res, pum, vma, pte, op, tlb, mm, budget>>
      BY <1>2 DEF Store
    <2>2. done' \in Nat /\ reg' \in Seq(Int) BY <2>1 DEF Types
    <2>3. kmem' \in [0 .. KSize - 1 -> Int]
      <3>1. dst \in Nat /\ KSize \in Nat BY CallTypes, Constants
      <3>2. kmem \in [0 .. KSize - 1 -> Int] /\ reg \in Seq(Int) BY DEF Types
      <3>3. Overwritten(kmem, dst) \in [0 .. KSize - 1 -> Int] BY <3>1, <3>2, OverwrittenType
      <3> QED BY <1>2, <3>2, <3>3 DEF Store
    <2>4. frames' \in [Frames -> FrameType]
      <3>1. CASE call.fn \in UserStores
        <4> DEFINE f == FrameAt(dst)
                   o == dst % PageSize
        <4>1. frames' = [frames EXCEPT ![f].data = Overwritten(@, o)] BY <1>2, <3>1 DEF Store
        <4>2. o \in Nat /\ PageSize \in Nat
          <5>1. dst \in Int BY CallTypes
          <5> QED BY <5>1, Constants, DivMod
        <4>3. reg \in Seq(Int) /\ frames \in [Frames -> FrameType] BY DEF Types
        <4> HIDE DEF f, o
        <4>4. \A mem \in PageData : Overwritten(mem, o) \in PageData
          BY <4>2, <4>3, OverwrittenType DEF PageData
        <4>5. ASSUME NEW g \in Frames PROVE frames'[g] \in FrameType
          <5>1. frames[g] \in FrameType BY <4>3
          <5>2. [frames[g] EXCEPT !.data = Overwritten(@, o)] \in FrameType
            BY <4>4, <5>1 DEF FrameType
          <5>3. frames'[g] = frames[g] \/ frames'[g] = [frames[g] EXCEPT !.data = Overwritten(@, o)]
            BY <4>1, <4>3
          <5> QED BY <5>1, <5>2, <5>3
        <4>6. frames' = [g \in Frames |-> frames'[g]] BY <4>1, <4>3
        <4> QED BY <4>5, <4>6
      <3>2. CASE call.fn \notin UserStores
        BY <1>2, <3>2 DEF Store, Types
      <3> QED BY <3>1, <3>2
    <2> QED BY <2>1, <2>2, <2>3, <2>4 DEF Types
  <1>3. CASE Return
    BY <1>3 DEF Return, Types, mapVars
  <1>4. CASE Trap
    <2>1. pc \in {"load", "store"} BY <1>4 DEF Trap, Accessing, Running
    <2>2. at' = pc /\ pc' = "trap"
          /\ UNCHANGED <<call, done, reg, res, pum, kmem, mapVars, tlb, mm, budget>>
      BY <1>4 DEF Trap
    <2> QED BY <2>1, <2>2 DEF Types, mapVars
  <1> QED BY <1>1, <1>2, <1>3, <1>4

LEMMA FixupType ==
  ASSUME IInv, fixup_exception
  PROVE  Types'
  <1> USE DEF IInv
  <1>1. kmem' \in [0 .. KSize - 1 -> Int]
    <2>1. kmem \in [0 .. KSize - 1 -> Int] BY DEF Types
    <2>2. kmem' = Failed(call) BY DEF fixup_exception, fixup
    <2> QED BY <2>1, <2>2 DEF Failed
  <1>2. res' \in Int
    <2>1. /\ call.fn \in Routines /\ call.dst \in Nat /\ call.src \in Nat /\ call.n \in Nat
          /\ dst \in Nat /\ PAGE_OFFSET \in Int
      BY CallTypes, Constants DEF PAGE_OFFSET
    <2>2. \/ res' = PAGE_OFFSET + call.src + call.n - dst
          \/ res' = call.src + call.n - (PAGE_OFFSET + dst)
          \/ res' = call.dst + call.n - dst
          \/ res' = call.n
      BY <2>1 DEF fixup_exception, fixup
    <2> HIDE DEF PAGE_OFFSET
    <2> QED BY <2>1, <2>2
  <1>3. pc' = "idle" /\ pum' = TRUE /\ UNCHANGED <<call, at, done, reg, mapVars, tlb, mm, budget>>
    BY DEF fixup_exception, fixup
  <1> QED BY <1>1, <1>2, <1>3 DEF Types, mapVars

(* What handle_mm_fault does to the faulting page p: it maps a fresh frame *)
(* of zeros, or a fresh copy of a frame shared with the child, makes the   *)
(* mapping writable, or finds it so.                                       *)
PteFor(e, p, f) ==
  e \in Pte /\ pte_present(e) /\ e.num = f /\ f \in Frames /\ (pte_write(e) => vma[p] = "rw")

FaultNew(p) ==
  /\ ~pte_present(pte[p]) /\ tlb' = tlb
  /\ \E f \in Frames, e \in Pte :
       /\ frames[f].owners = {} /\ PteFor(e, p, f)
       /\ pte' = [pte EXCEPT ![p] = e]
       /\ frames' = [frames EXCEPT ![f] = [owners |-> {"process"}, data |-> Zeros]]

FaultCopy(p) ==
  /\ pte_present(pte[p]) /\ tlb' = [tlb EXCEPT ![p] = NoEntry]
  /\ "child" \in frames[pte[p].num].owners
  /\ \E f \in Frames, e \in Pte :
       /\ frames[f].owners = {} /\ PteFor(e, p, f)
       /\ pte' = [pte EXCEPT ![p] = e]
       /\ frames' = [[frames EXCEPT ![f] = [owners |-> {"process"}, data |-> frames[pte[p].num].data]]
                       EXCEPT ![pte[p].num].owners = {"child"}]

FaultWrite(p) ==
  /\ pte_present(pte[p]) /\ tlb' = [tlb EXCEPT ![p] = NoEntry]
  /\ UNCHANGED frames
  /\ \E e \in Pte :
       /\ PteFor(e, p, pte[p].num)
       /\ pte_write(e) => pte_write(pte[p]) \/ "child" \notin frames[pte[p].num].owners
       /\ pte' = [pte EXCEPT ![p] = e]

LEMMA FaultCases ==
  ASSUME IInv, HandleMmFault
  PROVE  /\ UserPage \in Pages /\ pc = "trap" /\ mm = "process" /\ pc' = at /\ at \in {"load", "store"}
         /\ op.kind # "none" => op.kind = "migrate" /\ op.page # UserPage
         /\ vma[UserPage] # "none"
         /\ UNCHANGED <<call, at, done, reg, res, pum, kmem, vma, op, mm, budget>>
         /\ FaultNew(UserPage) \/ FaultCopy(UserPage) \/ FaultWrite(UserPage)
  <1> USE DEF IInv
  <1> DEFINE p == UserPage
             new == mk_pte(FreeFrame, protection_map(vma[p]))
             New == IF at = "store" THEN pte_mkwrite(new) ELSE new
  <1>1. pc = "trap" /\ mm = "process" BY DEF HandleMmFault, FaultMayRun, Running
  <1>2. p \in Pages BY <1>1, TrapPage
  <1>3. /\ pc' = at /\ at \in {"load", "store"}
        /\ UNCHANGED <<call, at, done, reg, res, pum, kmem, vma, op, mm, budget>>
    BY DEF HandleMmFault, Types
  <1>4. op.kind # "none" => op.kind = "migrate" /\ op.page # p
    BY DEF HandleMmFault, FaultMayRun
  <1>5. vma[p] \in {"r", "rw"} /\ (at = "store" => vma[p] = "rw")
    BY DEF HandleMmFault, Permitted
  <1>6. flush_tlb_page(p * PageSize) = [tlb EXCEPT ![p] = NoEntry]
    BY <1>2, FlushPage DEF Types
  <1>7. pte[p] \in Pte /\ pte_mkwrite(pte[p]) \in Pte /\ vma[p] \in Prots
    BY <1>2, PteTypes DEF Types
  <1>8. ASSUME Free # {}
        PROVE  PteFor(New, p, FreeFrame) /\ New \in Pte
    <2>1. FreeFrame \in Frames /\ FreeFrame \in 0 .. NFrames
      BY <1>8, FreeFrameIsFree, Constants DEF Frames
    <2>2. New \in Pte BY <1>2, <1>7, <2>1, PteTypes
    <2>3. new = [flags |-> PAGE_READ, num |-> FreeFrame]
      BY <1>5 DEF mk_pte, protection_map
    <2>4. pte_present(new) /\ ~pte_write(new) /\ new.num = FreeFrame
      BY <2>3 DEF pte_present, pte_write, PAGE_READ
    <2>5. pte_mkwrite(new).num = FreeFrame /\ pte_mkwrite(new).flags = new.flags \cup {"WRITE"}
      BY <2>3 DEF pte_mkwrite
    <2>6. pte_present(pte_mkwrite(new)) BY <2>4, <2>5 DEF pte_present
    <2> HIDE DEF new
    <2>7. pte_present(New) /\ New.num = FreeFrame /\ (pte_write(New) => vma[p] = "rw")
      BY <1>5, <2>4, <2>5, <2>6
    <2> QED BY <2>1, <2>2, <2>7 DEF PteFor
  <1> HIDE DEF new
  <1>9. ASSUME pte_present(pte[p]) PROVE pte[p].num \in Frames
    <2>1. pte[p].num # 0 BY <1>2, <1>9 DEF MapInv, PteInv
    <2> QED BY <1>7, <2>1, Constants DEF Pte, Frames
  <1>10. ASSUME pte_none(pte[p]), Free # {}, pte' = [pte EXCEPT ![p] = New], UNCHANGED tlb,
                frames' = [frames EXCEPT ![FreeFrame] = [owners |-> {"process"}, data |-> Zeros]]
         PROVE  FaultNew(p)
    <2>1. ~pte_present(pte[p]) BY <1>10 DEF pte_none, mk_pte, pte_present
    <2>2. FreeFrame \in Frames /\ frames[FreeFrame].owners = {} BY <1>10, FreeFrameIsFree
    <2> QED BY <1>8, <1>10, <2>1, <2>2 DEF FaultNew
  <1>11. ASSUME pte_present(pte[p]), "child" \in frames[pte[p].num].owners, Free # {},
                pte' = [pte EXCEPT ![p] = New], tlb' = flush_tlb_page(p * PageSize),
                frames' = [[frames EXCEPT ![FreeFrame] =
                              [owners |-> {"process"}, data |-> frames[pte[p].num].data]]
                             EXCEPT ![pte[p].num].owners = {"child"}]
         PROVE  FaultCopy(p)
    <2>1. FreeFrame \in Frames /\ frames[FreeFrame].owners = {} BY <1>11, FreeFrameIsFree
    <2> QED BY <1>6, <1>8, <1>11, <2>1 DEF FaultCopy
  <1>12. ASSUME pte_present(pte[p]), at = "store", "child" \notin frames[pte[p].num].owners,
                pte' = [pte EXCEPT ![p] = pte_mkwrite(pte[p])],
                tlb' = flush_tlb_page(p * PageSize), UNCHANGED frames
         PROVE  FaultWrite(p)
    <2>1. /\ pte_mkwrite(pte[p]).num = pte[p].num
          /\ pte_mkwrite(pte[p]).flags = pte[p].flags \cup {"WRITE"}
      BY <1>7 DEF pte_mkwrite, Pte
    <2>2. pte_present(pte_mkwrite(pte[p])) BY <1>12, <2>1 DEF pte_present
    <2>3. PteFor(pte_mkwrite(pte[p]), p, pte[p].num)
      BY <1>5, <1>7, <1>9, <1>12, <2>1, <2>2 DEF PteFor
    <2> QED BY <1>6, <1>7, <1>12, <2>3 DEF FaultWrite
  <1>13. ASSUME pte_present(pte[p]), tlb' = flush_tlb_page(p * PageSize), UNCHANGED <<frames, pte>>
         PROVE  FaultWrite(p)
    <2>1. pte_write(pte[p]) => vma[p] = "rw" BY <1>2, <1>13 DEF MapInv, PteInv
    <2>2. PteFor(pte[p], p, pte[p].num) BY <1>7, <1>9, <1>13, <2>1 DEF PteFor
    <2>3. pte' = [pte EXCEPT ![p] = pte[p]] BY <1>13 DEF Types
    <2> QED BY <1>6, <1>7, <1>13, <2>2, <2>3 DEF FaultWrite
  <1>14. FaultNew(p) \/ FaultCopy(p) \/ FaultWrite(p)
    BY <1>10, <1>11, <1>12, <1>13 DEF HandleMmFault, new
  <1> QED BY <1>1, <1>2, <1>3, <1>4, <1>5, <1>14

(* A change of the mapping by the other hart. *)
LEMMA ChangeCases ==
  ASSUME IInv, Change
  PROVE  /\ op.kind = "none"
         /\ UNCHANGED <<callVars, tlb, mm>>
         /\ \/ \E p \in Pages : Migrate(p) \/ Unmap(p) \/ \E prot \in {"r", "rw"} : Protect(p, prot)
            \/ Fork \/ ChildExit
  BY DEF Change, Migrate, Unmap, Protect, Fork, ChildExit, Begin, callVars

LEMMA BeginType ==
  ASSUME IInv, NEW kind \in {"migrate", "protect", "unmap", "fork"}, NEW p \in Pages,
         NEW newPte \in [Pages -> Pte], Begin(kind, p, newPte)
  PROVE  /\ op' \in [kind : {"none", "migrate", "protect", "unmap", "fork"}, page : Pages,
                     frame : 0 .. NFrames, prot : Prots, write : BOOLEAN, flushed : BOOLEAN]
         /\ op' = [kind |-> kind, page |-> p, prot |-> vma[p], write |-> pte_write(pte[p]),
                   frame |-> IF pte_present(pte[p]) THEN pte[p].num ELSE 0, flushed |-> FALSE]
         /\ pte' \in [Pages -> Pte] /\ budget' \in Nat
         /\ UNCHANGED <<callVars, tlb, mm>>
  <1> DEFINE f == IF pte_present(pte[p]) THEN pte[p].num ELSE 0
             w == pte_write(pte[p])
  <1>1. vma[p] \in Prots BY DEF IInv, Types
  <1>2. f \in 0 .. NFrames
    <2>1. pte[p] \in Pte BY PteTypes DEF IInv
    <2> QED BY <2>1, Constants DEF Pte
  <1>3. w \in BOOLEAN BY PteTypes DEF IInv
  <1>4. /\ op' = [kind |-> kind, page |-> p, prot |-> vma[p], write |-> w, frame |-> f, flushed |-> FALSE]
        /\ pte' = newPte /\ UNCHANGED <<callVars, tlb, mm>>
    BY DEF Begin
  <1>5. budget' \in Nat BY DEF Begin, IInv, Types
  <1> HIDE DEF f, w
  <1>6. op' \in [kind : {"none", "migrate", "protect", "unmap", "fork"}, page : Pages,
                 frame : 0 .. NFrames, prot : Prots, write : BOOLEAN, flushed : BOOLEAN]
    BY <1>1, <1>2, <1>3, <1>4
  <1> QED BY <1>4, <1>5, <1>6 DEF f, w

LEMMA OwnersType ==
  ASSUME Types, NEW F, F = [f \in Frames |-> F[f]],
         \A f \in Frames : \E o \in SUBSET Owners : F[f] = [frames[f] EXCEPT !.owners = o]
  PROVE  F \in [Frames -> FrameType]
  <1>1. ASSUME NEW f \in Frames PROVE F[f] \in FrameType
    BY DEF Types, FrameType
  <1> QED BY <1>1

LEMMA ChangeType ==
  ASSUME IInv, Change
  PROVE  Types'
  <1> USE DEF IInv
  <1>1. UNCHANGED callVars /\ UNCHANGED <<tlb, mm>> BY ChangeCases
  <1>2. SUFFICES /\ vma' \in [Pages -> Prots] /\ pte' \in [Pages -> Pte] /\ budget' \in Nat
                 /\ frames' \in [Frames -> FrameType]
                 /\ op' \in [kind : {"none", "migrate", "protect", "unmap", "fork"}, page : Pages,
                     frame : 0 .. NFrames, prot : Prots, write : BOOLEAN, flushed : BOOLEAN]
    BY <1>1 DEF Types, callVars
  <1>3. mk_pte(0, {}) \in Pte BY PteTypes, Constants DEF Pages
  <1>4. pte \in [Pages -> Pte] /\ vma \in [Pages -> Prots] /\ frames \in [Frames -> FrameType]
    BY DEF Types
  <1>5. ASSUME NEW p \in Pages, Migrate(p) \/ Unmap(p) PROVE <1>2!1
    <2> DEFINE new == [pte EXCEPT ![p] = mk_pte(0, {})]
               kind == IF Migrate(p) THEN "migrate" ELSE "unmap"
    <2>1. new \in [Pages -> Pte] BY <1>3, <1>4
    <2>2. Begin("migrate", p, new) \/ Begin("unmap", p, new) BY <1>5 DEF Migrate, Unmap
    <2>3. frames' = frames /\ (vma' = vma \/ vma' = [vma EXCEPT ![p] = "none"])
      BY <1>5 DEF Migrate, Unmap
    <2> HIDE DEF new
    <2>4. vma' \in [Pages -> Prots] BY <1>4, <2>3 DEF Prots
    <2> QED BY <1>4, <2>1, <2>2, <2>3, <2>4, BeginType
  <1>6. ASSUME NEW p \in Pages, NEW prot \in {"r", "rw"}, Protect(p, prot) PROVE <1>2!1
    <2> DEFINE new == [pte EXCEPT ![p] = IF pte_present(@) THEN pte_modify(@, protection_map(prot)) ELSE @]
    <2>1. prot \in Prots /\ 0 \in 0 .. NFrames BY Constants DEF Prots
    <2>2. pte_modify(pte[p], protection_map(prot)) \in Pte BY <2>1, PteTypes
    <2>3. new \in [Pages -> Pte] BY <1>4, <2>2
    <2>4. Begin("protect", p, new) BY <1>6 DEF Protect
    <2>5. frames' = frames /\ vma' = [vma EXCEPT ![p] = prot] BY <1>6 DEF Protect
    <2> HIDE DEF new
    <2> QED BY <1>4, <2>1, <2>3, <2>4, <2>5, BeginType
  <1>7. ASSUME Fork PROVE <1>2!1
    <2> DEFINE new == [p \in Pages |-> IF pte_present(pte[p]) THEN pte_wrprotect(pte[p]) ELSE pte[p]]
    <2>1. new \in [Pages -> Pte]
      <3>1. \A p \in Pages : pte_wrprotect(pte[p]) \in Pte /\ pte[p] \in Pte BY PteTypes
      <3> QED BY <3>1
    <2>2. Begin("fork", 0, new) /\ vma' = vma BY <1>7 DEF Fork
    <2>3. 0 \in Pages BY Constants DEF Pages
    <2> HIDE DEF new
    <2>4. frames' \in [Frames -> FrameType]
      <3>1. frames' = [f \in Frames |->
              IF "process" \in frames[f].owners
              THEN [frames[f] EXCEPT !.owners = @ \cup {"child"}] ELSE frames[f]]
        BY <1>7 DEF Fork
      <3>2. ASSUME NEW f \in Frames
            PROVE  \E o \in SUBSET Owners : frames'[f] = [frames[f] EXCEPT !.owners = o]
        <4>1. frames[f] \in FrameType BY <1>4
        <4>2. frames[f].owners \cup {"child"} \in SUBSET Owners /\ frames[f].owners \in SUBSET Owners
          BY <4>1 DEF FrameType, Owners
        <4>3. frames[f] = [frames[f] EXCEPT !.owners = frames[f].owners] BY <4>1 DEF FrameType
        <4> QED BY <3>1, <4>2, <4>3
      <3>3. frames' = [f \in Frames |-> frames'[f]] BY <3>1
      <3> QED BY <3>2, <3>3, OwnersType
    <2> QED BY <1>4, <2>1, <2>2, <2>3, <2>4, BeginType
  <1>8. ASSUME ChildExit PROVE <1>2!1
    <2>1. frames' = [f \in Frames |-> [frames[f] EXCEPT !.owners = @ \ {"child"}]]
      BY <1>8 DEF ChildExit
    <2>2. ASSUME NEW f \in Frames
          PROVE  \E o \in SUBSET Owners : frames'[f] = [frames[f] EXCEPT !.owners = o]
      <3>1. frames[f] \in FrameType BY <1>4
      <3>2. frames[f].owners \ {"child"} \in SUBSET Owners BY <3>1 DEF FrameType
      <3> QED BY <2>1, <3>2
    <2>3. frames' = [f \in Frames |-> frames'[f]] BY <2>1
    <2>4. frames' \in [Frames -> FrameType] BY <2>2, <2>3, OwnersType
    <2>5. UNCHANGED <<vma, pte, op, budget>> BY <1>8 DEF ChildExit
    <2> QED BY <2>4, <2>5 DEF Types
  <1> QED BY <1>5, <1>6, <1>7, <1>8, ChangeCases

LEMMA FlushCases ==
  ASSUME IInv, Flush
  PROVE  /\ op.kind # "none" /\ op.flushed = FALSE /\ op.page \in Pages
         /\ op' = [op EXCEPT !.flushed = TRUE]
         /\ tlb' = IF op.kind \in {"fork", "unmap"} THEN [p \in Pages |-> NoEntry]
                   ELSE [tlb EXCEPT ![op.page] = NoEntry]
         /\ pte' = IF op.kind = "migrate"
                   THEN [pte EXCEPT ![op.page] = __swp_entry_to_pte(op.frame)] ELSE pte
         /\ UNCHANGED <<callVars, vma, frames, mm, budget>>
  <1> USE DEF IInv
  <1>1. /\ op.page \in Pages /\ op.flushed \in BOOLEAN
        /\ op.kind \in {"none", "migrate", "protect", "unmap", "fork"}
    BY DEF Types
  <1>2. flush_tlb_page(op.page * PageSize) = [tlb EXCEPT ![op.page] = NoEntry]
        /\ flush_tlb_range(op.page * PageSize, (op.page + 1) * PageSize) = [tlb EXCEPT ![op.page] = NoEntry]
    BY <1>1, FlushPage DEF Types
  <1>3. tlb' = CASE op.kind = "migrate" -> [tlb EXCEPT ![op.page] = NoEntry]
                 [] op.kind \in {"fork", "unmap"} -> [p \in Pages |-> NoEntry]
                 [] OTHER -> [tlb EXCEPT ![op.page] = NoEntry]
    BY <1>2 DEF Flush, flush_tlb_all
  <1>4. tlb' = IF op.kind \in {"fork", "unmap"} THEN [p \in Pages |-> NoEntry]
               ELSE [tlb EXCEPT ![op.page] = NoEntry]
    BY <1>1, <1>3
  <1>5. op.kind # "none" /\ ~op.flushed /\ op' = [op EXCEPT !.flushed = TRUE]
        /\ UNCHANGED <<callVars, vma, frames, mm, budget>>
    BY DEF Flush
  <1>6. pte' = IF op.kind = "migrate"
               THEN [pte EXCEPT ![op.page] = __swp_entry_to_pte(op.frame)] ELSE pte
    BY DEF Flush
  <1> QED BY <1>1, <1>4, <1>5, <1>6

(* migrate_pages moves the page to a fresh frame and frees the old one;    *)
(* munmap gives the frame up.                                              *)
FinishMigrate(p) ==
  /\ op.kind = "migrate" /\ p = op.page
  /\ \E f \in Frames, e \in Pte :
       /\ frames[f].owners = {} /\ PteFor(e, p, f) /\ (pte_write(e) => op.write)
       /\ pte' = [pte EXCEPT ![p] = e]
       /\ frames' = [frames EXCEPT ![f] = frames[op.frame], ![op.frame].owners = {}]

FinishUnmap ==
  /\ op.kind = "unmap" /\ op.frame # 0 /\ UNCHANGED pte
  /\ frames' = [frames EXCEPT ![op.frame].owners = @ \ {"process"}]

LEMMA FinishCases ==
  ASSUME IInv, Finish
  PROVE  /\ op.kind # "none" /\ op.flushed /\ op' = NoOp /\ op.page \in Pages
         /\ UNCHANGED <<callVars, vma, tlb, mm, budget>>
         /\ \/ FinishMigrate(op.page) \/ FinishUnmap
            \/ /\ op.kind # "migrate" /\ (op.kind = "unmap" => op.frame = 0)
               /\ UNCHANGED <<frames, pte>>
  <1> USE DEF IInv
  <1> DEFINE p == op.page
             new == mk_pte(FreeFrame, protection_map(vma[p]))
             New == IF op.write THEN pte_mkwrite(new) ELSE new
  <1>1. p \in Pages /\ op.write \in BOOLEAN /\ vma[p] \in Prots
    BY DEF Types
  <1>2. op.kind # "none" /\ op.flushed /\ op' = NoOp /\ UNCHANGED <<callVars, vma, tlb, mm, budget>>
    BY DEF Finish
  <1>3. ASSUME op.kind = "migrate" PROVE FinishMigrate(p)
    <2>1. Free # {} BY <1>3 DEF Finish
    <2>2. FreeFrame \in Frames /\ frames[FreeFrame].owners = {} BY <2>1, FreeFrameIsFree
    <2>3. FreeFrame \in 0 .. NFrames BY <2>2, Constants DEF Frames
    <2>4. /\ vma[p] \in {"r", "rw"} /\ (op.write => vma[p] = "rw")
      BY <1>1, <1>3 DEF MapInv, OpInv, Prots
    <2>5. New \in Pte BY <1>1, <2>3, PteTypes
    <2>6. new = [flags |-> PAGE_READ, num |-> FreeFrame]
      BY <2>4 DEF mk_pte, protection_map
    <2>7. pte_present(new) /\ ~pte_write(new) /\ new.num = FreeFrame
      BY <2>6 DEF pte_present, pte_write, PAGE_READ
    <2>8. pte_mkwrite(new).num = FreeFrame /\ pte_mkwrite(new).flags = new.flags \cup {"WRITE"}
      BY <2>6 DEF pte_mkwrite
    <2>9. pte_present(pte_mkwrite(new)) BY <2>7, <2>8 DEF pte_present
    <2>10. /\ frames' = [frames EXCEPT ![FreeFrame] = frames[op.frame], ![op.frame].owners = {}]
           /\ pte' = [pte EXCEPT ![p] = New]
      BY <1>3 DEF Finish
    <2> HIDE DEF new
    <2>11. pte_present(New) /\ New.num = FreeFrame /\ (pte_write(New) => vma[p] = "rw" /\ op.write)
      BY <2>4, <2>7, <2>8, <2>9
    <2>12. PteFor(New, p, FreeFrame) BY <2>2, <2>5, <2>11 DEF PteFor
    <2> QED BY <1>3, <2>2, <2>5, <2>10, <2>11, <2>12 DEF FinishMigrate
  <1>4. ASSUME op.kind # "migrate", op.kind = "unmap" /\ op.frame # 0 PROVE FinishUnmap
    BY <1>4 DEF Finish, FinishUnmap
  <1>5. ASSUME op.kind # "migrate", ~(op.kind = "unmap" /\ op.frame # 0) PROVE UNCHANGED <<frames, pte>>
    BY <1>5 DEF Finish
  <1> QED BY <1>1, <1>2, <1>3, <1>4, <1>5

LEMMA FaultType ==
  ASSUME IInv, HandleMmFault
  PROVE  Types'
  <1> USE DEF IInv
  <1> DEFINE p == UserPage
  <1>1. /\ p \in Pages /\ pc' \in {"load", "store"}
        /\ UNCHANGED <<call, at, done, reg, res, pum, kmem, vma, op, mm, budget>>
        /\ FaultNew(p) \/ FaultCopy(p) \/ FaultWrite(p)
    BY FaultCases
  <1> HIDE DEF p
  <1>2. /\ pte \in [Pages -> Pte] /\ tlb \in [Pages -> Entry] /\ frames \in [Frames -> FrameType]
        /\ NoEntry \in Entry
    BY <1>1, WalkType DEF Types
  <1>3. pte' \in [Pages -> Pte] /\ tlb' \in [Pages -> Entry]
    <2>1. \E e \in Pte : pte' = [pte EXCEPT ![p] = e]
      BY <1>1 DEF FaultNew, FaultCopy, FaultWrite
    <2>2. tlb' = tlb \/ tlb' = [tlb EXCEPT ![p] = NoEntry]
      BY <1>1 DEF FaultNew, FaultCopy, FaultWrite
    <2> QED BY <1>2, <2>1, <2>2
  <1>4. frames' \in [Frames -> FrameType]
    <2>1. Zeros \in PageData BY Constants DEF Zeros, PageData
    <2>2. \A d \in PageData : [owners |-> {"process"}, data |-> d] \in FrameType
      BY DEF FrameType, Owners
    <2>3. CASE FaultNew(p)
      <3>1. PICK f \in Frames : frames' = [frames EXCEPT ![f] = [owners |-> {"process"}, data |-> Zeros]]
        BY <2>3 DEF FaultNew
      <3> QED BY <1>2, <2>1, <2>2, <3>1
    <2>4. CASE FaultCopy(p)
      <3> DEFINE g == pte[p].num
      <3>1. PICK f \in Frames :
              frames' = [[frames EXCEPT ![f] = [owners |-> {"process"}, data |-> frames[g].data]]
                           EXCEPT ![g].owners = {"child"}]
        BY <2>4 DEF FaultCopy
      <3>2. g \in Frames
        <4>1. pte[p] \in Pte /\ g # 0 BY <1>1, <1>2, <2>4 DEF FaultCopy, MapInv, PteInv
        <4> QED BY <4>1, Constants DEF Pte, Frames
      <3> HIDE DEF g
      <3>3. frames[g].data \in PageData BY <1>2, <3>2 DEF FrameType
      <3> DEFINE F == [frames EXCEPT ![f] = [owners |-> {"process"}, data |-> frames[g].data]]
      <3>4. F \in [Frames -> FrameType] BY <1>2, <2>2, <3>3
      <3>5. \A e \in FrameType : [e EXCEPT !.owners = {"child"}] \in FrameType
        BY DEF FrameType, Owners
      <3>6. frames' = [F EXCEPT ![g].owners = {"child"}] BY <3>1
      <3> HIDE DEF F
      <3> QED BY <3>2, <3>4, <3>5, <3>6
    <2>5. CASE FaultWrite(p)
      BY <1>2, <2>5 DEF FaultWrite
    <2> QED BY <1>1, <2>3, <2>4, <2>5
  <1> QED BY <1>1, <1>3, <1>4 DEF Types

LEMMA RestType ==
  ASSUME IInv, Flush \/ Finish \/ SwitchAway \/ SwitchBack \/ \E p \in Pages : Fill(p)
  PROVE  Types'
  <1> USE DEF IInv
  <1>1. /\ pte \in [Pages -> Pte] /\ tlb \in [Pages -> Entry] /\ frames \in [Frames -> FrameType]
        /\ vma \in [Pages -> Prots]
        /\ op.page \in Pages /\ op.frame \in 0 .. NFrames
    BY DEF Types
  <1>2. NoEntry \in Entry /\ "r" \in Prots BY <1>1, WalkType DEF Prots
  <1>3. CASE Flush
    <2>1. __swp_entry_to_pte(op.frame) \in Pte BY <1>1, <1>2, PteTypes
    <2>2. pte' \in [Pages -> Pte] BY <1>1, <1>3, <2>1, FlushCases
    <2>3. tlb' \in [Pages -> Entry] BY <1>1, <1>2, <1>3, FlushCases
    <2>4. op' = [op EXCEPT !.flushed = TRUE] /\ UNCHANGED <<callVars, vma, frames, mm, budget>>
      BY <1>3, FlushCases
    <2> QED BY <2>2, <2>3, <2>4 DEF Types, callVars
  <1>4. CASE Finish
    <2>1. op' = NoOp /\ UNCHANGED <<callVars, vma, tlb, mm, budget>>
          /\ \/ FinishMigrate(op.page) \/ FinishUnmap \/ UNCHANGED <<frames, pte>>
      BY <1>4, FinishCases
    <2>2. NoOp \in [kind : {"none", "migrate", "protect", "unmap", "fork"}, page : Pages,
             frame : 0 .. NFrames, prot : Prots, write : BOOLEAN, flushed : BOOLEAN]
      BY Constants DEF NoOp, Pages, Prots
    <2>3. pte' \in [Pages -> Pte] BY <1>1, <2>1 DEF FinishMigrate, FinishUnmap
    <2>4. frames' \in [Frames -> FrameType]
      <3>1. ASSUME NEW e \in FrameType
            PROVE  [e EXCEPT !.owners = {}] \in FrameType
                   /\ [e EXCEPT !.owners = @ \ {"process"}] \in FrameType
        <4>1. {} \in SUBSET Owners /\ e.owners \ {"process"} \in SUBSET Owners BY DEF FrameType
        <4> QED BY <4>1 DEF FrameType
      <3>2. CASE FinishMigrate(op.page)
        <4>1. PICK f \in Frames :
                frames' = [frames EXCEPT ![f] = frames[op.frame], ![op.frame].owners = {}]
          BY <3>2 DEF FinishMigrate
        <4>2. op.frame \in Frames
          <5>1. op.frame # 0 BY <3>2 DEF FinishMigrate, MapInv, OpInv
          <5> QED BY <1>1, <5>1, Constants DEF Frames
        <4> DEFINE F == [frames EXCEPT ![f] = frames[op.frame]]
        <4>3. F \in [Frames -> FrameType] BY <1>1, <4>2
        <4>4. frames' = [F EXCEPT ![op.frame].owners = {}] BY <4>1
        <4> HIDE DEF F
        <4> QED BY <3>1, <4>2, <4>3, <4>4
      <3>3. CASE FinishUnmap
        <4>1. op.frame \in Frames BY <1>1, <3>3, Constants DEF FinishUnmap, Frames
        <4> QED BY <1>1, <3>1, <3>3, <4>1 DEF FinishUnmap
      <3> QED BY <1>1, <2>1, <3>2, <3>3
    <2> QED BY <2>1, <2>2, <2>3, <2>4 DEF Types, callVars
  <1>5. CASE SwitchAway \/ SwitchBack
    <2>1. tlb' \in [Pages -> Entry]
      BY <1>2, <1>5 DEF SwitchAway, SwitchBack, switch_mm, flush_tlb_all
    <2>2. mm' \in {"process", "other"} /\ UNCHANGED <<callVars, mapVars>>
      BY <1>5 DEF SwitchAway, SwitchBack, switch_mm
    <2>3. budget' \in Nat BY <1>5 DEF SwitchAway, SwitchBack, Types
    <2> QED BY <2>1, <2>2, <2>3 DEF Types, callVars, mapVars
  <1>6. CASE \E p \in Pages : Fill(p)
    <2>1. PICK p \in Pages : Fill(p) BY <1>6
    <2>2. \E e \in Entry : tlb' = [tlb EXCEPT ![p] = e]
      <3>1. Walk(p) \in Entry /\ [write |-> TRUE, frame |-> NFrames] \in Entry BY WalkType
      <3> QED BY <2>1, <3>1 DEF Fill
    <2>3. tlb' \in [Pages -> Entry] BY <1>1, <2>2
    <2>4. UNCHANGED <<callVars, mapVars, mm, budget>> BY <2>1 DEF Fill
    <2> QED BY <2>3, <2>4 DEF Types, callVars, mapVars
  <1> QED BY <1>3, <1>4, <1>5, <1>6

LEMMA StepTypes ==
  ASSUME IInv, [Next]_vars
  PROVE  Types'
  <1>1. CASE Next
    BY <1>1, CallType, LoopType, FixupType, ChangeType, FaultType, RestType DEF Next, Copy
  <1>2. CASE UNCHANGED vars
    BY <1>2 DEF IInv, Types, vars, callVars, mapVars
  <1> QED BY <1>1, <1>2

-----------------------------------------------------------------------------
(* Every action keeps the loop's invariant. *)
LEMMA SameStep ==
  ASSUME call' = call, done' = done
  PROVE  /\ step' = step /\ left' = left /\ src' = src /\ dst' = dst /\ get_put_step' = get_put_step
         /\ OfUser' = OfUser /\ UserAt' = UserAt
         /\ \A a, first : Between(a, first)' <=> Between(a, first)
  <1>1. left' = left /\ src' = src /\ dst' = dst BY DEF left, src, dst
  <1>2. \A a, first : Between(a, first)' <=> Between(a, first) BY DEF Between
  <1>3. get_put_step' = get_put_step BY DEF get_put_step
  <1>4. copy_step' = copy_step /\ clear_step' = clear_step
    BY <1>1, <1>2 DEF copy_step, clear_step
  <1>5. memset_step' = memset_step /\ memcpy_step' = memcpy_step
    BY <1>1 DEF memset_step, memcpy_step
  <1>6. step' = step BY <1>3, <1>4, <1>5 DEF step
  <1>7. OfUser' = OfUser /\ UserAt' = UserAt BY <1>1 DEF OfUser, UserAt
  <1> QED BY <1>1, <1>2, <1>3, <1>6, <1>7

(* A call that access_ok admits stays in the process's addresses. *)
LEMMA CallLoop ==
  ASSUME IInv, NEW c \in Calls, Call(c)
  PROVE  LoopInv' /\ AlignInv'
  <1>1. c.fn \in Routines /\ c.dst \in Nat /\ c.src \in Nat /\ c.n \in Nat BY CallsAssumption
  <1>2. pc = "new" /\ call' = c /\ done' = 0 /\ reg' = <<>> BY DEF Call
  <1>3. pum = TRUE BY <1>2 DEF IInv, Types, LoopInv, Busy
  <1>4. CASE pc' = "idle"
    <2>1. ~Busy' /\ pum' = pum BY <1>4 DEF Call, Busy
    <2> QED BY <1>2, <1>3, <1>4, <2>1 DEF LoopInv, AlignInv
  <1>5. CASE pc' = "load"
    <2>1. pum' = (c.fn \notin UserStores \cup UserLoads) BY <1>5 DEF Call
    <2>2. /\ c.fn \in UserStores => access_ok(c.dst, c.n)
          /\ c.fn \in UserLoads => access_ok(c.src, c.n)
      BY <1>5 DEF Call, UserStores, UserLoads
    <2>3. /\ c.fn \in UserStores => c.dst + c.n <= TASK_SIZE
          /\ c.fn \in UserLoads => c.src + c.n <= TASK_SIZE
      BY <1>1, <2>2, Constants DEF access_ok
    <2>4. dst' = c.dst /\ src' = c.src BY <1>1, <1>2 DEF dst, src
    <2>5. Busy' /\ Where' = "load" BY <1>5 DEF Busy, Where
    <2>6. (pum <=> ~(Busy /\ OfUser))' BY <1>2, <2>1, <2>5 DEF OfUser
    <2>7. LoopInv' BY <1>1, <1>2, <1>5, <2>3, <2>5, <2>6 DEF LoopInv
    <2>8. AlignInv'
      <3>1. \A a, first : Between(a, first)' <=>
              /\ a >= ((first + SZREG - 1) \div SZREG) * SZREG
              /\ a < ((first + c.n) \div SZREG) * SZREG
        BY <1>2 DEF Between
      <3>2. ASSUME NEW a \in Nat, Between(a, a)' PROVE a % SZREG = 0
        <4> DEFINE b == a + SZREG - 1
                   q == b \div SZREG
                   r == b % SZREG
        <4>1. b \in Int BY Constants
        <4>2. q \in Int /\ r \in 0 .. SZREG - 1 /\ b = SZREG * q + r BY <4>1, Constants, DivMod
        <4>3. a >= q * SZREG BY <3>1, <3>2
        <4> HIDE DEF q, r
        <4>4. q * SZREG = SZREG * q /\ SZREG * q \in Int BY <4>2, Constants
        <4>5. a = SZREG * q BY <4>2, <4>3, <4>4, Constants
        <4>6. a \in Int OBVIOUS
        <4> QED BY <4>2, <4>5, <4>6, Constants, Multiple
      <3>3. ASSUME c.fn \in {"get_user", "put_user"} PROVE 0 % get_put_step' = 0
        <4>1. get_put_step' = IF c.n > SZREG THEN SZREG ELSE c.n BY <1>2 DEF get_put_step
        <4>2. c.n > 0 BY <3>3, CallsAssumption DEF Variable
        <4>3. \A m \in Nat \ {0} : 0 % m = 0
          <5> TAKE m \in Nat \ {0}
          <5>1. m * 0 = 0 OBVIOUS
          <5> QED BY <5>1, Multiple
        <4> QED BY <1>1, <4>1, <4>2, <4>3, Constants
      <3> QED BY <1>1, <1>2, <2>4, <3>2, <3>3 DEF AlignInv
    <2> QED BY <2>7, <2>8
  <1> QED BY <1>4, <1>5 DEF Call

LEMMA StepLoop ==
  ASSUME IInv, [Next]_vars
  PROVE  LoopInv' /\ AlignInv'
  <1> USE DEF IInv
  <1>1. ASSUME Load PROVE LoopInv' /\ AlignInv'
    <2>1. /\ pc = "load" /\ left > 0 /\ pc' = "store"
          /\ call' = call /\ done' = done /\ pum' = pum
      BY <1>1 DEF Load, Running
    <2>2. Len(reg') = step BY <1>1, Loaded
    <2>3. Busy /\ Busy' /\ Where' = "store" BY <2>1 DEF Busy, Where
    <2>4. (pum <=> ~(Busy /\ OfUser))' BY <2>1, <2>3 DEF LoopInv, OfUser
    <2>5. LoopInv' BY <2>1, <2>2, <2>3, <2>4, SameStep DEF LoopInv
    <2>6. AlignInv' BY <2>1, <2>3, SameStep DEF AlignInv
    <2> QED BY <2>5, <2>6
  <1>2. ASSUME Store PROVE LoopInv' /\ AlignInv'
    <2>1. /\ pc = "store" /\ pc' = "load" /\ reg' = <<>>
          /\ call' = call /\ done' = done + Len(reg) /\ pum' = pum
      BY <1>2 DEF Store, Running
    <2>2. Busy /\ Busy' /\ Where = "store" /\ Where' = "load" BY <2>1 DEF Busy, Where
    <2>3. left > 0 /\ Len(reg) = step BY <2>2 DEF LoopInv
    <2>4. step \in 1 .. left BY <2>2, <2>3, StepBounds
    <2>5. done' <= call.n
      BY <2>1, <2>3, <2>4, CallTypes DEF left
    <2>6. (pum <=> ~(Busy /\ OfUser))' BY <2>1, <2>2 DEF LoopInv, OfUser
    <2>7. LoopInv' BY <2>1, <2>2, <2>5, <2>6 DEF LoopInv
    <2>8. AlignInv' BY <2>1, <2>2, <2>3, StepAligned
    <2> QED BY <2>7, <2>8
  <1>3. ASSUME Return \/ fixup_exception PROVE LoopInv' /\ AlignInv'
    <2>1. pc # "new" /\ pc' = "idle" /\ pum' = TRUE /\ call' = call
      BY <1>3 DEF Return, fixup_exception, fixup, FaultMayRun, Running
    <2>2. ~Busy' BY <2>1 DEF Busy
    <2> QED BY <2>1, <2>2 DEF LoopInv, AlignInv
  <1>4. ASSUME Trap PROVE LoopInv' /\ AlignInv'
    <2>1. /\ pc \in {"load", "store"} /\ at' = pc /\ pc' = "trap" /\ Accessing
          /\ call' = call /\ done' = done /\ pum' = pum /\ reg' = reg
      BY <1>4 DEF Trap, Accessing, Running
    <2>2. Busy /\ Busy' /\ Where' = Where /\ Where = pc BY <2>1 DEF Busy, Where
    <2>3. /\ left > 0
          /\ IF Where = "load" THEN call.fn \in UserLoads ELSE call.fn \in UserStores
      BY <2>1, TrapPage
    <2>4. (pum <=> ~(Busy /\ OfUser))' BY <2>1, <2>2 DEF LoopInv, OfUser
    <2>5. LoopInv' BY <2>1, <2>2, <2>3, <2>4, SameStep DEF LoopInv
    <2>6. AlignInv' BY <2>1, <2>2, SameStep DEF AlignInv
    <2> QED BY <2>5, <2>6
  <1>5. ASSUME HandleMmFault PROVE LoopInv' /\ AlignInv'
    <2>1. /\ pc = "trap" /\ pc' = at /\ at \in {"load", "store"}
          /\ call' = call /\ done' = done /\ pum' = pum /\ reg' = reg
      BY <1>5, FaultCases
    <2>2. Busy /\ Busy' /\ Where' = Where /\ pc' # "trap" BY <2>1 DEF Busy, Where
    <2>3. (pum <=> ~(Busy /\ OfUser))' BY <2>1, <2>2 DEF LoopInv, OfUser
    <2>4. LoopInv' BY <2>1, <2>2, <2>3, SameStep DEF LoopInv
    <2>5. AlignInv' BY <2>1, <2>2, SameStep DEF AlignInv
    <2> QED BY <2>4, <2>5
  <1>6. ASSUME UNCHANGED callVars PROVE LoopInv' /\ AlignInv'
    <2>1. Busy' <=> Busy BY <1>6 DEF callVars, Busy
    <2>2. Where' = Where BY <1>6 DEF callVars, Where
    <2>3. call' = call /\ done' = done /\ pc' = pc /\ at' = at /\ reg' = reg /\ pum' = pum
      BY <1>6 DEF callVars
    <2>4. (pum <=> ~(Busy /\ OfUser))' BY <2>1, <2>3 DEF LoopInv, OfUser
    <2>5. LoopInv' BY <2>1, <2>2, <2>3, <2>4, SameStep DEF LoopInv
    <2>6. AlignInv' BY <2>1, <2>3, SameStep DEF AlignInv
    <2> QED BY <2>5, <2>6
  <1>7. ASSUME (\E p \in Pages : Fill(p)) \/ Change \/ Flush \/ Finish \/ SwitchAway \/ SwitchBack
        PROVE  UNCHANGED callVars
    <2>1. (\E p \in Pages : Fill(p)) => UNCHANGED callVars BY DEF Fill
    <2>2. Change => UNCHANGED callVars BY ChangeCases
    <2>3. Flush \/ Finish => UNCHANGED callVars BY DEF Flush, Finish
    <2>4. SwitchAway \/ SwitchBack => UNCHANGED callVars BY DEF SwitchAway, SwitchBack, switch_mm
    <2> QED BY <1>7, <2>1, <2>2, <2>3, <2>4
  <1>8. CASE UNCHANGED vars BY <1>6, <1>8 DEF vars
  <1>9. CASE Next
    BY <1>1, <1>2, <1>3, <1>4, <1>5, <1>6, <1>7, <1>9, CallLoop DEF Next, Copy
  <1> QED BY <1>8, <1>9

-----------------------------------------------------------------------------
(* The mapping. *)
LEMMA FrameFacts ==
  ASSUME Types, MapInv, NEW p \in Pages
  PROVE  /\ FrameOf(p) \in 0 .. NFrames
         /\ FrameOf(p) # 0 => FrameOf(p) \in Frames
         /\ pte_present(pte[p]) => ~Held(p) /\ FrameOf(p) = pte[p].num /\ pte[p].num \in Frames
         /\ ~pte_present(pte[p]) => FrameOf(p) = IF Held(p) THEN op.frame ELSE 0
         /\ pte_write(pte[p]) => pte_present(pte[p])
         /\ op.frame \in 0 .. NFrames /\ op.page \in Pages
         /\ op.frame # 0 => op.frame \in Frames
  <1>1. op.frame \in 0 .. NFrames /\ op.page \in Pages BY DEF Types
  <1>2. pte[p] \in Pte BY DEF Types
  <1>3. pte[p].num \in 0 .. NFrames BY <1>2 DEF Pte
  <1>4. \A f \in 0 .. NFrames : f # 0 => f \in Frames BY Constants DEF Frames
  <1>5. Held(p) => ~pte_present(pte[p]) BY DEF Held, MapInv, OpInv
  <1>6. pte_present(pte[p]) => pte[p].num # 0 BY DEF MapInv, PteInv
  <1>7. ~pte_present(pte[p]) => pte[p].flags = {} BY DEF MapInv, PteInv
  <1>8. pte_write(pte[p]) => pte_present(pte[p]) BY <1>7 DEF pte_write
  <1>9. FrameOf(p) = IF Held(p) THEN op.frame ELSE IF pte_present(pte[p]) THEN pte[p].num ELSE 0
    BY DEF FrameOf
  <1>10. FrameOf(p) \in 0 .. NFrames BY <1>1, <1>3, <1>9, Constants
  <1> QED BY <1>1, <1>3, <1>4, <1>5, <1>6, <1>8, <1>9, <1>10

LEMMA ProtsAt ==
  ASSUME NEW p \in Pages
  PROVE  prots[p] = IF op.kind \in {"protect", "unmap"} /\ op.page = p /\ ~op.flushed
                    THEN op.prot ELSE vma[p]
  BY DEF prots

LEMMA NoEntryFrame == NoEntry.frame = 0 BY DEF NoEntry

(* The byte of page p at offset r, and a step that is not to be seen by    *)
(* the process: neither its bytes nor its permissions change.              *)
Byte(p, r) == IF FrameOf(p) = 0 THEN 0 ELSE frames[FrameOf(p)].data[r]

Invisible ==
  /\ prots' = prots
  /\ \A p \in Pages, r \in 0 .. PageSize - 1 : Byte(p, r)' = Byte(p, r)

LEMMA SameView ==
  ASSUME \A p \in Pages : prots'[p] = prots[p],
         \A p \in Pages : FrameOf(p)' = FrameOf(p),
         \A p \in Pages : FrameOf(p) # 0 => frames'[FrameOf(p)].data = frames[FrameOf(p)].data
  PROVE  Invisible
  <1>1. prots = [p \in Pages |-> prots[p]] /\ prots' = [p \in Pages |-> prots'[p]] BY DEF prots
  <1>2. prots' = prots BY <1>1
  <1>3. ASSUME NEW p \in Pages, NEW r \in 0 .. PageSize - 1 PROVE Byte(p, r)' = Byte(p, r)
    BY DEF Byte
  <1> QED BY <1>2, <1>3 DEF Invisible

(* Nothing changes but the bytes in the frames. *)
LEMMA SameMap ==
  ASSUME IInv, UNCHANGED <<vma, pte, op, tlb, mm>>,
         \A f \in Frames : frames'[f].owners = frames[f].owners
  PROVE  MapInv'
  <1> USE DEF IInv
  <1>1. \A p \in Pages : FrameOf(p)' = FrameOf(p) BY DEF FrameOf, Held
  <1>2. prots' = prots BY DEF prots
  <1>3. \A p \in Pages :
          /\ FrameOf(p) # 0 => frames'[FrameOf(p)].owners = frames[FrameOf(p)].owners
          /\ pte_present(pte[p]) => frames'[pte[p].num].owners = frames[pte[p].num].owners
    BY FrameFacts
  <1>4. op.frame # 0 => frames'[op.frame].owners = frames[op.frame].owners
    BY FrameFacts, Constants DEF Pages, Types
  <1>5. op.page \in Pages BY DEF Types
  <1>6. OwnInv' BY <1>1, <1>3 DEF MapInv, OwnInv
  <1>7. PteInv' BY <1>3 DEF MapInv, PteInv
  <1>8. OpInv' BY <1>1, <1>3, <1>4, <1>5 DEF MapInv, OpInv
  <1>9. TlbInv'
    <2> SUFFICES ASSUME mm = "process", NEW p \in Pages
                 PROVE  IF tlb[p].frame = 0 THEN tlb[p] = NoEntry
                        ELSE /\ tlb[p].frame = FrameOf(p) /\ prots[p] # "none"
                             /\ tlb[p].write =>
                                  /\ prots[p] = "rw"
                                  /\ "child" \in frames'[FrameOf(p)].owners => op.kind = "fork" /\ ~op.flushed
      BY <1>1, <1>2 DEF TlbInv
    <2> QED BY <1>3 DEF MapInv, TlbInv
  <1> QED BY <1>6, <1>7, <1>8, <1>9 DEF MapInv

LEMMA CopyMap ==
  ASSUME IInv, (\E c \in Calls : Call(c)) \/ Load \/ Store \/ Return \/ Trap \/ fixup_exception
               \/ UNCHANGED vars
  PROVE  MapInv'
  <1>1. CASE UNCHANGED <<mapVars, tlb, mm>>
    BY <1>1, SameMap DEF mapVars
  <1>2. CASE Store
    <2>1. UNCHANGED <<vma, pte, op, tlb, mm>> BY <1>2 DEF Store
    <2>2. \A f \in Frames : frames'[f].owners = frames[f].owners
      <3>1. frames' = frames \/ \E g, d : frames' = [frames EXCEPT ![g].data = d]
        BY <1>2 DEF Store
      <3>2. frames \in [Frames -> FrameType] BY DEF IInv, Types
      <3>3. CASE \E g, d : frames' = [frames EXCEPT ![g].data = d]
        <4>1. PICK g, d : frames' = [frames EXCEPT ![g].data = d] BY <3>3
        <4>2. \A f \in Frames : frames'[f] = IF f = g THEN [frames[f] EXCEPT !.data = d] ELSE frames[f]
          BY <3>2, <4>1
        <4> SUFFICES ASSUME NEW f \in Frames PROVE frames'[f].owners = frames[f].owners
          OBVIOUS
        <4>3. frames[f] \in FrameType BY <3>2
        <4>4. [frames[f] EXCEPT !.data = d].owners = frames[f].owners BY <4>3 DEF FrameType
        <4> QED BY <4>2, <4>4
      <3> QED BY <3>1, <3>3
    <2> QED BY <2>1, <2>2, SameMap
  <1>3. (\E c \in Calls : Call(c)) \/ Load \/ Return \/ Trap \/ fixup_exception \/ UNCHANGED vars
          => UNCHANGED <<mapVars, tlb, mm>>
    BY DEF Call, Load, Return, Trap, fixup_exception, fixup, vars
  <1> QED BY <1>1, <1>2, <1>3

(* The TLB takes an entry. *)
LEMMA FillMap ==
  ASSUME IInv, NEW p \in Pages, Fill(p)
  PROVE  MapInv' /\ Invisible
  <1> USE DEF IInv
  <1>1. /\ tlb[p] = NoEntry /\ tlb' # tlb /\ UNCHANGED <<vma, pte, frames, op, mm>>
        /\ tlb' = [tlb EXCEPT ![p] = IF mm = "process" THEN Walk(p) ELSE [write |-> TRUE, frame |-> NFrames]]
        /\ tlb \in [Pages -> Entry]
    BY DEF Fill, mapVars, Types
  <1>2. \A q \in Pages : FrameOf(q)' = FrameOf(q) BY <1>1 DEF FrameOf, Held
  <1>3. prots' = prots BY <1>1 DEF prots
  <1>4. OwnInv' BY <1>1, <1>2 DEF MapInv, OwnInv
  <1>5. PteInv' BY <1>1 DEF MapInv, PteInv
  <1>6. Invisible BY <1>1, <1>2, <1>3, SameView
  <1>7. CASE mm # "process"
    <2>1. TlbInv' BY <1>1, <1>7 DEF TlbInv
    <2>2. OpInv' BY <1>1, <1>2, <1>7, FrameFacts DEF MapInv, OpInv
    <2> QED BY <1>4, <1>5, <1>6, <2>1, <2>2 DEF MapInv
  <1>8. CASE mm = "process"
    <2>1. tlb' = [tlb EXCEPT ![p] = Walk(p)] BY <1>1, <1>8
    <2>2. Walk(p) # NoEntry BY <1>1, <2>1
    <2>3. pte_present(pte[p]) /\ Walk(p) = [write |-> pte_write(pte[p]), frame |-> pte[p].num]
      BY <2>2 DEF Walk
    <2>4. /\ tlb'[p].frame = pte[p].num /\ (tlb'[p].write => pte_write(pte[p]))
          /\ \A q \in Pages \ {p} : tlb'[q] = tlb[q]
      <3>1. tlb'[p] = [write |-> pte_write(pte[p]), frame |-> pte[p].num]
            /\ \A q \in Pages \ {p} : tlb'[q] = tlb[q]
        BY <1>1, <2>1, <2>3
      <3>2. tlb'[p].write = pte_write(pte[p]) /\ tlb'[p].frame = pte[p].num BY <3>1
      <3> QED BY <3>1, <3>2
    <2>5. ~Held(p) /\ FrameOf(p) = pte[p].num /\ pte[p].num \in Frames BY <2>3, FrameFacts
    <2>6. vma[p] # "none" /\ (pte_write(pte[p]) => vma[p] = "rw" /\ "child" \notin frames[pte[p].num].owners)
      BY <2>3 DEF MapInv, PteInv
    <2>7. op.page = p => op.kind \notin {"migrate", "unmap"}
      BY <2>3 DEF MapInv, OpInv
    <2>8. op.page = p /\ op.kind = "protect" => op.prot # "none" /\ ~pte_write(pte[p])
      BY DEF MapInv, OpInv
    <2>9. prots[p] # "none" /\ (pte_write(pte[p]) => prots[p] = "rw")
      BY <2>6, <2>7, <2>8, ProtsAt
    <2>10. pte[p].num # 0 BY <2>5, Constants DEF Frames
    <2>11. TlbInv'
      <3> SUFFICES ASSUME NEW q \in Pages
                   PROVE  IF tlb'[q].frame = 0 THEN tlb'[q] = NoEntry
                          ELSE /\ tlb'[q].frame = FrameOf(q) /\ prots[q] # "none"
                               /\ tlb'[q].write =>
                                    /\ prots[q] = "rw"
                                    /\ "child" \in frames[FrameOf(q)].owners => op.kind = "fork" /\ ~op.flushed
        BY <1>1, <1>2, <1>3 DEF TlbInv
      <3>1. CASE q = p BY <2>4, <2>5, <2>6, <2>9, <2>10, <3>1
      <3>2. CASE q # p BY <1>8, <2>4, <3>2 DEF MapInv, TlbInv
      <3> QED BY <3>1, <3>2
    <2>12. OpInv' BY <1>1, <1>2, <2>4, <2>7, FrameFacts DEF MapInv, OpInv
    <2> QED BY <1>4, <1>5, <1>6, <2>11, <2>12 DEF MapInv
  <1> QED BY <1>7, <1>8

(* handle_mm_fault: whichever frame the page gets is its own, and a stale  *)
(* entry of the page is flushed.                                           *)
LEMMA FaultFrames ==
  ASSUME IInv, NEW p \in Pages, op.kind # "none" => op.kind = "migrate" /\ op.page # p,
         UNCHANGED <<vma, op, mm>>,
         FaultNew(p) \/ FaultCopy(p) \/ FaultWrite(p)
  PROVE  \E f \in Frames, e \in Pte :
           /\ PteFor(e, p, f) /\ pte' = [pte EXCEPT ![p] = e]
           /\ "process" \in frames'[f].owners
           /\ pte_write(e) => "child" \notin frames'[f].owners
           /\ \A q \in Pages \ {p} : FrameOf(q) # 0 =>
                /\ FrameOf(q) # f /\ frames'[FrameOf(q)].owners = frames[FrameOf(q)].owners
                /\ frames'[FrameOf(q)].data = frames[FrameOf(q)].data
           /\ frames'[f].data = IF FrameOf(p) = 0 THEN Zeros ELSE frames[FrameOf(p)].data
           /\ ~Held(p)
           /\ mm = "process" => tlb'[p] = NoEntry
           /\ \A q \in Pages \ {p} : tlb'[q] = tlb[q]
  <1> USE DEF IInv
  <1>1. frames \in [Frames -> FrameType] /\ tlb \in [Pages -> Entry] BY DEF Types
  <1>2. ~Held(p) BY DEF Held
  <1>3. ASSUME NEW q \in Pages, FrameOf(q) # 0
        PROVE  FrameOf(q) \in Frames /\ "process" \in frames[FrameOf(q)].owners
               /\ \A r \in Pages \ {q} : FrameOf(r) # FrameOf(q)
    BY <1>3, FrameFacts DEF MapInv, OwnInv
  <1>4. CASE FaultNew(p)
    <2>1. PICK f \in Frames, e \in Pte :
            /\ frames[f].owners = {} /\ PteFor(e, p, f)
            /\ pte' = [pte EXCEPT ![p] = e]
            /\ frames' = [frames EXCEPT ![f] = [owners |-> {"process"}, data |-> Zeros]]
      BY <1>4 DEF FaultNew
    <2>2. frames'[f].owners = {"process"} /\ frames'[f].data = Zeros
          /\ \A g \in Frames : g # f => frames'[g] = frames[g]
      BY <1>1, <2>1
    <2>3. FrameOf(p) = 0 /\ tlb' = tlb BY <1>2, <1>4, FrameFacts DEF FaultNew
    <2>4. mm = "process" => tlb'[p] = NoEntry
      <3>1. mm = "process" /\ tlb[p].frame # 0 => tlb[p].frame = FrameOf(p)
        BY DEF MapInv, TlbInv
      <3>2. mm = "process" /\ tlb[p].frame = 0 => tlb[p] = NoEntry
        BY DEF MapInv, TlbInv
      <3> QED BY <2>3, <3>1, <3>2
    <2>5. \A q \in Pages \ {p} : FrameOf(q) # 0 =>
                /\ FrameOf(q) # f /\ frames'[FrameOf(q)] = frames[FrameOf(q)]
      BY <1>3, <2>1, <2>2
    <2> QED BY <1>2, <2>1, <2>2, <2>3, <2>4, <2>5
  <1>5. CASE FaultCopy(p)
    <2> DEFINE g == pte[p].num
    <2>1. PICK f \in Frames, e \in Pte :
            /\ frames[f].owners = {} /\ PteFor(e, p, f)
            /\ pte' = [pte EXCEPT ![p] = e]
            /\ frames' = [[frames EXCEPT ![f] = [owners |-> {"process"}, data |-> frames[g].data]]
                             EXCEPT ![g].owners = {"child"}]
      BY <1>5 DEF FaultCopy
    <2>2. g \in Frames /\ FrameOf(p) = g /\ FrameOf(p) # 0 /\ "child" \in frames[g].owners
      BY <1>5, FrameFacts, Constants DEF FaultCopy, Frames
    <2>3. tlb' = [tlb EXCEPT ![p] = NoEntry] BY <1>5 DEF FaultCopy
    <2> HIDE DEF g
    <2>4. g # f BY <2>1, <2>2
    <2>5. frames'[f].owners = {"process"} /\ frames'[f].data = frames[g].data
          /\ \A h \in Frames : h # f /\ h # g => frames'[h] = frames[h]
      BY <1>1, <2>1, <2>2, <2>4
    <2>6. \A q \in Pages \ {p} : FrameOf(q) # 0 =>
                /\ FrameOf(q) # f /\ FrameOf(q) # g /\ frames'[FrameOf(q)] = frames[FrameOf(q)]
      BY <1>3, <2>1, <2>2, <2>5
    <2>7. tlb'[p] = NoEntry /\ \A q \in Pages \ {p} : tlb'[q] = tlb[q] BY <1>1, <2>3
    <2> QED BY <1>2, <2>1, <2>2, <2>5, <2>6, <2>7
  <1>6. CASE FaultWrite(p)
    <2> DEFINE f == pte[p].num
    <2>1. PICK e \in Pte :
            /\ PteFor(e, p, f)
            /\ pte_write(e) => pte_write(pte[p]) \/ "child" \notin frames[f].owners
            /\ pte' = [pte EXCEPT ![p] = e]
      BY <1>6 DEF FaultWrite
    <2>2. f \in Frames /\ FrameOf(p) = f /\ FrameOf(p) # 0
      BY <1>6, FrameFacts, Constants DEF FaultWrite, Frames
    <2>3. pte_write(pte[p]) => "child" \notin frames[f].owners
      BY <1>6 DEF FaultWrite, MapInv, PteInv
    <2>4. tlb' = [tlb EXCEPT ![p] = NoEntry] /\ frames' = frames BY <1>6 DEF FaultWrite
    <2> HIDE DEF f
    <2>5. \A q \in Pages \ {p} : FrameOf(q) # 0 => FrameOf(q) # f BY <1>3, <2>2
    <2>6. "process" \in frames[f].owners BY <1>3, <2>2
    <2>7. tlb'[p] = NoEntry /\ \A q \in Pages \ {p} : tlb'[q] = tlb[q] BY <1>1, <2>4
    <2> QED BY <1>2, <2>1, <2>2, <2>3, <2>4, <2>5, <2>6, <2>7
  <1> QED BY <1>4, <1>5, <1>6

LEMMA FaultMap ==
  ASSUME IInv, HandleMmFault
  PROVE  MapInv' /\ Invisible
  <1> USE DEF IInv
  <1>0. PICK p \in Pages : p = UserPage
    BY FaultCases
  <1>1. /\ p \in Pages /\ vma[p] # "none"
        /\ op.kind # "none" => op.kind = "migrate" /\ op.page # p
        /\ UNCHANGED <<vma, op, mm>>
        /\ FaultNew(p) \/ FaultCopy(p) \/ FaultWrite(p)
    BY <1>0, FaultCases
  <1>2. PICK f \in Frames, e \in Pte :
           /\ PteFor(e, p, f) /\ pte' = [pte EXCEPT ![p] = e]
           /\ "process" \in frames'[f].owners
           /\ pte_write(e) => "child" \notin frames'[f].owners
           /\ \A q \in Pages \ {p} : FrameOf(q) # 0 =>
                /\ FrameOf(q) # f /\ frames'[FrameOf(q)].owners = frames[FrameOf(q)].owners
                /\ frames'[FrameOf(q)].data = frames[FrameOf(q)].data
           /\ frames'[f].data = IF FrameOf(p) = 0 THEN Zeros ELSE frames[FrameOf(p)].data
           /\ ~Held(p)
           /\ mm = "process" => tlb'[p] = NoEntry
           /\ \A q \in Pages \ {p} : tlb'[q] = tlb[q]
    BY <1>1, FaultFrames
  <1>3. pte'[p] = e /\ \A q \in Pages \ {p} : pte'[q] = pte[q]
    BY <1>1, <1>2 DEF Types
  <1>4. pte_present(e) /\ e.num = f /\ f # 0 /\ (pte_write(e) => vma[p] = "rw")
    BY <1>2, Constants DEF PteFor, Frames
  <1>5. \A q \in Pages : Held(q)' = Held(q) BY <1>1 DEF Held
  <1>6. FrameOf(p)' = f BY <1>1, <1>2, <1>3, <1>4, <1>5 DEF FrameOf
  <1>7. \A q \in Pages \ {p} : FrameOf(q)' = FrameOf(q) BY <1>1, <1>3, <1>5 DEF FrameOf
  <1>8. prots' = prots BY <1>1 DEF prots
  <1>9. OwnInv'
    <2> SUFFICES ASSUME NEW q \in Pages, FrameOf(q)' # 0
                 PROVE  /\ "process" \in frames'[FrameOf(q)'].owners
                        /\ \A r \in Pages \ {q} : FrameOf(r)' # FrameOf(q)'
      BY DEF OwnInv
    <2>1. CASE q = p BY <1>2, <1>4, <1>6, <1>7, <2>1
    <2>2. CASE q # p
      <3>1. FrameOf(q)' = FrameOf(q) BY <1>7, <2>2
      <3>2. "process" \in frames[FrameOf(q)].owners /\ \A r \in Pages \ {q} : FrameOf(r) # FrameOf(q)
        BY <3>1 DEF MapInv, OwnInv
      <3> QED BY <1>2, <1>6, <1>7, <2>2, <3>1, <3>2
    <2> QED BY <2>1, <2>2
  <1>10. PteInv'
    <2> SUFFICES ASSUME NEW q \in Pages
                 PROVE  /\ pte_present(pte'[q]) =>
                             /\ pte'[q].num # 0 /\ vma[q] # "none"
                             /\ pte_write(pte'[q]) => vma[q] = "rw" /\ "child" \notin frames'[pte'[q].num].owners
                        /\ ~pte_present(pte'[q]) => pte'[q].flags = {}
      BY <1>1 DEF PteInv
    <2>1. CASE q = p BY <1>1, <1>2, <1>3, <1>4, <2>1
    <2>2. CASE q # p
      <3>1. pte'[q] = pte[q] BY <1>3, <2>2
      <3>2. pte_present(pte[q]) => FrameOf(q) = pte[q].num /\ pte[q].num # 0
        BY FrameFacts, Constants DEF Frames
      <3>3. pte_present(pte[q]) => frames'[pte[q].num].owners = frames[pte[q].num].owners
        BY <1>2, <2>2, <3>2
      <3> QED BY <3>1, <3>3 DEF MapInv, PteInv
    <2> QED BY <2>1, <2>2
  <1>11. OpInv'
    <2>1. CASE op.kind = "none" BY <1>1, <2>1 DEF OpInv
    <2>2. CASE op.kind = "migrate"
      <3> DEFINE o == op.page
      <3>1. o \in Pages /\ o # p BY <1>1, <2>2 DEF Types
      <3>2. FrameOf(o) = op.frame /\ op.frame # 0 BY <2>2 DEF FrameOf, Held, MapInv, OpInv
      <3>3. frames'[op.frame].owners = frames[op.frame].owners /\ f # op.frame
        BY <1>2, <3>1, <3>2
      <3>4. pte'[o] = pte[o] /\ tlb'[o] = tlb[o] BY <1>2, <1>3, <3>1
      <3>5. \A q \in Pages \ {o} : FrameOf(q)' # op.frame
        <4>1. \A q \in Pages \ {o} : FrameOf(q) # op.frame BY <2>2 DEF MapInv, OpInv
        <4> QED BY <1>6, <1>7, <3>3, <4>1
      <3> QED BY <1>1, <2>2, <3>3, <3>4, <3>5 DEF MapInv, OpInv
    <2> QED BY <1>1, <2>1, <2>2
  <1>12. TlbInv'
    <2> SUFFICES ASSUME mm = "process", NEW q \in Pages
                 PROVE  IF tlb'[q].frame = 0 THEN tlb'[q] = NoEntry
                        ELSE /\ tlb'[q].frame = FrameOf(q)' /\ prots[q] # "none"
                             /\ tlb'[q].write =>
                                  /\ prots[q] = "rw"
                                  /\ "child" \in frames'[FrameOf(q)'].owners => op.kind = "fork" /\ ~op.flushed
      BY <1>1, <1>8 DEF TlbInv
    <2>1. CASE q = p BY <1>2, <2>1, NoEntryFrame
    <2>2. CASE q # p
      <3>1. tlb'[q] = tlb[q] /\ FrameOf(q)' = FrameOf(q) BY <1>2, <1>7, <2>2
      <3>2. FrameOf(q) # 0 => frames'[FrameOf(q)].owners = frames[FrameOf(q)].owners
        BY <1>2, <2>2
      <3> QED BY <3>1, <3>2 DEF MapInv, TlbInv
    <2> QED BY <2>1, <2>2
  <1>13. Invisible
    <2> SUFFICES ASSUME NEW q \in Pages, NEW r \in 0 .. PageSize - 1
                 PROVE  Byte(q, r)' = Byte(q, r)
      BY <1>8 DEF Invisible
    <2>1. CASE q = p
      <3>1. Byte(p, r)' = frames'[f].data[r] BY <1>4, <1>6 DEF Byte
      <3>2. Zeros[r] = 0 BY DEF Zeros
      <3>3. frames'[f].data[r] = Byte(p, r) BY <1>2, <3>2 DEF Byte
      <3> QED BY <2>1, <3>1, <3>3
    <2>2. CASE q # p
      <3>1. FrameOf(q)' = FrameOf(q) BY <1>7, <2>2
      <3>2. FrameOf(q) # 0 => frames'[FrameOf(q)].data = frames[FrameOf(q)].data BY <1>2, <2>2
      <3> QED BY <3>1, <3>2 DEF Byte
    <2> QED BY <2>1, <2>2
  <1> QED BY <1>9, <1>10, <1>11, <1>12, <1>13 DEF MapInv

(* A change begins: what was permitted stays so until the flush, and the   *)
(* bytes of the page stay where they are.                                  *)
BeginCase(kind, p) ==
  /\ op.kind = "none"
  /\ op' = [kind |-> kind, page |-> p, prot |-> vma[p], write |-> pte_write(pte[p]),
            frame |-> IF pte_present(pte[p]) THEN pte[p].num ELSE 0, flushed |-> FALSE]
  /\ tlb' = tlb /\ mm' = mm

(* What the change reads of the page. *)
LEMMA BeginOp ==
  ASSUME IInv, NEW p \in Pages, NEW kind, BeginCase(kind, p)
  PROVE  /\ op'.kind = kind /\ op'.page = p /\ op'.prot = vma[p] /\ op'.flushed = FALSE
         /\ op'.frame = FrameOf(p) /\ \A q \in Pages : ~Held(q)
         /\ op'.write => /\ pte_present(pte[p]) /\ vma[p] = "rw"
                         /\ op'.frame # 0 /\ "child" \notin frames[op'.frame].owners
         /\ \A q \in Pages : FrameOf(q) = IF pte_present(pte[q]) THEN pte[q].num ELSE 0
         /\ \A q \in Pages : prots[q] = vma[q]
  <1> USE DEF IInv
  <1>1. \A q \in Pages : ~Held(q) BY DEF BeginCase, Held
  <1>2. \A q \in Pages : FrameOf(q) = IF pte_present(pte[q]) THEN pte[q].num ELSE 0
    BY <1>1 DEF FrameOf
  <1>3. op'.kind = kind /\ op'.page = p /\ op'.prot = vma[p] /\ op'.flushed = FALSE
        /\ op'.frame = IF pte_present(pte[p]) THEN pte[p].num ELSE 0
    BY DEF BeginCase
  <1>4. op'.write = pte_write(pte[p]) BY DEF BeginCase
  <1>5. pte_write(pte[p]) =>
           /\ pte_present(pte[p]) /\ vma[p] = "rw" /\ pte[p].num # 0
           /\ "child" \notin frames[pte[p].num].owners
    BY FrameFacts DEF MapInv, PteInv
  <1>6. \A q \in Pages : prots[q] = vma[q] BY ProtsAt DEF BeginCase
  <1> QED BY <1>1, <1>2, <1>3, <1>4, <1>5, <1>6

(* try_to_unmap of migrate_pages, and munmap, take the pte away. *)
LEMMA TakeMap ==
  ASSUME IInv, NEW p \in Pages, NEW kind \in {"migrate", "unmap"}, BeginCase(kind, p),
         pte' = [pte EXCEPT ![p] = mk_pte(0, {})], frames' = frames,
         kind = "migrate" => vma' = vma /\ pte_present(pte[p]) /\ frames[pte[p].num].owners = {"process"},
         kind = "unmap" => vma' = [vma EXCEPT ![p] = "none"] /\ vma[p] # "none"
  PROVE  MapInv' /\ Invisible
  <1> USE DEF IInv
  <1>1. /\ op'.kind = kind /\ op'.page = p /\ op'.prot = vma[p] /\ op'.flushed = FALSE
        /\ op'.frame = FrameOf(p) /\ \A q \in Pages : ~Held(q)
        /\ op'.write => /\ vma[p] = "rw"
                        /\ op'.frame # 0 /\ "child" \notin frames[op'.frame].owners
        /\ \A q \in Pages : FrameOf(q) = IF pte_present(pte[q]) THEN pte[q].num ELSE 0
        /\ \A q \in Pages : prots[q] = vma[q]
    BY BeginOp
  <1>2. pte'[p] = mk_pte(0, {}) /\ \A q \in Pages \ {p} : pte'[q] = pte[q]
    BY DEF Types
  <1>3. pte'[p].flags = {} /\ ~pte_present(pte'[p])
    BY <1>2 DEF mk_pte, pte_present
  <1>4. \A q \in Pages : Held(q)' <=> q = p BY <1>1 DEF Held
  <1>5. \A q \in Pages : FrameOf(q)' = FrameOf(q)
    BY <1>1, <1>2, <1>4 DEF FrameOf
  <1>6. \A q \in Pages \ {p} : vma'[q] = vma[q] BY DEF Types
  <1>7. \A q \in Pages : prots'[q] = prots[q]
    <2>1. \A q \in Pages : prots'[q] = IF op'.kind \in {"protect", "unmap"} /\ op'.page = q /\ ~op'.flushed
                                      THEN op'.prot ELSE vma'[q]
      BY DEF prots
    <2> QED BY <1>1, <1>6, <2>1
  <1>8. vma[p] # "none"
    BY DEF MapInv, PteInv
  <1>9. tlb' = tlb /\ mm' = mm /\ op.kind = "none" BY DEF BeginCase
  <1>10. OwnInv' BY <1>5 DEF MapInv, OwnInv
  <1>11. PteInv' BY <1>2, <1>3, <1>6 DEF MapInv, PteInv
  <1>12. OpInv'
    <2>1. FrameOf(p) # 0 => /\ "process" \in frames[FrameOf(p)].owners
                            /\ \A q \in Pages \ {p} : FrameOf(q) # FrameOf(p)
      BY DEF MapInv, OwnInv
    <2>2. kind = "migrate" => FrameOf(p) # 0 /\ frames[FrameOf(p)].owners = {"process"}
      BY <1>1, FrameFacts, Constants DEF Frames
    <2>3. kind = "unmap" => vma'[p] = "none" BY DEF Types
    <2> QED BY <1>1, <1>3, <1>5, <1>8, <1>9, <2>1, <2>2, <2>3 DEF OpInv
  <1>13. TlbInv'
    <2> SUFFICES ASSUME mm = "process", NEW q \in Pages
                 PROVE  IF tlb[q].frame = 0 THEN tlb[q] = NoEntry
                        ELSE /\ tlb[q].frame = FrameOf(q) /\ prots[q] # "none"
                             /\ tlb[q].write =>
                                  /\ prots[q] = "rw"
                                  /\ "child" \in frames[FrameOf(q)].owners => op'.kind = "fork" /\ ~op'.flushed
      BY <1>5, <1>7, <1>9 DEF TlbInv
    <2> QED BY <1>9 DEF MapInv, TlbInv
  <1>14. Invisible BY <1>5, <1>7, SameView
  <1> QED BY <1>10, <1>11, <1>12, <1>13, <1>14 DEF MapInv

(* mprotect *)
LEMMA ProtectMap ==
  ASSUME IInv, NEW p \in Pages, NEW prot \in {"r", "rw"}, Protect(p, prot)
  PROVE  MapInv' /\ Invisible
  <1> USE DEF IInv
  <1>1. /\ vma[p] # "none" /\ vma' = [vma EXCEPT ![p] = prot] /\ frames' = frames
        /\ pte' = [pte EXCEPT ![p] = IF pte_present(pte[p]) THEN pte_modify(pte[p], protection_map(prot)) ELSE pte[p]]
        /\ BeginCase("protect", p)
    BY DEF Protect, Begin, BeginCase
  <1>2. /\ op'.kind = "protect" /\ op'.page = p /\ op'.prot = vma[p] /\ op'.flushed = FALSE
        /\ \A q \in Pages : ~Held(q)
        /\ op'.write => /\ pte_present(pte[p]) /\ vma[p] = "rw" /\ op'.frame # 0
                        /\ "child" \notin frames[op'.frame].owners
        /\ op'.frame = FrameOf(p)
        /\ \A q \in Pages : FrameOf(q) = IF pte_present(pte[q]) THEN pte[q].num ELSE 0
        /\ \A q \in Pages : prots[q] = vma[q]
    BY <1>1, BeginOp
  <1>3. pte'[p] = (IF pte_present(pte[p]) THEN pte_modify(pte[p], protection_map(prot)) ELSE pte[p])
        /\ \A q \in Pages \ {p} : pte'[q] = pte[q]
    BY <1>1 DEF Types
  <1>4. pte[p] \in Pte BY DEF Types
  <1>5. pte_present(pte[p]) => pte'[p].flags = PAGE_READ /\ pte'[p].num = pte[p].num
    BY <1>3, <1>4 DEF pte_modify, protection_map, Pte
  <1>6. ~pte_present(pte[p]) => pte'[p].flags = {} /\ pte'[p] = pte[p]
    BY <1>3 DEF MapInv, PteInv
  <1>7. ~pte_write(pte'[p]) /\ (pte_present(pte'[p]) <=> pte_present(pte[p]))
    BY <1>5, <1>6 DEF pte_write, pte_present, PAGE_READ
  <1>8. \A q \in Pages : ~Held(q)' BY <1>2 DEF Held
  <1>9. \A q \in Pages : FrameOf(q)' = FrameOf(q)
    BY <1>2, <1>3, <1>5, <1>7, <1>8 DEF FrameOf
  <1>10. vma'[p] = prot /\ \A q \in Pages \ {p} : vma'[q] = vma[q] BY <1>1 DEF Types
  <1>11. \A q \in Pages : prots'[q] = prots[q]
    <2>1. \A q \in Pages : prots'[q] = IF op'.kind \in {"protect", "unmap"} /\ op'.page = q /\ ~op'.flushed
                                      THEN op'.prot ELSE vma'[q]
      BY DEF prots
    <2> QED BY <1>2, <1>10, <2>1
  <1>12. tlb' = tlb /\ mm' = mm /\ op.kind = "none" BY <1>1 DEF BeginCase
  <1>13. OwnInv' BY <1>1, <1>9 DEF MapInv, OwnInv
  <1>14. PteInv'
    <2> SUFFICES ASSUME NEW q \in Pages
                 PROVE  /\ pte_present(pte'[q]) =>
                             /\ pte'[q].num # 0 /\ vma'[q] # "none"
                             /\ pte_write(pte'[q]) => vma'[q] = "rw" /\ "child" \notin frames[pte'[q].num].owners
                        /\ ~pte_present(pte'[q]) => pte'[q].flags = {}
      BY <1>1 DEF PteInv
    <2>1. CASE q = p
      <3>1. pte_present(pte[p]) => pte[p].num # 0 BY DEF MapInv, PteInv
      <3> QED BY <1>5, <1>6, <1>7, <1>10, <2>1, <3>1
    <2>2. CASE q # p BY <1>3, <1>10, <2>2 DEF MapInv, PteInv
    <2> QED BY <2>1, <2>2
  <1>15. OpInv'
    <2>1. op'.write => pte_present(pte'[p]) /\ "child" \notin frames[pte'[p].num].owners
      BY <1>2, <1>5, <1>7
    <2> QED BY <1>1, <1>2, <1>7, <1>10, <2>1 DEF OpInv
  <1>16. TlbInv'
    <2> SUFFICES ASSUME mm = "process", NEW q \in Pages
                 PROVE  IF tlb[q].frame = 0 THEN tlb[q] = NoEntry
                        ELSE /\ tlb[q].frame = FrameOf(q) /\ prots[q] # "none"
                             /\ tlb[q].write =>
                                  /\ prots[q] = "rw"
                                  /\ "child" \in frames[FrameOf(q)].owners => op'.kind = "fork" /\ ~op'.flushed
      BY <1>1, <1>9, <1>11, <1>12 DEF TlbInv
    <2> QED BY <1>12 DEF MapInv, TlbInv
  <1>17. Invisible BY <1>1, <1>9, <1>11, SameView
  <1> QED BY <1>13, <1>14, <1>15, <1>16, <1>17 DEF MapInv

(* fork: until the flush the TLB may permit what the ptes do not any more. *)
LEMMA ForkMap ==
  ASSUME IInv, Fork
  PROVE  MapInv' /\ Invisible
  <1> USE DEF IInv
  <1>1. /\ pte' = [p \in Pages |-> IF pte_present(pte[p]) THEN pte_wrprotect(pte[p]) ELSE pte[p]]
        /\ frames' = [f \in Frames |->
              IF "process" \in frames[f].owners
              THEN [frames[f] EXCEPT !.owners = @ \cup {"child"}] ELSE frames[f]]
        /\ vma' = vma /\ BeginCase("fork", 0)
    BY DEF Fork, Begin, BeginCase
  <1>2. 0 \in Pages BY Constants DEF Pages
  <1>3. /\ op'.kind = "fork" /\ op'.flushed = FALSE /\ \A q \in Pages : ~Held(q)
        /\ \A q \in Pages : FrameOf(q) = IF pte_present(pte[q]) THEN pte[q].num ELSE 0
        /\ \A q \in Pages : prots[q] = vma[q]
    BY <1>1, <1>2, BeginOp
  <1>4. ASSUME NEW q \in Pages
        PROVE  /\ pte'[q].num = pte[q].num /\ (pte_present(pte'[q]) <=> pte_present(pte[q]))
               /\ ~pte_write(pte'[q]) /\ (~pte_present(pte[q]) => pte'[q].flags = {})
    <2>1. pte[q] \in Pte BY DEF Types
    <2>2. CASE pte_present(pte[q])
      <3>1. pte'[q].num = pte[q].num /\ pte'[q].flags = pte[q].flags \ {"WRITE"}
        BY <1>1, <2>1, <2>2 DEF pte_wrprotect, Pte
      <3> QED BY <2>2, <3>1 DEF pte_present, pte_write
    <2>3. CASE ~pte_present(pte[q])
      <3>1. pte'[q] = pte[q] /\ pte[q].flags = {} BY <1>1, <2>3 DEF MapInv, PteInv
      <3> QED BY <2>3, <3>1 DEF pte_write
    <2> QED BY <2>2, <2>3
  <1>5. \A q \in Pages : ~Held(q)' BY <1>3 DEF Held
  <1>6. \A q \in Pages : FrameOf(q)' = FrameOf(q) BY <1>3, <1>4, <1>5 DEF FrameOf
  <1>7. \A q \in Pages : prots'[q] = prots[q]
    <2>1. \A q \in Pages : prots'[q] = IF op'.kind \in {"protect", "unmap"} /\ op'.page = q /\ ~op'.flushed
                                      THEN op'.prot ELSE vma'[q]
      BY DEF prots
    <2> QED BY <1>1, <1>3, <2>1
  <1>8. \A f \in Frames : "process" \in frames[f].owners => "process" \in frames'[f].owners
    <2> SUFFICES ASSUME NEW f \in Frames, "process" \in frames[f].owners
                 PROVE  "process" \in frames'[f].owners
      OBVIOUS
    <2>1. frames[f] \in FrameType BY DEF Types
    <2>2. frames'[f] = [frames[f] EXCEPT !.owners = frames[f].owners \cup {"child"}] BY <1>1
    <2>3. frames'[f].owners = frames[f].owners \cup {"child"} BY <2>1, <2>2 DEF FrameType
    <2> QED BY <2>3
  <1>9. tlb' = tlb /\ mm' = mm /\ op.kind = "none" BY <1>1 DEF BeginCase
  <1>10. OwnInv' BY <1>6, <1>8, FrameFacts DEF MapInv, OwnInv
  <1>11. PteInv' BY <1>1, <1>4 DEF MapInv, PteInv
  <1>12. OpInv' BY <1>3 DEF OpInv
  <1>13. TlbInv'
    <2> SUFFICES ASSUME mm = "process", NEW q \in Pages
                 PROVE  IF tlb[q].frame = 0 THEN tlb[q] = NoEntry
                        ELSE /\ tlb[q].frame = FrameOf(q) /\ prots[q] # "none"
                             /\ tlb[q].write => prots[q] = "rw"
      BY <1>3, <1>6, <1>7, <1>9 DEF TlbInv
    <2> QED BY <1>9 DEF MapInv, TlbInv
  <1>14. Invisible
    <2>1. ASSUME NEW f \in Frames PROVE frames'[f].data = frames[f].data
      <3>1. frames[f] \in FrameType BY DEF Types
      <3> QED BY <1>1, <3>1 DEF FrameType
    <2>2. \A q \in Pages : FrameOf(q) # 0 => FrameOf(q) \in Frames BY FrameFacts
    <2> QED BY <1>6, <1>7, <2>1, <2>2, SameView
  <1> QED BY <1>10, <1>11, <1>12, <1>13, <1>14 DEF MapInv

LEMMA ChildExitMap ==
  ASSUME IInv, ChildExit
  PROVE  MapInv' /\ Invisible
  <1> USE DEF IInv
  <1>1. /\ op.kind = "none" /\ UNCHANGED <<vma, pte, op, tlb, mm>>
        /\ frames' = [f \in Frames |-> [frames[f] EXCEPT !.owners = @ \ {"child"}]]
    BY DEF ChildExit
  <1>2. \A f \in Frames : frames'[f].owners = frames[f].owners \ {"child"}
    <2> SUFFICES ASSUME NEW f \in Frames PROVE frames'[f].owners = frames[f].owners \ {"child"}
      OBVIOUS
    <2>1. frames[f] \in FrameType BY DEF Types
    <2> QED BY <1>1, <2>1 DEF FrameType
  <1>3. \A q \in Pages : FrameOf(q)' = FrameOf(q) BY <1>1 DEF FrameOf, Held
  <1>4. prots' = prots BY <1>1 DEF prots
  <1>5. OwnInv' BY <1>2, <1>3, FrameFacts DEF MapInv, OwnInv
  <1>6. PteInv' BY <1>1, <1>2, FrameFacts DEF MapInv, PteInv
  <1>7. OpInv' BY <1>1 DEF OpInv
  <1>8. TlbInv'
    <2> SUFFICES ASSUME mm = "process", NEW q \in Pages
                 PROVE  IF tlb[q].frame = 0 THEN tlb[q] = NoEntry
                        ELSE /\ tlb[q].frame = FrameOf(q) /\ prots[q] # "none"
                             /\ tlb[q].write => /\ prots[q] = "rw"
                                                /\ "child" \notin frames'[FrameOf(q)].owners
      BY <1>1, <1>3, <1>4 DEF TlbInv
    <2>1. FrameOf(q) # 0 => "child" \notin frames'[FrameOf(q)].owners
      BY <1>2, FrameFacts
    <2> QED BY <2>1 DEF MapInv, TlbInv
  <1>9. Invisible
    <2>1. ASSUME NEW f \in Frames PROVE frames'[f].data = frames[f].data
      <3>1. frames[f] \in FrameType BY DEF Types
      <3> QED BY <1>1, <3>1 DEF FrameType
    <2>2. \A q \in Pages : FrameOf(q) # 0 => FrameOf(q) \in Frames BY FrameFacts
    <2> QED BY <1>3, <1>4, <2>1, <2>2, SameView
  <1> QED BY <1>5, <1>6, <1>7, <1>8, <1>9 DEF MapInv

LEMMA ChangeMap ==
  ASSUME IInv, Change
  PROVE  MapInv' /\ Invisible
  <1>1. ASSUME NEW p \in Pages, Migrate(p) PROVE MapInv' /\ Invisible
    <2>1. /\ BeginCase("migrate", p) /\ pte' = [pte EXCEPT ![p] = mk_pte(0, {})] /\ frames' = frames
          /\ vma' = vma /\ pte_present(pte[p]) /\ frames[pte[p].num].owners = {"process"}
      BY <1>1 DEF Migrate, Begin, BeginCase
    <2> QED BY <2>1, TakeMap
  <1>2. ASSUME NEW p \in Pages, Unmap(p) PROVE MapInv' /\ Invisible
    <2>1. /\ BeginCase("unmap", p) /\ pte' = [pte EXCEPT ![p] = mk_pte(0, {})] /\ frames' = frames
          /\ vma' = [vma EXCEPT ![p] = "none"] /\ vma[p] # "none"
      BY <1>2 DEF Unmap, Begin, BeginCase
    <2> QED BY <2>1, TakeMap
  <1> QED BY <1>1, <1>2, ProtectMap, ForkMap, ChildExitMap, ChangeCases

(* What a flush changes: the TLB, and of the change under way its page p.  *)
LEMMA FlushFacts ==
  ASSUME IInv, Flush, NEW p \in Pages, op.page = p
  PROVE  /\ op.kind # "none" /\ op.flushed = FALSE
         /\ op' = [op EXCEPT !.flushed = TRUE]
         /\ tlb' = IF op.kind \in {"fork", "unmap"} THEN [q \in Pages |-> NoEntry]
                   ELSE [tlb EXCEPT ![p] = NoEntry]
         /\ pte' = IF op.kind = "migrate" THEN [pte EXCEPT ![p] = __swp_entry_to_pte(op.frame)] ELSE pte
         /\ vma' = vma /\ frames' = frames /\ mm' = mm
         /\ op'.kind = op.kind /\ op'.page = p /\ op'.prot = op.prot /\ op'.write = op.write
         /\ op'.frame = op.frame /\ op'.flushed = TRUE
         /\ tlb'[p] = NoEntry
         /\ \A q \in Pages \ {p} :
              /\ tlb'[q] = NoEntry \/ (tlb'[q] = tlb[q] /\ op.kind \notin {"fork", "unmap"})
              /\ pte'[q] = pte[q] /\ FrameOf(q)' = FrameOf(q)
              /\ prots'[q] = vma[q] /\ prots[q] = vma[q]
         /\ op.kind # "migrate" => pte'[p] = pte[p]
         /\ op.kind = "migrate" => pte'[p].flags = {} /\ ~pte_present(pte'[p])
         /\ FrameOf(p)' = IF op.kind = "unmap" THEN 0 ELSE FrameOf(p)
  <1> USE DEF IInv
  <1>1. op.page = p OBVIOUS
  <1>2. /\ op.kind # "none" /\ op.flushed = FALSE
        /\ op' = [op EXCEPT !.flushed = TRUE]
        /\ tlb' = IF op.kind \in {"fork", "unmap"} THEN [q \in Pages |-> NoEntry]
                  ELSE [tlb EXCEPT ![p] = NoEntry]
        /\ pte' = IF op.kind = "migrate" THEN [pte EXCEPT ![p] = __swp_entry_to_pte(op.frame)] ELSE pte
        /\ vma' = vma /\ frames' = frames /\ mm' = mm
    BY <1>1, FlushCases
  <1>3. /\ op'.kind = op.kind /\ op'.page = p /\ op'.prot = op.prot /\ op'.write = op.write
        /\ op'.frame = op.frame /\ op'.flushed = TRUE
    BY <1>1, <1>2 DEF Types
  <1>4. /\ tlb'[p] = NoEntry
        /\ \A q \in Pages \ {p} : tlb'[q] = NoEntry \/ (tlb'[q] = tlb[q] /\ op.kind \notin {"fork", "unmap"})
    BY <1>2 DEF Types
  <1>5. \A q \in Pages \ {p} : pte'[q] = pte[q]
    BY <1>2 DEF Types
  <1>6. op.kind # "migrate" => pte'[p] = pte[p] BY <1>2
  <1>7. op.kind = "migrate" => pte'[p].flags = {} /\ ~pte_present(pte'[p])
    BY <1>2 DEF Types, __swp_entry_to_pte, pte_present
  <1>8. \A q \in Pages \ {p} : ~Held(q) /\ ~Held(q)' BY <1>1, <1>3 DEF Held
  <1>9. \A q \in Pages \ {p} : FrameOf(q)' = FrameOf(q) BY <1>5, <1>8 DEF FrameOf
  <1>10. FrameOf(p)' = IF op.kind = "unmap" THEN 0 ELSE FrameOf(p)
    <2>1. CASE op.kind = "migrate"
      <3>1. Held(p) /\ Held(p)' BY <1>1, <1>3, <2>1 DEF Held
      <3> QED BY <1>3, <2>1, <3>1 DEF FrameOf
    <2>2. CASE op.kind = "unmap"
      <3>1. ~Held(p)' BY <1>3, <2>2 DEF Held
      <3>2. ~pte_present(pte'[p]) BY <1>1, <1>6, <2>2 DEF MapInv, OpInv
      <3> QED BY <2>2, <3>1, <3>2 DEF FrameOf
    <2>3. CASE op.kind \notin {"migrate", "unmap"}
      <3>1. ~Held(p)' /\ ~Held(p) BY <1>1, <1>3, <2>3 DEF Held
      <3> QED BY <1>6, <2>3, <3>1 DEF FrameOf
    <2> QED BY <2>1, <2>2, <2>3
  <1>11. \A q \in Pages \ {p} : prots'[q] = vma[q] /\ prots[q] = vma[q]
    <2>1. \A q \in Pages : prots'[q] = IF op'.kind \in {"protect", "unmap"} /\ op'.page = q /\ ~op'.flushed
                                      THEN op'.prot ELSE vma'[q]
      BY DEF prots
    <2> QED BY <1>1, <1>2, <1>3, <2>1, ProtsAt
  <1> QED BY <1>2, <1>3, <1>4, <1>5, <1>6, <1>7, <1>9, <1>10, <1>11

(* After the flush no TLB permits what the change took away. *)
LEMMA FlushMap ==
  ASSUME IInv, Flush
  PROVE  MapInv'
  <1> USE DEF IInv
  <1>1. PICK p \in Pages : op.page = p BY DEF Types
  <1>2. /\ op.kind # "none" /\ op.flushed = FALSE
        /\ op' = [op EXCEPT !.flushed = TRUE]
        /\ vma' = vma /\ frames' = frames /\ mm' = mm
    BY <1>1, FlushFacts
  <1>3. /\ op'.kind = op.kind /\ op'.page = p /\ op'.prot = op.prot /\ op'.write = op.write
        /\ op'.frame = op.frame /\ op'.flushed = TRUE
    BY <1>1, FlushFacts
  <1>4. /\ tlb'[p] = NoEntry
        /\ \A q \in Pages \ {p} : tlb'[q] = NoEntry \/ (tlb'[q] = tlb[q] /\ op.kind \notin {"fork", "unmap"})
    BY <1>1, FlushFacts
  <1>5. \A q \in Pages \ {p} : pte'[q] = pte[q]
    BY <1>1, FlushFacts
  <1>6. op.kind # "migrate" => pte'[p] = pte[p]
    BY <1>1, FlushFacts
  <1>7. op.kind = "migrate" => pte'[p].flags = {} /\ ~pte_present(pte'[p])
    BY <1>1, FlushFacts
  <1>8. \A q \in Pages \ {p} : FrameOf(q)' = FrameOf(q)
    BY <1>1, FlushFacts
  <1>9. FrameOf(p)' = IF op.kind = "unmap" THEN 0 ELSE FrameOf(p)
    BY <1>1, FlushFacts
  <1>10. \A q \in Pages \ {p} : prots'[q] = vma[q] /\ prots[q] = vma[q]
    BY <1>1, FlushFacts
  <1>11. OwnInv'
    <2> SUFFICES ASSUME NEW q \in Pages, FrameOf(q)' # 0
                 PROVE  /\ "process" \in frames[FrameOf(q)'].owners
                        /\ \A r \in Pages \ {q} : FrameOf(r)' # FrameOf(q)'
      BY <1>2 DEF OwnInv
    <2>1. FrameOf(q)' = FrameOf(q) BY <1>8, <1>9
    <2> QED BY <1>8, <1>9, <2>1 DEF MapInv, OwnInv
  <1>12. PteInv' BY <1>2, <1>5, <1>6, <1>7 DEF MapInv, PteInv
  <1>13. OpInv'
    <2>1. CASE op.kind = "migrate"
      <3>1. tlb'[p].frame = 0 BY <1>4, NoEntryFrame
      <3>2. \A q \in Pages \ {p} : FrameOf(q)' # op.frame
        BY <1>1, <1>8, <2>1 DEF MapInv, OpInv
      <3> QED BY <1>1, <1>2, <1>3, <1>7, <2>1, <3>1, <3>2 DEF MapInv, OpInv
    <2>2. CASE op.kind = "unmap"
      <3>1. op.frame # 0 => \A q \in Pages \ {p} : FrameOf(q)' # op.frame
        BY <1>1, <1>8, <2>2 DEF MapInv, OpInv
      <3> QED BY <1>1, <1>2, <1>3, <1>6, <2>2, <3>1 DEF MapInv, OpInv
    <2>3. CASE op.kind \notin {"migrate", "unmap"}
      BY <1>1, <1>2, <1>3, <1>6, <2>3 DEF MapInv, OpInv
    <2> QED BY <2>1, <2>2, <2>3
  <1>14. TlbInv'
    <2> SUFFICES ASSUME mm = "process", NEW q \in Pages, tlb'[q] # NoEntry
                 PROVE  /\ tlb'[q].frame # 0
                        /\ tlb'[q].frame = FrameOf(q)' /\ prots'[q] # "none"
                        /\ tlb'[q].write =>
                             /\ prots'[q] = "rw" /\ "child" \notin frames[FrameOf(q)'].owners
      BY <1>2, NoEntryFrame DEF TlbInv
    <2>1. q # p /\ tlb'[q] = tlb[q] /\ op.kind # "fork" BY <1>4
    <2> QED BY <1>8, <1>10, <2>1 DEF MapInv, TlbInv
  <1> QED BY <1>11, <1>12, <1>13, <1>14 DEF MapInv

(* A change ends: the page is in its new frame, or its frame is given up. *)
LEMMA FinishMap ==
  ASSUME IInv, Finish
  PROVE  MapInv' /\ Invisible
  <1> USE DEF IInv
  <1>1. PICK p \in Pages : p = op.page BY DEF Types
  <1>2. /\ op.kind # "none" /\ op.flushed /\ op' = NoOp /\ vma' = vma /\ tlb' = tlb /\ mm' = mm
        /\ \/ FinishMigrate(p) \/ FinishUnmap
           \/ /\ op.kind # "migrate" /\ (op.kind = "unmap" => op.frame = 0)
              /\ UNCHANGED <<frames, pte>>
    BY <1>1, FinishCases
  <1>3. op'.kind = "none" BY <1>2 DEF NoOp
  <1>4. \A q \in Pages : ~Held(q)' BY <1>3 DEF Held
  <1>5. \A q \in Pages : FrameOf(q)' = IF pte_present(pte'[q]) THEN pte'[q].num ELSE 0
    BY <1>4 DEF FrameOf
  <1>6. \A q \in Pages : prots'[q] = vma[q] /\ prots[q] = vma[q]
    <2>1. \A q \in Pages : prots'[q] = IF op'.kind \in {"protect", "unmap"} /\ op'.page = q /\ ~op'.flushed
                                      THEN op'.prot ELSE vma'[q]
      BY DEF prots
    <2> QED BY <1>2, <1>3, <2>1, ProtsAt
  <1>7. OpInv' BY <1>3 DEF OpInv
  <1>8. ASSUME NEW q \in Pages, mm = "process", tlb[q].frame # 0
        PROVE  /\ tlb[q].frame = FrameOf(q) /\ vma[q] # "none"
               /\ tlb[q].write => vma[q] = "rw" /\ "child" \notin frames[FrameOf(q)].owners
    BY <1>2, <1>6, <1>8 DEF MapInv, TlbInv
  <1>9. ASSUME NEW q \in Pages, mm = "process", tlb[q].frame = 0
        PROVE  tlb[q] = NoEntry
    BY <1>9 DEF MapInv, TlbInv
  <1>10. \A q \in Pages \ {p} : FrameOf(q) = IF pte_present(pte[q]) THEN pte[q].num ELSE 0
    BY <1>1 DEF FrameOf, Held
  <1>11. frames \in [Frames -> FrameType] BY DEF Types
  <1>12. ASSUME NEW q \in Pages, FrameOf(q) # 0
         PROVE  /\ FrameOf(q) \in Frames /\ "process" \in frames[FrameOf(q)].owners
                /\ \A r \in Pages \ {q} : FrameOf(r) # FrameOf(q)
    BY <1>12, FrameFacts DEF MapInv, OwnInv
  <1>13. CASE FinishMigrate(p)
    <2>1. PICK f \in Frames, e \in Pte :
            /\ frames[f].owners = {} /\ PteFor(e, p, f) /\ (pte_write(e) => op.write)
            /\ pte' = [pte EXCEPT ![p] = e]
            /\ frames' = [frames EXCEPT ![f] = frames[op.frame], ![op.frame].owners = {}]
      BY <1>13 DEF FinishMigrate
    <2>2. op.kind = "migrate" BY <1>13 DEF FinishMigrate
    <2>3. /\ op.frame \in Frames /\ op.frame # 0 /\ frames[op.frame].owners = {"process"}
          /\ vma[p] = op.prot /\ op.prot # "none"
          /\ \A q \in Pages \ {p} : FrameOf(q) # op.frame
          /\ mm = "process" => tlb[p].frame = 0
      BY <1>1, <1>2, <2>2, FrameFacts DEF MapInv, OpInv
    <2>4. f # op.frame /\ f # 0
      <3>1. frames[f].owners = {} /\ "process" \in frames[op.frame].owners /\ f \in Frames
        BY <2>1, <2>3
      <3> QED BY <3>1, Constants DEF Frames
    <2>5. frames'[f].owners = {"process"}
          /\ \A g \in Frames : g # f /\ g # op.frame => frames'[g] = frames[g]
      BY <1>11, <2>1, <2>3, <2>4
    <2>6. pte'[p] = e /\ \A q \in Pages \ {p} : pte'[q] = pte[q] BY <2>1 DEF Types
    <2>7. pte_present(e) /\ e.num = f /\ (pte_write(e) => vma[p] = "rw") BY <2>1 DEF PteFor
    <2>8. FrameOf(p)' = f /\ \A q \in Pages \ {p} : FrameOf(q)' = FrameOf(q)
      BY <1>5, <1>10, <2>6, <2>7
    <2>9. ASSUME NEW q \in Pages \ {p}, FrameOf(q) # 0
          PROVE  FrameOf(q) # f /\ FrameOf(q) # op.frame /\ frames'[FrameOf(q)] = frames[FrameOf(q)]
      BY <1>12, <2>1, <2>3, <2>5, <2>9
    <2>10. OwnInv'
      <3> SUFFICES ASSUME NEW q \in Pages, FrameOf(q)' # 0
                   PROVE  /\ "process" \in frames'[FrameOf(q)'].owners
                          /\ \A r \in Pages \ {q} : FrameOf(r)' # FrameOf(q)'
        BY DEF OwnInv
      <3>1. CASE q = p BY <2>4, <2>5, <2>8, <2>9, <3>1
      <3>2. CASE q # p BY <1>12, <2>8, <2>9, <3>2
      <3> QED BY <3>1, <3>2
    <2>11. PteInv'
      <3> SUFFICES ASSUME NEW q \in Pages
                   PROVE  /\ pte_present(pte'[q]) =>
                               /\ pte'[q].num # 0 /\ vma[q] # "none"
                               /\ pte_write(pte'[q]) => vma[q] = "rw" /\ "child" \notin frames'[pte'[q].num].owners
                          /\ ~pte_present(pte'[q]) => pte'[q].flags = {}
        BY <1>2 DEF PteInv
      <3>1. CASE q = p BY <2>3, <2>4, <2>5, <2>6, <2>7, <3>1
      <3>2. CASE q # p
        <4>1. pte'[q] = pte[q] BY <2>6, <3>2
        <4>2. pte_present(pte[q]) => FrameOf(q) = pte[q].num /\ pte[q].num # 0
          BY FrameFacts, Constants DEF Frames
        <4>3. pte_present(pte[q]) => frames'[pte[q].num] = frames[pte[q].num] BY <2>9, <3>2, <4>2
        <4> QED BY <4>1, <4>3 DEF MapInv, PteInv
      <3> QED BY <3>1, <3>2
    <2>12. TlbInv'
      <3> SUFFICES ASSUME mm = "process", NEW q \in Pages, tlb[q].frame # 0
                   PROVE  /\ tlb[q].frame = FrameOf(q)' /\ vma[q] # "none"
                          /\ tlb[q].write => vma[q] = "rw" /\ "child" \notin frames'[FrameOf(q)'].owners
        BY <1>2, <1>6, <1>9 DEF TlbInv
      <3>1. q # p BY <2>3
      <3> QED BY <1>8, <2>8, <2>9, <3>1
    <2>13. Invisible
      <3>1. frames'[f].data = frames[op.frame].data /\ FrameOf(p) = op.frame
        <4>1. Held(p) BY <1>1, <2>2 DEF Held
        <4>2. frames'[f] = frames[op.frame] BY <1>11, <2>1, <2>3, <2>4
        <4> QED BY <4>1, <4>2 DEF FrameOf
      <3>2. ASSUME NEW q \in Pages, NEW r \in 0 .. PageSize - 1 PROVE Byte(q, r)' = Byte(q, r)
        <4>1. CASE q = p
          <5>1. Byte(p, r)' = frames'[f].data[r] BY <2>4, <2>8 DEF Byte
          <5>2. Byte(p, r) = frames[op.frame].data[r] BY <2>3, <3>1 DEF Byte
          <5> QED BY <3>1, <4>1, <5>1, <5>2
        <4>2. CASE q # p
          <5>1. FrameOf(q)' = FrameOf(q) BY <2>8, <4>2
          <5>2. FrameOf(q) # 0 => frames'[FrameOf(q)] = frames[FrameOf(q)] BY <2>9, <4>2
          <5> QED BY <5>1, <5>2 DEF Byte
        <4> QED BY <4>1, <4>2
      <3>3. prots = [q \in Pages |-> prots[q]] /\ prots' = [q \in Pages |-> prots'[q]] BY DEF prots
      <3>4. prots' = prots BY <1>6, <3>3
      <3> QED BY <3>2, <3>4 DEF Invisible
    <2> QED BY <1>7, <2>10, <2>11, <2>12, <2>13 DEF MapInv
  <1>14. CASE FinishUnmap
    <2>1. /\ op.kind = "unmap" /\ op.frame # 0 /\ pte' = pte
          /\ frames' = [frames EXCEPT ![op.frame].owners = @ \ {"process"}]
      BY <1>14 DEF FinishUnmap
    <2>2. op.frame \in Frames /\ ~pte_present(pte[p]) /\ \A q \in Pages \ {p} : FrameOf(q) # op.frame
      BY <1>1, <2>1, FrameFacts DEF MapInv, OpInv
    <2>3. ~Held(p) BY <1>2, <2>1 DEF Held
    <2>4. FrameOf(p) = 0 BY <2>2, <2>3 DEF FrameOf
    <2>5. \A q \in Pages : FrameOf(q)' = FrameOf(q) BY <1>5, <1>10, <2>1, <2>2, <2>4
    <2>6. \A g \in Frames : g # op.frame => frames'[g] = frames[g] BY <1>11, <2>1
    <2>7. ASSUME NEW q \in Pages, FrameOf(q) # 0
          PROVE  FrameOf(q) # op.frame /\ frames'[FrameOf(q)] = frames[FrameOf(q)]
      BY <1>12, <2>2, <2>4, <2>6, <2>7
    <2>8. OwnInv' BY <1>12, <2>5, <2>7 DEF OwnInv
    <2>9. PteInv'
      <3> SUFFICES ASSUME NEW q \in Pages
                   PROVE  /\ pte_present(pte[q]) =>
                               /\ pte[q].num # 0 /\ vma[q] # "none"
                               /\ pte_write(pte[q]) => vma[q] = "rw" /\ "child" \notin frames'[pte[q].num].owners
                          /\ ~pte_present(pte[q]) => pte[q].flags = {}
        BY <1>2, <2>1 DEF PteInv
      <3>1. pte_present(pte[q]) => FrameOf(q) = pte[q].num /\ pte[q].num # 0
        BY FrameFacts, Constants DEF Frames
      <3> QED BY <2>7, <3>1 DEF MapInv, PteInv
    <2>10. TlbInv'
      <3> SUFFICES ASSUME mm = "process", NEW q \in Pages, tlb[q].frame # 0
                   PROVE  /\ tlb[q].frame = FrameOf(q)' /\ vma[q] # "none"
                          /\ tlb[q].write => vma[q] = "rw" /\ "child" \notin frames'[FrameOf(q)'].owners
        BY <1>2, <1>6, <1>9 DEF TlbInv
      <3> QED BY <1>8, <2>5, <2>7
    <2>11. Invisible BY <1>6, <2>5, <2>7, SameView
    <2> QED BY <1>7, <2>8, <2>9, <2>10, <2>11 DEF MapInv
  <1>15. CASE /\ op.kind # "migrate" /\ (op.kind = "unmap" => op.frame = 0)
              /\ UNCHANGED <<frames, pte>>
    <2>1. ~Held(p) BY <1>2, <1>15 DEF Held
    <2>2. FrameOf(p) = IF pte_present(pte[p]) THEN pte[p].num ELSE 0 BY <2>1 DEF FrameOf
    <2>3. \A q \in Pages : FrameOf(q)' = FrameOf(q) BY <1>5, <1>10, <1>15, <2>2
    <2>4. OwnInv' BY <1>12, <1>15, <2>3 DEF OwnInv
    <2>5. PteInv' BY <1>2, <1>15 DEF MapInv, PteInv
    <2>6. TlbInv'
      <3> SUFFICES ASSUME mm = "process", NEW q \in Pages, tlb[q].frame # 0
                   PROVE  /\ tlb[q].frame = FrameOf(q)' /\ vma[q] # "none"
                          /\ tlb[q].write => vma[q] = "rw" /\ "child" \notin frames[FrameOf(q)'].owners
        BY <1>2, <1>6, <1>9, <1>15 DEF TlbInv
      <3> QED BY <1>8, <2>3
    <2>7. Invisible BY <1>6, <1>15, <2>3, SameView
    <2> QED BY <1>7, <2>4, <2>5, <2>6, <2>7 DEF MapInv
  <1> QED BY <1>2, <1>13, <1>14, <1>15

LEMMA SwitchMap ==
  ASSUME IInv, SwitchAway \/ SwitchBack
  PROVE  MapInv' /\ Invisible
  <1> USE DEF IInv
  <1>1. /\ tlb' = [q \in Pages |-> NoEntry] /\ UNCHANGED <<vma, pte, frames, op>>
    BY DEF SwitchAway, SwitchBack, switch_mm, flush_tlb_all, mapVars
  <1>2. \A q \in Pages : FrameOf(q)' = FrameOf(q) BY <1>1 DEF FrameOf, Held
  <1>3. OwnInv' BY <1>1, <1>2 DEF MapInv, OwnInv
  <1>4. PteInv' BY <1>1 DEF MapInv, PteInv
  <1>5. op.page \in Pages BY DEF Types
  <1>6. tlb'[op.page].frame = 0 BY <1>1, <1>5, NoEntryFrame
  <1>7. OpInv' BY <1>1, <1>2, <1>5, <1>6 DEF MapInv, OpInv
  <1>8. TlbInv' BY <1>1, NoEntryFrame DEF TlbInv
  <1>9. prots' = prots BY <1>1 DEF prots
  <1>10. Invisible BY <1>1, <1>2, <1>9, SameView
  <1> QED BY <1>3, <1>4, <1>7, <1>8, <1>10 DEF MapInv

LEMMA StepMap ==
  ASSUME IInv, [Next]_vars
  PROVE  MapInv'
  <1>1. CASE UNCHANGED vars BY <1>1, CopyMap
  <1>2. CASE \E c \in Calls : Call(c) BY <1>2, CopyMap
  <1>3. CASE Copy BY <1>3, CopyMap, FaultMap DEF Copy
  <1>4. CASE (\E p \in Pages : Fill(p)) \/ Change BY <1>4, FillMap, ChangeMap
  <1>5. CASE Flush \/ Finish \/ SwitchAway \/ SwitchBack
    BY <1>5, FlushMap, FinishMap, SwitchMap
  <1> QED BY <1>1, <1>2, <1>3, <1>4, <1>5 DEF Next

(* The invariant, whatever happens to the mapping while a call runs. *)
LEMMA StepIInv == IInv /\ [Next]_vars => IInv'
  <1> SUFFICES ASSUME IInv, [Next]_vars PROVE IInv'
    OBVIOUS
  <1>1. Types' BY StepTypes
  <1>2. LoopInv' /\ AlignInv' BY StepLoop
  <1>3. MapInv' BY StepMap
  <1> QED BY <1>1, <1>2, <1>3 DEF IInv

(* tlbflush.h, mmu_context.h: seen from the hart, every page is where the  *)
(* page table, or the change under way, has it.                            *)
THEOREM Invariance == Spec => []IInv
  BY InitIInv, StepIInv, PTL DEF Spec

(* tlbflush.h, mmu_context.h: the hart never writes a frame that is free,  *)
(* another process's, or a child's after the fork.                         *)
THEOREM NoStaleWrites == Spec => NoStaleWrite
  <1> DEFINE OwnersAllow ==
        LET owners == frames[FrameAt(dst)].owners IN
          "process" \in owners /\ ("child" \in owners => op.kind = "fork" /\ ~op.flushed)
  <1>1. ASSUME IInv, Store, call.fn \in UserStores
        PROVE  OwnersAllow
    <2>1. pc = "store" /\ mm = "process" /\ Access(dst, TRUE)
      BY <1>1 DEF Store, Running
    <2>2. Busy /\ OfUser /\ left > 0 /\ UserAt = dst
      BY <1>1, <2>1 DEF IInv, LoopInv, Busy, Where, OfUser, UserAt, UserStores, UserLoads
    <2>3. PICK p \in Pages : p = Page(dst) BY <1>1, <2>2, Addresses DEF IInv
    <2>4. tlb[p].frame # 0 /\ tlb[p].write BY <2>1, <2>3 DEF Access, Allowed
    <2>5. /\ tlb[p].frame = FrameOf(p)
          /\ "child" \in frames[FrameOf(p)].owners => op.kind = "fork" /\ ~op.flushed
      BY <1>1, <2>1, <2>4 DEF IInv, MapInv, TlbInv
    <2>6. "process" \in frames[FrameOf(p)].owners
      BY <1>1, <2>4, <2>5 DEF IInv, MapInv, OwnInv
    <2>7. FrameAt(dst) = FrameOf(p) BY <2>3, <2>5 DEF FrameAt
    <2> QED BY <2>5, <2>6, <2>7
  <1>2. IInv /\ [Next]_vars => [(Store /\ call.fn \in UserStores) => OwnersAllow]_vars
    BY <1>1
  <1> QED BY <1>2, Invariance, PTL DEF Spec, NoStaleWrite

-----------------------------------------------------------------------------
(* The refinement: what the process sees of memory that its pages move in. *)
LEMMA UmemAt ==
  /\ DOMAIN umem = 0 .. TASK_SIZE - 1
  /\ umem = [a \in 0 .. TASK_SIZE - 1 |-> Byte(Page(a), a % PageSize)]
  BY DEF umem, Byte

LEMMA AddressParts ==
  ASSUME NEW a \in 0 .. TASK_SIZE - 1
  PROVE  Page(a) \in Pages /\ a % PageSize \in 0 .. PageSize - 1
  <1>1. a \in Nat /\ a < TASK_SIZE BY Constants
  <1> QED BY <1>1, PageOf

LEMMA InvisibleStep ==
  ASSUME Invisible
  PROVE  umem' = umem /\ prots' = prots
  <1>1. umem' = [a \in 0 .. TASK_SIZE - 1 |-> Byte(Page(a), a % PageSize)']
    BY DEF umem, Byte
  <1>2. ASSUME NEW a \in 0 .. TASK_SIZE - 1
        PROVE  Byte(Page(a), a % PageSize)' = Byte(Page(a), a % PageSize)
    BY AddressParts DEF Invisible
  <1> QED BY <1>1, <1>2, UmemAt DEF Invisible

(* The status of a call in AbstractUserMemory. *)
status == CASE pc = "new" -> "new" [] pc \notin {"new", "idle"} -> "running"
            [] OTHER -> IF res = 0 THEN "ok" ELSE "failed"

LEMMA StatusOf ==
  ASSUME Types
  PROVE  /\ pc = "new" => status = "new"
         /\ Busy => status = "running"
         /\ pc = "idle" => status = IF res = 0 THEN "ok" ELSE "failed"
  <1>1. pc \in {"new", "load", "store", "trap", "idle"} BY DEF Types
  <1>2. pc = "new" => status = "new" BY DEF status
  <1>3. Busy => pc # "new" /\ pc # "idle" BY DEF Busy
  <1>4. pc # "new" /\ pc # "idle" => status = "running" BY DEF status
  <1>5. ASSUME pc = "idle" PROVE status = IF res = 0 THEN "ok" ELSE "failed"
    <2>1. pc # "new" BY <1>5
    <2>2. CASE res = 0 BY <1>5, <2>1, <2>2 DEF status
    <2>3. CASE res # 0 BY <1>5, <2>1, <2>3 DEF status
    <2> QED BY <2>2, <2>3
  <1> QED BY <1>2, <1>3, <1>4, <1>5

(* User memory is open during an access of it and at no other time. *)
LEMMA OpenInAccess == Types /\ LoopInv => ((~pum) = Bytes!InAccess)
  <1> SUFFICES ASSUME Types, LoopInv PROVE (~pum) = Bytes!InAccess
    OBVIOUS
  <1>1. status = "running" <=> Busy
    <2>1. pc \in {"new", "idle"} \/ Busy BY DEF Types, Busy
    <2>2. pc = "idle" => status # "running" BY StatusOf
    <2>3. pc = "new" => status # "running" BY StatusOf
    <2> QED BY <2>1, <2>2, <2>3, StatusOf
  <1>2. OfUser <=> call.fn \in Bytes!Loads \cup Bytes!Stores
    BY DEF OfUser, UserLoads, UserStores, Bytes!Loads, Bytes!Stores
  <1>3. Bytes!InAccess <=> (status = "running" /\ call.fn \in Bytes!Loads \cup Bytes!Stores)
    BY DEF Bytes!InAccess, status
  <1>4. (~pum) <=> (Busy /\ OfUser) BY DEF LoopInv
  <1>5. (~pum) <=> Bytes!InAccess BY <1>1, <1>2, <1>3, <1>4
  <1>6. Bytes!InAccess \in BOOLEAN BY DEF Bytes!InAccess
  <1> QED BY <1>5, <1>6

LEMMA OpenStep == IInv' => ((~pum) = Bytes!InAccess)'
  <1>1. IInv => Types /\ LoopInv BY DEF IInv
  <1> QED BY <1>1, OpenInAccess, PTL

(* A step of the abstract specification that leaves its variables alone. *)
BytesVars == <<call, status, done, reg, kmem, umem, prots, ~pum>>

LEMMA InitRefines == Init => Bytes!Init
  <1> SUFFICES ASSUME Init PROVE Bytes!Init
    OBVIOUS
  <1>1. Types BY InitTypes
  <1>2. pc = "new" /\ done = 0 /\ reg = <<>> /\ pum = TRUE /\ op.kind = "none"
        /\ vma = [p \in Pages |-> "rw"]
    BY DEF Init, NoOp
  <1>3. status = "new" BY <1>1, <1>2, StatusOf
  <1>4. prots = [p \in Pages |-> "rw"] BY <1>2 DEF prots
  <1> QED BY <1>2, <1>3, <1>4 DEF Bytes!Init, status, Pages

(* Steps no process sees: paging, migration, fork and the task switch. *)
LEMMA StutterRefines ==
  ASSUME IInv, IInv', Invisible, pc' = pc \/ (Busy /\ Busy'),
         UNCHANGED <<call, done, reg, res, kmem, pum>>
  PROVE  UNCHANGED BytesVars
  <1>1. umem' = umem /\ prots' = prots BY InvisibleStep
  <1>2. status' = status
    <2>1. CASE pc' = pc BY <2>1 DEF status
    <2>2. CASE Busy /\ Busy'
      <3>1. status = "running" BY <2>2, StatusOf DEF IInv
      <3>2. pc' \notin {"new", "idle"} BY <2>2 DEF Busy
      <3>3. status' = "running" BY <3>2 DEF status
      <3> QED BY <3>1, <3>3
    <2> QED BY <2>1, <2>2
  <1> QED BY <1>1, <1>2 DEF BytesVars

LEMMA CallRefines ==
  ASSUME IInv, NEW c \in Calls, Call(c)
  PROVE  Bytes!Call(c)
  <1>1. c.fn \in Routines /\ c.dst \in Nat /\ c.src \in Nat /\ c.n \in Nat BY CallsAssumption
  <1>2. pc = "new" /\ call' = c /\ done' = 0 /\ reg' = <<>> BY DEF Call
  <1>3. status = "new" BY <1>2, StatusOf DEF IInv
  <1>4. umem' = umem /\ prots' = prots BY DEF Call, mapVars, umem, prots, FrameOf, Held
  <1>5. CASE pc' = "load"
    <2>1. kmem' = kmem BY <1>5 DEF Call
    <2>2. status' = "running" BY <1>5 DEF status
    <2> QED BY <1>2, <1>3, <1>4, <2>1, <2>2 DEF Bytes!Call, status
  <1>6. CASE pc' = "idle"
    <2>1. kmem' = Failed(c) /\ res' = c.n BY <1>6 DEF Call
    <2>2. Failed(c) = Bytes!Failed(c) BY DEF Failed, Bytes!Failed, Bytes!Range
    <2>3. status' = IF c.n = 0 THEN "ok" ELSE "failed"
      <3>1. pc' # "new" /\ ~(pc' \notin {"new", "idle"}) BY <1>6
      <3>2. CASE c.n = 0 BY <1>6, <2>1, <3>1, <3>2 DEF status
      <3>3. CASE c.n # 0 BY <1>6, <2>1, <3>1, <3>3 DEF status
      <3> QED BY <3>2, <3>3
    <2>4. /\ c.fn \in Bytes!Loads \cup Bytes!Stores
          /\ (IF c.fn \in Bytes!Loads THEN c.src ELSE c.dst) + c.n > NPages * PageSize
      <3>1. ~(IF c.fn \in UserStores THEN access_ok(c.dst, c.n)
              ELSE c.fn \in UserLoads => access_ok(c.src, c.n))
        BY <1>6 DEF Call
      <3>2. \A a \in Nat : ~access_ok(a, c.n) => a + c.n > TASK_SIZE
        BY <1>1, Constants DEF access_ok
      <3>3. TASK_SIZE = NPages * PageSize BY DEF TASK_SIZE
      <3>4. Bytes!Loads = UserLoads /\ Bytes!Stores = UserStores
        BY DEF Bytes!Loads, Bytes!Stores, UserLoads, UserStores
      <3>5. CASE c.fn \in UserStores
        <4>1. c.fn \notin UserLoads BY <3>5 DEF UserStores, UserLoads
        <4> QED BY <1>1, <3>1, <3>2, <3>3, <3>4, <3>5, <4>1
      <3>6. CASE c.fn \notin UserStores BY <1>1, <3>1, <3>2, <3>3, <3>4, <3>6
      <3> QED BY <3>5, <3>6
    <2> QED BY <1>2, <1>3, <1>4, <2>1, <2>2, <2>3, <2>4 DEF Bytes!Call, status
  <1> QED BY <1>5, <1>6 DEF Call

LEMMA ReturnRefines ==
  ASSUME IInv, Return
  PROVE  Bytes!Return
  <1>1. /\ pc = "load" /\ pc' = "idle" /\ res' = 0 /\ left = 0
        /\ UNCHANGED <<call, done, reg, kmem, mapVars>>
    BY DEF Return, Running
  <1>2. status = "running" BY <1>1, StatusOf DEF IInv, Busy
  <1>3. status' = "ok" BY <1>1 DEF status
  <1>4. umem' = umem /\ prots' = prots BY <1>1 DEF mapVars, umem, prots, FrameOf, Held
  <1>5. Bytes!left = 0 BY <1>1 DEF Bytes!left, left
  <1> QED BY <1>1, <1>2, <1>3, <1>4, <1>5 DEF Bytes!Return, status

(* The access of a page through the TLB: it leads to the page's bytes, and *)
(* is permitted.                                                           *)
LEMMA AccessSees ==
  ASSUME IInv, Busy, OfUser, left > 0, mm = "process", NEW write \in BOOLEAN,
         Access(UserAt, write)
  PROVE  /\ FrameAt(UserAt) = FrameOf(Page(UserAt)) /\ FrameAt(UserAt) \in Frames
         /\ \A i \in 0 .. step - 1 :
              /\ UserAt + i \in 0 .. TASK_SIZE - 1
              /\ prots[Page(UserAt + i)] \in IF write THEN {"rw"} ELSE {"r", "rw"}
              /\ umem[UserAt + i] = frames[FrameAt(UserAt)].data[(UserAt + i) % PageSize]
  <1> USE DEF IInv
  <1>1. /\ UserAt \in Nat /\ step \in Nat \ {0} /\ UserAt + step <= TASK_SIZE
        /\ Page(UserAt) \in Pages
        /\ \A i \in 0 .. step - 1 : Page(UserAt + i) = Page(UserAt)
    BY Addresses
  <1>2. PICK p \in Pages : p = Page(UserAt) BY <1>1
  <1>3. tlb[p].frame # 0 /\ (write => tlb[p].write) BY <1>2 DEF Access, Allowed
  <1>4. /\ tlb[p].frame = FrameOf(p) /\ prots[p] # "none"
        /\ tlb[p].write => prots[p] = "rw"
    BY <1>3 DEF MapInv, TlbInv
  <1>5. FrameAt(UserAt) = FrameOf(p) BY <1>2, <1>4 DEF FrameAt
  <1>6. FrameOf(p) \in Frames BY <1>3, <1>4, FrameFacts
  <1>7. prots[p] \in Prots
    <2>1. vma[p] \in Prots /\ op.prot \in Prots BY DEF Types
    <2> QED BY <2>1, ProtsAt
  <1>8. ASSUME NEW i \in 0 .. step - 1
        PROVE  /\ UserAt + i \in 0 .. TASK_SIZE - 1
               /\ prots[Page(UserAt + i)] \in IF write THEN {"rw"} ELSE {"r", "rw"}
               /\ umem[UserAt + i] = frames[FrameAt(UserAt)].data[(UserAt + i) % PageSize]
    <2>1. Page(UserAt + i) = p BY <1>1, <1>2
    <2>2. UserAt + i \in 0 .. TASK_SIZE - 1 BY <1>1, Constants
    <2>3. prots[p] \in IF write THEN {"rw"} ELSE {"r", "rw"}
      BY <1>3, <1>4, <1>7 DEF Prots
    <2>4. umem[UserAt + i] = Byte(p, (UserAt + i) % PageSize) BY <2>1, <2>2, UmemAt
    <2>5. Byte(p, (UserAt + i) % PageSize) = frames[FrameOf(p)].data[(UserAt + i) % PageSize]
      BY <1>3, <1>4 DEF Byte
    <2> QED BY <1>5, <2>1, <2>2, <2>3, <2>4, <2>5
  <1> QED BY <1>2, <1>5, <1>6, <1>8

LEMMA SameNames ==
  /\ Bytes!Loads = UserLoads /\ Bytes!Stores = UserStores
  /\ Bytes!src = src /\ Bytes!dst = dst /\ Bytes!left = left
  BY DEF Bytes!Loads, Bytes!Stores, UserLoads, UserStores, Bytes!src, Bytes!dst, Bytes!left,
     src, dst, left

LEMMA LoadRefines ==
  ASSUME IInv, Load
  PROVE  \E k \in 1 .. Bytes!left : Bytes!Load(k)
  <1> USE DEF IInv
  <1>1. /\ pc = "load" /\ pc' = "store" /\ mm = "process" /\ left > 0
        /\ UNCHANGED <<call, done, kmem, mapVars>>
    BY DEF Load, Running
  <1>2. Busy /\ Where = "load" /\ reg = <<>> BY <1>1 DEF Busy, Where, LoopInv
  <1>3. step \in 1 .. left BY <1>2, <1>1, StepBounds
  <1>4. status = "running" BY <1>2, StatusOf
  <1>5. status' = "running" BY <1>1 DEF status
  <1>6. umem' = umem /\ prots' = prots BY <1>1 DEF mapVars, umem, prots, FrameOf, Held
  <1>7. src \in Nat BY CallTypes
  <1>8. ASSUME call.fn \in UserLoads
        PROVE  /\ OfUser /\ UserAt = src /\ Access(UserAt, FALSE)
               /\ FrameAt(src) = FrameAt(UserAt)
    BY <1>8 DEF OfUser, UserAt, Load
  <1>9. ASSUME call.fn \in UserLoads, NEW i \in 0 .. step - 1
        PROVE  /\ src + i \in 0 .. TASK_SIZE - 1
               /\ prots[Page(src + i)] \in {"r", "rw"}
               /\ umem[src + i] = frames[FrameAt(src)].data[(src + i) % PageSize]
    BY <1>1, <1>2, <1>8, <1>9, AccessSees
  <1>10. call.fn \in UserLoads => \A a \in src .. src + step - 1 : Bytes!May(a, FALSE)
    <2> SUFFICES ASSUME call.fn \in UserLoads, NEW a \in src .. src + step - 1
                 PROVE  Bytes!May(a, FALSE)
      OBVIOUS
    <2>1. a - src \in 0 .. step - 1 /\ src + (a - src) = a BY <1>3, <1>7
    <2>2. a \in 0 .. TASK_SIZE - 1 /\ prots[Page(a)] \in {"r", "rw"} BY <1>9, <2>1
    <2> QED BY <2>2, UmemAt DEF Bytes!May, Page
  <1>11. reg' = [i \in 1 .. step |-> Bytes!Source(i)]
    <2> DEFINE Value(i) ==
         CASE call.fn = "memset" -> -1
           [] call.fn = "clear_user" -> 0
           [] call.fn \in UserLoads ->
                frames[FrameAt(src)].data[(src + i - 1) % PageSize]
           [] OTHER -> kmem[src + i - 1]
    <2>1. reg' = [i \in 1 .. step |-> Value(i)] BY DEF Load
    <2>2. ASSUME NEW i \in 1 .. step PROVE Value(i) = Bytes!Source(i)
      <3>1. CASE call.fn \in UserLoads
        <4>1. i - 1 \in 0 .. step - 1 /\ src + (i - 1) = src + i - 1 BY <1>3, <1>7
        <4>2. umem[src + i - 1] = frames[FrameAt(src)].data[(src + i - 1) % PageSize]
          BY <1>9, <3>1, <4>1
        <4>3. Value(i) = frames[FrameAt(src)].data[(src + i - 1) % PageSize]
          BY <3>1 DEF UserLoads
        <4>4. Bytes!Source(i) = umem[src + i - 1]
          BY <3>1, SameNames DEF Bytes!Source, UserLoads
        <4> QED BY <4>2, <4>3, <4>4
      <3>2. CASE call.fn \notin UserLoads
        BY <3>2, SameNames DEF Bytes!Source
      <3> QED BY <3>1, <3>2
    <2> HIDE DEF Value
    <2> QED BY <2>1, <2>2
  <1>12. Bytes!Load(step)
    BY <1>1, <1>2, <1>4, <1>5, <1>6, <1>10, <1>11, SameNames DEF Bytes!Load, Bytes!Range, status
  <1> QED BY <1>3, <1>12, SameNames

LEMMA StoreRefines ==
  ASSUME IInv, Store
  PROVE  Bytes!Store
  <1> USE DEF IInv
  <1>1. /\ pc = "store" /\ pc' = "load" /\ mm = "process"
        /\ done' = done + Len(reg) /\ reg' = <<>>
        /\ UNCHANGED <<call, vma, pte, op>>
    BY DEF Store, Running
  <1>2. Busy /\ Where = "store" /\ left > 0 /\ Len(reg) = step BY <1>1 DEF Busy, Where, LoopInv
  <1>3. step \in 1 .. left /\ left \in Int /\ dst \in Nat BY <1>2, StepBounds, CallTypes
  <1>4. reg # <<>> BY <1>2, <1>3
  <1>5. status = "running" BY <1>2, StatusOf
  <1>6. status' = "running" BY <1>1 DEF status
  <1>7. prots' = prots BY <1>1 DEF prots
  <1>8. \A q \in Pages : FrameOf(q)' = FrameOf(q) BY <1>1 DEF FrameOf, Held
  <1>9. CASE call.fn \notin UserStores
    <2>1. kmem' = Overwritten(kmem, dst) /\ frames' = frames BY <1>9 DEF Store
    <2>2. kmem' = Bytes!Put(kmem) BY <2>1, SameNames DEF Bytes!Put, Bytes!Range, Overwritten
    <2>3. umem' = umem BY <1>1, <2>1 DEF umem, FrameOf, Held
    <2> QED BY <1>1, <1>4, <1>5, <1>6, <1>7, <1>9, <2>2, <2>3, SameNames DEF Bytes!Store, status
  <1>10. CASE call.fn \in UserStores
    <2>1. OfUser /\ UserAt = dst /\ Access(UserAt, TRUE) /\ kmem' = kmem
          /\ frames' = [frames EXCEPT ![FrameAt(dst)].data = Overwritten(@, dst % PageSize)]
      BY <1>10 DEF OfUser, UserAt, UserStores, UserLoads, Store
    <2>2. \A i \in 0 .. step - 1 : /\ dst + i \in 0 .. TASK_SIZE - 1
                                   /\ prots[Page(dst + i)] = "rw"
      BY <1>1, <1>2, <2>1, AccessSees
    <2>3. PICK p \in Pages, f \in Frames, o \in 0 .. PageSize - 1 :
            p = Page(dst) /\ f = FrameAt(dst) /\ f = FrameOf(p) /\ o = dst % PageSize
      BY <1>1, <1>2, <2>1, Addresses, AccessSees
    <2>4. \A i \in 0 .. step - 1 : Page(dst + i) = p /\ (dst + i) % PageSize = o + i
      BY <1>2, <2>1, <2>3, Addresses
    <2>5. \A a \in dst .. dst + Len(reg) - 1 : Bytes!May(a, TRUE)
      <3> TAKE a \in dst .. dst + Len(reg) - 1
      <3>1. a - dst \in 0 .. step - 1 /\ dst + (a - dst) = a BY <1>2, <1>3
      <3>2. a \in 0 .. TASK_SIZE - 1 /\ prots[Page(a)] = "rw" BY <2>2, <3>1
      <3> QED BY <3>2, UmemAt DEF Bytes!May, Page
    <2>6. umem' = Bytes!Put(umem)
      <3>1. umem' = [a \in 0 .. TASK_SIZE - 1 |-> Byte(Page(a), a % PageSize)']
        BY DEF umem, Byte
      <3>2. Bytes!Put(umem) = [a \in 0 .. TASK_SIZE - 1 |->
              IF a \in dst .. dst + Len(reg) - 1 THEN reg[a - dst + 1] ELSE umem[a]]
        BY UmemAt, SameNames DEF Bytes!Put, Bytes!Range
      <3>3. frames \in [Frames -> FrameType] BY DEF Types
      <3>4. ASSUME NEW a \in 0 .. TASK_SIZE - 1
            PROVE  Byte(Page(a), a % PageSize)' =
                     IF a \in dst .. dst + Len(reg) - 1 THEN reg[a - dst + 1] ELSE umem[a]
        <4>1. PICK q \in Pages, r \in 0 .. PageSize - 1 :
                q = Page(a) /\ r = a % PageSize /\ a = PageSize * q + r
          <5>1. a \in Nat /\ a < TASK_SIZE BY Constants
          <5> QED BY <5>1, PageOf
        <4>2. umem[a] = Byte(q, r) BY <4>1, UmemAt
        <4>3. CASE q = p
          <5>1. a \in dst .. dst + Len(reg) - 1 <=> r \in o .. o + Len(reg) - 1
            <6>1. dst = PageSize * p + o
              <7>1. dst < TASK_SIZE
                <8>1. 0 \in 0 .. step - 1 /\ dst + 0 = dst BY <1>3
                <8> QED BY <1>3, <2>2, <8>1, Constants
              <7> QED BY <1>3, <2>3, <7>1, PageOf
            <6>2. PageSize * p \in Int BY Constants DEF Pages
            <6> QED BY <1>2, <1>3, <4>1, <4>3, <6>1, <6>2
          <5>2. a - dst = r - o
            <6>1. dst = PageSize * p + o
              <7>1. dst < TASK_SIZE
                <8>1. 0 \in 0 .. step - 1 /\ dst + 0 = dst BY <1>3
                <8> QED BY <1>3, <2>2, <8>1, Constants
              <7> QED BY <1>3, <2>3, <7>1, PageOf
            <6>2. PageSize * p \in Int BY Constants DEF Pages
            <6> QED BY <1>3, <4>1, <4>3, <6>1, <6>2
          <5>3. frames[f] \in FrameType /\ DOMAIN frames[f].data = 0 .. PageSize - 1
            BY <3>3 DEF FrameType, PageData
          <5>4. frames'[f].data = Overwritten(frames[f].data, o)
            BY <2>1, <2>3, <3>3, <5>3 DEF FrameType
          <5>5. frames'[f].data[r] =
                  IF r \in o .. o + Len(reg) - 1 THEN reg[r - o + 1] ELSE frames[f].data[r]
            BY <5>3, <5>4 DEF Overwritten
          <5>6. f # 0 BY Constants DEF Frames
          <5>7. Byte(q, r)' = frames'[f].data[r] /\ Byte(q, r) = frames[f].data[r]
            BY <1>8, <2>3, <4>3, <5>6 DEF Byte
          <5> QED BY <4>1, <4>2, <5>1, <5>2, <5>5, <5>7
        <4>4. CASE q # p
          <5>1. a \notin dst .. dst + Len(reg) - 1
            <6> SUFFICES ASSUME a \in dst .. dst + Len(reg) - 1 PROVE FALSE
              OBVIOUS
            <6>1. a - dst \in 0 .. step - 1 /\ dst + (a - dst) = a BY <1>2, <1>3
            <6> QED BY <2>4, <4>1, <4>4, <6>1
          <5>2. FrameOf(q) # 0 => FrameOf(q) # f
            BY <2>3, <4>4 DEF MapInv, OwnInv
          <5>3. FrameOf(q) # 0 => frames'[FrameOf(q)] = frames[FrameOf(q)]
            BY <2>1, <2>3, <3>3, <5>2, FrameFacts
          <5>4. Byte(q, r)' = Byte(q, r) BY <1>8, <5>3 DEF Byte
          <5> QED BY <4>1, <4>2, <5>1, <5>4
        <4> QED BY <4>3, <4>4
      <3> QED BY <3>1, <3>2, <3>4
    <2> QED BY <1>1, <1>4, <1>5, <1>6, <1>7, <1>10, <2>1, <2>5, <2>6, SameNames
        DEF Bytes!Store, Bytes!Range, status
  <1> QED BY <1>9, <1>10


(* The call fails: bytes are left, and their page may not be accessed. *)
LEMMA FailRefines ==
  ASSUME IInv, fixup_exception
  PROVE  Bytes!Fail
  <1> USE DEF IInv
  <1>1. /\ pc = "trap" /\ ~Permitted /\ pc' = "idle" /\ kmem' = Failed(call)
        /\ op.kind # "none" => op.kind = "migrate"
        /\ UNCHANGED <<call, done, reg, mapVars>>
    BY DEF fixup_exception, fixup, FaultMayRun, Running
  <1>2. /\ Busy /\ left > 0 /\ UserAddr = UserAt
        /\ Where = at /\ at \in {"load", "store"}
        /\ IF at = "load" THEN call.fn \in UserLoads ELSE call.fn \in UserStores
    BY <1>1, TrapPage DEF Where, Types
  <1>3. PICK p \in Pages : p = UserPage BY <1>1, TrapPage
  <1>4. status = "running" BY <1>2, StatusOf
  <1>5. res' # 0
    <2>1. /\ call.dst \in Nat /\ call.src \in Nat /\ call.n \in Nat /\ done \in Nat
          /\ dst \in Nat /\ TASK_SIZE \in Nat \ {0}
      BY CallTypes, Constants
    <2>2. dst + left = call.dst + call.n /\ left = call.n - done BY <2>1 DEF dst, left
    <2>3. /\ call.fn \in UserStores => call.dst + call.n <= TASK_SIZE
          /\ call.fn \in UserLoads => call.src + call.n <= TASK_SIZE
      BY <1>2 DEF LoopInv
    <2>4. res' = CASE call.fn = "copy_to_user" -> 2 * TASK_SIZE + call.src + call.n - dst
                   [] call.fn = "copy_from_user" -> call.src + call.n - (2 * TASK_SIZE + dst)
                   [] call.fn = "clear_user" -> call.dst + call.n - dst
                   [] OTHER -> call.n
      BY DEF fixup_exception, fixup, PAGE_OFFSET
    <2>5. CASE call.fn = "copy_to_user"
      <3>1. res' = 2 * TASK_SIZE + call.src + call.n - dst BY <2>4, <2>5
      <3>2. dst + left <= TASK_SIZE BY <2>2, <2>3, <2>5 DEF UserStores
      <3> QED BY <1>2, <2>1, <2>2, <3>1, <3>2
    <2>6. CASE call.fn = "copy_from_user"
      <3>1. res' = call.src + call.n - (2 * TASK_SIZE + dst) BY <2>4, <2>6
      <3>2. call.src + call.n <= TASK_SIZE BY <2>3, <2>6 DEF UserLoads
      <3> QED BY <2>1, <3>1, <3>2
    <2>7. CASE call.fn = "clear_user"
      <3>1. res' = call.dst + call.n - dst BY <2>4, <2>7
      <3> QED BY <1>2, <2>1, <2>2, <3>1
    <2>8. CASE call.fn \notin {"copy_to_user", "copy_from_user", "clear_user"}
      <3>1. res' = call.n BY <2>4, <2>8
      <3> QED BY <1>2, <2>1, <2>2, <3>1
    <2> QED BY <2>5, <2>6, <2>7, <2>8
  <1>6. status' = "failed" BY <1>1, <1>5 DEF status
  <1>7. umem' = umem /\ prots' = prots BY <1>1 DEF mapVars, umem, prots, FrameOf, Held
  <1>8. kmem' = Bytes!Failed(call)
    BY <1>1 DEF Failed, Bytes!Failed, Bytes!Range
  <1>9. prots[p] = vma[p] BY <1>1, ProtsAt
  <1>10. vma[p] # "rw" /\ (at = "load" => vma[p] # "r") BY <1>1, <1>3 DEF Permitted
  <1>11. p = UserAt \div PageSize BY <1>2, <1>3 DEF UserPage, Page
  <1>12. \/ call.fn \in UserLoads /\ ~Bytes!May(src, FALSE)
         \/ call.fn \in UserStores /\ ~Bytes!May(dst, TRUE)
    <2>1. CASE at = "load"
      <3>1. call.fn \in UserLoads /\ UserAt = src BY <1>2, <2>1 DEF UserAt
      <3> QED BY <1>9, <1>10, <1>11, <2>1, <3>1 DEF Bytes!May
    <2>2. CASE at = "store"
      <3>1. call.fn \in UserStores /\ UserAt = dst
        BY <1>2, <2>2 DEF UserAt, UserLoads, UserStores
      <3> QED BY <1>9, <1>10, <1>11, <3>1 DEF Bytes!May
    <2> QED BY <1>2, <2>1, <2>2
  <1> QED BY <1>1, <1>2, <1>4, <1>6, <1>7, <1>8, <1>12, SameNames DEF Bytes!Fail, status

(* The flush is where a change of the permissions, and the loss of the     *)
(* bytes of an unmapped page, become visible.                              *)
LEMMA FlushRefines ==
  ASSUME IInv, IInv', Flush
  PROVE  \/ UNCHANGED BytesVars
         \/ \E p \in 0 .. NPages - 1, prot \in {"none", "r", "rw"} : Bytes!Protect(p, prot)
  <1> USE DEF IInv
  <1>1. PICK p \in Pages : op.page = p BY DEF Types
  <1>2. /\ op.flushed = FALSE /\ op.kind \in {"migrate", "protect", "unmap", "fork"}
        /\ vma' = vma /\ frames' = frames
        /\ op'.kind = op.kind /\ op'.page = p /\ op'.flushed = TRUE
    BY <1>1, FlushFacts DEF Types
  <1>3. /\ \A q \in Pages \ {p} : FrameOf(q)' = FrameOf(q)
        /\ FrameOf(p)' = IF op.kind = "unmap" THEN 0 ELSE FrameOf(p)
    BY <1>1, FlushFacts
  <1>4. \A q \in Pages \ {p} : prots'[q] = prots[q]
    BY <1>1, FlushFacts
  <1>5. prots'[p] = vma[p]
    <2>1. prots'[p] = IF op'.kind \in {"protect", "unmap"} /\ op'.page = p /\ ~op'.flushed
                      THEN op'.prot ELSE vma'[p]
      BY DEF prots
    <2> QED BY <1>2, <2>1
  <1>6. UNCHANGED <<call, pc, done, reg, res, kmem, pum>> BY DEF Flush, callVars
  <1>7. CASE op.kind \in {"migrate", "fork"}
    <2>1. prots[p] = vma[p] BY <1>7, ProtsAt
    <2>2. \A q \in Pages : FrameOf(q)' = FrameOf(q) BY <1>3, <1>7
    <2>3. \A q \in Pages : prots'[q] = prots[q] BY <1>4, <1>5, <2>1
    <2>4. Invisible BY <1>2, <2>2, <2>3, SameView
    <2> QED BY <1>6, <2>4, StutterRefines
  <1>8. CASE op.kind \in {"protect", "unmap"}
    <2>1. op.kind = "protect" <=> vma[p] # "none" BY <1>1, <1>8 DEF MapInv, OpInv
    <2>2. prots' = [prots EXCEPT ![p] = vma[p]]
      <3>1. prots = [q \in Pages |-> prots[q]] /\ prots' = [q \in Pages |-> prots'[q]] BY DEF prots
      <3>2. DOMAIN prots = Pages BY DEF prots
      <3>3. [prots EXCEPT ![p] = vma[p]] = [q \in Pages |-> IF q = p THEN vma[p] ELSE prots[q]]
        BY <3>2
      <3>4. \A q \in Pages : prots'[q] = IF q = p THEN vma[p] ELSE prots[q] BY <1>4, <1>5
      <3> QED BY <3>1, <3>3, <3>4
    <2>3. umem' = IF vma[p] = "none"
                  THEN [a \in DOMAIN umem |-> IF a \div PageSize = p THEN 0 ELSE umem[a]]
                  ELSE umem
      <3>1. umem' = [a \in 0 .. TASK_SIZE - 1 |-> Byte(Page(a), a % PageSize)']
        BY DEF umem, Byte
      <3>2. ASSUME NEW a \in 0 .. TASK_SIZE - 1
            PROVE  Byte(Page(a), a % PageSize)' =
                     IF vma[p] = "none" /\ a \div PageSize = p THEN 0 ELSE umem[a]
        <4>1. PICK q \in Pages, r \in 0 .. PageSize - 1 : q = Page(a) /\ r = a % PageSize
          BY AddressParts
        <4>2. umem[a] = Byte(q, r) BY <4>1, UmemAt
        <4>3. q = a \div PageSize BY <4>1 DEF Page
        <4>4. CASE op.kind = "unmap" /\ q = p
          <5>1. Byte(q, r)' = 0 BY <1>3, <4>4 DEF Byte
          <5> QED BY <2>1, <4>1, <4>3, <4>4, <5>1
        <4>5. CASE ~(op.kind = "unmap" /\ q = p)
          <5>1. FrameOf(q)' = FrameOf(q) BY <1>3, <4>5
          <5>2. Byte(q, r)' = Byte(q, r) BY <1>2, <5>1 DEF Byte
          <5>3. ~(vma[p] = "none" /\ a \div PageSize = p) BY <1>8, <2>1, <4>3, <4>5
          <5> QED BY <4>1, <4>2, <5>2, <5>3
        <4> QED BY <4>4, <4>5
      <3>3. umem = [a \in 0 .. TASK_SIZE - 1 |-> umem[a]] /\ DOMAIN umem = 0 .. TASK_SIZE - 1
        BY UmemAt
      <3>4. CASE vma[p] = "none" BY <3>1, <3>2, <3>3, <3>4
      <3>5. CASE vma[p] # "none" BY <3>1, <3>2, <3>3, <3>5
      <3> QED BY <3>4, <3>5
    <2>4. status' = status BY <1>6 DEF status
    <2>5. Bytes!Protect(p, vma[p]) BY <1>6, <2>2, <2>3, <2>4 DEF Bytes!Protect, status
    <2>6. p \in 0 .. NPages - 1 BY DEF Pages
    <2>7. vma[p] \in {"none", "r", "rw"} BY DEF Types, Prots
    <2> QED BY <2>5, <2>6, <2>7
  <1> QED BY <1>2, <1>7, <1>8

(* The steps that only trap, resolve a fault, or change where a page is.   *)
LEMMA PagingRefines ==
  ASSUME IInv, IInv',
         \/ Trap \/ HandleMmFault \/ (\E p \in Pages : Fill(p))
         \/ Change \/ Finish \/ SwitchAway \/ SwitchBack \/ UNCHANGED vars
  PROVE  UNCHANGED BytesVars
  <1>1. CASE Trap
    <2>1. UNCHANGED <<call, done, reg, res, pum, kmem, mapVars>> /\ pc' = "trap" /\ Accessing
      BY <1>1 DEF Trap
    <2>2. Busy /\ Busy' BY <2>1 DEF Accessing, Running, Busy
    <2>3. /\ \A q \in Pages : FrameOf(q)' = FrameOf(q)
          /\ prots' = prots /\ frames' = frames
      BY <2>1 DEF mapVars, FrameOf, Held, prots
    <2>4. Invisible BY <2>3, SameView
    <2> QED BY <2>1, <2>2, <2>4, StutterRefines
  <1>2. CASE HandleMmFault
    <2>1. Invisible BY <1>2, FaultMap
    <2>2. /\ pc = "trap" /\ pc' \in {"load", "store"}
          /\ UNCHANGED <<call, done, reg, res, pum, kmem>>
      BY <1>2, FaultCases
    <2>3. Busy /\ Busy' BY <2>2 DEF Busy
    <2> QED BY <2>1, <2>2, <2>3, StutterRefines
  <1>3. CASE \E p \in Pages : Fill(p)
    <2>1. Invisible BY <1>3, FillMap
    <2>2. UNCHANGED <<call, pc, done, reg, res, pum, kmem>> BY <1>3 DEF Fill, callVars
    <2> QED BY <2>1, <2>2, StutterRefines
  <1>4. CASE Change
    <2>1. Invisible BY <1>4, ChangeMap
    <2>2. UNCHANGED <<call, pc, done, reg, res, pum, kmem>> BY <1>4, ChangeCases DEF callVars
    <2> QED BY <2>1, <2>2, StutterRefines
  <1>5. CASE Finish
    <2>1. Invisible BY <1>5, FinishMap
    <2>2. UNCHANGED <<call, pc, done, reg, res, pum, kmem>> BY <1>5, FinishCases DEF callVars
    <2> QED BY <2>1, <2>2, StutterRefines
  <1>6. CASE SwitchAway \/ SwitchBack
    <2>1. Invisible BY <1>6, SwitchMap
    <2>2. UNCHANGED <<call, pc, done, reg, res, pum, kmem>>
      BY <1>6 DEF SwitchAway, SwitchBack, switch_mm, callVars
    <2> QED BY <2>1, <2>2, StutterRefines
  <1>7. CASE UNCHANGED vars
    <2>1. UNCHANGED <<call, pc, done, reg, res, pum, kmem, mapVars>> BY <1>7 DEF vars, callVars
    <2>2. /\ \A q \in Pages : FrameOf(q)' = FrameOf(q)
          /\ prots' = prots /\ frames' = frames
      BY <2>1 DEF mapVars, FrameOf, Held, prots
    <2>3. Invisible BY <2>2, SameView
    <2> QED BY <2>1, <2>3, StutterRefines
  <1> QED BY <1>1, <1>2, <1>3, <1>4, <1>5, <1>6, <1>7

LEMMA StepRefines == IInv /\ IInv' /\ [Next]_vars => [Bytes!Next]_(Bytes!vars)
  <1> SUFFICES ASSUME IInv, IInv', [Next]_vars
               PROVE  Bytes!Next \/ UNCHANGED Bytes!vars
    OBVIOUS
  <1>1. (~pum)' = Bytes!InAccess' BY OpenStep
  <1>2. UNCHANGED BytesVars => UNCHANGED Bytes!vars BY DEF BytesVars, Bytes!vars, status
  <1>3. CASE \E c \in Calls : Call(c)
    <2>1. \E c \in Calls : Bytes!Call(c) BY <1>3, CallRefines
    <2> QED BY <1>1, <2>1 DEF Bytes!Next
  <1>4. CASE Load
    <2>1. \E k \in 1 .. Bytes!left : Bytes!Load(k) BY <1>4, LoadRefines
    <2> QED BY <1>1, <2>1 DEF Bytes!Next
  <1>5. CASE Store \/ Return \/ fixup_exception
    <2>1. Bytes!Store \/ Bytes!Return \/ Bytes!Fail BY <1>5, StoreRefines, ReturnRefines, FailRefines
    <2> QED BY <1>1, <2>1 DEF Bytes!Next
  <1>6. CASE Flush
    <2>1. UNCHANGED BytesVars
          \/ \E p \in 0 .. NPages - 1, prot \in {"none", "r", "rw"} : Bytes!Protect(p, prot)
      BY <1>6, FlushRefines
    <2> QED BY <1>1, <1>2, <2>1 DEF Bytes!Next
  <1>7. CASE \/ Trap \/ HandleMmFault \/ (\E p \in Pages : Fill(p))
             \/ Change \/ Finish \/ SwitchAway \/ SwitchBack \/ UNCHANGED vars
    BY <1>2, <1>7, PagingRefines
  <1> QED BY <1>3, <1>4, <1>5, <1>6, <1>7 DEF Next, Copy

(* uaccess.S, uaccess.h: seen from the process paging is invisible.  The   *)
(* bytes a call moved, and only those, arrive where they belong, a call    *)
(* that fails met an address that may not be accessed, and user memory is  *)
(* closed to the kernel whichever way the call ended.                      *)
THEOREM Refinement == Spec => UserMemorySpec
  <1>1. UserMemorySpec <=> Bytes!Init /\ [][Bytes!Next]_(Bytes!vars)
    BY DEF UserMemorySpec, Bytes!Spec
  <1> QED BY <1>1, InitRefines, StepRefines, Invariance, PTL DEF Spec

=============================================================================

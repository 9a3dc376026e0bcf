----------------------------- MODULE UserMemory -----------------------------
(***************************************************************************)
(* The kernel's accesses to user memory: __copy_user and __clear_user      *)
(* (lib/uaccess.S), get_user, put_user and access_ok (asm/uaccess.h), and  *)
(* memset and memcpy, which move bytes by the same kind of loop.  A hart   *)
(* executes one of them through its TLB, while the generic kernel on       *)
(* another hart (external) migrates, write-protects, reprotects and unmaps *)
(* the pages with the helpers of asm/pgtable.h and asm/tlbflush.h.         *)
(*                                                                         *)
(* The memory is private and anonymous: a pte that may be written is also  *)
(* dirty, so the dirty and accessed bits decide nothing and are left out.  *)
(***************************************************************************)
EXTENDS Integers, Sequences, FiniteSets

CONSTANTS
  NPages, PageSize,      \* the process's pages, and their bytes
  SZREG,                 \* bytes of a register
  DUFF, BLOCK,           \* registers per iteration of memset and of memcpy
  MemsetMin, MemcpyMin,  \* below, they go byte by byte
  NFrames,               \* page frames
  KSize,                 \* bytes of the kernel's buffer
  Calls,                 \* the calls the kernel may make
  MaxOps                 \* bound: changes of the mapping, and switches away

ASSUME UserMemoryAssumption ==
  /\ {NPages, PageSize, SZREG, DUFF, BLOCK, NFrames, KSize} \subseteq Nat \ {0}
  /\ PageSize % SZREG = 0
  /\ NPages < NFrames            \* the last frame is another process's
  /\ MaxOps \in Nat

Pages == 0 .. NPages - 1
TASK_SIZE == NPages * PageSize
Frames == 1 .. NFrames
PAGE_OFFSET == 2 * TASK_SIZE         \* where the kernel's buffer is mapped
Page(a) == a \div PageSize

VARIABLES
  call,    \* the routine, its arguments dst, src and n
  pc,      \* "new", "load" or "store" of the loop, "trap" in do_page_fault, "idle"
  at,      \* where the trap was taken
  done,    \* bytes stored
  reg,     \* bytes loaded
  res,     \* what the last call returned
  pum,     \* sstatus.PUM: user memory is protected from the kernel
  kmem,    \* the kernel's buffer
  vma,     \* vma[p]: what the process may do with page p
  pte,     \* pte[p]
  tlb,     \* tlb[p]: the copying hart's TLB
  mm,      \* the mm of the copying hart: the process's or another's
  frames,  \* frames[f]: whose frame f is, and its bytes
  op,      \* the change of the mapping under way on another hart
  budget   \* changes and switches left

callVars == <<call, pc, at, done, reg, res, pum, kmem>>
mapVars  == <<vma, pte, frames, op>>
vars == <<callVars, mapVars, tlb, mm, budget>>

-----------------------------------------------------------------------------
(* Page table entries: flags and a number, of a frame or of a migration    *)
(* entry (a swap entry of a type of its own).                              *)
Pte == [flags : SUBSET {"PRESENT", "READ", "WRITE", "USER"}, num : 0 .. NFrames]

PAGE_READ == {"PRESENT", "USER", "READ"}
(* __P001 to __P011: private memory is never mapped writable at once. *)
protection_map(prot) == IF prot = "none" THEN {} ELSE PAGE_READ

mk_pte(f, prot) == [flags |-> prot, num |-> f]
pte_present(e) == "PRESENT" \in e.flags
pte_none(e) == e = mk_pte(0, {})
pte_write(e) == "WRITE" \in e.flags
pte_wrprotect(e) == [e EXCEPT !.flags = @ \ {"WRITE"}]
(* Mutant: the permission is not added. *)
M_MkwriteMissing(e) == e
pte_mkwrite(e) == [e EXCEPT !.flags = @ \cup {"WRITE"}]
pte_modify(e, prot) == [e EXCEPT !.flags = prot]
__swp_entry_to_pte(n) == [flags |-> {}, num |-> n]

(* The TLB. *)
NoEntry == [write |-> FALSE, frame |-> 0]
sbi_remote_sfence_vm_range(start, size) ==
  [p \in Pages |-> IF \E a \in start .. start + size - 1 : Page(a) = p
                   THEN NoEntry ELSE tlb[p]]
flush_tlb_range(start, end) == sbi_remote_sfence_vm_range(start, end - start)
(* Mutant: the range is empty. *)
M_FlushNothing(addr) == flush_tlb_range(addr, addr)
flush_tlb_page(addr) == flush_tlb_range(addr, addr + 1)
flush_tlb_all == [p \in Pages |-> NoEntry]

-----------------------------------------------------------------------------
(* The loops.  What the next iteration moves, in bytes. *)
UserStores == {"copy_to_user", "clear_user", "put_user"}
UserLoads  == {"copy_from_user", "get_user"}
Fills      == {"clear_user", "memset"}
Routines   == UserStores \cup UserLoads \cup {"memset", "memcpy"}

(* The kernel calls with buffers of its own; get_user and put_user are of  *)
(* variables, whose size is a power of 2 and divides their address.        *)
Variable(c) ==
  LET w == IF c.n > SZREG THEN SZREG ELSE c.n
      addr == IF c.fn = "get_user" THEN c.src ELSE c.dst
  IN  c.n > 0 /\ c.n % w = 0 /\ SZREG % w = 0 /\ addr % w = 0

ASSUME CallsAssumption ==
  /\ Calls \subseteq [fn : Routines, dst : Nat, src : Nat, n : Nat]
  /\ \A c \in Calls :
       /\ c.fn \in {"copy_to_user", "put_user", "memcpy"} => c.src + c.n <= KSize
       /\ c.fn \in UserLoads \cup {"memset", "memcpy"} => c.dst + c.n <= KSize
       /\ c.fn \in {"get_user", "put_user"} => Variable(c)

dst == call.dst + done
src == call.src + done
left == call.n - done

(* __copy_user, __clear_user: registers from the first aligned address, t0, *)
(* to the last, t1, if source and destination are aligned alike.           *)
Between(a, first) ==
  LET t0 == ((first + SZREG - 1) \div SZREG) * SZREG
      t1 == ((first + call.n) \div SZREG) * SZREG
  IN  a >= t0 /\ a < t1

copy_step == IF (call.dst - call.src) % SZREG = 0 /\ Between(src, call.src) THEN SZREG ELSE 1
clear_step == IF Between(dst, call.dst) THEN SZREG ELSE 1

(* memset: Duff's device, its first iteration entered in the middle. *)
memset_step ==
  LET words == left \div SZREG
  IN  IF call.n < MemsetMin \/ dst % SZREG # 0 \/ words = 0 THEN 1
      ELSE SZREG * (IF words % DUFF = 0 THEN DUFF ELSE words % DUFF)

(* memcpy: blocks of registers. *)
memcpy_step ==
  IF \/ call.n < MemcpyMin \/ (call.dst - call.src) % SZREG # 0
     \/ dst % SZREG # 0 \/ left < BLOCK * SZREG
  THEN 1 ELSE BLOCK * SZREG

(* get_user, put_user: one load or store, two for 64 bits on RV32. *)
get_put_step == IF call.n > SZREG THEN SZREG ELSE call.n

step ==
  CASE call.fn \in {"copy_to_user", "copy_from_user"} -> copy_step
    [] call.fn = "clear_user" -> clear_step
    [] call.fn \in {"get_user", "put_user"} -> get_put_step
    [] call.fn = "memset" -> memset_step
    [] call.fn = "memcpy" -> memcpy_step

access_ok(addr, size) == size <= TASK_SIZE /\ addr <= TASK_SIZE - size

(* What a call that fails leaves behind: get_user sets its variable to 0. *)
Failed(c) ==
  IF c.fn = "get_user"
  THEN [i \in DOMAIN kmem |-> IF i \in c.dst .. c.dst + c.n - 1 THEN 0 ELSE kmem[i]]
  ELSE kmem

(* A call begins: access_ok, then user memory is opened. *)
Call(c) ==
  LET checked == IF c.fn \in UserStores THEN access_ok(c.dst, c.n)
                 ELSE c.fn \in UserLoads => access_ok(c.src, c.n)
  IN  /\ pc = "new"
      /\ call' = c /\ done' = 0 /\ reg' = <<>>
      /\ IF checked
         THEN /\ pc' = "load" /\ pum' = (c.fn \notin UserStores \cup UserLoads)
              /\ UNCHANGED <<res, kmem>>
         ELSE /\ pc' = "idle" /\ res' = c.n /\ kmem' = Failed(c)
              /\ UNCHANGED pum
      /\ UNCHANGED <<at, mapVars, tlb, mm, budget>>

Running(where) == pc = where /\ mm = "process"

(* An access of user address a by the hart: through the TLB, which does    *)
(* not look at the pte.                                                    *)
Allowed(e, write) == e.frame # 0 /\ (write => e.write)
Access(a, write) == ~pum /\ Allowed(tlb[Page(a)], write)
FrameAt(a) == tlb[Page(a)].frame

Load ==
  /\ Running("load") /\ left > 0
  /\ call.fn \in UserLoads => Access(src, FALSE)
  /\ reg' = [i \in 1 .. step |->
       CASE call.fn = "memset" -> -1
         [] call.fn = "clear_user" -> 0
         [] call.fn \in UserLoads ->
              frames[FrameAt(src)].data[(src + i - 1) % PageSize]
         [] OTHER -> kmem[src + i - 1]]
  /\ pc' = "store"
  /\ UNCHANGED <<call, at, done, res, pum, kmem, mapVars, tlb, mm, budget>>

Overwritten(mem, first) ==
  [i \in DOMAIN mem |-> IF i \in first .. first + Len(reg) - 1 THEN reg[i - first + 1] ELSE mem[i]]

Store ==
  /\ Running("store")
  /\ IF call.fn \in UserStores
     THEN /\ Access(dst, TRUE)
          /\ frames' = [frames EXCEPT ![FrameAt(dst)].data = Overwritten(@, dst % PageSize)]
          /\ UNCHANGED kmem
     ELSE kmem' = Overwritten(kmem, dst) /\ UNCHANGED frames
  /\ done' = done + Len(reg) /\ reg' = <<>> /\ pc' = "load"
  /\ UNCHANGED <<call, at, res, pum, vma, pte, op, tlb, mm, budget>>

(* The loop ends: user memory is closed, the result is 0. *)
Return ==
  /\ Running("load") /\ left = 0
  /\ pc' = "idle" /\ pum' = TRUE /\ res' = 0
  /\ UNCHANGED <<call, at, done, reg, kmem, mapVars, tlb, mm, budget>>

-----------------------------------------------------------------------------
(* The hart's TLB takes an entry from the page table, when it needs it or  *)
(* ahead of time; while another process runs, from that one's.             *)
Walk(p) == IF pte_present(pte[p]) THEN [write |-> pte_write(pte[p]), frame |-> pte[p].num]
           ELSE NoEntry

Fill(p) ==
  /\ tlb[p] = NoEntry
  /\ tlb' = [tlb EXCEPT ![p] = IF mm = "process" THEN Walk(p) ELSE [write |-> TRUE, frame |-> NFrames]]
  /\ tlb' # tlb
  /\ UNCHANGED <<callVars, mapVars, mm, budget>>

(* An access traps when the entry, or the walk, does not permit it. *)
Where == IF pc = "trap" THEN at ELSE pc
UserAddr == IF Where = "load" THEN src ELSE dst
UserPage == Page(UserAddr)
Accessing == \/ Running("load") /\ left > 0 /\ call.fn \in UserLoads
             \/ Running("store") /\ call.fn \in UserStores
Trap ==
  /\ Accessing
  /\ LET p == UserPage IN
       pum \/ ~Allowed(IF tlb[p] = NoEntry THEN Walk(p) ELSE tlb[p], pc = "store")
  /\ at' = pc /\ pc' = "trap"
  /\ UNCHANGED <<call, done, reg, res, pum, kmem, mapVars, tlb, mm, budget>>

Free == {f \in Frames : frames[f].owners = {}}
FreeFrame == CHOOSE f \in Free : TRUE
Zeros == [i \in 0 .. PageSize - 1 |-> 0]

Permitted == vma[UserPage] = "rw" \/ (vma[UserPage] = "r" /\ at = "load")

(* mmap_sem and the page table's lock are free for the fault's page, which *)
(* is not being migrated.                                                  *)
FaultMayRun ==
  Running("trap") /\ (op.kind # "none" => op.kind = "migrate" /\ op.page # UserPage)

(* handle_mm_fault, external: a new page, a copied one, or one that may be *)
(* written from now on; or another hart was faster.                        *)
HandleMmFault ==
  LET p == UserPage  e == pte[p]  write == at = "store"
      Own(f, data) == [frames EXCEPT ![f] = [owners |-> {"process"}, data |-> data]]
      New == IF write THEN pte_mkwrite(mk_pte(FreeFrame, protection_map(vma[p])))
             ELSE mk_pte(FreeFrame, protection_map(vma[p]))
  IN  /\ FaultMayRun /\ Permitted
      /\ \/ /\ pte_none(e) /\ Free # {}
            /\ frames' = Own(FreeFrame, Zeros)
            /\ pte' = [pte EXCEPT ![p] = New]
            /\ UNCHANGED tlb
         \/ /\ pte_present(e) /\ write /\ ~pte_write(e)
            /\ "child" \in frames[e.num].owners /\ Free # {}
            /\ frames' = [Own(FreeFrame, frames[e.num].data) EXCEPT ![e.num].owners = {"child"}]
            /\ pte' = [pte EXCEPT ![p] = New]
            /\ tlb' = flush_tlb_page(p * PageSize)
         \/ /\ pte_present(e) /\ write /\ ~pte_write(e)
            /\ "child" \notin frames[e.num].owners
            /\ pte' = [pte EXCEPT ![p] = pte_mkwrite(e)]
            /\ tlb' = flush_tlb_page(p * PageSize)
            /\ UNCHANGED frames
         \/ /\ pte_present(e) /\ (write => pte_write(e))
            /\ tlb' = flush_tlb_page(p * PageSize)
            /\ UNCHANGED <<frames, pte>>
      /\ pc' = at
      /\ UNCHANGED <<call, at, done, reg, res, pum, kmem, vma, op, mm, budget>>

fixup(result) ==
  /\ pc' = "idle" /\ pum' = TRUE /\ res' = result /\ kmem' = Failed(call)
  /\ UNCHANGED <<call, at, done, reg, mapVars, tlb, mm, budget>>

(* no_context: fixup_exception continues at the fixup of the instruction.  *)
(* That of uaccess.S returns a3 - a0, where a0 is the destination and a3   *)
(* the end of the source, in __clear_user that of the destination; that of *)
(* get_user and put_user -EFAULT, for which the size stands.               *)
fixup_exception ==
  /\ FaultMayRun /\ ~Permitted
  /\ fixup(CASE call.fn = "copy_to_user" -> PAGE_OFFSET + call.src + call.n - dst
             [] call.fn = "copy_from_user" -> call.src + call.n - (PAGE_OFFSET + dst)
             [] call.fn = "clear_user" -> call.dst + call.n - dst
             [] OTHER -> call.n)

-----------------------------------------------------------------------------
(* The generic kernel on another hart, external: one change at a time      *)
(* under mmap_sem or the page's lock.  It changes the ptes, flushes the    *)
(* TLBs, and only then uses what it took away.                             *)
NoOp == [kind |-> "none", page |-> 0, frame |-> 0, prot |-> "none", write |-> FALSE, flushed |-> FALSE]

Begin(kind, p, newPte) ==
  /\ op.kind = "none" /\ budget > 0 /\ budget' = budget - 1
  /\ op' = [kind |-> kind, page |-> p, prot |-> vma[p], write |-> pte_write(pte[p]),
            frame |-> IF pte_present(pte[p]) THEN pte[p].num ELSE 0, flushed |-> FALSE]
  /\ pte' = newPte
  /\ UNCHANGED <<callVars, tlb, mm>>

(* try_to_unmap of migrate_pages: ptep_clear_flush. *)
Migrate(p) ==
  /\ pte_present(pte[p]) /\ frames[pte[p].num].owners = {"process"} /\ Free # {}
  /\ Begin("migrate", p, [pte EXCEPT ![p] = mk_pte(0, {})])
  /\ UNCHANGED <<vma, frames>>

(* mprotect *)
Protect(p, prot) ==
  /\ vma[p] # "none" /\ prot # vma[p]
  /\ Begin("protect", p,
       [pte EXCEPT ![p] = IF pte_present(@) THEN pte_modify(@, protection_map(prot)) ELSE @])
  /\ vma' = [vma EXCEPT ![p] = prot]
  /\ UNCHANGED frames

(* munmap *)
Unmap(p) ==
  /\ vma[p] # "none"
  /\ Begin("unmap", p, [pte EXCEPT ![p] = mk_pte(0, {})])
  /\ vma' = [vma EXCEPT ![p] = "none"]
  /\ UNCHANGED frames

(* dup_mm: the child shares the frames, which neither may write. *)
Fork ==
  /\ \A f \in Frames : "child" \notin frames[f].owners
  /\ Begin("fork", 0, [p \in Pages |-> IF pte_present(pte[p]) THEN pte_wrprotect(pte[p]) ELSE pte[p]])
  /\ frames' = [f \in Frames |->
       IF "process" \in frames[f].owners
       THEN [frames[f] EXCEPT !.owners = @ \cup {"child"}] ELSE frames[f]]
  /\ UNCHANGED vma

Flush ==
  /\ op.kind # "none" /\ ~op.flushed
  /\ op' = [op EXCEPT !.flushed = TRUE]
  /\ tlb' = CASE op.kind = "migrate" -> flush_tlb_page(op.page * PageSize)
              [] op.kind \in {"fork", "unmap"} -> flush_tlb_all      \* flush_tlb_mm
              [] OTHER -> flush_tlb_range(op.page * PageSize, (op.page + 1) * PageSize)
  /\ pte' = IF op.kind = "migrate"
            THEN [pte EXCEPT ![op.page] = __swp_entry_to_pte(op.frame)] ELSE pte
  /\ UNCHANGED <<callVars, vma, frames, mm, budget>>

Finish ==
  /\ op.kind # "none" /\ op.flushed /\ op' = NoOp
  /\ op.kind = "migrate" => Free # {}
  /\ CASE op.kind = "migrate" ->
            /\ frames' = [frames EXCEPT ![FreeFrame] = frames[op.frame], ![op.frame].owners = {}]
            /\ LET new == mk_pte(FreeFrame, protection_map(vma[op.page])) IN
                 pte' = [pte EXCEPT ![op.page] = IF op.write THEN pte_mkwrite(new) ELSE new]
       [] op.kind = "unmap" /\ op.frame # 0 ->
            /\ frames' = [frames EXCEPT ![op.frame].owners = @ \ {"process"}]
            /\ UNCHANGED pte
       [] OTHER -> UNCHANGED <<frames, pte>>
  /\ UNCHANGED <<callVars, vma, tlb, mm, budget>>

ChildExit ==
  /\ op.kind = "none" /\ \E f \in Frames : "child" \in frames[f].owners
  /\ frames' = [f \in Frames |-> [frames[f] EXCEPT !.owners = @ \ {"child"}]]
  /\ UNCHANGED <<callVars, vma, pte, op, tlb, mm, budget>>

(* Mutant: the TLB is not flushed. *)
M_SwitchMmKeepsTlb(to) ==
  /\ mm' = to
  /\ UNCHANGED <<callVars, mapVars, tlb>>

(* sptbr is written, and the local TLB flushed.  A kernel thread keeps the *)
(* mm and the TLB of the process before it.                                *)
switch_mm(to) ==
  /\ mm' = to /\ tlb' = flush_tlb_all
  /\ UNCHANGED <<callVars, mapVars>>

SwitchAway == mm = "process" /\ budget > 0 /\ budget' = budget - 1 /\ switch_mm("other")
SwitchBack == mm = "other" /\ switch_mm("process") /\ UNCHANGED budget

-----------------------------------------------------------------------------
Data(first) == [i \in 0 .. PageSize - 1 |-> first + i]

Init ==
  /\ call = [fn |-> "memset", dst |-> 0, src |-> 0, n |-> 0]
  /\ pc = "new" /\ at = "load" /\ done = 0 /\ reg = <<>> /\ res = 0
  /\ pum = TRUE
  /\ kmem = [i \in 0 .. KSize - 1 |-> 1 + i]
  /\ vma = [p \in Pages |-> "rw"]
  /\ frames = [f \in Frames |->
       [owners |-> IF f = NFrames THEN {"other"} ELSE IF f <= NPages THEN {"process"} ELSE {},
        data |-> Data(100 + f * PageSize)]]
  /\ pte = [p \in Pages |-> pte_mkwrite(mk_pte(p + 1, PAGE_READ))]
  /\ tlb = flush_tlb_all
  /\ mm = "process" /\ op = NoOp /\ budget \in {0, MaxOps}

Copy == Load \/ Store \/ Return \/ Trap \/ HandleMmFault \/ fixup_exception

Change ==
  \/ \E p \in Pages : Migrate(p) \/ Unmap(p) \/ \E prot \in {"r", "rw"} : Protect(p, prot)
  \/ Fork \/ ChildExit

Next ==
  \/ \E c \in Calls : Call(c)
  \/ Copy \/ (\E p \in Pages : Fill(p))
  \/ Change \/ Flush \/ Finish \/ SwitchAway \/ SwitchBack

Spec == Init /\ [][Next]_vars

(* Harts execute, and walk the page table for an access that needs it; an  *)
(* operation on the mapping, once begun, is finished, and a process that   *)
(* was switched away from runs again.                                      *)
Fairness ==
  /\ WF_vars(Copy) /\ WF_vars(Flush \/ Finish) /\ WF_vars(SwitchBack)
  /\ \A p \in Pages : WF_vars(Accessing /\ p = UserPage /\ Fill(p))

FairSpec == Spec /\ Fairness

-----------------------------------------------------------------------------
(* The bytes of the process's memory, wherever they are at the moment. *)
Held(p) == op.page = p /\ (op.kind = "migrate" \/ (op.kind = "unmap" /\ ~op.flushed))
FrameOf(p) == IF Held(p) THEN op.frame ELSE IF pte_present(pte[p]) THEN pte[p].num ELSE 0
umem == [a \in 0 .. TASK_SIZE - 1 |->
  IF FrameOf(Page(a)) = 0 THEN 0 ELSE frames[FrameOf(Page(a))].data[a % PageSize]]

(* What the process may do: the change of it takes effect when no TLB has  *)
(* the old one any more.                                                   *)
prots == [p \in Pages |->
  IF op.kind \in {"protect", "unmap"} /\ op.page = p /\ ~op.flushed THEN op.prot ELSE vma[p]]

(* uaccess.S:33, uaccess.h: seen from the process, paging is invisible.    *)
(* However its pages move, are shared, protected or unmapped while a call  *)
(* runs, the bytes the call moved, and only those, arrive where they       *)
(* belong, a call that fails met an address that may not be accessed, and  *)
(* user memory is closed to the kernel whichever way the call ended.       *)
Bytes == INSTANCE AbstractUserMemory WITH
  open <- ~pum,
  status <- CASE pc = "new" -> "new" [] pc \notin {"new", "idle"} -> "running"
              [] OTHER -> IF res = 0 THEN "ok" ELSE "failed"
UserMemorySpec == Bytes!Spec

(* tlbflush.h, mmu_context.h: the hart never writes a frame that is free,  *)
(* another process's, or a child's after the fork.                         *)
NoStaleWrite ==
  [][(Store /\ call.fn \in UserStores) =>
       LET owners == frames[FrameAt(dst)].owners IN
       "process" \in owners /\ ("child" \in owners => op.kind = "fork" /\ ~op.flushed)]_vars

(* uaccess.h: a call returns, however often its pages are taken away; a    *)
(* fault it takes does not come back for ever.                             *)
CallsReturn == (pc = "load") ~> (pc = "idle")

(* uaccess.h:430-458: the result of a copy is the number of bytes that     *)
(* were not copied: n when access_ok refuses, 0 at the end.                *)
ResultIsWhatIsLeft ==
  (pc = "idle" /\ call.fn \notin {"get_user", "put_user"}) => res = left
=============================================================================

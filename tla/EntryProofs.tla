----------------------------- MODULE EntryProofs -----------------------------
(***************************************************************************)
(* Proofs about Entry for any set of tasks and any stack size.             *)
(*                                                                         *)
(* The invariant follows the flow of control: a kernel stack is a tower of *)
(* levels, each one entered through its frame and interrupted, but for the *)
(* innermost, where the next frame says.  Only certain places in the       *)
(* kernel are reached through a frame that came from user mode, from the   *)
(* kernel, or from nowhere (a new kernel thread), and the places between   *)
(* the last check of the work flags and the sret are never interrupted.    *)
(***************************************************************************)
EXTENDS Entry, TLAPS

(* Where interrupts are off until the sret, and where they can be on. *)
OffPcs == {"irq", "resume_userspace", "work_resched", "restore_all"}
OnPcs == KernelPcs \ OffPcs

(* Where the hart can be on top of a frame from user mode, on top of one   *)
(* from the kernel, and on top of a new kernel thread's empty frame.       *)
OverUser == {"irq", "softirq", "exception", "syscall", "notify", "ret_from_fork"} \cup Exits
OverKernel == {"irq", "softirq", "exception", "ret_from_exception", "restore_all"}
OverNull == {"kthread", "ret_from_kernel_thread"}

(* A frame, and the place p of the level above it. *)
Legal(f, p) ==
  /\ f # NoFrame
  /\ f.at = "user" => p \in OverUser /\ ~f.ps /\ f.pie /\ f.ctx \in Ctx
  /\ f.at = "null" => p \in OverNull /\ f.ps
  /\ f.at \notin {"user", "null"} => f.at \in OnPcs /\ f.ps /\ p \in OverKernel

(* Stack s with n frames on it, its innermost level at p. *)
Tower(t, s, n, p) ==
  /\ \A d \in 1 .. n : Legal(s[d], IF d = n THEN p ELSE s[d + 1].at)
  /\ \A d \in 2 .. n : s[d].at \notin {"user", "null"}
  /\ n >= 1 /\ t = Boot => s[1].at = "kthread"
  /\ n >= 1 /\ t # Boot => s[1].at \in {"user", "null"}
  /\ n = 0 => t = Boot /\ p = "kthread"
  /\ \A d \in 1 .. MaxDepth : d > n => s[d] = NoFrame

Empty(s) == \A d \in 1 .. MaxDepth : s[d] = NoFrame

UserInv ==
  mode = "user" =>
    /\ sscratch = [task |-> tp, depth |-> 0]
    /\ ie /\ flags[tp] = {} /\ tp # Boot
    /\ regs \in Ctx
    /\ Empty(kstack[tp])

KernelInv ==
  mode = "kernel" =>
    /\ sp \in Sp /\ sp.task = tp
    /\ regs = NoCtx
    /\ pc \in OffPcs => ~ie
    /\ Tower(tp, kstack[tp], sp.depth, pc)
    /\ sscratch # NoSp => pc = "restore_all" /\ TopFrame.at = "user"
    /\ pc = "restore_all" /\ TopFrame.at = "user"
         => sscratch = [task |-> tp, depth |-> 0] /\ flags[tp] = {}

SleeperInv ==
  /\ thread[tp] = NoThread
  /\ \A t \in Tasks :
       thread[t] # NoThread =>
         /\ thread[t].sp \in Sp /\ thread[t].sp.task = t
         /\ thread[t].ra \in OnPcs
         /\ Tower(t, kstack[t], thread[t].sp.depth, thread[t].ra)
  /\ \A t \in Tasks : t # tp /\ thread[t] = NoThread => t # Boot /\ Empty(kstack[t])

IInv == TypeOK /\ UserInv /\ KernelInv /\ SleeperInv

-----------------------------------------------------------------------------
(* Towers.                                                                 *)

Stack == [1 .. MaxDepth -> Frame \cup {NoFrame}]

LEMMA NoFrameNotFrame == NoFrame \notin Frame
  BY DEF NoFrame, Frame, KernelPcs, Bodies, Exits, Starts

(* A trap taken in the kernel. *)
LEMMA Push ==
  ASSUME NEW t, NEW s \in Stack, NEW n \in 0 .. MaxDepth, NEW p \in OnPcs, NEW q,
         Tower(t, s, n, p), n + 1 <= MaxDepth,
         NEW f \in Frame, f.at = p, f.ps, q \in OverKernel
  PROVE  Tower(t, [s EXCEPT ![n + 1] = f], n + 1, q)
  <1> DEFINE u == [s EXCEPT ![n + 1] = f]
  <1> USE DepthAssumption
  <1>1. /\ u[n + 1] = f
        /\ \A d \in 1 .. n : u[d] = s[d]
        /\ \A d \in 1 .. MaxDepth : d > n + 1 => u[d] = s[d]
    BY DEF Stack
  <1>2. p \notin {"user", "null"} /\ f # NoFrame
    BY NoFrameNotFrame DEF OnPcs, KernelPcs, Bodies, Exits, Starts, OffPcs
  <1>3. Legal(f, q)
    BY <1>2 DEF Legal
  <1>4. ASSUME NEW d \in 1 .. n + 1
        PROVE  Legal(u[d], IF d = n + 1 THEN q ELSE u[d + 1].at)
    <2>1. CASE d = n + 1
      BY <2>1, <1>1, <1>3
    <2>2. CASE d # n + 1
      <3>1. d \in 1 .. n /\ u[d] = s[d]
        BY <2>2, <1>1
      <3>2. u[d + 1].at = IF d = n THEN p ELSE s[d + 1].at
        BY <3>1, <1>1
      <3>3. QED
        BY <2>2, <3>1, <3>2 DEF Tower
    <2>3. QED
      BY <2>1, <2>2
  <1>5. \A d \in 2 .. n + 1 : u[d].at \notin {"user", "null"}
    BY <1>1, <1>2 DEF Tower
  <1>6. (t = Boot => u[1].at = "kthread") /\ (t # Boot => u[1].at \in {"user", "null"})
    BY <1>1 DEF Tower
  <1>7. \A d \in 1 .. MaxDepth : d > n + 1 => u[d] = NoFrame
    BY <1>1 DEF Tower
  <1>8. QED
    BY <1>4, <1>5, <1>6, <1>7 DEF Tower

(* A return into the kernel, and one to user mode. *)
LEMMA Pop ==
  ASSUME NEW t, NEW s \in Stack, NEW n \in 1 .. MaxDepth, NEW p,
         Tower(t, s, n, p), s[n].at \notin {"user", "null"}
  PROVE  Tower(t, [s EXCEPT ![n] = NoFrame], n - 1, s[n].at)
  <1> DEFINE u == [s EXCEPT ![n] = NoFrame]
  <1> USE DepthAssumption
  <1>1. /\ \A d \in 1 .. n - 1 : u[d] = s[d]
        /\ \A d \in 1 .. MaxDepth : d > n - 1 => u[d] = NoFrame
    BY DEF Stack, Tower
  <1>2. ASSUME NEW d \in 1 .. n - 1
        PROVE  Legal(u[d], IF d = n - 1 THEN s[n].at ELSE u[d + 1].at)
    BY <1>1 DEF Tower
  <1>3. n = 1 => t = Boot /\ s[n].at = "kthread"
    BY DEF Tower
  <1>4. QED
    BY <1>1, <1>2, <1>3 DEF Tower

LEMMA PopUser ==
  ASSUME NEW t, NEW s \in Stack, NEW n \in 1 .. MaxDepth, NEW p,
         Tower(t, s, n, p), s[n].at = "user"
  PROVE  n = 1 /\ t # Boot /\ Empty([s EXCEPT ![n] = NoFrame])
  BY DepthAssumption DEF Tower, Stack, Empty

(* The hart moves on within its innermost level. *)
LEMMA Move ==
  ASSUME NEW t, NEW s \in Stack, NEW n \in 1 .. MaxDepth, NEW p, NEW q,
         Tower(t, s, n, p), Legal(s[n], q)
  PROVE  Tower(t, s, n, q)
  BY DEF Tower

(* The outermost frame is changed, to one that is as good. *)
LEMMA Change ==
  ASSUME NEW t, NEW s \in Stack, NEW n \in 1 .. MaxDepth, NEW p, NEW q, NEW g \in Frame,
         Tower(t, s, n, p), s[1].at \in {"user", "null"}, g.at = "user",
         n > 1 => q = p,
         Legal(g, IF n = 1 THEN q ELSE s[2].at)
  PROVE  Tower(t, [s EXCEPT ![1] = g], n, q)
  <1> DEFINE u == [s EXCEPT ![1] = g]
  <1> USE DepthAssumption
  <1>1. u[1] = g /\ \A d \in 2 .. MaxDepth : u[d] = s[d]
    BY DEF Stack
  <1>2. t # Boot
    BY DEF Tower
  <1>3. ASSUME NEW d \in 1 .. n
        PROVE  Legal(u[d], IF d = n THEN q ELSE u[d + 1].at)
    <2>1. CASE d = 1
      BY <2>1, <1>1
    <2>2. CASE d # 1
      BY <2>2, <1>1 DEF Tower
    <2>3. QED
      BY <2>1, <2>2
  <1>4. QED
    BY <1>1, <1>2, <1>3 DEF Tower

(* A stack with one frame on it. *)
LEMMA First ==
  ASSUME NEW t, t # Boot, NEW s \in Stack, Empty(s), NEW f \in Frame,
         f.at \in {"user", "null"}, NEW q, Legal(f, q)
  PROVE  Tower(t, [s EXCEPT ![1] = f], 1, q)
  BY DepthAssumption DEF Empty, Stack, Tower

-----------------------------------------------------------------------------
(* Every step keeps the types.                                             *)

(* In the kernel there is a frame, but for the idle task's own loop. *)
LEMMA KernelTop ==
  ASSUME IInv, mode = "kernel", pc # "kthread"
  PROVE  /\ sp \in Sp /\ sp.task = tp /\ sp.depth \in 1 .. MaxDepth
         /\ kstack[tp] \in Stack
         /\ TopFrame = kstack[tp][sp.depth] /\ TopFrame \in Frame
         /\ Legal(TopFrame, pc)
         /\ Tower(tp, kstack[tp], sp.depth, pc)
  BY DepthAssumption DEF IInv, TypeOK, KernelInv, Tower, Legal, Sp, TopFrame, Stack

(* System calls, signals and exits to user mode stand on a user frame. *)
LEMMA OutermostLevel ==
  ASSUME IInv, mode = "kernel",
         pc \in {"syscall", "notify", "resume_userspace", "work_resched", "ret_from_fork"}
  PROVE  TopFrame.at = "user" /\ sp.depth = 1 /\ tp # Boot
  BY KernelTop DEF Legal, OverNull, OverKernel, Tower

LEMMA SpTyped ==
  /\ \A t \in Tasks, d \in 0 .. MaxDepth : [task |-> t, depth |-> d] \in Sp
  /\ NoSp \notin Sp
  BY DepthAssumption DEF Sp, NoSp

LEMMA TrapTyped ==
  ASSUME IInv, mode = "user" \/ pc \in OnPcs, EntrySp.depth <= MaxDepth
  PROVE  /\ TrapFrame \in Frame
         /\ EntrySp \in Sp /\ EntrySp.depth \in 1 .. MaxDepth
         /\ EntrySp.task = tp
         /\ EntrySp.depth = (IF mode = "user" THEN 0 ELSE sp.depth) + 1
         /\ mode = "user" => TrapFrame.at = "user" /\ ~TrapFrame.ps /\ TrapFrame.pie
                             /\ TrapFrame.ctx \in Ctx
         /\ mode = "kernel" => TrapFrame.at = pc /\ TrapFrame.ps
  <1> USE DepthAssumption DEF IInv, TypeOK
  <1>1. CASE mode = "user"
    <2>1. sscratch = [task |-> tp, depth |-> 0] /\ sscratch # NoSp
      BY <1>1, SpTyped DEF UserInv, NoSp
    <2>2. EntrySp = [task |-> tp, depth |-> 1]
      BY <2>1 DEF EntrySp
    <2>3. TrapFrame = [ps |-> FALSE, pie |-> TRUE, at |-> "user", ctx |-> regs]
      <3>1. (mode = "kernel") = FALSE /\ ie = TRUE
        BY <1>1 DEF UserInv
      <3>2. QED
        BY <1>1, <3>1 DEF TrapFrame
    <2>4. regs \in Ctx
      BY <1>1 DEF UserInv
    <2>5. QED
      BY <1>1, <2>2, <2>3, <2>4 DEF Frame, Sp
  <1>2. CASE mode = "kernel"
    <2>1. sscratch = NoSp /\ sp \in Sp /\ sp.task = tp
      BY <1>2 DEF KernelInv, OnPcs, OffPcs
    <2>2. EntrySp = [task |-> tp, depth |-> sp.depth + 1]
      BY <2>1 DEF EntrySp
    <2>3. TrapFrame = [ps |-> TRUE, pie |-> ie, at |-> pc, ctx |-> regs]
      <3>1. (mode = "kernel") = TRUE
        BY <1>2
      <3>2. QED
        BY <1>2, <3>1 DEF TrapFrame
    <2>4. QED
      BY <1>2, <2>1, <2>2, <2>3 DEF Frame, Sp
  <1>3. QED
    BY <1>1, <1>2

LEMMA StepTypeOK == IInv /\ [Next]_vars => TypeOK'
  <1> SUFFICES ASSUME IInv, [Next]_vars PROVE TypeOK'
    OBVIOUS
  <1> USE DepthAssumption, BootAssumption, ContextAssumption
  <1>0. TypeOK
    BY DEF IInv
  <1>1. ASSUME NEW f \in Frame, SAVE_ALL(f), mode = "user" \/ pc \in OnPcs,
               pc' \in KernelPcs, ie' \in BOOLEAN
        PROVE  TypeOK'
    <2>1. EntrySp \in Sp /\ EntrySp.depth \in 1 .. MaxDepth /\ EntrySp.task \in Tasks
      BY <1>1, TrapTyped DEF SAVE_ALL, Sp
    <2>2. kstack' \in [Tasks -> [1 .. MaxDepth -> Frame \cup {NoFrame}]]
      BY <1>0, <1>1, <2>1 DEF SAVE_ALL, TypeOK
    <2>3. QED
      BY <1>0, <1>1, <2>1, <2>2 DEF SAVE_ALL, TypeOK
  <1>2. CASE handle_interrupt
    <2>1. mode = "user" \/ pc \in OnPcs
      BY <1>0, <1>2 DEF handle_interrupt, TypeOK, IInv, KernelInv, OnPcs
    <2>2. TrapFrame \in Frame
      BY <1>2, <2>1, TrapTyped DEF handle_interrupt, SAVE_ALL
    <2>3. QED
      BY <1>1, <1>2, <2>1, <2>2 DEF handle_interrupt, KernelPcs, Bodies
  <1>3. CASE handle_other_exception
    <2>1. mode = "user" \/ pc \in OnPcs
      BY <1>3 DEF handle_other_exception, OnPcs, KernelPcs, Bodies, OffPcs
    <2>2. TrapFrame \in Frame
      BY <1>3, <2>1, TrapTyped DEF handle_other_exception, SAVE_ALL
    <2>3. QED
      BY <1>1, <1>3, <2>1, <2>2 DEF handle_other_exception, KernelPcs, Bodies
  <1>4. CASE handle_syscall
    <2>1. PICK p \in Pcs : SAVE_ALL([TrapFrame EXCEPT !.ctx.pc = p])
      BY <1>4 DEF handle_syscall
    <2>2. TrapFrame \in Frame /\ TrapFrame.ctx \in Ctx
      BY <1>4, <2>1, TrapTyped DEF handle_syscall, SAVE_ALL
    <2>3. [TrapFrame EXCEPT !.ctx.pc = p] \in Frame
      BY <2>2 DEF Frame, Ctx
    <2>4. QED
      BY <1>1, <1>4, <2>1, <2>3 DEF handle_syscall, KernelPcs, Bodies
  <1>5. CASE \/ irq_exit_softirqs \/ do_IRQ_returns \/ exception_enables_irqs
             \/ exception_returns \/ ret_from_exception \/ work_pending
             \/ ret_from_fork \/ ret_from_kernel_thread
    BY <1>0, <1>5 DEF TypeOK, Kernel, irq_exit_softirqs, do_IRQ_returns,
       exception_enables_irqs, exception_returns, ret_from_exception, work_pending,
       ret_from_fork, ret_from_kernel_thread, KernelPcs, Bodies, Exits
  <1>6. CASE SetWork
    BY <1>0, <1>6 DEF SetWork, TypeOK, hartVars, Work
  <1>7. CASE ret_from_syscall
    <2>1. PICK v \in Values : kstack' = [kstack EXCEPT ![sp.task][sp.depth].ctx.a0 = v]
      BY <1>7 DEF ret_from_syscall
    <2>2. /\ TopFrame \in Frame /\ TopFrame.ctx \in Ctx
          /\ sp.task \in Tasks /\ sp.depth \in 1 .. MaxDepth
      BY <1>0, <1>7, KernelTop, OutermostLevel DEF ret_from_syscall, Kernel, TypeOK, Legal
    <2>3. [TopFrame EXCEPT !.ctx.a0 = v] \in Frame
      BY <2>2 DEF Frame, Ctx
    <2>4. kstack' \in [Tasks -> [1 .. MaxDepth -> Frame \cup {NoFrame}]]
      BY <1>0, <2>1, <2>2, <2>3 DEF TypeOK, TopFrame
    <2>5. QED
      BY <1>0, <1>7, <2>4 DEF ret_from_syscall, TypeOK, KernelPcs, Exits
  <1>8. CASE do_notify_resume
    <2>1. /\ TopFrame \in Frame
          /\ sp.task \in Tasks /\ sp.depth \in 1 .. MaxDepth
      BY <1>0, <1>8, KernelTop DEF do_notify_resume, Kernel, TypeOK
    <2>2. ASSUME NEW c \in Ctx, kstack' = [kstack EXCEPT ![sp.task][sp.depth].ctx = c]
          PROVE  kstack' \in [Tasks -> [1 .. MaxDepth -> Frame \cup {NoFrame}]]
      <3>1. [TopFrame EXCEPT !.ctx = c] \in Frame
        BY <2>1 DEF Frame
      <3>2. QED
        BY <1>0, <2>1, <2>2, <3>1 DEF TypeOK, TopFrame
    <2>3. kstack' \in [Tasks -> [1 .. MaxDepth -> Frame \cup {NoFrame}]]
      BY <1>0, <1>8, <2>2 DEF do_notify_resume, TypeOK
    <2>4. QED
      BY <1>0, <1>8, <2>3 DEF do_notify_resume, TypeOK, KernelPcs, Exits
  <1>9. CASE resume_userspace
    <2>1. sp.task \in Tasks /\ sp.depth = 1 /\ sp \in Sp
      BY <1>0, <1>9, KernelTop, OutermostLevel DEF resume_userspace, Kernel, TypeOK
    <2>2. sscratch' \in Sp
      BY <1>9, <2>1 DEF resume_userspace, Sp
    <2>3. QED
      BY <1>0, <1>9, <2>2 DEF resume_userspace, TypeOK, KernelPcs, Exits
  <1>10. CASE restore_all
    <2>1. /\ TopFrame \in Frame /\ Legal(TopFrame, "restore_all")
          /\ sp \in Sp /\ sp.task \in Tasks /\ sp.depth \in 1 .. MaxDepth
      BY <1>0, <1>10, KernelTop DEF restore_all, Kernel, TypeOK
    <2>2. kstack' \in [Tasks -> [1 .. MaxDepth -> Frame \cup {NoFrame}]]
      BY <1>0, <1>10, <2>1 DEF restore_all, TypeOK
    <2>3. pc' \in KernelPcs
      BY <1>10, <2>1 DEF restore_all, Legal, OverNull, OnPcs, KernelPcs, Exits
    <2>4. sp' \in Sp \cup {NoSp}
      BY <1>10, <2>1 DEF restore_all, Sp
    <2>5. mode' \in {"user", "kernel"} /\ ie' \in BOOLEAN /\ regs' \in Ctx \cup {NoCtx}
      BY <1>0, <1>10, <2>1 DEF restore_all, TypeOK, Frame
    <2>6. QED
      BY <1>0, <1>10, <2>2, <2>3, <2>4, <2>5 DEF restore_all, TypeOK
  <1>11. CASE UserStep
    <2>1. regs \in Ctx
      BY <1>11 DEF UserStep, IInv, UserInv
    <2>2. regs' \in Ctx
      BY <1>11, <2>1 DEF UserStep, Ctx
    <2>3. QED
      BY <1>0, <1>11, <2>2 DEF UserStep, TypeOK
  <1>12. ASSUME NEW next \in Tasks, thread[next] # NoThread
         PROVE  /\ thread[next].ra \in KernelPcs
                /\ thread[next].sp \in Sp
    BY <1>12 DEF IInv, SleeperInv, OnPcs
  <1>13. CASE schedule
    <2>1. sp \in Sp /\ NoThread \in [ra : KernelPcs \cup {"none"}, sp : Sp \cup {NoSp}]
      BY <1>13 DEF schedule, IInv, KernelInv, NoThread
    <2> DEFINE ra == IF pc = "work_resched" THEN "ret_from_exception" ELSE pc
    <2>2. ra \in KernelPcs
      BY <1>0 DEF TypeOK, KernelPcs, Exits
    <2> DEFINE Good ==
          /\ thread' \in [Tasks -> [ra : KernelPcs \cup {"none"}, sp : Sp \cup {NoSp}]]
          /\ sp' \in Sp \cup {NoSp} /\ tp' \in Tasks /\ pc' \in KernelPcs
    <2>3. ASSUME NEW next \in Tasks, thread[next] # NoThread, __switch_to(next, ra) PROVE Good
      <3>1. [ra |-> ra, sp |-> sp] \in [ra : KernelPcs \cup {"none"}, sp : Sp \cup {NoSp}]
        BY <2>1, <2>2
      <3>2. QED
        BY <1>0, <1>12, <2>1, <2>3, <3>1 DEF __switch_to, TypeOK
    <2>4. ASSUME pc' = ra, UNCHANGED <<thread, sp, tp>> PROVE Good
      BY <1>0, <2>2, <2>4 DEF TypeOK
    <2>5. Good
      BY <1>13, <2>3, <2>4 DEF schedule
    <2>6. QED
      BY <1>0, <1>13, <2>5 DEF schedule, TypeOK
  <1>14. CASE Fork
    <2>1. PICK child \in Tasks :
            /\ ~Exists(child)
            /\ \/ Kernel("syscall") /\ copy_thread_user(child)
               \/ Kernel("kthread") /\ copy_thread_kthread(child)
      BY <1>14 DEF Fork
    <2>2. 1 \in 1 .. MaxDepth /\ [task |-> child, depth |-> 1] \in Sp
      BY DEF Sp
    <2>3. CASE Kernel("syscall") /\ copy_thread_user(child)
      <3>1. PtRegs(tp) \in Frame /\ PtRegs(tp).ctx \in Ctx
        BY <1>0, <2>3, KernelTop, OutermostLevel DEF Kernel, PtRegs, Legal
      <3>2. [PtRegs(tp) EXCEPT !.ctx.a0 = 0] \in Frame
        BY <3>1 DEF Frame, Ctx
      <3>3. kstack' \in [Tasks -> [1 .. MaxDepth -> Frame \cup {NoFrame}]]
        BY <1>0, <2>2, <2>3, <3>2 DEF copy_thread_user, TypeOK
      <3>4. QED
        BY <1>0, <1>14, <2>2, <2>3, <3>3
           DEF Fork, copy_thread_user, TypeOK, hartVars, KernelPcs, Starts
    <2>4. CASE Kernel("kthread") /\ copy_thread_kthread(child)
      <3>1. kstack' \in [Tasks -> [1 .. MaxDepth -> Frame \cup {NoFrame}]]
        BY <1>0, <2>2, <2>4 DEF copy_thread_kthread, TypeOK, Frame
      <3>2. QED
        BY <1>0, <1>14, <2>2, <2>4, <3>1
           DEF Fork, copy_thread_kthread, TypeOK, hartVars, KernelPcs, Starts
    <2>5. QED
      BY <2>1, <2>3, <2>4
  <1>15. CASE start_thread
    <2>1. kstack' \in [Tasks -> [1 .. MaxDepth -> Frame \cup {NoFrame}]]
      BY <1>0, <1>15 DEF start_thread, TypeOK, Frame, Ctx
    <2>2. QED
      BY <1>0, <1>15, <2>1 DEF start_thread, TypeOK, KernelPcs, Exits
  <1>16. CASE do_exit
    <2>1. NoThread \in [ra : KernelPcs \cup {"none"}, sp : Sp \cup {NoSp}]
      BY DEF NoThread
    <2>2. QED
      BY <1>0, <1>12, <1>16, <2>1 DEF do_exit, TypeOK
  <1>17. CASE UNCHANGED vars
    BY <1>0, <1>17 DEF vars, hartVars, TypeOK
  <1>18. QED
    BY <1>2, <1>3, <1>4, <1>5, <1>6, <1>7, <1>8, <1>9, <1>10, <1>11, <1>13, <1>14,
       <1>15, <1>16, <1>17 DEF Next

-----------------------------------------------------------------------------
(* Every step keeps the invariant.                                         *)

FlowInv == UserInv /\ KernelInv /\ SleeperInv

LEMMA InitIInv == Init => IInv
  <1> SUFFICES ASSUME Init PROVE IInv
    OBVIOUS
  <1> USE BootAssumption, DepthAssumption, ContextAssumption DEF Init
  <1>1. TypeOK
    BY DEF TypeOK, KernelPcs, Bodies, Sp, NoThread
  <1>2. KernelInv
    BY DEF KernelInv, Sp, OffPcs, Tower
  <1>3. SleeperInv
    BY DEF SleeperInv, Empty
  <1>4. QED
    BY <1>1, <1>2, <1>3 DEF IInv, UserInv

(* A step of the running flow that leaves the stacks alone. *)
LEMMA Steady ==
  ASSUME IInv, mode = "kernel", pc # "kthread", mode' = mode,
         UNCHANGED <<sp, tp, regs, kstack, thread>>,
         Legal(TopFrame, pc'), pc' \in OffPcs => ~ie',
         sscratch' # NoSp => pc' = "restore_all" /\ TopFrame.at = "user",
         pc' = "restore_all" /\ TopFrame.at = "user"
           => sscratch' = [task |-> tp, depth |-> 0] /\ flags'[tp] = {}
  PROVE  FlowInv'
  <1>1. /\ sp \in Sp /\ sp.task = tp /\ sp.depth \in 1 .. MaxDepth
        /\ kstack[tp] \in Stack /\ TopFrame = kstack[tp][sp.depth]
        /\ Tower(tp, kstack[tp], sp.depth, pc)
    BY KernelTop
  <1>2. Tower(tp, kstack[tp], sp.depth, pc')
    BY <1>1, Move
  <1>3. KernelInv'
    BY <1>1, <1>2 DEF KernelInv, IInv, TopFrame
  <1>4. SleeperInv'
    BY DEF SleeperInv, IInv
  <1>5. QED
    BY <1>3, <1>4 DEF FlowInv, UserInv

LEMMA NotLeaving ==
  ASSUME IInv, mode = "kernel", pc # "restore_all"
  PROVE  sscratch = NoSp
  BY DEF IInv, KernelInv

LEMMA StepTrap ==
  ASSUME IInv, NEW f \in Frame, SAVE_ALL(f), mode = "user" \/ pc \in OnPcs,
         f.at = TrapFrame.at, f.ps = TrapFrame.ps, f.pie = TrapFrame.pie,
         mode = "user" => f.ctx \in Ctx /\ pc' \in {"irq", "exception", "syscall"},
         mode = "kernel" => pc' \in {"irq", "exception"},
         pc' \in OffPcs => ~ie'
  PROVE  FlowInv'
  <1> USE DepthAssumption
  <1>0. /\ EntrySp \in Sp /\ EntrySp.depth \in 1 .. MaxDepth /\ EntrySp.task = tp
        /\ EntrySp.depth = (IF mode = "user" THEN 0 ELSE sp.depth) + 1
        /\ tp \in Tasks /\ kstack \in [Tasks -> Stack] /\ mode \in {"user", "kernel"}
    BY TrapTyped DEF SAVE_ALL, IInv, TypeOK, Stack
  <1>1. Tower(tp, [kstack[tp] EXCEPT ![EntrySp.depth] = f], EntrySp.depth, pc')
    <2>1. CASE mode = "user"
      <3>1. tp # Boot /\ Empty(kstack[tp])
        BY <2>1 DEF IInv, UserInv
      <3>2. Legal(f, pc')
        BY <2>1, TrapTyped, NoFrameNotFrame DEF Legal, OverUser, SAVE_ALL
      <3>3. f.at = "user"
        BY <2>1, TrapTyped DEF SAVE_ALL
      <3>4. QED
        BY <1>0, <2>1, <3>1, <3>2, <3>3, First
    <2>2. CASE mode = "kernel"
      <3>1. /\ Tower(tp, kstack[tp], sp.depth, pc) /\ sp \in Sp
            /\ pc \in OnPcs
        BY <2>2 DEF IInv, KernelInv
      <3>2. f.at = pc /\ f.ps
        BY <2>2, TrapTyped DEF SAVE_ALL
      <3>3. pc' \in OverKernel /\ sp.depth \in 0 .. MaxDepth
        BY <2>2, <3>1 DEF OverKernel, Sp
      <3>4. QED
        BY <1>0, <2>2, <3>1, <3>2, <3>3, Push
    <2>3. QED
      BY <1>0, <2>1, <2>2
  <1>2. kstack' = [kstack EXCEPT ![tp] = [kstack[tp] EXCEPT ![EntrySp.depth] = f]]
    BY <1>0 DEF SAVE_ALL
  <1>3. KernelInv'
    <2>1. Tower(tp', kstack'[tp'], sp'.depth, pc')
      BY <1>0, <1>1, <1>2 DEF SAVE_ALL
    <2>2. pc' # "restore_all"
      BY <1>0
    <2>3. QED
      BY <1>0, <2>1, <2>2 DEF KernelInv, SAVE_ALL
  <1>4. SleeperInv'
    BY <1>0, <1>2 DEF SleeperInv, IInv, SAVE_ALL
  <1>5. QED
    BY <1>3, <1>4 DEF FlowInv, UserInv, SAVE_ALL

LEMMA StepEntry ==
  ASSUME IInv, handle_interrupt \/ handle_other_exception \/ handle_syscall
  PROVE  FlowInv'
  <1>1. CASE handle_interrupt
    <2>1. mode = "user" \/ pc \in OnPcs
      BY <1>1 DEF handle_interrupt, TypeOK, IInv, KernelInv, OnPcs
    <2>2. TrapFrame \in Frame /\ (mode = "user" => TrapFrame.ctx \in Ctx)
      BY <1>1, <2>1, TrapTyped DEF handle_interrupt, SAVE_ALL
    <2>3. QED
      BY <1>1, <2>1, <2>2, StepTrap DEF handle_interrupt
  <1>2. CASE handle_other_exception
    <2>1. mode = "user" \/ pc \in OnPcs
      BY <1>2 DEF handle_other_exception, OnPcs, KernelPcs, Bodies, OffPcs
    <2>2. TrapFrame \in Frame /\ (mode = "user" => TrapFrame.ctx \in Ctx)
      BY <1>2, <2>1, TrapTyped DEF handle_other_exception, SAVE_ALL
    <2>3. QED
      BY <1>2, <2>1, <2>2, StepTrap DEF handle_other_exception
  <1>3. CASE handle_syscall
    <2>1. PICK p \in Pcs : SAVE_ALL([TrapFrame EXCEPT !.ctx.pc = p])
      BY <1>3 DEF handle_syscall
    <2> DEFINE f == [TrapFrame EXCEPT !.ctx.pc = p]
    <2>2. mode = "user" /\ TrapFrame \in Frame /\ TrapFrame.ctx \in Ctx
      BY <1>3, <2>1, TrapTyped DEF handle_syscall, SAVE_ALL
    <2>3. /\ f \in Frame /\ f.ctx \in Ctx
          /\ f.at = TrapFrame.at /\ f.ps = TrapFrame.ps /\ f.pie = TrapFrame.pie
      BY <2>2 DEF Frame, Ctx
    <2>4. pc' = "syscall"
      BY <1>3 DEF handle_syscall
    <2> HIDE DEF f
    <2>5. QED
      BY <2>1, <2>2, <2>3, <2>4, StepTrap DEF OffPcs, f
  <1>4. QED
    BY <1>1, <1>2, <1>3

LEMMA StepBody ==
  ASSUME IInv,
         \/ SetWork \/ irq_exit_softirqs \/ do_IRQ_returns \/ exception_enables_irqs
         \/ exception_returns \/ ret_from_exception \/ resume_userspace
         \/ work_pending \/ ret_from_fork
  PROVE  FlowInv'
  <1> USE DEF Kernel
  <1>1. CASE SetWork
    <2>1. mode = "kernel" /\ pc \in {"irq", "softirq", "exception", "syscall"}
      BY <1>1 DEF SetWork
    <2>2. QED
      BY <1>1, <2>1, KernelTop, NotLeaving, Steady
         DEF SetWork, hartVars, IInv, KernelInv
  <1>2. CASE irq_exit_softirqs \/ do_IRQ_returns
    <2>1. mode = "kernel" /\ pc \in {"irq", "softirq"}
      BY <1>2 DEF irq_exit_softirqs, do_IRQ_returns
    <2>2. pc' \in {"softirq", "ret_from_exception"} /\ Legal(TopFrame, pc)
      BY <1>2, <2>1, KernelTop DEF irq_exit_softirqs, do_IRQ_returns
    <2>3. Legal(TopFrame, pc')
      BY <2>1, <2>2 DEF Legal, OverUser, OverKernel, OverNull, Exits
    <2>4. QED
      BY <1>2, <2>1, <2>2, <2>3, NotLeaving, Steady
         DEF irq_exit_softirqs, do_IRQ_returns, OffPcs
  <1>3. CASE exception_enables_irqs \/ exception_returns
    <2>1. mode = "kernel" /\ pc = "exception" /\ Legal(TopFrame, pc)
      BY <1>3, KernelTop DEF exception_enables_irqs, exception_returns
    <2>2. pc' \in {"exception", "ret_from_exception"}
      BY <1>3, <2>1 DEF exception_enables_irqs, exception_returns
    <2>3. Legal(TopFrame, pc')
      BY <2>1, <2>2 DEF Legal, OverUser, OverKernel, OverNull, Exits
    <2>4. QED
      BY <1>3, <2>1, <2>2, <2>3, NotLeaving, Steady
         DEF exception_enables_irqs, exception_returns, OffPcs
  <1>4. CASE ret_from_exception
    <2>1. mode = "kernel" /\ pc = "ret_from_exception" /\ Legal(TopFrame, pc)
      BY <1>4, KernelTop DEF ret_from_exception
    <2>2. Legal(TopFrame, pc')
      BY <1>4, <2>1 DEF ret_from_exception, Legal, OverUser, OverKernel, OverNull, Exits
    <2>3. pc' = "restore_all" => TopFrame.at # "user"
      BY <1>4, <2>1 DEF ret_from_exception, Legal
    <2>4. QED
      BY <1>4, <2>1, <2>2, <2>3, NotLeaving, Steady DEF ret_from_exception
  <1>5. CASE resume_userspace
    <2>1. mode = "kernel" /\ pc = "resume_userspace" /\ Legal(TopFrame, pc) /\ ~ie
      BY <1>5, KernelTop DEF resume_userspace, IInv, KernelInv, OffPcs
    <2>2. TopFrame.at = "user" /\ sp.depth = 1 /\ sp \in Sp /\ sp.task = tp
      BY <2>1, KernelTop, OutermostLevel
    <2>3. Legal(TopFrame, pc')
      BY <1>5, <2>1, <2>2 DEF resume_userspace, Legal, OverUser, Exits
    <2>4. sscratch' = [task |-> tp, depth |-> 0]
      BY <1>5, <2>2 DEF resume_userspace, Sp
    <2>5. QED
      BY <1>5, <2>1, <2>2, <2>3, <2>4, Steady DEF resume_userspace
  <1>6. CASE work_pending
    <2>1. mode = "kernel" /\ pc = "resume_userspace" /\ Legal(TopFrame, pc) /\ ~ie
      BY <1>6, KernelTop DEF work_pending, IInv, KernelInv, OffPcs
    <2>2. TopFrame.at = "user"
      BY <2>1, OutermostLevel
    <2>3. pc' \in {"work_resched", "notify"} /\ (pc' = "work_resched" => ie' = ie)
      BY <1>6 DEF work_pending
    <2>4. Legal(TopFrame, pc')
      BY <2>1, <2>2, <2>3 DEF Legal, OverUser, Exits
    <2>5. QED
      BY <1>6, <2>1, <2>3, <2>4, NotLeaving, Steady DEF work_pending, OffPcs
  <1>7. CASE ret_from_fork
    <2>1. mode = "kernel" /\ pc = "ret_from_fork" /\ Legal(TopFrame, pc)
      BY <1>7, KernelTop DEF ret_from_fork
    <2>2. Legal(TopFrame, pc') /\ pc' = "ret_from_exception"
      BY <1>7, <2>1 DEF ret_from_fork, Legal, OverUser, OverKernel, OverNull, Exits
    <2>3. QED
      BY <1>7, <2>1, <2>2, NotLeaving, Steady DEF ret_from_fork, OffPcs
  <1>8. QED
    BY <1>1, <1>2, <1>3, <1>4, <1>5, <1>6, <1>7

(* The user's registers change in the outermost frame, on the way out. *)
LEMMA StepUserFrame ==
  ASSUME IInv, ret_from_syscall \/ do_notify_resume
  PROVE  FlowInv'
  <1>1. mode = "kernel" /\ pc \in {"syscall", "notify"} /\ pc' = "ret_from_exception"
    BY DEF ret_from_syscall, do_notify_resume, Kernel
  <1>2. /\ sp \in Sp /\ sp.task = tp /\ sp.depth = 1 /\ 1 \in 1 .. MaxDepth
        /\ kstack[tp] \in Stack /\ kstack \in [Tasks -> Stack] /\ tp \in Tasks
        /\ TopFrame = kstack[tp][1] /\ TopFrame \in Frame
        /\ Legal(TopFrame, pc) /\ TopFrame.at = "user" /\ TopFrame.ctx \in Ctx
        /\ Tower(tp, kstack[tp], 1, pc) /\ sscratch = NoSp /\ regs = NoCtx
    BY <1>1, KernelTop, OutermostLevel, NotLeaving
       DEF IInv, TypeOK, Stack, Legal, KernelInv
  <1>3. PICK g : /\ g \in Frame /\ g.at = "user" /\ ~g.ps /\ g.pie /\ g.ctx \in Ctx
                 /\ kstack' = [kstack EXCEPT ![tp] = [kstack[tp] EXCEPT ![1] = g]]
    <2>1. ASSUME NEW v \in Values, kstack' = [kstack EXCEPT ![sp.task][sp.depth].ctx.a0 = v]
          PROVE  \E g : /\ g \in Frame /\ g.at = "user" /\ ~g.ps /\ g.pie /\ g.ctx \in Ctx
                        /\ kstack' = [kstack EXCEPT ![tp] = [kstack[tp] EXCEPT ![1] = g]]
      <3> DEFINE h == [TopFrame EXCEPT !.ctx.a0 = v]
      <3>1. h \in Frame /\ h.at = "user" /\ h.ps = TopFrame.ps /\ h.pie = TopFrame.pie
            /\ h.ctx \in Ctx
        BY <1>2 DEF Frame, Ctx
      <3>2. ~h.ps /\ h.pie
        BY <1>2, <3>1 DEF Legal
      <3>3. kstack' = [kstack EXCEPT ![tp] = [kstack[tp] EXCEPT ![1] = h]]
        BY <1>2, <2>1
      <3> HIDE DEF h
      <3>4. QED
        BY <3>1, <3>2, <3>3
    <2>2. ASSUME NEW c \in Ctx, kstack' = [kstack EXCEPT ![sp.task][sp.depth].ctx = c]
          PROVE  \E g : /\ g \in Frame /\ g.at = "user" /\ ~g.ps /\ g.pie /\ g.ctx \in Ctx
                        /\ kstack' = [kstack EXCEPT ![tp] = [kstack[tp] EXCEPT ![1] = g]]
      <3> DEFINE h == [TopFrame EXCEPT !.ctx = c]
      <3>1. h \in Frame /\ h.at = "user" /\ h.ps = TopFrame.ps /\ h.pie = TopFrame.pie
            /\ h.ctx \in Ctx
        BY <1>2 DEF Frame
      <3>2. ~h.ps /\ h.pie
        BY <1>2, <3>1 DEF Legal
      <3>3. kstack' = [kstack EXCEPT ![tp] = [kstack[tp] EXCEPT ![1] = h]]
        BY <1>2, <2>2
      <3> HIDE DEF h
      <3>4. QED
        BY <3>1, <3>2, <3>3
    <2>3. ASSUME UNCHANGED kstack
          PROVE  \E g : /\ g \in Frame /\ g.at = "user" /\ ~g.ps /\ g.pie /\ g.ctx \in Ctx
                        /\ kstack' = [kstack EXCEPT ![tp] = [kstack[tp] EXCEPT ![1] = g]]
      <3>1. kstack' = [kstack EXCEPT ![tp] = [kstack[tp] EXCEPT ![1] = TopFrame]]
        BY <1>2, <2>3 DEF Stack
      <3>2. QED
        BY <1>2, <3>1 DEF Legal
    <2>4. QED
      BY <2>1, <2>2, <2>3 DEF ret_from_syscall, do_notify_resume
  <1>4. Legal(g, pc')
    BY <1>1, <1>3, NoFrameNotFrame DEF Legal, OverUser, Exits
  <1>5. Tower(tp, [kstack[tp] EXCEPT ![1] = g], 1, pc')
    <2>1. /\ kstack[tp][1].at \in {"user", "null"} /\ (1 > 1 => pc' = pc)
          /\ Legal(g, IF 1 = 1 THEN pc' ELSE kstack[tp][2].at)
      BY <1>2, <1>4
    <2>2. QED
      BY ONLY <1>2, <1>3, <2>1, Change
  <1>6. UNCHANGED <<mode, sp, tp, sscratch, regs, thread>>
    BY DEF ret_from_syscall, do_notify_resume
  <1>7. KernelInv'
    BY <1>1, <1>2, <1>3, <1>5, <1>6 DEF KernelInv, OffPcs
  <1>8. SleeperInv'
    BY <1>2, <1>3, <1>6 DEF SleeperInv, IInv
  <1>9. QED
    BY <1>1, <1>6, <1>7, <1>8 DEF FlowInv, UserInv

LEMMA StepRestore ==
  ASSUME IInv, restore_all
  PROVE  FlowInv'
  <1>1. /\ mode = "kernel" /\ pc = "restore_all"
        /\ sp \in Sp /\ sp.task = tp /\ sp.depth \in 1 .. MaxDepth
        /\ kstack[tp] \in Stack /\ kstack \in [Tasks -> Stack] /\ tp \in Tasks
        /\ TopFrame = kstack[tp][sp.depth]
        /\ Legal(TopFrame, pc)
        /\ Tower(tp, kstack[tp], sp.depth, pc)
    BY KernelTop DEF restore_all, Kernel, IInv, TypeOK, Stack
  <1> DEFINE s == [kstack[tp] EXCEPT ![sp.depth] = NoFrame]
  <1>2. kstack' = [kstack EXCEPT ![tp] = s] /\ UNCHANGED <<tp, sscratch, thread, flags>>
    BY <1>1 DEF restore_all
  <1>3. SleeperInv'
    BY <1>1, <1>2 DEF SleeperInv, IInv
  <1>4. CASE TopFrame.at = "user"
    <2>1. ~TopFrame.ps /\ TopFrame.pie /\ TopFrame.ctx \in Ctx
      BY <1>1, <1>4 DEF Legal
    <2>2. tp # Boot /\ Empty(s)
      BY <1>1, <1>4, PopUser
    <2>3. mode' = "user" /\ regs' = TopFrame.ctx /\ ie'
      BY <2>1 DEF restore_all
    <2>4. sscratch = [task |-> tp, depth |-> 0] /\ flags[tp] = {}
      BY <1>1, <1>4 DEF IInv, KernelInv
    <2>5. UserInv'
      BY <1>1, <1>2, <2>1, <2>2, <2>3, <2>4 DEF UserInv
    <2>6. QED
      BY <1>3, <2>3, <2>5 DEF FlowInv, KernelInv
  <1>5. CASE TopFrame.at # "user"
    <2>1. TopFrame.ps /\ TopFrame.at \in OnPcs /\ TopFrame.at # "null"
      BY <1>1, <1>5 DEF Legal, OverNull
    <2>2. Tower(tp, s, sp.depth - 1, TopFrame.at)
      BY <1>1, <1>5, <2>1, Pop
    <2>3. /\ mode' = "kernel" /\ pc' = TopFrame.at /\ regs' = regs
          /\ sp' = [sp EXCEPT !.depth = @ - 1]
      BY <1>1, <2>1 DEF restore_all
    <2>4. sp' \in Sp /\ sp'.task = tp /\ sp'.depth = sp.depth - 1
      BY <1>1, <2>3, DepthAssumption DEF Sp
    <2>5. sscratch = NoSp /\ regs = NoCtx
      BY <1>1, <1>5 DEF IInv, KernelInv
    <2>6. KernelInv'
      BY <1>1, <1>2, <2>1, <2>2, <2>3, <2>4, <2>5 DEF KernelInv, OnPcs, OffPcs
    <2>7. QED
      BY <1>3, <2>3, <2>6 DEF FlowInv, UserInv
  <1>6. QED
    BY <1>4, <1>5

(* The hart goes over to next, on the stack next left. *)
LEMMA Resume ==
  ASSUME IInv, mode = "kernel", pc \in OnPcs \cup {"work_resched"},
         NEW next \in Tasks, thread[next] # NoThread,
         mode' = mode, UNCHANGED <<sscratch, regs>>, ie' = TRUE,
         pc' = thread[next].ra, sp' = thread[next].sp, tp' = next,
         kstack'[next] = kstack[next]
  PROVE  KernelInv'
  <1>1. /\ thread[next].sp \in Sp /\ thread[next].sp.task = next
        /\ thread[next].ra \in OnPcs
        /\ Tower(next, kstack[next], thread[next].sp.depth, thread[next].ra)
    BY DEF IInv, SleeperInv
  <1>2. sscratch = NoSp /\ regs = NoCtx
    BY DEF IInv, KernelInv, OnPcs, OffPcs
  <1>3. QED
    BY <1>1, <1>2 DEF KernelInv, OnPcs, OffPcs

LEMMA StepSchedule ==
  ASSUME IInv, schedule
  PROVE  FlowInv'
  <1> DEFINE ra == IF pc = "work_resched" THEN "ret_from_exception" ELSE pc
  <1>1. /\ mode = "kernel" /\ mode' = mode /\ ie' = TRUE
        /\ UNCHANGED <<sscratch, regs, kstack>>
        /\ pc \in {"work_resched", "syscall", "exception", "notify", "kthread"}
    BY DEF schedule, MaySleep
  <1>2. /\ ra \in OnPcs /\ sp \in Sp /\ sp.task = tp
        /\ pc \in OnPcs \cup {"work_resched"} /\ tp \in Tasks
    BY <1>1 DEF IInv, TypeOK, KernelInv, OnPcs, OffPcs, KernelPcs, Bodies, Exits
  <1>3. Tower(tp, kstack[tp], sp.depth, ra)
    <2>1. CASE pc = "work_resched"
      <3>1. TopFrame.at = "user" /\ Legal(TopFrame, pc) /\ sp.depth \in 1 .. MaxDepth
            /\ kstack[tp] \in Stack /\ TopFrame = kstack[tp][sp.depth]
            /\ Tower(tp, kstack[tp], sp.depth, pc)
        BY <1>1, <2>1, KernelTop, OutermostLevel
      <3>2. Legal(kstack[tp][sp.depth], "ret_from_exception")
        BY <3>1 DEF Legal, OverUser, Exits
      <3>3. QED
        BY <2>1, <3>1, <3>2, Move
    <2>2. CASE pc # "work_resched"
      BY <1>1, <2>2 DEF IInv, KernelInv
    <2>3. QED
      BY <2>1, <2>2
  <1>4. ASSUME NEW next \in Tasks, thread[next] # NoThread, __switch_to(next, ra)
        PROVE  FlowInv'
    <2>1. next # tp /\ thread[tp] = NoThread
      BY <1>4 DEF IInv, SleeperInv
    <2>2. KernelInv'
      BY <1>1, <1>2, <1>4, Resume DEF __switch_to
    <2>3. /\ thread'[next] = NoThread
          /\ thread'[tp] = [ra |-> ra, sp |-> sp]
          /\ \A t \in Tasks \ {tp, next} : thread'[t] = thread[t]
      BY <1>2, <1>4, <2>1 DEF __switch_to, IInv, TypeOK
    <2>4. SleeperInv'
      <3>1. tp' = next /\ kstack' = kstack
        BY <1>1, <1>4 DEF __switch_to
      <3> HIDE DEF ra
      <3>2. NoThread # thread[next] /\ thread'[tp] # NoThread
        BY <1>2, <1>4, <2>3, SpTyped DEF NoThread
      <3>3. ASSUME NEW t \in Tasks, thread'[t] # NoThread
            PROVE  /\ thread'[t].sp \in Sp /\ thread'[t].sp.task = t
                   /\ thread'[t].ra \in OnPcs
                   /\ Tower(t, kstack[t], thread'[t].sp.depth, thread'[t].ra)
        <4>1. CASE t = tp
          BY <1>2, <1>3, <2>3, <4>1
        <4>2. CASE t # tp
          BY <2>3, <3>3, <4>2 DEF SleeperInv, IInv
        <4>3. QED
          BY <4>1, <4>2
      <3>4. \A t \in Tasks : t # next /\ thread'[t] = NoThread => t # Boot /\ Empty(kstack[t])
        BY <2>3, <3>2 DEF SleeperInv, IInv
      <3>5. QED
        BY <2>3, <3>1, <3>3, <3>4 DEF SleeperInv
    <2>5. QED
      BY <1>1, <2>2, <2>4 DEF FlowInv, UserInv
  <1>5. ASSUME pc' = ra, UNCHANGED <<thread, sp, tp>>
        PROVE  FlowInv'
    <2>1. sscratch = NoSp /\ regs = NoCtx
      BY <1>1 DEF IInv, KernelInv
    <2>2. ra # "restore_all" /\ ra \notin OffPcs
      BY <1>2 DEF OnPcs, OffPcs
    <2> HIDE DEF ra
    <2>3. KernelInv'
      BY <1>1, <1>2, <1>3, <1>5, <2>1, <2>2 DEF KernelInv
    <2>4. SleeperInv'
      BY <1>1, <1>5 DEF SleeperInv, IInv
    <2>5. QED
      BY <1>1, <2>3, <2>4 DEF FlowInv, UserInv
  <1>6. QED
    BY <1>4, <1>5 DEF schedule

LEMMA StepFork ==
  ASSUME IInv, Fork
  PROVE  FlowInv'
  <1> USE DepthAssumption
  <1>1. PICK child \in Tasks :
          /\ ~Exists(child)
          /\ \/ Kernel("syscall") /\ copy_thread_user(child)
             \/ Kernel("kthread") /\ copy_thread_kthread(child)
    BY DEF Fork
  <1>2. /\ child # tp /\ thread[child] = NoThread /\ child # Boot /\ Empty(kstack[child])
        /\ kstack \in [Tasks -> Stack] /\ tp \in Tasks /\ 1 \in 1 .. MaxDepth
        /\ mode = "kernel" /\ UNCHANGED <<hartVars, flags>>
        /\ [task |-> child, depth |-> 1] \in Sp
    BY <1>1, SpTyped DEF Exists, IInv, SleeperInv, TypeOK, Stack, Fork, Kernel
  <1>3. PICK f, ra :
          /\ f \in Frame /\ f.at \in {"user", "null"} /\ Legal(f, ra) /\ ra \in OnPcs
          /\ kstack' = [kstack EXCEPT ![child] = [kstack[child] EXCEPT ![1] = f]]
          /\ thread' = [thread EXCEPT ![child] =
                          [ra |-> ra, sp |-> [task |-> child, depth |-> 1]]]
    <2>1. CASE Kernel("syscall") /\ copy_thread_user(child)
      <3> DEFINE f == [PtRegs(tp) EXCEPT !.ctx.a0 = 0]
      <3>1. /\ PtRegs(tp) \in Frame /\ PtRegs(tp).at = "user" /\ PtRegs(tp).ctx \in Ctx
            /\ ~PtRegs(tp).ps /\ PtRegs(tp).pie
        BY <2>1, KernelTop, OutermostLevel DEF Kernel, PtRegs, Legal
      <3>2. /\ f \in Frame /\ f.at = "user" /\ f.ctx \in Ctx
            /\ f.ps = PtRegs(tp).ps /\ f.pie = PtRegs(tp).pie
        BY <3>1, ContextAssumption DEF Frame, Ctx
      <3>3. kstack' = [kstack EXCEPT ![child] = [kstack[child] EXCEPT ![1] = f]]
        BY <1>2, <2>1 DEF copy_thread_user
      <3> HIDE DEF f
      <3>4. Legal(f, "ret_from_fork")
        BY <3>1, <3>2, NoFrameNotFrame DEF Legal, OverUser
      <3>5. QED
        BY <2>1, <3>2, <3>3, <3>4
           DEF copy_thread_user, OnPcs, OffPcs, KernelPcs, Starts
    <2>2. CASE Kernel("kthread") /\ copy_thread_kthread(child)
      <3> DEFINE f == [ps |-> TRUE, pie |-> TRUE, at |-> "null", ctx |-> NoCtx]
      <3>1. f \in Frame /\ Legal(f, "ret_from_kernel_thread")
        BY DEF Frame, Legal, OverNull, NoFrame
      <3>2. kstack' = [kstack EXCEPT ![child] = [kstack[child] EXCEPT ![1] = f]]
        BY <1>2, <2>2 DEF copy_thread_kthread
      <3>3. f.at = "null"
        OBVIOUS
      <3> HIDE DEF f
      <3>4. QED
        BY <2>2, <3>1, <3>2, <3>3
           DEF copy_thread_kthread, OnPcs, OffPcs, KernelPcs, Starts
    <2>3. QED
      BY <1>1, <2>1, <2>2
  <1>4. Tower(child, kstack'[child], 1, ra)
    <2>1. Tower(child, [kstack[child] EXCEPT ![1] = f], 1, ra)
      BY ONLY <1>2, <1>3, First
    <2>2. QED
      BY <1>2, <1>3, <2>1
  <1>5. \A t \in Tasks \ {child} : kstack'[t] = kstack[t] /\ thread'[t] = thread[t]
    BY <1>2, <1>3 DEF IInv, TypeOK
  <1>6. thread'[child] = [ra |-> ra, sp |-> [task |-> child, depth |-> 1]]
        /\ thread'[child] # NoThread
    BY <1>2, <1>3, SpTyped DEF IInv, TypeOK, NoThread
  <1>7. SleeperInv'
    <2>1. tp' = tp
      BY <1>2 DEF hartVars
    <2>2. ASSUME NEW t \in Tasks, thread'[t] # NoThread
          PROVE  /\ thread'[t].sp \in Sp /\ thread'[t].sp.task = t
                 /\ thread'[t].ra \in OnPcs
                 /\ Tower(t, kstack'[t], thread'[t].sp.depth, thread'[t].ra)
      <3>1. CASE t = child
        BY <1>2, <1>3, <1>4, <1>6, <3>1
      <3>2. CASE t # child
        BY <1>5, <2>2, <3>2 DEF SleeperInv, IInv
      <3>3. QED
        BY <3>1, <3>2
    <2>3. \A t \in Tasks : t # tp /\ thread'[t] = NoThread => t # Boot /\ Empty(kstack'[t])
      BY <1>5, <1>6 DEF SleeperInv, IInv
    <2>4. thread'[tp] = NoThread
      BY <1>2, <1>5 DEF SleeperInv, IInv
    <2>5. QED
      BY <2>1, <2>2, <2>3, <2>4 DEF SleeperInv
  <1>8. KernelInv'
    <2>1. kstack'[tp] = kstack[tp]
      BY <1>2, <1>5
    <2>2. QED
      BY <1>2, <2>1 DEF KernelInv, IInv, hartVars, TopFrame
  <1>9. QED
    BY <1>2, <1>7, <1>8 DEF FlowInv, UserInv, hartVars

LEMMA StepKernelThread ==
  ASSUME IInv, ret_from_kernel_thread
  PROVE  FlowInv'
  <1>1. /\ mode = "kernel" /\ pc = "ret_from_kernel_thread" /\ Legal(TopFrame, pc)
        /\ pc' = "kthread"
    BY KernelTop DEF ret_from_kernel_thread, Kernel
  <1>2. Legal(TopFrame, pc')
    BY <1>1 DEF Legal, OverUser, OverKernel, OverNull, Exits
  <1>3. QED
    BY <1>1, <1>2, NotLeaving, Steady DEF ret_from_kernel_thread, OffPcs

LEMMA StepExec ==
  ASSUME IInv, start_thread
  PROVE  FlowInv'
  <1> USE DepthAssumption, ContextAssumption
  <1> DEFINE g == [ps |-> FALSE, pie |-> TRUE, at |-> "user", ctx |-> [pc |-> 0, a0 |-> 0]]
  <1>1. /\ mode = "kernel" /\ pc \in {"syscall", "kthread"} /\ tp # Boot
        /\ pc' = (IF pc = "kthread" THEN "ret_from_exception" ELSE pc)
        /\ UNCHANGED <<mode, ie, sp, tp, sscratch, regs, thread, flags>>
    BY OutermostLevel DEF start_thread, Kernel
  <1>2. /\ sp \in Sp /\ sp.task = tp /\ Tower(tp, kstack[tp], sp.depth, pc)
        /\ sscratch = NoSp /\ regs = NoCtx
        /\ kstack \in [Tasks -> Stack] /\ kstack[tp] \in Stack /\ tp \in Tasks
        /\ sp.depth \in 0 .. MaxDepth
    BY <1>1 DEF IInv, KernelInv, TypeOK, Stack, Sp
  <1>3. sp.depth = 1 /\ kstack[tp][1].at \in {"user", "null"} /\ 1 \in 1 .. MaxDepth
    <2>1. sp.depth \in 1 .. MaxDepth
      BY <1>1, <1>2 DEF Tower
    <2>2. Legal(kstack[tp][sp.depth], pc)
      BY <1>2, <2>1 DEF Tower
    <2>3. kstack[tp][sp.depth].at \in {"user", "null"}
      BY <1>1, <2>2 DEF Legal, OverKernel
    <2>4. QED
      BY <1>2, <2>1, <2>3 DEF Tower
  <1>4. g \in Frame /\ g.at = "user" /\ Legal(g, pc')
    <2>1. g \in Frame /\ g.ctx \in Ctx
      BY DEF Frame, Ctx
    <2>2. pc' \in OverUser
      BY <1>1 DEF OverUser, Exits
    <2>3. QED
      BY <2>1, <2>2 DEF Legal, NoFrame
  <1>5. kstack' = [kstack EXCEPT ![tp] = [kstack[tp] EXCEPT ![1] = g]]
    BY <1>2 DEF start_thread
  <1> HIDE DEF g
  <1>6. Tower(tp, kstack'[tp], 1, pc')
    <2>1. Legal(g, IF 1 = 1 THEN pc' ELSE kstack[tp][2].at) /\ (1 > 1 => pc' = pc)
          /\ Tower(tp, kstack[tp], 1, pc)
      BY <1>2, <1>3, <1>4
    <2>2. Tower(tp, [kstack[tp] EXCEPT ![1] = g], 1, pc')
      BY ONLY <1>2, <1>3, <1>4, <2>1, Change
    <2>3. QED
      BY <1>2, <1>5, <2>2
  <1>7. KernelInv'
    BY <1>1, <1>2, <1>3, <1>6 DEF KernelInv, OffPcs
  <1>8. SleeperInv'
    BY <1>1, <1>2, <1>5 DEF SleeperInv, IInv
  <1>9. QED
    BY <1>1, <1>7, <1>8 DEF FlowInv, UserInv

LEMMA StepExit ==
  ASSUME IInv, do_exit
  PROVE  FlowInv'
  <1>1. PICK next \in Tasks :
          /\ thread[next] # NoThread
          /\ thread' = [thread EXCEPT ![next] = NoThread]
          /\ pc' = thread[next].ra /\ sp' = thread[next].sp /\ tp' = next
    BY DEF do_exit
  <1>2. /\ mode = "kernel" /\ pc \in {"syscall", "notify"} /\ ie' = TRUE
        /\ UNCHANGED <<mode, sscratch, regs>>
        /\ kstack' = [kstack EXCEPT ![tp] = [d \in 1 .. MaxDepth |-> NoFrame]]
    BY DEF do_exit, Kernel
  <1>3. tp # Boot /\ next # tp /\ thread[tp] = NoThread /\ tp \in Tasks
        /\ pc \in OnPcs
    BY <1>1, <1>2, OutermostLevel
       DEF IInv, SleeperInv, TypeOK, OnPcs, KernelPcs, Bodies, OffPcs
  <1>4. /\ kstack'[next] = kstack[next] /\ Empty(kstack'[tp])
        /\ \A t \in Tasks \ {tp} : kstack'[t] = kstack[t]
        /\ \A t \in Tasks \ {next} : thread'[t] = thread[t]
        /\ thread'[next] = NoThread
    BY <1>1, <1>2, <1>3 DEF IInv, TypeOK, Empty
  <1>5. KernelInv'
    BY <1>1, <1>2, <1>3, <1>4, Resume
  <1>6. SleeperInv'
    BY <1>1, <1>3, <1>4 DEF SleeperInv, IInv
  <1>7. QED
    BY <1>2, <1>5, <1>6 DEF FlowInv, UserInv

LEMMA StepUser ==
  ASSUME IInv, UserStep
  PROVE  FlowInv'
  <1>1. regs \in Ctx /\ regs' \in Ctx
    BY DEF UserStep, IInv, UserInv, Ctx
  <1>2. QED
    BY <1>1 DEF UserStep, FlowInv, UserInv, KernelInv, SleeperInv, IInv

LEMMA StepIInv == IInv /\ [Next]_vars => IInv'
  <1> SUFFICES ASSUME IInv, [Next]_vars PROVE IInv'
    OBVIOUS
  <1>1. CASE UNCHANGED vars
    BY <1>1, StepTypeOK
       DEF IInv, vars, hartVars, UserInv, KernelInv, SleeperInv, TopFrame
  <1>2. CASE Next
    <2>1. FlowInv'
      BY <1>2, StepEntry, StepBody, StepUserFrame, StepRestore, StepSchedule, StepFork,
         StepKernelThread, StepExec, StepExit, StepUser DEF Next
    <2>2. QED
      BY <2>1, StepTypeOK DEF IInv, FlowInv
  <1>3. QED
    BY <1>1, <1>2

THEOREM Invariance == Spec => []IInv
  BY InitIInv, StepIInv, PTL DEF Spec

-----------------------------------------------------------------------------
(* The types: in particular a return from the kernel never loads the empty *)
(* frame of a new kernel thread.                                           *)
THEOREM TypeCorrect == Spec => []TypeOK
  <1>1. IInv => TypeOK
    BY DEF IInv
  <1>2. QED
    BY Invariance, <1>1, PTL

(* sscratch tells the exception vector where the hart came from.           *)
THEOREM Sscratch == Spec => []SscratchProtocol
  <1>1. IInv => SscratchProtocol
    <2> SUFFICES ASSUME IInv PROVE SscratchProtocol
      OBVIOUS
    <2>1. CASE mode = "user"
      BY <2>1 DEF IInv, UserInv, SscratchProtocol
    <2>2. CASE mode = "kernel"
      <3>1. SUFFICES ASSUME sscratch # NoSp
                     PROVE  pc = "restore_all" /\ ~ie /\ ~TopFrame.ps
        BY <2>2 DEF SscratchProtocol
      <3>2. pc = "restore_all" /\ TopFrame.at = "user" /\ ~ie
        BY <2>2, <3>1 DEF IInv, KernelInv, OffPcs
      <3>3. QED
        BY <2>2, <3>2, KernelTop DEF Legal
    <2>3. QED
      BY <2>1, <2>2 DEF IInv, TypeOK
  <1>2. QED
    BY Invariance, <1>1, PTL

(* Every kernel stack belongs to the task that runs on it.                 *)
THEOREM OwnStacks == Spec => []StacksAreOwn
  <1>1. IInv => StacksAreOwn
    BY DEF IInv, KernelInv, SleeperInv, StacksAreOwn
  <1>2. QED
    BY Invariance, <1>1, PTL

(* The check of the work flags before the sret is atomic, and user         *)
(* programs run with interrupts on.                                        *)
THEOREM WorkIsDone == Spec => []UserModeReady
  <1>1. IInv => UserModeReady
    BY DEF IInv, UserInv, UserModeReady
  <1>2. QED
    BY Invariance, <1>1, PTL

(* The frames on a stack are those its pointer covers, and only the        *)
(* outermost one comes from user mode.                                     *)
LEMMA TowerShape ==
  ASSUME NEW t, NEW s \in Stack, NEW n \in 0 .. MaxDepth, NEW p, Tower(t, s, n, p),
         NEW d \in 1 .. MaxDepth
  PROVE  /\ s[d] # NoFrame <=> d <= n
         /\ d <= n => /\ ~s[d].ps <=> s[d].at = "user"
                      /\ ~s[d].ps => d = 1 /\ t # Boot /\ s[d].ctx \in Ctx
  <1> USE DepthAssumption
  <1>1. CASE d <= n
    <2>1. d \in 1 .. n /\ Legal(s[d], IF d = n THEN p ELSE s[d + 1].at)
      BY <1>1 DEF Tower
    <2>2. s[d].at = "user" => d = 1 /\ t # Boot
      BY <2>1 DEF Tower
    <2>3. QED
      BY <1>1, <2>1, <2>2 DEF Legal
  <1>2. CASE ~(d <= n)
    BY <1>2 DEF Tower
  <1>3. QED
    BY <1>1, <1>2

THEOREM Shape == Spec => []StackShape
  <1>1. IInv => StackShape
    <2> SUFFICES ASSUME IInv, NEW t \in Tasks, Exists(t), NEW d \in 1 .. MaxDepth
                 PROVE  /\ kstack[t][d] # NoFrame <=> d <= DepthOf(t)
                        /\ d <= DepthOf(t) =>
                             /\ ~kstack[t][d].ps <=> kstack[t][d].at = "user"
                             /\ ~kstack[t][d].ps => d = 1 /\ t # Boot /\ kstack[t][d].ctx \in Ctx
      BY DEF StackShape
    <2>1. kstack[t] \in Stack /\ mode \in {"user", "kernel"}
      BY DEF IInv, TypeOK, Stack
    <2>2. CASE t # tp
      <3>1. /\ Tower(t, kstack[t], thread[t].sp.depth, thread[t].ra)
            /\ thread[t].sp.depth \in 0 .. MaxDepth
        BY <2>2 DEF Exists, IInv, SleeperInv, Sp
      <3>2. DepthOf(t) = thread[t].sp.depth
        BY <2>2 DEF DepthOf
      <3>3. QED
        BY <2>1, <3>1, <3>2, TowerShape
    <2>3. CASE t = tp /\ mode = "kernel"
      <3>1. Tower(t, kstack[t], sp.depth, pc) /\ sp.depth \in 0 .. MaxDepth
        BY <2>3 DEF IInv, KernelInv, Sp
      <3>2. DepthOf(t) = sp.depth
        BY <2>3 DEF DepthOf
      <3> DEFINE n == sp.depth
      <3> HIDE DEF n
      <3>3. Tower(t, kstack[t], n, pc) /\ n \in 0 .. MaxDepth /\ DepthOf(t) = n
        BY <3>1, <3>2 DEF n
      <3>4. QED
        BY <2>1, <3>3, TowerShape
    <2>4. CASE t = tp /\ mode = "user"
      BY <2>4 DEF IInv, UserInv, Empty, DepthOf
    <2>5. QED
      BY <2>1, <2>2, <2>3, <2>4
  <1>2. QED
    BY Invariance, <1>1, PTL

(* Nothing reaches the stack of a task that is switched out.               *)
THEOREM SleepersSleep == Spec => SleepersUntouched
  <1> DEFINE A == \A t \in Tasks :
                    t # tp /\ thread[t] # NoThread =>
                      kstack'[t] = kstack[t] /\ (thread'[t] = thread[t] \/ tp' = t)
  <1>1. IInv /\ [Next]_vars => [A]_vars
    <2> SUFFICES ASSUME IInv, Next, NEW t \in Tasks, t # tp, thread[t] # NoThread
                 PROVE  kstack'[t] = kstack[t] /\ (thread'[t] = thread[t] \/ tp' = t)
      OBVIOUS
    <2> USE DEF IInv, TypeOK
    <2>1. CASE handle_interrupt \/ handle_other_exception \/ handle_syscall
      <3>1. mode = "user" \/ pc \in OnPcs
        BY <2>1 DEF handle_interrupt, handle_other_exception, handle_syscall, KernelInv,
                    OnPcs, OffPcs, KernelPcs, Bodies
      <3>2. PICK f : SAVE_ALL(f)
        BY <2>1 DEF handle_interrupt, handle_other_exception, handle_syscall
      <3>3. EntrySp.task = tp /\ UNCHANGED thread
        BY <3>1, <3>2, TrapTyped DEF SAVE_ALL
      <3>4. QED
        BY <3>2, <3>3 DEF SAVE_ALL
    <2>2. CASE ret_from_syscall \/ do_notify_resume \/ restore_all
      <3>1. sp.task = tp
        BY <2>2, KernelTop DEF ret_from_syscall, do_notify_resume, restore_all, Kernel
      <3>2. QED
        BY <2>2, <3>1 DEF ret_from_syscall, do_notify_resume, restore_all
    <2>3. CASE schedule
      BY <2>3 DEF schedule, __switch_to
    <2>4. CASE Fork
      BY <2>4 DEF Fork, copy_thread_user, copy_thread_kthread, Exists
    <2>5. CASE start_thread \/ do_exit
      BY <2>5 DEF start_thread, do_exit
    <2>6. CASE \/ SetWork \/ irq_exit_softirqs \/ do_IRQ_returns \/ exception_enables_irqs
               \/ exception_returns \/ ret_from_exception \/ resume_userspace
               \/ work_pending \/ ret_from_fork \/ ret_from_kernel_thread \/ UserStep
      BY <2>6 DEF SetWork, irq_exit_softirqs, do_IRQ_returns, exception_enables_irqs,
                  exception_returns, ret_from_exception, resume_userspace, work_pending,
                  ret_from_fork, ret_from_kernel_thread, UserStep
    <2>7. QED
      BY <2>1, <2>2, <2>3, <2>4, <2>5, <2>6 DEF Next
  <1>2. QED
    BY Invariance, <1>1, PTL DEF Spec, SleepersUntouched
-----------------------------------------------------------------------------
(* What user programs see: Entry implements AbstractTasks.                 *)

(* A first frame that did not come from user mode holds no context: the    *)
(* kernel keeps no user registers that a trap could save once more.        *)
FirstFrame == \A t \in Tasks : PtRegs(t).at # "user" => PtRegs(t).ctx = NoCtx

RInv == IInv /\ FirstFrame

ContextOf(t) == IF mode = "user" /\ t = tp THEN regs ELSE PtRegs(t).ctx

LEMMA FirstFrames ==
  ASSUME TypeOK
  PROVE  /\ 1 \in 1 .. MaxDepth
         /\ \A t \in Tasks : /\ PtRegs(t) \in Frame \cup {NoFrame}
                             /\ UserCtx(t) = ContextOf(t)
  BY DepthAssumption DEF TypeOK, PtRegs, UserCtx, ContextOf, NoFrame

(* The program that runs is current's. *)
LEMMA RunningIsCurrent ==
  ASSUME IInv
  PROVE  (IF mode = "user" THEN sscratch.task ELSE tp) = tp /\ tp \in Tasks
  BY DEF IInv, TypeOK, UserInv

LEMMA CtxNotNone == NoCtx \notin Ctx
  BY ContextAssumption DEF NoCtx, Ctx

(* A trap saves the registers it finds. *)
LEMMA TrapContexts ==
  ASSUME RInv, NEW f \in Frame, SAVE_ALL(f), mode = "user" \/ pc \in OnPcs,
         f.at = TrapFrame.at, mode = "kernel" => f.ctx = TrapFrame.ctx
  PROVE  /\ FirstFrame'
         /\ mode' = "kernel" /\ tp' = tp
         /\ \A t \in Tasks :
               ContextOf(t)' = IF mode = "user" /\ t = tp THEN f.ctx ELSE ContextOf(t)
  <1>1. IInv /\ TypeOK /\ FirstFrame
    BY DEF RInv, IInv
  <1>2. /\ EntrySp.task = tp /\ EntrySp.depth \in 1 .. MaxDepth
        /\ EntrySp.depth = (IF mode = "user" THEN 0 ELSE sp.depth) + 1
        /\ tp \in Tasks /\ mode \in {"user", "kernel"}
    BY <1>1, TrapTyped DEF SAVE_ALL, TypeOK
  <1>3. /\ kstack' = [kstack EXCEPT ![tp][EntrySp.depth] = f]
        /\ mode' = "kernel" /\ tp' = tp
    BY <1>2 DEF SAVE_ALL
  <1>4. \A t \in Tasks : PtRegs(t)' = IF t = tp /\ EntrySp.depth = 1 THEN f ELSE PtRegs(t)
    BY <1>1, <1>2, <1>3, FirstFrames DEF TypeOK, PtRegs
  <1>5. CASE mode = "user"
    <2>1. EntrySp.depth = 1 /\ f.at = "user"
      BY <1>1, <1>2, <1>5, TrapTyped DEF SAVE_ALL
    <2>2. QED
      BY <1>1, <1>3, <1>4, <1>5, <2>1 DEF FirstFrame, ContextOf
  <1>6. CASE mode = "kernel"
    <2>1. f.ctx = NoCtx
      BY <1>1, <1>6 DEF TrapFrame, IInv, KernelInv
    <2>2. EntrySp.depth = 1 => PtRegs(tp).ctx = NoCtx
      <3>1. SUFFICES ASSUME EntrySp.depth = 1 PROVE PtRegs(tp).ctx = NoCtx
        OBVIOUS
      <3>2. sp.depth = 0 /\ Tower(tp, kstack[tp], sp.depth, pc)
        BY <1>1, <1>2, <1>6, <3>1 DEF IInv, KernelInv, Sp
      <3>3. PtRegs(tp) = NoFrame
        BY <1>1, <3>2, FirstFrames DEF Tower, PtRegs
      <3>4. QED
        BY <3>3 DEF NoFrame
    <2>3. \A t \in Tasks : PtRegs(t)'.ctx = PtRegs(t).ctx
      BY <1>4, <2>1, <2>2
    <2>4. FirstFrame'
      BY <1>1, <1>4, <2>1 DEF FirstFrame
    <2>5. QED
      BY <1>3, <1>6, <2>3, <2>4 DEF ContextOf
  <1>7. QED
    BY <1>2, <1>5, <1>6

(* A step that leaves the first frames alone. *)
LEMMA SameContexts ==
  ASSUME RInv, UNCHANGED <<mode, regs, kstack>>, mode = "user" => tp' = tp
  PROVE  FirstFrame' /\ \A t \in Tasks : ContextOf(t)' = ContextOf(t)
  BY DEF RInv, FirstFrame, PtRegs, ContextOf

(* A step that gives one task another first frame. *)
LEMMA NewContext ==
  ASSUME RInv, NEW c \in Tasks, NEW g, kstack'[c][1] = g,
         \A t \in Tasks \ {c} : kstack'[t] = kstack[t],
         mode = "kernel", mode' = "kernel", g.at # "user" => g.ctx = NoCtx
  PROVE  /\ FirstFrame'
         /\ \A t \in Tasks : ContextOf(t)' = IF t = c THEN g.ctx ELSE ContextOf(t)
  BY DEF RInv, FirstFrame, PtRegs, ContextOf

(* System calls and signals: the frame in use is current's first. *)
LEMMA CurrentFrame ==
  ASSUME RInv, mode = "kernel", pc \in {"syscall", "notify"}
  PROVE  /\ sp.task = tp /\ sp.depth = 1 /\ tp \in Tasks
         /\ PtRegs(tp) = kstack[tp][1] /\ PtRegs(tp) \in Frame /\ PtRegs(tp).at = "user"
         /\ PtRegs(tp).ctx \in Ctx /\ ContextOf(tp) = PtRegs(tp).ctx
         /\ ContextOf(tp) # NoCtx
         /\ kstack \in [Tasks -> Stack] /\ kstack[tp] \in Stack /\ 1 \in 1 .. MaxDepth
  <1>1. IInv /\ TypeOK
    BY DEF RInv, IInv
  <1>2. /\ sp.task = tp /\ sp.depth = 1 /\ TopFrame \in Frame /\ TopFrame.at = "user"
        /\ Legal(TopFrame, pc) /\ TopFrame = PtRegs(tp)
    BY <1>1, KernelTop, OutermostLevel DEF PtRegs
  <1>3. kstack \in [Tasks -> Stack] /\ tp \in Tasks /\ 1 \in 1 .. MaxDepth
    BY <1>1, FirstFrames DEF TypeOK, Stack
  <1>4. QED
    BY <1>2, <1>3, CtxNotNone DEF Legal, ContextOf, PtRegs
Contexts == [t \in Tasks |-> UserCtx(t)]
CurrentTask == IF mode = "user" THEN sscratch.task ELSE tp

(* The mapping in terms of ContextOf and tp, before and after a step. *)
LEMMA Mapping ==
  ASSUME RInv, [Next]_vars
  PROVE  /\ Contexts = [t \in Tasks |-> ContextOf(t)]
         /\ Contexts' = [t \in Tasks |-> ContextOf(t)']
         /\ CurrentTask = tp /\ CurrentTask' = tp' /\ tp \in Tasks /\ tp' \in Tasks
  <1>1. IInv /\ IInv'
    BY StepIInv DEF RInv
  <1>2. TypeOK /\ TypeOK'
    BY <1>1 DEF IInv
  <1>3. \A t \in Tasks : UserCtx(t) = ContextOf(t)
    BY <1>2, FirstFrames
  <1>4. (\A t \in Tasks : UserCtx(t) = ContextOf(t))'
    BY <1>2, DepthAssumption DEF TypeOK, PtRegs, UserCtx, ContextOf, NoFrame
  <1>5. (CurrentTask = tp /\ tp \in Tasks)'
    BY <1>1 DEF IInv, TypeOK, UserInv, CurrentTask
  <1>6. QED
    BY <1>1, <1>3, <1>4, <1>5, RunningIsCurrent DEF Contexts, CurrentTask

Refines == FirstFrame' /\ [Programs!Next]_<<Contexts, CurrentTask>>

LEMMA Stutters ==
  ASSUME RInv, Next, FirstFrame', tp' = tp, \A t \in Tasks : ContextOf(t)' = ContextOf(t)
  PROVE  Refines
  BY Mapping DEF Refines

(* The running program's context changes, or a child's. *)
LEMMA Changes ==
  ASSUME RInv, Next, FirstFrame', NEW c \in Tasks, NEW x,
         \A t \in Tasks : ContextOf(t)' = IF t = c THEN x ELSE ContextOf(t)
  PROVE  /\ FirstFrame' /\ Contexts' = [Contexts EXCEPT ![c] = x]
         /\ Contexts[c] = ContextOf(c) /\ Contexts[CurrentTask] = ContextOf(tp)
         /\ CurrentTask = tp /\ CurrentTask' = tp' /\ tp' \in Tasks
  BY Mapping

LEMMA TrapRefines ==
  ASSUME RInv, Next, handle_interrupt \/ handle_other_exception \/ handle_syscall
  PROVE  Refines
  <1>1. mode = "user" \/ (mode = "kernel" /\ pc \in OnPcs)
    BY DEF RInv, IInv, TypeOK, handle_interrupt, handle_other_exception, handle_syscall,
           KernelInv, OnPcs, OffPcs, KernelPcs, Bodies
  <1>2. CASE handle_interrupt \/ handle_other_exception
    <2>1. SAVE_ALL(TrapFrame) /\ TrapFrame \in Frame
      BY <1>1, <1>2, TrapTyped DEF RInv, handle_interrupt, handle_other_exception, SAVE_ALL
    <2>2. mode = "user" => ContextOf(tp) = TrapFrame.ctx
      BY DEF ContextOf, TrapFrame
    <2>3. QED
      BY <1>1, <2>1, <2>2, TrapContexts, Stutters
  <1>3. CASE handle_syscall
    <2>1. PICK p \in Pcs : SAVE_ALL([TrapFrame EXCEPT !.ctx.pc = p])
      BY <1>3 DEF handle_syscall
    <2> DEFINE f == [TrapFrame EXCEPT !.ctx.pc = p]
    <2>2. /\ mode = "user" /\ TrapFrame \in Frame /\ TrapFrame.ctx \in Ctx
          /\ TrapFrame.ctx = regs
      BY <1>3, <2>1, TrapTyped DEF RInv, handle_syscall, SAVE_ALL, TrapFrame
    <2>3. f \in Frame /\ f.at = TrapFrame.at /\ f.ctx = [regs EXCEPT !.pc = p]
      BY <2>2 DEF Frame, Ctx
    <2> HIDE DEF f
    <2>4. /\ FirstFrame' /\ tp' = tp
          /\ \A t \in Tasks : ContextOf(t)' = IF t = tp THEN f.ctx ELSE ContextOf(t)
      BY <1>1, <2>1, <2>2, <2>3, TrapContexts DEF f
    <2>5. ContextOf(tp) = regs /\ regs # NoCtx
      BY <2>2, CtxNotNone DEF ContextOf
    <2>6. Programs!Execute
      <3>1. /\ Contexts[CurrentTask] = regs /\ UNCHANGED CurrentTask
            /\ Contexts' = [Contexts EXCEPT ![CurrentTask] = [regs EXCEPT !.pc = p]]
        BY <2>3, <2>4, <2>5, Changes, Mapping
      <3>2. Contexts' = [Contexts EXCEPT ![CurrentTask].pc = p]
        BY <3>1
      <3>3. QED
        BY <2>5, <3>1, <3>2
           DEF Programs!Execute, Contexts, CurrentTask, Programs!NoCtx, NoCtx
    <2>7. QED
      BY <2>4, <2>6 DEF Refines, Programs!Next
  <1>4. QED
    BY <1>2, <1>3
(* ret_from_syscall returns a value; a signal may send the program to its  *)
(* handler.                                                                *)
LEMMA UserFrameRefines ==
  ASSUME RInv, Next, ret_from_syscall \/ do_notify_resume
  PROVE  Refines
  <1>1. /\ mode = "kernel" /\ mode' = "kernel" /\ tp' = tp /\ pc \in {"syscall", "notify"}
        /\ UNCHANGED regs
    BY DEF ret_from_syscall, do_notify_resume, Kernel
  <1>2. /\ sp.task = tp /\ sp.depth = 1 /\ tp \in Tasks
        /\ PtRegs(tp) = kstack[tp][1] /\ PtRegs(tp) \in Frame /\ PtRegs(tp).at = "user"
        /\ PtRegs(tp).ctx \in Ctx /\ ContextOf(tp) = PtRegs(tp).ctx
        /\ ContextOf(tp) # NoCtx
        /\ kstack \in [Tasks -> Stack] /\ kstack[tp] \in Stack /\ 1 \in 1 .. MaxDepth
    BY <1>1, CurrentFrame
  <1>3. CASE UNCHANGED kstack
    BY <1>1, <1>3, SameContexts, Stutters
  <1>4. ASSUME NEW v \in Values, kstack' = [kstack EXCEPT ![sp.task][sp.depth].ctx.a0 = v]
        PROVE  Refines
    <2> DEFINE g == [PtRegs(tp) EXCEPT !.ctx.a0 = v]
    <2>1. g.at = "user" /\ g.ctx = [ContextOf(tp) EXCEPT !.a0 = v]
      BY <1>2 DEF Frame
    <2>2. kstack'[tp][1] = g /\ \A t \in Tasks \ {tp} : kstack'[t] = kstack[t]
      BY <1>2, <1>4 DEF Stack
    <2> HIDE DEF g
    <2>3. /\ FirstFrame'
          /\ \A t \in Tasks : ContextOf(t)' = IF t = tp THEN g.ctx ELSE ContextOf(t)
      BY <1>1, <1>2, <2>1, <2>2, NewContext
    <2>4. /\ Contexts[CurrentTask] # NoCtx /\ UNCHANGED CurrentTask
          /\ Contexts' = [Contexts EXCEPT ![CurrentTask].a0 = v]
      BY <1>1, <1>2, <2>1, <2>3, Changes
    <2>5. Programs!Return
      BY <2>4 DEF Programs!Return, Contexts, CurrentTask, Programs!NoCtx, NoCtx
    <2>6. QED
      BY <2>3, <2>5 DEF Refines, Programs!Next
  <1>5. ASSUME NEW c \in Ctx, kstack' = [kstack EXCEPT ![sp.task][sp.depth].ctx = c]
        PROVE  Refines
    <2> DEFINE g == [PtRegs(tp) EXCEPT !.ctx = c]
    <2>1. g.at = "user" /\ g.ctx = c
      BY <1>2 DEF Frame
    <2>2. kstack'[tp][1] = g /\ \A t \in Tasks \ {tp} : kstack'[t] = kstack[t]
      BY <1>2, <1>5 DEF Stack
    <2> HIDE DEF g
    <2>3. /\ FirstFrame'
          /\ \A t \in Tasks : ContextOf(t)' = IF t = tp THEN c ELSE ContextOf(t)
      BY <1>1, <1>2, <2>1, <2>2, NewContext
    <2>4. UNCHANGED CurrentTask /\ Contexts' = [Contexts EXCEPT ![CurrentTask] = c]
      BY <1>1, <1>2, <2>3, Changes
    <2>5. Programs!Replace
      BY <2>4 DEF Programs!Replace, Contexts, CurrentTask, Programs!Ctx, Ctx
    <2>6. QED
      BY <2>3, <2>5 DEF Refines, Programs!Next
  <1>6. QED
    BY <1>3, <1>4, <1>5 DEF ret_from_syscall, do_notify_resume

(* The return from a trap gives the registers back. *)
LEMMA RestoreRefines ==
  ASSUME RInv, Next, restore_all
  PROVE  Refines
  <1>1. IInv /\ TypeOK /\ FirstFrame
    BY DEF RInv, IInv
  <1>2. /\ mode = "kernel" /\ pc = "restore_all" /\ tp' = tp /\ tp \in Tasks
        /\ sp.task = tp /\ sp.depth \in 1 .. MaxDepth
        /\ TopFrame = kstack[tp][sp.depth] /\ Legal(TopFrame, pc)
        /\ Tower(tp, kstack[tp], sp.depth, pc)
    BY <1>1, KernelTop DEF restore_all, Kernel, TypeOK
  <1>3. \A t \in Tasks : PtRegs(t)' = IF t = tp /\ sp.depth = 1 THEN NoFrame ELSE PtRegs(t)
    BY <1>1, <1>2, FirstFrames DEF restore_all, TypeOK, PtRegs
  <1>4. FirstFrame'
    BY <1>1, <1>3 DEF FirstFrame, NoFrame
  <1>5. \A t \in Tasks : ContextOf(t)' = ContextOf(t)
    <2>1. CASE TopFrame.at = "user"
      <3>1. sp.depth = 1 /\ TopFrame = PtRegs(tp)
        BY <1>1, <1>2, <2>1 DEF Tower, PtRegs
      <3>2. mode' = "user" /\ regs' = PtRegs(tp).ctx
        BY <1>2, <2>1, <3>1 DEF restore_all, Legal
      <3>3. QED
        BY <1>2, <1>3, <3>1, <3>2 DEF ContextOf
    <2>2. CASE TopFrame.at # "user"
      <3>1. mode' = "kernel"
        BY <1>2, <2>2 DEF restore_all, Legal
      <3>2. sp.depth = 1 => PtRegs(tp).ctx = NoCtx
        BY <1>1, <1>2, <2>2 DEF FirstFrame, PtRegs
      <3>3. QED
        BY <1>2, <1>3, <3>1, <3>2 DEF ContextOf, NoFrame
    <2>3. QED
      BY <2>1, <2>2
  <1>6. QED
    BY <1>2, <1>4, <1>5, Stutters

LEMMA UserRefines ==
  ASSUME RInv, Next, UserStep
  PROVE  Refines
  <1>1. PICK p \in Pcs : regs' = [regs EXCEPT !.pc = p]
    BY DEF UserStep
  <1>2. /\ mode = "user" /\ regs # NoCtx /\ tp \in Tasks
        /\ UNCHANGED <<mode, tp, kstack>>
    BY CtxNotNone DEF UserStep, RInv, IInv, TypeOK, UserInv
  <1>3. FirstFrame'
    BY <1>2 DEF RInv, FirstFrame, PtRegs
  <1>4. \A t \in Tasks : ContextOf(t)' = IF t = tp THEN regs' ELSE ContextOf(t)
    BY <1>2 DEF ContextOf, PtRegs
  <1>5. ContextOf(tp) = regs
    BY <1>2 DEF ContextOf
  <1>6. /\ Contexts[CurrentTask] = regs /\ UNCHANGED CurrentTask
        /\ Contexts' = [Contexts EXCEPT ![CurrentTask] = regs']
    BY <1>2, <1>3, <1>4, <1>5, Changes
  <1>7. Contexts' = [Contexts EXCEPT ![CurrentTask].pc = p]
    BY <1>1, <1>6
  <1>8. Programs!Execute
    BY <1>2, <1>6, <1>7 DEF Programs!Execute, Contexts, CurrentTask, Programs!NoCtx, NoCtx
  <1>9. QED
    BY <1>3, <1>8 DEF Refines, Programs!Next

(* The scheduler's choice changes no context. *)
LEMMA ScheduleRefines ==
  ASSUME RInv, Next, schedule
  PROVE  Refines
  <1>1. mode = "kernel" /\ UNCHANGED <<mode, regs, kstack>>
    BY DEF schedule
  <1>2. FirstFrame' /\ \A t \in Tasks : ContextOf(t)' = ContextOf(t)
    BY <1>1, SameContexts
  <1>3. UNCHANGED Contexts /\ CurrentTask' \in Tasks
    BY <1>2, Mapping
  <1>4. Programs!Dispatch
    BY <1>3 DEF Programs!Dispatch, Contexts, CurrentTask
  <1>5. QED
    BY <1>2, <1>4 DEF Refines, Programs!Next

(* A child gets its parent's context, with 0 returned; a kernel thread has *)
(* none.                                                                   *)
LEMMA ForkRefines ==
  ASSUME RInv, Next, Fork
  PROVE  Refines
  <1>1. PICK child \in Tasks :
          /\ ~Exists(child)
          /\ \/ Kernel("syscall") /\ copy_thread_user(child)
             \/ Kernel("kthread") /\ copy_thread_kthread(child)
    BY DEF Fork
  <1>2. /\ IInv /\ TypeOK /\ child # tp /\ mode = "kernel" /\ 1 \in 1 .. MaxDepth
        /\ UNCHANGED hartVars /\ Empty(kstack[child])
    BY <1>1, FirstFrames DEF RInv, IInv, SleeperInv, Exists, Fork, Kernel
  <1>3. mode' = "kernel" /\ tp' = tp
    BY <1>2 DEF hartVars
  <1>4. ContextOf(child) = NoCtx
    BY <1>2 DEF Empty, ContextOf, PtRegs, NoFrame
  <1>5. CASE Kernel("syscall") /\ copy_thread_user(child)
    <2> DEFINE g == [PtRegs(tp) EXCEPT !.ctx.a0 = 0]
    <2>1. /\ PtRegs(tp) \in Frame /\ PtRegs(tp).at = "user" /\ PtRegs(tp).ctx \in Ctx
          /\ ContextOf(tp) = PtRegs(tp).ctx /\ ContextOf(tp) # NoCtx
      BY <1>5, CurrentFrame DEF Kernel
    <2>2. g.at = "user" /\ g.ctx = [ContextOf(tp) EXCEPT !.a0 = 0]
      BY <2>1 DEF Frame
    <2>3. kstack'[child][1] = g /\ \A t \in Tasks \ {child} : kstack'[t] = kstack[t]
      BY <1>2, <1>5 DEF copy_thread_user, TypeOK
    <2> HIDE DEF g
    <2>4. /\ FirstFrame'
          /\ \A t \in Tasks : ContextOf(t)' = IF t = child THEN g.ctx ELSE ContextOf(t)
      BY <1>2, <1>3, <2>2, <2>3, NewContext
    <2>5. /\ Contexts' = [Contexts EXCEPT ![child] = g.ctx]
          /\ Contexts[child] = NoCtx /\ Contexts[CurrentTask] = ContextOf(tp)
          /\ UNCHANGED CurrentTask
      BY <1>3, <1>4, <2>4, Changes
    <2>6. Contexts' = [Contexts EXCEPT ![child] = [Contexts[CurrentTask] EXCEPT !.a0 = 0]]
      BY <2>2, <2>5
    <2>7. Programs!Fork
      BY <2>1, <2>5, <2>6
         DEF Programs!Fork, Contexts, CurrentTask, Programs!NoCtx, NoCtx
    <2>8. QED
      BY <2>4, <2>7 DEF Refines, Programs!Next
  <1>6. CASE Kernel("kthread") /\ copy_thread_kthread(child)
    <2> DEFINE g == [ps |-> TRUE, pie |-> TRUE, at |-> "null", ctx |-> NoCtx]
    <2>1. kstack'[child][1] = g /\ \A t \in Tasks \ {child} : kstack'[t] = kstack[t]
      BY <1>2, <1>6 DEF copy_thread_kthread, TypeOK
    <2>2. g.ctx = NoCtx
      OBVIOUS
    <2> HIDE DEF g
    <2>3. /\ FirstFrame'
          /\ \A t \in Tasks : ContextOf(t)' = IF t = child THEN g.ctx ELSE ContextOf(t)
      BY <1>2, <1>3, <2>1, <2>2, NewContext
    <2>4. QED
      BY <1>3, <1>4, <2>2, <2>3, Stutters
  <1>7. QED
    BY <1>1, <1>5, <1>6

(* A new program, with registers of its own. *)
LEMMA ExecRefines ==
  ASSUME RInv, Next, start_thread
  PROVE  Refines
  <1> DEFINE g == [ps |-> FALSE, pie |-> TRUE, at |-> "user", ctx |-> [pc |-> 0, a0 |-> 0]]
  <1>1. /\ mode = "kernel" /\ mode' = "kernel" /\ tp' = tp /\ tp \in Tasks
        /\ 1 \in 1 .. MaxDepth /\ TypeOK
    BY FirstFrames DEF start_thread, Kernel, RInv, IInv, TypeOK
  <1>2. kstack'[tp][1] = g /\ \A t \in Tasks \ {tp} : kstack'[t] = kstack[t]
    BY <1>1 DEF start_thread, TypeOK
  <1>3. g.at = "user" /\ g.ctx \in Ctx
    BY ContextAssumption DEF Ctx
  <1> HIDE DEF g
  <1>4. /\ FirstFrame'
        /\ \A t \in Tasks : ContextOf(t)' = IF t = tp THEN g.ctx ELSE ContextOf(t)
    BY <1>1, <1>2, <1>3, NewContext
  <1>5. UNCHANGED CurrentTask /\ Contexts' = [Contexts EXCEPT ![CurrentTask] = g.ctx]
    BY <1>1, <1>4, Changes
  <1>6. Programs!Replace
    BY <1>3, <1>5 DEF Programs!Replace, Contexts, CurrentTask, Programs!Ctx, Ctx
  <1>7. QED
    BY <1>4, <1>6 DEF Refines, Programs!Next

LEMMA ExitRefines ==
  ASSUME RInv, Next, do_exit
  PROVE  Refines
  <1>1. /\ mode = "kernel" /\ mode' = "kernel" /\ tp \in Tasks
        /\ 1 \in 1 .. MaxDepth /\ TypeOK
    BY FirstFrames DEF do_exit, Kernel, RInv, IInv, TypeOK
  <1>2. kstack'[tp][1] = NoFrame /\ \A t \in Tasks \ {tp} : kstack'[t] = kstack[t]
    BY <1>1 DEF do_exit, TypeOK
  <1>3. NoFrame.ctx = NoCtx
    BY DEF NoFrame
  <1>4. /\ FirstFrame'
        /\ \A t \in Tasks : ContextOf(t)' = IF t = tp THEN NoCtx ELSE ContextOf(t)
    BY <1>1, <1>2, <1>3, NewContext
  <1>5. CurrentTask' \in Tasks /\ Contexts' = [Contexts EXCEPT ![CurrentTask] = NoCtx]
    BY <1>1, <1>4, Changes
  <1>6. Programs!Exit
    BY <1>5 DEF Programs!Exit, Contexts, CurrentTask, Programs!NoCtx, NoCtx
  <1>7. QED
    BY <1>4, <1>6 DEF Refines, Programs!Next

(* Everything else leaves the contexts and current alone. *)
LEMMA OthersRefine ==
  ASSUME RInv, Next,
         \/ SetWork \/ irq_exit_softirqs \/ do_IRQ_returns \/ exception_enables_irqs
         \/ exception_returns \/ ret_from_exception \/ resume_userspace
         \/ work_pending \/ ret_from_fork \/ ret_from_kernel_thread
  PROVE  Refines
  <1>1. UNCHANGED <<mode, tp, regs, kstack>>
    BY DEF SetWork, hartVars, irq_exit_softirqs, do_IRQ_returns, exception_enables_irqs,
           exception_returns, ret_from_exception, resume_userspace, work_pending,
           ret_from_fork, ret_from_kernel_thread
  <1>2. QED
    BY <1>1, SameContexts, Stutters

(* entry.S, process.c: every program has a context of its own, which only  *)
(* its own instructions and what the kernel does for it change, whatever   *)
(* interrupts nest and whichever tasks run meanwhile.                      *)
THEOREM Refinement == Spec => ProgramsSpec
  <1>1. Init => RInv /\ Programs!Init
    <2> SUFFICES ASSUME Init PROVE RInv /\ Programs!Init
      OBVIOUS
    <2>1. IInv
      BY InitIInv
    <2>2. \A t \in Tasks : PtRegs(t) = NoFrame
      BY FirstFrames, <2>1 DEF IInv, Init, PtRegs
    <2>3. FirstFrame
      BY <2>2 DEF FirstFrame, NoFrame
    <2>4. \A t \in Tasks : UserCtx(t) = NoCtx
      BY <2>2 DEF UserCtx, Init
    <2>5. Programs!Init
      BY <2>4 DEF Programs!Init, Init, Programs!NoCtx, NoCtx
    <2>6. QED
      BY <2>1, <2>3, <2>5 DEF RInv
  <1>2. RInv /\ [Next]_vars => FirstFrame' /\ [Programs!Next]_<<Contexts, CurrentTask>>
    <2> SUFFICES ASSUME RInv, [Next]_vars
                 PROVE  FirstFrame' /\ [Programs!Next]_<<Contexts, CurrentTask>>
      OBVIOUS
    <2>1. CASE UNCHANGED vars
      <3>1. UNCHANGED <<mode, tp, regs, kstack>>
        BY <2>1 DEF vars, hartVars
      <3>2. QED
        BY <3>1, SameContexts, Mapping
    <2>2. CASE Next
      <3>1. Refines
        BY <2>2, TrapRefines, UserFrameRefines, RestoreRefines, UserRefines,
           ScheduleRefines, ForkRefines, ExecRefines, ExitRefines, OthersRefine DEF Next
      <3>2. QED
        BY <3>1 DEF Refines
    <2>3. QED
      BY <2>1, <2>2
  <1>3. RInv /\ [Next]_vars => RInv'
    BY <1>2, StepIInv DEF RInv
  <1>4. QED
    BY <1>1, <1>2, <1>3, PTL
       DEF Spec, ProgramsSpec, Programs!Spec, Contexts, CurrentTask
=============================================================================

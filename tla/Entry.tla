-------------------------------- MODULE Entry --------------------------------
(***************************************************************************)
(* Trap entry, trap exit and task switching on one hart: kernel/entry.S,   *)
(* with copy_thread and start_thread of kernel/process.c, do_IRQ of        *)
(* kernel/irq.c and trap_init of kernel/traps.c.                           *)
(*                                                                         *)
(* The registers that decide whether it works are modelled: sscratch, sp,  *)
(* tp, sstatus.IE, the program counter.  The kernel stacks are memory: a   *)
(* trap writes its pt_regs frame wherever sscratch or sp says.  What runs  *)
(* between entry and exit (interrupt handlers, system calls, the           *)
(* scheduler's choice) is the generic kernel and left open.                *)
(***************************************************************************)
EXTENDS Integers, FiniteSets

CONSTANTS
  Tasks,
  Boot,       \* init_task, which becomes the idle task
  MaxDepth,   \* frames that fit on a kernel stack
  Pcs,        \* where a user program can be
  Values      \* what its register a0 can hold

ASSUME BootAssumption == Boot \in Tasks
ASSUME DepthAssumption == MaxDepth \in Nat \ {0}
ASSUME ContextAssumption == Pcs \subseteq Nat /\ Values \subseteq Nat /\ 0 \in Pcs \cap Values

VARIABLES
  mode,       \* the hart's privilege
  ie,         \* sstatus.IE
  pc,         \* where the hart is in the kernel
  sp,         \* the kernel stack in use: a stack and how many frames are on it
  tp,         \* current, while the hart is in the kernel
  sscratch,   \* NoSp stands for 0
  regs,       \* the user program's registers, while it runs
  kstack,     \* kstack[t][d]: the d-th frame on t's kernel stack
  thread,     \* thread[t]: ra and sp saved by __switch_to, of a task switched out
  flags       \* flags[t]: the bits of _TIF_WORK_MASK that are set

hartVars == <<mode, ie, pc, sp, tp, sscratch, regs>>
vars == <<hartVars, kstack, thread, flags>>

Work == {"NEED_RESCHED", "SIGPENDING"}

Ctx == [pc : Pcs, a0 : Values]
NoCtx == [pc |-> -1, a0 |-> -1]

Sp == [task : Tasks, depth : 0 .. MaxDepth]
NoSp == [task |-> Boot, depth |-> -1]

(* The places in the kernel that the entry code tells apart. *)
Bodies == {"irq", "softirq", "exception", "syscall", "notify", "kthread"}
Exits == {"ret_from_exception", "resume_userspace", "work_resched", "restore_all"}
Starts == {"ret_from_fork", "ret_from_kernel_thread"}
KernelPcs == Bodies \cup Exits \cup Starts

(* struct pt_regs.  at is "user", or what sepc holds of the kernel. *)
Frame == [ps : BOOLEAN, pie : BOOLEAN, at : KernelPcs \cup {"user", "null"},
          ctx : Ctx \cup {NoCtx}]
NoFrame == [ps |-> FALSE, pie |-> FALSE, at |-> "none", ctx |-> NoCtx]
NoThread == [ra |-> "none", sp |-> NoSp]

TypeOK ==
  /\ mode \in {"user", "kernel"}
  /\ ie \in BOOLEAN
  /\ pc \in KernelPcs
  /\ sp \in Sp \cup {NoSp}
  /\ tp \in Tasks
  /\ sscratch \in Sp \cup {NoSp}
  /\ regs \in Ctx \cup {NoCtx}
  /\ kstack \in [Tasks -> [1 .. MaxDepth -> Frame \cup {NoFrame}]]
  /\ thread \in [Tasks -> [ra : KernelPcs \cup {"none"}, sp : Sp \cup {NoSp}]]
  /\ flags \in [Tasks -> SUBSET Work]

(* The boot hart after trap_init: sscratch is 0, init_task is current.     *)
Init ==
  /\ mode = "kernel"
  /\ ie = TRUE
  /\ pc = "kthread"
  /\ sp = [task |-> Boot, depth |-> 0]
  /\ tp = Boot
  /\ sscratch = NoSp
  /\ regs = NoCtx
  /\ kstack = [t \in Tasks |-> [d \in 1 .. MaxDepth |-> NoFrame]]
  /\ thread = [t \in Tasks |-> NoThread]
  /\ flags = [t \in Tasks |-> {}]

Kernel(at) == mode = "kernel" /\ pc = at

(* The frame sp points at, and task_pt_regs(t): t's outermost frame. *)
TopFrame == kstack[sp.task][sp.depth]
PtRegs(t) == kstack[t][1]

Exists(t) == t = tp \/ thread[t] # NoThread

-----------------------------------------------------------------------------
(* Entry.  csrrw sp, sscratch, sp; bnez: a nonzero sscratch is the stack   *)
(* to use, otherwise the trap came from the kernel and its sp is kept.     *)
EntrySp ==
  LET base == IF sscratch # NoSp THEN sscratch ELSE sp
  IN  [task |-> base.task, depth |-> base.depth + 1]

(* Mutant: sscratch not cleared. *)
M_SaveAllKeepsSscratch(frame) ==
  /\ EntrySp.depth <= MaxDepth
  /\ kstack' = [kstack EXCEPT ![EntrySp.task][EntrySp.depth] = frame]
  /\ sp' = EntrySp
  /\ tp' = EntrySp.task
  /\ UNCHANGED sscratch
  /\ mode' = "kernel"
  /\ regs' = NoCtx
  /\ UNCHANGED <<thread, flags>>

(* SAVE_ALL, the clearing of sscratch and the computation of tp, with      *)
(* interrupts off as the hardware left them.                               *)
SAVE_ALL(frame) ==
  /\ EntrySp.depth <= MaxDepth
  /\ kstack' = [kstack EXCEPT ![EntrySp.task][EntrySp.depth] = frame]
  /\ sp' = EntrySp
  /\ tp' = EntrySp.task
  /\ sscratch' = NoSp
  /\ mode' = "kernel"
  /\ regs' = NoCtx
  /\ UNCHANGED <<thread, flags>>

TrapFrame ==
  [ps |-> mode = "kernel", pie |-> ie,
   at |-> IF mode = "user" THEN "user" ELSE pc, ctx |-> regs]

(* bge s4, zero: an interrupt, tail do_IRQ.  From user mode supervisor     *)
(* interrupts are taken whatever IE says.                                  *)
handle_interrupt ==
  /\ mode = "user" \/ ie
  /\ SAVE_ALL(TrapFrame)
  /\ pc' = "irq" /\ ie' = FALSE

(* Through excp_vect_table or to do_trap_unknown.  The kernel's own        *)
(* exceptions are accesses to user memory that fault.                      *)
handle_other_exception ==
  /\ mode = "user" \/ pc \in {"syscall", "notify"}
  /\ SAVE_ALL(TrapFrame)
  /\ pc' = "exception" /\ ie' = FALSE

(* sepc is advanced past the scall, interrupts are enabled. *)
handle_syscall ==
  /\ mode = "user"
  /\ \E p \in Pcs : SAVE_ALL([TrapFrame EXCEPT !.ctx.pc = p])
  /\ pc' = "syscall" /\ ie' = TRUE

-----------------------------------------------------------------------------
(* Bodies.  A handler or a system call may find that current has used up   *)
(* its time slice, or send a signal to any task.                           *)
SetWork ==
  /\ mode = "kernel" /\ pc \in {"irq", "softirq", "exception", "syscall"}
  /\ \/ pc \in {"irq", "softirq"} /\ flags' = [flags EXCEPT ![tp] = @ \cup {"NEED_RESCHED"}]
     \/ \E t \in Tasks \ {Boot} :
          Exists(t) /\ flags' = [flags EXCEPT ![t] = @ \cup {"SIGPENDING"}]
  /\ UNCHANGED <<hartVars, kstack, thread>>

(* do_IRQ: irq_exit runs softirqs with interrupts on, unless the interrupt *)
(* itself interrupted softirqs; then it returns to ret_from_exception.     *)
irq_exit_softirqs ==
  /\ Kernel("irq") /\ TopFrame.at # "softirq"
  /\ pc' = "softirq" /\ ie' = TRUE
  /\ UNCHANGED <<mode, sp, tp, sscratch, regs, kstack, thread, flags>>

do_IRQ_returns ==
  /\ Kernel("irq") \/ Kernel("softirq")
  /\ pc' = "ret_from_exception" /\ ie' = FALSE
  /\ UNCHANGED <<mode, sp, tp, sscratch, regs, kstack, thread, flags>>

(* do_page_fault enables interrupts if they were on where the fault was.   *)
exception_enables_irqs ==
  /\ Kernel("exception") /\ TopFrame.pie
  /\ ie' = TRUE
  /\ UNCHANGED <<mode, pc, sp, tp, sscratch, regs, kstack, thread, flags>>

exception_returns ==
  /\ Kernel("exception")
  /\ pc' = "ret_from_exception"
  /\ UNCHANGED <<mode, ie, sp, tp, sscratch, regs, kstack, thread, flags>>

(* ret_from_syscall: the system call's result becomes the user's a0. *)
ret_from_syscall ==
  /\ Kernel("syscall")
  /\ \E v \in Values : kstack' = [kstack EXCEPT ![sp.task][sp.depth].ctx.a0 = v]
  /\ pc' = "ret_from_exception"
  /\ UNCHANGED <<mode, ie, sp, tp, sscratch, regs, thread, flags>>

(* do_notify_resume: signals are dequeued, and one may have rewritten the  *)
(* user's registers.                                                       *)
do_notify_resume ==
  /\ Kernel("notify")
  /\ flags' = [flags EXCEPT ![tp] = @ \ {"SIGPENDING"}]
  /\ \/ UNCHANGED kstack
     \/ \E c \in Ctx : kstack' = [kstack EXCEPT ![sp.task][sp.depth].ctx = c]
  /\ pc' = "ret_from_exception"
  /\ UNCHANGED <<mode, ie, sp, tp, sscratch, regs, thread>>

-----------------------------------------------------------------------------
(* Exit.                                                                   *)

(* csrc sstatus, SR_IE; a frame that came from the kernel goes back at     *)
(* once.                                                                   *)
ret_from_exception ==
  /\ Kernel("ret_from_exception")
  /\ ie' = FALSE
  /\ pc' = IF TopFrame.ps THEN "restore_all" ELSE "resume_userspace"
  /\ UNCHANGED <<mode, sp, tp, sscratch, regs, kstack, thread, flags>>

(* Mutant: TIF_NEED_RESCHED is not in _TIF_WORK_MASK. *)
M_ResumeUserspaceSeesSignalsOnly ==
  /\ Kernel("resume_userspace") /\ "SIGPENDING" \notin flags[tp]
  /\ sscratch' = [sp EXCEPT !.depth = @ - 1]
  /\ pc' = "restore_all"
  /\ UNCHANGED <<mode, ie, sp, tp, regs, kstack, thread, flags>>

(* No work: the unwound stack pointer is put in sscratch. *)
resume_userspace ==
  /\ Kernel("resume_userspace") /\ flags[tp] = {}
  /\ sscratch' = [sp EXCEPT !.depth = @ - 1]
  /\ pc' = "restore_all"
  /\ UNCHANGED <<mode, ie, sp, tp, regs, kstack, thread, flags>>

(* work_pending: rescheduling comes first; signals are handled with        *)
(* interrupts on.                                                          *)
work_pending ==
  /\ Kernel("resume_userspace") /\ flags[tp] # {}
  /\ pc' = IF "NEED_RESCHED" \in flags[tp] THEN "work_resched" ELSE "notify"
  /\ ie' = IF "NEED_RESCHED" \in flags[tp] THEN ie ELSE TRUE
  /\ UNCHANGED <<mode, sp, tp, sscratch, regs, kstack, thread, flags>>

(* RESTORE_ALL and sret.  The frame's own sstatus.IE is off, as the trap   *)
(* left it; sret takes IE from PIE and the mode from PS.  The frame below  *)
(* the stack pointer is dead.                                              *)
restore_all ==
  /\ Kernel("restore_all")
  /\ kstack' = [kstack EXCEPT ![sp.task][sp.depth] = NoFrame]
  /\ ie' = TopFrame.pie
  /\ IF TopFrame.ps
     THEN /\ pc' = TopFrame.at
          /\ sp' = [sp EXCEPT !.depth = @ - 1]
          /\ UNCHANGED <<mode, regs>>
     ELSE /\ mode' = "user"
          /\ regs' = TopFrame.ctx
          /\ sp' = NoSp
          /\ pc' = "restore_all"
  /\ UNCHANGED <<tp, sscratch, thread, flags>>

(* The program itself. *)
UserStep ==
  /\ mode = "user"
  /\ \E p \in Pcs : regs' = [regs EXCEPT !.pc = p]
  /\ UNCHANGED <<mode, ie, pc, sp, tp, sscratch, kstack, thread, flags>>

-----------------------------------------------------------------------------
(* Task switching.                                                         *)

(* Mutant: the previous task's stack is kept. *)
M_SwitchToKeepsSp(next, ra) ==
  /\ thread' = [thread EXCEPT ![tp] = [ra |-> ra, sp |-> sp], ![next] = NoThread]
  /\ pc' = thread[next].ra
  /\ tp' = next
  /\ UNCHANGED sp

(* ra and sp go to prev->thread and come from next->thread; tp is next.    *)
__switch_to(next, ra) ==
  /\ thread' = [thread EXCEPT ![tp] = [ra |-> ra, sp |-> sp], ![next] = NoThread]
  /\ pc' = thread[next].ra
  /\ sp' = thread[next].sp
  /\ tp' = next

(* schedule(), which clears NEED_RESCHED, picks any task and enables       *)
(* interrupts; work_resched reaches it with ra = ret_from_exception.       *)
(* System calls, faults taken with interrupts on, and signal handling may  *)
(* sleep.                                                                  *)
MaySleep ==
  pc = "work_resched" \/ (ie /\ pc \in {"syscall", "exception", "notify", "kthread"})

schedule ==
  /\ mode = "kernel" /\ MaySleep
  /\ LET ra == IF pc = "work_resched" THEN "ret_from_exception" ELSE pc
     IN  \/ \E next \in {t \in Tasks : thread[t] # NoThread} : __switch_to(next, ra)
         \/ pc' = ra /\ UNCHANGED <<thread, sp, tp>>
  /\ flags' = [flags EXCEPT ![tp] = @ \ {"NEED_RESCHED"}]
  /\ ie' = TRUE
  /\ UNCHANGED <<mode, sscratch, regs, kstack>>

(* Mutants: the child left on the parent's stack; fork() returning to it  *)
(* what it was called with.                                                *)
M_CopyThreadParentSp(child) ==
  /\ kstack' = [kstack EXCEPT ![child][1] = [PtRegs(tp) EXCEPT !.ctx.a0 = 0]]
  /\ thread' = [thread EXCEPT ![child] =
                  [ra |-> "ret_from_fork", sp |-> [task |-> tp, depth |-> 1]]]

M_CopyThreadKeepsA0(child) ==
  /\ kstack' = [kstack EXCEPT ![child][1] = PtRegs(tp)]
  /\ thread' = [thread EXCEPT ![child] =
                  [ra |-> "ret_from_fork", sp |-> [task |-> child, depth |-> 1]]]

(* copy_thread for a user task: the parent's registers with a0 = 0; for a  *)
(* kernel thread: an empty frame, supervisor, irqs on.                     *)
copy_thread_user(child) ==
  /\ kstack' = [kstack EXCEPT ![child][1] = [PtRegs(tp) EXCEPT !.ctx.a0 = 0]]
  /\ thread' = [thread EXCEPT ![child] =
                  [ra |-> "ret_from_fork", sp |-> [task |-> child, depth |-> 1]]]

copy_thread_kthread(child) ==
  /\ kstack' = [kstack EXCEPT ![child][1] =
                  [ps |-> TRUE, pie |-> TRUE, at |-> "null", ctx |-> NoCtx]]
  /\ thread' = [thread EXCEPT ![child] =
                  [ra |-> "ret_from_kernel_thread", sp |-> [task |-> child, depth |-> 1]]]

Fork ==
  /\ \E child \in Tasks :
       /\ ~Exists(child)
       /\ \/ Kernel("syscall") /\ copy_thread_user(child)
          \/ Kernel("kthread") /\ copy_thread_kthread(child)
  /\ UNCHANGED <<hartVars, flags>>

(* The first time a new task runs: schedule_tail, then the way out or the  *)
(* thread's function.                                                      *)
ret_from_fork ==
  /\ Kernel("ret_from_fork")
  /\ pc' = "ret_from_exception"
  /\ UNCHANGED <<mode, ie, sp, tp, sscratch, regs, kstack, thread, flags>>

ret_from_kernel_thread ==
  /\ Kernel("ret_from_kernel_thread")
  /\ pc' = "kthread"
  /\ UNCHANGED <<mode, ie, sp, tp, sscratch, regs, kstack, thread, flags>>

(* Mutants: the frame still says supervisor; the program starts with irqs  *)
(* off.                                                                    *)
M_StartThreadKeepsPS ==
  /\ Kernel("syscall") \/ (Kernel("kthread") /\ tp # Boot)
  /\ kstack' = [kstack EXCEPT ![tp][1].ctx = [pc |-> 0, a0 |-> 0]]
  /\ pc' = IF pc = "kthread" THEN "ret_from_exception" ELSE pc
  /\ UNCHANGED <<mode, ie, sp, tp, sscratch, regs, thread, flags>>

M_StartThreadIrqsOff ==
  /\ Kernel("syscall") \/ (Kernel("kthread") /\ tp # Boot)
  /\ kstack' = [kstack EXCEPT ![tp][1] =
                  [ps |-> FALSE, pie |-> FALSE, at |-> "user", ctx |-> [pc |-> 0, a0 |-> 0]]]
  /\ pc' = IF pc = "kthread" THEN "ret_from_exception" ELSE pc
  /\ UNCHANGED <<mode, ie, sp, tp, sscratch, regs, thread, flags>>

(* start_thread: execve of a new program, by a system call or by a kernel  *)
(* thread, whose function then returns.                                    *)
start_thread ==
  /\ Kernel("syscall") \/ (Kernel("kthread") /\ tp # Boot)
  /\ kstack' = [kstack EXCEPT ![tp][1] =
                  [ps |-> FALSE, pie |-> TRUE, at |-> "user", ctx |-> [pc |-> 0, a0 |-> 0]]]
  /\ pc' = IF pc = "kthread" THEN "ret_from_exception" ELSE pc
  /\ UNCHANGED <<mode, ie, sp, tp, sscratch, regs, thread, flags>>

(* A task ends in do_exit, from a system call or a fatal signal, and its   *)
(* stack is freed.                                                         *)
do_exit ==
  /\ Kernel("syscall") \/ Kernel("notify")
  /\ \E next \in {t \in Tasks : thread[t] # NoThread} :
       /\ thread' = [thread EXCEPT ![next] = NoThread]
       /\ pc' = thread[next].ra
       /\ sp' = thread[next].sp
       /\ tp' = next
  /\ kstack' = [kstack EXCEPT ![tp] = [d \in 1 .. MaxDepth |-> NoFrame]]
  /\ flags' = [flags EXCEPT ![tp] = {}]
  /\ ie' = TRUE
  /\ UNCHANGED <<mode, sscratch, regs>>

-----------------------------------------------------------------------------
Next ==
  \/ handle_interrupt \/ handle_other_exception \/ handle_syscall
  \/ SetWork \/ irq_exit_softirqs \/ do_IRQ_returns
  \/ exception_enables_irqs \/ exception_returns
  \/ ret_from_syscall \/ do_notify_resume
  \/ ret_from_exception \/ resume_userspace \/ work_pending \/ restore_all
  \/ UserStep
  \/ schedule \/ Fork \/ ret_from_fork \/ ret_from_kernel_thread \/ start_thread \/ do_exit

Spec == Init /\ [][Next]_vars

-----------------------------------------------------------------------------
(* entry.S:16-18, 116-117: in user mode sscratch holds the top of the      *)
(* stack of the task that runs there; in the kernel it is 0, except        *)
(* between its setting and the sret, when no trap can be taken.            *)
SscratchProtocol ==
  IF mode = "user"
  THEN sscratch = [task |-> tp, depth |-> 0]
  ELSE sscratch # NoSp => pc = "restore_all" /\ ~ie /\ ~TopFrame.ps

(* The stack in use is current's, as thread_info at its base assumes, and  *)
(* a switched-out task's saved sp is on its own stack.                     *)
StacksAreOwn ==
  /\ mode = "kernel" => sp.task = tp
  /\ \A t \in Tasks : thread[t] # NoThread => thread[t].sp.task = t

(* Where t's stack pointer is, or will be. *)
DepthOf(t) ==
  IF t # tp THEN thread[t].sp.depth ELSE IF mode = "user" THEN 0 ELSE sp.depth

(* The frames of a task are those its stack pointer covers, the outermost  *)
(* alone comes from user mode, and the kernel was interrupted where it     *)
(* can be.                                                                 *)
StackShape ==
  \A t \in Tasks : Exists(t) =>
    \A d \in 1 .. MaxDepth :
       /\ kstack[t][d] # NoFrame <=> d <= DepthOf(t)
       /\ d <= DepthOf(t) =>
            /\ ~kstack[t][d].ps <=> kstack[t][d].at = "user"
            /\ ~kstack[t][d].ps => d = 1 /\ t # Boot /\ kstack[t][d].ctx \in Ctx

(* entry.S:198, process.c:56: a program never runs with work pending, and  *)
(* runs with irqs on, whatever nested on the way.                          *)
UserModeReady == mode = "user" => flags[tp] = {} /\ ie

(* A kernel stack, and what __switch_to saved, stay as they are while      *)
(* their task is switched out.                                             *)
SleepersUntouched ==
  [][\A t \in Tasks :
       t # tp /\ thread[t] # NoThread =>
         kstack'[t] = kstack[t] /\ (thread'[t] = thread[t] \/ tp' = t)]_vars

(* The context a program has: in the registers, or in its first frame. *)
UserCtx(t) ==
  IF mode = "user" /\ t = tp THEN regs
  ELSE IF PtRegs(t) = NoFrame THEN NoCtx ELSE PtRegs(t).ctx

Programs ==
  INSTANCE AbstractTasks WITH
    ctx <- [t \in Tasks |-> UserCtx(t)],
    running <- IF mode = "user" THEN sscratch.task ELSE tp
ProgramsSpec == Programs!Spec
=============================================================================

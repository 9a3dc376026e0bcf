------------------------------- MODULE Signal --------------------------------
(***************************************************************************)
(* Signal delivery and system call restart: kernel/signal.c, with what     *)
(* kernel/entry.S does around it (handle_syscall, ret_from_syscall,        *)
(* work_pending).                                                          *)
(*                                                                         *)
(* One user task runs a loop of three instructions: load the registers of  *)
(* a system call, scall, look at the result.  Its handlers return through  *)
(* the vdso's rt_sigreturn.  The generic kernel (external) sends signals,  *)
(* dequeues them in get_signal and runs the system calls; another thread   *)
(* of the process may dequeue a signal first.                              *)
(***************************************************************************)
EXTENDS Integers, Sequences, FiniteSets

CONSTANTS
  Signals,
  Masks       \* the masks sigsuspend is called with

VARIABLES
  stage,      \* where the task is
  regs,       \* its pt_regs: sepc, a0, a7 and scause
  frames,     \* the rt_sigframes on its user stack, the innermost first
  pending, blocked,
  flag,       \* TIF_SIGPENDING
  restore,    \* TIF_RESTORE_SIGMASK
  saved,      \* saved_sigmask
  live,       \* restart_block.fn is not do_no_restart_syscall
  disp,       \* disp[s]: what the process does about s
  caught      \* history: a handler ran since the program's last call began

sigVars == <<pending, blocked, flag, restore, saved>>
vars == <<stage, regs, frames, sigVars, live, disp, caught>>

ASSUME SignalsAssumption == IsFiniteSet(Signals)
ASSUME MasksAssumption == Masks \subseteq SUBSET Signals

Load == 0
Scall == 1
After == 2
Handler == 3
Earlier == -1     \* any instruction before Load

Restarts == {"ERESTARTSYS", "ERESTARTNOINTR", "ERESTARTNOHAND", "ERESTART_RESTARTBLOCK"}

Context == [pc : Earlier .. Handler,
            a0 : Restarts \cup {"EINTR", "arg", "result", "sig"},
            a7 : {"nr", "restart_syscall"}]

(* Types.  A handler blocks its own signal, so frames nest no deeper than  *)
(* there are signals.                                                      *)
TypeOK ==
  /\ stage \in {"user", "kernel", "syscall", "sigsuspend", "exit", "notify", "dead"}
  /\ [pc |-> regs.pc, a0 |-> regs.a0, a7 |-> regs.a7] \in Context
  /\ regs.scause \in {"EXC_SYSCALL", "INTERRUPT"}
  /\ Len(frames) <= Cardinality(Signals)
  /\ \A i \in DOMAIN frames : /\ frames[i].ctx \in Context
                              /\ frames[i].mask \in SUBSET Signals
  /\ pending \in SUBSET Signals /\ blocked \in SUBSET Signals
  /\ saved \in SUBSET Signals
  /\ flag \in BOOLEAN /\ restore \in BOOLEAN
  /\ live \in BOOLEAN /\ caught \in BOOLEAN
  /\ disp \in [Signals -> {"SA_RESTART", "no_SA_RESTART", "no_handler"}]

Init ==
  /\ stage = "user"
  /\ regs = [pc |-> Load, a0 |-> "result", a7 |-> "nr", scause |-> "INTERRUPT"]
  /\ frames = <<>>
  /\ pending = {} /\ blocked = {} /\ saved = {}
  /\ flag = FALSE /\ restore = FALSE
  /\ live = FALSE /\ caught = FALSE
  /\ disp \in [Signals -> {"SA_RESTART", "no_SA_RESTART", "no_handler"}]

-----------------------------------------------------------------------------
(* The generic kernel's signal queue (external).                           *)

(* A signal is sent; an unblocked one sets the flag. *)
SendSignal(s) ==
  /\ stage # "dead" /\ s \notin pending
  /\ pending' = pending \cup {s}
  /\ flag' = (flag \/ s \notin blocked)
  /\ UNCHANGED <<stage, regs, frames, blocked, restore, saved, live, disp, caught>>

(* Another thread of the process dequeues it; the flag stays. *)
StealSignal(s) ==
  /\ stage # "dead" /\ s \in pending
  /\ pending' = pending \ {s}
  /\ UNCHANGED <<stage, regs, frames, blocked, flag, restore, saved, live, disp, caught>>

(* Mutant: the mask is not changed. *)
M_SetBlockedKeeps(mask) == blocked' = blocked /\ flag' = (pending' \ blocked # {})

(* set_current_blocked, with recalc_sigpending. *)
SetBlocked(mask) == blocked' = mask /\ flag' = (pending' \ mask # {})

-----------------------------------------------------------------------------
(* The user program (external) and the ways it enters the kernel.          *)
UserStep ==
  /\ stage = "user" /\ regs.pc \in {Earlier, Load, After}
  /\ regs' = CASE regs.pc = Load -> [regs EXCEPT !.pc = Scall, !.a0 = "arg", !.a7 = "nr"]
               [] OTHER -> [regs EXCEPT !.pc = Load]
  /\ UNCHANGED <<stage, frames, sigVars, live, disp, caught>>

Interrupt ==
  /\ stage = "user"
  /\ stage' = "kernel"
  /\ regs' = [regs EXCEPT !.scause = "INTERRUPT"]
  /\ UNCHANGED <<frames, sigVars, live, disp, caught>>

InterruptReturns ==
  /\ stage = "kernel"
  /\ stage' = "exit"
  /\ UNCHANGED <<regs, frames, sigVars, live, disp, caught>>

(* handle_syscall: sepc is advanced past the scall. *)
handle_syscall ==
  /\ stage = "user" /\ regs.pc = Scall
  /\ stage' = "syscall"
  /\ regs' = [regs EXCEPT !.pc = @ + 1, !.scause = "EXC_SYSCALL"]
  /\ caught' = (caught /\ regs.a7 # "nr")
  /\ UNCHANGED <<frames, sigVars, live, disp>>

-----------------------------------------------------------------------------
(* System calls (external), and ret_from_syscall, which stores what they   *)
(* return over the first argument.                                         *)
ret_from_syscall(a0) == stage' = "exit" /\ regs' = [regs EXCEPT !.a0 = a0]

SyscallDone ==
  /\ stage = "syscall"
  /\ ret_from_syscall(IF regs.a7 = "restart_syscall" /\ ~live THEN "EINTR" ELSE "result")
  /\ UNCHANGED <<frames, sigVars, live, disp, caught>>

(* signal_pending: the call gives up, and asks to be restarted. *)
SyscallInterrupted(e) ==
  /\ stage = "syscall" /\ flag
  /\ regs.a7 = "restart_syscall" => live /\ e = "ERESTART_RESTARTBLOCK"
  /\ ret_from_syscall(e)
  /\ live' = (live \/ e = "ERESTART_RESTARTBLOCK")
  /\ UNCHANGED <<frames, sigVars, disp, caught>>

(* sigsuspend waits under another mask ... *)
SigsuspendBegins(mask) ==
  /\ stage = "syscall" /\ regs.a7 = "nr"
  /\ stage' = "sigsuspend"
  /\ saved' = blocked
  /\ UNCHANGED pending /\ SetBlocked(mask)
  /\ UNCHANGED <<regs, frames, restore, live, disp, caught>>

(* ... and leaves its restoration to do_signal. *)
SigsuspendReturns ==
  /\ stage = "sigsuspend" /\ flag
  /\ restore' = TRUE
  /\ ret_from_syscall("ERESTARTNOHAND")
  /\ UNCHANGED <<frames, pending, blocked, flag, saved, live, disp, caught>>

-----------------------------------------------------------------------------
Ctx(r) == [pc |-> r.pc, a0 |-> r.a0, a7 |-> r.a7]

(* restore_sigcontext: sc_regs is the start of pt_regs, without scause; a  *)
(* bad frame ends in SIGSEGV.                                              *)
RestoreSigcontext ==
  \/ /\ stage' = "exit"
     /\ regs' = [x \in DOMAIN regs |-> IF x = "scause" THEN "EXC_SYSCALL"
                                                       ELSE Head(frames).ctx[x]]
     /\ UNCHANGED pending /\ SetBlocked(Head(frames).mask)
     /\ frames' = Tail(frames)
  \/ stage' = "dead" /\ UNCHANGED <<regs, frames, pending, blocked, flag>>

(* Mutant: rt_sigreturn does not disarm a restart block. *)
M_RtSigreturnKeepsRestartBlock ==
  /\ stage = "user" /\ regs.pc = Handler
  /\ RestoreSigcontext
  /\ UNCHANGED <<restore, saved, live, disp, caught>>

(* Called through the vdso when a handler returns.  What it returns is the *)
(* restored a0, which ret_from_syscall stores again.                       *)
rt_sigreturn ==
  /\ stage = "user" /\ regs.pc = Handler
  /\ live' = FALSE
  /\ RestoreSigcontext
  /\ UNCHANGED <<restore, saved, disp, caught>>

-----------------------------------------------------------------------------
(* Mutant: TIF_SIGPENDING is not in _TIF_WORK_MASK on the way out of a     *)
(* system call.                                                            *)
M_ResumeUserspaceSkipsSyscalls ==
  /\ stage = "exit"
  /\ stage' = IF flag /\ regs.scause # "EXC_SYSCALL" THEN "notify" ELSE "user"
  /\ UNCHANGED <<regs, frames, sigVars, live, disp, caught>>

(* resume_userspace: interrupts are off and the flags are checked once     *)
(* more before sret.                                                       *)
resume_userspace ==
  /\ stage = "exit"
  /\ stage' = IF flag THEN "notify" ELSE "user"
  /\ UNCHANGED <<regs, frames, sigVars, live, disp, caught>>

Deliverable == pending \ blocked

(* get_signal acts upon a signal without a handler (stops and continues,   *)
(* say) and goes on looking.                                               *)
GetSignalConsumes(s) ==
  /\ stage = "notify" /\ s \in Deliverable /\ disp[s] = "no_handler"
  /\ pending' = pending \ {s}
  /\ flag' = (pending' \ blocked # {})
  /\ UNCHANGED <<stage, regs, frames, blocked, restore, saved, live, disp, caught>>

(* sepc -= 4, as far as the program's text is modelled. *)
Back(pc) == IF pc = Earlier THEN Earlier ELSE pc - 1

(* Mutant: without a handler the call is interrupted all the same. *)
M_EintrWithoutHandler(r, handler) ==
  IF r.scause # "EXC_SYSCALL" \/ r.a0 \notin Restarts THEN r
  ELSE CASE \/ r.a0 \in {"ERESTART_RESTARTBLOCK", "ERESTARTNOHAND"}
            \/ r.a0 = "ERESTARTSYS" /\ handler = "no_SA_RESTART" ->
              [r EXCEPT !.a0 = "EINTR"]
         [] OTHER -> [r EXCEPT !.pc = Back(@)]

(* The two switches on regs->a0, of handle_signal (where handler is the    *)
(* signal's disposition) and of do_signal (where there is "none").         *)
Restarted(r, handler) ==
  IF r.scause # "EXC_SYSCALL" \/ r.a0 \notin Restarts THEN r
  ELSE CASE r.a0 = "ERESTART_RESTARTBLOCK" /\ handler = "none" ->
              [r EXCEPT !.a7 = "restart_syscall", !.pc = Back(@)]
         [] \/ r.a0 \in {"ERESTART_RESTARTBLOCK", "ERESTARTNOHAND"} /\ handler # "none"
            \/ r.a0 = "ERESTARTSYS" /\ handler = "no_SA_RESTART" ->
              [r EXCEPT !.a0 = "EINTR"]
         [] OTHER -> [r EXCEPT !.pc = Back(@)]

(* sigmask_to_save. *)
sigmask_to_save == IF restore THEN saved ELSE blocked

(* do_signal with a signal to deliver: handle_signal pushes a frame and    *)
(* signal_setup_done blocks the signal, or the frame cannot be written and *)
(* the task gets SIGSEGV.                                                  *)
handle_signal(s) ==
  LET r == Restarted(regs, disp[s])
      f == [ctx |-> Ctx(r), mask |-> sigmask_to_save]
  IN /\ stage = "notify" /\ s \in Deliverable /\ disp[s] # "no_handler"
     /\ pending' = pending \ {s}
     /\ \/ /\ stage' = "exit"
           /\ regs' = [r EXCEPT !.pc = Handler, !.a0 = "sig"]
           /\ frames' = <<f>> \o frames
           /\ restore' = FALSE
           /\ SetBlocked(blocked \cup {s})
        \/ /\ stage' = "dead"
           /\ regs' = r
           /\ UNCHANGED <<frames, restore, blocked, flag>>
     /\ caught' = TRUE
     /\ UNCHANGED <<saved, live, disp>>

(* Mutant: without a signal to deliver the saved mask is forgotten. *)
M_DoSignalKeepsMask ==
  /\ stage = "notify" /\ Deliverable = {}
  /\ stage' = "exit"
  /\ regs' = Restarted(regs, "none")
  /\ UNCHANGED pending /\ SetBlocked(blocked)
  /\ UNCHANGED <<frames, restore, saved, live, disp, caught>>

(* do_signal without one: restart, and restore_saved_sigmask. *)
do_signal ==
  /\ stage = "notify" /\ Deliverable = {}
  /\ stage' = "exit"
  /\ regs' = Restarted(regs, "none")
  /\ restore' = FALSE
  /\ UNCHANGED pending /\ SetBlocked(sigmask_to_save)
  /\ UNCHANGED <<frames, saved, live, disp, caught>>

-----------------------------------------------------------------------------
Next ==
  \/ \E s \in Signals :
        SendSignal(s) \/ StealSignal(s) \/ GetSignalConsumes(s) \/ handle_signal(s)
  \/ UserStep \/ Interrupt \/ InterruptReturns \/ handle_syscall \/ rt_sigreturn
  \/ SyscallDone \/ SigsuspendReturns
  \/ \E e \in Restarts : SyscallInterrupted(e)
  \/ \E mask \in Masks : SigsuspendBegins(mask)
  \/ resume_userspace \/ do_signal

Spec == Init /\ [][Next]_vars

-----------------------------------------------------------------------------
(* entry.S, signal.c: the kernel's internal restart codes never reach the  *)
(* program as the result of its call, although the signal that interrupted *)
(* the call may be gone when do_signal looks for it.                       *)
NoErrnoLeak == stage = "user" /\ regs.pc = After => regs.a0 \notin Restarts

(* signal.c: the mask that sigsuspend put aside is in force again when the *)
(* program's main loop runs, whether a handler was run under the temporary *)
(* mask, several nested ones, or none.                                     *)
MaskRestored ==
  /\ stage = "user" => ~restore
  /\ stage = "user" /\ frames = <<>> => blocked = {}

(* signal.c:199-213: a call whose signal had no handler is restarted; it   *)
(* fails with EINTR only when a handler ran.                               *)
EintrOnlyAfterHandler ==
  stage = "user" /\ regs.pc = After /\ regs.a0 = "EINTR" => caught

(* rt_sigreturn: "Always make any pending restarted system calls return    *)
(* -EINTR": restart_syscall never resumes a call that a handler            *)
(* interrupted.                                                            *)
NoResumeAfterHandler ==
  stage = "syscall" /\ regs.a7 = "restart_syscall" /\ live => ~caught

(* signal.c:199-201 "Restart the system call": the program executes the    *)
(* scall with the argument it loaded.                                      *)
RestartsWithItsArguments ==
  stage = "user" /\ regs.pc = Scall /\ regs.a7 = "nr" => regs.a0 = "arg"

=============================================================================

----------------------------- MODULE SignalProofs -----------------------------
(***************************************************************************)
(* Proofs about Signal for any set of signals and any masks.               *)
(*                                                                         *)
(* The invariant follows a call from the scall to the program: a restart   *)
(* code is in a0 behind the scall only while do_signal has still to look   *)
(* at it; a mask to be restored waits only on that way; the frames on the  *)
(* user stack are handlers, all but the outermost interrupted in one.      *)
(***************************************************************************)
EXTENDS Signal, SequenceTheorems, FiniteSetTheorems, TLAPS

RegsType ==
  [pc : Earlier .. Handler, a0 : Restarts \cup {"EINTR", "arg", "result", "sig"},
   a7 : {"nr", "restart_syscall"}, scause : {"EXC_SYSCALL", "INTERRUPT"}]

FrameType == [ctx : Context, mask : SUBSET Signals]

Types ==
  /\ stage \in {"user", "kernel", "syscall", "sigsuspend", "exit", "notify", "dead"}
  /\ regs \in RegsType
  /\ frames \in Seq(FrameType)
  /\ pending \in SUBSET Signals /\ blocked \in SUBSET Signals
  /\ saved \in SUBSET Signals
  /\ flag \in BOOLEAN /\ restore \in BOOLEAN
  /\ live \in BOOLEAN /\ caught \in BOOLEAN
  /\ disp \in [Signals -> {"SA_RESTART", "no_SA_RESTART", "no_handler"}]

(* On the way from a system call to do_signal. *)
ToDoSignal == (stage = "exit" /\ flag) \/ stage \in {"notify", "dead"}

InCall == stage \in {"syscall", "sigsuspend"}

(* A context whose a0 and pc a program may see. *)
Clean(ctx) == ctx.pc = After => ctx.a0 \notin Restarts

ErrnoInv ==
  /\ ~Clean(regs) => regs.scause = "EXC_SYSCALL" /\ (InCall \/ ToDoSignal)
  /\ \A i \in DOMAIN frames : Clean(frames[i].ctx)

(* Handlers: pc is in one exactly while there are frames. *)
InHandler(ctx) == ctx.pc = Handler /\ ctx.a0 = "sig"

HandlerInv ==
  /\ InCall => regs.pc = After /\ regs.scause = "EXC_SYSCALL"
  /\ IF frames = <<>> THEN regs.pc # Handler ELSE InHandler(regs) /\ caught
  /\ \A i \in DOMAIN frames :
        IF i = Len(frames) THEN frames[i].ctx.pc # Handler ELSE InHandler(frames[i].ctx)

MaskInv ==
  /\ restore => frames = <<>> /\ saved = {} /\ ToDoSignal
  /\ stage = "sigsuspend" => saved = {} /\ ~restore
  /\ frames = <<>> /\ ~restore /\ stage \notin {"sigsuspend", "dead"} => blocked = {}
  /\ frames # <<>> => frames[Len(frames)].mask = {}

(* Handlers nest: every frame saved a mask with room for the frames below  *)
(* it, since each handler runs with one more signal blocked than what it   *)
(* interrupted, and nothing but rt_sigreturn unblocks one meanwhile.       *)
NestInv ==
  /\ Len(frames) <= Cardinality(blocked)
  /\ \A i \in DOMAIN frames : Len(frames) - i <= Cardinality(frames[i].mask)

(* Of a call that is resumed by restart_syscall. *)
Resumes(ctx) == ctx.a7 = "restart_syscall" \/ ctx.a0 = "ERESTART_RESTARTBLOCK"

RestartInv ==
  /\ regs.a0 = "ERESTART_RESTARTBLOCK" /\ regs.pc # After => regs.a7 = "restart_syscall"
  /\ \A i \in DOMAIN frames :
        frames[i].ctx.a0 = "ERESTART_RESTARTBLOCK" => frames[i].ctx.a7 = "restart_syscall"
  /\ Resumes(regs) => live \/ caught
  /\ frames = <<>> /\ stage # "dead" /\ live /\ Resumes(regs) => ~caught
  /\ stage \in {"syscall", "sigsuspend"} /\ regs.a7 = "nr" => ~caught
  /\ stage = "sigsuspend" => regs.a7 = "nr"
  /\ ~InCall /\ regs.pc = After /\ regs.a0 = "EINTR" => caught

IInv == Types /\ ErrnoInv /\ HandlerInv /\ MaskInv /\ NestInv /\ RestartInv

-----------------------------------------------------------------------------
(* The places of the program, and those a step back leads to. *)
LEMMA Places ==
  /\ Earlier .. Handler = {Earlier, Load, Scall, After, Handler}
  /\ Earlier # Load /\ Earlier # Scall /\ Earlier # After /\ Earlier # Handler
  /\ Load # Scall /\ Load # After /\ Load # Handler
  /\ Scall # After /\ Scall # Handler /\ After # Handler
  /\ Scall + 1 = After
  /\ \A pc \in Earlier .. Handler :
        /\ Back(pc) \in {Earlier, Load, Scall, After}
        /\ Back(pc) = After <=> pc = Handler
  <1>1. Earlier .. Handler = {Earlier, Load, Scall, After, Handler}
    BY DEF Earlier, Load, Scall, After, Handler
  <1>2. \A pc \in {Earlier, Load, Scall, After, Handler} :
           /\ Back(pc) \in {Earlier, Load, Scall, After}
           /\ Back(pc) = After <=> pc = Handler
    BY DEF Earlier, Load, Scall, After, Handler, Back
  <1> QED BY <1>1, <1>2 DEF Earlier, Load, Scall, After, Handler

(* The user stack: handle_signal pushes a frame and rt_sigreturn pops one. *)
LEMMA Push ==
  ASSUME NEW f \in FrameType, NEW F \in Seq(FrameType)
  PROVE  LET G == <<f>> \o F
         IN /\ G \in Seq(FrameType) /\ G # <<>> /\ Len(G) = Len(F) + 1
            /\ DOMAIN G = 1 .. Len(F) + 1
            /\ G[1] = f
            /\ \A i \in 2 .. Len(F) + 1 : G[i] = F[i - 1]
  OBVIOUS

LEMMA PopFrame ==
  ASSUME NEW F \in Seq(FrameType), F # <<>>
  PROVE  /\ Tail(F) \in Seq(FrameType) /\ Head(F) = F[1] /\ F[1] \in FrameType
         /\ Len(F) \in Nat \ {0} /\ DOMAIN F = 1 .. Len(F)
         /\ Len(Tail(F)) = Len(F) - 1 /\ DOMAIN Tail(F) = 1 .. Len(F) - 1
         /\ \A i \in 1 .. Len(F) - 1 : Tail(F)[i] = F[i + 1]
         /\ Tail(F) = <<>> <=> Len(F) = 1
  <1>1. Len(F) \in Nat \ {0} /\ DOMAIN F = 1 .. Len(F) /\ Head(F) = F[1] /\ F[1] \in FrameType
    OBVIOUS
  <1>2. Tail(F) \in Seq(FrameType) /\ Len(Tail(F)) = Len(F) - 1
    BY <1>1
  <1>3. DOMAIN Tail(F) = 1 .. Len(F) - 1 /\ \A i \in 1 .. Len(F) - 1 : Tail(F)[i] = F[i + 1]
    BY <1>1, <1>2
  <1>4. Tail(F) = <<>> <=> Len(F) = 1
    BY <1>1, <1>2, EmptySeq
  <1> QED BY <1>1, <1>2, <1>3, <1>4

LEMMA InitIInv == Init => IInv
  <1> SUFFICES ASSUME Init PROVE IInv
    OBVIOUS
  <1>1. Types
    <2>1. regs \in RegsType BY Places DEF Init, RegsType
    <2>2. frames \in Seq(FrameType) BY EmptySeq DEF Init
    <2> QED BY <2>1, <2>2 DEF Init, Types
  <1>2. Len(frames) = 0 /\ DOMAIN frames = {}
    BY DEF Init
  <1>3. Cardinality(blocked) = 0
    BY FS_EmptySet DEF Init
  <1> QED BY <1>1, <1>2, <1>3, Places DEF Init, IInv, ErrnoInv, HandlerInv, MaskInv,
     RestartInv, NestInv, Clean,
              InCall, ToDoSignal, Resumes, Restarts

(* The two switches keep types, pc and a0 within what is expected. *)
LEMMA RestartedTyped ==
  ASSUME Types, NEW handler
  PROVE  Restarted(regs, handler) \in
           RegsType
  <1> DEFINE R == RegsType
  <1> USE DEF RegsType
  <1>1. regs \in R BY DEF Types
  <1>2. Back(regs.pc) \in Earlier .. Handler
    BY <1>1, Places
  <1>3. /\ [regs EXCEPT !.a7 = "restart_syscall", !.pc = Back(@)] \in R
        /\ [regs EXCEPT !.a0 = "EINTR"] \in R
        /\ [regs EXCEPT !.pc = Back(@)] \in R
    BY <1>1, <1>2
  <1> QED BY <1>1, <1>3 DEF Restarted

LEMMA StepTypes == Types /\ HandlerInv /\ [Next]_vars => Types'
  <1> SUFFICES ASSUME Types, HandlerInv, [Next]_vars PROVE Types'
    OBVIOUS
  <1> USE DEF Types, RegsType
  <1>1. CASE UNCHANGED vars BY <1>1 DEF vars, sigVars
  <1>2. ASSUME NEW s \in Signals, SendSignal(s) PROVE Types' BY <1>2 DEF SendSignal
  <1>3. ASSUME NEW s \in Signals, StealSignal(s) PROVE Types' BY <1>3 DEF StealSignal
  <1>4. ASSUME NEW s \in Signals, GetSignalConsumes(s) PROVE Types'
    BY <1>4 DEF GetSignalConsumes
  <1>5. ASSUME NEW s \in Signals, handle_signal(s) PROVE Types'
    <2> DEFINE r == Restarted(regs, disp[s])
               f == [ctx |-> Ctx(r), mask |-> sigmask_to_save]
    <2>1. r \in RegsType
      BY RestartedTyped
    <2>2. [r EXCEPT !.pc = Handler, !.a0 = "sig"] \in
            RegsType
      BY <2>1, Places
    <2>3. f \in FrameType BY <2>1 DEF Ctx, Context, FrameType, sigmask_to_save
    <2>4. <<f>> \o frames \in Seq(FrameType) BY <2>3, Push
    <2> QED BY <1>5, <2>1, <2>2, <2>4 DEF handle_signal, SetBlocked
  <1>6. CASE UserStep
    <2>1. regs' \in RegsType
      BY <1>6, Places DEF UserStep
    <2> QED BY <1>6, <2>1 DEF UserStep, sigVars
  <1>7. CASE Interrupt BY <1>7 DEF Interrupt, sigVars
  <1>8. CASE InterruptReturns BY <1>8 DEF InterruptReturns, sigVars
  <1>9. CASE handle_syscall
    BY <1>9, Places DEF handle_syscall, sigVars
  <1>10. CASE rt_sigreturn
    <2>1. ASSUME stage' = "exit", frames # <<>>,
                 regs' = [x \in DOMAIN regs |-> IF x = "scause" THEN "EXC_SYSCALL"
                                                ELSE Head(frames).ctx[x]],
                 pending' = pending, SetBlocked(Head(frames).mask), frames' = Tail(frames)
          PROVE  Types'
      <3>1. Head(frames) \in FrameType /\ Tail(frames) \in Seq(FrameType) BY <2>1, PopFrame
      <3>2. regs' \in RegsType
        BY <2>1, <3>1 DEF Context, FrameType
      <3> QED BY <1>10, <2>1, <3>1, <3>2 DEF rt_sigreturn, SetBlocked, FrameType
    <2>2. frames # <<>> BY <1>10 DEF rt_sigreturn, HandlerInv
    <2> QED BY <1>10, <2>1, <2>2 DEF rt_sigreturn, RestoreSigcontext
  <1>11. CASE SyscallDone BY <1>11 DEF SyscallDone, ret_from_syscall, sigVars
  <1>12. CASE SigsuspendReturns
    BY <1>12 DEF SigsuspendReturns, ret_from_syscall, Restarts
  <1>13. ASSUME NEW e \in Restarts, SyscallInterrupted(e) PROVE Types'
    BY <1>13 DEF SyscallInterrupted, ret_from_syscall, sigVars
  <1>14. ASSUME NEW mask \in Masks, SigsuspendBegins(mask) PROVE Types'
    BY <1>14, MasksAssumption DEF SigsuspendBegins, SetBlocked
  <1>15. CASE resume_userspace BY <1>15 DEF resume_userspace, sigVars
  <1>16. CASE do_signal
    BY <1>16, RestartedTyped DEF do_signal, SetBlocked, sigmask_to_save
  <1> QED
    BY <1>1, <1>2, <1>3, <1>4, <1>5, <1>6, <1>7, <1>8, <1>9, <1>10, <1>11, <1>12,
       <1>13, <1>14,
       <1>15, <1>16 DEF Next

(* What r is, of a context that do_signal and handle_signal have switched  *)
(* on: regs itself, a call that is resumed, failed, or repeated.           *)
LEMMA RestartedCases ==
  ASSUME Types, NEW handler \in {"none", "SA_RESTART", "no_SA_RESTART"}
  PROVE  LET r == Restarted(regs, handler)
         IN \/ r = regs /\ (regs.scause = "INTERRUPT" \/ regs.a0 \notin Restarts)
            \/ /\ regs.scause = "EXC_SYSCALL" /\ regs.a0 \in Restarts
               /\ \/ /\ r = [regs EXCEPT !.a7 = "restart_syscall", !.pc = Back(@)]
                     /\ regs.a0 = "ERESTART_RESTARTBLOCK" /\ handler = "none"
                  \/ r = [regs EXCEPT !.a0 = "EINTR"] /\ handler # "none"
                  \/ /\ r = [regs EXCEPT !.pc = Back(@)]
                     /\ regs.a0 # "ERESTART_RESTARTBLOCK"
  <1>1. regs.scause \in {"EXC_SYSCALL", "INTERRUPT"}
    BY DEF Types, RegsType
  <1>2. CASE regs.scause # "EXC_SYSCALL" \/ regs.a0 \notin Restarts
    <2>1. Restarted(regs, handler) = regs
      BY <1>2, Zenon DEF Restarted
    <2> QED BY <1>1, <1>2, <2>1
  <1>3. CASE regs.scause = "EXC_SYSCALL" /\ regs.a0 \in Restarts
    <2>1. CASE handler = "none" /\ regs.a0 = "ERESTART_RESTARTBLOCK"
      BY <1>3, <2>1, Zenon DEF Restarted
    <2>2. CASE handler = "none" /\ regs.a0 # "ERESTART_RESTARTBLOCK"
      BY <1>3, <2>2 DEF Restarted, Restarts
    <2>3. CASE handler # "none"
      BY <1>3, <2>3 DEF Restarted, Restarts
    <2> QED BY <2>1, <2>2, <2>3
  <1> QED BY <1>2, <1>3

(* What handle_signal and rt_sigreturn do to the stack, frame by frame. *)
Pushed(f) ==
  /\ frames' # <<>> /\ Len(frames') = Len(frames) + 1
  /\ DOMAIN frames' = 1 .. Len(frames) + 1 /\ frames'[1] = f
  /\ \A i \in 2 .. Len(frames) + 1 : frames'[i] = frames[i - 1]

Popped ==
  /\ Len(frames') = Len(frames) - 1 /\ DOMAIN frames' = 1 .. Len(frames) - 1
  /\ \A i \in 1 .. Len(frames) - 1 : frames'[i] = frames[i + 1]
  /\ frames' = <<>> <=> Len(frames) = 1

LEMMA Stack ==
  ASSUME Types
  PROVE  /\ Len(frames) \in Nat /\ DOMAIN frames = 1 .. Len(frames)
         /\ frames = <<>> <=> Len(frames) = 0
  BY EmptySeq DEF Types

(* The effects of the three actions that look at the signals. *)
LEMMA DoSignalEffect ==
  ASSUME Types, HandlerInv, do_signal
  PROVE  /\ stage = "notify" /\ stage' = "exit"
         /\ \/ regs' = regs /\ (regs.scause = "INTERRUPT" \/ regs.a0 \notin Restarts)
            \/ /\ frames = <<>>
               /\ regs'.pc \in {Earlier, Load, Scall} /\ regs'.a0 = regs.a0
               /\ \/ regs'.a7 = regs.a7 /\ regs.a0 # "ERESTART_RESTARTBLOCK"
                  \/ regs'.a7 = "restart_syscall" /\ regs.a0 = "ERESTART_RESTARTBLOCK"
         /\ restore' = FALSE /\ blocked' = sigmask_to_save
         /\ UNCHANGED <<frames, saved, live, caught>>
  <1> DEFINE r == Restarted(regs, "none")
  <1>1. regs' = r /\ stage = "notify" /\ stage' = "exit" /\ restore' = FALSE
        /\ blocked' = sigmask_to_save /\ UNCHANGED <<frames, saved, live, caught>>
    BY DEF do_signal, SetBlocked
  <1>2. \/ r = regs /\ (regs.scause = "INTERRUPT" \/ regs.a0 \notin Restarts)
        \/ /\ regs.a0 \in Restarts
           /\ \/ /\ r = [regs EXCEPT !.a7 = "restart_syscall", !.pc = Back(@)]
                 /\ regs.a0 = "ERESTART_RESTARTBLOCK"
              \/ /\ r = [regs EXCEPT !.pc = Back(@)]
                 /\ regs.a0 # "ERESTART_RESTARTBLOCK"
    BY RestartedCases
  <1> HIDE DEF r
  <1>3. regs.a0 \in Restarts => frames = <<>> /\ regs.pc # Handler
    BY DEF HandlerInv, InHandler, Restarts
  <1>4. regs.a0 \in Restarts => Back(regs.pc) \in {Earlier, Load, Scall}
    BY <1>3, Places DEF Types, RegsType
  <1> QED BY <1>1, <1>2, <1>3, <1>4 DEF Types, RegsType

LEMMA HandleSignalEffect ==
  ASSUME Types, HandlerInv, NEW s \in Signals, handle_signal(s)
  PROVE  \E r \in RegsType, f \in FrameType :
           /\ \/ r = regs /\ (regs.scause = "INTERRUPT" \/ regs.a0 \notin Restarts)
              \/ /\ frames = <<>> /\ r.a7 = regs.a7 /\ r.pc # Handler
                 /\ \/ r.a0 = "EINTR"
                    \/ r.a0 = regs.a0 /\ r.pc # After /\ r.a0 # "ERESTART_RESTARTBLOCK"
           /\ f.ctx = Ctx(r) /\ f.mask = sigmask_to_save
           /\ stage = "notify" /\ caught' = TRUE /\ UNCHANGED <<saved, live>>
           /\ \/ /\ stage' = "exit" /\ regs' \in RegsType
                 /\ regs'.pc = Handler /\ regs'.a0 = "sig" /\ regs'.a7 = r.a7
                 /\ Pushed(f) /\ restore' = FALSE
              \/ stage' = "dead" /\ regs' = r /\ UNCHANGED <<frames, restore, blocked>>
  <1> DEFINE r == Restarted(regs, disp[s])
             f == [ctx |-> Ctx(r), mask |-> sigmask_to_save]
  <1>1. disp[s] \in {"SA_RESTART", "no_SA_RESTART"}
    BY DEF handle_signal, Types
  <1>2. r \in RegsType
    BY RestartedTyped
  <1>3. \/ r = regs /\ (regs.scause = "INTERRUPT" \/ regs.a0 \notin Restarts)
        \/ /\ regs.a0 \in Restarts
           /\ \/ r = [regs EXCEPT !.a0 = "EINTR"]
              \/ r = [regs EXCEPT !.pc = Back(@)] /\ regs.a0 # "ERESTART_RESTARTBLOCK"
    BY <1>1, RestartedCases
  <1>4. /\ stage = "notify" /\ caught' = TRUE /\ UNCHANGED <<saved, live>>
        /\ \/ /\ stage' = "exit" /\ regs' = [r EXCEPT !.pc = Handler, !.a0 = "sig"]
              /\ frames' = <<f>> \o frames /\ restore' = FALSE
           \/ stage' = "dead" /\ regs' = r /\ UNCHANGED <<frames, restore, blocked>>
    BY DEF handle_signal
  <1> HIDE DEF r
  <1>5. f \in FrameType /\ f.ctx = Ctx(r) /\ f.mask = sigmask_to_save
    BY <1>2 DEF Ctx, Context, FrameType, RegsType, sigmask_to_save, Types
  <1>6. regs.a0 \in Restarts => frames = <<>> /\ regs.pc # Handler
    BY DEF HandlerInv, InHandler, Restarts
  <1>7. regs.a0 \in Restarts => Back(regs.pc) \in {Earlier, Load, Scall}
    BY <1>6, Places DEF Types, RegsType
  <1>8. \/ r = regs /\ (regs.scause = "INTERRUPT" \/ regs.a0 \notin Restarts)
        \/ /\ frames = <<>> /\ r.a7 = regs.a7 /\ r.pc # Handler
           /\ \/ r.a0 = "EINTR"
              \/ r.a0 = regs.a0 /\ r.pc # After /\ r.a0 # "ERESTART_RESTARTBLOCK"
    BY <1>3, <1>6, <1>7, Places DEF Types, RegsType
  <1>9. LET q == [r EXCEPT !.pc = Handler, !.a0 = "sig"]
        IN q \in RegsType /\ q.pc = Handler /\ q.a0 = "sig" /\ q.a7 = r.a7
    BY <1>2, Places DEF RegsType
  <1> HIDE DEF f
  <1>10. frames' = <<f>> \o frames => Pushed(f)
    BY <1>5, Push DEF Types, Pushed
  <1> QED BY <1>2, <1>4, <1>5, <1>8, <1>9, <1>10

LEMMA RtSigreturnEffect ==
  ASSUME Types, HandlerInv, rt_sigreturn
  PROVE  /\ frames # <<>> /\ stage = "user"
         /\ live' = FALSE /\ UNCHANGED <<restore, saved, caught>>
         /\ \/ /\ stage' = "exit" /\ Popped
               /\ regs' \in RegsType /\ regs'.scause = "EXC_SYSCALL"
               /\ frames[1] \in FrameType
               /\ regs'.pc = frames[1].ctx.pc /\ regs'.a0 = frames[1].ctx.a0
               /\ regs'.a7 = frames[1].ctx.a7 /\ blocked' = frames[1].mask
            \/ stage' = "dead" /\ UNCHANGED <<regs, frames, blocked>>
  <1>1. frames # <<>> /\ stage = "user" /\ live' = FALSE /\ UNCHANGED <<restore, saved, caught>>
    BY DEF rt_sigreturn, HandlerInv
  <1>2. CASE stage' = "dead"
    BY <1>1, <1>2 DEF rt_sigreturn, RestoreSigcontext
  <1>3. CASE stage' # "dead"
    <2> DEFINE h == Head(frames)
    <2>1. h = frames[1] /\ h \in FrameType
      BY <1>1, PopFrame DEF Types
    <2>2. /\ stage' = "exit" /\ frames' = Tail(frames) /\ blocked' = h.mask
          /\ regs' = [x \in DOMAIN regs |-> IF x = "scause" THEN "EXC_SYSCALL" ELSE h.ctx[x]]
      BY <1>3 DEF rt_sigreturn, RestoreSigcontext, SetBlocked
    <2> HIDE DEF h
    <2>3. /\ regs' \in RegsType /\ regs'.scause = "EXC_SYSCALL"
          /\ regs'.pc = h.ctx.pc /\ regs'.a0 = h.ctx.a0 /\ regs'.a7 = h.ctx.a7
      BY <2>1, <2>2 DEF Types, RegsType, FrameType, Context
    <2>4. Popped
      BY <1>1, <2>2, PopFrame DEF Types, Popped
    <2> QED BY <1>1, <2>1, <2>2, <2>3, <2>4
  <1> QED BY <1>2, <1>3

(* A restart code shows only until do_signal has looked at it. *)
LEMMA StepErrnoInv == Types /\ HandlerInv /\ ErrnoInv /\ [Next]_vars => ErrnoInv'
  <1> SUFFICES ASSUME Types /\ HandlerInv /\ ErrnoInv, [Next]_vars PROVE ErrnoInv'
    OBVIOUS
  <1>1. CASE UNCHANGED vars
    BY <1>1 DEF Types, RegsType, vars, sigVars, ErrnoInv, HandlerInv, InHandler,
       Clean, InCall, ToDoSignal, Restarts
  <1>2. ASSUME NEW s \in Signals, SendSignal(s) PROVE ErrnoInv'
    BY <1>2, Places DEF Types, RegsType, SendSignal,
          ErrnoInv, HandlerInv, InHandler, Clean, InCall, ToDoSignal, Restarts
  <1>3. ASSUME NEW s \in Signals, StealSignal(s) PROVE ErrnoInv'
    BY <1>3, Places DEF Types, RegsType, StealSignal,
          ErrnoInv, HandlerInv, InHandler, Clean, InCall, ToDoSignal, Restarts
  <1>4. ASSUME NEW s \in Signals, GetSignalConsumes(s) PROVE ErrnoInv'
    BY <1>4, Places DEF Types, RegsType, GetSignalConsumes,
          ErrnoInv, HandlerInv, InHandler, Clean, InCall, ToDoSignal, Restarts
  <1>5. ASSUME NEW s \in Signals, handle_signal(s) PROVE ErrnoInv'
    <2>1. PICK r \in RegsType, f \in FrameType :
            /\ \/ r = regs /\ (regs.scause = "INTERRUPT" \/ regs.a0 \notin Restarts)
               \/ /\ frames = <<>> /\ r.a7 = regs.a7 /\ r.pc # Handler
                  /\ \/ r.a0 = "EINTR"
                     \/ r.a0 = regs.a0 /\ r.pc # After /\ r.a0 # "ERESTART_RESTARTBLOCK"
            /\ f.ctx = Ctx(r) /\ f.mask = sigmask_to_save
            /\ stage = "notify" /\ caught' = TRUE /\ UNCHANGED <<saved, live>>
            /\ \/ /\ stage' = "exit" /\ regs' \in RegsType
                  /\ regs'.pc = Handler /\ regs'.a0 = "sig" /\ regs'.a7 = r.a7
                  /\ Pushed(f) /\ restore' = FALSE
               \/ stage' = "dead" /\ regs' = r /\ UNCHANGED <<frames, restore, blocked>>
      BY <1>5, HandleSignalEffect
    <2>2. Len(frames) \in Nat /\ DOMAIN frames = 1 .. Len(frames)
          /\ (frames = <<>> <=> Len(frames) = 0)
      BY Stack
    <2>3. f.ctx.pc = r.pc /\ f.ctx.a0 = r.a0 /\ f.ctx.a7 = r.a7
      BY <2>1 DEF Ctx
    <2>8. CASE stage' = "dead"
      BY <2>1, <2>2, <2>8 DEF ErrnoInv, HandlerInv, InHandler, Clean, InCall,
         ToDoSignal, Restarts
    <2>9. CASE stage' = "exit"
      <3> USE <2>1, <2>2, <2>9
      <3>1. Clean(regs)'
        BY Places DEF Clean
      <3>2. Clean(f.ctx)
        BY <2>3, Places DEF Clean, ErrnoInv, Restarts, Types, RegsType
      <3>3. \A i \in DOMAIN frames' : Clean(frames'[i].ctx)
        BY <3>2 DEF ErrnoInv, Pushed
      <3> QED BY <3>1, <3>2, <3>3 DEF ErrnoInv
    <2> QED BY <2>1, <2>8, <2>9
  <1>6. CASE UserStep
    BY <1>6, Places DEF Types, RegsType, UserStep, sigVars,
          ErrnoInv, HandlerInv, InHandler, Clean, InCall, ToDoSignal, Restarts
  <1>7. CASE Interrupt
    BY <1>7, Places DEF Types, RegsType, Interrupt, sigVars,
          ErrnoInv, HandlerInv, InHandler, Clean, InCall, ToDoSignal, Restarts
  <1>8. CASE InterruptReturns
    BY <1>8, Places DEF Types, RegsType, InterruptReturns, sigVars,
          ErrnoInv, HandlerInv, InHandler, Clean, InCall, ToDoSignal, Restarts
  <1>9. CASE handle_syscall
    BY <1>9, Places DEF Types, RegsType, handle_syscall, sigVars,
          ErrnoInv, HandlerInv, InHandler, Clean, InCall, ToDoSignal, Restarts
  <1>10. CASE rt_sigreturn
    <2>1. /\ frames # <<>> /\ stage = "user"
          /\ live' = FALSE /\ UNCHANGED <<restore, saved, caught>>
          /\ \/ /\ stage' = "exit" /\ Popped
                /\ regs' \in RegsType /\ regs'.scause = "EXC_SYSCALL"
                /\ frames[1] \in FrameType
                /\ regs'.pc = frames[1].ctx.pc /\ regs'.a0 = frames[1].ctx.a0
                /\ regs'.a7 = frames[1].ctx.a7 /\ blocked' = frames[1].mask
             \/ stage' = "dead" /\ UNCHANGED <<regs, frames, blocked>>
      BY <1>10, RtSigreturnEffect
    <2>2. Len(frames) \in Nat \ {0} /\ DOMAIN frames = 1 .. Len(frames)
      BY <2>1, Stack
    <2>8. CASE stage' = "dead"
      BY <2>1, <2>2, <2>8 DEF ErrnoInv, HandlerInv, InHandler, Clean, InCall,
         ToDoSignal, Restarts
    <2>9. CASE stage' = "exit"
      <3> USE <2>1, <2>2, <2>9
      <3>1. Clean(regs)'
        BY DEF Clean, ErrnoInv
      <3>2. \A i \in DOMAIN frames' : Clean(frames'[i].ctx)
        BY DEF ErrnoInv, Clean, Popped
      <3> QED BY <3>1, <3>2 DEF ErrnoInv
    <2> QED BY <2>1, <2>8, <2>9
  <1>11. CASE SyscallDone
    BY <1>11, Places DEF Types, RegsType, SyscallDone, ret_from_syscall, sigVars,
          ErrnoInv, HandlerInv, InHandler, Clean, InCall, ToDoSignal, Restarts
  <1>12. CASE SigsuspendReturns
    BY <1>12, Places DEF Types, RegsType, SigsuspendReturns, ret_from_syscall,
          ErrnoInv, HandlerInv, InHandler, Clean, InCall, ToDoSignal, Restarts
  <1>13. ASSUME NEW e \in Restarts, SyscallInterrupted(e) PROVE ErrnoInv'
    BY <1>13, Places DEF Types, RegsType, SyscallInterrupted, ret_from_syscall,
       sigVars,
          ErrnoInv, HandlerInv, InHandler, Clean, InCall, ToDoSignal, Restarts
  <1>14. ASSUME NEW mask \in Masks, SigsuspendBegins(mask) PROVE ErrnoInv'
    BY <1>14, Places DEF Types, RegsType, SigsuspendBegins, SetBlocked,
          ErrnoInv, HandlerInv, InHandler, Clean, InCall, ToDoSignal, Restarts
  <1>15. CASE resume_userspace
    BY <1>15, Places DEF Types, RegsType, resume_userspace, sigVars,
          ErrnoInv, HandlerInv, InHandler, Clean, InCall, ToDoSignal, Restarts
  <1>16. CASE do_signal
    <2>1. /\ stage = "notify" /\ stage' = "exit"
          /\ \/ regs' = regs /\ (regs.scause = "INTERRUPT" \/ regs.a0 \notin Restarts)
             \/ /\ frames = <<>>
                /\ regs'.pc \in {Earlier, Load, Scall} /\ regs'.a0 = regs.a0
                /\ \/ regs'.a7 = regs.a7 /\ regs.a0 # "ERESTART_RESTARTBLOCK"
                   \/ regs'.a7 = "restart_syscall" /\ regs.a0 = "ERESTART_RESTARTBLOCK"
          /\ restore' = FALSE /\ blocked' = sigmask_to_save
          /\ UNCHANGED <<frames, saved, live, caught>>
      BY <1>16, DoSignalEffect
    <2> QED BY <2>1, Places DEF ErrnoInv, HandlerInv, InHandler, Clean, InCall,
       ToDoSignal, Restarts
  <1> QED
    BY <1>1, <1>2, <1>3, <1>4, <1>5, <1>6, <1>7, <1>8,
       <1>9, <1>10, <1>11, <1>12, <1>13, <1>14, <1>15, <1>16 DEF Next

(* Frames and handlers correspond. *)
LEMMA StepHandlerInv == Types /\ HandlerInv /\ [Next]_vars => HandlerInv'
  <1> SUFFICES ASSUME Types /\ HandlerInv, [Next]_vars PROVE HandlerInv'
    OBVIOUS
  <1>1. CASE UNCHANGED vars
    BY <1>1 DEF Types, RegsType, vars, sigVars, HandlerInv, InHandler, InCall,
       Restarts
  <1>2. ASSUME NEW s \in Signals, SendSignal(s) PROVE HandlerInv'
    BY <1>2, Places DEF Types, RegsType, SendSignal,
          HandlerInv, InHandler, InCall, Restarts
  <1>3. ASSUME NEW s \in Signals, StealSignal(s) PROVE HandlerInv'
    BY <1>3, Places DEF Types, RegsType, StealSignal,
          HandlerInv, InHandler, InCall, Restarts
  <1>4. ASSUME NEW s \in Signals, GetSignalConsumes(s) PROVE HandlerInv'
    BY <1>4, Places DEF Types, RegsType, GetSignalConsumes,
          HandlerInv, InHandler, InCall, Restarts
  <1>5. ASSUME NEW s \in Signals, handle_signal(s) PROVE HandlerInv'
    <2>1. PICK r \in RegsType, f \in FrameType :
            /\ \/ r = regs /\ (regs.scause = "INTERRUPT" \/ regs.a0 \notin Restarts)
               \/ /\ frames = <<>> /\ r.a7 = regs.a7 /\ r.pc # Handler
                  /\ \/ r.a0 = "EINTR"
                     \/ r.a0 = regs.a0 /\ r.pc # After /\ r.a0 # "ERESTART_RESTARTBLOCK"
            /\ f.ctx = Ctx(r) /\ f.mask = sigmask_to_save
            /\ stage = "notify" /\ caught' = TRUE /\ UNCHANGED <<saved, live>>
            /\ \/ /\ stage' = "exit" /\ regs' \in RegsType
                  /\ regs'.pc = Handler /\ regs'.a0 = "sig" /\ regs'.a7 = r.a7
                  /\ Pushed(f) /\ restore' = FALSE
               \/ stage' = "dead" /\ regs' = r /\ UNCHANGED <<frames, restore, blocked>>
      BY <1>5, HandleSignalEffect
    <2>2. Len(frames) \in Nat /\ DOMAIN frames = 1 .. Len(frames)
          /\ (frames = <<>> <=> Len(frames) = 0)
      BY Stack
    <2>3. f.ctx.pc = r.pc /\ f.ctx.a0 = r.a0 /\ f.ctx.a7 = r.a7
      BY <2>1 DEF Ctx
    <2>8. CASE stage' = "dead"
      BY <2>1, <2>2, <2>8 DEF HandlerInv, InHandler, InCall, Restarts
    <2>9. CASE stage' = "exit"
      <3> USE <2>1, <2>2, <2>9
      <3>1. ~InCall'
        BY DEF InCall
      <3>2. frames' # <<>> /\ InHandler(regs') /\ caught'
        BY DEF InHandler, Pushed
      <3>3. IF frames = <<>> THEN f.ctx.pc # Handler ELSE InHandler(f.ctx)
        BY <2>3 DEF HandlerInv, InHandler
      <3>4. \A i \in DOMAIN frames' :
              IF i = Len(frames') THEN frames'[i].ctx.pc # Handler ELSE InHandler(frames'[i].ctx)
        BY <3>3 DEF HandlerInv, Pushed
      <3> QED BY <3>1, <3>2, <3>3, <3>4 DEF HandlerInv
    <2> QED BY <2>1, <2>8, <2>9
  <1>6. CASE UserStep
    BY <1>6, Places DEF Types, RegsType, UserStep, sigVars,
          HandlerInv, InHandler, InCall, Restarts
  <1>7. CASE Interrupt
    BY <1>7, Places DEF Types, RegsType, Interrupt, sigVars,
          HandlerInv, InHandler, InCall, Restarts
  <1>8. CASE InterruptReturns
    BY <1>8, Places DEF Types, RegsType, InterruptReturns, sigVars,
          HandlerInv, InHandler, InCall, Restarts
  <1>9. CASE handle_syscall
    BY <1>9, Places DEF Types, RegsType, handle_syscall, sigVars,
          HandlerInv, InHandler, InCall, Restarts
  <1>10. CASE rt_sigreturn
    <2>1. /\ frames # <<>> /\ stage = "user"
          /\ live' = FALSE /\ UNCHANGED <<restore, saved, caught>>
          /\ \/ /\ stage' = "exit" /\ Popped
                /\ regs' \in RegsType /\ regs'.scause = "EXC_SYSCALL"
                /\ frames[1] \in FrameType
                /\ regs'.pc = frames[1].ctx.pc /\ regs'.a0 = frames[1].ctx.a0
                /\ regs'.a7 = frames[1].ctx.a7 /\ blocked' = frames[1].mask
             \/ stage' = "dead" /\ UNCHANGED <<regs, frames, blocked>>
      BY <1>10, RtSigreturnEffect
    <2>2. Len(frames) \in Nat \ {0} /\ DOMAIN frames = 1 .. Len(frames)
      BY <2>1, Stack
    <2>8. CASE stage' = "dead"
      BY <2>1, <2>2, <2>8 DEF HandlerInv, InHandler, InCall, Restarts
    <2>9. CASE stage' = "exit"
      <3> USE <2>1, <2>2, <2>9
      <3>1. ~InCall'
        BY DEF InCall
      <3>2. IF frames' = <<>> THEN regs'.pc # Handler ELSE InHandler(regs') /\ caught'
        BY DEF HandlerInv, InHandler, Popped
      <3>3. \A i \in DOMAIN frames' :
              IF i = Len(frames') THEN frames'[i].ctx.pc # Handler ELSE InHandler(frames'[i].ctx)
        <4>1. /\ Len(frames') = Len(frames) - 1 /\ DOMAIN frames' = 1 .. Len(frames) - 1
              /\ \A i \in 1 .. Len(frames) - 1 : frames'[i] = frames[i + 1]
          BY DEF Popped
        <4>2. \A i \in 1 .. Len(frames) :
                IF i = Len(frames) THEN frames[i].ctx.pc # Handler ELSE InHandler(frames[i].ctx)
          BY DEF HandlerInv
        <4> TAKE i \in DOMAIN frames'
        <4>3. i \in 1 .. Len(frames) - 1 /\ i + 1 \in 1 .. Len(frames)
              /\ (i = Len(frames') <=> i + 1 = Len(frames))
          BY <4>1
        <4> QED BY <4>1, <4>2, <4>3
      <3> QED BY <3>1, <3>2, <3>3 DEF HandlerInv
    <2> QED BY <2>1, <2>8, <2>9
  <1>11. CASE SyscallDone
    BY <1>11, Places DEF Types, RegsType, SyscallDone, ret_from_syscall, sigVars,
          HandlerInv, InHandler, InCall, Restarts
  <1>12. CASE SigsuspendReturns
    BY <1>12, Places DEF Types, RegsType, SigsuspendReturns, ret_from_syscall,
          HandlerInv, InHandler, InCall, Restarts
  <1>13. ASSUME NEW e \in Restarts, SyscallInterrupted(e) PROVE HandlerInv'
    BY <1>13, Places DEF Types, RegsType, SyscallInterrupted, ret_from_syscall,
       sigVars,
          HandlerInv, InHandler, InCall, Restarts
  <1>14. ASSUME NEW mask \in Masks, SigsuspendBegins(mask) PROVE HandlerInv'
    BY <1>14, Places DEF Types, RegsType, SigsuspendBegins, SetBlocked,
          HandlerInv, InHandler, InCall, Restarts
  <1>15. CASE resume_userspace
    BY <1>15, Places DEF Types, RegsType, resume_userspace, sigVars,
          HandlerInv, InHandler, InCall, Restarts
  <1>16. CASE do_signal
    <2>1. /\ stage = "notify" /\ stage' = "exit"
          /\ \/ regs' = regs /\ (regs.scause = "INTERRUPT" \/ regs.a0 \notin Restarts)
             \/ /\ frames = <<>>
                /\ regs'.pc \in {Earlier, Load, Scall} /\ regs'.a0 = regs.a0
                /\ \/ regs'.a7 = regs.a7 /\ regs.a0 # "ERESTART_RESTARTBLOCK"
                   \/ regs'.a7 = "restart_syscall" /\ regs.a0 = "ERESTART_RESTARTBLOCK"
          /\ restore' = FALSE /\ blocked' = sigmask_to_save
          /\ UNCHANGED <<frames, saved, live, caught>>
      BY <1>16, DoSignalEffect
    <2> QED BY <2>1, Places DEF HandlerInv, InHandler, InCall, Restarts
  <1> QED
    BY <1>1, <1>2, <1>3, <1>4, <1>5, <1>6, <1>7, <1>8,
       <1>9, <1>10, <1>11, <1>12, <1>13, <1>14, <1>15, <1>16 DEF Next

(* The mask put aside comes back. *)
LEMMA StepMaskInv == Types /\ HandlerInv /\ MaskInv /\ [Next]_vars => MaskInv'
  <1> SUFFICES ASSUME Types /\ HandlerInv /\ MaskInv, [Next]_vars PROVE MaskInv'
    OBVIOUS
  <1>1. CASE UNCHANGED vars
    BY <1>1 DEF Types, RegsType, vars, sigVars, MaskInv, HandlerInv, InHandler,
       InCall, ToDoSignal, sigmask_to_save
  <1>2. ASSUME NEW s \in Signals, SendSignal(s) PROVE MaskInv'
    BY <1>2, Places DEF Types, RegsType, SendSignal,
          MaskInv, HandlerInv, InHandler, InCall, ToDoSignal, sigmask_to_save
  <1>3. ASSUME NEW s \in Signals, StealSignal(s) PROVE MaskInv'
    BY <1>3, Places DEF Types, RegsType, StealSignal,
          MaskInv, HandlerInv, InHandler, InCall, ToDoSignal, sigmask_to_save
  <1>4. ASSUME NEW s \in Signals, GetSignalConsumes(s) PROVE MaskInv'
    BY <1>4, Places DEF Types, RegsType, GetSignalConsumes,
          MaskInv, HandlerInv, InHandler, InCall, ToDoSignal, sigmask_to_save
  <1>5. ASSUME NEW s \in Signals, handle_signal(s) PROVE MaskInv'
    <2>1. PICK r \in RegsType, f \in FrameType :
            /\ \/ r = regs /\ (regs.scause = "INTERRUPT" \/ regs.a0 \notin Restarts)
               \/ /\ frames = <<>> /\ r.a7 = regs.a7 /\ r.pc # Handler
                  /\ \/ r.a0 = "EINTR"
                     \/ r.a0 = regs.a0 /\ r.pc # After /\ r.a0 # "ERESTART_RESTARTBLOCK"
            /\ f.ctx = Ctx(r) /\ f.mask = sigmask_to_save
            /\ stage = "notify" /\ caught' = TRUE /\ UNCHANGED <<saved, live>>
            /\ \/ /\ stage' = "exit" /\ regs' \in RegsType
                  /\ regs'.pc = Handler /\ regs'.a0 = "sig" /\ regs'.a7 = r.a7
                  /\ Pushed(f) /\ restore' = FALSE
               \/ stage' = "dead" /\ regs' = r /\ UNCHANGED <<frames, restore, blocked>>
      BY <1>5, HandleSignalEffect
    <2>2. Len(frames) \in Nat /\ DOMAIN frames = 1 .. Len(frames)
          /\ (frames = <<>> <=> Len(frames) = 0)
      BY Stack
    <2>3. f.ctx.pc = r.pc /\ f.ctx.a0 = r.a0 /\ f.ctx.a7 = r.a7
      BY <2>1 DEF Ctx
    <2>8. CASE stage' = "dead"
      BY <2>1, <2>2, <2>8 DEF MaskInv, HandlerInv, InHandler, InCall, ToDoSignal,
         sigmask_to_save
    <2>9. CASE stage' = "exit"
      <3> USE <2>1, <2>2, <2>9
      <3>1. restore' = FALSE /\ stage' = "exit" /\ frames' # <<>>
        BY DEF Pushed
      <3>2. frames = <<>> => f.mask = {}
        BY DEF MaskInv, sigmask_to_save
      <3>3. frames'[Len(frames')].mask = {}
        BY <3>2 DEF MaskInv, Pushed
      <3> QED BY <3>1, <3>2, <3>3 DEF MaskInv
    <2> QED BY <2>1, <2>8, <2>9
  <1>6. CASE UserStep
    BY <1>6, Places DEF Types, RegsType, UserStep, sigVars,
          MaskInv, HandlerInv, InHandler, InCall, ToDoSignal, sigmask_to_save
  <1>7. CASE Interrupt
    BY <1>7, Places DEF Types, RegsType, Interrupt, sigVars,
          MaskInv, HandlerInv, InHandler, InCall, ToDoSignal, sigmask_to_save
  <1>8. CASE InterruptReturns
    BY <1>8, Places DEF Types, RegsType, InterruptReturns, sigVars,
          MaskInv, HandlerInv, InHandler, InCall, ToDoSignal, sigmask_to_save
  <1>9. CASE handle_syscall
    BY <1>9, Places DEF Types, RegsType, handle_syscall, sigVars,
          MaskInv, HandlerInv, InHandler, InCall, ToDoSignal, sigmask_to_save
  <1>10. CASE rt_sigreturn
    <2>1. /\ frames # <<>> /\ stage = "user"
          /\ live' = FALSE /\ UNCHANGED <<restore, saved, caught>>
          /\ \/ /\ stage' = "exit" /\ Popped
                /\ regs' \in RegsType /\ regs'.scause = "EXC_SYSCALL"
                /\ frames[1] \in FrameType
                /\ regs'.pc = frames[1].ctx.pc /\ regs'.a0 = frames[1].ctx.a0
                /\ regs'.a7 = frames[1].ctx.a7 /\ blocked' = frames[1].mask
             \/ stage' = "dead" /\ UNCHANGED <<regs, frames, blocked>>
      BY <1>10, RtSigreturnEffect
    <2>2. Len(frames) \in Nat \ {0} /\ DOMAIN frames = 1 .. Len(frames)
      BY <2>1, Stack
    <2>8. CASE stage' = "dead"
      BY <2>1, <2>2, <2>8 DEF MaskInv, HandlerInv, InHandler, InCall, ToDoSignal,
         sigmask_to_save
    <2>9. CASE stage' = "exit"
      <3> USE <2>1, <2>2, <2>9
      <3>1. restore' = FALSE /\ stage' = "exit"
        BY DEF MaskInv, ToDoSignal, Types
      <3>2. frames' = <<>> => blocked' = {}
        BY DEF MaskInv, Popped
      <3>3. frames' # <<>> => frames'[Len(frames')].mask = {}
        BY DEF MaskInv, Popped
      <3> QED BY <3>1, <3>2, <3>3 DEF MaskInv
    <2> QED BY <2>1, <2>8, <2>9
  <1>11. CASE SyscallDone
    BY <1>11, Places DEF Types, RegsType, SyscallDone, ret_from_syscall, sigVars,
          MaskInv, HandlerInv, InHandler, InCall, ToDoSignal, sigmask_to_save
  <1>12. CASE SigsuspendReturns
    BY <1>12, Places DEF Types, RegsType, SigsuspendReturns, ret_from_syscall,
          MaskInv, HandlerInv, InHandler, InCall, ToDoSignal, sigmask_to_save
  <1>13. ASSUME NEW e \in Restarts, SyscallInterrupted(e) PROVE MaskInv'
    BY <1>13, Places DEF Types, RegsType, SyscallInterrupted, ret_from_syscall,
       sigVars,
          MaskInv, HandlerInv, InHandler, InCall, ToDoSignal, sigmask_to_save
  <1>14. ASSUME NEW mask \in Masks, SigsuspendBegins(mask) PROVE MaskInv'
    BY <1>14, Places DEF Types, RegsType, SigsuspendBegins, SetBlocked,
          MaskInv, HandlerInv, InHandler, InCall, ToDoSignal, sigmask_to_save
  <1>15. CASE resume_userspace
    BY <1>15, Places DEF Types, RegsType, resume_userspace, sigVars,
          MaskInv, HandlerInv, InHandler, InCall, ToDoSignal, sigmask_to_save
  <1>16. CASE do_signal
    <2>1. /\ stage = "notify" /\ stage' = "exit"
          /\ \/ regs' = regs /\ (regs.scause = "INTERRUPT" \/ regs.a0 \notin Restarts)
             \/ /\ frames = <<>>
                /\ regs'.pc \in {Earlier, Load, Scall} /\ regs'.a0 = regs.a0
                /\ \/ regs'.a7 = regs.a7 /\ regs.a0 # "ERESTART_RESTARTBLOCK"
                   \/ regs'.a7 = "restart_syscall" /\ regs.a0 = "ERESTART_RESTARTBLOCK"
          /\ restore' = FALSE /\ blocked' = sigmask_to_save
          /\ UNCHANGED <<frames, saved, live, caught>>
      BY <1>16, DoSignalEffect
    <2> QED BY <2>1 DEF MaskInv, HandlerInv, InHandler, InCall, ToDoSignal,
       sigmask_to_save
  <1> QED
    BY <1>1, <1>2, <1>3, <1>4, <1>5, <1>6, <1>7, <1>8,
       <1>9, <1>10, <1>11, <1>12, <1>13, <1>14, <1>15, <1>16 DEF Next

(* A mask is a finite set; blocking one more signal makes it larger by one. *)
LEMMA MaskSize ==
  ASSUME NEW mask \in SUBSET Signals
  PROVE  /\ Cardinality(mask) \in Nat /\ Cardinality(mask) <= Cardinality(Signals)
         /\ Cardinality(Signals) \in Nat
         /\ \A s \in Signals \ mask : Cardinality(mask \cup {s}) = Cardinality(mask) + 1
  <1>1. IsFiniteSet(mask) /\ Cardinality(mask) <= Cardinality(Signals)
    BY SignalsAssumption, FS_Subset
  <1>2. Cardinality(mask) \in Nat /\ Cardinality(Signals) \in Nat
    BY <1>1, SignalsAssumption, FS_CardinalityType
  <1>3. \A s \in Signals \ mask : Cardinality(mask \cup {s}) = Cardinality(mask) + 1
    BY <1>1, FS_AddElement
  <1> QED BY <1>1, <1>2, <1>3

(* Handlers nest no deeper than signals are blocked. *)
LEMMA StepNestInv ==
  Types /\ HandlerInv /\ MaskInv /\ NestInv /\ [Next]_vars => NestInv'
  <1> SUFFICES ASSUME Types, HandlerInv, MaskInv, NestInv, [Next]_vars PROVE NestInv'
    OBVIOUS
  <1>1. Len(frames) \in Nat /\ DOMAIN frames = 1 .. Len(frames)
        /\ (frames = <<>> <=> Len(frames) = 0)
    BY Stack
  <1>2. Types'
    BY StepTypes
  <1>3. Cardinality(blocked) \in Nat /\ Cardinality(blocked') \in Nat
    BY <1>2, MaskSize DEF Types
  (* The steps that leave the stack alone: while there are frames they     *)
  (* leave the mask alone as well.                                         *)
  <1>4. ASSUME frames' = frames, frames = <<>> \/ blocked' = blocked PROVE NestInv'
    <2>1. CASE frames = <<>> BY <1>1, <1>3, <1>4, <2>1 DEF NestInv
    <2>2. CASE blocked' = blocked BY <1>4, <2>2 DEF NestInv
    <2> QED BY <1>4, <2>1, <2>2
  <1>5. CASE UNCHANGED vars BY <1>4, <1>5 DEF vars, sigVars
  <1>6. ASSUME NEW s \in Signals, SendSignal(s) \/ StealSignal(s) \/ GetSignalConsumes(s)
        PROVE  NestInv'
    BY <1>4, <1>6 DEF SendSignal, StealSignal, GetSignalConsumes
  <1>7. ASSUME NEW s \in Signals, handle_signal(s) PROVE NestInv'
    <2> DEFINE f == [ctx |-> Ctx(Restarted(regs, disp[s])), mask |-> sigmask_to_save]
    <2>1. CASE stage' = "dead" BY <1>4, <1>7, <2>1 DEF handle_signal
    <2>2. CASE stage' # "dead"
      <3>1. /\ frames' = <<f>> \o frames /\ blocked' = blocked \cup {s}
            /\ s \in Signals \ blocked
        BY <1>7, <2>2 DEF handle_signal, SetBlocked, Deliverable
      <3>2. f \in FrameType
        BY RestartedTyped DEF Ctx, Context, FrameType, RegsType, sigmask_to_save, Types
      <3>3. f.mask = sigmask_to_save
        OBVIOUS
      <3> HIDE DEF f
      <3>4. Pushed(f)
        BY <3>1, <3>2, Push DEF Types, Pushed
      <3>5. Cardinality(blocked') = Cardinality(blocked) + 1
        BY <3>1, MaskSize DEF Types
      <3>6. Len(frames) <= Cardinality(f.mask)
        <4>1. CASE frames = <<>>
          <5>1. f.mask \in SUBSET Signals BY <3>2 DEF FrameType
          <5> QED BY <1>1, <4>1, <5>1, MaskSize
        <4>2. CASE frames # <<>>
          <5>1. f.mask = blocked BY <3>3, <4>2 DEF MaskInv, sigmask_to_save, Types
          <5> QED BY <5>1 DEF NestInv
        <4> QED BY <4>1, <4>2
      <3>7. ASSUME NEW i \in DOMAIN frames'
            PROVE  Len(frames') - i <= Cardinality(frames'[i].mask)
        <4>1. CASE i = 1 BY <1>1, <3>4, <3>6, <4>1 DEF Pushed
        <4>2. CASE i # 1
          <5>1. i - 1 \in DOMAIN frames /\ frames'[i] = frames[i - 1]
            BY <1>1, <3>4, <4>2 DEF Pushed
          <5>2. Len(frames) - (i - 1) <= Cardinality(frames[i - 1].mask)
            BY <5>1 DEF NestInv
          <5>3. Len(frames') - i = Len(frames) - (i - 1)
            BY <1>1, <3>4 DEF Pushed
          <5> QED BY <5>1, <5>2, <5>3
        <4> QED BY <4>1, <4>2
      <3>8. Len(frames') <= Cardinality(blocked')
        BY <1>1, <1>3, <3>4, <3>5 DEF NestInv, Pushed
      <3> QED BY <3>7, <3>8 DEF NestInv
    <2> QED BY <2>1, <2>2
  <1>8. CASE rt_sigreturn
    <2>1. frames # <<>> /\ \/ Popped /\ blocked' = frames[1].mask
                           \/ UNCHANGED <<frames, blocked>>
      BY <1>8, RtSigreturnEffect
    <2>2. CASE Popped /\ blocked' = frames[1].mask
      <3>1. Len(frames') <= Cardinality(blocked')
        <4>1. Len(frames) - 1 <= Cardinality(frames[1].mask)
          BY <1>1, <2>1 DEF NestInv
        <4> QED BY <2>2, <4>1 DEF Popped
      <3>2. ASSUME NEW i \in DOMAIN frames'
            PROVE  Len(frames') - i <= Cardinality(frames'[i].mask)
        <4>1. i + 1 \in DOMAIN frames /\ frames'[i] = frames[i + 1]
          BY <1>1, <2>2 DEF Popped
        <4>2. Len(frames) - (i + 1) <= Cardinality(frames[i + 1].mask)
          BY <4>1 DEF NestInv
        <4>3. Len(frames') - i = Len(frames) - (i + 1)
          BY <1>1, <2>2 DEF Popped
        <4> QED BY <4>1, <4>2, <4>3
      <3> QED BY <3>1, <3>2 DEF NestInv
    <2>3. CASE UNCHANGED <<frames, blocked>> BY <1>4, <2>3
    <2> QED BY <2>1, <2>2, <2>3
  <1>9. CASE UserStep BY <1>4, <1>9 DEF UserStep, sigVars
  <1>10. CASE Interrupt BY <1>4, <1>10 DEF Interrupt, sigVars
  <1>11. CASE InterruptReturns BY <1>4, <1>11 DEF InterruptReturns, sigVars
  <1>12. CASE handle_syscall BY <1>4, <1>12 DEF handle_syscall, sigVars
  <1>13. CASE SyscallDone BY <1>4, <1>13 DEF SyscallDone, sigVars
  <1>14. CASE SigsuspendReturns BY <1>4, <1>14 DEF SigsuspendReturns
  <1>15. ASSUME NEW e \in Restarts, SyscallInterrupted(e) PROVE NestInv'
    BY <1>4, <1>15 DEF SyscallInterrupted, sigVars
  <1>16. ASSUME NEW mask \in Masks, SigsuspendBegins(mask) PROVE NestInv'
    BY <1>4, <1>16, Places DEF SigsuspendBegins, HandlerInv, InHandler, InCall
  <1>17. CASE resume_userspace BY <1>4, <1>17 DEF resume_userspace, sigVars
  <1>18. CASE do_signal
    BY <1>4, <1>18 DEF do_signal, SetBlocked, sigmask_to_save, MaskInv
  <1> QED
    BY <1>5, <1>6, <1>7, <1>8, <1>9, <1>10, <1>11, <1>12, <1>13, <1>14, <1>15,
       <1>16, <1>17, <1>18 DEF Next

(* A call is resumed only if no handler ran. *)
LEMMA StepRestartInv == Types /\ ErrnoInv /\ HandlerInv /\ RestartInv /\ [Next]_vars => RestartInv'
  <1> SUFFICES ASSUME Types /\ ErrnoInv /\ HandlerInv /\ RestartInv, [Next]_vars PROVE RestartInv'
    OBVIOUS
  <1>1. CASE UNCHANGED vars
    BY <1>1 DEF Types, RegsType, vars, sigVars, RestartInv, HandlerInv, InHandler,
       Resumes, ErrnoInv, Clean, InCall, ToDoSignal, Restarts
  <1>2. ASSUME NEW s \in Signals, SendSignal(s) PROVE RestartInv'
    BY <1>2, Places DEF Types, RegsType, SendSignal,
          RestartInv, HandlerInv, InHandler, Resumes, ErrnoInv, Clean, InCall,
          ToDoSignal, Restarts
  <1>3. ASSUME NEW s \in Signals, StealSignal(s) PROVE RestartInv'
    BY <1>3, Places DEF Types, RegsType, StealSignal,
          RestartInv, HandlerInv, InHandler, Resumes, ErrnoInv, Clean, InCall,
          ToDoSignal, Restarts
  <1>4. ASSUME NEW s \in Signals, GetSignalConsumes(s) PROVE RestartInv'
    BY <1>4, Places DEF Types, RegsType, GetSignalConsumes,
          RestartInv, HandlerInv, InHandler, Resumes, ErrnoInv, Clean, InCall,
          ToDoSignal, Restarts
  <1>5. ASSUME NEW s \in Signals, handle_signal(s) PROVE RestartInv'
    <2>1. PICK r \in RegsType, f \in FrameType :
            /\ \/ r = regs /\ (regs.scause = "INTERRUPT" \/ regs.a0 \notin Restarts)
               \/ /\ frames = <<>> /\ r.a7 = regs.a7 /\ r.pc # Handler
                  /\ \/ r.a0 = "EINTR"
                     \/ r.a0 = regs.a0 /\ r.pc # After /\ r.a0 # "ERESTART_RESTARTBLOCK"
            /\ f.ctx = Ctx(r) /\ f.mask = sigmask_to_save
            /\ stage = "notify" /\ caught' = TRUE /\ UNCHANGED <<saved, live>>
            /\ \/ /\ stage' = "exit" /\ regs' \in RegsType
                  /\ regs'.pc = Handler /\ regs'.a0 = "sig" /\ regs'.a7 = r.a7
                  /\ Pushed(f) /\ restore' = FALSE
               \/ stage' = "dead" /\ regs' = r /\ UNCHANGED <<frames, restore, blocked>>
      BY <1>5, HandleSignalEffect
    <2>2. Len(frames) \in Nat /\ DOMAIN frames = 1 .. Len(frames)
          /\ (frames = <<>> <=> Len(frames) = 0)
      BY Stack
    <2>3. f.ctx.pc = r.pc /\ f.ctx.a0 = r.a0 /\ f.ctx.a7 = r.a7
      BY <2>1 DEF Ctx
    <2>8. CASE stage' = "dead"
      BY <2>1, <2>2, <2>8, Places DEF RestartInv, HandlerInv, InHandler, Resumes,
         ErrnoInv, Clean, InCall, ToDoSignal, Restarts
    <2>9. CASE stage' = "exit"
      <3> USE <2>1, <2>2, <2>9, Places
      <3>1. caught' /\ frames' # <<>> /\ regs'.pc = Handler /\ regs'.a0 = "sig" /\ ~InCall'
        BY DEF InCall, Pushed
      <3>2. f.ctx.a0 = "ERESTART_RESTARTBLOCK" => f.ctx.a7 = "restart_syscall"
        BY <2>3 DEF RestartInv, ErrnoInv, Clean, Restarts
      <3>3. \A i \in DOMAIN frames' :
               frames'[i].ctx.a0 = "ERESTART_RESTARTBLOCK" =>
                 frames'[i].ctx.a7 = "restart_syscall"
        BY <3>2 DEF RestartInv, Pushed
      <3> QED BY <3>1, <3>2, <3>3 DEF RestartInv, Resumes, InCall
    <2> QED BY <2>1, <2>8, <2>9
  <1>6. CASE UserStep
    BY <1>6, Places DEF Types, RegsType, UserStep, sigVars,
          RestartInv, HandlerInv, InHandler, Resumes, ErrnoInv, Clean, InCall,
          ToDoSignal, Restarts
  <1>7. CASE Interrupt
    BY <1>7, Places DEF Types, RegsType, Interrupt, sigVars,
          RestartInv, HandlerInv, InHandler, Resumes, ErrnoInv, Clean, InCall,
          ToDoSignal, Restarts
  <1>8. CASE InterruptReturns
    BY <1>8, Places DEF Types, RegsType, InterruptReturns, sigVars,
          RestartInv, HandlerInv, InHandler, Resumes, ErrnoInv, Clean, InCall,
          ToDoSignal, Restarts
  <1>9. CASE handle_syscall
    BY <1>9, Places DEF Types, RegsType, handle_syscall, sigVars,
          RestartInv, HandlerInv, InHandler, Resumes, ErrnoInv, Clean, InCall,
          ToDoSignal, Restarts
  <1>10. CASE rt_sigreturn
    <2>1. /\ frames # <<>> /\ stage = "user"
          /\ live' = FALSE /\ UNCHANGED <<restore, saved, caught>>
          /\ \/ /\ stage' = "exit" /\ Popped
                /\ regs' \in RegsType /\ regs'.scause = "EXC_SYSCALL"
                /\ frames[1] \in FrameType
                /\ regs'.pc = frames[1].ctx.pc /\ regs'.a0 = frames[1].ctx.a0
                /\ regs'.a7 = frames[1].ctx.a7 /\ blocked' = frames[1].mask
             \/ stage' = "dead" /\ UNCHANGED <<regs, frames, blocked>>
      BY <1>10, RtSigreturnEffect
    <2>2. Len(frames) \in Nat \ {0} /\ DOMAIN frames = 1 .. Len(frames)
      BY <2>1, Stack
    <2>8. CASE stage' = "dead"
      BY <2>1, <2>2, <2>8 DEF RestartInv, HandlerInv, InHandler, Resumes, ErrnoInv,
         Clean, InCall, ToDoSignal, Restarts
    <2>9. CASE stage' = "exit"
      <3> USE <2>1, <2>2, <2>9
      <3>1. caught' /\ ~live' /\ ~InCall'
        BY DEF HandlerInv, InCall
      <3>2. regs'.a0 = "ERESTART_RESTARTBLOCK" => regs'.a7 = "restart_syscall"
        BY DEF RestartInv
      <3>3. \A i \in DOMAIN frames' :
               frames'[i].ctx.a0 = "ERESTART_RESTARTBLOCK" =>
                 frames'[i].ctx.a7 = "restart_syscall"
        BY DEF RestartInv, Popped
      <3> QED BY <3>1, <3>2, <3>3 DEF RestartInv, InCall, Resumes, Clean
    <2> QED BY <2>1, <2>8, <2>9
  <1>11. CASE SyscallDone
    BY <1>11, Places DEF Types, RegsType, SyscallDone, ret_from_syscall, sigVars,
          RestartInv, HandlerInv, InHandler, Resumes, ErrnoInv, Clean, InCall,
          ToDoSignal, Restarts
  <1>12. CASE SigsuspendReturns
    BY <1>12, Places DEF Types, RegsType, SigsuspendReturns, ret_from_syscall,
          RestartInv, HandlerInv, InHandler, Resumes, ErrnoInv, Clean, InCall,
          ToDoSignal, Restarts
  <1>13. ASSUME NEW e \in Restarts, SyscallInterrupted(e) PROVE RestartInv'
    BY <1>13, Places DEF Types, RegsType, SyscallInterrupted, ret_from_syscall,
       sigVars,
          RestartInv, HandlerInv, InHandler, Resumes, ErrnoInv, Clean, InCall,
          ToDoSignal, Restarts
  <1>14. ASSUME NEW mask \in Masks, SigsuspendBegins(mask) PROVE RestartInv'
    BY <1>14, Places DEF Types, RegsType, SigsuspendBegins, SetBlocked,
          RestartInv, HandlerInv, InHandler, Resumes, ErrnoInv, Clean, InCall,
          ToDoSignal, Restarts
  <1>15. CASE resume_userspace
    BY <1>15, Places DEF Types, RegsType, resume_userspace, sigVars,
          RestartInv, HandlerInv, InHandler, Resumes, ErrnoInv, Clean, InCall,
          ToDoSignal, Restarts
  <1>16. CASE do_signal
    <2>1. /\ stage = "notify" /\ stage' = "exit"
          /\ \/ regs' = regs /\ (regs.scause = "INTERRUPT" \/ regs.a0 \notin Restarts)
             \/ /\ frames = <<>>
                /\ regs'.pc \in {Earlier, Load, Scall} /\ regs'.a0 = regs.a0
                /\ \/ regs'.a7 = regs.a7 /\ regs.a0 # "ERESTART_RESTARTBLOCK"
                   \/ regs'.a7 = "restart_syscall" /\ regs.a0 = "ERESTART_RESTARTBLOCK"
          /\ restore' = FALSE /\ blocked' = sigmask_to_save
          /\ UNCHANGED <<frames, saved, live, caught>>
      BY <1>16, DoSignalEffect
    <2> QED BY <2>1, Places DEF RestartInv, HandlerInv, InHandler, Resumes,
       ErrnoInv, Clean, InCall, ToDoSignal, Restarts
  <1> QED
    BY <1>1, <1>2, <1>3, <1>4, <1>5, <1>6, <1>7, <1>8,
       <1>9, <1>10, <1>11, <1>12, <1>13, <1>14, <1>15, <1>16 DEF Next

-----------------------------------------------------------------------------
(* The invariant holds at all times. *)
THEOREM Invariance == Spec => []IInv
  <1>1. Init => IInv
    BY InitIInv
  <1>2. IInv /\ [Next]_vars => IInv'
    BY StepTypes, StepErrnoInv, StepHandlerInv, StepMaskInv, StepNestInv, StepRestartInv DEF IInv
  <1> QED BY <1>1, <1>2, PTL DEF Spec

(* signal.c: every variable keeps its type, and the frames on the user     *)
(* stack, whatever sigsuspend's masks are, never outnumber the signals.    *)
THEOREM TypeCorrect == Spec => []TypeOK
  <1>1. IInv => TypeOK
    <2> SUFFICES ASSUME IInv PROVE TypeOK
      OBVIOUS
    <2>1. [pc |-> regs.pc, a0 |-> regs.a0, a7 |-> regs.a7] \in Context
          /\ regs.scause \in {"EXC_SYSCALL", "INTERRUPT"}
      BY DEF IInv, Types, RegsType, Context
    <2>2. \A i \in DOMAIN frames : frames[i] \in FrameType
      BY Stack DEF IInv, Types
    <2>3. Len(frames) <= Cardinality(Signals)
      <3>1. Len(frames) \in Nat /\ Len(frames) <= Cardinality(blocked)
        BY Stack DEF IInv, NestInv
      <3>2. /\ Cardinality(blocked) \in Nat /\ Cardinality(Signals) \in Nat
            /\ Cardinality(blocked) <= Cardinality(Signals)
        BY MaskSize DEF IInv, Types
      <3> QED BY <3>1, <3>2
    <2> QED BY <2>1, <2>2, <2>3 DEF IInv, Types, FrameType, TypeOK
  <1> QED BY <1>1, Invariance, PTL

(* entry.S, signal.c: no restart code is ever the result of a call.        *)
THEOREM NoErrnoLeakHolds == Spec => []NoErrnoLeak
  <1>1. IInv => NoErrnoLeak
    BY DEF IInv, ErrnoInv, Clean, InCall, ToDoSignal, NoErrnoLeak
  <1> QED BY <1>1, Invariance, PTL

(* signal.c: the mask that sigsuspend put aside is in force again when the *)
(* program's main loop runs.                                               *)
THEOREM MaskRestoredHolds == Spec => []MaskRestored
  <1>1. IInv => MaskRestored
    BY DEF IInv, Types, MaskInv, ToDoSignal, MaskRestored
  <1> QED BY <1>1, Invariance, PTL

(* signal.c:199-213: a call fails with EINTR only when a handler ran.      *)
THEOREM EintrOnlyAfterHandlerHolds == Spec => []EintrOnlyAfterHandler
  <1>1. IInv => EintrOnlyAfterHandler
    BY DEF IInv, RestartInv, InCall, EintrOnlyAfterHandler
  <1> QED BY <1>1, Invariance, PTL

(* rt_sigreturn: restart_syscall never resumes a call that a handler       *)
(* interrupted.                                                            *)
THEOREM NoResumeAfterHandlerHolds == Spec => []NoResumeAfterHandler
  <1>1. IInv => NoResumeAfterHandler
    BY Places DEF IInv, HandlerInv, InHandler, InCall, RestartInv, Resumes,
       NoResumeAfterHandler
  <1> QED BY <1>1, Invariance, PTL

=============================================================================

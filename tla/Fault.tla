-------------------------------- MODULE Fault --------------------------------
(***************************************************************************)
(* Page faults: do_page_fault of mm/fault.c, with fixup_exception of       *)
(* mm/extable.c and the signals of kernel/traps.c.                         *)
(*                                                                         *)
(* Tasks share a memory map, here one vma and the lock mmap_sem.  A task   *)
(* may change the map, or make an access that faults: a user instruction,  *)
(* a copy to or from user memory (uaccess), the same with page faults      *)
(* disabled (atomic), or kernel code using vmalloc memory.  The lock, the  *)
(* map and handle_mm_fault belong to the generic kernel (external).        *)
(***************************************************************************)
EXTENDS Integers, FiniteSets

CONSTANTS
  Tasks,
  Mappers,    \* the tasks that change the map
  Faulters,   \* the tasks that make accesses outside of a change, too
  VmallocFromUser,   \* user programs access the vmalloc area, too
  Causes,     \* EXC_INST_ACCESS, EXC_LOAD_ACCESS, EXC_STORE_ACCESS
  Perms       \* the vm_flags a vma may have

Contexts == {"user", "uaccess", "atomic", "kernel"}
Areas == {"user", "vmalloc"}

Accesses ==
  {<<"user", "user">>, <<"uaccess", "user">>, <<"atomic", "user">>, <<"kernel", "vmalloc">>}
    \cup IF VmallocFromUser THEN {<<"user", "vmalloc">>} ELSE {}

ASSUME TasksAssumption ==
  IsFiniteSet(Tasks) /\ Mappers \subseteq Tasks /\ Faulters \subseteq Tasks
ASSUME UserAssumption == VmallocFromUser \in BOOLEAN
ASSUME CausesAssumption ==
  Causes \subseteq {"EXC_INST_ACCESS", "EXC_LOAD_ACCESS", "EXC_STORE_ACCESS"}

VARIABLES
  vma,        \* what find_vma finds for the address, and its vm_flags
  sem,        \* mmap_sem: the number of readers, -1 with a writer
  writer,     \* the tasks that hold it for writing
  fatal,      \* the tasks with a fatal signal pending
  master,     \* how far init_mm's page table maps the vmalloc address
  copied,     \* the task's page table has init_mm's pgd entry
  stage,      \* stage[t]: where t is
  access,     \* access[t]: context, area and cause of its fault
  allow,      \* allow[t]: FAULT_FLAG_ALLOW_RETRY is in flags
  code,       \* code[t]: si_code, should it end in SIGSEGV
  sig,        \* sig[t]: the si_code of the signal its last fault ended in
  seen        \* history: how the map refused the access since it faulted

mapVars == <<vma, writer, master>>
localVars == <<access, allow, code, seen>>
taskVars == <<stage, localVars, sig>>
vars == <<mapVars, sem, fatal, copied, taskVars>>

Resting == {"run", "write", "dead", "bug"}
NoAccess == [ctx |-> "none", area |-> "none", cause |-> "none"]
Stages == Resting \cup {"entry", "retry", "find_vma", "mm_fault", "retried", "release",
                        "bad_area", "out_of_memory", "do_sigbus", "no_context"}
Places == {"none", "stack", "stack_full", "mapped"}

TypeOK ==
  /\ vma \in [place : Places, perms : Perms]
  /\ sem \in -1 .. Cardinality(Tasks)
  /\ writer \in SUBSET Tasks
  /\ fatal \in SUBSET Tasks
  /\ master \in {"none", "table", "page"} /\ copied \in BOOLEAN
  /\ stage \in [Tasks -> Stages]
  /\ access \in [Tasks -> [ctx : Contexts, area : Areas, cause : Causes] \cup {NoAccess}]
  /\ allow \in [Tasks -> BOOLEAN]
  /\ code \in [Tasks -> {"SEGV_MAPERR", "SEGV_ACCERR"}]
  /\ sig \in [Tasks -> {"none", "SEGV_MAPERR", "SEGV_ACCERR", "BUS_ADRERR"}]
  /\ seen \in [Tasks -> SUBSET {"unmapped", "protected"}]

Init ==
  /\ vma \in [place : Places, perms : Perms]
  /\ sem = 0 /\ writer = {} /\ fatal = {}
  /\ master = "none" /\ copied = FALSE
  /\ stage = [t \in Tasks |-> "run"]
  /\ access = [t \in Tasks |-> NoAccess]
  /\ allow = [t \in Tasks |-> TRUE]
  /\ code = [t \in Tasks |-> "SEGV_MAPERR"]
  /\ sig = [t \in Tasks |-> "none"]
  /\ seen = [t \in Tasks |-> {}]

Go(t, s) == stage' = [stage EXCEPT ![t] = s]

(* The handler's variables are gone when it is left. *)
Leave(t) ==
  /\ access' = [access EXCEPT ![t] = NoAccess]
  /\ allow' = [allow EXCEPT ![t] = TRUE]
  /\ code' = [code EXCEPT ![t] = "SEGV_MAPERR"]
  /\ seen' = [seen EXCEPT ![t] = {}]

(* Back to the interrupted code, which may be a writer's, with signal i. *)
Return(t, i) ==
  /\ Go(t, IF t \in writer THEN "write" ELSE "run")
  /\ sig' = [sig EXCEPT ![t] = i]
  /\ Leave(t)

(* Mutant: every access needs a writable vma. *)
M_NeedsWrite(cause, perms) == "VM_WRITE" \in perms

(* The switch on cause. *)
Permitted(cause, perms) ==
  CASE cause = "EXC_INST_ACCESS"  -> "VM_EXEC" \in perms
    [] cause = "EXC_LOAD_ACCESS"  -> "VM_READ" \in perms
    [] cause = "EXC_STORE_ACCESS" -> "VM_WRITE" \in perms

(* What a map (v, m) holds against access a. *)
Refusals(a, v, m) ==
  IF a.area = "vmalloc"
  THEN IF m = "page" /\ a.ctx # "user" THEN {} ELSE {"unmapped"}
  ELSE IF v.place \in {"none", "stack_full"} THEN {"unmapped"}
  ELSE CASE a.cause = "EXC_INST_ACCESS" /\ "VM_EXEC" \notin v.perms -> {"protected"}
         [] a.cause = "EXC_LOAD_ACCESS" /\ "VM_READ" \notin v.perms -> {"protected"}
         [] a.cause = "EXC_STORE_ACCESS" /\ "VM_WRITE" \notin v.perms -> {"protected"}
         [] OTHER -> {}

Witness ==
  seen' = [t \in Tasks |-> IF stage[t] \in Resting THEN seen[t]
                           ELSE seen[t] \cup Refusals(access[t], vma', master')]

-----------------------------------------------------------------------------
(* The generic kernel (external).                                          *)
DownWrite(t) ==
  /\ t \in Mappers /\ stage[t] = "run" /\ sem = 0
  /\ sem' = -1 /\ writer' = {t}
  /\ Go(t, "write")
  /\ UNCHANGED <<vma, fatal, master, copied, localVars, sig>>

(* mmap, munmap or mprotect. *)
ChangeMap(t) ==
  /\ stage[t] = "write"
  /\ vma' \in [place : Places, perms : Perms]
  /\ UNCHANGED <<writer, master>> /\ Witness
  /\ UNCHANGED <<sem, fatal, copied, stage, access, allow, code, sig>>

UpWrite(t) ==
  /\ stage[t] = "write"
  /\ sem' = sem + 1 /\ writer' = writer \ {t}
  /\ Go(t, "run")
  /\ UNCHANGED <<vma, fatal, master, copied, localVars, sig>>

(* vmalloc and vfree; a page-table page of init_mm is never freed. *)
VmallocOrVfree ==
  /\ master' = IF master = "page" THEN "table" ELSE "page"
  /\ UNCHANGED <<vma, writer>> /\ Witness
  /\ UNCHANGED <<sem, fatal, copied, stage, access, allow, code, sig>>

SendFatalSignal(t) ==
  /\ stage[t] \notin {"dead", "bug"} /\ t \notin fatal
  /\ fatal' = fatal \cup {t}
  /\ UNCHANGED <<mapVars, sem, copied, taskVars>>

(* An access that traps.  A task that is to die makes no more user         *)
(* accesses, and a writer none that may sleep.                             *)
Trap(t, ctx, area, cause) ==
  /\ \/ stage[t] = "run" /\ t \in Faulters
     \/ stage[t] = "write"
  /\ stage[t] = "write" => ctx \in {"atomic", "kernel"}
  /\ t \in fatal => ctx # "user"
  /\ area = "vmalloc" /\ ctx # "user" => ~copied \/ master # "page"
  /\ LET a == [ctx |-> ctx, area |-> area, cause |-> cause]
     IN /\ access' = [access EXCEPT ![t] = a]
        /\ seen' = [seen EXCEPT ![t] = Refusals(a, vma, master)]
  /\ Go(t, "entry")
  /\ sig' = [sig EXCEPT ![t] = "none"]
  /\ UNCHANGED <<mapVars, sem, fatal, copied, allow, code>>

-----------------------------------------------------------------------------
user_mode(t) == access[t].ctx = "user"

(* A vmalloc address, from the kernel: copy init_mm's entry. *)
vmalloc_fault(t) ==
  /\ stage[t] = "entry" /\ access[t].area = "vmalloc" /\ ~user_mode(t)
  /\ copied' = (copied \/ master # "none")
  /\ \/ master = "page" /\ Return(t, "none")
     \/ master # "page" /\ Go(t, "no_context") /\ UNCHANGED <<localVars, sig>>
  /\ UNCHANGED <<mapVars, sem, fatal>>

(* Mutant: an atomic context goes to bad_area instead of no_context. *)
M_AtomicIsBadArea(t) ==
  IF access[t].area = "vmalloc" \/ access[t].ctx = "atomic" THEN "bad_area" ELSE "retry"

(* Where the checks before the first down_read lead: a vmalloc address to  *)
(* bad_area (from user mode), faulthandler_disabled to no_context.         *)
Checks(t) ==
  IF access[t].area = "vmalloc" THEN "bad_area"
  ELSE IF access[t].ctx = "atomic" THEN "no_context" ELSE "retry"

do_page_fault(t) ==
  /\ stage[t] = "entry" /\ ~(access[t].area = "vmalloc" /\ ~user_mode(t))
  /\ Go(t, Checks(t))
  /\ UNCHANGED <<mapVars, sem, fatal, copied, localVars, sig>>

down_read(t) ==
  /\ stage[t] = "retry" /\ sem >= 0
  /\ sem' = sem + 1
  /\ Go(t, "find_vma")
  /\ UNCHANGED <<mapVars, fatal, copied, localVars, sig>>

(* find_vma, expand_stack, and the permissions. *)
find_vma(t) ==
  /\ stage[t] = "find_vma"
  /\ \/ /\ vma.place \in {"none", "stack_full"}
        /\ Go(t, "bad_area")
        /\ UNCHANGED <<vma, code>>
     \/ /\ vma.place \in {"stack", "mapped"}
        /\ vma' = [vma EXCEPT !.place = "mapped"]
        /\ code' = [code EXCEPT ![t] = "SEGV_ACCERR"]
        /\ Go(t, IF Permitted(access[t].cause, vma.perms) THEN "mm_fault" ELSE "bad_area")
  /\ UNCHANGED <<sem, writer, master, fatal, copied, access, allow, seen, sig>>

(* handle_mm_fault (external).  With VM_FAULT_RETRY it has released the    *)
(* lock; on a second attempt that happens only to a task that was killed   *)
(* while it waited.  VM_FAULT_SIGSEGV, the stack's guard page, meets       *)
(* BUG().                                                                  *)
handle_mm_fault(t) ==
  /\ stage[t] = "mm_fault"
  /\ \/ /\ \E s \in {"release", "out_of_memory", "do_sigbus", "bug"} : Go(t, s)
        /\ UNCHANGED sem
     \/ /\ allow[t] \/ t \in fatal
        /\ sem' = sem - 1
        /\ Go(t, "retried")
  /\ UNCHANGED <<mapVars, fatal, copied, localVars, sig>>

(* Mutants: the fatal signal is not looked at; ALLOW_RETRY stays set. *)
M_RetriedIgnoresFatal(t) ==
  /\ stage[t] = "retried"
  /\ \/ allow[t] /\ Go(t, "retry") /\ allow' = [allow EXCEPT ![t] = FALSE]
     \/ ~allow[t] /\ Go(t, "release") /\ UNCHANGED allow
  /\ UNCHANGED <<mapVars, sem, fatal, copied, access, code, seen, sig>>

M_RetriedKeepsAllow(t) ==
  /\ stage[t] = "retried"
  /\ \/ t \in fatal /\ Return(t, "none")
     \/ t \notin fatal /\ Go(t, "retry") /\ UNCHANGED <<localVars, sig>>
  /\ UNCHANGED <<mapVars, sem, fatal, copied>>

(* After VM_FAULT_RETRY: return to a fatal signal, or try once more, or    *)
(* take it for a fault handled.                                            *)
retried(t) ==
  /\ stage[t] = "retried"
  /\ \/ t \in fatal /\ Return(t, "none")
     \/ /\ t \notin fatal
        /\ Go(t, IF allow[t] THEN "retry" ELSE "release")
        /\ allow' = [allow EXCEPT ![t] = FALSE]
        /\ UNCHANGED <<access, code, seen, sig>>
  /\ UNCHANGED <<mapVars, sem, fatal, copied>>

(* The exits that hold the lock: each begins with up_read. *)
up_read(t, from) == stage[t] = from /\ sem' = sem - 1

release(t) ==
  /\ up_read(t, "release")
  /\ Return(t, "none")
  /\ UNCHANGED <<mapVars, fatal, copied>>

(* do_trap(SIGSEGV, code), or no_context. *)
bad_area(t) ==
  /\ up_read(t, "bad_area")
  /\ \/ user_mode(t) /\ Return(t, code[t])
     \/ ~user_mode(t) /\ Go(t, "no_context") /\ UNCHANGED <<localVars, sig>>
  /\ UNCHANGED <<mapVars, fatal, copied>>

(* pagefault_out_of_memory returns and the access is tried again. *)
out_of_memory(t) ==
  /\ up_read(t, "out_of_memory")
  /\ \/ user_mode(t) /\ Return(t, "none")
     \/ ~user_mode(t) /\ Go(t, "no_context") /\ UNCHANGED <<localVars, sig>>
  /\ UNCHANGED <<mapVars, fatal, copied>>

do_sigbus(t) ==
  /\ up_read(t, "do_sigbus")
  /\ \/ user_mode(t) /\ Return(t, "BUS_ADRERR")
     \/ ~user_mode(t) /\ Go(t, "no_context") /\ UNCHANGED <<localVars, sig>>
  /\ UNCHANGED <<mapVars, fatal, copied>>

(* fixup_exception, or die. *)
no_context(t) ==
  /\ stage[t] = "no_context"
  /\ \/ access[t].ctx \in {"uaccess", "atomic"} /\ Return(t, "none")
     \/ access[t].ctx = "kernel" /\ Go(t, "dead") /\ UNCHANGED <<localVars, sig>>
  /\ UNCHANGED <<mapVars, sem, fatal, copied>>

-----------------------------------------------------------------------------
Handler(t) ==
  \/ do_page_fault(t) \/ vmalloc_fault(t) \/ find_vma(t) \/ handle_mm_fault(t)
  \/ retried(t) \/ release(t) \/ bad_area(t) \/ out_of_memory(t) \/ do_sigbus(t)
  \/ no_context(t)

Next ==
  \/ \E t \in Tasks :
        \/ Handler(t) \/ down_read(t)
        \/ DownWrite(t) \/ ChangeMap(t) \/ UpWrite(t) \/ SendFatalSignal(t)
        \/ \E a \in Accesses, cause \in Causes : Trap(t, a[1], a[2], cause)
  \/ VmallocOrVfree

Spec == Init /\ [][Next]_vars

(* The scheduler runs every task; mmap_sem is handed out in order, so a    *)
(* reader that waits gets it; a writer is done at some time.               *)
Fairness ==
  \A t \in Tasks : WF_vars(Handler(t)) /\ SF_vars(down_read(t)) /\ SF_vars(UpWrite(t))

FairSpec == Spec /\ Fairness

-----------------------------------------------------------------------------
Holding == {"find_vma", "mm_fault", "release", "bad_area", "out_of_memory", "do_sigbus", "bug"}

(* fault.c: on every path mmap_sem is released exactly as often as it was  *)
(* taken: the retry that lost it to handle_mm_fault, the killed task, the  *)
(* error exits.                                                            *)
SemBalanced ==
  sem = Cardinality({t \in Tasks : stage[t] \in Holding}) - Cardinality(writer)

Justified ==
  \A t \in Tasks :
     /\ sig'[t] = "SEGV_MAPERR" /\ sig[t] = "none" => "unmapped" \in seen[t]
     /\ sig'[t] = "SEGV_ACCERR" /\ sig[t] = "none" => seen[t] # {}
     /\ stage'[t] = "dead" /\ stage[t] # "dead" => seen[t] # {}

(* fault.c: SIGSEGV and an oops are for accesses that the map refused at   *)
(* some moment of the fault, and SEGV_MAPERR for an address that was not   *)
(* mapped, whatever other tasks do to the map between two attempts.        *)
OutcomeJustified == [][Justified]_vars

(* fault.c: "If for any reason at all we could not handle the fault, make  *)
(* sure we exit gracefully rather than endlessly redo the fault", and      *)
(* "Clear FAULT_FLAG_ALLOW_RETRY to avoid any risk of starvation": every   *)
(* fault ends, unless a task died while it held mmap_sem for writing.      *)
FaultEnds ==
  \A t \in Tasks :
     stage[t] \notin Resting ~>
       stage[t] \in Resting \/ \E u \in writer : stage[u] = "dead"

(* fault.c: "We MUST NOT take any locks for this case": the handler leaves *)
(* mmap_sem alone when the address is in the vmalloc area.                 *)
VmallocTakesNoLock ==
  [][\A t \in Tasks : stage[t] \notin Resting /\ access[t].area = "vmalloc"
                        /\ stage'[t] # stage[t] => sem' = sem]_vars

=============================================================================

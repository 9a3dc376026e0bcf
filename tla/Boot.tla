-------------------------------- MODULE Boot --------------------------------
(***************************************************************************)
(* How the harts come up: kernel/head.S, kernel/smpboot.c, and what they   *)
(* call of kernel/traps.c, kernel/irq.c and kernel/time.c, with the        *)
(* generic start_kernel, fork_idle and cpu_up around them (external).      *)
(*                                                                         *)
(* Hart 0 clears .bss and boots; the others poll their word of             *)
(* __cpu_up_stack_pointer, which is in .bss, until it holds the top of a   *)
(* stack.  The stack of cpu c's idle task is named c.  Hart 0's stores     *)
(* become visible late and in any order, those to one address in order.    *)
(***************************************************************************)
EXTENDS Integers, FiniteSets

CONSTANTS
  NumHarts,   \* sbi_num_harts()
  NR_CPUS

ASSUME BootAssumption == NumHarts \in Nat \ {0} /\ NR_CPUS \in Nat \ {0}

Harts == 0 .. NumHarts - 1
Slots == 0 .. NR_CPUS - 1
Secondary == {h \in Harts : h # 0 /\ h < NR_CPUS}
Sources == {"software", "timer"}

Null == -1
Wild == -2    \* what memory may hold before it is written

VARIABLES
  garbage,    \* the slots whose memory is not zero when the harts start
  where,      \* where[h]: how far h has come
  slot,       \* slot[c]: __cpu_up_stack_pointer[c]
  stackTask,  \* stackTask[c]: the task at the bottom of stack c
  zeroBuf,    \* the slots whose clearing is not visible yet
  taskBuf,    \* the stacks whose task is not
  slotBuf,    \* the slots whose stack pointer is not
  bringing,   \* the cpu that __cpu_up brings up
  sp, tp,     \* of every hart
  possible,   \* cpu_possible_mask and cpu_present_mask
  online,     \* cpu_online_mask
  mmCount,    \* init_mm.mm_count, without its first reference
  vector,     \* the harts with stvec and sscratch set
  clock,      \* the cpus with a clock_event_device
  sie,        \* sie[h]: the sources that are enabled
  irqsOn,     \* the harts with interrupts enabled
  raised      \* raised[h]: the interrupts that are pending at h

stackVars == <<slot, stackTask, zeroBuf, taskBuf, slotBuf>>
maskVars == <<possible, online, mmCount>>
trapVars == <<vector, clock, sie, irqsOn, raised>>
bootVars == <<garbage, where, stackVars, bringing, sp, tp, maskVars, trapVars>>

BootPlaces ==
  {"setup", "trap_init", "init_IRQ", "time_init", "irq_enable", "fork_idle", "cpu_up", "__cpu_up", "wait", "up"}
CallinPlaces == {"mm", "callin_trap", "callin_clock", "callin_online", "callin_enable", "idle"}

BootTypeOK ==
  /\ garbage \subseteq Slots
  /\ where \in [Harts -> BootPlaces \cup CallinPlaces \cup {"reset", "poll", "tp", "parked", "lost"}]
  /\ slot \in [Slots -> Slots \cup {Null, Wild}] /\ stackTask \in [Slots -> Slots \cup {Wild}]
  /\ zeroBuf \subseteq Slots /\ taskBuf \subseteq Slots /\ slotBuf \subseteq Slots
  /\ bringing \in Slots
  /\ sp \in [Harts -> Slots \cup {Null, Wild}] /\ tp \in [Harts -> Slots \cup {Wild}]
  /\ possible \subseteq Slots /\ online \subseteq Slots
  /\ mmCount \in Nat
  /\ vector \subseteq Harts /\ clock \subseteq Slots /\ irqsOn \subseteq Harts
  /\ sie \in [Harts -> SUBSET Sources] /\ raised \in [Harts -> SUBSET Sources]

(* What sie holds at reset is the firmware's; nothing writes it on the     *)
(* secondary harts.  Interrupts are off.                                   *)
PowerUp ==
  /\ garbage \in SUBSET Slots
  /\ slot = [c \in Slots |-> IF c \in garbage THEN Wild ELSE Null]
  /\ stackTask = [c \in Slots |-> Wild]
  /\ zeroBuf = {} /\ taskBuf = {} /\ slotBuf = {}
  /\ bringing = 0
  /\ sp = [h \in Harts |-> Null] /\ tp = [h \in Harts |-> Wild]
  /\ possible = {} /\ online = {0} /\ mmCount = 0
  /\ vector = {} /\ clock = {} /\ irqsOn = {}
  /\ sie \in [Harts -> SUBSET Sources]
  /\ raised = [h \in Harts |-> {}]

BootInit == PowerUp /\ where = [h \in Harts |-> "reset"]

-----------------------------------------------------------------------------
HartAt(h, place) == where[h] = place
Goes(h, place) == where' = [where EXCEPT ![h] = place]

KeepStacks == UNCHANGED <<garbage, stackVars, bringing>>
KeepRegs == UNCHANGED <<sp, tp>>

(* Hart 0's stores become visible. *)
PerformZero(c) ==
  /\ c \in zeroBuf
  /\ slot' = [slot EXCEPT ![c] = Null] /\ zeroBuf' = zeroBuf \ {c}
  /\ UNCHANGED <<garbage, where, stackTask, taskBuf, slotBuf, bringing, sp, tp, maskVars, trapVars>>

PerformTask(c) ==
  /\ c \in taskBuf
  /\ stackTask' = [stackTask EXCEPT ![c] = c] /\ taskBuf' = taskBuf \ {c}
  /\ UNCHANGED <<garbage, where, slot, zeroBuf, slotBuf, bringing, sp, tp, maskVars, trapVars>>

PerformSlot(c) ==
  /\ c \in slotBuf /\ c \notin zeroBuf
  /\ slot' = [slot EXCEPT ![c] = c] /\ slotBuf' = slotBuf \ {c}
  /\ UNCHANGED <<garbage, where, stackTask, zeroBuf, taskBuf, bringing, sp, tp, maskVars, trapVars>>

Perform == \E c \in Slots : PerformZero(c) \/ PerformTask(c) \/ PerformSlot(c)

-----------------------------------------------------------------------------
(* head.S: hart 0 clears .bss, and goes on with init_task on its own       *)
(* stack; a hart without a slot is parked.                                 *)
start_main ==
  /\ HartAt(0, "reset") /\ Goes(0, "setup")
  /\ zeroBuf' = Slots
  /\ sp' = [sp EXCEPT ![0] = 0] /\ tp' = [tp EXCEPT ![0] = 0]
  /\ UNCHANGED <<garbage, slot, stackTask, taskBuf, slotBuf, bringing, maskVars, trapVars>>

(* Mutant: the last hart that has a slot is parked with those that do not. *)
M_SecondaryParksLast(h) ==
  /\ h # 0 /\ HartAt(h, "reset")
  /\ Goes(h, IF h >= NR_CPUS - 1 THEN "parked" ELSE "poll")
  /\ KeepStacks /\ KeepRegs /\ UNCHANGED <<maskVars, trapVars>>

secondary_start(h) ==
  /\ h # 0 /\ HartAt(h, "reset")
  /\ Goes(h, IF h >= NR_CPUS THEN "parked" ELSE "poll")
  /\ KeepStacks /\ KeepRegs /\ UNCHANGED <<maskVars, trapVars>>

wait_for_cpu_up(h) ==
  /\ HartAt(h, "poll") /\ slot[h] # Null
  /\ Goes(h, "tp")
  /\ sp' = [sp EXCEPT ![h] = slot[h]]
  /\ KeepStacks /\ UNCHANGED <<tp, maskVars, trapVars>>

(* tp from the bottom of the stack.  What a hart does with a wild pointer  *)
(* is not followed any further.                                            *)
load_tp(h) ==
  /\ HartAt(h, "tp")
  /\ tp' = [tp EXCEPT ![h] = IF sp[h] = Wild THEN Wild ELSE stackTask[sp[h]]]
  /\ Goes(h, IF tp'[h] = Wild THEN "lost" ELSE "mm")
  /\ KeepStacks /\ UNCHANGED <<sp, maskVars, trapVars>>

-----------------------------------------------------------------------------
(* Called on hart 0 and on the others alike. *)
trap_init(h) == vector' = vector \cup {h}
init_clockevent(h) == clock' = clock \cup {tp[h]}

(* start_kernel, up to the point where interrupts are enabled. *)
setup_smp ==
  /\ HartAt(0, "setup") /\ Goes(0, "trap_init")
  /\ possible' = {c \in Slots : c < NumHarts}
  /\ KeepStacks /\ KeepRegs /\ UNCHANGED <<online, mmCount, trapVars>>

start_kernel_traps ==
  /\ HartAt(0, "trap_init") /\ Goes(0, "init_IRQ")
  /\ trap_init(0)
  /\ KeepStacks /\ KeepRegs /\ UNCHANGED <<maskVars, clock, sie, irqsOn, raised>>

init_IRQ ==
  /\ HartAt(0, "init_IRQ") /\ Goes(0, "time_init")
  /\ sie' = [sie EXCEPT ![0] = {"software"}]
  /\ KeepStacks /\ KeepRegs /\ UNCHANGED <<maskVars, vector, clock, irqsOn, raised>>

time_init ==
  /\ HartAt(0, "time_init") /\ Goes(0, "irq_enable")
  /\ init_clockevent(0)
  /\ sie' = [sie EXCEPT ![0] = @ \cup {"timer"}]
  /\ KeepStacks /\ KeepRegs /\ UNCHANGED <<maskVars, vector, irqsOn, raised>>

start_kernel_irqs ==
  /\ HartAt(0, "irq_enable") /\ Goes(0, "fork_idle")
  /\ irqsOn' = irqsOn \cup {0}
  /\ KeepStacks /\ KeepRegs /\ UNCHANGED <<maskVars, vector, clock, sie, raised>>

(* idle_threads_init: fork_idle for every possible cpu. *)
fork_idle ==
  /\ HartAt(0, "fork_idle") /\ Goes(0, "cpu_up")
  /\ taskBuf' = taskBuf \cup (possible \ {0})
  /\ UNCHANGED <<garbage, slot, stackTask, zeroBuf, slotBuf, bringing, sp, tp, maskVars, trapVars>>

(* Mutant: nothing orders the idle task's stores before the slot's. *)
M_CpuUpUnordered(c) ==
  /\ HartAt(0, "cpu_up") /\ c \in possible \ online
  /\ Goes(0, "__cpu_up") /\ bringing' = c
  /\ UNCHANGED <<garbage, stackVars, sp, tp, maskVars, trapVars>>

(* cpu_up(c), for the present cpus up to maxcpus; the locks it takes order *)
(* its stores behind those of fork_idle.                                   *)
cpu_up(c) ==
  /\ HartAt(0, "cpu_up") /\ c \in possible \ online
  /\ zeroBuf \cup taskBuf \cup slotBuf = {}
  /\ Goes(0, "__cpu_up") /\ bringing' = c
  /\ UNCHANGED <<garbage, stackVars, sp, tp, maskVars, trapVars>>

smp_cpus_done ==
  /\ HartAt(0, "cpu_up") /\ Goes(0, "up")
  /\ KeepStacks /\ KeepRegs /\ UNCHANGED <<maskVars, trapVars>>

__cpu_up ==
  /\ HartAt(0, "__cpu_up") /\ Goes(0, "wait")
  /\ slotBuf' = slotBuf \cup {bringing}
  /\ UNCHANGED <<garbage, slot, stackTask, zeroBuf, taskBuf, bringing, sp, tp, maskVars, trapVars>>

(* while (!cpu_online(cpu)); *)
__cpu_up_wait ==
  /\ HartAt(0, "wait") /\ bringing \in online /\ Goes(0, "cpu_up")
  /\ KeepStacks /\ KeepRegs /\ UNCHANGED <<maskVars, trapVars>>

-----------------------------------------------------------------------------
(* smp_callin.  smp_processor_id() is the cpu of the task in tp. *)
callin_mm(h) ==
  /\ HartAt(h, "mm") /\ Goes(h, "callin_trap")
  /\ mmCount' = mmCount + 1
  /\ KeepStacks /\ KeepRegs /\ UNCHANGED <<possible, online, trapVars>>

(* Mutant: interrupts are enabled as soon as there is a vector. *)
M_CallinEnablesEarly(h) ==
  /\ HartAt(h, "callin_trap") /\ Goes(h, "callin_clock")
  /\ trap_init(h) /\ irqsOn' = irqsOn \cup {h}
  /\ KeepStacks /\ KeepRegs /\ UNCHANGED <<maskVars, clock, sie, raised>>

callin_trap_init(h) ==
  /\ HartAt(h, "callin_trap") /\ Goes(h, "callin_clock")
  /\ trap_init(h)
  /\ KeepStacks /\ KeepRegs /\ UNCHANGED <<maskVars, clock, sie, irqsOn, raised>>

callin_init_clockevent(h) ==
  /\ HartAt(h, "callin_clock") /\ Goes(h, "callin_online")
  /\ init_clockevent(h)
  /\ KeepStacks /\ KeepRegs /\ UNCHANGED <<maskVars, vector, sie, irqsOn, raised>>

callin_set_online(h) ==
  /\ HartAt(h, "callin_online") /\ Goes(h, "callin_enable")
  /\ online' = online \cup {tp[h]}
  /\ KeepStacks /\ KeepRegs /\ UNCHANGED <<possible, mmCount, trapVars>>

(* local_flush_tlb_all(); local_irq_enable(); then the idle loop. *)
callin_irq_enable(h) ==
  /\ HartAt(h, "callin_enable") /\ Goes(h, "idle")
  /\ irqsOn' = irqsOn \cup {h}
  /\ KeepStacks /\ KeepRegs /\ UNCHANGED <<maskVars, vector, clock, sie, raised>>

-----------------------------------------------------------------------------
(* Interrupts.  The timer's becomes pending at any time, also at reset;    *)
(* other harts ring the ones that are online.                              *)
KeepHarts == KeepStacks /\ KeepRegs /\ UNCHANGED <<maskVars, vector, clock, sie, irqsOn>>

Raise(h, source) ==
  /\ source = "software" => h \in online /\ where[0] \in {"cpu_up", "up"}
  /\ source \notin raised[h]
  /\ raised' = [raised EXCEPT ![h] = @ \cup {source}]
  /\ KeepHarts /\ UNCHANGED where

(* do_IRQ: a trap needs a vector, and riscv_timer_interrupt the event      *)
(* handler of the cpu.                                                     *)
Interrupt(h, source) ==
  /\ h \in irqsOn /\ where[h] # "lost" /\ source \in sie[h] \cap raised[h]
  /\ raised' = [raised EXCEPT ![h] = @ \ {source}]
  /\ IF h \in vector /\ (source = "timer" => tp[h] \in clock)
     THEN UNCHANGED where ELSE Goes(h, "lost")
  /\ KeepHarts

-----------------------------------------------------------------------------
MainStep ==
  \/ start_main \/ setup_smp \/ start_kernel_traps \/ init_IRQ \/ time_init
  \/ start_kernel_irqs \/ fork_idle \/ (\E c \in Slots : cpu_up(c)) \/ smp_cpus_done
  \/ __cpu_up \/ __cpu_up_wait

SecondaryStep(h) ==
  \/ secondary_start(h) \/ wait_for_cpu_up(h) \/ load_tp(h) \/ callin_mm(h)
  \/ callin_trap_init(h) \/ callin_init_clockevent(h) \/ callin_set_online(h)
  \/ callin_irq_enable(h)

BootNext ==
  \/ Perform \/ MainStep
  \/ \E h \in Harts :
        SecondaryStep(h) \/ \E source \in Sources : Raise(h, source) \/ Interrupt(h, source)

BootSpec == BootInit /\ [][BootNext]_bootVars

(* Stores become visible, and harts execute. *)
BootFairness ==
  /\ WF_bootVars(Perform) /\ WF_bootVars(MainStep)
  /\ \A h \in Harts : WF_bootVars(SecondaryStep(h))
  /\ \A h \in Harts, source \in Sources : WF_bootVars(Interrupt(h, source))

BootFairSpec == BootSpec /\ BootFairness

-----------------------------------------------------------------------------
(* head.S:40-61, smpboot.c:38-70: a hart comes up on the stack and with    *)
(* the task that were made for it, announces itself and nobody else, and   *)
(* takes no interrupt that it cannot handle; unless it had a slot that was *)
(* not zero at power-up and looked before hart 0 had cleared it, it does   *)
(* not get lost.                                                           *)
HartsStartClean ==
  /\ \A h \in Harts :
        /\ where[h] = "lost" => h \in garbage \ {0}
        /\ where[h] \in CallinPlaces => sp[h] = h /\ tp[h] = h
        /\ h # 0 /\ h \in online => where[h] \in {"callin_enable", "idle"}
  /\ mmCount = Cardinality({h \in Harts : where[h] \in CallinPlaces \ {"mm"}})

(* smpboot.c:38-47: a hart with a clean slot that is to be brought up      *)
(* comes online, __cpu_up returns, and from then on the hart answers the   *)
(* interrupts that its firmware has enabled.                               *)
HartsComeUp ==
  /\ \A c \in Slots : (bringing = c /\ where[0] = "__cpu_up" /\ c \notin garbage) ~> (c \in online /\ where[0] = "cpu_up")
  /\ \A h \in Harts, source \in Sources :
        (h \in online /\ source \in sie[h] \cap raised[h] /\ where[0] = "up") ~> (source \notin raised[h])
=============================================================================

---------------------------- MODULE MachineProofs ----------------------------
(***************************************************************************)
(* Proofs about the machine the kernel comes up on, for any number of      *)
(* harts and every configuration string.                                   *)
(*                                                                         *)
(* The harts come up clean, whatever memory and sie hold at power-up and   *)
(* however hart 0's stores are delayed (Boot).  A hart reads the time and  *)
(* waits as long as it is asked to, for every width of a word (Clock).     *)
(* When harts interrupt each other no request is forgotten, the stores     *)
(* reach memory before the doorbells, and the BUG() for a spurious         *)
(* software interrupt is not reached (Ipi).                                *)
(*                                                                         *)
(* What the first passes over a configuration string measure is enough for *)
(* the last (ConfigString).  No pass looks at what it has written: where   *)
(* the parser goes next is a matter of the string and of the marks alone   *)
(* (NextShape, NextStage).  Pass 0 marks a block before any pass could     *)
(* come to it a second time, so that pass 1 counts as many devices as pass *)
(* 0 has marked (ScanInv), and pass 2 comes through the stages that pass 1 *)
(* came through (MeasureInv).  At each of them pass 1 had no more names,   *)
(* devices and resources than at its end, where it allocated.              *)
(*                                                                         *)
(* Numbers and quotients are exact in every width of a word (Arithmetic):  *)
(* the product of double words loses no carry (Xprod), the reciprocal of a *)
(* divisor is rounded by less than the division has to spare (Multipliers, *)
(* Rounding), shifting trailing zeros out of it changes nothing            *)
(* (ShiftsOut), and the loop of a parser keeps what it returns equal to    *)
(* what the characters it consumed denote (DigitsRead).                    *)
(***************************************************************************)
EXTENDS Boot, Clock, Ipi, ConfigString, Arithmetic, NumberTheorems, FiniteSetTheorems, SequenceTheorems, TLAPS

(* Hart 0 has what an interrupt needs before it enables them, and before   *)
(* it publishes a stack the stack's task is in memory.                     *)
MainInv ==
  /\ where[0] \in BootPlaces \cup {"reset"}
  /\ where[0] \notin {"reset", "setup", "trap_init"} => 0 \in vector
  /\ where[0] \notin {"reset", "setup", "trap_init", "init_IRQ", "time_init"} => 0 \in clock
  /\ where[0] # "reset" => tp[0] = 0
  /\ 0 \in irqsOn => where[0] \in {"fork_idle", "cpu_up", "__cpu_up", "wait", "up"}
  /\ where[0] = "__cpu_up" => stackTask[bringing] = bringing
  /\ 0 \in online
  /\ where[0] \in {"cpu_up", "__cpu_up", "wait", "up"} =>
       \A c \in possible \ {0} : c \in taskBuf \/ stackTask[c] = c

(* A slot holds nothing, its own stack, whose task is there, or what it    *)
(* held at power-up.                                                       *)
SlotInv ==
  \A c \in Slots :
     /\ slot[c] \in {Null, Wild, c} /\ stackTask[c] \in {Wild, c}
     /\ slot[c] = Wild => c \in garbage
     /\ c \in slotBuf \/ slot[c] = c => stackTask[c] = c

(* Where another hart is, and what it has by then. *)
HartInv ==
  \A h \in Harts \ {0} :
     /\ where[h] \in {"reset", "poll", "tp", "parked", "lost"} \cup CallinPlaces
     /\ where[h] \in {"poll", "tp"} \cup CallinPlaces => h \in Slots
     /\ where[h] = "tp" => (sp[h] = Wild /\ h \in garbage) \/ (sp[h] = h /\ stackTask[h] = h)
     /\ where[h] = "lost" => h \in garbage
     /\ where[h] \in CallinPlaces => sp[h] = h /\ tp[h] = h
     /\ where[h] \in {"callin_clock", "callin_online", "callin_enable", "idle"} => h \in vector
     /\ where[h] \in {"callin_online", "callin_enable", "idle"} => h \in clock
     /\ h \in irqsOn => where[h] = "idle"
     /\ h \in online => where[h] \in {"callin_enable", "idle"}

Passed == CallinPlaces \ {"mm"}
PassedAt(places) == {h \in Harts : places[h] \in Passed}
CountInv == mmCount = Cardinality(PassedAt(where))

BootInv == BootTypeOK /\ MainInv /\ SlotInv /\ HartInv /\ CountInv

-----------------------------------------------------------------------------
(* The constants. *)
LEMMA Zero == 0 \in Harts /\ 0 \in Slots /\ IsFiniteSet(Harts) /\ Slots \subseteq Int
              /\ Null \notin Slots /\ Wild \notin Slots /\ Null # Wild
  <1>1. NumHarts - 1 \in Int
    BY BootAssumption
  <1>2. IsFiniteSet(0 .. NumHarts - 1)
    BY <1>1, FS_Interval
  <1> QED
    BY <1>2, BootAssumption DEF Harts, Slots, Null, Wild

(* Whoever moves outside smp_callin, or inside it, is counted as before.   *)
LEMMA CountKept ==
  ASSUME BootTypeOK, NEW h \in Harts, NEW place, Goes(h, place),
         place \in Passed <=> where[h] \in Passed
  PROVE  PassedAt(where') = PassedAt(where)
  <1>1. \A g \in Harts : where'[g] = IF g = h THEN place ELSE where[g]
    BY DEF BootTypeOK, Goes
  <1> QED
    BY <1>1 DEF PassedAt

(* A hart that has enabled interrupts can take those that there are. *)
LEMMA TakesWhatItCan ==
  ASSUME BootInv, NEW h \in irqsOn PROVE h \in vector /\ tp[h] \in clock
  <1>1. CASE h = 0
    BY <1>1 DEF BootInv, MainInv
  <1>2. CASE h # 0
    BY <1>2 DEF BootInv, HartInv, BootTypeOK, CallinPlaces
  <1> QED
    BY <1>1, <1>2

(* Types are kept. *)
LEMMA TypesKept ==
  ASSUME BootInv, BootNext PROVE BootTypeOK'
  <1> USE Zero DEF BootPlaces, CallinPlaces, Sources, KeepStacks, KeepRegs, KeepHarts, HartAt, Goes, stackVars, maskVars, trapVars
  <1>1. CASE start_main
    BY <1>1 DEF BootInv, BootTypeOK, MainInv, SlotInv, HartInv, start_main
  <1>2. CASE setup_smp
    BY <1>2 DEF BootInv, BootTypeOK, MainInv, SlotInv, HartInv, setup_smp
  <1>3. CASE start_kernel_traps
    BY <1>3 DEF BootInv, BootTypeOK, MainInv, SlotInv, HartInv, start_kernel_traps, trap_init
  <1>4. CASE init_IRQ
    BY <1>4 DEF BootInv, BootTypeOK, MainInv, SlotInv, HartInv, init_IRQ
  <1>5. CASE time_init
    <2>1. tp[0] = 0
      BY <1>5 DEF BootInv, MainInv, time_init
    <2> QED
      BY <1>5, <2>1 DEF BootInv, BootTypeOK, time_init, init_clockevent
  <1>6. CASE start_kernel_irqs
    BY <1>6 DEF BootInv, BootTypeOK, MainInv, SlotInv, HartInv, start_kernel_irqs
  <1>7. CASE fork_idle
    BY <1>7 DEF BootInv, BootTypeOK, MainInv, SlotInv, HartInv, fork_idle
  <1>8. CASE smp_cpus_done
    BY <1>8 DEF BootInv, BootTypeOK, MainInv, SlotInv, HartInv, smp_cpus_done
  <1>9. CASE __cpu_up
    BY <1>9 DEF BootInv, BootTypeOK, MainInv, SlotInv, HartInv, __cpu_up
  <1>10. CASE __cpu_up_wait
    BY <1>10 DEF BootInv, BootTypeOK, MainInv, SlotInv, HartInv, __cpu_up_wait
  <1>11. ASSUME NEW c \in Slots, cpu_up(c) PROVE BootTypeOK'
    BY <1>11 DEF BootInv, BootTypeOK, MainInv, SlotInv, HartInv, cpu_up
  <1>12. ASSUME NEW c \in Slots, PerformZero(c) PROVE BootTypeOK'
    BY <1>12 DEF BootInv, BootTypeOK, MainInv, SlotInv, HartInv, PerformZero
  <1>13. ASSUME NEW c \in Slots, PerformTask(c) PROVE BootTypeOK'
    BY <1>13 DEF BootInv, BootTypeOK, MainInv, SlotInv, HartInv, PerformTask
  <1>14. ASSUME NEW c \in Slots, PerformSlot(c) PROVE BootTypeOK'
    BY <1>14 DEF BootInv, BootTypeOK, MainInv, SlotInv, HartInv, PerformSlot
  <1>15. ASSUME NEW h \in Harts, secondary_start(h) PROVE BootTypeOK'
    BY <1>15 DEF BootInv, BootTypeOK, MainInv, SlotInv, HartInv, secondary_start
  <1>16. ASSUME NEW h \in Harts, wait_for_cpu_up(h) PROVE BootTypeOK'
    BY <1>16 DEF BootInv, BootTypeOK, MainInv, SlotInv, HartInv, wait_for_cpu_up
  <1>17. ASSUME NEW h \in Harts, load_tp(h) PROVE BootTypeOK'
    BY <1>17 DEF BootInv, BootTypeOK, MainInv, SlotInv, HartInv, load_tp
  <1>18. ASSUME NEW h \in Harts, callin_mm(h) PROVE BootTypeOK'
    BY <1>18 DEF BootInv, BootTypeOK, MainInv, SlotInv, HartInv, callin_mm
  <1>19. ASSUME NEW h \in Harts, callin_trap_init(h) PROVE BootTypeOK'
    BY <1>19 DEF BootInv, BootTypeOK, MainInv, SlotInv, HartInv, callin_trap_init, trap_init
  <1>20. ASSUME NEW h \in Harts, callin_init_clockevent(h) PROVE BootTypeOK'
    <2>1. h # 0
      BY <1>20 DEF BootInv, MainInv, callin_init_clockevent
    <2>2. tp[h] \in Slots
      BY <1>20, <2>1 DEF BootInv, HartInv, callin_init_clockevent
    <2> QED
      BY <1>20, <2>2 DEF BootInv, BootTypeOK, callin_init_clockevent, init_clockevent
  <1>21. ASSUME NEW h \in Harts, callin_set_online(h) PROVE BootTypeOK'
    <2>1. h # 0
      BY <1>21 DEF BootInv, MainInv, callin_set_online
    <2>2. tp[h] \in Slots
      BY <1>21, <2>1 DEF BootInv, HartInv, callin_set_online
    <2> QED
      BY <1>21, <2>2 DEF BootInv, BootTypeOK, callin_set_online
  <1>22. ASSUME NEW h \in Harts, callin_irq_enable(h) PROVE BootTypeOK'
    BY <1>22 DEF BootInv, BootTypeOK, MainInv, SlotInv, HartInv, callin_irq_enable
  <1>23. ASSUME NEW h \in Harts, NEW source \in Sources, Raise(h, source) PROVE BootTypeOK'
    BY <1>23 DEF BootInv, BootTypeOK, MainInv, SlotInv, HartInv, Raise
  <1>24. ASSUME NEW h \in Harts, NEW source \in Sources, Interrupt(h, source) PROVE BootTypeOK'
    BY <1>24 DEF BootInv, BootTypeOK, MainInv, SlotInv, HartInv, Interrupt
  <1> QED
    BY <1>1, <1>2, <1>3, <1>4, <1>5, <1>6, <1>7, <1>8, <1>9, <1>10, <1>11, <1>12, <1>13, <1>14, <1>15, <1>16, <1>17, <1>18, <1>19, <1>20, <1>21, <1>22, <1>23, <1>24 DEF BootNext, Perform, MainStep, SecondaryStep

(* What hart 0 has. *)
LEMMA MainKept ==
  ASSUME BootInv, BootNext PROVE MainInv'
  <1> USE Zero DEF BootPlaces, CallinPlaces, Sources, KeepStacks, KeepRegs, KeepHarts, HartAt, Goes, stackVars, maskVars, trapVars
  <1>1. CASE start_main
    BY <1>1 DEF BootInv, BootTypeOK, MainInv, SlotInv, HartInv, start_main
  <1>2. CASE setup_smp
    BY <1>2 DEF BootInv, BootTypeOK, MainInv, SlotInv, HartInv, setup_smp
  <1>3. CASE start_kernel_traps
    BY <1>3 DEF BootInv, BootTypeOK, MainInv, SlotInv, HartInv, start_kernel_traps, trap_init
  <1>4. CASE init_IRQ
    BY <1>4 DEF BootInv, BootTypeOK, MainInv, SlotInv, HartInv, init_IRQ
  <1>5. CASE time_init
    BY <1>5 DEF BootInv, BootTypeOK, MainInv, SlotInv, HartInv, time_init, init_clockevent
  <1>6. CASE start_kernel_irqs
    BY <1>6 DEF BootInv, BootTypeOK, MainInv, SlotInv, HartInv, start_kernel_irqs
  <1>7. CASE fork_idle
    BY <1>7 DEF BootInv, BootTypeOK, MainInv, SlotInv, HartInv, fork_idle
  <1>8. CASE smp_cpus_done
    BY <1>8 DEF BootInv, BootTypeOK, MainInv, SlotInv, HartInv, smp_cpus_done
  <1>9. CASE __cpu_up
    BY <1>9 DEF BootInv, BootTypeOK, MainInv, SlotInv, HartInv, __cpu_up
  <1>10. CASE __cpu_up_wait
    BY <1>10 DEF BootInv, BootTypeOK, MainInv, SlotInv, HartInv, __cpu_up_wait
  <1>11. ASSUME NEW c \in Slots, cpu_up(c) PROVE MainInv'
    BY <1>11 DEF BootInv, BootTypeOK, MainInv, SlotInv, HartInv, cpu_up
  <1>12. ASSUME NEW c \in Slots, PerformZero(c) PROVE MainInv'
    BY <1>12 DEF BootInv, BootTypeOK, MainInv, SlotInv, HartInv, PerformZero
  <1>13. ASSUME NEW c \in Slots, PerformTask(c) PROVE MainInv'
    BY <1>13 DEF BootInv, BootTypeOK, MainInv, SlotInv, HartInv, PerformTask
  <1>14. ASSUME NEW c \in Slots, PerformSlot(c) PROVE MainInv'
    BY <1>14 DEF BootInv, BootTypeOK, MainInv, SlotInv, HartInv, PerformSlot
  <1>15. ASSUME NEW h \in Harts, secondary_start(h) PROVE MainInv'
    BY <1>15 DEF BootInv, BootTypeOK, MainInv, SlotInv, HartInv, secondary_start
  <1>16. ASSUME NEW h \in Harts, wait_for_cpu_up(h) PROVE MainInv'
    BY <1>16 DEF BootInv, BootTypeOK, MainInv, SlotInv, HartInv, wait_for_cpu_up
  <1>17. ASSUME NEW h \in Harts, load_tp(h) PROVE MainInv'
    BY <1>17 DEF BootInv, BootTypeOK, MainInv, SlotInv, HartInv, load_tp
  <1>18. ASSUME NEW h \in Harts, callin_mm(h) PROVE MainInv'
    BY <1>18 DEF BootInv, BootTypeOK, MainInv, SlotInv, HartInv, callin_mm
  <1>19. ASSUME NEW h \in Harts, callin_trap_init(h) PROVE MainInv'
    BY <1>19 DEF BootInv, BootTypeOK, MainInv, SlotInv, HartInv, callin_trap_init, trap_init
  <1>20. ASSUME NEW h \in Harts, callin_init_clockevent(h) PROVE MainInv'
    BY <1>20 DEF BootInv, BootTypeOK, MainInv, SlotInv, HartInv, callin_init_clockevent, init_clockevent
  <1>21. ASSUME NEW h \in Harts, callin_set_online(h) PROVE MainInv'
    BY <1>21 DEF BootInv, BootTypeOK, MainInv, SlotInv, HartInv, callin_set_online
  <1>22. ASSUME NEW h \in Harts, callin_irq_enable(h) PROVE MainInv'
    BY <1>22 DEF BootInv, BootTypeOK, MainInv, SlotInv, HartInv, callin_irq_enable
  <1>23. ASSUME NEW h \in Harts, NEW source \in Sources, Raise(h, source) PROVE MainInv'
    BY <1>23 DEF BootInv, BootTypeOK, MainInv, SlotInv, HartInv, Raise
  <1>24. ASSUME NEW h \in Harts, NEW source \in Sources, Interrupt(h, source) PROVE MainInv'
    BY <1>24 DEF BootInv, BootTypeOK, MainInv, SlotInv, HartInv, Interrupt
  <1> QED
    BY <1>1, <1>2, <1>3, <1>4, <1>5, <1>6, <1>7, <1>8, <1>9, <1>10, <1>11, <1>12, <1>13, <1>14, <1>15, <1>16, <1>17, <1>18, <1>19, <1>20, <1>21, <1>22, <1>23, <1>24 DEF BootNext, Perform, MainStep, SecondaryStep

(* The slots. *)
LEMMA SlotsKept ==
  ASSUME BootInv, BootNext PROVE SlotInv'
  <1> USE Zero DEF BootPlaces, CallinPlaces, Sources, KeepStacks, KeepRegs, KeepHarts, HartAt, Goes, stackVars, maskVars, trapVars
  <1>1. CASE start_main
    BY <1>1 DEF BootInv, BootTypeOK, MainInv, SlotInv, HartInv, start_main
  <1>2. CASE setup_smp
    BY <1>2 DEF BootInv, BootTypeOK, MainInv, SlotInv, HartInv, setup_smp
  <1>3. CASE start_kernel_traps
    BY <1>3 DEF BootInv, BootTypeOK, MainInv, SlotInv, HartInv, start_kernel_traps, trap_init
  <1>4. CASE init_IRQ
    BY <1>4 DEF BootInv, BootTypeOK, MainInv, SlotInv, HartInv, init_IRQ
  <1>5. CASE time_init
    BY <1>5 DEF BootInv, BootTypeOK, MainInv, SlotInv, HartInv, time_init, init_clockevent
  <1>6. CASE start_kernel_irqs
    BY <1>6 DEF BootInv, BootTypeOK, MainInv, SlotInv, HartInv, start_kernel_irqs
  <1>7. CASE fork_idle
    BY <1>7 DEF BootInv, BootTypeOK, MainInv, SlotInv, HartInv, fork_idle
  <1>8. CASE smp_cpus_done
    BY <1>8 DEF BootInv, BootTypeOK, MainInv, SlotInv, HartInv, smp_cpus_done
  <1>9. CASE __cpu_up
    BY <1>9 DEF BootInv, BootTypeOK, MainInv, SlotInv, HartInv, __cpu_up
  <1>10. CASE __cpu_up_wait
    BY <1>10 DEF BootInv, BootTypeOK, MainInv, SlotInv, HartInv, __cpu_up_wait
  <1>11. ASSUME NEW c \in Slots, cpu_up(c) PROVE SlotInv'
    BY <1>11 DEF BootInv, BootTypeOK, MainInv, SlotInv, HartInv, cpu_up
  <1>12. ASSUME NEW c \in Slots, PerformZero(c) PROVE SlotInv'
    BY <1>12 DEF BootInv, BootTypeOK, MainInv, SlotInv, HartInv, PerformZero
  <1>13. ASSUME NEW c \in Slots, PerformTask(c) PROVE SlotInv'
    BY <1>13 DEF BootInv, BootTypeOK, MainInv, SlotInv, HartInv, PerformTask
  <1>14. ASSUME NEW c \in Slots, PerformSlot(c) PROVE SlotInv'
    BY <1>14 DEF BootInv, BootTypeOK, MainInv, SlotInv, HartInv, PerformSlot
  <1>15. ASSUME NEW h \in Harts, secondary_start(h) PROVE SlotInv'
    BY <1>15 DEF BootInv, BootTypeOK, MainInv, SlotInv, HartInv, secondary_start
  <1>16. ASSUME NEW h \in Harts, wait_for_cpu_up(h) PROVE SlotInv'
    BY <1>16 DEF BootInv, BootTypeOK, MainInv, SlotInv, HartInv, wait_for_cpu_up
  <1>17. ASSUME NEW h \in Harts, load_tp(h) PROVE SlotInv'
    BY <1>17 DEF BootInv, BootTypeOK, MainInv, SlotInv, HartInv, load_tp
  <1>18. ASSUME NEW h \in Harts, callin_mm(h) PROVE SlotInv'
    BY <1>18 DEF BootInv, BootTypeOK, MainInv, SlotInv, HartInv, callin_mm
  <1>19. ASSUME NEW h \in Harts, callin_trap_init(h) PROVE SlotInv'
    BY <1>19 DEF BootInv, BootTypeOK, MainInv, SlotInv, HartInv, callin_trap_init, trap_init
  <1>20. ASSUME NEW h \in Harts, callin_init_clockevent(h) PROVE SlotInv'
    BY <1>20 DEF BootInv, BootTypeOK, MainInv, SlotInv, HartInv, callin_init_clockevent, init_clockevent
  <1>21. ASSUME NEW h \in Harts, callin_set_online(h) PROVE SlotInv'
    BY <1>21 DEF BootInv, BootTypeOK, MainInv, SlotInv, HartInv, callin_set_online
  <1>22. ASSUME NEW h \in Harts, callin_irq_enable(h) PROVE SlotInv'
    BY <1>22 DEF BootInv, BootTypeOK, MainInv, SlotInv, HartInv, callin_irq_enable
  <1>23. ASSUME NEW h \in Harts, NEW source \in Sources, Raise(h, source) PROVE SlotInv'
    BY <1>23 DEF BootInv, BootTypeOK, MainInv, SlotInv, HartInv, Raise
  <1>24. ASSUME NEW h \in Harts, NEW source \in Sources, Interrupt(h, source) PROVE SlotInv'
    BY <1>24 DEF BootInv, BootTypeOK, MainInv, SlotInv, HartInv, Interrupt
  <1> QED
    BY <1>1, <1>2, <1>3, <1>4, <1>5, <1>6, <1>7, <1>8, <1>9, <1>10, <1>11, <1>12, <1>13, <1>14, <1>15, <1>16, <1>17, <1>18, <1>19, <1>20, <1>21, <1>22, <1>23, <1>24 DEF BootNext, Perform, MainStep, SecondaryStep

(* The other harts. *)
LEMMA HartsKept ==
  ASSUME BootInv, BootNext PROVE HartInv'
  <1> USE Zero DEF BootPlaces, CallinPlaces, Sources, KeepStacks, KeepRegs, KeepHarts, HartAt, Goes, stackVars, maskVars, trapVars
  <1>1. CASE start_main
    BY <1>1 DEF BootInv, BootTypeOK, MainInv, SlotInv, HartInv, start_main
  <1>2. CASE setup_smp
    BY <1>2 DEF BootInv, BootTypeOK, MainInv, SlotInv, HartInv, setup_smp
  <1>3. CASE start_kernel_traps
    BY <1>3 DEF BootInv, BootTypeOK, MainInv, SlotInv, HartInv, start_kernel_traps, trap_init
  <1>4. CASE init_IRQ
    BY <1>4 DEF BootInv, BootTypeOK, MainInv, SlotInv, HartInv, init_IRQ
  <1>5. CASE time_init
    BY <1>5 DEF BootInv, BootTypeOK, MainInv, SlotInv, HartInv, time_init, init_clockevent
  <1>6. CASE start_kernel_irqs
    BY <1>6 DEF BootInv, BootTypeOK, MainInv, SlotInv, HartInv, start_kernel_irqs
  <1>7. CASE fork_idle
    BY <1>7 DEF BootInv, BootTypeOK, MainInv, SlotInv, HartInv, fork_idle
  <1>8. CASE smp_cpus_done
    BY <1>8 DEF BootInv, BootTypeOK, MainInv, SlotInv, HartInv, smp_cpus_done
  <1>9. CASE __cpu_up
    BY <1>9 DEF BootInv, BootTypeOK, MainInv, SlotInv, HartInv, __cpu_up
  <1>10. CASE __cpu_up_wait
    BY <1>10 DEF BootInv, BootTypeOK, MainInv, SlotInv, HartInv, __cpu_up_wait
  <1>11. ASSUME NEW c \in Slots, cpu_up(c) PROVE HartInv'
    BY <1>11 DEF BootInv, BootTypeOK, MainInv, SlotInv, HartInv, cpu_up
  <1>12. ASSUME NEW c \in Slots, PerformZero(c) PROVE HartInv'
    BY <1>12 DEF BootInv, BootTypeOK, MainInv, SlotInv, HartInv, PerformZero
  <1>13. ASSUME NEW c \in Slots, PerformTask(c) PROVE HartInv'
    BY <1>13 DEF BootInv, BootTypeOK, MainInv, SlotInv, HartInv, PerformTask
  <1>14. ASSUME NEW c \in Slots, PerformSlot(c) PROVE HartInv'
    BY <1>14 DEF BootInv, BootTypeOK, MainInv, SlotInv, HartInv, PerformSlot
  <1>15. ASSUME NEW h \in Harts, secondary_start(h) PROVE HartInv'
    <2>1. h < NR_CPUS => h \in Slots
      BY BootAssumption DEF Harts, Slots
    <2>2. h >= NR_CPUS \/ h < NR_CPUS
      BY BootAssumption DEF Harts
    <2> QED
      BY <1>15, <2>1, <2>2 DEF BootInv, BootTypeOK, HartInv, secondary_start
  <1>16. ASSUME NEW h \in Harts, wait_for_cpu_up(h) PROVE HartInv'
    <2>1. h # 0
      BY <1>16 DEF BootInv, MainInv, wait_for_cpu_up
    <2>2. h \in Slots
      BY <1>16, <2>1 DEF BootInv, HartInv, wait_for_cpu_up
    <2>3. \/ slot[h] = Wild /\ h \in garbage
          \/ slot[h] = h /\ stackTask[h] = h
      BY <1>16, <2>2 DEF BootInv, SlotInv, wait_for_cpu_up
    <2> QED
      BY <1>16, <2>1, <2>2, <2>3 DEF BootInv, BootTypeOK, HartInv, wait_for_cpu_up
  <1>17. ASSUME NEW h \in Harts, load_tp(h) PROVE HartInv'
    BY <1>17 DEF BootInv, BootTypeOK, MainInv, SlotInv, HartInv, load_tp
  <1>18. ASSUME NEW h \in Harts, callin_mm(h) PROVE HartInv'
    BY <1>18 DEF BootInv, BootTypeOK, MainInv, SlotInv, HartInv, callin_mm
  <1>19. ASSUME NEW h \in Harts, callin_trap_init(h) PROVE HartInv'
    BY <1>19 DEF BootInv, BootTypeOK, MainInv, SlotInv, HartInv, callin_trap_init, trap_init
  <1>20. ASSUME NEW h \in Harts, callin_init_clockevent(h) PROVE HartInv'
    BY <1>20 DEF BootInv, BootTypeOK, MainInv, SlotInv, HartInv, callin_init_clockevent, init_clockevent
  <1>21. ASSUME NEW h \in Harts, callin_set_online(h) PROVE HartInv'
    BY <1>21 DEF BootInv, BootTypeOK, MainInv, SlotInv, HartInv, callin_set_online
  <1>22. ASSUME NEW h \in Harts, callin_irq_enable(h) PROVE HartInv'
    BY <1>22 DEF BootInv, BootTypeOK, MainInv, SlotInv, HartInv, callin_irq_enable
  <1>23. ASSUME NEW h \in Harts, NEW source \in Sources, Raise(h, source) PROVE HartInv'
    BY <1>23 DEF BootInv, BootTypeOK, MainInv, SlotInv, HartInv, Raise
  <1>24. ASSUME NEW h \in Harts, NEW source \in Sources, Interrupt(h, source) PROVE HartInv'
    BY <1>24 DEF BootInv, BootTypeOK, MainInv, SlotInv, HartInv, Interrupt
  <1> QED
    BY <1>1, <1>2, <1>3, <1>4, <1>5, <1>6, <1>7, <1>8, <1>9, <1>10, <1>11, <1>12, <1>13, <1>14, <1>15, <1>16, <1>17, <1>18, <1>19, <1>20, <1>21, <1>22, <1>23, <1>24 DEF BootNext, Perform, MainStep, SecondaryStep

(* init_mm is counted once for every hart that has come into smp_callin.   *)
LEMMA CountHolds ==
  ASSUME BootInv, BootNext PROVE CountInv'
  <1> USE Zero DEF KeepStacks, KeepRegs, KeepHarts, HartAt, maskVars, trapVars, stackVars
  <1>1. ASSUME NEW h \in Harts, NEW place, Goes(h, place), mmCount' = mmCount,
               place \in Passed <=> where[h] \in Passed
        PROVE  CountInv'
    BY <1>1, CountKept DEF BootInv, CountInv
  <1>2. ASSUME UNCHANGED <<where, mmCount>> PROVE CountInv'
    BY <1>2 DEF BootInv, CountInv, PassedAt
  <1>3. CASE MainStep
    <2> USE DEF MainInv, BootInv, Passed, CallinPlaces
    <2>1. CASE start_main \/ setup_smp \/ start_kernel_traps \/ init_IRQ \/ time_init
      BY <2>1, <1>1 DEF start_main, setup_smp, start_kernel_traps, init_IRQ, time_init
    <2>2. CASE start_kernel_irqs \/ fork_idle \/ (\E c \in Slots : cpu_up(c)) \/ smp_cpus_done
      BY <2>2, <1>1 DEF start_kernel_irqs, fork_idle, cpu_up, smp_cpus_done
    <2>3. CASE __cpu_up \/ __cpu_up_wait
      BY <2>3, <1>1 DEF __cpu_up, __cpu_up_wait
    <2> QED
      BY <1>3, <2>1, <2>2, <2>3 DEF MainStep
  <1>4. CASE Perform
    BY <1>4, <1>2 DEF Perform, PerformZero, PerformTask, PerformSlot
  <1>5. ASSUME NEW h \in Harts, callin_mm(h) PROVE CountInv'
    <2>1. h \notin PassedAt(where) /\ where \in [Harts -> BootPlaces \cup CallinPlaces \cup {"reset", "poll", "tp", "parked", "lost"}]
      BY <1>5 DEF callin_mm, PassedAt, Passed, CallinPlaces, BootInv, BootTypeOK
    <2>2. PassedAt(where') = PassedAt(where) \cup {h}
      BY <1>5, <2>1 DEF callin_mm, PassedAt, Goes, Passed, CallinPlaces
    <2>3. IsFiniteSet(PassedAt(where))
      BY FS_Subset DEF PassedAt
    <2>4. Cardinality(PassedAt(where) \cup {h}) = Cardinality(PassedAt(where)) + 1
      BY <2>1, <2>3, FS_AddElement
    <2> QED
      BY <1>5, <2>2, <2>4 DEF callin_mm, CountInv, BootInv
  <1>6. ASSUME NEW h \in Harts, SecondaryStep(h), ~ callin_mm(h) PROVE CountInv'
    <2> USE DEF Passed, CallinPlaces
    <2>1. CASE secondary_start(h) \/ wait_for_cpu_up(h)
      BY <2>1, <1>1 DEF secondary_start, wait_for_cpu_up
    <2>2. CASE load_tp(h)
      BY <2>2, <1>1 DEF load_tp
    <2>3. CASE callin_trap_init(h) \/ callin_init_clockevent(h)
      BY <2>3, <1>1 DEF callin_trap_init, callin_init_clockevent
    <2>4. CASE callin_set_online(h) \/ callin_irq_enable(h)
      BY <2>4, <1>1 DEF callin_set_online, callin_irq_enable
    <2> QED
      BY <1>6, <2>1, <2>2, <2>3, <2>4 DEF SecondaryStep
  <1>7. ASSUME NEW h \in Harts, NEW source \in Sources, Raise(h, source) PROVE CountInv'
    BY <1>7, <1>2 DEF Raise
  <1>8. ASSUME NEW h \in Harts, NEW source \in Sources, Interrupt(h, source) PROVE CountInv'
    <2>1. h \in vector /\ (source = "timer" => tp[h] \in clock)
      BY <1>8, TakesWhatItCan DEF Interrupt
    <2> QED
      BY <1>8, <2>1, <1>2 DEF Interrupt
  <1> QED
    BY <1>3, <1>4, <1>5, <1>6, <1>7, <1>8 DEF BootNext

(* At power-up every hart is at reset, with interrupts off. *)
LEMMA InitKept == BootInit => BootInv
  <1> SUFFICES ASSUME BootInit PROVE BootInv
    OBVIOUS
  <1> USE Zero DEF BootInit, PowerUp
  <1>1. BootTypeOK
    BY DEF BootTypeOK, BootPlaces
  <1>2. MainInv /\ SlotInv /\ HartInv
    BY DEF MainInv, SlotInv, HartInv, BootPlaces, CallinPlaces
  <1>3. PassedAt(where) = {}
    BY DEF PassedAt, Passed, CallinPlaces
  <1> QED
    BY <1>1, <1>2, <1>3, FS_EmptySet DEF BootInv, CountInv

LEMMA StutterKept == BootInv /\ UNCHANGED bootVars => BootInv'
  <1> SUFFICES ASSUME BootInv, UNCHANGED bootVars PROVE BootInv'
    OBVIOUS
  <1> USE DEF bootVars, stackVars, maskVars, trapVars
  <1>1. BootTypeOK'
    BY DEF BootInv, BootTypeOK
  <1>2. MainInv' /\ SlotInv'
    BY DEF BootInv, MainInv, SlotInv
  <1>3. HartInv'
    BY DEF BootInv, HartInv
  <1>4. CountInv'
    BY DEF BootInv, CountInv, PassedAt
  <1> QED
    BY <1>1, <1>2, <1>3, <1>4 DEF BootInv

(* head.S and smpboot.c: the inductive invariant holds of every boot.      *)
THEOREM BootInvariance == BootSpec => []BootInv
  <1>1. BootInv /\ [BootNext]_bootVars => BootInv'
    BY StutterKept, TypesKept, MainKept, SlotsKept, HartsKept, CountHolds DEF BootInv
  <1> QED
    BY <1>1, InitKept, PTL DEF BootSpec

(* Every variable keeps its type: in particular no slot, mask or           *)
(* clock_event_device is indexed beyond NR_CPUS, whatever sbi_num_harts    *)
(* says (head.S:43, smpboot.c:31).                                         *)
THEOREM BootTypeCorrect == BootSpec => []BootTypeOK
  BY BootInvariance, PTL DEF BootInv

(* head.S:40-61, smpboot.c:38-70: harts come up on their own stack, with   *)
(* their own task, and only a hart whose slot was not zero at power-up is  *)
(* lost.                                                                   *)
THEOREM HartsStartCleanHolds == BootSpec => []HartsStartClean
  <1>1. BootInv => HartsStartClean
    <2> SUFFICES ASSUME BootInv PROVE HartsStartClean
      OBVIOUS
    <2>1. ASSUME NEW h \in Harts
          PROVE  /\ where[h] = "lost" => h \in garbage \ {0}
                 /\ where[h] \in CallinPlaces => sp[h] = h /\ tp[h] = h
                 /\ h # 0 /\ h \in online => where[h] \in {"callin_enable", "idle"}
      BY DEF BootInv, MainInv, HartInv, BootPlaces, CallinPlaces
    <2> QED
      BY <2>1 DEF BootInv, CountInv, PassedAt, Passed, HartsStartClean
  <1> QED
    BY <1>1, BootInvariance, PTL

-----------------------------------------------------------------------------
(* The words of the counter. *)
LEMMA Words ==
  ASSUME NEW x \in Nat, NEW w \in Nat \ {0}
  PROVE  x = (x \div w) * w + (x % w) /\ x \div w \in Nat /\ x % w \in 0 .. w - 1
  OBVIOUS

LEMMA WordsGrow ==
  ASSUME NEW x \in Nat, NEW y \in Nat, NEW w \in Nat \ {0}, x <= y
  PROVE  x \div w <= y \div w
  <1> DEFINE p == x \div w
             q == y \div w
             r == x % w
             s == y % w
  <1>1. x = p * w + r /\ y = q * w + s /\ p \in Nat /\ q \in Nat
        /\ r \in 0 .. w - 1 /\ s \in 0 .. w - 1
    BY Words
  <1> HIDE DEF p, q, r, s
  <1>2. ASSUME q < p PROVE FALSE
    <2> DEFINE d == p - q - 1
    <2>1. d \in Nat /\ p = q + 1 + d
      BY <1>1, <1>2
    <2> HIDE DEF d
    <2>2. p * w = q * w + w + d * w
      BY <2>1, <1>1
    <2>3. d * w \in Nat /\ q * w \in Nat /\ p * w \in Nat
      BY <2>1, <1>1
    <2> QED
      BY <2>2, <2>3, <1>1
  <1>3. p <= q
    BY <1>1, <1>2
  <1> QED
    BY <1>3 DEF p, q

LEMMA ClockConstants ==
  Word \in Nat \ {0} /\ timebase \in Nat \ {0} /\ Million \in Nat \ {0} /\ MaxCycles \in Nat
  <1>1. Word \in Nat
    BY ClockAssumption
  <1>2. Word * Word - 1 \in Int
    BY <1>1
  <1> QED
    BY <1>2, ClockAssumption

ClockTypes ==
  /\ first \in Nat /\ passed \in Nat /\ since \in 0 .. passed
  /\ task \in [call : {"none", "__delay", "set_next_event"}, arg : Nat, result : Nat \cup {NoTime}]
  /\ hi \in Nat /\ lo \in Nat
  /\ t0 \in Nat \cup {NoTime} /\ event \in Nat \cup {NoTime}

(* What has been read is what the counter showed when it was: the high     *)
(* word earlier, the low one since, both together when the high word was   *)
(* still the same.                                                         *)
ReadInv ==
  /\ cpc = "lo" => hi <= mtime \div Word
  /\ cpc = "again" =>
       \E n \in since .. passed : lo = (first + n) % Word /\ hi <= (first + n) \div Word
  /\ cpc = "use" => \E n \in since .. passed : Value = first + n

(* What a delay or an event waits for. *)
WaitInv ==
  /\ t0 # NoTime => first <= t0 /\ t0 <= first + since
  /\ event # NoTime => event >= first + task.arg
  /\ task.call = "none" => event = NoTime
  /\ task.result # NoTime => task.result >= task.arg

ClockInv == ClockTypes /\ ReadInv /\ WaitInv

LEMMA ClockTyped == ClockTypes /\ [ClockNext]_clockVars => ClockTypes'
  <1> SUFFICES ASSUME ClockTypes, [ClockNext]_clockVars PROVE ClockTypes'
    OBVIOUS
  <1> USE ClockConstants DEF ClockTypes, NoTime
  <1>1. Value \in Nat /\ mtime \in Nat
    BY DEF Value, Combined, mtime
  <1>2. mtime \div Word \in Nat /\ mtime % Word \in Nat
    BY <1>1
  <1>3. CASE Cycle \/ get_cycles
    BY <1>2, <1>3 DEF Cycle, get_cycles, rdtimeh_first, rdtime, rdtimeh_differs, rdtimeh_same
  <1>4. ASSUME NEW call, NEW arg \in Nat, Request(call, arg),
               call \in {"__delay", "set_next_event"}
        PROVE  ClockTypes'
    <2>1. arg % Word \in Nat
      BY <1>4, Words
    <2> QED
      BY <1>4, <2>1 DEF Request
  <1>5. ASSUME NEW n \in Requests PROVE n \in Nat /\ udelay_cycles(n) \in Nat
    <2>0. n \in Nat
      BY ClockAssumption
    <2>1. Word * Word \in Nat \ {0} /\ n * timebase \in Nat
      BY <2>0
    <2>2. (n * timebase) % (Word * Word) \in Nat
      BY <2>1, Words
    <2>3. ((n * timebase) % (Word * Word)) % Million \in Nat
      <3> DEFINE m == (n * timebase) % (Word * Word)
      <3>1. m \in Nat
        BY <2>2
      <3> HIDE DEF m
      <3>2. m % Million \in Nat
        BY <3>1
      <3> QED
        BY <3>2 DEF m
    <2> QED
      BY <2>0, <2>3 DEF udelay_cycles
  <1>6. CASE \E n \in Requests : udelay(n) \/ set_next_event(n)
    <2>1. PICK n \in Requests : Request("__delay", udelay_cycles(n)) \/ Request("set_next_event", n)
      BY <1>6 DEF udelay, set_next_event
    <2>3. CASE Request("__delay", udelay_cycles(n))
      BY <2>3, <1>4, <1>5
    <2>4. CASE Request("set_next_event", n)
      BY <2>4, <1>4, <1>5
    <2> QED
      BY <2>1, <2>3, <2>4
  <1>7. CASE delay_start \/ delay_loop \/ delay_return
    BY <1>1, <1>7 DEF delay_start, delay_loop, delay_return
  <1>8. CASE set_timer \/ TimerFires
    BY <1>1, <1>8 DEF set_timer, TimerFires
  <1>9. CASE UNCHANGED clockVars
    BY <1>9 DEF clockVars
  <1> QED
    BY <1>3, <1>6, <1>7, <1>8, <1>9 DEF ClockNext

(* get_cycles returns what the counter showed while it was executed. *)
LEMMA ReadKept == ClockTypes /\ ReadInv /\ [ClockNext]_clockVars => ReadInv'
  <1> SUFFICES ASSUME ClockTypes, ReadInv, [ClockNext]_clockVars PROVE ReadInv'
    OBVIOUS
  <1> USE ClockConstants DEF ClockTypes, NoTime
  <1>1. mtime \in Nat /\ mtime = first + passed /\ Word \in Nat \ {0}
    BY DEF mtime
  <1>2. CASE Cycle
    <2>1. mtime' = mtime + 1
      BY <1>1, <1>2 DEF Cycle, mtime
    <2>2. mtime \div Word <= mtime' \div Word /\ mtime' \div Word \in Int /\ mtime \div Word \in Int
      BY <2>1, <1>1, WordsGrow, Words
    <2> QED
      BY <1>2, <2>2 DEF Cycle, ReadInv, Value, Combined
  <1>3. CASE rdtimeh_first
    <2>1. mtime \div Word \in Nat
      BY <1>1, Words
    <2> QED
      BY <1>3, <2>1 DEF rdtimeh_first, ReadInv, mtime
  <1>4. CASE rdtime
    BY <1>1, <1>4 DEF rdtime, ReadInv
  <1>5. CASE rdtimeh_differs
    BY <1>5 DEF rdtimeh_differs, ReadInv
  <1>6. CASE rdtimeh_same
    <2>1. PICK n \in since .. passed : lo = (first + n) % Word /\ hi <= (first + n) \div Word
      BY <1>6 DEF rdtimeh_same, ReadInv
    <2>2. first + n \in Nat /\ first + n <= mtime
      BY <1>1
    <2>3. (first + n) \div Word <= mtime \div Word
      BY <1>1, <2>2, WordsGrow
    <2>4. (first + n) \div Word \in Nat
      BY <1>1, <2>2, Words
    <2>5. hi = (first + n) \div Word
      BY <1>6, <2>1, <2>3, <2>4 DEF rdtimeh_same
    <2>6. first + n = hi * Word + lo
      BY <2>1, <2>2, <2>5, <1>1, Words
    <2>7. cpc' = "use" /\ Value' = first + n /\ since' = since /\ passed' = passed /\ first' = first
      BY <1>6, <2>6 DEF rdtimeh_same, Value, Combined
    <2> QED
      BY <2>7 DEF ReadInv
  <1>7. CASE \E n \in Requests : udelay(n) \/ set_next_event(n)
    BY <1>7 DEF udelay, set_next_event, Request, ReadInv
  <1>8. CASE delay_start \/ delay_loop \/ delay_return
    BY <1>8 DEF delay_start, delay_loop, delay_return, ReadInv
  <1>9. CASE set_timer
    BY <1>9 DEF set_timer, ReadInv
  <1>10. CASE TimerFires \/ UNCHANGED clockVars
    BY <1>10 DEF TimerFires, ReadInv, clockVars, Value, Combined, mtime
  <1> QED
    BY <1>2, <1>3, <1>4, <1>5, <1>6, <1>7, <1>8, <1>9, <1>10 DEF ClockNext, get_cycles

(* Whoever waits does so from a time that has been. *)
LEMMA WaitKept == ClockInv /\ [ClockNext]_clockVars => WaitInv'
  <1> SUFFICES ASSUME ClockInv, [ClockNext]_clockVars PROVE WaitInv'
    OBVIOUS
  <1> USE ClockConstants DEF ClockInv, ClockTypes, WaitInv, NoTime
  <1>1. cpc = "use" => \E n \in since .. passed : Value = first + n
    BY DEF ReadInv
  <1>2. CASE Cycle \/ get_cycles
    BY <1>2 DEF Cycle, get_cycles, rdtimeh_first, rdtime, rdtimeh_differs, rdtimeh_same
  <1>3. CASE \E n \in Requests : udelay(n) \/ set_next_event(n)
    <2>1. PICK call, arg : Request(call, arg) /\ call # "none"
      BY <1>3 DEF udelay, set_next_event
    <2>2. task' = [call |-> call, arg |-> arg % Word, result |-> NoTime]
      BY <2>1 DEF Request
    <2>3. event' = NoTime /\ t0' = t0 /\ since' = since /\ first' = first
      BY <2>1 DEF Request, NoTask
    <2>4. task'.call # "none"
      BY <2>1, <2>2
    <2>5. task'.result = NoTime
      BY <2>2
    <2> QED
      BY <2>3, <2>4, <2>5
  <1>4. CASE delay_start
    BY <1>1, <1>4 DEF delay_start
  <1>5. CASE delay_loop
    BY <1>5 DEF delay_loop
  <1>6. CASE delay_return
    <2>1. PICK n \in since .. passed : Value = first + n
      BY <1>1, <1>6 DEF delay_return
    <2>2. Value - t0 \in Nat /\ Value - t0 <= passed
      BY <2>1, <1>6 DEF delay_return
    <2>3. (Value - t0) % Word <= Value - t0
      <3> DEFINE x == Value - t0
      <3>0. x \in Nat
        BY <2>2
      <3> HIDE DEF x
      <3>1. x = (x \div Word) * Word + (x % Word) /\ x \div Word \in Nat /\ x % Word \in Nat
        BY <3>0
      <3>2. (x \div Word) * Word \in Nat
        BY <3>1
      <3>3. x % Word <= x
        BY <3>1, <3>2
      <3> QED
        BY <3>3 DEF x
    <2>4. (Value - t0) % Word >= task.arg /\ (Value - t0) % Word \in Int
      BY <1>6, <2>2, Words DEF delay_return, Elapsed
    <2>5. passed >= task.arg
      BY <2>2, <2>3, <2>4
    <2>6. task'.result = passed /\ task'.arg = task.arg /\ task'.call = task.call
      BY <1>6 DEF delay_return
    <2> QED
      BY <1>6, <2>5, <2>6 DEF delay_return
  <1>7. CASE set_timer
    <2>1. Value >= first /\ Value \in Nat
      BY <1>1, <1>7 DEF set_timer
    <2>2. event' >= first' + task'.arg
      BY <1>7, <2>1 DEF set_timer
    <2> QED
      BY <1>7, <2>2 DEF set_timer
  <1>8. CASE TimerFires
    BY <1>8 DEF TimerFires, mtime
  <1>9. CASE UNCHANGED clockVars
    BY <1>9 DEF clockVars
  <1> QED
    BY <1>2, <1>3, <1>4, <1>5, <1>6, <1>7, <1>8, <1>9 DEF ClockNext

(* timex.h:20-30, delay.c:6-11, time.c:18-23: the time that is read is one *)
(* that was, and delays and events are not early, for every width of a     *)
(* word, every frequency and every duration.                               *)
THEOREM TimeIsKept == ClockSpec => []TimeKept
  <1>1. ClockInit => ClockInv
    <2> SUFFICES ASSUME ClockInit PROVE ClockInv
      OBVIOUS
    <2>1. first \in Nat
      <3>1. first \in 0 .. Word * Word - 1 - MaxCycles
        BY DEF ClockInit
      <3>2. Word * Word - 1 - MaxCycles \in Int
        BY ClockConstants
      <3> QED
        BY <3>1, <3>2
    <2> QED
      BY <2>1 DEF ClockInit, ClockInv, ClockTypes, ReadInv, WaitInv, NoTask, NoTime
  <1>2. ClockInv => TimeKept
    BY DEF ClockInv, ReadInv, WaitInv, TimeKept
  <1> QED
    BY <1>1, <1>2, ClockTyped, ReadKept, WaitKept, PTL DEF ClockSpec, ClockInv

-----------------------------------------------------------------------------
(* Inter-processor interrupts. *)

(* Where a sender's stores can be, and what it works through. *)
SendInv ==
  \A s \in Cpus :
     /\ reqBuf[s] # {} => spc[s] = "mb1" /\ kind[s] \in Kinds
     /\ bitBuf[s] # {} => spc[s] \in {"set", "mb2"}
     /\ reqBuf[s] \subseteq targets[s]
     /\ bitBuf[s] \subseteq targets[s]
     /\ spc[s] \in {"set", "ring"} => todo[s] \subseteq targets[s]

(* The doorbell is still pending when the handler clears it: only the hart *)
(* itself clears it, and it does not interrupt its own handler.            *)
DoorbellInv ==
  \A c \in Cpus : hpc[c] # "bug" /\ (hpc[c] = "clear" => ssip[c])

IInv == TypeOK /\ SendInv /\ DoorbellInv /\ NoLostIpi

LEMMA MsgOfType == \A k \in AllKinds : MsgOf(k) \in Msgs
  BY DEF MsgOf, Msgs

LEMMA InitIInv == IpiInit => IInv
  BY DEF IpiInit, IInv, TypeOK, SendInv, DoorbellInv, NoLostIpi, AllKinds

(* What the actions of one hart leave alone. *)
LEMMA StepTypeOK == TypeOK /\ SendInv /\ [IpiNext]_ipiVars => TypeOK'
  <1> SUFFICES ASSUME TypeOK, SendInv, [IpiNext]_ipiVars PROVE TypeOK'
    OBVIOUS
  <1> USE KindsAssumption DEF TypeOK, handlerVars, sendVars, bufVars, Sending, Handle
  <1>1. ASSUME NEW s \in Cpus, NEW k \in Kinds, NEW mask \in SUBSET Cpus, Post(s, k, mask)
        PROVE  TypeOK'
    BY <1>1 DEF Post
  <1>2. ASSUME NEW s \in Cpus, NEW k \in Kinds, NEW c \in Cpus, PostQuietly(s, k, c)
        PROVE  TypeOK'
    BY <1>2 DEF PostQuietly
  <1>3. ASSUME NEW s \in Cpus, PerformRequest(s) PROVE TypeOK'
    BY <1>3 DEF PerformRequest, SendInv
  <1>4. ASSUME NEW s \in Cpus, PerformSetBit(s) PROVE TypeOK'
    BY <1>4, MsgOfType DEF PerformSetBit
  <1>5. ASSUME NEW s \in Cpus, send_mb_before_bits(s) \/ send_mb_before_doorbells(s)
        PROVE  TypeOK'
    BY <1>5 DEF send_mb_before_bits, send_mb_before_doorbells
  <1>6. ASSUME NEW s \in Cpus, send_set_bit(s) PROVE TypeOK'
    <2>1. CASE todo[s] = {}
      BY <1>6, <2>1 DEF send_set_bit
    <2>2. CASE todo[s] # {}
      <3>1. PICK c \in todo[s] : /\ bitBuf' = [bitBuf EXCEPT ![s] = @ \cup {c}]
                                /\ todo' = [todo EXCEPT ![s] = @ \ {c}]
                                /\ UNCHANGED spc
        BY <1>6, <2>2 DEF send_set_bit
      <3>2. c \in Cpus /\ bitBuf' \in [Cpus -> SUBSET Cpus] /\ todo' \in [Cpus -> SUBSET Cpus]
        BY <3>1
      <3>3. QED
        BY <1>6, <3>1, <3>2 DEF send_set_bit
    <2>3. QED
      BY <2>1, <2>2
  <1>7. ASSUME NEW s \in Cpus, send_sbi_send_ipi(s) PROVE TypeOK'
    <2>1. CASE todo[s] = {}
      BY <1>7, <2>1 DEF send_sbi_send_ipi
    <2>2. CASE todo[s] # {}
      <3>1. PICK c \in todo[s] : /\ ssip' = [ssip EXCEPT ![c] = TRUE]
                                /\ todo' = [todo EXCEPT ![s] = @ \ {c}]
                                /\ UNCHANGED spc
        BY <1>7, <2>2 DEF send_sbi_send_ipi
      <3>2. ssip' \in [Cpus -> BOOLEAN] /\ todo' \in [Cpus -> SUBSET Cpus]
        BY <3>1
      <3>3. QED
        BY <1>7, <3>1, <3>2 DEF send_sbi_send_ipi
    <2>3. QED
      BY <2>1, <2>2
  <1>8. ASSUME NEW s \in Cpus, CallReturns(s) PROVE TypeOK'
    BY <1>8 DEF CallReturns
  <1>9. ASSUME NEW c \in Cpus, do_IRQ_software(c) \/ handle_ipi_clear(c) \/ ipi_stop(c)
        PROVE  TypeOK'
    <2>1. CASE do_IRQ_software(c)
      BY <2>1 DEF do_IRQ_software
    <2>2. CASE handle_ipi_clear(c)
      <3>1. hpc' \in [Cpus -> {"off", "clear", "xchg", "reschedule", "call", "stopped", "bug"}]
        BY <2>2 DEF handle_ipi_clear
      <3>2. QED
        BY <2>2, <3>1 DEF handle_ipi_clear
    <2>3. CASE ipi_stop(c)
      BY <2>3 DEF ipi_stop
    <2>4. QED
      BY <1>9, <2>1, <2>2, <2>3
  <1>10. ASSUME NEW c \in Cpus, handle_ipi_xchg(c) PROVE TypeOK'
    BY <1>10 DEF handle_ipi_xchg
  <1>11. ASSUME NEW c \in Cpus, handle_ipi_reschedule(c) PROVE TypeOK'
    BY <1>11 DEF handle_ipi_reschedule
  <1>12. ASSUME NEW c \in Cpus, handle_ipi_call(c) PROVE TypeOK'
    BY <1>12 DEF handle_ipi_call
  <1>13. CASE UNCHANGED ipiVars
    BY <1>13 DEF ipiVars
  <1>14. QED
    BY <1>1, <1>2, <1>3, <1>4, <1>5, <1>6, <1>7, <1>8, <1>9, <1>10, <1>11, <1>12,
       <1>13 DEF IpiNext, Send, Receive

LEMMA StepSendInv == TypeOK /\ SendInv /\ [IpiNext]_ipiVars => SendInv'
  <1> SUFFICES ASSUME TypeOK, SendInv, [IpiNext]_ipiVars PROVE SendInv'
    OBVIOUS
  <1> USE DEF TypeOK, SendInv, Sending, Drained, sendVars, bufVars
  <1>1. ASSUME NEW s \in Cpus, NEW k \in Kinds, NEW mask \in SUBSET Cpus, Post(s, k, mask)
        PROVE  SendInv'
    BY <1>1 DEF Post
  <1>2. ASSUME NEW s \in Cpus, NEW k \in Kinds, NEW c \in Cpus, PostQuietly(s, k, c)
        PROVE  SendInv'
    BY <1>2 DEF PostQuietly
  <1>3. ASSUME NEW s \in Cpus, PerformRequest(s) \/ PerformSetBit(s) PROVE SendInv'
    BY <1>3 DEF PerformRequest, PerformSetBit
  <1>4. ASSUME NEW s \in Cpus, send_mb_before_bits(s) \/ send_mb_before_doorbells(s)
        PROVE  SendInv'
    BY <1>4 DEF send_mb_before_bits, send_mb_before_doorbells
  <1>5. ASSUME NEW s \in Cpus, send_set_bit(s) PROVE SendInv'
    BY <1>5 DEF send_set_bit
  <1>6. ASSUME NEW s \in Cpus, send_sbi_send_ipi(s) \/ CallReturns(s) PROVE SendInv'
    BY <1>6 DEF send_sbi_send_ipi, CallReturns
  <1>7. ASSUME NEW c \in Cpus, Receive(c) PROVE SendInv'
    BY <1>7 DEF Receive, Handle, do_IRQ_software, handle_ipi_clear, handle_ipi_xchg,
                handle_ipi_reschedule, handle_ipi_call, ipi_stop
  <1>8. CASE UNCHANGED ipiVars
    BY <1>8 DEF ipiVars
  <1>9. QED
    BY <1>1, <1>2, <1>3, <1>4, <1>5, <1>6, <1>7, <1>8 DEF IpiNext, Send

LEMMA StepDoorbellInv == TypeOK /\ DoorbellInv /\ [IpiNext]_ipiVars => DoorbellInv'
  <1> SUFFICES ASSUME TypeOK, DoorbellInv, [IpiNext]_ipiVars PROVE DoorbellInv'
    OBVIOUS
  <1> USE DEF TypeOK, DoorbellInv, handlerVars
  <1>1. ASSUME NEW s \in Cpus, Send(s) PROVE DoorbellInv'
    BY <1>1 DEF Send, PerformRequest, PerformSetBit, send_mb_before_bits, send_set_bit,
                send_mb_before_doorbells, send_sbi_send_ipi, CallReturns
  <1>2. ASSUME NEW s \in Cpus, NEW k \in Kinds,
               \/ \E mask \in SUBSET Cpus : Post(s, k, mask)
               \/ \E c \in Cpus : PostQuietly(s, k, c)
        PROVE  DoorbellInv'
    BY <1>2 DEF Post, PostQuietly
  <1>3. ASSUME NEW c \in Cpus, Receive(c) PROVE DoorbellInv'
    BY <1>3 DEF Receive, Handle, do_IRQ_software, handle_ipi_clear, handle_ipi_xchg,
                handle_ipi_reschedule, handle_ipi_call, ipi_stop
  <1>4. CASE UNCHANGED ipiVars
    BY <1>4 DEF ipiVars
  <1>5. QED
    BY <1>1, <1>2, <1>3, <1>4 DEF IpiNext

-----------------------------------------------------------------------------
(* A request that is announced stays announced, until it is served.        *)

(* Sending only adds announcements, or moves one from the sender to the    *)
(* bits and from there to the doorbell.                                    *)
LEMMA PostKeepsAnnounced ==
  ASSUME IInv, NEW s \in Cpus, NEW k \in Kinds,
         NEW d \in Cpus, NEW m \in Msgs, Announced(d, m),
         \/ \E mask \in SUBSET Cpus : Post(s, k, mask)
         \/ \E c \in Cpus : PostQuietly(s, k, c)
  PROVE  Announced(d, m)'
  <1> USE DEF IInv, TypeOK, SendInv, WillLook, AboutToServe, Sending, handlerVars,
              sendVars, bufVars
  <1>1. ASSUME NEW mask \in SUBSET Cpus, Post(s, k, mask) PROVE Announced(d, m)'
    <2>1. BitOwed(d, m) => BitOwed(d, m)'
      BY <1>1 DEF BitOwed, Post
    <2>2. WillLook(d) => WillLook(d)'
      BY <1>1 DEF Post
    <2>3. AboutToServe(d, m) => AboutToServe(d, m)'
      BY <1>1 DEF Post
    <2>4. QED
      BY <1>1, <2>1, <2>2, <2>3 DEF Announced, Post
  <1>2. ASSUME NEW c \in Cpus, PostQuietly(s, k, c) PROVE Announced(d, m)'
    BY <1>2 DEF Announced, BitOwed, PostQuietly
  <1>3. QED
    BY <1>1, <1>2

LEMMA PerformKeepsAnnounced ==
  ASSUME IInv, NEW s \in Cpus, NEW d \in Cpus, NEW m \in Msgs, Announced(d, m),
         PerformRequest(s) \/ PerformSetBit(s)
  PROVE  Announced(d, m)'
  BY DEF IInv, TypeOK, SendInv, Announced, BitOwed, WillLook, AboutToServe,
         PerformRequest, PerformSetBit, handlerVars, sendVars, bufVars

LEMMA FenceKeepsAnnounced ==
  ASSUME IInv, NEW s \in Cpus, NEW d \in Cpus, NEW m \in Msgs, Announced(d, m),
         send_mb_before_bits(s) \/ send_mb_before_doorbells(s) \/ CallReturns(s)
  PROVE  Announced(d, m)'
  BY DEF IInv, TypeOK, SendInv, Announced, BitOwed, WillLook, AboutToServe, Sending, Drained,
         send_mb_before_bits, send_mb_before_doorbells, CallReturns,
         handlerVars, sendVars, bufVars

LEMMA SetBitKeepsAnnounced ==
  ASSUME IInv, NEW s \in Cpus, NEW d \in Cpus, NEW m \in Msgs, Announced(d, m),
         send_set_bit(s)
  PROVE  Announced(d, m)'
  BY DEF IInv, TypeOK, SendInv, Announced, BitOwed, WillLook, AboutToServe, Sending,
         send_set_bit, handlerVars, sendVars, bufVars

LEMMA RingKeepsAnnounced ==
  ASSUME IInv, NEW s \in Cpus, NEW d \in Cpus, NEW m \in Msgs, Announced(d, m),
         send_sbi_send_ipi(s)
  PROVE  Announced(d, m)'
  BY DEF IInv, TypeOK, SendInv, Announced, BitOwed, WillLook, AboutToServe, Sending,
         send_sbi_send_ipi, handlerVars, sendVars, bufVars

(* The handler's steps up to the serving ones: from the doorbell to the    *)
(* bits it takes.                                                          *)
LEMMA TakeKeepsAnnounced ==
  ASSUME IInv, NEW c \in Cpus, NEW d \in Cpus, NEW m \in Msgs, Announced(d, m),
         do_IRQ_software(c) \/ handle_ipi_clear(c) \/ handle_ipi_xchg(c)
  PROVE  Announced(d, m)'
  BY DEF IInv, TypeOK, DoorbellInv, Announced, BitOwed, WillLook, AboutToServe, Handle,
         do_IRQ_software, handle_ipi_clear, handle_ipi_xchg,
         handlerVars, sendVars, bufVars

(* Serving takes a message off the list only together with its requests.   *)
LEMMA ServeKeepsAnnounced ==
  ASSUME IInv, NEW c \in Cpus, NEW d \in Cpus, NEW m \in Msgs, Announced(d, m)
  PROVE  /\ handle_ipi_reschedule(c) /\ (d = c => m \notin ops[c] \/ m # "IPI_RESCHEDULE")
              => Announced(d, m)'
         /\ handle_ipi_call(c) /\ (d = c => m \notin ops[c] \/ m # "IPI_CALL_FUNC")
              => Announced(d, m)'
         /\ ipi_stop(c) /\ d # c => Announced(d, m)'
  BY DEF IInv, TypeOK, Announced, BitOwed, WillLook, AboutToServe, Handle, Msgs,
         handle_ipi_reschedule, handle_ipi_call, ipi_stop,
         handlerVars, sendVars, bufVars

(* A step that adds no request and stops no hart, and keeps announced what *)
(* it leaves unserved, keeps NoLostIpi.                                    *)
LEMMA Frame ==
  ASSUME TypeOK, NoLostIpi,
         \A d \in Cpus : reqs'[d] \subseteq reqs[d],
         \A d \in Cpus : hpc'[d] # "stopped" => hpc[d] # "stopped",
         \A d \in Cpus : \A r \in reqs'[d] :
            hpc'[d] # "stopped" /\ Announced(d, MsgOf(r[1])) => Announced(d, MsgOf(r[1]))'
  PROVE  NoLostIpi'
  BY DEF NoLostIpi, MsgOf

LEMMA RequestKind ==
  ASSUME TypeOK, NEW d \in Cpus, NEW r \in reqs[d]
  PROVE  r[1] \in AllKinds /\ MsgOf(r[1]) \in Msgs
  BY KindsAssumption, MsgOfType DEF TypeOK

LEMMA StepNoLostIpi == IInv /\ [IpiNext]_ipiVars => NoLostIpi'
  <1> SUFFICES ASSUME IInv, [IpiNext]_ipiVars PROVE NoLostIpi'
    OBVIOUS
  <1> USE DEF handlerVars, sendVars, bufVars
  <1>0. TypeOK /\ SendInv /\ NoLostIpi
    BY DEF IInv
  <1>1. ASSUME NEW s \in Cpus, NEW k \in Kinds, NEW mask \in SUBSET Cpus, Post(s, k, mask)
        PROVE  NoLostIpi'
    <2>1. reqs' = reqs /\ hpc' = hpc
      BY <1>1 DEF Post
    <2>2. QED
      BY <1>0, <1>1, <2>1, Frame, RequestKind, PostKeepsAnnounced
  <1>2. ASSUME NEW s \in Cpus, NEW k \in Kinds, NEW c \in Cpus, PostQuietly(s, k, c)
        PROVE  NoLostIpi'
    <2> SUFFICES ASSUME NEW d \in Cpus, hpc[d] # "stopped", NEW r \in reqs'[d]
                 PROVE  Announced(d, MsgOf(r[1]))'
      BY <1>2 DEF NoLostIpi, PostQuietly, MsgOf
    <2>1. PICK q \in reqs[d] : r[1] = q[1]
      BY <1>0, <1>2 DEF PostQuietly, TypeOK
    <2>2. Announced(d, MsgOf(q[1]))
      BY <1>0 DEF NoLostIpi
    <2>3. QED
      BY <1>0, <1>2, <2>1, <2>2, RequestKind, PostKeepsAnnounced
  <1>3. ASSUME NEW s \in Cpus, PerformRequest(s) PROVE NoLostIpi'
    <2> SUFFICES ASSUME NEW d \in Cpus, hpc[d] # "stopped", NEW r \in reqs'[d]
                 PROVE  Announced(d, MsgOf(r[1]))'
      BY <1>3 DEF NoLostIpi, PerformRequest, MsgOf
    <2>1. CASE r \in reqs[d]
      BY <1>0, <1>3, <2>1, RequestKind, PerformKeepsAnnounced DEF NoLostIpi
    <2>2. CASE r \notin reqs[d]
      <3>1. r = <<kind[s], s>> /\ d \in reqBuf[s]
        BY <1>0, <1>3, <2>2 DEF PerformRequest, TypeOK
      <3>2. r[1] = kind[s] /\ spc[s] = "mb1" /\ d \in targets[s]
        BY <1>0, <3>1 DEF SendInv
      <3>3. BitOwed(d, MsgOf(kind[s]))'
        BY <1>3, <3>2 DEF BitOwed, PerformRequest, MsgOf
      <3>4. MsgOf(r[1])' = MsgOf(kind[s])'
        BY <1>3, <3>2 DEF PerformRequest
      <3>5. QED
        BY <3>3, <3>4, <3>2 DEF Announced, MsgOf
    <2>3. QED
      BY <2>1, <2>2
  <1>4. ASSUME NEW s \in Cpus,
               \/ PerformSetBit(s) \/ send_mb_before_bits(s) \/ send_set_bit(s)
               \/ send_mb_before_doorbells(s) \/ send_sbi_send_ipi(s) \/ CallReturns(s)
        PROVE  NoLostIpi'
    <2>1. reqs' = reqs /\ hpc' = hpc
      BY <1>4 DEF PerformSetBit, send_mb_before_bits, send_set_bit,
                  send_mb_before_doorbells, send_sbi_send_ipi, CallReturns
    <2>2. QED
      BY <1>0, <1>4, <2>1, Frame, RequestKind, PerformKeepsAnnounced, FenceKeepsAnnounced,
         SetBitKeepsAnnounced, RingKeepsAnnounced
  <1>5. ASSUME NEW c \in Cpus,
               do_IRQ_software(c) \/ handle_ipi_clear(c) \/ handle_ipi_xchg(c)
        PROVE  NoLostIpi'
    <2>1. reqs' = reqs /\ \A d \in Cpus : hpc'[d] # "stopped" => hpc[d] # "stopped"
      BY <1>0, <1>5 DEF do_IRQ_software, handle_ipi_clear, handle_ipi_xchg, Handle, TypeOK
    <2>2. QED
      BY <1>0, <1>5, <2>1, Frame, RequestKind, TakeKeepsAnnounced
  <1>6. ASSUME NEW c \in Cpus, handle_ipi_reschedule(c) PROVE NoLostIpi'
    <2>1. /\ \A d \in Cpus : reqs'[d] \subseteq reqs[d]
          /\ \A d \in Cpus : hpc'[d] # "stopped" => hpc[d] # "stopped"
      BY <1>0, <1>6 DEF handle_ipi_reschedule, Handle, TypeOK
    <2>2. \A r \in reqs'[c] : MsgOf(r[1]) = "IPI_RESCHEDULE" => "IPI_RESCHEDULE" \notin ops[c]
      BY <1>0, <1>6 DEF handle_ipi_reschedule, MsgOf, TypeOK
    <2>3. \A d \in Cpus : \A r \in reqs'[d] :
             Announced(d, MsgOf(r[1])) => Announced(d, MsgOf(r[1]))'
      BY <1>0, <1>6, <2>1, <2>2, RequestKind, ServeKeepsAnnounced
    <2>4. QED
      BY <1>0, <2>1, <2>3, Frame
  <1>7. ASSUME NEW c \in Cpus, handle_ipi_call(c) PROVE NoLostIpi'
    <2>1. /\ \A d \in Cpus : reqs'[d] \subseteq reqs[d]
          /\ \A d \in Cpus : hpc'[d] # "stopped" => hpc[d] # "stopped"
      BY <1>0, <1>7 DEF handle_ipi_call, Handle, TypeOK
    <2>2. \A r \in reqs'[c] : MsgOf(r[1]) = "IPI_CALL_FUNC" => "IPI_CALL_FUNC" \notin ops[c]
      <3> SUFFICES ASSUME NEW r \in reqs'[c], MsgOf(r[1]) = "IPI_CALL_FUNC",
                          "IPI_CALL_FUNC" \in ops[c]
                   PROVE  FALSE
        OBVIOUS
      <3>1. reqs'[c] = {q \in reqs[c] : q[1] # "call"}
        BY <1>0, <1>7 DEF handle_ipi_call, TypeOK
      <3>2. r \in reqs[c] /\ r[1] # "call" /\ r[1] # "stop"
        BY <1>7, <3>1 DEF handle_ipi_call
      <3>3. r[1] = "reschedule"
        BY <1>0, <3>2, RequestKind DEF AllKinds
      <3>4. QED
        BY <3>3 DEF MsgOf
    <2>3. \A d \in Cpus : \A r \in reqs'[d] :
             Announced(d, MsgOf(r[1])) => Announced(d, MsgOf(r[1]))'
      BY <1>0, <1>7, <2>1, <2>2, RequestKind, ServeKeepsAnnounced
    <2>4. QED
      BY <1>0, <2>1, <2>3, Frame
  <1>8. ASSUME NEW c \in Cpus, ipi_stop(c) PROVE NoLostIpi'
    <2>1. /\ reqs' = reqs /\ hpc'[c] = "stopped"
          /\ \A d \in Cpus : hpc'[d] # "stopped" => hpc[d] # "stopped"
      BY <1>0, <1>8 DEF ipi_stop, Handle, TypeOK
    <2>2. \A d \in Cpus : \A r \in reqs'[d] : hpc'[d] # "stopped"
             /\ Announced(d, MsgOf(r[1])) => Announced(d, MsgOf(r[1]))'
      BY <1>0, <1>8, <2>1, RequestKind, ServeKeepsAnnounced
    <2>3. QED
      BY <1>0, <2>1, <2>2, Frame
  <1>9. CASE UNCHANGED ipiVars
    BY <1>0, <1>9 DEF ipiVars, NoLostIpi, Announced, BitOwed, WillLook, AboutToServe, MsgOf
  <1>10. QED
    BY <1>1, <1>2, <1>3, <1>4, <1>5, <1>6, <1>7, <1>8, <1>9 DEF IpiNext, Send, Receive

THEOREM Invariance == IpiSpec => []IInv
  <1>1. IInv /\ [IpiNext]_ipiVars => IInv'
    BY StepTypeOK, StepSendInv, StepDoorbellInv, StepNoLostIpi DEF IInv
  <1>2. QED
    BY InitIInv, <1>1, PTL DEF IpiSpec

(* Requests, bits, doorbells and callers keep their types, whoever rings    *)
(* whom (smp.c:44-115).                                                    *)
THEOREM TypeCorrect == IpiSpec => []TypeOK
  <1>1. IInv => TypeOK
    BY DEF IInv
  <1>2. QED
    BY Invariance, <1>1, PTL

(* Every request in memory is announced until it is served.                *)
THEOREM NoIpiIsLost == IpiSpec => []NoLostIpi
  <1>1. IInv => NoLostIpi
    BY DEF IInv
  <1>2. QED
    BY Invariance, <1>1, PTL

(* The two mb() of send_ipi_message do their work. *)
THEOREM DoorbellsComeLast == IpiSpec => []StoresBeforeDoorbells
  <1>1. IInv => StoresBeforeDoorbells
    BY DEF IInv, SendInv, StoresBeforeDoorbells, Drained
  <1>2. QED
    BY Invariance, <1>1, PTL

(* BUG() in riscv_software_interrupt is not reached by an IPI. *)
THEOREM NoSpuriousIpis == IpiSpec => []NoSpuriousIpi
  <1>1. IInv => NoSpuriousIpi
    BY DEF IInv, DoorbellInv, NoSpuriousIpi
  <1>2. QED
    BY Invariance, <1>1, PTL

-----------------------------------------------------------------------------
(* The configuration string. *)

(* The partial sums of a sequence of numbers. *)
Sums(s, d, m) ==
  s \in [0 .. m -> Nat] /\ s[0] = 0 /\ \A i \in 1 .. m : s[i] = s[i - 1] + d[i]

LEMMA SumsExist ==
  ASSUME NEW N \in Nat, NEW d, \A i \in 1 .. N : d[i] \in Nat
  PROVE  \E s : Sums(s, d, N)
  <1> DEFINE S == {m \in Nat : m <= N => \E s : Sums(s, d, m)}
  <1>1. 0 \in S
    <2>1. Sums([i \in 0 .. 0 |-> 0], d, 0) BY DEF Sums
    <2>2. \E s : Sums(s, d, 0) BY <2>1
    <2> QED BY <2>2
  <1>2. ASSUME NEW m \in Nat, m \in S PROVE m + 1 \in S
    <2> SUFFICES ASSUME m + 1 <= N PROVE \E s : Sums(s, d, m + 1)
      OBVIOUS
    <2>1. PICK s : Sums(s, d, m) BY <1>2
    <2> DEFINE t == [i \in 0 .. m + 1 |-> IF i = m + 1 THEN s[m] + d[m + 1] ELSE s[i]]
    <2>2. d[m + 1] \in Nat OBVIOUS
    <2>3. t \in [0 .. m + 1 -> Nat] BY <2>1, <2>2 DEF Sums
    <2>4. t[0] = 0 BY <2>1 DEF Sums
    <2>5. ASSUME NEW i \in 1 .. m + 1 PROVE t[i] = t[i - 1] + d[i]
      <3>1. CASE i = m + 1
        <4>1. i - 1 = m /\ m \in 0 .. m + 1 /\ i \in 0 .. m + 1 /\ m # m + 1 BY <3>1
        <4> QED BY <3>1, <4>1
      <3>2. CASE i # m + 1
        <4>1. i \in 1 .. m /\ i \in 0 .. m + 1 /\ i - 1 \in 0 .. m + 1 /\ i - 1 # m + 1
          BY <3>2
        <4>2. s[i] = s[i - 1] + d[i] BY <2>1, <4>1 DEF Sums
        <4> QED BY <3>2, <4>1, <4>2
      <3> QED BY <3>1, <3>2
    <2> HIDE DEF t
    <2>6. Sums(t, d, m + 1) BY <2>3, <2>4, <2>5 DEF Sums
    <2> QED BY <2>6
  <1> HIDE DEF S
  <1>3. N \in S BY <1>1, <1>2, SetInduction
  <1> QED BY <1>3 DEF S

LEMMA SumsUnique ==
  ASSUME NEW N \in Nat, NEW d, NEW s, Sums(s, d, N), NEW n \in 0 .. N, NEW t,
         t = [i \in 0 .. n |-> IF i = 0 THEN 0 ELSE t[i - 1] + d[i]]
  PROVE  t[n] = s[n]
  <1> DEFINE S == {m \in Nat : m <= n => t[m] = s[m]}
  <1>1. 0 \in S BY DEF Sums
  <1>2. ASSUME NEW m \in Nat, m \in S PROVE m + 1 \in S
    <2> SUFFICES ASSUME m + 1 <= n PROVE t[m + 1] = s[m + 1]
      OBVIOUS
    <2>1. t[m] = s[m] BY <1>2
    <2>2. m + 1 \in 0 .. n /\ m + 1 # 0 /\ m + 1 - 1 = m OBVIOUS
    <2>3. t[m + 1] = t[m] + d[m + 1] BY <2>2
    <2>4. m + 1 \in 1 .. N /\ s[m + 1] = s[m + 1 - 1] + d[m + 1] BY DEF Sums
    <2> QED BY <2>1, <2>2, <2>3, <2>4
  <1> HIDE DEF S
  <1>3. n \in S BY <1>1, <1>2, SetInduction
  <1> QED BY <1>3 DEF S

(* The stack of calls. *)
LEMMA FrontOf ==
  ASSUME NEW S, NEW s \in Seq(S), s # <<>>
  PROVE  /\ Len(s) \in Nat \ {0} /\ Front(s) \in Seq(S) /\ Len(Front(s)) = Len(s) - 1
         /\ \A i \in 1 .. Len(s) - 1 : Front(s)[i] = s[i]
  <1>1. Len(s) \in Nat \ {0} BY EmptySeq
  <1>2. \A i \in 1 .. Len(s) - 1 : s[i] \in S BY <1>1, ElementOfSeq
  <1> DEFINE f == SubSeq(s, 1, Len(s) - 1)
             n == Len(s) - 1
  <1>3. /\ f \in Seq(S)
        /\ Len(f) = IF 1 <= n THEN n - 1 + 1 ELSE 0
        /\ \A i \in 1 .. n - 1 + 1 : f[i] = s[1 + i - 1]
    BY <1>1, <1>2, SubSeqProperties
  <1>4. n \in Nat BY <1>1
  <1> HIDE DEF f, n
  <1>5. Len(f) = n BY <1>3, <1>4
  <1>6. \A i \in 1 .. n : f[i] = s[i]
    BY <1>3, <1>4
  <1> QED BY <1>1, <1>3, <1>5, <1>6 DEF Front, f, n

LEMMA ReplaceTop ==
  ASSUME NEW S, NEW s \in Seq(S), s # <<>>, NEW c \in S
  PROVE  LET t == Append(Front(s), c)
         IN  /\ t \in Seq(S) /\ t # <<>> /\ Len(t) = Len(s) /\ Last(t) = c /\ Front(t) = Front(s)
             /\ t[Len(s)] = c /\ \A i \in 1 .. Len(s) - 1 : t[i] = s[i]
  <1> DEFINE f == Front(s)
             t == Append(f, c)
  <1>1. /\ Len(s) \in Nat \ {0} /\ f \in Seq(S) /\ Len(f) = Len(s) - 1
        /\ \A i \in 1 .. Len(s) - 1 : f[i] = s[i]
    BY FrontOf
  <1> HIDE DEF f
  <1>2. /\ t \in Seq(S) /\ t # <<>> /\ Len(t) = Len(f) + 1 /\ t[Len(f) + 1] = c
        /\ \A i \in 1 .. Len(f) : t[i] = f[i]
    BY <1>1, AppendProperties
  <1> HIDE DEF t
  <1>3. Len(f) + 1 = Len(s) BY <1>1
  <1>4. Last(t) = c BY <1>2, <1>3 DEF Last
  <1>5. /\ Front(t) \in Seq(S) /\ Len(Front(t)) = Len(t) - 1
        /\ \A i \in 1 .. Len(t) - 1 : Front(t)[i] = t[i]
    BY <1>2, FrontOf
  <1>6. Front(t) = f
    <2>1. Len(Front(t)) = Len(f) BY <1>1, <1>2, <1>5
    <2>2. \A i \in 1 .. Len(f) : Front(t)[i] = f[i] BY <1>1, <1>2, <1>3, <1>5
    <2> HIDE DEF f
    <2> QED BY <1>1, <1>5, <2>1, <2>2, SeqEqual
  <1>7. \A i \in 1 .. Len(s) - 1 : t[i] = s[i] BY <1>1, <1>2
  <1> QED BY <1>1, <1>2, <1>3, <1>4, <1>6, <1>7 DEF t, f

LEMMA PopTop ==
  ASSUME NEW S, NEW s \in Seq(S), Len(s) > 1
  PROVE  LET t == Front(s)
         IN  /\ t \in Seq(S) /\ t # <<>> /\ Len(t) = Len(s) - 1 /\ Last(t) = s[Len(s) - 1]
             /\ \A i \in 1 .. Len(s) - 1 : t[i] = s[i]
  <1>1. s # <<>> BY EmptySeq
  <1>2. /\ Len(s) \in Nat \ {0} /\ Front(s) \in Seq(S) /\ Len(Front(s)) = Len(s) - 1
        /\ \A i \in 1 .. Len(s) - 1 : Front(s)[i] = s[i]
    BY <1>1, FrontOf
  <1>3. Front(s) # <<>> BY <1>2, EmptySeq
  <1>4. Len(s) - 1 \in 1 .. Len(s) - 1 BY <1>2
  <1> QED BY <1>2, <1>3, <1>4 DEF Last

LEMMA PushTop ==
  ASSUME NEW S, NEW s \in Seq(S), s # <<>>, NEW c \in S, NEW d \in S
  PROVE  LET t == Append(Front(s), c) \o <<d>>
         IN  /\ t \in Seq(S) /\ t # <<>> /\ Len(t) = Len(s) + 1 /\ Last(t) = d
             /\ t[Len(s)] = c /\ \A i \in 1 .. Len(s) - 1 : t[i] = s[i]
  <1> DEFINE u == Append(Front(s), c)
             t == u \o <<d>>
  <1>1. /\ u \in Seq(S) /\ Len(u) = Len(s) /\ u[Len(s)] = c
        /\ \A i \in 1 .. Len(s) - 1 : u[i] = s[i]
    BY ReplaceTop
  <1>2. Len(s) \in Nat \ {0} BY EmptySeq
  <1> HIDE DEF u
  <1>3. t = Append(u, d) BY <1>1, AppendIsConcat
  <1>4. /\ t \in Seq(S) /\ t # <<>> /\ Len(t) = Len(u) + 1 /\ t[Len(u) + 1] = d
        /\ \A i \in 1 .. Len(u) : t[i] = u[i]
    BY <1>1, <1>3, AppendProperties
  <1> HIDE DEF t
  <1>5. Last(t) = d BY <1>1, <1>4 DEF Last
  <1>6. \A i \in 1 .. Len(s) - 1 : t[i] = s[i] BY <1>1, <1>2, <1>4
  <1>7. t[Len(s)] = c BY <1>1, <1>2, <1>4
  <1> QED BY <1>1, <1>4, <1>5, <1>6, <1>7 DEF t, u

LEMMA LastOf ==
  ASSUME NEW S, NEW s \in Seq(S), s # <<>>
  PROVE  Last(s) \in S /\ Last(s) = s[Len(s)] /\ Len(s) \in Nat \ {0}
  BY EmptySeq, ElementOfSeq DEF Last

-----------------------------------------------------------------------------
(* What the parser produces.  Adds: k cells of names and, to the device    *)
(* target, m resources, and no more.                                       *)
(* The words, and two literals of which the provers do not know that they  *)
(* are strings.                                                            *)
Text == STRING \cup {Nul, "none"}

Device == [name : Int, driver : Int, start : Int, end : Int, resource : Nat, num : Nat]
Resource == [name : Int, flags : Text, start : Text, end : Text]
Cell == [word : Text, last : BOOLEAN]
Output == [names : Nat, devices : Seq(Device), resources : Seq(Resource), text : Seq(Cell)]

Adds(o, p, k, target, m) ==
  /\ p \in Output
  /\ p.names = o.names + k
  /\ Len(p.devices) = Len(o.devices)
  /\ \A n \in 1 .. Len(o.devices) :
       /\ p.devices[n].resource = o.devices[n].resource
       /\ p.devices[n].num = o.devices[n].num + IF n = target THEN m ELSE 0

LEMMA OutputParts ==
  ASSUME NEW o \in Output
  PROVE  /\ o.names \in Nat /\ o.resources \in Seq(Resource) /\ o.text \in Seq(Cell)
         /\ o.devices \in Seq(Device) /\ Len(o.devices) \in Nat
         /\ \A n \in 1 .. Len(o.devices) :
              /\ o.devices[n] \in Device
              /\ o.devices[n].num \in Nat /\ o.devices[n].resource \in Nat
  <1>1. /\ o.names \in Nat /\ o.resources \in Seq(Resource) /\ o.text \in Seq(Cell)
        /\ o.devices \in Seq(Device)
    BY DEF Output
  <1>2. \A n \in 1 .. Len(o.devices) : o.devices[n] \in Device
    BY <1>1, ElementOfSeq
  <1>3. \A n \in 1 .. Len(o.devices) : o.devices[n].num \in Nat /\ o.devices[n].resource \in Nat
    BY <1>2 DEF Device
  <1> QED BY <1>1, <1>2, <1>3, LenProperties

LEMMA DeviceExcept ==
  ASSUME NEW d \in Device, NEW n \in Nat
  PROVE  /\ LET e == [d EXCEPT !.driver = n]
            IN  e \in Device /\ e.resource = d.resource /\ e.num = d.num
         /\ LET e == [d EXCEPT !.num = @ + 1]
            IN  e \in Device /\ e.resource = d.resource /\ e.num = d.num + 1
         /\ d.num \in Nat /\ d.resource \in Nat
  BY DEF Device

LEMMA AddsNothing ==
  ASSUME NEW o \in Output, NEW target
  PROVE  Adds(o, o, 0, target, 0)
  BY OutputParts DEF Adds

LEMMA AddsTwice ==
  ASSUME NEW o \in Output, NEW p, NEW q, NEW target,
         NEW k \in Nat, NEW m \in Nat, NEW k2 \in Nat, NEW m2 \in Nat,
         Adds(o, p, k, target, m), Adds(p, q, k2, target, m2)
  PROVE  Adds(o, q, k + k2, target, m + m2)
  <1>1. q \in Output /\ q.names = o.names + (k + k2) /\ Len(q.devices) = Len(o.devices)
    BY DEF Adds, Output
  <1>2. ASSUME NEW n \in 1 .. Len(o.devices)
        PROVE  /\ q.devices[n].resource = o.devices[n].resource
               /\ q.devices[n].num = o.devices[n].num + IF n = target THEN m + m2 ELSE 0
    <2>1. o.devices[n].num \in Nat BY OutputParts
    <2> QED BY <2>1 DEF Adds
  <1> QED BY <1>1, <1>2 DEF Adds

LEMMA WrittenAdds ==
  ASSUME NEW o \in Output, NEW words \in Seq(Text), NEW target
  PROVE  /\ Adds(o, Written(o, words), Len(words), target, 0)
         /\ Written(o, words).devices = o.devices
  <1> DEFINE cells == [i \in DOMAIN o.text |->
                         IF i - o.names \in DOMAIN words
                         THEN [word |-> words[i - o.names], last |-> i - o.names = Len(words)]
                         ELSE o.text[i]]
             w == [o EXCEPT !.names = o.names + Len(words),
                            !.text = IF pass < 2 THEN o.text ELSE cells]
  <1>1. Written(o, words) = w BY DEF Written
  <1>2. o.text \in Seq(Cell) /\ o.names \in Nat /\ Len(words) \in Nat BY OutputParts, LenProperties
  <1>3. cells \in Seq(Cell)
    <2>1. ASSUME NEW i \in DOMAIN o.text PROVE cells[i] \in Cell
      <3>1. o.text[i] \in Cell BY <1>2, ElementOfSeq, LenProperties
      <3>2. ASSUME i - o.names \in DOMAIN words
            PROVE  [word |-> words[i - o.names], last |-> i - o.names = Len(words)] \in Cell
        <4>1. words[i - o.names] \in Text BY <3>2, ElementOfSeq, LenProperties
        <4> QED BY <4>1 DEF Cell
      <3> QED BY <3>1, <3>2
    <2>2. DOMAIN o.text = 1 .. Len(o.text) /\ Len(o.text) \in Nat BY <1>2, LenProperties
    <2>3. cells \in [1 .. Len(o.text) -> Cell] BY <2>1, <2>2
    <2> HIDE DEF cells
    <2> QED BY <2>2, <2>3
  <1> HIDE DEF cells
  <1> DEFINE text == IF pass < 2 THEN o.text ELSE cells
             names == o.names + Len(words)
  <1>a. text \in Seq(Cell) /\ names \in Nat BY <1>2, <1>3
  <1>b. w = [o EXCEPT !.names = names, !.text = text] OBVIOUS
  <1> HIDE DEF text, w
  <1>4. w \in Output /\ w.names = names /\ w.devices = o.devices
    BY <1>a, <1>b DEF Output
  <1>5. ASSUME NEW n \in 1 .. Len(o.devices)
        PROVE  o.devices[n].num \in Nat
    BY OutputParts
  <1> QED BY <1>1, <1>4, <1>5 DEF Adds

LEMMA InterfaceAdds ==
  ASSUME NEW o \in Output, NEW value \in Text, NEW target \in 0 .. Len(o.devices)
  PROVE  Adds(o, parse_interface(o, target, value), 1, target, 0)
  <1>0. <<value>> \in Seq(Text) /\ Len(<<value>>) = 1 OBVIOUS
  <1>1. CASE target = 0
    <2>1. parse_interface(o, target, value) = Written(o, <<value>>)
      BY <1>1 DEF parse_interface, NoDevice
    <2>2. Adds(o, Written(o, <<value>>), Len(<<value>>), target, 0) BY <1>0, WrittenAdds
    <2> QED BY <1>0, <2>1, <2>2
  <1>2. CASE target # 0
    <2> DEFINE d == [o.devices[target] EXCEPT !.driver = o.names]
               ds == [o.devices EXCEPT ![target] = d]
               p == [o EXCEPT !.devices = ds]
    <2>1. o.devices \in Seq(Device) /\ o.names \in Nat /\ Len(o.devices) \in Nat
      BY OutputParts
    <2>2. target \in 1 .. Len(o.devices) BY <1>2, <2>1
    <2>3. /\ d \in Device
          /\ d.resource = o.devices[target].resource /\ d.num = o.devices[target].num
      BY <2>1, <2>2, OutputParts, DeviceExcept
    <2>4. parse_interface(o, target, value) = Written(p, <<value>>)
      BY <1>2 DEF parse_interface, NoDevice, Output
    <2> HIDE DEF d
    <2>5. /\ ds \in Seq(Device) /\ Len(ds) = Len(o.devices)
          /\ \A n \in 1 .. Len(o.devices) : ds[n] = IF n = target THEN d ELSE o.devices[n]
      BY <2>1, <2>2, <2>3, ExceptSeq
    <2> HIDE DEF ds
    <2>6. p \in Output /\ p.names = o.names /\ p.devices = ds BY <2>5 DEF Output
    <2> HIDE DEF p
    <2>7. ASSUME NEW n \in 1 .. Len(o.devices)
          PROVE  /\ p.devices[n].resource = o.devices[n].resource
                 /\ p.devices[n].num = o.devices[n].num + IF n = target THEN 0 ELSE 0
      BY <2>3, <2>5, <2>6, OutputParts
    <2>8. Adds(o, p, 0, target, 0) BY <2>1, <2>5, <2>6, <2>7 DEF Adds
    <2>9. Adds(p, Written(p, <<value>>), Len(<<value>>), target, 0)
      BY <1>0, <2>6, WrittenAdds
    <2>10. Adds(o, Written(p, <<value>>), 0 + 1, target, 0 + 0)
      BY <1>0, <2>8, <2>9, AddsTwice
    <2> QED BY <2>4, <2>10
  <1> QED BY <1>1, <1>2

LEMMA ResourceAdds ==
  ASSUME NEW o \in Output, NEW target \in 1 .. Len(o.devices), NEW path \in Seq(Text),
         NEW flags \in Text, NEW start \in Text, NEW end \in Text
  PROVE  Adds(o, AddResource(o, target, path, flags, start, end), Len(path), target, 1)
  <1> DEFINE w == Written(o, path)
             d == o.devices[target]
             r == [name |-> NameOf(o, path), flags |-> flags, start |-> start, end |-> end]
             ds == [w.devices EXCEPT ![target] = [w.devices[target] EXCEPT !.num = @ + 1]]
             rs == IF pass < 2 THEN w.resources
                   ELSE [i \in DOMAIN w.resources |->
                           IF i = d.resource + d.num + 1 THEN r ELSE w.resources[i]]
             p == [w EXCEPT !.devices = ds, !.resources = rs]
  <1>1. Adds(o, w, Len(path), target, 0) /\ w.devices = o.devices
    BY WrittenAdds
  <1>2. w \in Output BY <1>1 DEF Adds
  <1>3. AddResource(o, target, path, flags, start, end) = p
    BY <1>2 DEF AddResource, Output
  <1>4. r \in Resource BY DEF Resource, NameOf, Dot, Output
  <1> HIDE DEF r, d
  <1>5. rs \in Seq(Resource)
    <2>1. w.resources \in Seq(Resource) BY <1>2 DEF Output
    <2> DEFINE written == [i \in DOMAIN w.resources |->
                             IF i = d.resource + d.num + 1 THEN r ELSE w.resources[i]]
    <2>2. DOMAIN w.resources = 1 .. Len(w.resources) /\ Len(w.resources) \in Nat BY <2>1
    <2>3. written \in [1 .. Len(w.resources) -> Resource] BY <1>4, <2>1, <2>2
    <2> HIDE DEF w
    <2>4. written \in Seq(Resource) BY <2>2, <2>3
    <2> HIDE DEF written
    <2> QED BY <2>1, <2>4 DEF written
  <1> DEFINE e == [w.devices[target] EXCEPT !.num = @ + 1]
  <1> HIDE DEF w, rs
  <1>6. w.devices \in Seq(Device) /\ target \in 1 .. Len(w.devices)
    BY <1>1, <1>2, OutputParts
  <1>7. /\ e \in Device
        /\ e.resource = w.devices[target].resource /\ e.num = w.devices[target].num + 1
    BY <1>2, <1>6, OutputParts, DeviceExcept
  <1> HIDE DEF e
  <1>8. /\ ds \in Seq(Device) /\ Len(ds) = Len(w.devices)
        /\ \A n \in 1 .. Len(w.devices) : ds[n] = IF n = target THEN e ELSE w.devices[n]
    BY <1>6, <1>7, ExceptSeq DEF e
  <1>9. ASSUME NEW n \in 1 .. Len(w.devices)
        PROVE  /\ ds[n].resource = w.devices[n].resource
               /\ ds[n].num = w.devices[n].num + IF n = target THEN 1 ELSE 0
    BY <1>2, <1>7, <1>8, OutputParts
  <1> HIDE DEF ds
  <1>10. p \in Output /\ p.names = w.names /\ p.devices = ds
    BY <1>2, <1>5, <1>8 DEF Output
  <1> HIDE DEF p
  <1>11. Adds(w, p, 0, target, 1)
    BY <1>2, <1>8, <1>9, <1>10, OutputParts DEF Adds
  <1>12. Len(path) \in Nat OBVIOUS
  <1>13. Adds(o, p, Len(path) + 0, target, 0 + 1) BY <1>1, <1>11, <1>12, AddsTwice
  <1>14. Len(path) + 0 = Len(path) /\ 0 + 1 = 1 BY <1>12
  <1> QED BY <1>3, <1>13, <1>14

CallSet ==
  [at : {"enter", "keys", "items", "oops"}, am_root : Nat, path : Seq(Text),
   parent_flags : Text, target : Nat, iface : BOOLEAN, flags : Text]

ScanTypes ==
  /\ config \in Seq(Text) /\ config # <<>>
  /\ pass \in 0 .. 3
  /\ calls \in Seq(CallSet) /\ calls # <<>>
  /\ pos \in 1 .. Len(config) + 1 /\ key \in 1 .. Len(config)
  /\ roots \in [1 .. Len(config) -> BOOLEAN] /\ nroots \in Nat /\ ndevices \in Nat
  /\ out \in Output
  /\ size \in [resources : Nat, names : Nat]

(* The calls below the top wait in their items; every call has counted its *)
(* block and is inside a device there is; no block without a token.        *)
NestInv ==
  /\ \A i \in 1 .. Len(calls) - 1 : calls[i].at = "items"
  /\ \A i \in 1 .. Len(calls) : calls[i].at # "enter" => calls[i].am_root \in 1 .. nroots
  /\ \A i \in 1 .. Len(calls) : calls[i].target <= ndevices
  /\ Top.at \in {"items", "oops"} \/ Len(calls) > 1 => pos > 1
  /\ nroots <= pos /\ (pos > 1 => nroots < pos)
  /\ Top.at = "enter" => nroots + 1 <= pos /\ (pos > 1 => nroots + 1 < pos)

(* A device is counted within those there are. *)
Room ==
  /\ ndevices <= Len(out.devices)
  /\ pass >= 1 /\ Top.at = "enter" /\ roots[nroots + 1] => ndevices + 1 <= Len(out.devices)

LEMMA TopFacts ==
  ASSUME ScanTypes
  PROVE  /\ Top \in CallSet /\ Top = calls[Len(calls)] /\ Len(calls) \in Nat \ {0}
         /\ Token \in Text /\ config[key] \in Text /\ Len(config) \in Nat \ {0}
         /\ (Token # Nul => pos \in 1 .. Len(config))
  <1>1. Top \in CallSet /\ Top = calls[Len(calls)] /\ Len(calls) \in Nat \ {0}
    BY LastOf DEF ScanTypes, Top
  <1>2. Len(config) \in Nat \ {0} BY EmptySeq DEF ScanTypes
  <1>3. config[key] \in Text BY <1>2, ElementOfSeq DEF ScanTypes
  <1>4. Token \in Text
    <2>1. CASE pos > Len(config) BY <2>1 DEF Token, Text
    <2>2. CASE ~ (pos > Len(config))
      <3>1. pos \in 1 .. Len(config) BY <1>2, <2>2 DEF ScanTypes
      <3>2. config[pos] \in Text BY <3>1, ElementOfSeq DEF ScanTypes
      <3> QED BY <2>2, <3>2 DEF Token
    <2> QED BY <2>1, <2>2
  <1>5. Token # Nul => pos \in 1 .. Len(config) BY <1>2 DEF Token, ScanTypes
  <1> QED BY <1>1, <1>2, <1>3, <1>4, <1>5

LEMMA RootFacts ==
  ASSUME ScanTypes, NestInv
  PROVE  /\ nroots <= Len(config)
         /\ Top.at = "enter" => nroots + 1 \in 1 .. Len(config)
         /\ Top.at # "enter" => Top.am_root \in 1 .. nroots /\ Top.am_root \in 1 .. Len(config)
         /\ Top.target \in 0 .. ndevices
  <1>1. Top \in CallSet /\ Top = calls[Len(calls)] /\ Len(calls) \in Nat \ {0}
        /\ Len(config) \in Nat \ {0}
    BY TopFacts
  <1>2. Len(calls) \in 1 .. Len(calls) BY <1>1
  <1>3. nroots \in Nat /\ ndevices \in Nat /\ pos \in 1 .. Len(config) + 1 BY DEF ScanTypes
  <1>4. nroots <= pos /\ (pos > 1 => nroots < pos) BY DEF NestInv
  <1>5. nroots <= Len(config) BY <1>1, <1>3, <1>4
  <1>6. Top.at = "enter" => nroots + 1 \in 1 .. Len(config)
    <2>1. Top.at = "enter" => nroots + 1 <= pos /\ (pos > 1 => nroots + 1 < pos) BY DEF NestInv
    <2> QED BY <1>1, <1>3, <2>1
  <1>7. Top.at # "enter" => Top.am_root \in 1 .. nroots BY <1>1, <1>2 DEF NestInv
  <1>8. Top.target <= ndevices /\ Top.target \in Nat BY <1>1, <1>2 DEF NestInv, CallSet
  <1> QED BY <1>1, <1>3, <1>5, <1>6, <1>7, <1>8

-----------------------------------------------------------------------------
(* A call that goes on in another state is a call. *)
LEMMA CallAt ==
  ASSUME NEW c \in CallSet, NEW a \in {"enter", "keys", "items", "oops"}
  PROVE  LET d == [c EXCEPT !.at = a]
         IN  d \in CallSet /\ d.at = a /\ d.am_root = c.am_root /\ d.target = c.target
  BY DEF CallSet

LEMMA CallValue ==
  ASSUME NEW c \in CallSet
  PROVE  LET d == [c EXCEPT !.iface = FALSE]
         IN  d \in CallSet /\ d.at = c.at /\ d.am_root = c.am_root /\ d.target = c.target
  BY DEF CallSet

(* A call that has entered its block, that of a device, or come to a key.  *)
Entered(c, n) == [c EXCEPT !.at = "keys", !.am_root = n]
InDevice(c, n, m) == [c EXCEPT !.at = "keys", !.am_root = n, !.path = <<>>, !.target = m]
AtKey(c, w) == [c EXCEPT !.at = "items", !.iface = w = "interface", !.flags = FlagsOf(w)]

LEMMA CallEntered ==
  ASSUME NEW c \in CallSet, NEW n \in Nat
  PROVE  LET d == Entered(c, n)
         IN  d \in CallSet /\ d.at = "keys" /\ d.am_root = n /\ d.target = c.target
  BY DEF CallSet, Entered

LEMMA CallOfDevice ==
  ASSUME NEW c \in CallSet, NEW n \in Nat, NEW m \in Nat
  PROVE  LET d == InDevice(c, n, m)
         IN  d \in CallSet /\ d.at = "keys" /\ d.am_root = n /\ d.target = m
  <1> DEFINE e == Entered(c, n)
             f == [e EXCEPT !.path = <<>>]
             d == InDevice(c, n, m)
  <1>1. d = [f EXCEPT !.target = m] BY DEF Entered, InDevice
  <1>2. e \in CallSet /\ e.at = "keys" /\ e.am_root = n BY CallEntered
  <1>3. <<>> \in Seq(Text) BY EmptySeq
  <1> HIDE DEF e
  <1>4. f \in CallSet /\ f.at = "keys" /\ f.am_root = n BY <1>2, <1>3 DEF CallSet
  <1> HIDE DEF f, d
  <1>5. d \in CallSet /\ d.at = "keys" /\ d.am_root = n /\ d.target = m BY <1>1, <1>4 DEF CallSet
  <1> QED BY <1>5 DEF d

LEMMA CallKey ==
  ASSUME NEW c \in CallSet, NEW w \in Text
  PROVE  LET d == AtKey(c, w)
         IN  d \in CallSet /\ d.at = "items" /\ d.am_root = c.am_root /\ d.target = c.target
  <1>1. FlagsOf(w) \in Text BY DEF FlagsOf, Text
  <1> DEFINE b == w = "interface"
             d == AtKey(c, w)
  <1>2. b \in BOOLEAN OBVIOUS
  <1>3. d = [c EXCEPT !.at = "items", !.iface = b, !.flags = FlagsOf(w)] BY DEF AtKey
  <1> HIDE DEF b, d
  <1>4. d \in CallSet /\ d.at = "items" /\ d.am_root = c.am_root /\ d.target = c.target
    BY <1>1, <1>2, <1>3 DEF CallSet
  <1> QED BY <1>4 DEF d

LEMMA CallInside ==
  ASSUME NEW c \in CallSet, NEW w \in Text
  PROVE  LET d == Call(Append(c.path, w), c.flags, c.target)
         IN  d \in CallSet /\ d.at = "enter" /\ d.target = c.target
  <1>1. c.path \in Seq(Text) BY DEF CallSet
  <1>2. Append(c.path, w) \in Seq(Text) BY <1>1, AppendProperties
  <1> QED BY <1>2 DEF Call, CallSet, Text

(* A value as the end of a range and as a resource of its own. *)
RangeAt(c, k, value) == c.parent_flags # "none" /\ {k, value} \subseteq Numbers /\ c.target # NoDevice
SingleAt(c, value) == c.flags # "none" /\ value \in Numbers /\ c.target # NoDevice

NamesAt(c, k, value) ==
  (IF c.iface THEN 1 ELSE 0) + (IF RangeAt(c, k, value) THEN Len(c.path) - 1 ELSE 0)
    + (IF SingleAt(c, value) THEN Len(c.path) ELSE 0)
NumAt(c, k, value) ==
  (IF RangeAt(c, k, value) THEN 1 ELSE 0) + (IF SingleAt(c, value) THEN 1 ELSE 0)

LEMMA RangeAdds ==
  ASSUME NEW o \in Output, NEW c \in CallSet, c.target <= Len(o.devices),
         NEW k \in Text, NEW value \in Text, RangeAt(c, k, value) => c.path # <<>>
  PROVE  Adds(o, parse_range(o, c.target, c.path, c.parent_flags, k, value),
              IF RangeAt(c, k, value) THEN Len(c.path) - 1 ELSE 0, c.target,
              IF RangeAt(c, k, value) THEN 1 ELSE 0)
  <1>1. c.path \in Seq(Text) /\ c.parent_flags \in Text /\ c.target \in Nat
    BY DEF CallSet
  <1>2. CASE RangeAt(c, k, value)
    <2>1. c.target \in 1 .. Len(o.devices) BY <1>1, <1>2, OutputParts DEF RangeAt, NoDevice
    <2>2. Front(c.path) \in Seq(Text) /\ Len(Front(c.path)) = Len(c.path) - 1
      BY <1>1, <1>2, FrontOf
    <2>3. parse_range(o, c.target, c.path, c.parent_flags, k, value)
            = AddResource(o, c.target, Front(c.path), c.parent_flags, k, value)
      BY <1>2 DEF RangeAt, parse_range
    <2>4. Adds(o, AddResource(o, c.target, Front(c.path), c.parent_flags, k, value),
               Len(Front(c.path)), c.target, 1)
      BY <1>1, <2>1, <2>2, ResourceAdds
    <2> QED BY <1>2, <2>2, <2>3, <2>4
  <1>3. CASE ~ RangeAt(c, k, value)
    <2>1. parse_range(o, c.target, c.path, c.parent_flags, k, value) = o
      BY <1>3 DEF RangeAt, parse_range
    <2> QED BY <1>3, <2>1, AddsNothing
  <1> QED BY <1>2, <1>3

LEMMA SingleAdds ==
  ASSUME NEW o \in Output, NEW c \in CallSet, c.target <= Len(o.devices), NEW value \in Text
  PROVE  Adds(o, parse_single(o, c.target, c.path, c.flags, value),
              IF SingleAt(c, value) THEN Len(c.path) ELSE 0, c.target,
              IF SingleAt(c, value) THEN 1 ELSE 0)
  <1>1. c.path \in Seq(Text) /\ c.flags \in Text /\ c.target \in Nat
    BY DEF CallSet
  <1>2. CASE SingleAt(c, value)
    <2>1. c.target \in 1 .. Len(o.devices) BY <1>1, <1>2, OutputParts DEF SingleAt, NoDevice
    <2>2. parse_single(o, c.target, c.path, c.flags, value)
            = AddResource(o, c.target, c.path, c.flags, value, value)
      BY <1>2 DEF SingleAt, parse_single
    <2>3. Adds(o, AddResource(o, c.target, c.path, c.flags, value, value), Len(c.path), c.target, 1)
      BY <1>1, <2>1, ResourceAdds
    <2> QED BY <1>2, <2>2, <2>3
  <1>3. CASE ~ SingleAt(c, value)
    <2>1. parse_single(o, c.target, c.path, c.flags, value) = o
      BY <1>3 DEF SingleAt, parse_single
    <2> QED BY <1>3, <2>1, AddsNothing
  <1> QED BY <1>2, <1>3

LEMMA OptionalInterface ==
  ASSUME NEW o \in Output, NEW c \in CallSet, c.target <= Len(o.devices), NEW value \in Text
  PROVE  Adds(o, IF c.iface THEN parse_interface(o, c.target, value) ELSE o,
              IF c.iface THEN 1 ELSE 0, c.target, 0)
  <1>1. c.target \in 0 .. Len(o.devices) BY OutputParts DEF CallSet
  <1> QED BY <1>1, InterfaceAdds, AddsNothing

LEMMA ValueAdds ==
  ASSUME ScanTypes, NestInv, Room, parse_value
  PROVE  Adds(out, out', NamesAt(Top, config[key], Token), Top.target,
              NumAt(Top, config[key], Token))
  <1> DEFINE c == Top
             k == config[key]
             v == Token
             o1 == IF c.iface THEN parse_interface(out, c.target, v) ELSE out
             o2 == parse_range(o1, c.target, c.path, c.parent_flags, k, v)
             o3 == parse_single(o2, c.target, c.path, c.flags, v)
             n1 == IF c.iface THEN 1 ELSE 0
             n2 == IF RangeAt(c, k, v) THEN Len(c.path) - 1 ELSE 0
             n3 == IF SingleAt(c, v) THEN Len(c.path) ELSE 0
             m2 == IF RangeAt(c, k, v) THEN 1 ELSE 0
             m3 == IF SingleAt(c, v) THEN 1 ELSE 0
  <1>1. c \in CallSet /\ k \in Text /\ v \in Text BY TopFacts
  <1>2. out' = o3 BY DEF parse_value
  <1>3. out \in Output /\ c.target <= Len(out.devices) /\ Len(out.devices) \in Nat
    <2>1. out \in Output /\ ndevices \in Nat BY DEF ScanTypes
    <2>2. c.target \in 0 .. ndevices /\ ndevices <= Len(out.devices) BY RootFacts DEF Room
    <2>3. Len(out.devices) \in Nat BY <2>1, OutputParts
    <2> HIDE DEF c
    <2> QED BY <2>1, <2>2, <2>3
  <1>4. RangeAt(c, k, v) => c.path # <<>>
    BY DEF parse_value, NullParent, RangeAt
  <1>5. c.path \in Seq(Text) /\ Len(c.path) \in Nat BY <1>1, LenProperties DEF CallSet
  <1>6. n1 \in Nat /\ n2 \in Nat /\ n3 \in Nat /\ m2 \in Nat /\ m3 \in Nat
    <2>1. c.path # <<>> => Len(c.path) \in Nat \ {0} BY <1>5, EmptySeq
    <2> HIDE DEF c, k, v
    <2> QED BY <1>4, <1>5, <2>1
  <1> HIDE DEF c, k, v
  <1>7. Adds(out, o1, n1, c.target, 0) BY <1>1, <1>3, OptionalInterface
  <1>8. o1 \in Output /\ c.target <= Len(o1.devices) BY <1>3, <1>7 DEF Adds
  <1> HIDE DEF o1
  <1>9. Adds(o1, o2, n2, c.target, m2) BY <1>1, <1>4, <1>8, RangeAdds
  <1>10. o2 \in Output /\ c.target <= Len(o2.devices) BY <1>8, <1>9 DEF Adds
  <1> HIDE DEF o2
  <1>11. Adds(o2, o3, n3, c.target, m3) BY <1>1, <1>10, SingleAdds
  <1> HIDE DEF o3, n1, n2, n3, m2, m3
  <1>12. Adds(out, o2, n1 + n2, c.target, 0 + m2) BY <1>3, <1>6, <1>7, <1>9, AddsTwice
  <1>13. n1 + n2 \in Nat /\ 0 + m2 \in Nat BY <1>6
  <1>14. Adds(out, o3, (n1 + n2) + n3, c.target, (0 + m2) + m3)
    BY <1>3, <1>6, <1>11, <1>12, <1>13, AddsTwice
  <1>15. (0 + m2) + m3 = m2 + m3 BY <1>6
  <1>16. Adds(out, o3, (n1 + n2) + n3, c.target, m2 + m3) BY <1>14, <1>15
  <1> QED BY <1>2, <1>16 DEF NamesAt, NumAt, n1, n2, n3, m2, m3, c, k, v

LEMMA QuotedAdds ==
  ASSUME ScanTypes, NestInv, Room, parse_quoted
  PROVE  Adds(out, out', IF Top.iface THEN 1 ELSE 0, Top.target, 0)
  <1>1. out \in Output /\ ndevices \in Nat BY DEF ScanTypes
  <1>2. Top \in CallSet /\ Token \in Text BY TopFacts
  <1>3. Top.target \in 0 .. ndevices /\ ndevices <= Len(out.devices) BY RootFacts DEF Room
  <1>4. Len(out.devices) \in Nat BY <1>1, OutputParts
  <1>5. Top.target <= Len(out.devices) BY <1>1, <1>3, <1>4
  <1>6. Adds(out, IF Top.iface THEN parse_interface(out, Top.target, Token) ELSE out,
             IF Top.iface THEN 1 ELSE 0, Top.target, 0)
    BY <1>1, <1>2, <1>5, OptionalInterface
  <1>7. out' = IF Top.iface THEN parse_interface(out, Top.target, Token) ELSE out
    BY DEF parse_quoted
  <1> QED BY <1>6, <1>7

LEMMA EndEntryAdds ==
  ASSUME ScanTypes, NestInv, Room, end_entry
  PROVE  Adds(out, out', 0, Top.target, 0)
  <1>1. out \in Output /\ ndevices \in Nat BY DEF ScanTypes
  <1>2. pos' \in Nat
    <2>1. pos \in Nat BY DEF ScanTypes
    <2>2. pos' = IF Token = Nul THEN pos ELSE pos + 1 BY DEF end_entry
    <2> QED BY <2>1, <2>2
  <1>3. Top.target \in 0 .. ndevices /\ ndevices <= Len(out.devices) BY RootFacts DEF Room
  <1>4. CASE out' = out BY <1>1, <1>4, AddsNothing
  <1>5. CASE out' = [out EXCEPT !.devices[Top.target].end = pos'] /\ Top.target # NoDevice
    <2> DEFINE t == Top.target
               d == [out.devices[t] EXCEPT !.end = pos']
               ds == [out.devices EXCEPT ![t] = d]
    <2>1. out.devices \in Seq(Device) /\ Len(out.devices) \in Nat BY <1>1, OutputParts
    <2>2. t \in 1 .. Len(out.devices) BY <1>1, <1>3, <1>5, <2>1 DEF NoDevice
    <2>3. out.devices[t] \in Device /\ out.devices[t].num \in Nat BY <1>1, <2>2, OutputParts
    <2>4. /\ d \in Device
          /\ d.resource = out.devices[t].resource /\ d.num = out.devices[t].num
      <3> DEFINE e == out.devices[t]
      <3>1. e \in Device BY <2>3
      <3> HIDE DEF e
      <3>2. [e EXCEPT !.end = pos'] \in Device /\ [e EXCEPT !.end = pos'].resource = e.resource
            /\ [e EXCEPT !.end = pos'].num = e.num
        BY <1>2, <3>1 DEF Device
      <3> QED BY <3>2 DEF e
    <2>5. out' = [out EXCEPT !.devices = ds] BY <1>1, <1>5 DEF Output
    <2> HIDE DEF d, t
    <2>6. /\ ds \in Seq(Device) /\ Len(ds) = Len(out.devices)
          /\ \A n \in 1 .. Len(out.devices) : ds[n] = IF n = t THEN d ELSE out.devices[n]
      BY <2>1, <2>2, <2>4, ExceptSeq
    <2> HIDE DEF ds
    <2>7. out' \in Output /\ out'.names = out.names /\ out'.devices = ds
      BY <1>1, <2>5, <2>6 DEF Output
    <2>8. ASSUME NEW n \in 1 .. Len(out.devices)
          PROVE  /\ out'.devices[n].resource = out.devices[n].resource
                 /\ out'.devices[n].num = out.devices[n].num + 0
      <3>1. out.devices[n].num \in Nat BY <1>1, OutputParts
      <3>2. out'.devices[n] = IF n = t THEN d ELSE out.devices[n] BY <2>6, <2>7
      <3> QED BY <2>4, <3>1, <3>2
    <2>9. out.names \in Nat BY <1>1, OutputParts
    <2> QED BY <2>6, <2>7, <2>8, <2>9 DEF Adds
  <1> QED BY <1>4, <1>5 DEF end_entry

LEMMA DeviceBegun ==
  ASSUME NEW d \in Device, NEW m \in Int, NEW p \in Nat
  PROVE  LET e == [d EXCEPT !.name = m, !.num = 0, !.start = p, !.end = p]
         IN  e \in Device /\ e.resource = d.resource /\ e.num = 0
  <1> DEFINE f == [d EXCEPT !.name = m]
             g == [f EXCEPT !.num = 0]
             e == [g EXCEPT !.start = p, !.end = p]
  <1>1. f \in Device /\ f.resource = d.resource BY DEF Device
  <1> HIDE DEF f
  <1>2. g \in Device /\ g.resource = d.resource /\ g.num = 0 BY <1>1 DEF Device
  <1> HIDE DEF g
  <1> DEFINE h == [g EXCEPT !.start = p]
  <1>3. h \in Device /\ h.resource = d.resource /\ h.num = 0 BY <1>2 DEF Device
  <1>4. e = [h EXCEPT !.end = p] OBVIOUS
  <1> HIDE DEF h, e
  <1>5. e \in Device /\ e.resource = d.resource /\ e.num = 0 BY <1>3, <1>4 DEF Device
  <1> QED BY <1>5 DEF e, f, g

(* A device begins without resources. *)
LEMMA EnterMarked ==
  ASSUME ScanTypes, NestInv, Room, enter_block, roots[nroots + 1], pass >= 1
  PROVE  /\ out' \in Output /\ out'.names = out.names + Len(Top.path)
         /\ Len(out'.devices) = Len(out.devices)
         /\ ndevices + 1 \in 1 .. Len(out.devices)
         /\ \A n \in 1 .. Len(out.devices) :
              /\ out'.devices[n].resource = out.devices[n].resource
              /\ out'.devices[n].num = IF n = ndevices + 1 THEN 0 ELSE out.devices[n].num
  <1> DEFINE w == Written(out, Top.path)
             t == ndevices + 1
             d == [w.devices[t] EXCEPT !.name = NameOf(out, Top.path), !.num = 0,
                                       !.start = pos, !.end = pos]
             ds == [w.devices EXCEPT ![t] = d]
  <1>1. out \in Output /\ ndevices \in Nat /\ pos \in Nat BY DEF ScanTypes
  <1>2. Top \in CallSet /\ Top.path \in Seq(Text) BY TopFacts DEF CallSet
  <1>3. /\ w \in Output /\ w.names = out.names + Len(Top.path) /\ w.devices = out.devices
    BY <1>1, <1>2, WrittenAdds DEF Adds
  <1>4. t \in 1 .. Len(out.devices) /\ Len(out.devices) \in Nat
    BY <1>1, OutputParts DEF Room, enter_block
  <1>5. out' = [w EXCEPT !.devices = ds]
    <2>1. out' = [Written(out, Top.path) EXCEPT
                       !.devices[ndevices'] = [@ EXCEPT !.name = NameOf(out, Top.path), !.num = 0,
                                                        !.start = pos, !.end = pos]]
          /\ ndevices' = t
      BY DEF enter_block
    <2> QED BY <1>3, <2>1 DEF Output
  <1>6. NameOf(out, Top.path) \in Int BY <1>1, OutputParts DEF NameOf, Dot
  <1> HIDE DEF w, t
  <1>7. d \in Device /\ d.resource = w.devices[t].resource /\ d.num = 0
    <2>1. w.devices[t] \in Device BY <1>3, <1>4, OutputParts
    <2> QED BY <1>1, <1>6, <2>1, DeviceBegun
  <1> HIDE DEF d
  <1>8. w.devices \in Seq(Device) BY <1>3, OutputParts
  <1>9. /\ ds \in Seq(Device) /\ Len(ds) = Len(out.devices)
        /\ \A n \in 1 .. Len(out.devices) : ds[n] = IF n = t THEN d ELSE out.devices[n]
    BY <1>3, <1>4, <1>7, <1>8, ExceptSeq
  <1> HIDE DEF ds
  <1>10. out' \in Output /\ out'.names = w.names /\ out'.devices = ds
    BY <1>3, <1>5, <1>9 DEF Output
  <1> QED BY <1>3, <1>4, <1>7, <1>9, <1>10 DEF t

LEMMA ReplaceNest ==
  ASSUME ScanTypes, NestInv, NEW c \in CallSet, calls' = Append(Front(calls), c),
         nroots' \in Nat, nroots <= nroots', ndevices' \in Nat, ndevices <= ndevices',
         c.at # "enter", c.am_root \in 1 .. nroots', c.target <= ndevices',
         pos' \in Nat, pos <= pos', c.at \in {"items", "oops"} => pos' > 1,
         nroots' <= pos', pos' > 1 => nroots' < pos'
  PROVE  /\ calls' \in Seq(CallSet) /\ calls' # <<>> /\ Len(calls') = Len(calls) /\ Top' = c
         /\ \A i \in 1 .. Len(calls) - 1 : calls'[i] = calls[i]
         /\ calls'[Len(calls)] = c
         /\ NestInv'
  <1>1. calls \in Seq(CallSet) /\ calls # <<>> /\ nroots \in Nat /\ ndevices \in Nat /\ pos \in Nat
    BY DEF ScanTypes
  <1>2. /\ calls' \in Seq(CallSet) /\ calls' # <<>> /\ Len(calls') = Len(calls) /\ Last(calls') = c
        /\ calls'[Len(calls)] = c /\ \A i \in 1 .. Len(calls) - 1 : calls'[i] = calls[i]
    BY <1>1, ReplaceTop
  <1>3. Top' = c BY <1>2 DEF Top
  <1>4. Len(calls) \in Nat \ {0} BY TopFacts
  <1>5. \A i \in 1 .. Len(calls) : calls[i].target \in Nat /\ calls[i].am_root \in Nat
    <2>1. \A i \in 1 .. Len(calls) : calls[i] \in CallSet BY <1>1, ElementOfSeq
    <2> QED BY <2>1 DEF CallSet
  <1>6. \A i \in 1 .. Len(calls') - 1 : calls'[i].at = "items" BY <1>2 DEF NestInv
  <1>7. ASSUME NEW i \in 1 .. Len(calls')
        PROVE  (calls'[i].at # "enter" => calls'[i].am_root \in 1 .. nroots')
               /\ calls'[i].target <= ndevices'
    <2>1. CASE i = Len(calls) BY <1>2, <2>1
    <2>2. CASE i # Len(calls)
      <3>1. i \in 1 .. Len(calls) - 1 BY <1>2, <1>4, <2>2
      <3>2. calls'[i] = calls[i] /\ i \in 1 .. Len(calls) BY <1>2, <1>4, <3>1
      <3>3. /\ calls[i].at # "enter" => calls[i].am_root \in 1 .. nroots
            /\ calls[i].target <= ndevices
        BY <3>2 DEF NestInv
      <3> QED BY <1>1, <1>5, <3>2, <3>3
    <2> QED BY <2>1, <2>2
  <1>8. Top'.at \in {"items", "oops"} \/ Len(calls') > 1 => pos' > 1
    <2>1. Len(calls) > 1 => pos > 1 BY DEF NestInv
    <2> QED BY <1>1, <1>2, <1>3, <2>1
  <1>9. Top'.at # "enter" BY <1>3
  <1>10. NestInv' BY <1>6, <1>7, <1>8, <1>9 DEF NestInv
  <1> QED BY <1>2, <1>3, <1>10

(* What every step but the last of a pass leaves alone. *)
LEMMA EnterBlockStep ==
  ASSUME ScanTypes, NestInv, Room, enter_block
  PROVE  ScanTypes' /\ NestInv'
  <1>1. Top \in CallSet /\ Top.target \in 0 .. ndevices /\ nroots + 1 \in 1 .. Len(config)
        /\ pos \in Nat /\ nroots \in Nat /\ ndevices \in Nat
    BY TopFacts, RootFacts DEF ScanTypes, enter_block
  <1>2. nroots' = nroots + 1 /\ pos' = pos /\ config' = config /\ pass' = pass /\ key' = key
        /\ roots' = roots /\ size' = size /\ Top.at = "enter"
    BY DEF enter_block
  <1>3. nroots + 1 <= pos /\ (pos > 1 => nroots + 1 < pos) BY <1>2 DEF NestInv
  <1>4. CASE roots[nroots + 1] /\ pass >= 1
    <2> DEFINE c == InDevice(Top, nroots + 1, ndevices + 1)
    <2>1. nroots + 1 \in Nat /\ ndevices + 1 \in Nat BY <1>1
    <2>2. c \in CallSet /\ c.at = "keys" /\ c.am_root = nroots + 1 /\ c.target = ndevices + 1
      <3> DEFINE n == nroots + 1
                 m == ndevices + 1
      <3>1. n \in Nat /\ m \in Nat /\ Top \in CallSet BY <1>1, <2>1
      <3> HIDE DEF n, m
      <3>2. LET d == InDevice(Top, n, m)
            IN  d \in CallSet /\ d.at = "keys" /\ d.am_root = n /\ d.target = m
        BY <3>1, CallOfDevice
      <3> QED BY <3>2 DEF n, m
    <2>3. ndevices' = ndevices + 1 /\ calls' = Append(Front(calls), c)
      <3>1. ndevices' = ndevices + 1
            /\ calls' = Append(Front(calls), [Top EXCEPT !.at = "keys", !.am_root = nroots',
                                                         !.path = <<>>, !.target = ndevices'])
        BY <1>2, <1>4 DEF enter_block, Becomes
      <3> QED BY <1>2, <3>1 DEF InDevice
    <2> HIDE DEF c
    <2>4. out' \in Output BY <1>4, EnterMarked
    <2>5. calls' \in Seq(CallSet) /\ calls' # <<>> /\ NestInv'
      BY <1>1, <1>2, <1>3, <2>1, <2>2, <2>3, ReplaceNest
    <2> QED BY <1>1, <1>2, <2>3, <2>4, <2>5 DEF ScanTypes
  <1>5. CASE ~ (roots[nroots + 1] /\ pass >= 1)
    <2> DEFINE c == Entered(Top, nroots + 1)
    <2>1. nroots + 1 \in Nat BY <1>1
    <2>2. c \in CallSet /\ c.at = "keys" /\ c.am_root = nroots + 1 /\ c.target = Top.target
      BY <1>1, <2>1, CallEntered
    <2>3. ndevices' = ndevices /\ out' = out /\ calls' = Append(Front(calls), c)
      BY <1>2, <1>5 DEF enter_block, Becomes, Entered
    <2> HIDE DEF c
    <2>4. calls' \in Seq(CallSet) /\ calls' # <<>> /\ NestInv'
      BY <1>1, <1>2, <1>3, <2>1, <2>2, <2>3, ReplaceNest
    <2> QED BY <1>1, <1>2, <2>3, <2>4 DEF ScanTypes
  <1> QED BY <1>4, <1>5

LEMMA ParseKeyStep ==
  ASSUME ScanTypes, NestInv, Room, parse_key
  PROVE  ScanTypes' /\ NestInv'
  <1>1. Top \in CallSet /\ Token \in Text /\ Top.target \in 0 .. ndevices
        /\ Top.am_root \in 1 .. nroots /\ Top.am_root \in 1 .. Len(config)
        /\ pos \in 1 .. Len(config) /\ nroots \in Nat /\ ndevices \in Nat /\ Len(config) \in Nat
    BY TopFacts, RootFacts DEF ScanTypes, parse_key
  <1>2. /\ Top.at = "keys" /\ key' = pos /\ pos' = pos + 1 /\ UNCHANGED <<config, pass, nroots, ndevices, out, size>>
        /\ roots' = IF Token = "interface" THEN [roots EXCEPT ![Top.am_root] = TRUE] ELSE roots
    BY DEF parse_key
  <1>3. nroots <= pos /\ nroots < pos + 1 /\ pos <= pos + 1 /\ pos + 1 > 1 /\ pos + 1 \in Nat
    BY <1>1, <1>2 DEF NestInv
  <1>4. roots' \in [1 .. Len(config) -> BOOLEAN] BY <1>1, <1>2 DEF ScanTypes
  <1> DEFINE c == AtKey(Top, Token)
  <1>5. c \in CallSet /\ c.at = "items" /\ c.am_root = Top.am_root /\ c.target = Top.target
    BY <1>1, CallKey
  <1>6. calls' = Append(Front(calls), c) BY DEF parse_key, Becomes, AtKey
  <1> HIDE DEF c
  <1>7. calls' \in Seq(CallSet) /\ calls' # <<>> /\ NestInv'
    BY <1>1, <1>2, <1>3, <1>5, <1>6, ReplaceNest
  <1>8. key' \in 1 .. Len(config') /\ pos' \in 1 .. Len(config') + 1 BY <1>1, <1>2
  <1> QED BY <1>2, <1>4, <1>7, <1>8 DEF ScanTypes

(* The steps from item to item. *)
LEMMA ItemStep ==
  ASSUME ScanTypes, NestInv, Top.at = "items", NEW c \in CallSet, calls' = Append(Front(calls), c),
         c.at # "enter", c.am_root = Top.am_root, c.target = Top.target,
         pos' = pos \/ (pos' = pos + 1 /\ Token # Nul), out' \in Output,
         UNCHANGED <<config, pass, key, roots, nroots, ndevices, size>>
  PROVE  ScanTypes' /\ NestInv'
  <1>1. Top.am_root \in 1 .. nroots /\ Top.target \in 0 .. ndevices BY RootFacts
  <1>2. /\ nroots \in Nat /\ ndevices \in Nat /\ pos \in 1 .. Len(config) + 1
        /\ Len(config) \in Nat /\ (Token # Nul => pos \in 1 .. Len(config))
    BY TopFacts DEF ScanTypes
  <1>3. pos > 1 /\ nroots < pos
    BY <1>2 DEF NestInv
  <1>4. pos' \in 1 .. Len(config) + 1 /\ pos' > 1 /\ nroots < pos' /\ pos <= pos'
    BY <1>2, <1>3
  <1>5. calls' \in Seq(CallSet) /\ calls' # <<>> /\ NestInv'
    BY <1>1, <1>2, <1>4, ReplaceNest
  <1> QED BY <1>4, <1>5 DEF ScanTypes

LEMMA ParseQuotedStep ==
  ASSUME ScanTypes, NestInv, Room, parse_quoted
  PROVE  ScanTypes' /\ NestInv'
  <1> DEFINE c == [Top EXCEPT !.iface = FALSE]
  <1>1. Top \in CallSet BY TopFacts
  <1>2. c \in CallSet /\ c.at = "items" /\ c.am_root = Top.am_root /\ c.target = Top.target
    BY <1>1, CallValue DEF parse_quoted
  <1>3. Token # Nul BY QuotedAssumption DEF parse_quoted
  <1>4. out' \in Output BY QuotedAdds DEF Adds
  <1>5. calls' = Append(Front(calls), c) /\ pos' = pos + 1 /\ Top.at = "items"
        /\ UNCHANGED <<config, pass, key, roots, nroots, ndevices, size>>
    BY DEF parse_quoted, Becomes
  <1> HIDE DEF c
  <1> QED BY <1>2, <1>3, <1>4, <1>5, ItemStep

LEMMA ParseValueStep ==
  ASSUME ScanTypes, NestInv, Room, parse_value
  PROVE  ScanTypes' /\ NestInv'
  <1> DEFINE c == [Top EXCEPT !.iface = FALSE]
  <1>1. Top \in CallSet BY TopFacts
  <1>2. c \in CallSet /\ c.at = "items" /\ c.am_root = Top.am_root /\ c.target = Top.target
    BY <1>1, CallValue DEF parse_value
  <1>3. Token # Nul BY DEF parse_value
  <1>4. out' \in Output BY ValueAdds DEF Adds
  <1>5. calls' = Append(Front(calls), c) /\ pos' = pos + 1 /\ Top.at = "items"
        /\ UNCHANGED <<config, pass, key, roots, nroots, ndevices, size>>
    BY DEF parse_value, Becomes
  <1> HIDE DEF c
  <1> QED BY <1>2, <1>3, <1>4, <1>5, ItemStep

LEMMA EndEntryStep ==
  ASSUME ScanTypes, NestInv, Room, end_entry
  PROVE  ScanTypes' /\ NestInv'
  <1> DEFINE c == [Top EXCEPT !.at = "keys"]
  <1>1. Top \in CallSet BY TopFacts
  <1>2. c \in CallSet /\ c.at = "keys" /\ c.am_root = Top.am_root /\ c.target = Top.target
    BY <1>1, CallAt
  <1>3. pos' = pos \/ (pos' = pos + 1 /\ Token # Nul)
    <2>1. pos' = IF Token = Nul THEN pos ELSE pos + 1 BY DEF end_entry
    <2>2. CASE Token = Nul BY <2>1, <2>2
    <2>3. CASE Token # Nul BY <2>1, <2>3
    <2> QED BY <2>2, <2>3
  <1>4. out' \in Output BY EndEntryAdds DEF Adds
  <1>5. calls' = Append(Front(calls), c) /\ Top.at = "items"
        /\ UNCHANGED <<config, pass, key, roots, nroots, ndevices, size>>
    BY DEF end_entry, Becomes
  <1> HIDE DEF c
  <1> QED BY <1>2, <1>3, <1>4, <1>5, ItemStep

LEMMA RangeOopsStep ==
  ASSUME ScanTypes, NestInv, Room, parse_range_oops
  PROVE  ScanTypes' /\ NestInv'
  <1> DEFINE c == [Top EXCEPT !.at = "oops"]
  <1>1. Top \in CallSet BY TopFacts
  <1>2. c \in CallSet /\ c.at = "oops" /\ c.am_root = Top.am_root /\ c.target = Top.target
    BY <1>1, CallAt
  <1>3. calls' = Append(Front(calls), c) /\ Top.at = "items" /\ pos' = pos /\ out' = out
        /\ UNCHANGED <<config, pass, key, roots, nroots, ndevices, size>>
    BY DEF parse_range_oops, Becomes, NullParent
  <1>4. out' \in Output BY <1>3 DEF ScanTypes
  <1> HIDE DEF c
  <1> QED BY <1>2, <1>3, <1>4, ItemStep

LEMMA ParseBlockStep ==
  ASSUME ScanTypes, NestInv, Room, parse_block
  PROVE  ScanTypes' /\ NestInv'
  <1> DEFINE c == [Top EXCEPT !.iface = FALSE]
             d == Call(Append(Top.path, config[key]), Top.flags, Top.target)
  <1>1. Top \in CallSet /\ config[key] \in Text /\ Len(calls) \in Nat \ {0} /\ Len(config) \in Nat
        /\ (Token # Nul => pos \in 1 .. Len(config))
    BY TopFacts
  <1>3. c \in CallSet /\ c.at = "items" /\ c.am_root = Top.am_root /\ c.target = Top.target
    BY <1>1, CallValue DEF parse_block
  <1>4. d \in CallSet /\ d.at = "enter" /\ d.target = Top.target BY <1>1, CallInside
  <1>5. calls' = Append(Front(calls), c) \o <<d>> /\ Top.at = "items" /\ pos' = pos + 1
        /\ Token # Nul /\ UNCHANGED <<config, pass, key, roots, nroots, ndevices, out, size>>
    BY DEF parse_block, Nul
  <1> HIDE DEF c, d
  <1>6. calls \in Seq(CallSet) /\ calls # <<>> /\ nroots \in Nat /\ ndevices \in Nat
    BY DEF ScanTypes
  <1>7. /\ calls' \in Seq(CallSet) /\ calls' # <<>> /\ Len(calls') = Len(calls) + 1
        /\ Last(calls') = d
        /\ calls'[Len(calls)] = c /\ \A i \in 1 .. Len(calls) - 1 : calls'[i] = calls[i]
    BY <1>3, <1>4, <1>5, <1>6, PushTop
  <1>8. Top' = d /\ calls'[Len(calls) + 1] = d BY <1>1, <1>7 DEF Top, Last
  <1>9. Top.am_root \in 1 .. nroots /\ Top.target \in 0 .. ndevices BY <1>5, RootFacts
  <1>10. pos > 1 /\ nroots < pos /\ pos \in 1 .. Len(config)
    BY <1>1, <1>5, <1>6 DEF NestInv
  <1>11. \A i \in 1 .. Len(calls') - 1 : calls'[i].at = "items"
    BY <1>1, <1>3, <1>7 DEF NestInv
  <1>12. ASSUME NEW i \in 1 .. Len(calls')
         PROVE  (calls'[i].at # "enter" => calls'[i].am_root \in 1 .. nroots')
                /\ calls'[i].target <= ndevices'
    <2>1. CASE i = Len(calls) + 1 BY <1>4, <1>5, <1>6, <1>8, <1>9, <2>1
    <2>2. CASE i = Len(calls) BY <1>3, <1>5, <1>6, <1>7, <1>9, <2>2
    <2>3. CASE i \in 1 .. Len(calls) - 1
      <3>1. calls'[i] = calls[i] /\ i \in 1 .. Len(calls) BY <1>1, <1>7, <2>3
      <3> QED BY <1>5, <3>1 DEF NestInv
    <2> QED BY <1>1, <1>7, <2>1, <2>2, <2>3
  <1>13. pos' > 1 /\ nroots' < pos' /\ nroots' + 1 < pos' /\ nroots' + 1 <= pos' /\ nroots' <= pos' BY <1>5, <1>6, <1>10
  <1>14. NestInv' BY <1>4, <1>8, <1>11, <1>12, <1>13, <1>10 DEF NestInv
  <1>15. pos' \in 1 .. Len(config') + 1 BY <1>5, <1>10
  <1> QED BY <1>5, <1>7, <1>14, <1>15 DEF ScanTypes

LEMMA EndBlockStep ==
  ASSUME ScanTypes, NestInv, Room, end_block
  PROVE  ScanTypes' /\ NestInv'
  <1>1. Len(calls) \in Nat \ {0} /\ Len(config) \in Nat
        /\ (Token # Nul => pos \in 1 .. Len(config))
    BY TopFacts
  <1>2. /\ Len(calls) > 1 /\ Top.at = "keys" /\ calls' = Front(calls)
        /\ UNCHANGED <<config, pass, key, roots, nroots, ndevices, out, size>>
    BY DEF end_block
  <1>3. pos' = pos \/ (pos' = pos + 1 /\ Token # Nul)
    <2>1. pos' = IF Token = Nul THEN pos ELSE pos + 1 BY DEF end_block
    <2>2. CASE Token = Nul BY <2>1, <2>2
    <2>3. CASE Token # Nul BY <2>1, <2>3
    <2> QED BY <2>2, <2>3
  <1>4. calls \in Seq(CallSet) /\ nroots \in Nat /\ ndevices \in Nat /\ pos \in 1 .. Len(config) + 1
    BY DEF ScanTypes
  <1>5. /\ calls' \in Seq(CallSet) /\ calls' # <<>> /\ Len(calls') = Len(calls) - 1
        /\ Last(calls') = calls[Len(calls) - 1]
        /\ \A i \in 1 .. Len(calls) - 1 : calls'[i] = calls[i]
    BY <1>2, <1>4, PopTop
  <1>6. Top' = calls[Len(calls) - 1] BY <1>5 DEF Top
  <1>7. Top'.at = "items" BY <1>1, <1>2, <1>6 DEF NestInv
  <1>8. pos > 1 /\ nroots < pos BY <1>2, <1>4 DEF NestInv
  <1>9. pos' \in 1 .. Len(config) + 1 /\ pos' > 1 /\ nroots < pos' /\ nroots <= pos' BY <1>1, <1>3, <1>4, <1>8
  <1>10. \A i \in 1 .. Len(calls') : calls'[i] = calls[i] /\ i \in 1 .. Len(calls)
    BY <1>1, <1>5
  <1>11. \A i \in 1 .. Len(calls') - 1 : calls'[i].at = "items"
    <2>1. \A i \in 1 .. Len(calls') - 1 : i \in 1 .. Len(calls') /\ i \in 1 .. Len(calls) - 1
      BY <1>1, <1>5
    <2> QED BY <1>10, <2>1 DEF NestInv
  <1>12. ASSUME NEW i \in 1 .. Len(calls')
         PROVE  (calls'[i].at # "enter" => calls'[i].am_root \in 1 .. nroots')
                /\ calls'[i].target <= ndevices'
    BY <1>2, <1>10 DEF NestInv
  <1>14. NestInv' BY <1>2, <1>7, <1>9, <1>11, <1>12 DEF NestInv
  <1> QED BY <1>2, <1>5, <1>9, <1>14 DEF ScanTypes

-----------------------------------------------------------------------------
(* The way of the parser over the string, the same in every pass: what the *)
(* top call does, how many calls there are and of which blocks.  A call    *)
(* that stopped in parse_range is where it was.                            *)
TokenAt(c, p) == IF p > Len(c) THEN Nul ELSE c[p]
Doing(call) == IF call.at = "oops" THEN "items" ELSE call.at

Form(at, depth, marks, p, n) ==
  [at |-> at, depth |-> depth, marks |-> marks, pos |-> p, nroots |-> n]

Shape == Form(Doing(Top), Len(calls), [i \in 1 .. Len(calls) |-> calls[i].am_root], pos, nroots)

Over(c, s) == s.depth = 1 /\ s.at = "keys" /\ TokenAt(c, s.pos) \in {Nul, "}"}

(* The next shape.  *)
Behind(c, p) == IF TokenAt(c, p) = Nul THEN p ELSE p + 1

Named(s) == [i \in 1 .. s.depth |-> IF i = s.depth THEN s.nroots + 1 ELSE s.marks[i]]
Popped(s) == [i \in 1 .. s.depth - 1 |-> s.marks[i]]
Pushed(s) == [i \in 1 .. s.depth + 1 |-> IF i = s.depth + 1 THEN 0 ELSE s.marks[i]]

NextShape(c, s) ==
  CASE s.at = "enter" ->
         Form("keys", s.depth, Named(s), s.pos, s.nroots + 1)
    [] s.at = "keys" /\ TokenAt(c, s.pos) \notin {Nul, "}"} ->
         Form("items", s.depth, s.marks, s.pos + 1, s.nroots)
    [] s.at = "keys" /\ TokenAt(c, s.pos) \in {Nul, "}"} ->
         Form("items", s.depth - 1, Popped(s), Behind(c, s.pos), s.nroots)
    [] s.at = "items" /\ TokenAt(c, s.pos) = "{" ->
         Form("enter", s.depth + 1, Pushed(s), s.pos + 1, s.nroots)
    [] s.at = "items" /\ TokenAt(c, s.pos) \in {Nul, ";"} ->
         Form("keys", s.depth, s.marks, Behind(c, s.pos), s.nroots)
    [] OTHER -> Form("items", s.depth, s.marks, s.pos + 1, s.nroots)

LEMMA ShapeParts ==
  /\ Shape.at = Doing(Top) /\ Shape.depth = Len(calls) /\ Shape.pos = pos /\ Shape.nroots = nroots
  /\ Shape.marks = [i \in 1 .. Len(calls) |-> calls[i].am_root]
  /\ Token = TokenAt(config, pos)
  BY DEF Shape, Form, Token, TokenAt

LEMMA ShapeReplaced ==
  ASSUME ScanTypes, NEW c \in CallSet, calls' = Append(Front(calls), c)
  PROVE  /\ Shape' = Form(Doing(c), Len(calls),
                          [i \in 1 .. Len(calls) |->
                             IF i = Len(calls) THEN c.am_root ELSE calls[i].am_root],
                          pos', nroots')
         /\ c.am_root = Top.am_root
              => Shape' = Form(Doing(c), Len(calls), Shape.marks, pos', nroots')
  <1>1. calls \in Seq(CallSet) /\ calls # <<>> BY DEF ScanTypes
  <1>2. /\ calls' \in Seq(CallSet) /\ Len(calls') = Len(calls) /\ Last(calls') = c
        /\ calls'[Len(calls)] = c /\ \A i \in 1 .. Len(calls) - 1 : calls'[i] = calls[i]
    BY <1>1, ReplaceTop
  <1>3. Len(calls) \in Nat \ {0} /\ Top = calls[Len(calls)] BY TopFacts
  <1> DEFINE f == [i \in 1 .. Len(calls') |-> calls'[i].am_root]
             g == [i \in 1 .. Len(calls) |-> IF i = Len(calls) THEN c.am_root ELSE calls[i].am_root]
             h == [i \in 1 .. Len(calls) |-> calls[i].am_root]
  <1>4. f = g
    <2>1. ASSUME NEW i \in 1 .. Len(calls) PROVE calls'[i].am_root = g[i]
      <3>1. CASE i = Len(calls) BY <1>2, <3>1
      <3>2. CASE i # Len(calls)
        <4>1. i \in 1 .. Len(calls) - 1 BY <1>3, <3>2
        <4> QED BY <1>2, <3>2, <4>1
      <3> QED BY <3>1, <3>2
    <2> QED BY <1>2, <2>1
  <1>5. c.am_root = Top.am_root => g = h BY <1>3
  <1>6. Top' = c BY <1>2 DEF Top
  <1>7. Shape' = Form(Doing(c), Len(calls), f, pos', nroots') BY <1>2, <1>6 DEF Shape
  <1>8. Shape.marks = h BY ShapeParts
  <1> HIDE DEF f, g, h
  <1>9. Shape' = Form(Doing(c), Len(calls), g, pos', nroots') BY <1>4, <1>7
  <1>10. c.am_root = Top.am_root
             => Shape' = Form(Doing(c), Len(calls), Shape.marks, pos', nroots')
    BY <1>5, <1>8, <1>9
  <1> QED BY <1>9, <1>10 DEF g

Walks == ~ Over(config, Shape) /\ Shape' = NextShape(config, Shape)

LEMMA EnterBlockShape ==
  ASSUME ScanTypes, NestInv, enter_block
  PROVE  Walks
  <1>1. Top.at = "enter" /\ Top \in CallSet /\ nroots' = nroots + 1 /\ pos' = pos /\ nroots + 1 \in Nat
        /\ ndevices + 1 \in Nat /\ ndevices \in Nat
    BY TopFacts DEF enter_block, ScanTypes
  <1>2. \E c \in CallSet : calls' = Append(Front(calls), c) /\ c.at = "keys" /\ c.am_root = nroots + 1
    <2>1. CASE roots[nroots + 1] /\ pass >= 1
      <3> DEFINE n == nroots + 1
                 m == ndevices + 1
                 c == InDevice(Top, n, m)
      <3>1. ndevices' = m
            /\ calls' = Append(Front(calls), [Top EXCEPT !.at = "keys", !.am_root = nroots',
                                                         !.path = <<>>, !.target = ndevices'])
        BY <1>1, <2>1 DEF enter_block, Becomes
      <3>2. calls' = Append(Front(calls), c) BY <1>1, <3>1 DEF InDevice
      <3>3. n \in Nat /\ m \in Nat /\ Top \in CallSet BY <1>1
      <3> HIDE DEF n, m
      <3>4. c \in CallSet /\ c.at = "keys" /\ c.am_root = n /\ c.target = m
        BY <3>3, CallOfDevice
      <3> HIDE DEF c
      <3> QED BY <3>2, <3>4 DEF n
    <2>2. CASE ~ (roots[nroots + 1] /\ pass >= 1)
      <3> DEFINE c == Entered(Top, nroots + 1)
      <3>1. calls' = Append(Front(calls), [Top EXCEPT !.at = "keys", !.am_root = nroots'])
        BY <1>1, <2>2 DEF enter_block, Becomes
      <3>a. calls' = Append(Front(calls), c) BY <1>1, <3>1 DEF Entered
      <3>2. c \in CallSet /\ c.at = "keys" /\ c.am_root = nroots + 1 BY <1>1, CallEntered
      <3> HIDE DEF c
      <3> QED BY <3>a, <3>2
    <2> QED BY <2>1, <2>2
  <1>3. PICK c \in CallSet : calls' = Append(Front(calls), c) /\ c.at = "keys" /\ c.am_root = nroots + 1
    BY <1>2
  <1>4. Shape' = Form("keys", Len(calls),
                      [i \in 1 .. Len(calls) |-> IF i = Len(calls) THEN nroots + 1 ELSE calls[i].am_root],
                      pos, nroots + 1)
    BY <1>1, <1>3, ShapeReplaced DEF Doing
  <1>5. [i \in 1 .. Len(calls) |-> IF i = Len(calls) THEN nroots + 1 ELSE calls[i].am_root]
          = Named(Shape)
    BY ShapeParts DEF Named
  <1>6. Shape.at = "enter" BY <1>1, ShapeParts DEF Doing
  <1> QED BY <1>4, <1>5, <1>6, ShapeParts DEF Walks, NextShape, Over, Nul

LEMMA ParseKeyShape ==
  ASSUME ScanTypes, NestInv, parse_key
  PROVE  Walks
  <1> DEFINE c == AtKey(Top, Token)
  <1>1. Top.at = "keys" /\ Token \notin {Nul, "}"} /\ nroots' = nroots /\ pos' = pos + 1
        /\ calls' = Append(Front(calls), c)
    BY DEF parse_key, Becomes, AtKey
  <1>2. c \in CallSet /\ c.at = "items" /\ c.am_root = Top.am_root BY TopFacts, CallKey
  <1> HIDE DEF c
  <1>3. Shape' = Form("items", Len(calls), Shape.marks, pos + 1, nroots)
    BY <1>1, <1>2, ShapeReplaced DEF Doing
  <1>4. Shape.at = "keys" BY <1>1, ShapeParts DEF Doing
  <1> QED BY <1>1, <1>3, <1>4, ShapeParts DEF Walks, NextShape, Over, Nul

LEMMA ValueShape ==
  ASSUME ScanTypes, NestInv, Top.at = "items", Token \notin {Nul, "{", ";"},
         Becomes([Top EXCEPT !.iface = FALSE]), pos' = pos + 1, nroots' = nroots
  PROVE  Walks
  <1> DEFINE c == [Top EXCEPT !.iface = FALSE]
  <1>1. calls' = Append(Front(calls), c) BY DEF Becomes
  <1>2. c \in CallSet /\ c.at = "items" /\ c.am_root = Top.am_root BY TopFacts, CallValue
  <1> HIDE DEF c
  <1>3. Shape' = Form("items", Len(calls), Shape.marks, pos + 1, nroots)
    BY <1>1, <1>2, ShapeReplaced DEF Doing
  <1>4. Shape.at = "items" BY ShapeParts DEF Doing
  <1> QED BY <1>1, <1>3, <1>4, ShapeParts DEF Walks, NextShape, Over, Nul

LEMMA EndEntryShape ==
  ASSUME ScanTypes, NestInv, end_entry
  PROVE  Walks
  <1> DEFINE c == [Top EXCEPT !.at = "keys"]
  <1>1. Top.at = "items" /\ Token \in {Nul, ";"} /\ nroots' = nroots
        /\ pos' = (IF Token = Nul THEN pos ELSE pos + 1) /\ calls' = Append(Front(calls), c)
    BY DEF end_entry, Becomes
  <1>2. c \in CallSet /\ c.at = "keys" /\ c.am_root = Top.am_root BY TopFacts, CallAt
  <1> HIDE DEF c
  <1>3. pos' = Behind(config, pos) BY <1>1, ShapeParts DEF Behind
  <1>4. Shape' = Form("keys", Len(calls), Shape.marks, Behind(config, pos), nroots)
    BY <1>1, <1>2, <1>3, ShapeReplaced DEF Doing
  <1>5. Shape.at = "items" BY <1>1, ShapeParts DEF Doing
  <1> QED BY <1>1, <1>4, <1>5, ShapeParts DEF Walks, NextShape, Over, Nul

LEMMA RangeOopsShape ==
  ASSUME ScanTypes, NestInv, parse_range_oops
  PROVE  Shape' = Shape
  <1> DEFINE c == [Top EXCEPT !.at = "oops"]
  <1>1. Top.at = "items" /\ nroots' = nroots /\ pos' = pos /\ calls' = Append(Front(calls), c)
    BY DEF parse_range_oops, NullParent, Becomes
  <1>2. c \in CallSet /\ c.at = "oops" /\ c.am_root = Top.am_root BY TopFacts, CallAt
  <1> HIDE DEF c
  <1>3. Shape' = Form("items", Len(calls), Shape.marks, pos, nroots)
    BY <1>1, <1>2, ShapeReplaced DEF Doing
  <1>4. Shape = Form("items", Len(calls), Shape.marks, pos, nroots)
    BY <1>1, ShapeParts DEF Doing, Shape, Form
  <1> QED BY <1>3, <1>4

LEMMA ParseBlockShape ==
  ASSUME ScanTypes, NestInv, parse_block
  PROVE  Walks
  <1> DEFINE c == [Top EXCEPT !.iface = FALSE]
             d == Call(Append(Top.path, config[key]), Top.flags, Top.target)
  <1>1. Top \in CallSet /\ config[key] \in Text /\ Len(calls) \in Nat \ {0} /\ Top = calls[Len(calls)]
    BY TopFacts
  <1>2. c \in CallSet /\ c.am_root = Top.am_root BY <1>1, CallValue
  <1>3. d \in CallSet /\ d.at = "enter" /\ d.am_root = 0 BY <1>1, CallInside DEF Call
  <1>4. calls' = Append(Front(calls), c) \o <<d>> /\ Top.at = "items" /\ pos' = pos + 1
        /\ Token = "{" /\ nroots' = nroots
    BY DEF parse_block
  <1> HIDE DEF c, d
  <1>5. calls \in Seq(CallSet) /\ calls # <<>> BY DEF ScanTypes
  <1>6. /\ calls' \in Seq(CallSet) /\ calls' # <<>> /\ Len(calls') = Len(calls) + 1
        /\ Last(calls') = d
        /\ calls'[Len(calls)] = c /\ \A i \in 1 .. Len(calls) - 1 : calls'[i] = calls[i]
    <2>1. c \in CallSet /\ d \in CallSet /\ calls' = Append(Front(calls), c) \o <<d>>
      BY <1>2, <1>3, <1>4
    <2> QED BY <1>5, <2>1, PushTop
  <1>7. Top' = d /\ calls'[Len(calls) + 1] = d BY <1>1, <1>6 DEF Top, Last
  <1> DEFINE f == [i \in 1 .. Len(calls') |-> calls'[i].am_root]
             g == [i \in 1 .. Shape.depth + 1 |-> IF i = Shape.depth + 1 THEN 0 ELSE Shape.marks[i]]
  <1>8. f = Pushed(Shape)
    <2>1. ASSUME NEW i \in 1 .. Len(calls) + 1 PROVE calls'[i].am_root = g[i]
      <3>0. Shape.depth = Len(calls) BY ShapeParts
      <3>1. CASE i = Len(calls) + 1 BY <1>3, <1>7, <3>0, <3>1
      <3>2. CASE i # Len(calls) + 1
        <4>1. i \in 1 .. Len(calls) BY <1>1, <3>2
        <4>2. g[i] = calls[i].am_root BY <1>1, <3>0, <4>1, ShapeParts
        <4>3. CASE i = Len(calls) BY <1>1, <1>2, <1>6, <4>2, <4>3
        <4>4. CASE i # Len(calls)
          <5>1. i \in 1 .. Len(calls) - 1 BY <1>1, <4>1, <4>4
          <5> QED BY <1>6, <4>2, <5>1
        <4> QED BY <4>3, <4>4
      <3> QED BY <3>1, <3>2
    <2>2. Len(calls') = Len(calls) + 1 /\ Shape.depth = Len(calls) BY <1>6, ShapeParts
    <2>3. f = [i \in 1 .. Len(calls) + 1 |-> calls'[i].am_root] BY <2>2
    <2>4. g = [i \in 1 .. Len(calls) + 1 |-> g[i]] BY <2>2
    <2>5. g = Pushed(Shape) BY DEF Pushed
    <2> HIDE DEF f, g
    <2> QED BY <2>1, <2>3, <2>4, <2>5
  <1>9. Shape' = Form("enter", Len(calls) + 1, f, pos + 1, nroots)
    BY <1>3, <1>4, <1>6, <1>7 DEF Shape, Doing
  <1> HIDE DEF f
  <1>10. Shape.at = "items" BY <1>4, ShapeParts DEF Doing
  <1> QED BY <1>4, <1>8, <1>9, <1>10, ShapeParts DEF Walks, NextShape, Over, Nul

LEMMA EndBlockShape ==
  ASSUME ScanTypes, NestInv, end_block
  PROVE  Walks
  <1>1. Len(calls) \in Nat \ {0} BY TopFacts
  <1>2. /\ Len(calls) > 1 /\ Top.at = "keys" /\ calls' = Front(calls) /\ Token \in {Nul, "}"}
        /\ nroots' = nroots /\ pos' = IF Token = Nul THEN pos ELSE pos + 1
    BY DEF end_block
  <1>3. calls \in Seq(CallSet) BY DEF ScanTypes
  <1>4. /\ calls' \in Seq(CallSet) /\ calls' # <<>> /\ Len(calls') = Len(calls) - 1
        /\ Last(calls') = calls[Len(calls) - 1]
        /\ \A i \in 1 .. Len(calls) - 1 : calls'[i] = calls[i]
    BY <1>2, <1>3, PopTop
  <1>5. Top'.at = "items"
    <2>0. Len(calls) > 1 BY <1>2
    <2>1. Len(calls) - 1 \in 1 .. Len(calls) - 1 BY <1>1, <2>0
    <2>2. Top' = calls[Len(calls) - 1] BY <1>4 DEF Top
    <2> QED BY <2>1, <2>2 DEF NestInv
  <1>6. pos' = Behind(config, pos) BY <1>2, ShapeParts DEF Behind
  <1> DEFINE f == [i \in 1 .. Len(calls') |-> calls'[i].am_root]
             g == [i \in 1 .. Shape.depth - 1 |-> Shape.marks[i]]
  <1>7. f = Popped(Shape)
    <2>1. Len(calls') = Len(calls) - 1 /\ Shape.depth = Len(calls) BY <1>4, ShapeParts
    <2>2. ASSUME NEW i \in 1 .. Len(calls) - 1 PROVE calls'[i].am_root = Shape.marks[i]
      <3>1. i \in 1 .. Len(calls) BY <1>1
      <3> QED BY <1>4, <3>1, ShapeParts
    <2>3. f = [i \in 1 .. Len(calls) - 1 |-> calls'[i].am_root] BY <2>1
    <2>4. g = [i \in 1 .. Len(calls) - 1 |-> Shape.marks[i]] BY <2>1
    <2>5. g = Popped(Shape) BY DEF Popped
    <2> HIDE DEF f, g
    <2> QED BY <2>2, <2>3, <2>4, <2>5
  <1>8. Shape' = Form("items", Len(calls) - 1, f, Behind(config, pos), nroots)
    BY <1>2, <1>4, <1>5, <1>6 DEF Shape, Doing
  <1> HIDE DEF f
  <1>9. Shape.at = "keys" BY <1>2, ShapeParts DEF Doing
  <1>10. ~ Over(config, Shape)
    <2>0. Len(calls) > 1 BY <1>2
    <2>1. Shape.depth # 1 BY <1>1, <2>0, ShapeParts
    <2> QED BY <2>1 DEF Over
  <1>11. TokenAt(config, Shape.pos) \in {Nul, "}"} /\ Shape.depth = Len(calls) /\ Shape.pos = pos
         /\ Shape.nroots = nroots
    BY <1>2, ShapeParts
  <1>12. NextShape(config, Shape)
           = Form("items", Shape.depth - 1, Popped(Shape), Behind(config, Shape.pos), Shape.nroots)
    <2>1. Shape.at = "keys" /\ Shape.at # "enter" BY <1>9
    <2>2. TokenAt(config, Shape.pos) \in {Nul, "}"} BY <1>11
    <2> QED BY <2>1, <2>2, Zenon DEF NextShape
  <1> QED BY <1>7, <1>8, <1>10, <1>11, <1>12 DEF Walks

(* A key "interface" marks the block of the call it is in. *)
Marks(c, s) == s.at = "keys" /\ TokenAt(c, s.pos) = "interface"
Marked(s) == s.marks[s.depth]

Adopts == roots' = IF Marks(config, Shape) THEN [roots EXCEPT ![Marked(Shape)] = TRUE] ELSE roots

(* The steps within a pass. *)
Parse ==
  \/ enter_block \/ parse_key \/ parse_quoted \/ parse_block \/ parse_value
  \/ parse_range_oops \/ end_entry \/ end_block

LEMMA ParseWalks ==
  ASSUME ScanTypes, NestInv, Parse
  PROVE  (Shape' = Shape /\ roots' = roots) \/ (Walks /\ Adopts)
  <1>1. Top.at \in {"enter", "items"} \/ Token # "interface" => ~ Marks(config, Shape)
    BY ShapeParts DEF Marks, Doing
  <1>2. CASE enter_block
    <2>1. Top.at = "enter" /\ roots' = roots BY <1>2 DEF enter_block
    <2> QED BY <1>1, <1>2, <2>1, EnterBlockShape DEF Adopts
  <1>3. CASE parse_key
    <2>1. Marked(Shape) = Top.am_root
      BY TopFacts, ShapeParts DEF Marked
    <2>2. Top.at = "keys"
          /\ roots' = IF Token = "interface" THEN [roots EXCEPT ![Top.am_root] = TRUE] ELSE roots
      BY <1>3 DEF parse_key
    <2>3. Marks(config, Shape) <=> Token = "interface"
      BY <2>2, ShapeParts DEF Marks, Doing
    <2>4. Adopts BY <2>1, <2>2, <2>3 DEF Adopts
    <2> QED BY <1>3, <2>4, ParseKeyShape
  <1>4. CASE parse_quoted
    <2>1. /\ Top.at = "items" /\ Token \in Quoted /\ roots' = roots /\ pos' = pos + 1 /\ nroots' = nroots
          /\ Becomes([Top EXCEPT !.iface = FALSE])
      BY <1>4 DEF parse_quoted
    <2>2. Token \notin {Nul, "{", ";"} BY <2>1, QuotedAssumption DEF Symbols
    <2> QED BY <1>1, <2>1, <2>2, ValueShape DEF Adopts
  <1>5. CASE parse_block
    <2>1. Top.at = "items" /\ roots' = roots BY <1>5 DEF parse_block
    <2> QED BY <1>1, <1>5, <2>1, ParseBlockShape DEF Adopts
  <1>6. CASE parse_value
    <2>1. /\ Top.at = "items" /\ Token \notin {Nul, "{", ";"} /\ roots' = roots /\ pos' = pos + 1
          /\ nroots' = nroots /\ Becomes([Top EXCEPT !.iface = FALSE])
      BY <1>6 DEF parse_value
    <2> QED BY <1>1, <2>1, ValueShape DEF Adopts
  <1>7. CASE parse_range_oops
    <2>1. roots' = roots BY <1>7 DEF parse_range_oops
    <2> QED BY <1>7, <2>1, RangeOopsShape
  <1>8. CASE end_entry
    <2>1. Top.at = "items" /\ roots' = roots BY <1>8 DEF end_entry
    <2> QED BY <1>1, <1>8, <2>1, EndEntryShape DEF Adopts
  <1>9. CASE end_block
    <2>1. Token \in {Nul, "}"} /\ roots' = roots BY <1>9 DEF end_block
    <2>2. Token # "interface" BY <2>1 DEF Nul
    <2> QED BY <1>1, <1>9, <2>1, <2>2, EndBlockShape DEF Adopts
  <1> QED BY <1>2, <1>3, <1>4, <1>5, <1>6, <1>7, <1>8, <1>9 DEF Parse

(* The shapes that pass 0 goes through are those of the other passes: its  *)
(* marks are all made when it ends, and no pass makes another one.         *)
Start == Form("enter", 1, [i \in 1 .. 1 |-> 0], 1, 0)

Steps(V, c, r, s) == ~ Over(c, s) /\ NextShape(c, s) \in V /\ (Marks(c, s) => r[Marked(s)])
Ends(c, r, s) == Over(c, s) /\ \A n \in DOMAIN r : r[n] => n <= s.nroots

MarkInv ==
  /\ \A n \in DOMAIN roots : pass = 0 /\ roots[n] => n <= nroots
  /\ pass = 3 => Over(config, Shape)
  /\ \E V :
       /\ Start \in V /\ Shape \in V
       /\ pass = 0 => \A s \in V : s = Shape \/ Steps(V, config, roots, s)
       /\ pass > 0 => \A s \in V : Ends(config, roots, s) \/ Steps(V, config, roots, s)

LEMMA MarkStep ==
  ASSUME ScanTypes, NestInv, MarkInv, Parse
  PROVE  MarkInv' /\ (pass > 0 => roots' = roots)
  <1>1. pass \in 0 .. 3 /\ config' = config /\ pass' = pass
    BY DEF ScanTypes, Parse, enter_block, parse_key, parse_quoted, parse_block, parse_value,
           parse_range_oops, end_entry, end_block
  <1>2. roots \in [1 .. Len(config) -> BOOLEAN] /\ nroots \in Nat /\ nroots' \in Nat /\ nroots <= nroots'
    <2>1. nroots' = nroots \/ nroots' = nroots + 1
      BY DEF Parse, enter_block, parse_key, parse_quoted, parse_block, parse_value,
             parse_range_oops, end_entry, end_block
    <2> QED BY <2>1 DEF ScanTypes
  <1>3. PICK V : /\ Start \in V /\ Shape \in V
                 /\ pass = 0 => \A s \in V : s = Shape \/ Steps(V, config, roots, s)
                 /\ pass > 0 => \A s \in V : Ends(config, roots, s) \/ Steps(V, config, roots, s)
    BY DEF MarkInv
  <1>4. CASE Shape' = Shape /\ roots' = roots
    <2>1. /\ Start \in V /\ Shape' \in V
          /\ pass' = 0 => \A s \in V : s = Shape' \/ Steps(V, config', roots', s)
          /\ pass' > 0 => \A s \in V : Ends(config', roots', s) \/ Steps(V, config', roots', s)
      BY <1>1, <1>3, <1>4
    <2>2. \A n \in DOMAIN roots' : pass' = 0 /\ roots'[n] => n <= nroots'
      BY <1>1, <1>2, <1>4 DEF MarkInv
    <2>3. pass' = 3 => Over(config', Shape') BY <1>1, <1>4 DEF MarkInv
    <2> QED BY <1>4, <2>1, <2>2, <2>3 DEF MarkInv
  <1>5. CASE Walks /\ Adopts /\ pass = 0
    <2> DEFINE W == V \cup {Shape'}
    <2>1. DOMAIN roots' = DOMAIN roots /\ \A n \in DOMAIN roots : roots[n] => roots'[n]
      BY <1>2, <1>5 DEF Adopts
    <2>2. Marks(config, Shape) => Marked(Shape) \in DOMAIN roots /\ Marked(Shape) <= nroots
      <3>1. Marked(Shape) = Top.am_root BY TopFacts, ShapeParts DEF Marked
      <3>2. Marks(config, Shape) => Top.at # "enter" BY ShapeParts DEF Marks, Doing
      <3> QED BY <1>2, <3>1, <3>2, RootFacts
    <2>3. Marks(config, Shape) => roots'[Marked(Shape)] BY <1>2, <1>5, <2>2 DEF Adopts
    <2>4. \A n \in DOMAIN roots' : roots'[n] => roots[n] \/ n <= nroots
      BY <1>2, <1>5, <2>2 DEF Adopts
    <2>5. \A n \in DOMAIN roots' : pass' = 0 /\ roots'[n] => n <= nroots'
      BY <1>1, <1>2, <1>5, <2>1, <2>4 DEF MarkInv
    <2>6. ASSUME NEW s \in W PROVE s = Shape' \/ Steps(W, config', roots', s)
      <3>1. CASE s = Shape'
        BY <3>1
      <3>2. CASE s # Shape' /\ s = Shape
        BY <1>1, <1>5, <2>3, <3>2 DEF Walks, Steps
      <3>3. CASE s # Shape' /\ s # Shape
        <4>1. s \in V BY <3>3
        <4>2. Steps(V, config, roots, s) BY <1>3, <1>5, <3>3, <4>1
        <4>3. Marks(config, s) => roots[Marked(s)] BY <4>2 DEF Steps
        <4>4. Marks(config, s) => roots'[Marked(s)]
          BY <1>2, <1>5, <4>3 DEF Adopts
        <4> QED BY <1>1, <4>2, <4>4 DEF Steps
      <3> QED BY <3>1, <3>2, <3>3
    <2>7. Start \in W /\ Shape' \in W BY <1>3
    <2> HIDE DEF W
    <2>8. /\ pass' = 0 => \A s \in W : s = Shape' \/ Steps(W, config', roots', s)
          /\ pass' > 0 => \A s \in W : Ends(config', roots', s) \/ Steps(W, config', roots', s)
      BY <1>1, <1>5, <2>6
    <2>9. pass' # 3 BY <1>1, <1>5
    <2>10. MarkInv' BY <2>5, <2>7, <2>8, <2>9 DEF MarkInv
    <2> QED BY <1>5, <2>10
  <1>6. CASE Walks /\ Adopts /\ pass > 0
    <2>1. ~ Ends(config, roots, Shape) BY <1>6 DEF Ends, Walks
    <2>2. Steps(V, config, roots, Shape) BY <1>3, <1>6, <2>1
    <2>3. roots' = roots
      <3>1. CASE Marks(config, Shape)
        <4>1. roots[Marked(Shape)] = TRUE
          <5>1. Marked(Shape) = Top.am_root BY TopFacts, ShapeParts DEF Marked
          <5>2. Top.at # "enter" BY <3>1, ShapeParts DEF Marks, Doing
          <5>3. Marked(Shape) \in 1 .. Len(config) BY <5>1, <5>2, RootFacts
          <5> QED BY <1>2, <2>2, <3>1, <5>3 DEF Steps
        <4> QED BY <1>2, <1>6, <3>1, <4>1 DEF Adopts
      <3>2. CASE ~ Marks(config, Shape) BY <1>6, <3>2 DEF Adopts
      <3> QED BY <3>1, <3>2
    <2>4. Shape' \in V BY <1>6, <2>2 DEF Walks, Steps
    <2>5. pass' # 3 BY <1>1, <1>6 DEF MarkInv, Walks
    <2>6. \A n \in DOMAIN roots' : pass' = 0 /\ roots'[n] => n <= nroots' BY <1>1, <1>6
    <2>7. /\ Start \in V /\ Shape' \in V
          /\ pass' = 0 => \A s \in V : s = Shape' \/ Steps(V, config', roots', s)
          /\ pass' > 0 => \A s \in V : Ends(config', roots', s) \/ Steps(V, config', roots', s)
      BY <1>1, <1>3, <1>6, <2>3, <2>4
    <2>8. MarkInv' BY <2>5, <2>6, <2>7 DEF MarkInv
    <2> QED BY <2>3, <2>8
  <1> QED BY <1>1, <1>4, <1>5, <1>6, ParseWalks

-----------------------------------------------------------------------------
(* As many devices as blocks were marked, of those counted so far. *)
Counted(r, n) == Cardinality({i \in 1 .. n : r[i]})

DevInv ==
  /\ pass = 0 => ndevices = 0 /\ Len(out.devices) = 0
  /\ pass > 0 => ndevices = Counted(roots, nroots) /\ Len(out.devices) = Counted(roots, Len(config))

LEMMA Marking ==
  ASSUME NEW N \in Nat, NEW r \in [1 .. N -> BOOLEAN], NEW n \in 0 .. N
  PROVE  /\ Counted(r, n) \in Nat /\ Counted(r, n) <= Counted(r, N)
         /\ n + 1 \in 1 .. N /\ r[n + 1] => Counted(r, n + 1) = Counted(r, n) + 1
         /\ n + 1 \in 1 .. N /\ ~ r[n + 1] => Counted(r, n + 1) = Counted(r, n)
         /\ (\A i \in 1 .. N : r[i] => i <= n) => Counted(r, n) = Counted(r, N)
  <1> DEFINE A == {i \in 1 .. n : r[i]}
             B == {i \in 1 .. N : r[i]}
             C == {i \in 1 .. n + 1 : r[i]}
  <1>1. IsFiniteSet(1 .. N) BY FS_Interval
  <1>2. B \subseteq 1 .. N /\ A \subseteq B OBVIOUS
  <1>3. IsFiniteSet(B) BY <1>1, <1>2, FS_Subset
  <1>4. IsFiniteSet(A) /\ Cardinality(A) <= Cardinality(B) BY <1>2, <1>3, FS_Subset
  <1>5. Cardinality(A) \in Nat BY <1>4, FS_CardinalityType
  <1>6. ASSUME n + 1 \in 1 .. N, r[n + 1] PROVE Cardinality(C) = Cardinality(A) + 1
    <2>1. C = A \cup {n + 1} BY <1>6
    <2>2. n + 1 \notin A OBVIOUS
    <2> HIDE DEF A, C
    <2> QED BY <1>4, <2>1, <2>2, FS_AddElement
  <1>7. ASSUME n + 1 \in 1 .. N, ~ r[n + 1] PROVE Cardinality(C) = Cardinality(A)
    <2>1. C = A BY <1>7
    <2> QED BY <2>1
  <1>8. ASSUME \A i \in 1 .. N : r[i] => i <= n PROVE A = B
    BY <1>8
  <1>9. Counted(r, n) = Cardinality(A) /\ Counted(r, N) = Cardinality(B)
        /\ Counted(r, n + 1) = Cardinality(C)
    BY DEF Counted
  <1> HIDE DEF A, B, C
  <1> QED BY <1>4, <1>5, <1>6, <1>7, <1>8, <1>9

LEMMA RoomThere ==
  ASSUME ScanTypes, NestInv, DevInv
  PROVE  Room
  <1>1. nroots \in 0 .. Len(config) /\ Len(config) \in Nat BY TopFacts, RootFacts DEF ScanTypes
  <1>2. roots \in [1 .. Len(config) -> BOOLEAN] /\ pass \in 0 .. 3 BY DEF ScanTypes
  <1>3. CASE pass = 0
    <2>1. ndevices <= Len(out.devices) BY <1>3 DEF DevInv
    <2>2. ~ (pass >= 1) BY <1>3
    <2> QED BY <2>1, <2>2 DEF Room
  <1>4. CASE pass > 0
    <2>1. ndevices <= Len(out.devices) BY <1>1, <1>2, <1>4, Marking DEF DevInv
    <2>2. ASSUME Top.at = "enter", roots[nroots + 1] PROVE ndevices + 1 <= Len(out.devices)
      <3>1. nroots + 1 \in 1 .. Len(config) BY <2>2, RootFacts
      <3>2. Counted(roots, nroots + 1) = ndevices + 1
        BY <1>1, <1>2, <1>4, <2>2, <3>1, Marking DEF DevInv
      <3>3. nroots + 1 \in 0 .. Len(config) BY <3>1
      <3>4. Counted(roots, nroots + 1) <= Len(out.devices)
        BY <1>1, <1>2, <1>4, <3>3, Marking DEF DevInv
      <3> QED BY <3>2, <3>4
    <2> QED BY <2>1, <2>2 DEF Room
  <1> QED BY <1>2, <1>3, <1>4

LEMMA NumResourcesIs ==
  ASSUME NEW N \in Nat, NEW s, Sums(s, [i \in 1 .. N |-> out.devices[i].num], N), NEW n \in 0 .. N
  PROVE  NumResources(n) = s[n]
  <1> DEFINE d == [i \in 1 .. N |-> out.devices[i].num]
             f(g) == [i \in 0 .. n |-> IF i = 0 THEN 0 ELSE g[i - 1] + out.devices[i].num]
             t == [i \in 0 .. n |-> s[i]]
             sum == CHOOSE g : g = f(g)
  <1>1. t = f(t)
    <2>1. ASSUME NEW i \in 0 .. n
          PROVE  t[i] = IF i = 0 THEN 0 ELSE t[i - 1] + out.devices[i].num
      <3>1. CASE i = 0 BY <3>1 DEF Sums
      <3>2. CASE i # 0
        <4>1. i \in 1 .. N /\ i - 1 \in 0 .. n BY <3>2
        <4>2. s[i] = s[i - 1] + d[i] BY <4>1 DEF Sums
        <4> QED BY <3>2, <4>1, <4>2
      <3> QED BY <3>1, <3>2
    <2> HIDE DEF t
    <2> QED BY <2>1 DEF t
  <1>2. sum = f(sum)
    <2> HIDE DEF f, t
    <2> QED BY <1>1
  <1>3. NumResources(n) = sum[n] BY DEF NumResources
  <1>4. sum = [i \in 0 .. n |-> IF i = 0 THEN 0 ELSE sum[i - 1] + d[i]]
    <2>1. \A i \in 0 .. n : i # 0 => i \in 1 .. N OBVIOUS
    <2>2. \A i \in 0 .. n : i # 0 => d[i] = out.devices[i].num BY <2>1
    <2> HIDE DEF sum, d
    <2> QED BY <1>2, <2>2
  <1> HIDE DEF sum, d
  <1>5. Sums(s, d, N) BY DEF d
  <1>6. sum[n] = s[n]
    <2> HIDE DEF f, t
    <2>1. \A dd, ss, tt : Sums(ss, dd, N) /\ tt = [i \in 0 .. n |-> IF i = 0 THEN 0 ELSE tt[i - 1] + dd[i]]
                           => tt[n] = ss[n]
      BY SumsUnique
    <2> QED BY <1>4, <1>5, <2>1
  <1> QED BY <1>3, <1>6

(* A pass begins with the call for the string itself. *)
Beginning == <<Call(<<>>, "none", NoDevice)>>

LEMMA BeginningIs ==
  /\ Beginning \in Seq(CallSet) /\ Beginning # <<>> /\ Len(Beginning) = 1
  /\ LET c == Beginning[1]
     IN  c \in CallSet /\ c.at = "enter" /\ c.am_root = 0 /\ c.target = 0
  /\ Last(Beginning) = Beginning[1]
  <1> DEFINE c == Call(<<>>, "none", NoDevice)
  <1>1. <<>> \in Seq(Text) BY EmptySeq
  <1>2. c \in CallSet /\ c.at = "enter" /\ c.am_root = 0 /\ c.target = 0
    BY <1>1 DEF Call, CallSet, Text, NoDevice
  <1> HIDE DEF c
  <1>3. Beginning = <<c>> BY DEF Beginning, c
  <1>4. Beginning \in Seq(CallSet) /\ Beginning # <<>> /\ Len(Beginning) = 1 /\ Beginning[1] = c
    BY <1>2, <1>3
  <1> QED BY <1>2, <1>4 DEF Last

LEMMA Restarted ==
  ASSUME Restart
  PROVE  /\ calls' \in Seq(CallSet) /\ calls' # <<>> /\ NestInv' /\ Shape' = Start
         /\ pos' = 1 /\ nroots' = 0 /\ ndevices' = 0
  <1>1. calls' = Beginning /\ pos' = 1 /\ nroots' = 0 /\ ndevices' = 0
    BY DEF Restart, Beginning
  <1>2. Top' = calls'[1] /\ calls' \in Seq(CallSet) /\ calls' # <<>> /\ Len(calls') = 1
        /\ calls'[1].at = "enter" /\ calls'[1].am_root = 0 /\ calls'[1].target = 0
    BY <1>1, BeginningIs DEF Top
  <1>3. NestInv' BY <1>1, <1>2 DEF NestInv
  <1>4. [i \in 1 .. Len(calls') |-> calls'[i].am_root] = [i \in 1 .. 1 |-> 0] BY <1>2
  <1>5. Shape' = Start BY <1>1, <1>2, <1>4 DEF Shape, Start, Doing
  <1> QED BY <1>1, <1>2, <1>3, <1>5

LEMMA EndOfPassIs ==
  ASSUME ScanTypes, EndOfPass
  PROVE  Over(config, Shape)
  BY ShapeParts DEF EndOfPass, Over, Doing

LEMMA AllMarked ==
  ASSUME ScanTypes, NestInv, MarkInv, DevInv, EndOfPass
  PROVE  /\ NumDevices = Counted(roots, Len(config)) /\ NumDevices \in Nat
         /\ pass > 0 => NumDevices = Len(out.devices) /\ NumDevices = ndevices
  <1>1. Over(config, Shape) BY EndOfPassIs
  <1>2. \A n \in DOMAIN roots : roots[n] => n <= nroots
    <2>1. CASE pass = 0 BY <2>1 DEF MarkInv
    <2>2. CASE pass # 0
      <3>1. pass > 0 BY <2>2 DEF ScanTypes
      <3>2. Ends(config, roots, Shape) BY <1>1, <3>1 DEF MarkInv, Steps
      <3> QED BY <3>2, ShapeParts DEF Ends
    <2> QED BY <2>1, <2>2
  <1>3. nroots \in 0 .. Len(config) /\ Len(config) \in Nat
        /\ roots \in [1 .. Len(config) -> BOOLEAN]
    BY TopFacts, RootFacts DEF ScanTypes
  <1>4. Counted(roots, nroots) = Counted(roots, Len(config)) /\ Counted(roots, nroots) \in Nat
    BY <1>2, <1>3, Marking
  <1>5. NumDevices = Counted(roots, nroots) BY DEF NumDevices, Counted
  <1> QED BY <1>4, <1>5 DEF DevInv

(* What is allocated before the last pass: every device its share. *)
LEMMA Allocated ==
  ASSUME ScanTypes, NumDevices = Len(out.devices), next_pass, pass = 1
  PROVE  /\ size' = [resources |-> NumResources(NumDevices), names |-> out.names]
         /\ size' \in [resources : Nat, names : Nat] /\ size'.names = out.names
         /\ out' \in Output /\ out'.names = 0 /\ Len(out'.devices) = Len(out.devices)
         /\ \A n \in 1 .. Len(out.devices) :
              out'.devices[n].resource + out.devices[n].num
                = IF n < Len(out.devices) THEN out'.devices[n + 1].resource ELSE size'.resources
  <1> DEFINE N == Len(out.devices)
             d == [i \in 1 .. N |-> out.devices[i].num]
             ds == [i \in 1 .. N |-> [out.devices[i] EXCEPT !.resource = NumResources(i - 1)]]
             rs == [i \in 1 .. size'.resources |-> BlankResource]
             ts == [i \in 1 .. size'.names |-> BlankCell]
  <1>1. N \in Nat /\ out.names \in Nat /\ out.devices \in Seq(Device)
        /\ \A i \in 1 .. N : d[i] \in Nat /\ out.devices[i] \in Device
    BY OutputParts DEF ScanTypes
  <1>2. \E s : Sums(s, d, N)
    <2> HIDE DEF d, N
    <2> QED BY <1>1, SumsExist
  <1>3. PICK s : Sums(s, d, N) BY <1>2
  <1>4. \A n \in 0 .. N : NumResources(n) = s[n] /\ s[n] \in Nat
    <2>1. \A n \in 0 .. N : NumResources(n) = s[n] BY <1>1, <1>3, NumResourcesIs
    <2> HIDE DEF d, N
    <2> QED BY <1>3, <2>1 DEF Sums
  <1>5. /\ size' = [resources |-> NumResources(NumDevices), names |-> out.names]
        /\ out' = [names |-> 0, devices |-> ds, resources |-> rs, text |-> ts]
    BY DEF next_pass
  <1>6. NumDevices = N OBVIOUS
  <1> HIDE DEF N
  <1>7. N \in 0 .. N BY <1>1
  <1>8. size'.resources = s[N] /\ size'.names = out.names /\ s[N] \in Nat
    BY <1>4, <1>5, <1>6, <1>7
  <1>9. size' \in [resources : Nat, names : Nat]
    BY <1>1, <1>4, <1>5, <1>6, <1>7
  <1>10. ASSUME NEW i \in 1 .. N
         PROVE  ds[i] \in Device /\ ds[i].resource = s[i - 1]
    <2> DEFINE e == out.devices[i]
               m == NumResources(i - 1)
    <2>1. i - 1 \in 0 .. N BY <1>1
    <2>2. e \in Device /\ m \in Nat /\ m = s[i - 1] BY <1>1, <1>4, <2>1
    <2>3. ds[i] = [e EXCEPT !.resource = m] OBVIOUS
    <2> HIDE DEF e, m, ds
    <2>4. [e EXCEPT !.resource = m] \in Device /\ [e EXCEPT !.resource = m].resource = m
      BY <2>2 DEF Device
    <2> QED BY <2>2, <2>3, <2>4
  <1>11. ds \in Seq(Device) /\ Len(ds) = N
    <2>1. ds \in [1 .. N -> Device] BY <1>10
    <2> HIDE DEF ds
    <2> QED BY <1>1, <2>1
  <1>12. BlankResource \in Resource /\ BlankCell \in Cell
    BY DEF BlankResource, BlankCell, Resource, Cell, Dot, Text, Nul
  <1>13. rs \in Seq(Resource)
    <2> DEFINE m == size'.resources
    <2>1. m \in Nat BY <1>8
    <2> HIDE DEF m
    <2>2. rs \in [1 .. m -> Resource] BY <1>12 DEF m
    <2> HIDE DEF rs
    <2> QED BY <2>1, <2>2
  <1>14. ts \in Seq(Cell)
    <2> DEFINE m == size'.names
    <2>1. m \in Nat BY <1>1, <1>8
    <2> HIDE DEF m
    <2>2. ts \in [1 .. m -> Cell] BY <1>12 DEF m
    <2> HIDE DEF ts
    <2> QED BY <2>1, <2>2
  <1> HIDE DEF ds, rs, ts
  <1>15. out' \in Output /\ out'.names = 0 /\ out'.devices = ds
    BY <1>5, <1>11, <1>13, <1>14 DEF Output
  <1>16. ASSUME NEW n \in 1 .. N
         PROVE  out'.devices[n].resource + out.devices[n].num
                  = IF n < N THEN out'.devices[n + 1].resource ELSE size'.resources
    <2>1. s[n] = s[n - 1] + out.devices[n].num BY <1>3 DEF Sums
    <2>2. out'.devices[n].resource = s[n - 1] BY <1>10, <1>15
    <2>3. CASE n < N
      <3>1. n + 1 \in 1 .. N /\ n + 1 - 1 = n BY <1>1, <2>3
      <3>2. out'.devices[n + 1].resource = s[n] BY <1>10, <1>15, <3>1
      <3> QED BY <2>1, <2>2, <2>3, <3>2
    <2>4. CASE n = N BY <1>8, <2>1, <2>2, <2>4
    <2> QED BY <1>1, <2>3, <2>4
  <1> QED BY <1>5, <1>8, <1>9, <1>11, <1>15, <1>16 DEF N

LEMMA DevStep ==
  ASSUME ScanTypes, NestInv, MarkInv, DevInv, Parse
  PROVE  DevInv' /\ Len(out'.devices) = Len(out.devices)
  <1>1. Room /\ (pass > 0 => roots' = roots) BY RoomThere, MarkStep
  <1>2. config' = config /\ pass' = pass /\ pass \in 0 .. 3
    BY DEF ScanTypes, Parse, enter_block, parse_key, parse_quoted, parse_block, parse_value,
           parse_range_oops, end_entry, end_block
  <1>3. CASE enter_block
    <2>1. nroots + 1 \in 1 .. Len(config) /\ nroots \in 0 .. Len(config) /\ Len(config) \in Nat
          /\ roots \in [1 .. Len(config) -> BOOLEAN] /\ ndevices \in Nat
      BY <1>3, TopFacts, RootFacts DEF ScanTypes, enter_block
    <2>2. nroots' = nroots + 1 BY <1>3 DEF enter_block
    <2>3. CASE roots[nroots + 1] /\ pass >= 1
      <3>1. ndevices' = ndevices + 1 BY <1>3, <2>2, <2>3 DEF enter_block
      <3>2. Len(out'.devices) = Len(out.devices)
        <4>1. Room /\ roots[nroots + 1] /\ pass >= 1 BY <1>1, <2>3
        <4> QED BY <1>3, <4>1, EnterMarked
      <3>3. pass > 0 BY <1>2, <2>3
      <3>4. Counted(roots, nroots + 1) = Counted(roots, nroots) + 1
        BY <2>1, <2>3, Marking
      <3>5. ndevices' = Counted(roots', nroots') BY <1>1, <2>2, <3>1, <3>3, <3>4 DEF DevInv
      <3> QED BY <1>1, <1>2, <3>2, <3>3, <3>5 DEF DevInv
    <2>4. CASE ~ (roots[nroots + 1] /\ pass >= 1)
      <3>1. ndevices' = ndevices /\ out' = out BY <1>3, <2>2, <2>4 DEF enter_block
      <3>2. CASE pass = 0 BY <1>2, <3>1, <3>2 DEF DevInv
      <3>3. CASE pass > 0
        <4>1. ~ roots[nroots + 1] BY <1>2, <2>4, <3>3
        <4>2. Counted(roots, nroots + 1) = Counted(roots, nroots)
          BY <2>1, <4>1, Marking
        <4> QED BY <1>1, <1>2, <2>2, <3>1, <3>3, <4>2 DEF DevInv
      <3> QED BY <1>2, <3>2, <3>3
    <2> QED BY <2>3, <2>4
  <1>4. CASE ~ enter_block
    <2>1. nroots' = nroots /\ ndevices' = ndevices
      BY <1>4 DEF Parse, parse_key, parse_quoted, parse_block, parse_value,
                  parse_range_oops, end_entry, end_block
    <2>2. Len(out'.devices) = Len(out.devices)
      <3>1. CASE parse_quoted BY <1>1, <3>1, QuotedAdds DEF Adds
      <3>2. CASE parse_value BY <1>1, <3>2, ValueAdds DEF Adds
      <3>3. CASE end_entry BY <1>1, <3>3, EndEntryAdds DEF Adds
      <3>4. CASE parse_key \/ parse_block \/ parse_range_oops \/ end_block
        <4>1. out' = out BY <3>4 DEF parse_key, parse_block, parse_range_oops, end_block
        <4> QED BY <4>1
      <3> QED BY <1>4, <3>1, <3>2, <3>3, <3>4 DEF Parse
    <2>3. pass > 0 => roots' = roots BY <1>1
    <2> QED BY <1>2, <2>1, <2>2, <2>3 DEF DevInv
  <1> QED BY <1>3, <1>4

ScanInv == ScanTypes /\ NestInv /\ MarkInv /\ DevInv

LEMMA ParseScan ==
  ASSUME ScanInv, Parse
  PROVE  ScanInv'
  <1>1. ScanTypes /\ NestInv /\ MarkInv /\ DevInv BY DEF ScanInv
  <1>2. Room BY <1>1, RoomThere
  <1>3. ScanTypes' /\ NestInv'
    BY <1>1, <1>2, EnterBlockStep, ParseKeyStep, ParseQuotedStep, ParseBlockStep, ParseValueStep,
       RangeOopsStep, EndEntryStep, EndBlockStep DEF Parse
  <1>4. MarkInv' BY <1>1, MarkStep
  <1>5. DevInv' BY <1>1, DevStep
  <1> QED BY <1>3, <1>4, <1>5 DEF ScanInv

LEMMA NextPassScan ==
  ASSUME ScanInv, next_pass
  PROVE  ScanInv'
  <1>1. ScanTypes /\ NestInv /\ MarkInv /\ DevInv /\ EndOfPass BY DEF ScanInv, next_pass
  <1>2. config' = config /\ roots' = roots /\ key' = key /\ pass' = pass + 1 /\ pass \in 0 .. 2
    BY <1>1 DEF next_pass, ScanTypes
  <1>3. roots \in [1 .. Len(config) -> BOOLEAN] /\ Len(config) \in Nat \ {0} /\ nroots \in Nat
    BY <1>1, TopFacts DEF ScanTypes
  <1>4. Over(config, Shape) BY <1>1, EndOfPassIs
  <1>5. /\ NumDevices = Counted(roots, Len(config)) /\ NumDevices \in Nat
        /\ pass > 0 => NumDevices = Len(out.devices) /\ NumDevices = ndevices
    BY <1>1, AllMarked
  <1>6. PICK V : /\ Start \in V /\ Shape \in V
                 /\ pass = 0 => \A s \in V : s = Shape \/ Steps(V, config, roots, s)
                 /\ pass > 0 => \A s \in V : Ends(config, roots, s) \/ Steps(V, config, roots, s)
    BY <1>1 DEF MarkInv
  <1>7. \A s \in V : Ends(config, roots, s) \/ Steps(V, config, roots, s)
    <2>1. CASE pass = 0
      <3>1. Ends(config, roots, Shape)
        <4>1. \A n \in DOMAIN roots : roots[n] => n <= nroots BY <1>1, <2>1 DEF MarkInv
        <4> QED BY <1>4, <4>1, ShapeParts DEF Ends
      <3> QED BY <1>6, <2>1, <3>1
    <2>2. CASE pass > 0 BY <1>6, <2>2
    <2> QED BY <1>2, <2>1, <2>2
  <1>8. ASSUME Shape' = Start, pass < 2 PROVE MarkInv'
    <2>1. /\ Start \in V /\ Shape' \in V
          /\ pass' = 0 => \A s \in V : s = Shape' \/ Steps(V, config', roots', s)
          /\ pass' > 0 => \A s \in V : Ends(config', roots', s) \/ Steps(V, config', roots', s)
      BY <1>2, <1>6, <1>7, <1>8
    <2> QED BY <1>2, <1>8, <2>1 DEF MarkInv
  <1>9. CASE pass < 2
    <2>1. Restart BY <1>9 DEF next_pass
    <2>2. /\ calls' \in Seq(CallSet) /\ calls' # <<>> /\ NestInv' /\ Shape' = Start
          /\ pos' = 1 /\ nroots' = 0 /\ ndevices' = 0
      BY <2>1, Restarted
    <2>3. Counted(roots, 0) = 0
      <3>1. {i \in 1 .. 0 : roots[i]} = {} OBVIOUS
      <3> QED BY <3>1, FS_EmptySet DEF Counted
    <2>4. out' \in Output /\ size' \in [resources : Nat, names : Nat] /\ Len(out'.devices) = NumDevices
      <3>1. CASE pass = 0
        <4> DEFINE ds == [i \in 1 .. NumDevices |-> BlankDevice]
        <4>1. out' = [out EXCEPT !.names = 0, !.devices = ds] /\ size' = size
          BY <3>1 DEF next_pass
        <4>2. BlankDevice \in Device BY DEF BlankDevice, Device, Dot
        <4>3. ds \in [1 .. NumDevices -> Device] BY <4>2
        <4> HIDE DEF ds
        <4>4. ds \in Seq(Device) /\ Len(ds) = NumDevices BY <1>5, <4>3
        <4>5. out' \in Output /\ out'.devices = ds BY <1>1, <4>1, <4>4 DEF ScanTypes, Output
        <4> QED BY <1>1, <4>1, <4>4, <4>5 DEF ScanTypes
      <3>2. CASE pass = 1
        <4>1. NumDevices = Len(out.devices) BY <1>5, <3>2
        <4> QED BY <1>1, <3>2, <4>1, Allocated
      <3> QED BY <1>2, <1>9, <3>1, <3>2
    <2>5. ScanTypes' BY <1>1, <1>2, <1>3, <2>2, <2>4 DEF ScanTypes
    <2>6. DevInv' BY <1>2, <1>5, <2>2, <2>3, <2>4 DEF DevInv
    <2> QED BY <1>8, <1>9, <2>2, <2>5, <2>6 DEF ScanInv
  <1>10. CASE pass = 2
    <2>1. UNCHANGED <<config, key, roots, calls, pos, nroots, ndevices, out, size>> /\ pass' = 3
      BY <1>2, <1>10 DEF next_pass
    <2>2. ScanTypes' BY <1>1, <2>1 DEF ScanTypes
    <2>3. NestInv' BY <1>1, <2>1 DEF NestInv, Top
    <2>4. Shape' = Shape BY <2>1 DEF Shape, Top
    <2>5. /\ Start \in V /\ Shape' \in V
          /\ pass' = 0 => \A s \in V : s = Shape' \/ Steps(V, config', roots', s)
          /\ pass' > 0 => \A s \in V : Ends(config', roots', s) \/ Steps(V, config', roots', s)
      BY <1>2, <1>6, <1>7, <2>1, <2>4
    <2>6. MarkInv' BY <1>2, <1>4, <1>10, <2>1, <2>4, <2>5 DEF MarkInv
    <2>7. DevInv' BY <1>1, <1>10, <2>1 DEF DevInv
    <2> QED BY <2>2, <2>3, <2>6, <2>7 DEF ScanInv
  <1> QED BY <1>2, <1>9, <1>10

LEMMA InitScan ==
  ASSUME Init
  PROVE  ScanInv
  <1>1. calls = Beginning /\ pos = 1 /\ nroots = 0 /\ ndevices = 0 /\ pass = 0 /\ key = 1
        /\ config \in Configs /\ roots = [i \in 1 .. Len(config) |-> FALSE]
        /\ out = [names |-> 0, devices |-> <<>>, resources |-> <<>>, text |-> <<>>]
        /\ size = [resources |-> 0, names |-> 0]
    BY DEF Init, Beginning
  <1>2. Top = calls[1] /\ calls \in Seq(CallSet) /\ calls # <<>> /\ Len(calls) = 1
        /\ calls[1].at = "enter" /\ calls[1].am_root = 0 /\ calls[1].target = 0
    BY <1>1, BeginningIs DEF Top
  <1>3. config \in Seq(Text) /\ config # <<>>
    <2>1. config \in Seq(STRING) /\ config # <<>> BY <1>1, ConfigsAssumption
    <2>2. STRING \subseteq Text BY DEF Text
    <2> QED BY <2>1, <2>2, SeqMonotonic
  <1>4. Len(config) \in Nat \ {0} BY <1>3, EmptySeq
  <1>5. out \in Output /\ Len(out.devices) = 0 BY <1>1, EmptySeq DEF Output
  <1>6. ScanTypes BY <1>1, <1>2, <1>3, <1>4, <1>5 DEF ScanTypes
  <1>7. NestInv BY <1>1, <1>2 DEF NestInv
  <1>8. [i \in 1 .. Len(calls) |-> calls[i].am_root] = [i \in 1 .. 1 |-> 0] BY <1>2
  <1>9. Shape = Start BY <1>1, <1>2, <1>8 DEF Shape, Start, Doing
  <1>10. MarkInv
    <2> DEFINE V == {Start}
    <2>1. /\ Start \in V /\ Shape \in V
          /\ pass = 0 => \A s \in V : s = Shape \/ Steps(V, config, roots, s)
          /\ pass > 0 => \A s \in V : Ends(config, roots, s) \/ Steps(V, config, roots, s)
      BY <1>1, <1>9
    <2>2. \A n \in DOMAIN roots : pass = 0 /\ roots[n] => n <= nroots BY <1>1
    <2>3. pass # 3 BY <1>1
    <2> HIDE DEF V
    <2>4. \E W :
            /\ Start \in W /\ Shape \in W
            /\ pass = 0 => \A s \in W : s = Shape \/ Steps(W, config, roots, s)
            /\ pass > 0 => \A s \in W : Ends(config, roots, s) \/ Steps(W, config, roots, s)
      BY <2>1
    <2> QED BY <2>2, <2>3, <2>4 DEF MarkInv
  <1>11. DevInv BY <1>1, <1>5 DEF DevInv
  <1> QED BY <1>6, <1>7, <1>10, <1>11 DEF ScanInv

-----------------------------------------------------------------------------
(* The parser at a point of a pass: its calls, its state, and what it has  *)
(* counted of names, devices and the resources of each.                    *)
Stage(stack, p, k, n, m, names, nums) ==
  [calls |-> stack, pos |-> p, key |-> k, nroots |-> n, ndevices |-> m, names |-> names, nums |-> nums]

Nums == [n \in 1 .. ndevices |-> out.devices[n].num]
KeyAt(p, k) == IF p = 1 THEN 1 ELSE k

Here == Stage(calls, pos, KeyAt(pos, key), nroots, ndevices, out.names, Nums)
Origin == Stage(Beginning, 1, 1, 0, 0, 0, [n \in 1 .. 0 |-> 0])

Done(c, e) ==
  Len(e.calls) = 1 /\ Last(e.calls).at = "keys" /\ TokenAt(c, e.pos) \in {Nul, "}"}

Replaced(stack, call) == Append(Front(stack), call)
Valued(call) == [call EXCEPT !.iface = FALSE]
Closed(call) == [call EXCEPT !.at = "keys"]
Begun(nums, m) == [n \in 1 .. m + 1 |-> IF n = m + 1 THEN 0 ELSE nums[n]]
Grown(nums, m, target, k) == [n \in 1 .. m |-> nums[n] + IF n = target THEN k ELSE 0]

(* The next stage is a matter of the string and the marks alone.  *)
NextStage(c, r, e) ==
  LET top == Last(e.calls)
      token == TokenAt(c, e.pos)
  IN  CASE top.at = "enter" /\ r[e.nroots + 1] ->
             Stage(Replaced(e.calls, InDevice(top, e.nroots + 1, e.ndevices + 1)), e.pos, e.key,
                   e.nroots + 1, e.ndevices + 1, e.names + Len(top.path),
                   Begun(e.nums, e.ndevices))
        [] top.at = "enter" /\ ~ r[e.nroots + 1] ->
             Stage(Replaced(e.calls, Entered(top, e.nroots + 1)), e.pos, e.key,
                   e.nroots + 1, e.ndevices, e.names, e.nums)
        [] top.at = "keys" /\ token \notin {Nul, "}"} ->
             Stage(Replaced(e.calls, AtKey(top, token)), e.pos + 1, e.pos,
                   e.nroots, e.ndevices, e.names, e.nums)
        [] top.at = "keys" /\ token \in {Nul, "}"} ->
             Stage(Front(e.calls), Behind(c, e.pos), e.key,
                   e.nroots, e.ndevices, e.names, e.nums)
        [] top.at = "items" /\ token = "{" ->
             Stage(Replaced(e.calls, Valued(top))
                     \o <<Call(Append(top.path, c[e.key]), top.flags, top.target)>>,
                   e.pos + 1, e.key, e.nroots, e.ndevices, e.names, e.nums)
        [] top.at = "items" /\ token \in {Nul, ";"} ->
             Stage(Replaced(e.calls, Closed(top)), Behind(c, e.pos), e.key,
                   e.nroots, e.ndevices, e.names, e.nums)
        [] top.at = "items" /\ token \in Quoted ->
             Stage(Replaced(e.calls, Valued(top)), e.pos + 1, e.key, e.nroots, e.ndevices,
                   e.names + IF top.iface THEN 1 ELSE 0, e.nums)
        [] OTHER ->
             Stage(Replaced(e.calls, Valued(top)), e.pos + 1, e.key, e.nroots, e.ndevices,
                   e.names + NamesAt(top, c[e.key], token),
                   Grown(e.nums, e.ndevices, top.target, NumAt(top, c[e.key], token)))

(* No more of anything than in another stage. *)
Below(e, f) ==
  /\ e.names \in Nat /\ e.ndevices \in Nat /\ f.names \in Nat /\ f.ndevices \in Nat
  /\ e.names <= f.names /\ e.ndevices <= f.ndevices
  /\ \A n \in 1 .. e.ndevices : e.nums[n] \in Nat /\ f.nums[n] \in Nat /\ e.nums[n] <= f.nums[n]

LEMMA BelowBoth ==
  ASSUME NEW e, NEW f, NEW g, Below(e, f), Below(f, g)
  PROVE  Below(e, g)
  <1>1. \A n \in 1 .. e.ndevices : n \in 1 .. f.ndevices BY DEF Below
  <1> QED BY <1>1 DEF Below

LEMMA HereParts ==
  /\ Here.calls = calls /\ Here.pos = pos /\ Here.nroots = nroots /\ Here.ndevices = ndevices
  /\ Here.key = KeyAt(pos, key) /\ Here.names = out.names /\ Here.nums = Nums
  /\ Last(Here.calls) = Top /\ TokenAt(config, Here.pos) = Token
  BY DEF Here, Stage, Top, Token, TokenAt

LEMMA HereNext ==
  Here' = Stage(calls', pos', KeyAt(pos', key'), nroots', ndevices', out'.names, Nums')
  BY DEF Here

(* What is added to the output is added to the stage.  *)
LEMMA HereGrows ==
  ASSUME ScanTypes, Room, ndevices' = ndevices, NEW k \in Nat, NEW m \in Nat, NEW t,
         Adds(out, out', k, t, m)
  PROVE  /\ out'.names = out.names + k
         /\ Nums' = Grown(Nums, ndevices, t, m) /\ (m = 0 => Nums' = Nums)
         /\ Below(Here, Here')
         /\ \A n \in 1 .. Len(out.devices) : out'.devices[n].resource = out.devices[n].resource
  <1>1. ndevices \in Nat /\ ndevices <= Len(out.devices) /\ out.names \in Nat
        /\ \A n \in 1 .. Len(out.devices) : out.devices[n].num \in Nat
        /\ Len(out.devices) \in Nat
    BY OutputParts DEF ScanTypes, Room
  <1>2. \A n \in 1 .. ndevices :
          out'.devices[n].num = out.devices[n].num + IF n = t THEN m ELSE 0
    BY <1>1 DEF Adds
  <1>3. Nums' = [n \in 1 .. ndevices |-> out'.devices[n].num] BY DEF Nums
  <1>4. \A n \in 1 .. ndevices : Nums[n] = out.devices[n].num BY DEF Nums
  <1>5. Nums' = Grown(Nums, ndevices, t, m) BY <1>2, <1>3, <1>4 DEF Grown
  <1>6. ASSUME m = 0 PROVE Nums' = Nums
    <2>1. \A n \in 1 .. ndevices : out'.devices[n].num = out.devices[n].num
      BY <1>1, <1>2, <1>6
    <2> QED BY <1>3, <2>1 DEF Nums
  <1>7. out'.names = out.names + k BY DEF Adds
  <1>8. ASSUME NEW n \in 1 .. ndevices
        PROVE  Nums[n] \in Nat /\ Nums'[n] \in Nat /\ Nums[n] <= Nums'[n]
    <2>1. Nums'[n] = Nums[n] + IF n = t THEN m ELSE 0 BY <1>5 DEF Grown
    <2>2. Nums[n] \in Nat BY <1>1, <1>4
    <2>3. CASE n = t
      <3>1. Nums'[n] = Nums[n] + m BY <2>1, <2>3
      <3> QED BY <2>2, <3>1
    <2>4. CASE n # t
      <3>1. Nums'[n] = Nums[n] + 0 BY <2>1, <2>4
      <3> QED BY <2>2, <3>1
    <2> QED BY <2>3, <2>4
  <1>9. /\ Here'.names = out'.names /\ Here'.ndevices = ndevices' /\ Here'.nums = Nums'
        /\ Here.names = out.names /\ Here.ndevices = ndevices /\ Here.nums = Nums
    BY DEF Here, Stage
  <1>10. Below(Here, Here') BY <1>1, <1>7, <1>8, <1>9 DEF Below
  <1>11. \A n \in 1 .. Len(out.devices) : out'.devices[n].resource = out.devices[n].resource
    BY DEF Adds
  <1> QED BY <1>5, <1>6, <1>7, <1>10, <1>11

LEMMA HereStays ==
  ASSUME ScanTypes, Room, ndevices' = ndevices, out' = out
  PROVE  /\ Nums' = Nums /\ Below(Here, Here')
         /\ \A n \in 1 .. Len(out.devices) : out'.devices[n].resource = out.devices[n].resource
  <1>1. out \in Output BY DEF ScanTypes
  <1>2. Adds(out, out', 0, NoDevice, 0) BY <1>1, AddsNothing
  <1> QED BY <1>2, HereGrows

(* A step goes on to the next stage, and takes nothing back. *)
Advances ==
  /\ ~ Done(config, Here) /\ Here' = NextStage(config, roots, Here) /\ Below(Here, Here')
  /\ \A n \in 1 .. Len(out.devices) : out'.devices[n].resource = out.devices[n].resource

LEMMA EnterBlockStage ==
  ASSUME ScanTypes, NestInv, Room, pass >= 1, enter_block
  PROVE  Advances
  <1>1. /\ Top \in CallSet /\ Top.at = "enter" /\ nroots \in Nat /\ ndevices \in Nat
        /\ roots \in [1 .. Len(config) -> BOOLEAN] /\ nroots + 1 \in 1 .. Len(config)
        /\ Len(out.devices) \in Nat /\ out.names \in Nat
        /\ \A n \in 1 .. Len(out.devices) : out.devices[n].num \in Nat
    BY TopFacts, RootFacts, OutputParts DEF ScanTypes, enter_block
  <1>2. pos' = pos /\ key' = key /\ nroots' = nroots + 1 BY DEF enter_block
  <1>3. ~ Done(config, Here) BY <1>1, HereParts DEF Done
  <1>4. CASE roots[nroots + 1]
    <2>1. /\ ndevices' = ndevices + 1
          /\ calls' = Replaced(calls, InDevice(Top, nroots + 1, ndevices + 1))
      <3>1. roots[nroots'] /\ pass >= 1 BY <1>2, <1>4
      <3>2. /\ ndevices' = ndevices + 1
            /\ Becomes([Top EXCEPT !.at = "keys", !.am_root = nroots', !.path = <<>>,
                                   !.target = ndevices'])
        BY <3>1 DEF enter_block
      <3> QED BY <1>2, <3>2 DEF Becomes, Replaced, InDevice
    <2>2. /\ out'.names = out.names + Len(Top.path)
          /\ ndevices + 1 \in 1 .. Len(out.devices)
          /\ \A n \in 1 .. Len(out.devices) :
               /\ out'.devices[n].resource = out.devices[n].resource
               /\ out'.devices[n].num = IF n = ndevices + 1 THEN 0 ELSE out.devices[n].num
      BY <1>4, EnterMarked
    <2>3. Nums' = Begun(Nums, ndevices)
      <3>1. Nums' = [n \in 1 .. ndevices + 1 |-> out'.devices[n].num] BY <2>1 DEF Nums
      <3>2. \A n \in 1 .. ndevices : Nums[n] = out.devices[n].num BY DEF Nums
      <3>3. ASSUME NEW n \in 1 .. ndevices + 1
            PROVE  out'.devices[n].num = IF n = ndevices + 1 THEN 0 ELSE Nums[n]
        <4>1. n \in 1 .. Len(out.devices) BY <1>1, <2>2
        <4>2. CASE n = ndevices + 1 BY <2>2, <4>1, <4>2
        <4>3. CASE n # ndevices + 1
          <5>1. n \in 1 .. ndevices BY <1>1, <4>3
          <5> QED BY <2>2, <3>2, <4>1, <4>3, <5>1
        <4> QED BY <4>2, <4>3
      <3> QED BY <3>1, <3>3 DEF Begun
    <2>4. Here' = NextStage(config, roots, Here)
      <3>1. Here' = Stage(Replaced(calls, InDevice(Top, nroots + 1, ndevices + 1)), pos,
                         KeyAt(pos, key), nroots + 1, ndevices + 1, out.names + Len(Top.path),
                         Begun(Nums, ndevices))
        BY <1>2, <2>1, <2>2, <2>3, HereNext
      <3> QED BY <1>1, <1>4, <3>1, HereParts DEF NextStage
    <2>5. Below(Here, Here')
      <3>1. Len(Top.path) \in Nat BY <1>1 DEF CallSet
      <3>2. \A n \in 1 .. ndevices : Nums[n] = out.devices[n].num BY DEF Nums
      <3>3. ASSUME NEW n \in 1 .. ndevices
            PROVE  Nums'[n] = Nums[n] /\ Nums[n] \in Nat
        <4>1. n \in 1 .. ndevices + 1 /\ n # ndevices + 1 /\ n \in 1 .. Len(out.devices)
          BY <1>1, <2>2
        <4>2. Nums'[n] = Nums[n] BY <2>3, <4>1 DEF Begun
        <4> QED BY <1>1, <3>2, <4>1, <4>2
      <3>4. /\ Here'.names = out.names + Len(Top.path) /\ Here'.ndevices = ndevices + 1
            /\ Here'.nums = Nums'
        BY <2>1, <2>2 DEF Here, Stage
      <3> QED BY <1>1, <3>1, <3>3, <3>4, HereParts DEF Below
    <2> QED BY <1>3, <2>2, <2>4, <2>5 DEF Advances
  <1>5. CASE ~ roots[nroots + 1]
    <2>1. /\ ndevices' = ndevices /\ out' = out
          /\ calls' = Replaced(calls, Entered(Top, nroots + 1))
      <3>1. ~ roots[nroots'] BY <1>2, <1>5
      <3>2. /\ ndevices' = ndevices /\ out' = out
            /\ Becomes([Top EXCEPT !.at = "keys", !.am_root = nroots'])
        BY <3>1 DEF enter_block
      <3> QED BY <1>2, <3>2 DEF Becomes, Replaced, Entered
    <2>2. /\ Nums' = Nums /\ Below(Here, Here')
          /\ \A n \in 1 .. Len(out.devices) : out'.devices[n].resource = out.devices[n].resource
      BY <2>1, HereStays
    <2>3. Here' = Stage(Replaced(calls, Entered(Top, nroots + 1)), pos, KeyAt(pos, key),
                       nroots + 1, ndevices, out.names, Nums)
      BY <1>2, <2>1, <2>2, HereNext
    <2>4. Here' = NextStage(config, roots, Here)
      BY <1>1, <1>5, <2>3, HereParts DEF NextStage
    <2> QED BY <1>3, <2>2, <2>4 DEF Advances
  <1> QED BY <1>4, <1>5

LEMMA ParseKeyStage ==
  ASSUME ScanTypes, NestInv, Room, parse_key
  PROVE  Advances
  <1>1. Top.at = "keys" /\ Token \notin {Nul, "}"} BY DEF parse_key
  <1>2. /\ pos' = pos + 1 /\ key' = pos /\ nroots' = nroots /\ ndevices' = ndevices /\ out' = out
        /\ calls' = Replaced(calls, AtKey(Top, Token))
    BY DEF parse_key, Becomes, Replaced, AtKey
  <1>3. ~ Done(config, Here) BY <1>1, HereParts DEF Done
  <1>4. KeyAt(pos', key') = pos BY <1>2 DEF KeyAt, ScanTypes
  <1>5. /\ Nums' = Nums /\ Below(Here, Here')
        /\ \A n \in 1 .. Len(out.devices) : out'.devices[n].resource = out.devices[n].resource
    BY <1>2, HereStays
  <1>6. Here' = Stage(Replaced(calls, AtKey(Top, Token)), pos + 1, pos,
                     nroots, ndevices, out.names, Nums)
    BY <1>2, <1>4, <1>5, HereNext
  <1>7. Here' = NextStage(config, roots, Here) BY <1>1, <1>6, HereParts DEF NextStage
  <1> QED BY <1>3, <1>5, <1>7 DEF Advances

(* In an entry the key is behind the beginning.  *)
LEMMA KeyKept ==
  ASSUME ScanTypes, NestInv, Top.at = "items", key' = key, pos' = pos \/ pos' = pos + 1
  PROVE  KeyAt(pos', key') = KeyAt(pos, key) /\ KeyAt(pos, key) = key /\ Here.key = key
  <1>1. pos > 1 /\ pos \in Nat BY TopFacts DEF ScanTypes, NestInv
  <1> QED BY <1>1, HereParts DEF KeyAt

LEMMA EndEntryStage ==
  ASSUME ScanTypes, NestInv, Room, end_entry
  PROVE  Advances
  <1>1. Top.at = "items" /\ Token \in {Nul, ";"} /\ Token # "{" /\ Token \notin Quoted
    BY QuotedAssumption DEF end_entry, Symbols, Nul
  <1>2. /\ pos' = Behind(config, pos) /\ key' = key /\ nroots' = nroots /\ ndevices' = ndevices
        /\ calls' = Replaced(calls, Closed(Top)) /\ (pos' = pos \/ pos' = pos + 1)
    BY DEF end_entry, Becomes, Replaced, Closed, Behind, Token, TokenAt
  <1>3. ~ Done(config, Here) BY <1>1, HereParts DEF Done
  <1>4. KeyAt(pos', key') = KeyAt(pos, key) BY <1>1, <1>2, KeyKept
  <1>5. /\ out'.names = out.names + 0 /\ Nums' = Nums /\ Below(Here, Here')
        /\ \A n \in 1 .. Len(out.devices) : out'.devices[n].resource = out.devices[n].resource
    BY <1>2, EndEntryAdds, HereGrows
  <1>6. out'.names = out.names BY <1>5, OutputParts DEF ScanTypes
  <1>7. Here' = Stage(Replaced(calls, Closed(Top)), Behind(config, pos), KeyAt(pos, key),
                     nroots, ndevices, out.names, Nums)
    BY <1>2, <1>4, <1>5, <1>6, HereNext
  <1>8. Here' = NextStage(config, roots, Here) BY <1>1, <1>7, HereParts DEF NextStage, Nul
  <1> QED BY <1>3, <1>5, <1>8 DEF Advances

LEMMA ParseBlockStage ==
  ASSUME ScanTypes, NestInv, Room, parse_block
  PROVE  Advances
  <1>1. Top.at = "items" /\ Token = "{" /\ Token \notin {Nul, ";"} /\ Token \notin Quoted
    BY QuotedAssumption DEF parse_block, Symbols, Nul
  <1>2. /\ pos' = pos + 1 /\ key' = key /\ nroots' = nroots /\ ndevices' = ndevices /\ out' = out
        /\ calls' = Replaced(calls, Valued(Top))
                      \o <<Call(Append(Top.path, config[key]), Top.flags, Top.target)>>
    BY DEF parse_block, Replaced, Valued
  <1>3. ~ Done(config, Here) BY <1>1, HereParts DEF Done
  <1>4. KeyAt(pos', key') = KeyAt(pos, key) /\ Here.key = key BY <1>1, <1>2, KeyKept
  <1>5. /\ Nums' = Nums /\ Below(Here, Here')
        /\ \A n \in 1 .. Len(out.devices) : out'.devices[n].resource = out.devices[n].resource
    BY <1>2, HereStays
  <1>6. Here' = Stage(Replaced(calls, Valued(Top))
                       \o <<Call(Append(Top.path, config[Here.key]), Top.flags, Top.target)>>,
                     pos + 1, Here.key, nroots, ndevices, out.names, Nums)
    BY <1>2, <1>4, <1>5, HereNext, HereParts
  <1>7. Here' = NextStage(config, roots, Here) BY <1>1, <1>6, HereParts DEF NextStage
  <1> QED BY <1>3, <1>5, <1>7 DEF Advances

LEMMA EndBlockStage ==
  ASSUME ScanTypes, NestInv, Room, end_block
  PROVE  Advances
  <1>0. Len(calls) \in Nat /\ Len(config) \in Nat BY TopFacts
  <1>1. Top.at = "keys" /\ Token \in {Nul, "}"} BY DEF end_block
  <1>a. Len(calls) > 1 BY DEF end_block
  <1>b. pos \in Nat BY <1>0 DEF ScanTypes
  <1>2. /\ pos' = Behind(config, pos) /\ key' = key /\ nroots' = nroots /\ ndevices' = ndevices
        /\ calls' = Front(calls) /\ (pos' = pos \/ pos' = pos + 1) /\ out' = out
    BY DEF end_block, Behind, Token, TokenAt
  <1>3. ~ Done(config, Here)
    <2>1. Len(calls) # 1 BY <1>0, <1>a
    <2>2. Here.calls = calls BY HereParts
    <2> QED BY <2>1, <2>2 DEF Done
  <1>4. KeyAt(pos', key') = KeyAt(pos, key)
    <2>1. pos > 1 BY <1>a DEF NestInv
    <2> QED BY <1>2, <1>b, <2>1 DEF KeyAt
  <1>5. /\ Nums' = Nums /\ Below(Here, Here')
        /\ \A n \in 1 .. Len(out.devices) : out'.devices[n].resource = out.devices[n].resource
    BY <1>2, HereStays
  <1>6. Here' = Stage(Front(calls), Behind(config, pos), KeyAt(pos, key),
                     nroots, ndevices, out.names, Nums)
    BY <1>2, <1>4, <1>5, HereNext
  <1>7. Here' = NextStage(config, roots, Here) BY <1>1, <1>6, HereParts DEF NextStage
  <1> QED BY <1>3, <1>5, <1>7 DEF Advances

LEMMA ParseQuotedStage ==
  ASSUME ScanTypes, NestInv, Room, parse_quoted
  PROVE  Advances
  <1> DEFINE k == IF Top.iface THEN 1 ELSE 0
  <1>1. Top.at = "items" /\ Token \in Quoted /\ Token \notin {Nul, "{", ";"}
    BY QuotedAssumption DEF parse_quoted, Symbols
  <1>2. /\ pos' = pos + 1 /\ key' = key /\ nroots' = nroots /\ ndevices' = ndevices
        /\ calls' = Replaced(calls, Valued(Top))
    BY DEF parse_quoted, Becomes, Replaced, Valued
  <1>3. ~ Done(config, Here) BY <1>1, HereParts DEF Done
  <1>4. KeyAt(pos', key') = KeyAt(pos, key) BY <1>1, <1>2, KeyKept
  <1>5. Adds(out, out', k, Top.target, 0) BY QuotedAdds
  <1>6. k \in Nat OBVIOUS
  <1> HIDE DEF k
  <1>7. /\ out'.names = out.names + k /\ Nums' = Nums /\ Below(Here, Here')
        /\ \A n \in 1 .. Len(out.devices) : out'.devices[n].resource = out.devices[n].resource
    BY <1>2, <1>5, <1>6, HereGrows
  <1>8. Here' = Stage(Replaced(calls, Valued(Top)), pos + 1, KeyAt(pos, key),
                     nroots, ndevices, out.names + k, Nums)
    BY <1>2, <1>4, <1>7, HereNext
  <1>9. NextStage(config, roots, Here)
          = Stage(Replaced(calls, Valued(Top)), pos + 1, KeyAt(pos, key),
                  nroots, ndevices, out.names + k, Nums)
    BY <1>1, HereParts DEF NextStage, k
  <1> QED BY <1>3, <1>7, <1>8, <1>9 DEF Advances

LEMMA ParseValueStage ==
  ASSUME ScanTypes, NestInv, Room, parse_value
  PROVE  Advances
  <1> DEFINE k == NamesAt(Top, config[key], Token)
             m == NumAt(Top, config[key], Token)
  <1>1. Top.at = "items" /\ Token \notin Quoted /\ Token \notin {Nul, "{", ";"}
    BY DEF parse_value
  <1>2. /\ pos' = pos + 1 /\ key' = key /\ nroots' = nroots /\ ndevices' = ndevices
        /\ calls' = Replaced(calls, Valued(Top))
    BY DEF parse_value, Becomes, Replaced, Valued
  <1>3. ~ Done(config, Here) BY <1>1, HereParts DEF Done
  <1>4. KeyAt(pos', key') = KeyAt(pos, key) /\ Here.key = key BY <1>1, <1>2, KeyKept
  <1>5. Adds(out, out', k, Top.target, m) BY ValueAdds
  <1>6. k \in Nat /\ m \in Nat
    <2>1. m \in Nat BY DEF NumAt
    <2>2. Top \in CallSet BY TopFacts
    <2>3. Top.path \in Seq(Text) BY <2>2 DEF CallSet
    <2>4. RangeAt(Top, config[key], Token) => Len(Top.path) >= 1
      <3>1. ~ NullParent BY DEF parse_value
      <3>2. RangeAt(Top, config[key], Token) => Top.path # <<>>
        BY <1>1, <3>1 DEF RangeAt, NullParent
      <3> QED BY <2>3, <3>2, EmptySeq
    <2> DEFINE l == Len(Top.path)
    <2>5. l \in Nat /\ (RangeAt(Top, config[key], Token) => l - 1 \in Nat)
      BY <2>3, <2>4
    <2>6. k = (IF Top.iface THEN 1 ELSE 0)
                + (IF RangeAt(Top, config[key], Token) THEN l - 1 ELSE 0)
                + (IF SingleAt(Top, Token) THEN l ELSE 0)
      BY DEF NamesAt
    <2> HIDE DEF l, k
    <2> QED BY <2>1, <2>5, <2>6
  <1> HIDE DEF k, m
  <1>7. /\ out'.names = out.names + k /\ Nums' = Grown(Nums, ndevices, Top.target, m)
        /\ Below(Here, Here')
        /\ \A n \in 1 .. Len(out.devices) : out'.devices[n].resource = out.devices[n].resource
    BY <1>2, <1>5, <1>6, HereGrows
  <1>8. Here' = Stage(Replaced(calls, Valued(Top)), pos + 1, KeyAt(pos, key), nroots, ndevices,
                     out.names + k, Grown(Nums, ndevices, Top.target, m))
    BY <1>2, <1>4, <1>7, HereNext
  <1>9. NextStage(config, roots, Here)
          = Stage(Replaced(calls, Valued(Top)), pos + 1, KeyAt(pos, key), nroots, ndevices,
                  out.names + k, Grown(Nums, ndevices, Top.target, m))
    BY <1>1, <1>4, HereParts DEF NextStage, k, m
  <1> QED BY <1>3, <1>7, <1>8, <1>9 DEF Advances

(* Once the marks are made every step goes on, unless parse_range stops.   *)
LEMMA ParseStage ==
  ASSUME ScanTypes, NestInv, Room, pass >= 1, Parse, ~ parse_range_oops
  PROVE  Advances
  BY EnterBlockStage, ParseKeyStage, ParseQuotedStage, ParseBlockStage, ParseValueStage,
     EndEntryStage, EndBlockStage DEF Parse

-----------------------------------------------------------------------------
(* Pass 1 goes from the origin, stage by stage, and has measured more than *)
(* at any stage before; pass 2 is on the way that pass 1 went, to the      *)
(* stage for which there is room.                                          *)
Proceeds(W, c, r, e) == ~ Done(c, e) /\ NextStage(c, r, e) \in W

Measures(W) ==
  /\ Origin \in W /\ Here \in W
  /\ \A e \in W : Below(e, Here) /\ (e = Here \/ Proceeds(W, config, roots, e))

Allotted(f) ==
  /\ f.names = size.names /\ f.ndevices = Len(out.devices)
  /\ \A n \in 1 .. Len(out.devices) :
       out.devices[n].resource + f.nums[n]
         = IF n < Len(out.devices) THEN out.devices[n + 1].resource ELSE size.resources

Follows(W, f) ==
  /\ Here \in W /\ Allotted(f)
  /\ \A e \in W : /\ Below(e, f)
                  /\ (Done(config, e) /\ e = f) \/ Proceeds(W, config, roots, e)

Measured == \E W : Measures(W)
Followed == \E W, f : Follows(W, f)

MeasureInv ==
  Top.at # "oops" => (pass = 1 => Measured) /\ (pass >= 2 => Followed)

LEMMA HereBelow ==
  ASSUME ScanTypes, Room
  PROVE  Below(Here, Here)
  <1>1. ndevices \in Nat /\ ndevices <= Len(out.devices) /\ out.names \in Nat
        /\ \A n \in 1 .. Len(out.devices) : out.devices[n].num \in Nat
        /\ Len(out.devices) \in Nat
    BY OutputParts DEF ScanTypes, Room
  <1>2. \A n \in 1 .. ndevices : Nums[n] \in Nat BY <1>1 DEF Nums
  <1> QED BY <1>1, <1>2, HereParts DEF Below

LEMMA OverDone ==
  ASSUME ScanTypes
  PROVE  Over(config, Shape) <=> Done(config, Here)
  BY ShapeParts, HereParts DEF Over, Done, Doing

LEMMA MeasureOn ==
  ASSUME ScanInv, MeasureInv, Parse, ~ parse_range_oops, pass >= 1
  PROVE  (pass = 1 => Measured') /\ (pass >= 2 => Followed')
  <1>1. ScanTypes /\ NestInv /\ MarkInv /\ DevInv BY DEF ScanInv
  <1>2. Room /\ Len(out'.devices) = Len(out.devices) /\ (pass > 0 => roots' = roots)
    BY <1>1, RoomThere, DevStep, MarkStep
  <1>3. config' = config /\ pass' = pass /\ size' = size /\ pass \in 0 .. 3
    BY <1>1 DEF ScanTypes, Parse, enter_block, parse_key, parse_quoted, parse_block, parse_value,
                parse_range_oops, end_entry, end_block
  <1>4. Top.at # "oops"
    BY DEF Parse, enter_block, parse_key, parse_quoted, parse_block, parse_value,
           end_entry, end_block
  <1>6. /\ ~ Done(config, Here) /\ Here' = NextStage(config, roots, Here) /\ Below(Here, Here')
        /\ \A n \in 1 .. Len(out.devices) : out'.devices[n].resource = out.devices[n].resource
    BY <1>1, <1>2, ParseStage DEF Advances
  <1>7. roots' = roots BY <1>2, <1>3
  <1>8. CASE pass = 1
    <2>1. PICK W : Measures(W) BY <1>4, <1>8 DEF MeasureInv, Measured
    <2> DEFINE V == W \cup {Here'}
    <2>2. Below(Here', Here')
      <3>1. \A n \in 1 .. Here'.ndevices : Here'.nums[n] \in Nat
        <4>1. ScanTypes' /\ Room'
          <5>1. ScanInv' BY ParseScan
          <5> QED BY <5>1, RoomThere, PTL DEF ScanInv
        <4>2. Below(Here, Here)' BY <4>1, HereBelow, PTL
        <4> QED BY <4>2 DEF Below
      <3> QED BY <1>6, <3>1 DEF Below
    <2>3. ASSUME NEW e \in V
          PROVE  Below(e, Here') /\ (e = Here' \/ Proceeds(V, config, roots, e))
      <3>1. CASE e = Here' BY <2>2, <3>1
      <3>2. CASE e # Here'
        <4>1. e \in W /\ Below(e, Here) /\ (e = Here \/ Proceeds(W, config, roots, e))
          BY <2>1, <3>2 DEF Measures
        <4>2. Below(e, Here') BY <1>6, <4>1, BelowBoth
        <4>3. Proceeds(V, config, roots, e) BY <1>6, <4>1 DEF Proceeds
        <4> QED BY <4>2, <4>3
      <3> QED BY <3>1, <3>2
    <2>4. Origin \in V /\ Here' \in V BY <2>1 DEF Measures
    <2> HIDE DEF V
    <2>5. /\ Origin \in V /\ Here' \in V
          /\ \A e \in V : Below(e, Here') /\ (e = Here' \/ Proceeds(V, config', roots', e))
      BY <1>3, <1>7, <2>3, <2>4
    <2>6. Measured' BY <2>5 DEF Measured, Measures
    <2> QED BY <1>8, <2>6
  <1>9. CASE pass >= 2
    <2>1. PICK W, f : Follows(W, f) BY <1>4, <1>9 DEF MeasureInv, Followed
    <2>2. Here' \in W BY <1>6, <2>1 DEF Follows, Proceeds
    <2>3. Allotted(f)
      BY <2>1 DEF Follows
    <2>4. Allotted(f)'
      <3>1. Len(out.devices) \in Nat BY <1>1, OutputParts DEF ScanTypes
      <3>2. ASSUME NEW n \in 1 .. Len(out.devices)
            PROVE  out'.devices[n].resource + f.nums[n]
                     = IF n < Len(out.devices) THEN out'.devices[n + 1].resource ELSE size.resources
        <4>1. n < Len(out.devices) => n + 1 \in 1 .. Len(out.devices) BY <3>1
        <4>2. out.devices[n].resource + f.nums[n]
                = IF n < Len(out.devices) THEN out.devices[n + 1].resource ELSE size.resources
          BY <2>3 DEF Allotted
        <4> QED BY <1>6, <4>1, <4>2
      <3> QED BY <1>2, <1>3, <2>3, <3>2 DEF Allotted
    <2>5. Follows(W, f)' BY <1>3, <1>7, <2>1, <2>2, <2>4 DEF Follows
    <2>6. Followed' BY <2>5 DEF Followed
    <2> QED BY <1>9, <2>6
  <1> QED BY <1>3, <1>8, <1>9

LEMMA OopsTop ==
  ASSUME ScanTypes, parse_range_oops
  PROVE  Top'.at = "oops"
  <1> DEFINE c == [Top EXCEPT !.at = "oops"]
  <1>1. calls' = Append(Front(calls), c) BY DEF parse_range_oops, Becomes
  <1>2. c \in CallSet /\ c.at = "oops" BY TopFacts, CallAt
  <1> HIDE DEF c
  <1>3. Last(calls') = c BY <1>1, <1>2, ReplaceTop DEF ScanTypes
  <1> QED BY <1>2, <1>3 DEF Top

(* On the way of pass 1 pass 2 has written no more than there is room for, *)
(* and at the end of it all of that.                                       *)
LEMMA FollowedFits ==
  ASSUME ScanInv, pass >= 2, Followed
  PROVE  LastPassFits
  <1>1. ScanTypes /\ NestInv /\ MarkInv /\ DevInv BY DEF ScanInv
  <1>2. nroots <= Len(config) BY <1>1, RootFacts
  <1>3. PICK W, f : Follows(W, f) BY DEF Followed
  <1>4. Below(Here, f) /\ Allotted(f) BY <1>3 DEF Follows
  <1>5. ASSUME pass = 3 PROVE Here = f
    <2>1. Done(config, Here) BY <1>1, <1>5, OverDone DEF MarkInv
    <2> QED BY <1>3, <2>1 DEF Follows, Proceeds
  <1>6. /\ Here.names = out.names /\ Here.ndevices = ndevices
        /\ \A n \in 1 .. ndevices : Here.nums[n] = out.devices[n].num
        /\ ndevices \in Nat /\ Len(out.devices) \in Nat
        /\ \A n \in 1 .. Len(out.devices) : out.devices[n].resource \in Nat
    BY <1>1, HereParts, OutputParts DEF Nums, ScanTypes
  <1>7. out.names <= size.names BY <1>4, <1>6 DEF Below, Allotted
  <1>8. pass = 3 => out.names = size.names /\ ndevices = Len(out.devices)
    BY <1>4, <1>5, <1>6 DEF Allotted
  <1>9. ASSUME NEW n \in 1 .. ndevices
        PROVE  LET d == out.devices[n]
                   next == IF n < Len(out.devices) THEN out.devices[n + 1].resource
                           ELSE size.resources
               IN  d.resource + d.num <= next /\ (pass = 3 => d.resource + d.num = next)
    <2> DEFINE next == IF n < Len(out.devices) THEN out.devices[n + 1].resource
                       ELSE size.resources
    <2>1. n \in 1 .. Len(out.devices) BY <1>4, <1>6 DEF Below, Allotted
    <2>2. out.devices[n].resource + f.nums[n] = next BY <1>4, <2>1 DEF Allotted
    <2>3. /\ out.devices[n].num <= f.nums[n] /\ f.nums[n] \in Nat /\ out.devices[n].num \in Nat
      BY <1>4, <1>6 DEF Below
    <2>4. pass = 3 => out.devices[n].num = f.nums[n] BY <1>5, <1>6
    <2>5. out.devices[n].resource \in Nat BY <1>6, <2>1
    <2> HIDE DEF next
    <2>6. out.devices[n].resource + out.devices[n].num <= next BY <2>2, <2>3, <2>5
    <2>7. pass = 3 => out.devices[n].resource + out.devices[n].num = next BY <2>2, <2>4
    <2> QED BY <2>6, <2>7 DEF next
  <1> QED BY <1>2, <1>7, <1>8, <1>9 DEF LastPassFits

FitInv == ScanInv /\ MeasureInv /\ LastPassFits

LEMMA ParseFits ==
  ASSUME FitInv, Parse
  PROVE  FitInv'
  <1>1. ScanInv /\ MeasureInv /\ ScanTypes BY DEF FitInv, ScanInv
  <1>2. ScanInv' BY <1>1, ParseScan
  <1>3. pass' = pass /\ pass \in 0 .. 3
    BY <1>1 DEF ScanTypes, Parse, enter_block, parse_key, parse_quoted, parse_block, parse_value,
                parse_range_oops, end_entry, end_block
  <1>4. CASE parse_range_oops
    <2>1. MeasureInv' BY <1>1, <1>4, OopsTop DEF MeasureInv
    <2>2. UNCHANGED <<config, pass, nroots, ndevices, out, size>> BY <1>4 DEF parse_range_oops
    <2>3. LastPassFits' BY <2>2 DEF LastPassFits, FitInv
    <2> QED BY <1>2, <2>1, <2>3 DEF FitInv
  <1>5. CASE ~ parse_range_oops
    <2>1. pass >= 1 => (pass = 1 => Measured') /\ (pass >= 2 => Followed')
      BY <1>1, <1>5, MeasureOn
    <2>2. MeasureInv' BY <1>3, <2>1 DEF MeasureInv
    <2>3. LastPassFits'
      <3>1. CASE pass >= 2
        <4>1. (pass >= 2)' /\ Followed' BY <1>3, <2>1, <3>1
        <4> QED BY <1>2, <4>1, FollowedFits, PTL
      <3>2. CASE pass < 2
        <4>1. (ScanTypes /\ NestInv)' BY <1>2 DEF ScanInv
        <4>2. (nroots <= Len(config))' BY <4>1, RootFacts, PTL
        <4> QED BY <1>3, <3>2, <4>2 DEF LastPassFits
      <3> QED BY <1>3, <3>1, <3>2
    <2> QED BY <1>2, <2>2, <2>3 DEF FitInv
  <1> QED BY <1>4, <1>5

(* The marks decide the way, so the way of pass 1 is that of pass 2.       *)
LEMMA NextPassMeasure ==
  ASSUME ScanInv, MeasureInv, next_pass
  PROVE  MeasureInv'
  <1>1. ScanTypes /\ NestInv /\ MarkInv /\ DevInv /\ EndOfPass BY DEF ScanInv, next_pass
  <1>2. config' = config /\ roots' = roots /\ key' = key /\ pass' = pass + 1 /\ pass \in 0 .. 2
    BY <1>1 DEF next_pass, ScanTypes
  <1>3. Over(config, Shape) /\ Done(config, Here) BY <1>1, EndOfPassIs, OverDone
  <1>4. /\ NumDevices \in Nat
        /\ pass > 0 => NumDevices = Len(out.devices) /\ NumDevices = ndevices
    BY <1>1, AllMarked
  <1>5. Top.at = "keys" BY <1>1 DEF EndOfPass
  <1>6. ASSUME pass < 2, out'.names = 0
        PROVE  Here' = Origin
    <2>1. Restart BY <1>6 DEF next_pass
    <2>2. calls' = Beginning /\ pos' = 1 /\ nroots' = 0 /\ ndevices' = 0
      BY <2>1 DEF Restart, Beginning
    <2>3. Nums' = [n \in 1 .. 0 |-> 0] BY <2>2 DEF Nums
    <2>4. KeyAt(pos', key') = 1 BY <2>2 DEF KeyAt
    <2> QED BY <1>6, <2>2, <2>3, <2>4, HereNext DEF Origin
  <1>7. CASE pass = 0
    <2>1. out'.names = 0
      <3>1. out' = [out EXCEPT !.names = 0, !.devices = [i \in 1 .. NumDevices |-> BlankDevice]]
        BY <1>7 DEF next_pass
      <3>2. out \in Output BY <1>1 DEF ScanTypes
      <3> QED BY <3>1, <3>2 DEF Output
    <2>2. Here' = Origin BY <1>6, <1>7, <2>1
    <2>3. Below(Origin, Origin) BY DEF Below, Origin, Stage
    <2> DEFINE V == {Origin}
    <2>4. /\ Origin \in V /\ Here' \in V
          /\ \A e \in V : Below(e, Here') /\ (e = Here' \/ Proceeds(V, config', roots', e))
      BY <2>2, <2>3
    <2> HIDE DEF V
    <2>5. Measured' BY <2>4 DEF Measured, Measures
    <2> QED BY <1>2, <1>7, <2>5 DEF MeasureInv
  <1>8. CASE pass = 1
    <2>1. /\ size'.names = out.names
          /\ out'.names = 0 /\ Len(out'.devices) = Len(out.devices)
          /\ \A n \in 1 .. Len(out.devices) :
               out'.devices[n].resource + out.devices[n].num
                 = IF n < Len(out.devices) THEN out'.devices[n + 1].resource ELSE size'.resources
      BY <1>1, <1>4, <1>8, Allocated
    <2>2. Here' = Origin BY <1>6, <1>8, <2>1
    <2>3. PICK W : Measures(W) BY <1>5, <1>8 DEF MeasureInv, Measured
    <2> DEFINE f == Here
    <2>4. f.names = out.names /\ f.ndevices = Len(out.devices) BY <1>4, <1>8, HereParts
    <2>5. \A n \in 1 .. Len(out.devices) : f.nums[n] = out.devices[n].num
      BY <1>4, <1>8, HereParts DEF Nums
    <2>6. Here' \in W /\ \A e \in W : Below(e, f) /\ (e = f \/ Proceeds(W, config, roots, e))
      BY <2>2, <2>3 DEF Measures
    <2>7. Done(config, f) BY <1>3
    <2> HIDE DEF f
    <2>8. \A e \in W : /\ Below(e, f)
                       /\ (Done(config, e) /\ e = f) \/ Proceeds(W, config, roots, e)
      BY <2>6, <2>7
    <2>9. /\ f.names = size'.names /\ f.ndevices = Len(out'.devices)
          /\ \A n \in 1 .. Len(out'.devices) :
               out'.devices[n].resource + f.nums[n]
                 = IF n < Len(out'.devices) THEN out'.devices[n + 1].resource ELSE size'.resources
      BY <2>1, <2>4, <2>5
    <2>10. \E g, U :
             /\ Here' \in U
             /\ g.names = size'.names /\ g.ndevices = Len(out'.devices)
             /\ \A n \in 1 .. Len(out'.devices) :
                  out'.devices[n].resource + g.nums[n]
                    = IF n < Len(out'.devices) THEN out'.devices[n + 1].resource
                      ELSE size'.resources
             /\ \A e \in U : /\ Below(e, g)
                             /\ (Done(config', e) /\ e = g) \/ Proceeds(U, config', roots', e)
      BY <1>2, <2>6, <2>8, <2>9
    <2>11. Followed' BY <2>10 DEF Followed, Follows, Allotted
    <2> QED BY <1>2, <1>8, <2>11 DEF MeasureInv
  <1>9. CASE pass = 2
    <2>1. UNCHANGED <<config, key, roots, calls, pos, nroots, ndevices, out, size>>
      BY <1>2, <1>9 DEF next_pass
    <2>2. Here' = Here BY <2>1 DEF Here, Nums
    <2>3. PICK W, f : Follows(W, f) BY <1>5, <1>9 DEF MeasureInv, Followed
    <2>4. Follows(W, f)' BY <2>1, <2>2, <2>3 DEF Follows, Allotted
    <2>5. Followed' BY <2>4 DEF Followed
    <2> QED BY <1>2, <1>9, <2>5 DEF MeasureInv
  <1> QED BY <1>2, <1>7, <1>8, <1>9

LEMMA NextPassFits ==
  ASSUME FitInv, next_pass
  PROVE  FitInv'
  <1>1. ScanInv /\ MeasureInv /\ ScanTypes BY DEF FitInv, ScanInv
  <1>2. ScanInv' /\ MeasureInv' BY <1>1, NextPassScan, NextPassMeasure
  <1>3. pass' = pass + 1 /\ pass \in 0 .. 2 BY <1>1 DEF next_pass, ScanTypes
  <1>4. LastPassFits'
    <2>1. CASE pass >= 1
      <3>1. Top'.at # "oops"
        <4>1. CASE pass = 1
          <5>1. Restart BY <4>1 DEF next_pass
          <5>2. calls' = Beginning BY <5>1 DEF Restart, Beginning
          <5> QED BY <5>2, BeginningIs DEF Top
        <4>2. CASE pass = 2
          <5>1. calls' = calls BY <4>2 DEF next_pass
          <5>2. Top.at = "keys" BY DEF next_pass, EndOfPass
          <5> QED BY <5>1, <5>2 DEF Top
        <4> QED BY <1>3, <2>1, <4>1, <4>2
      <3>2. (pass >= 2)' BY <1>3, <2>1
      <3>3. Followed' BY <1>2, <3>1, <3>2 DEF MeasureInv
      <3> QED BY <1>2, <3>2, <3>3, FollowedFits, PTL
    <2>2. CASE pass = 0
      <3>1. (ScanTypes /\ NestInv)' BY <1>2 DEF ScanInv
      <3>2. (nroots <= Len(config))' BY <3>1, RootFacts, PTL
      <3>3. ~ (pass' >= 2) BY <1>3, <2>2
      <3> QED BY <3>2, <3>3 DEF LastPassFits
    <2> QED BY <1>3, <2>1, <2>2
  <1> QED BY <1>2, <1>4 DEF FitInv

(* What pass 1 of config_find_devices measures is what pass 2 writes: the  *)
(* parser follows the same way through the string in both, so that no      *)
(* resource, no name and no device is behind what is allocated, for every  *)
(* string.                                                                 *)
THEOREM LastPassInvariance == Spec => []FitInv
  <1>1. Init => FitInv
    <2> SUFFICES ASSUME Init PROVE FitInv
      OBVIOUS
    <2>1. ScanInv BY InitScan
    <2>2. pass = 0 BY DEF Init
    <2>3. MeasureInv BY <2>2 DEF MeasureInv
    <2>4. LastPassFits BY <2>1, <2>2, RootFacts DEF LastPassFits, ScanInv
    <2> QED BY <2>1, <2>3, <2>4 DEF FitInv
  <1>2. FitInv /\ [Next]_vars => FitInv'
    <2> SUFFICES ASSUME FitInv, [Next]_vars PROVE FitInv'
      OBVIOUS
    <2>1. CASE Parse BY <2>1, ParseFits
    <2>2. CASE next_pass BY <2>2, NextPassFits
    <2>3. CASE UNCHANGED vars
      <3>1. UNCHANGED <<config, pass, calls, pos, key, roots, nroots, ndevices, out, size>>
        BY <2>3 DEF vars
      <3>2. ScanTypes' BY <3>1 DEF FitInv, ScanInv, ScanTypes
      <3>3. NestInv' BY <3>1 DEF FitInv, ScanInv, NestInv, Top
      <3>4. MarkInv' BY <3>1 DEF FitInv, ScanInv, MarkInv, Shape, Top
      <3>5. DevInv' BY <3>1 DEF FitInv, ScanInv, DevInv
      <3>6. Here' = Here BY <3>1 DEF Here, Nums
      <3>7. Measured' = Measured BY <3>1, <3>6 DEF Measured, Measures
      <3>8. Followed' = Followed BY <3>1, <3>6 DEF Followed, Follows, Allotted
      <3>9. MeasureInv' BY <3>1, <3>7, <3>8 DEF FitInv, MeasureInv, Top
      <3>10. LastPassFits' BY <3>1 DEF FitInv, LastPassFits
      <3> QED BY <3>2, <3>3, <3>4, <3>5, <3>9, <3>10 DEF FitInv, ScanInv
    <2> QED BY <2>1, <2>2, <2>3 DEF Next, Parse
  <1> QED BY <1>1, <1>2, PTL DEF Spec

(* config_find_devices (config.c:556-604): the last pass stays within the  *)
(* devices, resources and names that were allocated, and uses all of them. *)
THEOREM LastPassFitsAlways == Spec => []LastPassFits
  <1>1. FitInv => LastPassFits BY DEF FitInv
  <1> QED BY <1>1, LastPassInvariance, PTL

-----------------------------------------------------------------------------
(* Double words.  B32 and B64 stay unexpanded: what is needed of them is   *)
(* in Sizes.                                                               *)
LEMMA Sizes ==
  /\ B32 \in Nat /\ B32 >= 16 /\ B64 \in Nat /\ B64 >= 16 * B32 /\ B64 = B32 * B32
  /\ B64 = Pow2[2 * Half] /\ B32 = Pow2[Half]
  /\ Half \in Nat /\ Half >= 4
  /\ \E k \in Nat : B64 = 16 * k
  <1>1. Half \in Nat /\ Half >= 4 /\ 2 * Half \in Nat /\ Half + Half = 2 * Half BY HalfAssumption
  <1>2. B32 \in Nat /\ B32 = Pow2[Half] BY <1>1, Powers DEF B32
  <1>3. B64 = B32 * B32 BY DEF B64
  <1>4. Pow2[4] = 16
    <2>1. Pow2[0] = 1 /\ Pow2[0 + 1] = 2 * Pow2[0] /\ Pow2[1 + 1] = 2 * Pow2[1]
          /\ Pow2[2 + 1] = 2 * Pow2[2] /\ Pow2[3 + 1] = 2 * Pow2[3]
      BY Powers
    <2> QED BY <2>1
  <1>5. B32 >= 16
    <2>1. 4 \in 0 .. Half BY <1>1
    <2> QED BY <1>1, <1>2, <1>4, <2>1, PowersGrow
  <1>6. B64 = Pow2[2 * Half] BY <1>1, <1>2, <1>3, PowerSum
  <1>7. B32 * 16 <= B32 * B32 /\ B32 * B32 \in Nat /\ B32 * 16 = 16 * B32 BY <1>2, <1>5, MulBound
  <1>8. \E k \in Nat : B64 = 16 * k
    <2>1. Half - 4 \in Nat /\ 4 + (Half - 4) = Half BY <1>1
    <2> DEFINE i == Half - 4
               j == Pow2[i]
    <2>2. i \in Nat /\ 4 + i = Half BY <2>1
    <2> HIDE DEF i
    <2> PICK four : four = 4 OBVIOUS
    <2>5. four \in Nat /\ four + i = Half BY <2>2
    <2>6. Pow2[four + i] = Pow2[four] * Pow2[i] BY <2>2, <2>5, PowerSum
    <2>3. j \in Nat /\ B32 = 16 * j BY <1>2, <1>4, <2>2, <2>5, <2>6, Powers
    <2> HIDE DEF j
    <2>4. (16 * j) * B32 = 16 * (j * B32) /\ j * B32 \in Nat BY <1>2, <2>3
    <2> QED BY <1>3, <2>3, <2>4
  <1> QED BY <1>1, <1>2, <1>3, <1>5, <1>6, <1>7, <1>8

LEMMA DoubleWord ==
  ASSUME NEW x \in 0 .. B64 - 1
  PROVE  /\ hi32(x) \in 0 .. B32 - 1 /\ lo32(x) \in 0 .. B32 - 1
         /\ x = B32 * hi32(x) + lo32(x)
         /\ u64(x) = x
  <1> DEFINE H == B32
             q == x \div H
             r == x % H
  <1>1. H \in Nat \ {0} /\ B64 = H * H /\ B64 \in Nat \ {0} BY Sizes
  <1>2. x \in Nat BY <1>1
  <1>3. x < H * H BY <1>1
  <1>4. x % B64 = x BY <1>1
  <1> HIDE DEF H
  <1>5. q \in Int /\ r \in 0 .. H - 1 /\ x = H * q + r BY <1>1, <1>2, DivMod
  <1> HIDE DEF q, r
  <1>6. H * q \in Int /\ H * H \in Int BY <1>1, <1>5
  <1>7. q < H
    <2>1. H * q < H * H BY <1>3, <1>5, <1>6
    <2> QED BY <1>1, <1>5, <2>1, MulOrder
  <1>8. q >= 0
    <2>1. CASE q < 0
      <3>1. H * q + H <= H * 0 BY <1>1, <1>5, <2>1, MulMono
      <3> QED BY <1>1, <1>2, <1>5, <1>6, <3>1
    <2> QED BY <1>5, <2>1
  <1>9. q \in 0 .. H - 1 BY <1>1, <1>5, <1>7, <1>8
  <1> QED BY <1>4, <1>5, <1>9 DEF q, r, H, hi32, lo32, u64

LEMMA Wraps ==
  ASSUME NEW x \in Int, B64 <= x, x < B64 + B64
  PROVE  u64(x) = x - B64
  <1> DEFINE B == B64
  <1>1. B \in Nat \ {0} BY Sizes
  <1> HIDE DEF B
  <1> PICK q : q = 1 OBVIOUS
  <1>2. q \in Int /\ B * q = B BY <1>1
  <1>3. B * q <= x /\ x < B * q + B BY <1>2 DEF B
  <1>4. x % B = x - B * q BY <1>1, <1>2, <1>3, Quotient
  <1> QED BY <1>2, <1>4 DEF B, u64

LEMMA NoCarryOut ==
  ASSUME NEW m \in Nat, NEW l \in Nat, m + l < B64
  PROVE  hi32(u64(m + l)) = (m + l) \div B32
  <1>1. m + l \in 0 .. B64 - 1 BY Sizes
  <1>2. u64(m + l) = m + l BY <1>1, DoubleWord
  <1> QED BY <1>2 DEF hi32

LEMMA CarryOut ==
  ASSUME NEW m \in 0 .. B64 - 1, NEW l \in 0 .. B64 - 1
  PROVE  hi32(u64(m + l)) + Carry(u64(m + l), m) = (m + l) \div B32
  <1>1. B64 \in Nat /\ B32 \in Nat \ {0} /\ B64 = B32 * B32 BY Sizes
  <1>2. CASE m + l < B64
    <2>1. m + l \in 0 .. B64 - 1 BY <1>1, <1>2
    <2>2. u64(m + l) = m + l BY <2>1, DoubleWord
    <2>3. Carry(m + l, m) = 0 BY <1>1 DEF Carry
    <2>4. hi32(m + l) \in Int BY <2>1, DoubleWord, <1>1
    <2> QED BY <2>2, <2>3, <2>4 DEF hi32
  <1>3. CASE m + l >= B64
    <2> DEFINE s == m + l - B64
    <2>1. u64(m + l) = s BY <1>1, <1>3, Wraps
    <2>2. s \in 0 .. B64 - 1 /\ s < m /\ m + l = s + B32 * B32 BY <1>1, <1>3
    <2> HIDE DEF s
    <2>3. Carry(s, m) = B32 BY <2>2 DEF Carry
    <2> DEFINE k == hi32(s)
               r == lo32(s)
    <2>4. k \in 0 .. B32 - 1 /\ r \in 0 .. B32 - 1 /\ s = B32 * k + r BY <2>2, DoubleWord
    <2> HIDE DEF k, r
    <2>5. k + B32 \in Int BY <1>1, <2>4
    <2>6. m + l = B32 * (k + B32) + r BY <1>1, <2>2, <2>4
    <2>7. (m + l) \div B32 = k + B32
      <3> DEFINE j == k + B32
      <3>1. j \in Int /\ m + l = B32 * j + r BY <2>5, <2>6
      <3> HIDE DEF j
      <3>2. (m + l) \div B32 = j BY <1>1, <2>4, <3>1, DivUnique
      <3> QED BY <3>2 DEF j
    <2> QED BY <2>1, <2>3, <2>7 DEF k
  <1> QED BY <1>1, <1>2, <1>3

(* Both halves of a multiplier without the two bits are below a half word. *)
LEMMA SmallHalves ==
  ASSUME NEW m \in 0 .. B64 - 1, ~MayOverflow(m)
  PROVE  2 * hi32(m) < B32 - 1 /\ 2 * lo32(m) < B32 - 1
  <1>1. Half \in Nat \ {0} /\ 2 * Half - 1 \in Nat /\ Half - 1 \in Nat /\ 2 * Half \in Nat
    BY Sizes
  <1>2. 2 * Half - 1 \in 0 .. 2 * Half - 1 /\ Half - 1 \in 0 .. 2 * Half - 1 BY <1>1
  <1>3. 2 * Half - 1 \notin BitSet(m, 2 * Half) /\ Half - 1 \notin BitSet(m, 2 * Half)
    BY DEF MayOverflow
  <1> DEFINE h == Pow2[Half - 1]
             H == B32
             a == hi32(m)
             c == lo32(m)
  <1>4. h \in Nat \ {0} /\ H = 2 * h /\ H \in Nat /\ H >= 16 BY <1>1, HalfPower, Sizes
  <1>5. a \in 0 .. H - 1 /\ c \in 0 .. H - 1 /\ m = H * a + c BY DoubleWord
  <1>6. Pow2[2 * Half - 1] = H * h
    <2>1. Half + (Half - 1) = 2 * Half - 1 BY <1>1
    <2> QED BY <1>1, <2>1, PowerSum, Sizes
  <1>7. a < h
    <2> HIDE DEF h, H, a, c
    <2> DEFINE q == a \div h
               r == a % h
    <2>1. q \in Int /\ r \in 0 .. h - 1 /\ a = h * q + r BY <1>4, <1>5, DivMod
    <2>2. q % 2 # 1
      <3> HIDE DEF q, r
      <3>1. H * (h * q + r) + c = (H * h) * q + (H * r + c) BY <1>4, <1>5, <2>1
      <3>2. H * r + H <= H * h BY <1>4, <2>1, MulMono
      <3>6. H * r \in Nat /\ H * h \in Nat BY <1>4, <2>1
      <3> DEFINE u == H * r
                 v == H * h
      <3>7. u \in Nat /\ v \in Nat /\ u + H <= v BY <3>2, <3>6
      <3> HIDE DEF u, v
      <3>8. u + c \in 0 .. v - 1 BY <1>4, <1>5, <3>7
      <3>3. H * r + c \in 0 .. H * h - 1 BY <3>8 DEF u, v
      <3>4. m = Pow2[2 * Half - 1] * q + (H * r + c) BY <1>5, <1>6, <2>1, <3>1
      <3>5. H * r + c \in 0 .. Pow2[2 * Half - 1] - 1 BY <1>6, <3>3
      <3> QED BY <1>1, <1>2, <1>3, <2>1, <3>4, <3>5, Bit
    <2> HIDE DEF q, r
    <2>3. q < 2
      <3>1. h * q <= a /\ h * q \in Int /\ h * 2 = 2 * h BY <1>4, <1>5, <2>1
      <3>2. h * q < h * 2 BY <1>4, <1>5, <3>1
      <3> QED BY <1>4, <2>1, <3>2, MulOrder
    <2>4. q >= 0
      <3>1. CASE q < 0
        <4>1. h * q + h <= h * 0 BY <1>4, <2>1, <3>1, MulMono
        <4>2. h * q \in Int /\ h * 0 = 0 BY <1>4, <2>1
        <4> QED BY <1>4, <1>5, <2>1, <4>1, <4>2
      <3> QED BY <2>1, <3>1
    <2>5. q = 0 BY <2>1, <2>2, <2>3, <2>4
    <2>6. h * q = 0 BY <1>4, <2>5
    <2> QED BY <1>4, <2>1, <2>6
  <1>8. c < h
    <2> HIDE DEF H, a, c
    <2>1. CASE c >= h
      <3> DEFINE r == c - h
      <3>1. r \in 0 .. h - 1 BY <1>4, <1>5, <2>1
      <3>2. H * a + c = h * (2 * a + 1) + r /\ 2 * a + 1 \in Int
        <4>1. (2 * h) * a = h * (2 * a) /\ h * (2 * a + 1) = h * (2 * a) + h /\ h * (2 * a) \in Int
          BY <1>4, <1>5
        <4> QED BY <1>4, <1>5, <4>1
      <3>3. (2 * a + 1) % 2 = 1 BY <1>4, <1>5
      <3> HIDE DEF r
      <3> DEFINE q == 2 * a + 1
      <3>4. q \in Int /\ q % 2 = 1 /\ m = Pow2[Half - 1] * q + r /\ r \in 0 .. Pow2[Half - 1] - 1
        BY <1>5, <3>1, <3>2, <3>3
      <3> HIDE DEF q, h
      <3> QED BY <1>1, <1>2, <1>3, <3>4, Bit
    <2> QED BY <1>4, <1>5, <2>1
  <1> HIDE DEF h, H, a, c
  <1>9. 2 * a < H - 1 /\ 2 * c < H - 1 BY <1>4, <1>5, <1>7, <1>8
  <1> QED BY <1>9 DEF H, a, c

(* The product of two half words leaves room for two more. *)
LEMMA Product ==
  ASSUME NEW c \in 0 .. B32 - 1, NEW y \in 0 .. B32 - 1
  PROVE  c * y \in Nat /\ c * y <= B64 - 2 * B32 + 1
  <1> DEFINE H == B32
             h == H - 1
  <1>1. H \in Nat /\ H >= 16 /\ B64 = H * H BY Sizes
  <1>2. h \in Nat /\ c \in 0 .. h /\ y \in 0 .. h BY <1>1
  <1>3. h * h = H * H - 2 * H + 1 BY <1>1
  <1> HIDE DEF H, h
  <1>4. c * y <= c * h /\ h * c <= h * h /\ c * h = h * c BY <1>2, MulBound
  <1>5. c * y \in Nat /\ h * c \in Nat /\ h * h \in Nat BY <1>2
  <1>6. c * y <= h * h BY <1>4, <1>5
  <1> QED BY <1>1, <1>3, <1>5, <1>6 DEF H

(* The same where both are below half a half word. *)
LEMMA SmallProducts ==
  ASSUME NEW m \in 0 .. B64 - 1, ~MayOverflow(m), NEW y \in 0 .. B32 - 1, NEW z \in 0 .. B32 - 1
  PROVE  lo32(m) * y + hi32(m) * z <= B64 - 3 * B32 + 2
  <1> DEFINE H == B32
             h == H - 1
             a == hi32(m)
             c == lo32(m)
  <1>1. H \in Nat /\ H >= 16 /\ B64 = H * H BY Sizes
  <1>2. h \in Nat /\ a \in 0 .. h /\ c \in 0 .. h /\ y \in 0 .. h /\ z \in 0 .. h
    BY <1>1, DoubleWord
  <1>3. 2 * a <= h - 1 /\ 2 * c <= h - 1
    <2>1. 2 * a < h /\ 2 * c < h BY SmallHalves
    <2> HIDE DEF a, c, h
    <2> QED BY <1>2, <2>1
  <1>4. h * (h - 1) = H * H - 3 * H + 2 BY <1>1
  <1> HIDE DEF H, h, a, c
  <1>5. c * y <= c * h /\ a * z <= a * h BY <1>2, MulBound
  <1>6. h * (2 * c) <= h * (h - 1) /\ h * (2 * a) <= h * (h - 1) BY <1>2, <1>3, MulBound
  <1>7. h * (2 * c) = 2 * (c * h) /\ h * (2 * a) = 2 * (a * h) BY <1>2
  <1>8. /\ c * y \in Int /\ a * z \in Int /\ c * h \in Int /\ a * h \in Int /\ h * (h - 1) \in Int
    BY <1>2
  <1>9. 2 * (c * y + a * z) <= 2 * (h * (h - 1)) BY <1>5, <1>6, <1>7, <1>8
  <1>10. c * y + a * z <= h * (h - 1) BY <1>8, <1>9
  <1>11. c * y + a * z <= B64 - 3 * H + 2 BY <1>1, <1>4, <1>10
  <1> QED BY <1>11 DEF a, c, H

LEMMA LowProduct ==
  ASSUME NEW m \in 0 .. B64 - 1, NEW n \in 0 .. B64 - 1, NEW bias \in BOOLEAN
  PROVE  low_product(m, n, bias) = ((IF bias THEN m ELSE 0) + lo32(m) * lo32(n)) \div B32
  <1> DEFINE low == lo32(m) * lo32(n)
  <1>1. low \in Nat /\ low <= B64 - 2 * B32 + 1 BY DoubleWord, Product
  <1>2. low \in 0 .. B64 - 1 BY <1>1, Sizes
  <1> HIDE DEF low
  <1>3. low_product(m, n, bias) =
          CASE ~bias -> hi32(low)
            [] bias /\ ~MayOverflow(m) -> hi32(u64(m + low))
            [] bias /\ MayOverflow(m) -> hi32(u64(m + low)) + Carry(u64(m + low), m)
    BY DEF low_product, low
  <1>4. CASE ~bias
    <2>1. low_product(m, n, bias) = hi32(low) BY <1>3, <1>4
    <2>2. 0 + low = low BY <1>1
    <2> QED BY <1>4, <2>1, <2>2 DEF hi32, low
  <1>5. CASE bias /\ ~MayOverflow(m)
    <2>1. low_product(m, n, bias) = hi32(u64(m + low)) BY <1>3, <1>5
    <2>2. m + low < B64
      <3> DEFINE a == hi32(m)
                 c == lo32(m)
                 H == B32
                 y == lo32(n)
      <3>1. a \in 0 .. H - 1 /\ c \in 0 .. H - 1 /\ y \in 0 .. H - 1 /\ m = H * a + c
        BY DoubleWord
      <3>2. H \in Nat /\ H >= 16 /\ B64 \in Nat BY Sizes
      <3>3. H - 1 \in 0 .. H - 1 BY <3>2
      <3>4. c * y + a * (H - 1) <= B64 - 3 * H + 2 BY <1>5, <3>1, <3>3, SmallProducts
      <3>5. low = c * y BY DEF low
      <3> HIDE DEF a, c, y, H
      <3>6. a * (H - 1) = H * a - a /\ H * a \in Int BY <3>1, <3>2
      <3> QED BY <1>1, <3>1, <3>2, <3>4, <3>5, <3>6
    <2>3. low_product(m, n, bias) = (m + low) \div B32 BY <1>1, <2>1, <2>2, NoCarryOut, Sizes
    <2> QED BY <1>5, <2>3 DEF low
  <1>6. CASE bias /\ MayOverflow(m)
    <2>1. low_product(m, n, bias) = hi32(u64(m + low)) + Carry(u64(m + low), m) BY <1>3, <1>6
    <2>2. low_product(m, n, bias) = (m + low) \div B32 BY <1>2, <2>1, CarryOut
    <2> QED BY <1>6, <2>2 DEF low
  <1> QED BY <1>4, <1>5, <1>6

LEMMA CrossProducts ==
  ASSUME NEW m \in 0 .. B64 - 1, NEW n \in 0 .. B64 - 1, NEW r \in 0 .. 2 * B32 - 2
  PROVE  cross_products(m, n, r) = (r + lo32(m) * hi32(n) + hi32(m) * lo32(n)) \div B32
  <1> DEFINE u == lo32(m) * hi32(n)
             v == hi32(m) * lo32(n)
             t == r + u
  <1>1. u \in Nat /\ u <= B64 - 2 * B32 + 1 /\ v \in Nat /\ v <= B64 - 2 * B32 + 1
    BY DoubleWord, Product
  <1>2. B32 \in Nat /\ B32 >= 16 /\ B64 \in Nat BY Sizes
  <1>3. MayOverflow(m) \/ u + v <= B64 - 3 * B32 + 2 BY DoubleWord, SmallProducts
  <1>4. cross_products(m, n, r) =
          IF MayOverflow(m) THEN hi32(u64(u64(t) + v)) + Carry(u64(u64(t) + v), u64(t))
          ELSE hi32(u64(u64(t) + v))
    BY DEF cross_products
  <1> HIDE DEF u, v
  <1>5. t \in 0 .. B64 - 1 /\ v \in 0 .. B64 - 1 BY <1>1, <1>2
  <1>6. u64(t) = t BY <1>5, DoubleWord
  <1>7. CASE MayOverflow(m)
    <2>1. cross_products(m, n, r) = hi32(u64(t + v)) + Carry(u64(t + v), t) BY <1>4, <1>6, <1>7
    <2> HIDE DEF t
    <2>2. cross_products(m, n, r) = (t + v) \div B32 BY <1>5, <2>1, CarryOut
    <2> QED BY <2>2 DEF t, u, v
  <1>8. CASE ~MayOverflow(m)
    <2>1. cross_products(m, n, r) = hi32(u64(t + v)) BY <1>4, <1>6, <1>8
    <2>2. t + v < B64 BY <1>1, <1>2, <1>3, <1>8
    <2> HIDE DEF t
    <2>3. t \in Nat /\ v \in Nat BY <1>5, <1>2
    <2>4. cross_products(m, n, r) = (t + v) \div B32 BY <2>1, <2>2, <2>3, NoCarryOut
    <2> QED BY <2>4 DEF t, u, v
  <1> QED BY <1>7, <1>8

(* The comment above __arch_xprod_64: ((bias ? m : 0) + m * n) >> 64.      *)
LEMMA Xprod ==
  ASSUME NEW m \in 0 .. B64 - 1, NEW n \in 0 .. B64 - 1, NEW bias \in BOOLEAN
  PROVE  __arch_xprod_64(m, n, bias) = ((IF bias THEN m ELSE 0) + m * n) \div B64
  <1> DEFINE H == B32
             B == B64
             a == hi32(m)
             c == lo32(m)
             x == hi32(n)
             y == lo32(n)
             s == IF bias THEN m ELSE 0
             r1 == low_product(m, n, bias)
             r3 == cross_products(m, n, r1)
  <1>1. H \in Nat \ {0} /\ H >= 16 /\ B \in Nat \ {0} /\ B = H * H BY Sizes
  <1>2. a \in 0 .. H - 1 /\ c \in 0 .. H - 1 /\ x \in 0 .. H - 1 /\ y \in 0 .. H - 1
    BY DoubleWord
  <1>3. m = H * a + c /\ n = H * x + y /\ m \in 0 .. B - 1 /\ n \in 0 .. B - 1 BY DoubleWord
  <1>4. c * y \in Nat /\ c * y <= B - 2 * H + 1 BY <1>2, Product
  <1>5. s \in 0 .. B - 1 BY <1>1, <1>3
  <1>6. r1 = (s + c * y) \div H BY LowProduct
  <1> HIDE DEF H, B, a, c, x, y, s
  <1> DEFINE z == s + c * y
             e1 == z % H
  <1>7. z \in Int /\ r1 = z \div H BY <1>1, <1>4, <1>5, <1>6
  <1> HIDE DEF z
  <1>8. r1 \in Int /\ e1 \in 0 .. H - 1 /\ s + c * y = H * r1 + e1
    <2> HIDE DEF r1
    <2>1. z \div H \in Int /\ z % H \in 0 .. H - 1 /\ z = H * (z \div H) + (z % H)
      BY <1>1, <1>7, DivMod
    <2>2. r1 \in Int /\ e1 \in 0 .. H - 1 /\ z = H * r1 + e1 BY <1>7, <2>1
    <2> QED BY <2>2 DEF z
  <1> HIDE DEF e1
  <1>9. r1 \in 0 .. 2 * H - 2
    <2>1. H * r1 \in Int BY <1>1, <1>8
    <2>2. H * (2 * H - 2) = 2 * (H * H) - 2 * H BY <1>1
    <2>3. H * r1 <= H * (2 * H - 2) BY <1>1, <1>4, <1>5, <1>8, <2>1, <2>2
    <2>4. r1 <= 2 * H - 2 BY <1>1, <1>8, <2>3, MulOrder
    <2>5. CASE r1 < 0
      <3>1. H * r1 + H <= H * 0 BY <1>1, <1>8, <2>5, MulMono
      <3> QED BY <1>1, <1>4, <1>5, <1>8, <2>1, <3>1
    <2> QED BY <1>1, <1>8, <2>4, <2>5
  <1>10. r3 = (r1 + c * x + a * y) \div H
    <2>1. r1 \in 0 .. 2 * B32 - 2 BY <1>9 DEF H
    <2> HIDE DEF r1
    <2> QED BY <2>1, CrossProducts DEF H, a, c, x, y
  <1> HIDE DEF r1
  <1>11. c * x \in Nat /\ a * y \in Nat /\ a * x \in Nat BY <1>2
  <1> DEFINE w == r1 + c * x + a * y
             e2 == w % H
  <1>12. w \in Int BY <1>8, <1>11
  <1>13. r3 \in Int /\ e2 \in 0 .. H - 1 /\ w = H * r3 + e2
    <2>1. r3 = w \div H BY <1>10
    <2> HIDE DEF w
    <2> QED BY <1>1, <1>12, <2>1, DivMod
  <1> HIDE DEF e2, r3
  <1> DEFINE p == s + m * n
             q == r3 + a * x
             e == H * e2 + e1
  <1>14. p = B * q + e
    <2>1. m * n = B * (a * x) + H * (c * x + a * y) + c * y
      <3>1. (H * a + c) * (H * x + y) = (H * H) * (a * x) + H * (c * x + a * y) + c * y
        BY <1>1, <1>2
      <3> QED BY <1>1, <1>3, <3>1
    <2>2. H * w = H * r1 + H * (c * x + a * y)
      <3> DEFINE d == c * x + a * y
      <3>1. d \in Int /\ w = r1 + d BY <1>8, <1>11
      <3> HIDE DEF d, w
      <3>2. H * w = H * r1 + H * d BY <1>1, <1>8, <3>1
      <3> QED BY <3>2 DEF d
    <2>3. H * w = B * r3 + H * e2
      <3> HIDE DEF w
      <3>1. H * (H * r3 + e2) = (H * H) * r3 + H * e2 BY <1>1, <1>13
      <3> QED BY <1>1, <1>13, <3>1
    <2>4. B * q = B * r3 + B * (a * x) BY <1>1, <1>11, <1>13
    <2>5. /\ H * r1 \in Int /\ H * (c * x + a * y) \in Int /\ B * r3 \in Int /\ B * (a * x) \in Int
          /\ H * e2 \in Int /\ H * w \in Int /\ m * n \in Int
      BY <1>1, <1>3, <1>8, <1>11, <1>12, <1>13
    <2> DEFINE d == H * (c * x + a * y)
               k == B * (a * x)
               l == H * r1
               v == B * r3
               g == c * y
               i == H * e2
               j == B * q
    <2>6. p = s + (k + d + g) /\ l + d = v + i /\ j = v + k /\ s + g = l + e1 /\ e = i + e1
      BY <1>8, <2>1, <2>2, <2>3, <2>4
    <2>7. /\ d \in Int /\ k \in Int /\ l \in Int /\ v \in Int /\ g \in Int /\ i \in Int
          /\ s \in Int /\ e1 \in Int
      BY <1>1, <1>4, <1>5, <1>8, <2>5
    <2> HIDE DEF w, q, p, e, d, k, l, v, g, i, j
    <2>8. p = j + e BY <2>6, <2>7
    <2> QED BY <2>8 DEF j
  <1>15. e \in 0 .. B - 1
    <2>1. H * e2 + H <= H * H BY <1>1, <1>13, MulMono
    <2>2. H * e2 \in Nat BY <1>1, <1>13
    <2> QED BY <1>1, <1>8, <2>1, <2>2
  <1>16. q \in Int /\ p \in Int
    <2>1. m * n \in Int BY <1>1, <1>3
    <2> QED BY <1>5, <1>11, <1>13, <2>1
  <1> HIDE DEF p, q, e
  <1>17. p \div B = q BY <1>1, <1>14, <1>15, <1>16, DivUnique
  <1>18. q \in 0 .. B - 1
    <2>1. p >= 0 /\ p <= (B - 1) * B
      <3>1. m * n <= m * (B - 1) /\ (B - 1) * m <= (B - 1) * (B - 1) BY <1>1, <1>3, MulBound
      <3>2. m * (B - 1) = (B - 1) * m /\ (B - 1) * (B - 1) = (B - 1) * B - (B - 1) BY <1>1, <1>3
      <3>3. m * n \in Nat /\ (B - 1) * m \in Int /\ (B - 1) * B \in Int BY <1>1, <1>3
      <3> QED BY <1>1, <1>3, <1>5, <3>1, <3>2, <3>3 DEF p
    <2>2. B * q \in Int /\ (B - 1) * B = B * (B - 1) BY <1>1, <1>16
    <2>3. B * q <= B * (B - 1) BY <1>1, <1>14, <1>15, <1>16, <2>1, <2>2
    <2>4. q <= B - 1 BY <1>1, <1>16, <2>3, MulOrder
    <2>5. CASE q < 0
      <3>1. B * q + B <= B * 0 BY <1>1, <1>16, <2>5, MulMono
      <3> QED BY <1>1, <1>14, <1>15, <2>1, <2>2, <3>1
    <2> QED BY <1>1, <1>16, <2>4, <2>5
  <1>19. u64(q) = q BY <1>18, DoubleWord DEF B
  <1>20. __arch_xprod_64(m, n, bias) = u64(q) BY DEF __arch_xprod_64, q, r3, r1, a, x
  <1> QED BY <1>17, <1>19, <1>20 DEF p, B, s

(* Powers of two in a double word. *)
LEMMA LowestBit ==
  ASSUME NEW x \in 1 .. B64 - 1
  PROVE  \E k \in 0 .. 2 * Half - 1 :
           lowest_bit(x) = Pow2[k] /\ x % Pow2[k] = 0 /\ x % (2 * Pow2[k]) # 0
  <1>1. 2 * Half \in Nat /\ B64 = Pow2[2 * Half] BY Sizes
  <1>2. PICK k \in 0 .. 2 * Half - 1 : x % Pow2[k] = 0 /\ x % Pow2[k + 1] # 0
    BY <1>1, LowestBitExists
  <1>3. Pow2[k + 1] = 2 * Pow2[k] BY Powers
  <1> DEFINE P == {Pow2[i] : i \in 0 .. 2 * Half}
  <1>4. Pow2[k] \in P BY <1>1
  <1>5. x % Pow2[k] = 0 /\ x % (2 * Pow2[k]) # 0 BY <1>2, <1>3
  <1>6. \E p \in P : x % p = 0 /\ x % (2 * p) # 0 BY <1>4, <1>5
  <1>7. lowest_bit(x) = CHOOSE p \in P : x % p = 0 /\ x % (2 * p) # 0 BY DEF lowest_bit
  <1>8. lowest_bit(x) \in P /\ x % lowest_bit(x) = 0 /\ x % (2 * lowest_bit(x)) # 0 BY <1>6, <1>7
  <1>9. PICK i \in 0 .. 2 * Half : lowest_bit(x) = Pow2[i] BY <1>8
  <1>10. i # 2 * Half
    <2> SUFFICES ASSUME i = 2 * Half PROVE FALSE
      OBVIOUS
    <2>1. lowest_bit(x) = B64 BY <1>1, <1>9
    <2>2. x % B64 = x BY DoubleWord DEF u64
    <2> QED BY <1>8, <2>1, <2>2
  <1>11. i \in 0 .. 2 * Half - 1 BY <1>1, <1>10
  <1> QED BY <1>8, <1>9, <1>11

LEMMA Ilog2 ==
  ASSUME NEW x \in 1 .. B64 - 1
  PROVE  ilog2(x) \in Nat /\ Pow2[ilog2(x)] <= x /\ x < 2 * Pow2[ilog2(x)]
  <1>1. 2 * Half \in Nat /\ B64 = Pow2[2 * Half] BY Sizes
  <1>2. \E k \in 0 .. 2 * Half - 1 : Pow2[k] <= x /\ x < Pow2[k + 1] BY <1>1, HighestBitExists
  <1>3. \E k \in 0 .. 2 * Half : Pow2[k] <= x /\ x < Pow2[k + 1] BY <1>1, <1>2
  <1>4. ilog2(x) \in 0 .. 2 * Half /\ Pow2[ilog2(x)] <= x /\ x < Pow2[ilog2(x) + 1]
    BY <1>3 DEF ilog2
  <1>5. ilog2(x) \in Nat BY <1>4
  <1> QED BY <1>4, <1>5, Powers

(* A divisor is its lowest bit times an odd number.  Unless that is 1, the *)
(* divisor divides no power of two.                                        *)
LEMMA Divisor ==
  ASSUME NEW b \in 1 .. B32 - 1, b # lowest_bit(b)
  PROVE  /\ lowest_bit(b) \in Nat \ {0} /\ b \div lowest_bit(b) \in Nat \ {0}
         /\ b = lowest_bit(b) * (b \div lowest_bit(b))
         /\ \A n \in Nat, c \in Nat : b * c # Pow2[n]
  <1>1. b \in 1 .. B64 - 1 BY Sizes
  <1>2. PICK k \in 0 .. 2 * Half - 1 :
          lowest_bit(b) = Pow2[k] /\ b % Pow2[k] = 0 /\ b % (2 * Pow2[k]) # 0
    BY <1>1, LowestBit
  <1> DEFINE l == lowest_bit(b)
             o == b \div l
  <1>3. l \in Nat \ {0} /\ b % l = 0 /\ b % (2 * l) # 0 BY <1>2, Powers
  <1> HIDE DEF l
  <1>4. b \in Int /\ b > 0 BY Sizes
  <1>5. o \in Int /\ b = l * o + (b % l) BY <1>3, <1>4, DivMod
  <1> HIDE DEF o
  <1>6. l * o \in Int BY <1>3, <1>5
  <1>7. b = l * o BY <1>3, <1>5, <1>6
  <1>8. o > 0
    <2>1. CASE o <= 0
      <3>1. l * o <= l * 0 /\ l * 0 = 0 BY <1>3, <1>5, <2>1, MulBound
      <3> QED BY <1>4, <1>7, <3>1
    <2> QED BY <1>5, <2>1
  <1>9. o % 2 = 1
    <2> SUFFICES ASSUME o % 2 # 1 PROVE FALSE
      OBVIOUS
    <2>1. PICK j \in Int : o = 2 * j BY <1>5, EvenOrOdd
    <2> DEFINE d == 2 * l
    <2>2. b = d * j /\ d \in Nat \ {0} BY <1>3, <1>7, <2>1
    <2>3. b % d # 0 BY <1>3
    <2> HIDE DEF d
    <2> QED BY <1>4, <2>2, <2>3, Multiple
  <1>10. ASSUME NEW n \in Nat, NEW c \in Nat, b * c = Pow2[n] PROVE FALSE
    <2>1. (l * o) * c = o * (l * c) /\ l * c \in Nat BY <1>3, <1>5
    <2> DEFINE d == l * c
    <2>2. d \in Nat /\ o * d = Pow2[n] BY <1>7, <1>10, <2>1
    <2> HIDE DEF d
    <2>5. o \in Nat BY <1>5, <1>8
    <2>3. o = 1 BY <1>9, <2>2, <2>5, OddDivisor
    <2>4. b = l BY <1>3, <1>7, <2>3
    <2> QED BY <2>4 DEF l
  <1> QED BY <1>3, <1>5, <1>7, <1>8, <1>10 DEF l, o

(* What __div64_const32 computes from a multiplier. *)
LEMMA Multiplied ==
  ASSUME NEW m \in 0 .. B64 - 1, NEW n \in 0 .. B64 - 1, NEW bias \in BOOLEAN, NEW p \in Nat \ {0}
  PROVE  /\ bias => __arch_xprod_64(m, n, bias) \div p = (m + m * n) \div (B64 * p)
         /\ ~bias => __arch_xprod_64(m, n, bias) \div p = (m * n) \div (B64 * p)
  <1>1. B64 \in Nat \ {0} BY Sizes
  <1>2. m * n \in Int /\ m + m * n \in Int BY <1>1
  <1>3. CASE bias
    <2>1. __arch_xprod_64(m, n, bias) = (m + m * n) \div B64 BY <1>3, Xprod
    <2> QED BY <1>1, <1>2, <1>3, <2>1, NestedDiv
  <1>4. CASE ~bias
    <2>1. 0 + m * n = m * n BY <1>2
    <2>2. __arch_xprod_64(m, n, bias) = (m * n) \div B64 BY <1>4, <2>1, Xprod
    <2> QED BY <1>1, <1>2, <1>4, <2>2, NestedDiv
  <1> QED BY <1>3, <1>4

(* The multipliers of a divisor that is no power of two: of p times 2^64,  *)
(* divided by b and rounded.                                               *)
Power(b) == Pow2[ilog2(b)]
Wrap(b) == ((Max64 % b) + 1) * Power(b)
Down(b) == (Max64 \div b) * Power(b) + (Wrap(b) \div b)
Up(b) == u64((Max64 \div b) * Power(b) + (u64(Wrap(b) + b - 1) \div b))
Largest(b) == u64((Max64 \div b) * b - 1)
Loss(b) == Wrap(b) % b

LEMMA Multipliers ==
  ASSUME NEW b \in 1 .. B32 - 1, b # lowest_bit(b)
  PROVE  /\ Power(b) \in Nat \ {0} /\ Power(b) < b /\ b < 2 * Power(b)
         /\ Max64 \div b \in Nat \ {0} /\ Max64 % b \in 0 .. b - 2
         /\ Max64 = b * (Max64 \div b) + (Max64 % b)
         /\ Loss(b) \in 1 .. b - 1
         /\ Down(b) \in 0 .. B64 - 1 /\ u64(Down(b)) = Down(b)
         /\ b * Down(b) = B64 * Power(b) - Loss(b)
         /\ Up(b) \in 1 .. B64 - 1
         /\ b * Up(b) = B64 * Power(b) + (b - Loss(b))
         /\ Largest(b) \in 0 .. B64 - 1
         /\ Largest(b) = b * (Max64 \div b) - 1
  <1> DEFINE B == B64
             p == Power(b)
             Q == Max64 \div b
             R == Max64 % b
             w == Wrap(b)
             q == w \div b
             f == w % b
  <1>1. b \in 1 .. B - 1 /\ b \in Nat \ {0} /\ B \in Nat \ {0} /\ 16 * b <= B - 16
    BY Sizes
  <1>2. p \in Nat \ {0} /\ p <= b /\ b < 2 * p BY <1>1, Ilog2, Powers DEF Power
  <1>3. \A n \in Nat, c \in Nat : b * c # Pow2[n] BY Divisor
  <1>4. p # b
    <2>1. ilog2(b) \in Nat /\ b * 1 = b BY <1>1, Ilog2
    <2> QED BY <1>3, <2>1 DEF Power
  <1>5. Q \in Int /\ R \in 0 .. b - 1 /\ B - 1 = b * Q + R
    <2> DEFINE a == Max64
    <2>1. a \in Int /\ a = B - 1 BY <1>1 DEF Max64
    <2> HIDE DEF a
    <2>2. a \div b \in Int /\ a % b \in 0 .. b - 1 /\ a = b * (a \div b) + (a % b) BY <1>1, <2>1, DivMod
    <2> HIDE DEF B
    <2> QED BY <2>1, <2>2 DEF a
  <1> HIDE DEF Q, R
  <1>6. Q \in Nat \ {0}
    <2>1. CASE Q <= 0
      <3>1. b * Q <= b * 0 /\ b * 0 = 0 /\ b * Q \in Int BY <1>1, <1>5, <2>1, MulBound
      <3> QED BY <1>1, <1>5, <3>1
    <2> QED BY <1>5, <2>1
  <1>7. R # b - 1
    <2> SUFFICES ASSUME R = b - 1 PROVE FALSE
      OBVIOUS
    <2>1. b * (Q + 1) = b * Q + b /\ b * Q \in Int /\ Q + 1 \in Nat BY <1>1, <1>6
    <2>2. B = b * (Q + 1) BY <1>1, <1>5, <2>1
    <2> DEFINE c == Q + 1
    <2>3. c \in Nat /\ b * c = Pow2[2 * Half] /\ 2 * Half \in Nat BY <2>1, <2>2, Sizes
    <2> HIDE DEF c
    <2> QED BY <1>3, <2>3
  <1>8. w = (R + 1) * p /\ w \in Nat BY <1>2, <1>5 DEF Wrap, R
  <1>9. b * (Q * p) + w = B * p
    <2>1. (b * Q + R + 1) * p = b * (Q * p) + (R + 1) * p BY <1>1, <1>2, <1>5, <1>6
    <2>2. b * Q + R + 1 = B
      <3>1. b * Q \in Int BY <1>1, <1>6
      <3> QED BY <1>1, <1>5, <3>1
    <2> QED BY <1>8, <2>1, <2>2
  <1>10. w <= b * b /\ b * b \in Nat
    <2>1. p * (R + 1) <= p * b /\ b * p <= b * b BY <1>1, <1>2, <1>5, MulBound
    <2>2. p * (R + 1) = w /\ p * b = b * p /\ b * p \in Int BY <1>1, <1>2, <1>5, <1>8
    <2> QED BY <1>1, <1>8, <2>1, <2>2
  <1>11. b * b + b < B
    <2>1. B32 \in Nat /\ B = B32 * B32 /\ b + 1 \in 0 .. B32 BY Sizes
    <2>2. b * (b + 1) <= b * B32 /\ B32 * b <= B32 * (B32 - 1) BY <1>1, <2>1, MulBound
    <2>3. b * (b + 1) = b * b + b /\ b * B32 = B32 * b /\ B32 * (B32 - 1) = B32 * B32 - B32
      BY <1>1, <2>1
    <2>4. b * B32 \in Int BY <1>1, <2>1
    <2>5. B32 >= 16 /\ B32 * B32 \in Int BY Sizes
    <2> QED BY <1>1, <1>10, <2>1, <2>2, <2>3, <2>4, <2>5
  <1> HIDE DEF p, w
  <1>12. q \in Int /\ f \in 0 .. b - 1 /\ w = b * q + f
    <2>1. b \in Nat \ {0} /\ w \in Int BY <1>1, <1>8
    <2> QED BY <2>1, DivMod
  <1> HIDE DEF q, f
  <1> DEFINE d == Q * p + q
  <1>13. d \in Int /\ b * d = B * p - f
    <2>1. b * (Q * p + q) = b * (Q * p) + b * q /\ b * (Q * p) \in Int /\ b * q \in Int /\ B * p \in Int
          /\ Q * p \in Int
      BY <1>1, <1>2, <1>6, <1>12
    <2> QED BY <1>8, <1>9, <1>12, <2>1
  <1> HIDE DEF d
  <1>14. B * p \in Int /\ B * p + B <= B * b
    <2>1. B * p + B <= B * b BY <1>1, <1>2, <1>4, MulMono
    <2>2. B * p \in Int BY <1>1, <1>2
    <2> QED BY <2>1, <2>2
  <1>15. d >= 0
    <2>1. CASE d < 0
      <3>1. b * d + b <= b * 0 /\ b * 0 = 0 BY <1>1, <1>13, <2>1, MulMono
      <3>2. B * p >= 0 BY <1>1, <1>2
      <3> QED BY <1>1, <1>12, <1>13, <1>14, <3>1, <3>2
    <2> QED BY <1>13, <2>1
  <1>16. f # 0
    <2> SUFFICES ASSUME f = 0 PROVE FALSE
      OBVIOUS
    <2>1. b * d = B * p BY <1>13, <1>14
    <2>2. 2 * Half \in Nat /\ ilog2(b) \in Nat /\ 2 * Half + ilog2(b) \in Nat BY <1>1, Ilog2, Sizes
    <2>3. Pow2[2 * Half + ilog2(b)] = B * p
      <3> DEFINE i == 2 * Half
                 j == ilog2(b)
      <3>1. i \in Nat /\ j \in Nat /\ B = Pow2[i] /\ p = Pow2[j] BY <2>2, Sizes DEF p, Power
      <3> HIDE DEF i, j, p, B
      <3>2. Pow2[i + j] = B * p BY <3>1, PowerSum
      <3> QED BY <3>2 DEF i, j
    <2>4. d \in Nat BY <1>13, <1>15
    <2> QED BY <1>3, <2>1, <2>2, <2>3, <2>4
  <1>17. f \in 1 .. b - 1 BY <1>12, <1>16
  <1>18. b * (d + 1) = B * p + (b - f) /\ b * d \in Int
    <2>1. b * (d + 1) = b * d + b /\ b * d \in Int BY <1>1, <1>13
    <2> QED BY <1>1, <1>13, <1>14, <1>17, <2>1
  <1>19. d + 1 <= B - 1
    <2>1. b * (B - 1) = B * b - b /\ B * b \in Int BY <1>1
    <2>2. b * (d + 1) <= b * (B - 1) BY <1>1, <1>14, <1>17, <1>18, <2>1
    <2>3. d + 1 \in Int /\ B - 1 \in Int BY <1>1, <1>13
    <2> QED BY <1>1, <2>2, <2>3, MulOrder
  <1>20. Down(b) = d BY DEF Down, d, Q, p, q, w
  <1>21. d \in 0 .. B - 1 /\ d + 1 \in 1 .. B - 1 BY <1>1, <1>13, <1>15, <1>19
  <1>22. Up(b) = d + 1
    <2>1. w + b - 1 \in 0 .. B - 1 BY <1>1, <1>8, <1>10, <1>11
    <2>2. u64(w + b - 1) = w + b - 1 BY <2>1, DoubleWord DEF B
    <2>3. w + b - 1 = b * (q + 1) + (f - 1) /\ f - 1 \in 0 .. b - 1 /\ q + 1 \in Int
      <3>1. b * (q + 1) = b * q + b /\ b * q \in Int BY <1>1, <1>12
      <3> QED BY <1>1, <1>8, <1>12, <1>17, <3>1
    <2> DEFINE i == q + 1
               g == f - 1
    <2>4. w + b - 1 = b * i + g /\ g \in 0 .. b - 1 /\ i \in Int BY <2>3
    <2> HIDE DEF i, g
    <2>5. (w + b - 1) \div b = i BY <1>1, <2>4, DivUnique
    <2>6. Q * p \in Int BY <1>2, <1>6
    <2>7. Q * p + i = d + 1 BY <1>12, <2>6 DEF i, d
    <2>8. Up(b) = u64(Q * p + i) BY <2>2, <2>5 DEF Up, Q, p, w
    <2>9. u64(d + 1) = d + 1 BY <1>21, DoubleWord DEF B
    <2> QED BY <2>7, <2>8, <2>9
  <1>23. b * Q - 1 \in 0 .. B - 1 /\ Q * b = b * Q
    <2>1. b * 1 <= b * Q /\ b * 1 = b /\ b * Q \in Int /\ Q * b = b * Q BY <1>1, <1>6, MulBound
    <2> QED BY <1>1, <1>5, <2>1
  <1>24. Largest(b) = b * Q - 1 BY <1>23, DoubleWord DEF Largest, Q, B
  <1>25. u64(d) = d BY <1>21, DoubleWord DEF B
  <1>26. R \in 0 .. b - 2 BY <1>1, <1>5, <1>7
  <1>27. Loss(b) = f BY DEF Loss, f, w
  <1> HIDE DEF B
  <1>28. /\ p \in Nat \ {0} /\ p < b /\ b < 2 * p /\ Q \in Nat \ {0} /\ R \in 0 .. b - 2
         /\ f \in 1 .. b - 1 /\ d \in 0 .. B - 1 /\ u64(d) = d /\ d + 1 \in 1 .. B - 1
         /\ b * Q - 1 \in 0 .. B - 1
    BY <1>1, <1>2, <1>4, <1>6, <1>17, <1>21, <1>23, <1>25, <1>26
  <1> QED BY <1>5, <1>13, <1>18, <1>20, <1>22, <1>24, <1>27, <1>28 DEF p, Q, R, B, Max64

(* The reciprocal that is rounded up is taken if it is exact at the largest *)
(* dividend; otherwise the other one loses no more than p.                  *)
Exact(b) == __arch_xprod_64(Up(b), Largest(b), FALSE) \div Power(b) = Largest(b) \div b

LEMMA Rounding ==
  ASSUME NEW b \in 1 .. B32 - 1, b # lowest_bit(b)
  PROVE  /\ Exact(b) => (b - Loss(b)) * (b * (Max64 \div b) - 1) < B64 * Power(b)
         /\ ~Exact(b) => Loss(b) <= Power(b)
  <1> DEFINE B == B64
             p == Power(b)
             Q == Max64 \div b
             m == Up(b)
             x == Largest(b)
             e == b - Loss(b)
             D == B * p
  <1>1. B \in Nat \ {0} /\ b \in Nat \ {0} BY Sizes
  <1>2. /\ p \in Nat \ {0} /\ b < 2 * p /\ Q \in Nat \ {0} /\ Loss(b) \in 1 .. b - 1
        /\ m \in 1 .. B - 1 /\ b * m = D + e /\ x \in 0 .. B - 1 /\ x = b * Q - 1
    BY Multipliers
  <1>3. m \in Nat /\ e \in Nat /\ D \in Nat \ {0} BY <1>1, <1>2
  <1>4. Exact(b) <=> (m * x) \div D = x \div b
    <2>1. m \in 0 .. B64 - 1 /\ x \in 0 .. B64 - 1 BY <1>2, Sizes
    <2>2. __arch_xprod_64(m, x, FALSE) \div p = (m * x) \div D BY <1>2, <2>1, Multiplied
    <2> QED BY <2>2 DEF Exact
  <1> HIDE DEF m, x, e, D, Q, p, B
  <1>5. (m * (b * Q - 1)) \div D = (b * Q - 1) \div b <=> e * (b * Q - 1) < D
    BY <1>1, <1>2, <1>3, ExactAt
  <1>6. Exact(b) <=> e * (b * Q - 1) < D BY <1>2, <1>4, <1>5
  <1>7. ASSUME ~Exact(b) PROVE Loss(b) <= p
    <2>1. e * x >= D
      <3>1. e * x \in Int BY <1>1, <1>2, <1>3
      <3> QED BY <1>2, <1>3, <1>6, <1>7, <3>1
    <2>2. CASE e <= p
      <3>1. x * e <= x * p /\ p * x <= p * (B - 1) BY <1>1, <1>2, <1>3, <2>2, MulBound
      <3>2. x * e = e * x /\ x * p = p * x /\ p * (B - 1) = D - p BY <1>1, <1>2, <1>3 DEF D
      <3>3. p * x \in Int /\ e * x \in Int BY <1>1, <1>2, <1>3
      <3> QED BY <1>2, <1>3, <2>1, <3>1, <3>2, <3>3
    <2>3. CASE e > p BY <1>1, <1>2, <2>3 DEF e
    <2> QED BY <1>2, <1>3, <2>2, <2>3
  <1> QED BY <1>6, <1>7 DEF e, Q, D, p, B

(* What a multiplier is reduced by divides it: no more than its lowest bit *)
(* is shifted out.                                                         *)
Spare(m) ==
  {i \in 1 .. Half - 1 : i - 1 \notin BitSet(u32(-lowest_bit(m)), Half) \cup BitSet(hi32(m), Half)}
Shift(m) ==
  IF Spare(m) = {} THEN lowest_bit(m) ELSE Pow2[CHOOSE i \in Spare(m) : \A j \in Spare(m) : j <= i]

LEMMA ShiftDivides ==
  ASSUME NEW m \in 1 .. B64 - 1, NEW k \in Nat, lowest_bit(m) = Pow2[k]
  PROVE  \E s \in 0 .. k : Shift(m) = Pow2[s]
  <1>1. CASE Spare(m) = {} BY <1>1 DEF Shift
  <1>2. CASE Spare(m) # {}
    <2> DEFINE T == {Half - i : i \in Spare(m)}
               s == CHOOSE i \in Spare(m) : \A j \in Spare(m) : j <= i
    <2>1. Half \in Nat /\ Spare(m) \subseteq 1 .. Half - 1 BY Sizes DEF Spare
    <2>2. T \subseteq Nat /\ T # {} BY <1>2, <2>1
    <2> HIDE DEF T
    <2>3. PICK t \in T : \A u \in T : t <= u BY <2>2, Least
    <2>4. PICK i \in Spare(m) : t = Half - i BY <2>3 DEF T
    <2>5. \A j \in Spare(m) : j <= i BY <2>1, <2>3, <2>4 DEF T
    <2>6. s \in Spare(m) BY <2>5
    <2> HIDE DEF s
    <2>7. s \in 1 .. Half - 1 /\ s - 1 \notin BitSet(u32(-lowest_bit(m)), Half) BY <2>6 DEF Spare
    <2>8. s <= k
      <3> SUFFICES ASSUME s > k PROVE FALSE
        BY <2>7
      <3> DEFINE p == Pow2[k]
                 H == B32
      <3>1. s - 1 \in 0 .. Half - 1 /\ k <= s - 1 /\ s - 1 \in Nat /\ k \in 0 .. s - 1 /\ k \in 0 .. Half
        BY <2>1, <2>7
      <3>2. H \in Nat \ {0} /\ H = Pow2[Half] BY Sizes
      <3>3. p \in Nat \ {0} /\ p <= H BY <2>1, <3>1, <3>2, Powers, PowersGrow
      <3>4. u32(-p) = H - p
        <4> PICK q, x : q = -1 /\ x = -p OBVIOUS
        <4> HIDE DEF p, H
        <4>1. q \in Int /\ x \in Int /\ H * q = -H BY <3>2, <3>3
        <4>2. H * q <= x /\ x < H * q + H BY <3>2, <3>3, <4>1
        <4>3. x % H = x - H * q BY <3>2, <4>1, <4>2, Quotient
        <4> QED BY <3>2, <3>3, <4>1, <4>3 DEF u32, H
      <3> DEFINE v == p - 1
      <3>5. BitSet(H - 1 - v, Half) = (0 .. Half - 1) \ BitSet(v, Half)
        <4>1. v \in Int BY <3>3
        <4> HIDE DEF v
        <4> QED BY <2>1, <3>2, <4>1, ComplementBits
      <3>6. H - 1 - v = u32(-p) BY <3>2, <3>3, <3>4
      <3>7. s - 1 \in BitSet(v, Half)
        <4> HIDE DEF v, p, H
        <4> QED BY <2>7, <3>1, <3>5, <3>6 DEF p
      <3>8. s - 1 \notin BitSet(v, Half)
        <4>1. p <= Pow2[s - 1] /\ Pow2[s - 1] \in Nat \ {0} BY <3>1, PowersGrow, Powers
        <4> PICK z : z = 0 OBVIOUS
        <4>2. z \in Int /\ v = Pow2[s - 1] * z + v /\ v \in 0 .. Pow2[s - 1] - 1 /\ z % 2 # 1
          BY <3>3, <4>1
        <4> HIDE DEF v
        <4> QED BY <2>1, <3>1, <4>2, Bit
      <3> QED BY <3>7, <3>8
    <2>9. s \in 0 .. k BY <2>7, <2>8
    <2> QED BY <1>2, <2>9 DEF Shift, s
  <1> QED BY <1>1, <1>2

LEMMA ShiftsOut ==
  ASSUME NEW b \in 1 .. B32 - 1, b # lowest_bit(b)
  PROVE  \E s \in Nat \ {0}, i \in Nat, j \in Nat \ {0} :
           Shift(Up(b)) = s /\ Up(b) = s * i /\ Power(b) = s * j
  <1> DEFINE B == B64
             p == Power(b)
             m == Up(b)
             e == b - Loss(b)
             n == ilog2(b)
  <1>1. /\ p \in Nat \ {0} /\ b < 2 * p /\ e \in 1 .. b - 1 /\ m \in 1 .. B - 1 /\ b * m = B * p + e
        /\ b \in Nat
    BY Multipliers, Sizes
  <1>2. b \in 1 .. B64 - 1 BY Sizes
  <1>3. n \in Nat /\ p = Pow2[n] BY <1>2, Ilog2 DEF Power
  <1>4. PICK k \in 0 .. 2 * Half - 1 : lowest_bit(m) = Pow2[k] /\ m % Pow2[k] = 0 BY <1>1, LowestBit
  <1>5. k \in Nat /\ Pow2[k] \in Nat \ {0} BY Powers
  <1>6. PICK s \in 0 .. k : Shift(m) = Pow2[s] BY <1>1, <1>4, <1>5, ShiftDivides
  <1> HIDE DEF p, m, e, n
  <1>11. PICK t \in Int : m = Pow2[k] * t
    <2> DEFINE d == Pow2[k]
    <2>1. d \in Nat \ {0} /\ m \in Int /\ m % d = 0 BY <1>1, <1>4, <1>5, Sizes
    <2> HIDE DEF d
    <2>2. \E t \in Int : m = d * t BY <2>1, Multiple
    <2> QED BY <2>2 DEF d
  <1>7. k <= n
    <2> SUFFICES ASSUME k > n PROVE FALSE
      BY <1>3, <1>5
    <2>1. n \in 0 .. k - 1 BY <1>3
    <2>2. PICK c \in Nat \ {0} : Pow2[k] = p * (2 * c) BY <1>3, <1>5, <2>1, PowerDivides
    <2>4. PICK h \in Nat : B = 2 * h
      <3>1. PICK i \in Nat : B = 16 * i BY Sizes
      <3>2. B = 2 * (8 * i) /\ 8 * i \in Nat BY <3>1
      <3> QED BY <3>2
    <2>5. b * m = (2 * p) * (b * (c * t))
      <3>1. m = (p * (2 * c)) * t BY <1>11, <2>2
      <3>2. b * ((p * (2 * c)) * t) = (2 * p) * (b * (c * t)) BY <1>1
      <3> QED BY <3>1, <3>2
    <2>6. B * p = (2 * p) * h
      <3>1. (2 * h) * p = (2 * p) * h BY <1>1
      <3> QED BY <2>4, <3>1
    <2> DEFINE d == 2 * p
               u == b * (c * t)
    <2>7. u \in Int /\ d \in Nat \ {0} /\ d * u = d * h + e /\ 0 < e /\ e < d
      BY <1>1, <2>5, <2>6
    <2> HIDE DEF u, d
    <2>8. d * h < d * u /\ d * u < d * (h + 1)
      <3>1. d * (h + 1) = d * h + d /\ d * h \in Int BY <2>7
      <3> QED BY <1>1, <2>7, <3>1
    <2>9. h < u /\ u < h + 1 BY <2>7, <2>8, MulOrder
    <2> QED BY <2>7, <2>9
  <1> DEFINE a == k - s
             c == n - s
  <1>8. s \in Nat /\ a \in Nat /\ c \in Nat /\ s + a = k /\ s + c = n BY <1>3, <1>5, <1>7
  <1> HIDE DEF a, c
  <1>9. Pow2[k] = Pow2[s] * Pow2[a] /\ p = Pow2[s] * Pow2[c] BY <1>3, <1>8, PowerSum
  <1>10. Pow2[s] \in Nat \ {0} /\ Pow2[a] \in Nat \ {0} /\ Pow2[c] \in Nat \ {0} BY <1>8, Powers
  <1>12. t \in Nat
    <2>1. CASE t < 0
      <3>1. Pow2[k] * t + Pow2[k] <= Pow2[k] * 0 /\ Pow2[k] * 0 = 0 BY <1>5, <2>1, MulMono
      <3> QED BY <1>1, <1>5, <1>11, <3>1
    <2> QED BY <2>1
  <1>13. m = Pow2[s] * (Pow2[a] * t) /\ Pow2[a] * t \in Nat BY <1>9, <1>10, <1>11, <1>12
  <1> QED BY <1>6, <1>9, <1>10, <1>13 DEF m, p

(* What __div64_const32 uses, in the three cases.                          *)
LEMMA ReciprocalIs ==
  ASSUME NEW b \in 1 .. B32 - 1
  PROVE  LET odd == b \div lowest_bit(b) IN
         /\ Max64 % odd = 0 =>
              reciprocal(b) = [pre |-> lowest_bit(b), m |-> Max64 \div odd, p |-> 1, bias |-> TRUE]
         /\ Max64 % odd # 0 /\ ~Exact(b) =>
              reciprocal(b) = [pre |-> 1, m |-> u64(Down(b)), p |-> Power(b), bias |-> TRUE]
         /\ Max64 % odd # 0 /\ Exact(b) =>
              reciprocal(b) = [pre |-> 1, m |-> Up(b) \div Shift(Up(b)),
                               p |-> Power(b) \div Shift(Up(b)), bias |-> FALSE]
  <1>1. reciprocal(b) =
          CASE Max64 % (b \div lowest_bit(b)) = 0 ->
                 [pre |-> lowest_bit(b), m |-> Max64 \div (b \div lowest_bit(b)), p |-> 1, bias |-> TRUE]
            [] Max64 % (b \div lowest_bit(b)) # 0 /\ ~Exact(b) ->
                 [pre |-> 1, m |-> u64(Down(b)), p |-> Power(b), bias |-> TRUE]
            [] OTHER ->
                 [pre |-> 1, m |-> Up(b) \div Shift(Up(b)), p |-> Power(b) \div Shift(Up(b)), bias |-> FALSE]
    BY DEF reciprocal, Exact, Down, Up, Largest, Wrap, Power, Shift, Spare
  <1> QED BY <1>1

LEMMA DivisionByReciprocal ==
  ASSUME NEW b \in 1 .. B32 - 1, b # lowest_bit(b), NEW n \in 0 .. B64 - 1
  PROVE  __div64_const32(n, b) = n \div b
  <1> DEFINE B == B64
             l == lowest_bit(b)
             o == b \div l
             p == Power(b)
             D == B * p
             r == reciprocal(b)
  <1>1. B \in Nat \ {0} /\ b \in Nat \ {0} /\ n \in Nat BY Sizes
  <1>2. l \in Nat \ {0} /\ o \in Nat \ {0} /\ b = l * o BY Divisor
  <1>3. n \div 1 = n BY <1>1
  <1>4. __div64_const32(n, b) = __arch_xprod_64(r.m, n \div r.pre, r.bias) \div r.p
    BY DEF __div64_const32
  <1>8. /\ Max64 % o = 0 => r = [pre |-> l, m |-> Max64 \div o, p |-> 1, bias |-> TRUE]
        /\ Max64 % o # 0 /\ ~Exact(b) => r = [pre |-> 1, m |-> u64(Down(b)), p |-> p, bias |-> TRUE]
        /\ Max64 % o # 0 /\ Exact(b) =>
             r = [pre |-> 1, m |-> Up(b) \div Shift(Up(b)), p |-> p \div Shift(Up(b)), bias |-> FALSE]
    BY ReciprocalIs
  <1> HIDE DEF l, o, r
  <1>5. CASE Max64 % o = 0
    <2> DEFINE m == Max64 \div o
               k == n \div l
    <2>1. r = [pre |-> l, m |-> m, p |-> 1, bias |-> TRUE] BY <1>5, <1>8
    <2>2. r.pre = l /\ r.m = m /\ r.p = 1 /\ r.bias = TRUE BY <2>1
    <2>3. m \in Int /\ B - 1 = o * m
      <3> DEFINE a == Max64
      <3>1. a \in Int /\ a = B - 1 /\ a % o = 0 BY <1>1, <1>5 DEF Max64
      <3> HIDE DEF a, B
      <3>2. a \div o \in Int /\ a = o * (a \div o) + (a % o) BY <1>2, <3>1, DivMod
      <3>3. o * (a \div o) \in Int BY <1>2, <3>2
      <3> QED BY <3>1, <3>2, <3>3 DEF a
    <2> HIDE DEF m
    <2>4. m \in 0 .. B - 1
      <3>1. CASE m < 0
        <4>1. o * m + o <= o * 0 /\ o * 0 = 0 BY <1>2, <2>3, <3>1, MulMono
        <4> QED BY <1>1, <1>2, <2>3, <4>1
      <3>2. CASE m >= 0
        <4>1. m * 1 <= m * o /\ m * o = o * m /\ m * 1 = m BY <1>2, <2>3, <3>2, MulBound
        <4> QED BY <1>1, <2>3, <3>2, <4>1
      <3> QED BY <2>3, <3>1, <3>2
    <2>5. k \in 0 .. B - 1
      <3>5. l \in Nat \ {0} /\ n \in Int BY <1>1, <1>2
      <3>1. k \in Int /\ n % l \in 0 .. l - 1 /\ n = l * k + (n % l) BY <3>5, DivMod
      <3> HIDE DEF k
      <3>2. l * k \in Int BY <1>2, <3>1
      <3>3. CASE k < 0
        <4>1. l * k + l <= l * 0 /\ l * 0 = 0 BY <1>2, <3>1, <3>3, MulMono
        <4> QED BY <1>1, <1>2, <3>1, <3>2, <4>1
      <3>4. CASE k >= 0
        <4>1. k * 1 <= k * l /\ k * l = l * k /\ k * 1 = k BY <1>2, <3>1, <3>4, MulBound
        <4> QED BY <1>1, <1>2, <3>1, <3>2, <3>4, <4>1
      <3> QED BY <3>1, <3>3, <3>4
    <2>6. __div64_const32(n, b) = __arch_xprod_64(m, k, TRUE) \div 1 BY <1>4, <2>2
    <2>7. __arch_xprod_64(m, k, TRUE) = (m + m * k) \div B BY <2>4, <2>5, Xprod
    <2> HIDE DEF k
    <2>12. B \in Nat \ {0} /\ o \in Nat \ {0} /\ m \in Nat /\ k \in 0 .. B - 1 /\ o * m = B - 1
      BY <1>1, <1>2, <2>3, <2>4, <2>5
    <2>8. (m + m * k) \div B = k \div o
      <3> HIDE DEF B
      <3> QED BY <2>12, Cofactor
    <2>9. k \div o = n \div b
      <3>1. l \in Nat \ {0} /\ o \in Nat \ {0} /\ n \in Int BY <1>1, <1>2
      <3>2. (n \div l) \div o = n \div (l * o) BY <3>1, NestedDiv
      <3> QED BY <1>2, <3>2 DEF k
    <2>10. (n \div b) \in Int BY <1>1, DivMod
    <2>11. (n \div b) \div 1 = n \div b BY <2>10
    <2> QED BY <2>6, <2>7, <2>8, <2>9, <2>11
  <1>6. CASE Max64 % o # 0 /\ ~Exact(b)
    <2> DEFINE m == Down(b)
               f == Loss(b)
    <2>1. r = [pre |-> 1, m |-> u64(m), p |-> p, bias |-> TRUE] BY <1>6, <1>8
    <2>2. r.pre = 1 /\ r.m = u64(m) /\ r.p = p /\ r.bias = TRUE BY <2>1
    <2>3. p \in Nat \ {0} /\ f \in 1 .. b - 1 /\ m \in 0 .. B - 1 /\ u64(m) = m /\ b * m = D - f
      BY Multipliers
    <2>4. f <= p BY <1>6, Rounding
    <2>5. __div64_const32(n, b) = __arch_xprod_64(m, n, TRUE) \div p BY <1>3, <1>4, <2>2, <2>3
    <2>6. __arch_xprod_64(m, n, TRUE) \div p = (m + m * n) \div D BY <2>3, Multiplied
    <2> HIDE DEF m, f, p, B
    <2>7. m \in Nat /\ f \in 1 .. p /\ n \in 0 .. B - 1 BY <1>1, <2>3, <2>4 DEF B
    <2>8. (m + m * n) \div D = n \div b BY <1>1, <2>3, <2>7, RoundedDown
    <2> QED BY <2>5, <2>6, <2>8
  <1>7. CASE Max64 % o # 0 /\ Exact(b)
    <2> DEFINE m == Up(b)
               e == b - Loss(b)
               Q == Max64 \div b
               R == Max64 % b
    <2>1. PICK s \in Nat \ {0}, i \in Nat, j \in Nat \ {0} : Shift(m) = s /\ m = s * i /\ p = s * j
      BY ShiftsOut
    <2>2. m \div s = i /\ p \div s = j
      <3> PICK z : z = 0 OBVIOUS
      <3> HIDE DEF m, p
      <3>1. m = s * i + z /\ p = s * j + z /\ z \in 0 .. s - 1 BY <2>1
      <3> QED BY <2>1, <3>1, DivUnique
    <2>3. r = [pre |-> 1, m |-> i, p |-> j, bias |-> FALSE] BY <1>7, <1>8, <2>1, <2>2
    <2>4. r.pre = 1 /\ r.m = i /\ r.p = j /\ r.bias = FALSE BY <2>3
    <2>5. /\ p \in Nat \ {0} /\ b < 2 * p /\ Q \in Nat /\ R \in 0 .. b - 2 /\ Max64 = b * Q + R
          /\ e \in 1 .. b - 1 /\ m \in 1 .. B - 1 /\ b * m = D + e
      BY Multipliers, Sizes
    <2>6. e * (b * Q - 1) < D BY <1>7, Rounding
    <2>7. i \in 0 .. B - 1
      <3> HIDE DEF m
      <3>1. i * 1 <= i * s /\ i * s = s * i /\ i * 1 = i BY <2>1, MulBound
      <3> QED BY <1>1, <2>1, <2>5, <3>1
    <2>8. __div64_const32(n, b) = __arch_xprod_64(i, n, FALSE) \div j BY <1>3, <1>4, <2>4
    <2>9. __arch_xprod_64(i, n, FALSE) \div j = (i * n) \div (B * j) BY <2>1, <2>7, Multiplied
    <2>10. B - 1 = b * Q + R BY <2>5 DEF Max64
    <2> HIDE DEF m, e, Q, R, p, B
    <2>11. (i * n) \div (B * j) = (m * n) \div D
      <3> DEFINE u == i * n
                 v == B * j
      <3>1. u \in Int /\ v \in Nat \ {0} BY <1>1, <2>1
      <3>2. s * u = m * n /\ s * v = D
        <4>1. s * (i * n) = (s * i) * n /\ s * (B * j) = B * (s * j) BY <1>1, <2>1
        <4> QED BY <2>1, <4>1
      <3> HIDE DEF u, v, D
      <3>3. (s * u) \div (s * v) = u \div v BY <2>1, <3>1, ScaledDiv
      <3> QED BY <3>2, <3>3 DEF u, v
    <2>12. m \in Nat /\ e \in 0 .. b - 1 /\ n \in 0 .. B - 1 BY <1>1, <2>5 DEF B
    <2> DEFINE x == b * Q - 1
    <2>14. /\ B \in Nat \ {0} /\ b \in Nat \ {0} /\ p \in Nat \ {0} /\ m \in Nat /\ e \in 0 .. b - 1
           /\ Q \in Nat /\ R \in 0 .. b - 2 /\ n \in 0 .. B - 1 /\ D \in Nat \ {0} /\ x \in Int
           /\ D = B * p /\ x = b * Q - 1 /\ b < 2 * p /\ b * m = D + e /\ B - 1 = b * Q + R /\ e * x < D
      BY <1>1, <2>5, <2>6, <2>10, <2>12
    <2> HIDE DEF x, D
    <2>13. (m * n) \div D = n \div b BY <2>14, RoundedUp
    <2> QED BY <2>8, <2>9, <2>11, <2>13
  <1> QED BY <1>5, <1>6, <1>7

(* div64.h:171: do_div by a constant leaves the quotient and returns the   *)
(* remainder.                                                              *)
LEMMA DoDiv ==
  ASSUME NEW b \in 1 .. B32 - 1
  PROVE  Divides(b)
  <1> SUFFICES ASSUME NEW n \in 0 .. B64 - 1
               PROVE  do_div(n, b) = [n |-> n \div b, rem |-> n % b]
    BY DEF Divides
  <1>1. CASE is_power_of_2(b) BY <1>1 DEF do_div
  <1>2. CASE ~is_power_of_2(b)
    <2> DEFINE H == B32
               q == n \div b
               k == n % b
    <2>1. __div64_const32(n, b) = q BY <1>2, DivisionByReciprocal DEF is_power_of_2
    <2>2. do_div(n, b) = [n |-> q, rem |-> u32(lo32(n) - lo32(q) * b)] BY <1>2, <2>1 DEF do_div
    <2>3. u32(lo32(n) - lo32(q) * b) = k
      <3>1. b \in 1 .. H - 1 /\ H \in Nat \ {0} /\ n \in Int /\ b \in Nat \ {0} BY Sizes
      <3>2. q \in Int /\ k \in 0 .. b - 1 /\ n = b * q + k BY <3>1, DivMod
      <3> HIDE DEF q, k, H
      <3> DEFINE x == n % H
                 y == q % H
                 u == n \div H
                 v == q \div H
      <3>3. x \in 0 .. H - 1 /\ u \in Int /\ n = H * u + x BY <3>1, DivMod
      <3>4. y \in 0 .. H - 1 /\ v \in Int /\ q = H * v + y BY <3>1, <3>2, DivMod
      <3>5. lo32(n) = x /\ lo32(q) = y BY DEF lo32, H
      <3> HIDE DEF x, y, u, v
      <3>6. x - y * b = H * (v * b - u) + k /\ v * b - u \in Int
        <4>1. b * (H * v + y) = H * (v * b) + y * b BY <3>1, <3>3, <3>4
        <4>2. H * (v * b - u) = H * (v * b) - H * u BY <3>1, <3>3, <3>4
        <4>3. H * (v * b) \in Int /\ H * u \in Int /\ y * b \in Int /\ v * b \in Int
          BY <3>1, <3>3, <3>4
        <4>4. b * q = H * (v * b) + y * b BY <3>4, <4>1
        <4> QED BY <3>1, <3>2, <3>3, <4>2, <4>3, <4>4
      <3> DEFINE w == v * b - u
      <3>7. w \in Int /\ x - y * b = H * w + k /\ k \in 0 .. H - 1 BY <3>1, <3>2, <3>6
      <3> HIDE DEF w
      <3>8. (x - y * b) % H = k BY <3>1, <3>7, DivUnique
      <3> QED BY <3>5, <3>8 DEF u32, H
    <2> QED BY <2>2, <2>3
  <1> QED BY <1>1, <1>2

-----------------------------------------------------------------------------
(* The number parser. *)
LEMMA DigitValue ==
  ASSUME NEW c, is_hex(c)
  PROVE  Digits[c] \in 0 .. 15 /\ ~is_gap(c)
  <1>1. Digits[c] \in 0 .. 15 BY DigitsAssumption DEF is_hex
  <1>2. ~is_gap(c) BY DigitsAssumption DEF is_hex, is_gap
  <1> QED BY <1>1, <1>2

LEMMA EndIsNoDigit == ~is_hex("nul")
  BY DigitsAssumption DEF is_hex

(* A digit that fits leaves the number below 2^64. *)
LEMMA DigitFits ==
  ASSUME NEW c, NEW res \in 0 .. B64 - 1, NEW base \in {10, 16}, takes(c, res, base)
  PROVE  /\ is_hex(c) /\ (base = 10 => is_dec(c)) /\ Digits[c] \in 0 .. 15
         /\ res * base + Digits[c] \in 0 .. B64 - 1
         /\ u64(res * base + Digits[c]) = res * base + Digits[c]
  <1> DEFINE B == B64
             d == Digits[c]
  <1>1. B \in Nat \ {0} /\ B >= 256 BY Sizes
  <1>2. is_hex(c) /\ (base = 10 => is_dec(c)) BY DEF takes, is_dec
  <1>3. d \in 0 .. 15 /\ (base = 10 => d < 10) BY <1>2, DigitValue DEF is_dec
  <1> HIDE DEF d
  <1>4. res * base + d \in 0 .. B - 1
    <2>1. CASE base = 16
      <3> DEFINE a == 16 * res
                 y == a % B
      <3>1. res * 16 = a /\ a \in Int BY <1>1
      <3>2. y \div 16 = res BY <2>1, <3>1 DEF takes, hex_fits, u64
      <3>3. y \in 0 .. B - 1
        <4> HIDE DEF a
        <4> QED BY <1>1, <3>1, DivMod
      <3>4. PICK k \in Nat : B = 16 * k BY Sizes
      <3> HIDE DEF y
      <3>5. a <= y BY <1>1, <3>2, <3>3
      <3>6. res < k BY <1>1, <3>3, <3>4, <3>5
      <3> QED BY <1>1, <1>3, <2>1, <3>4, <3>6
    <2>2. CASE base = 10
      <3> DEFINE y == u64(res * 10)
      <3>1. y % 10 = res BY <2>2 DEF takes, dec_fits
      <3>2. y \in Int
        <4>1. res * 10 \in Int BY <1>1
        <4> QED BY <1>1, <4>1, DivMod DEF u64
      <3> HIDE DEF y
      <3>3. res \in 0 .. 9 BY <3>1, <3>2
      <3>4. res * 10 \in 0 .. B - 1 BY <1>1, <3>3
      <3>5. y = res * 10 BY <3>4, DoubleWord DEF y
      <3>6. res = 0 BY <3>1, <3>3, <3>5
      <3> QED BY <1>1, <1>3, <2>2, <3>6
    <2> QED BY <2>1, <2>2
  <1>5. u64(res * base + d) = res * base + d BY <1>4, DoubleWord
  <1> QED BY <1>2, <1>3, <1>4, <1>5 DEF d

LEMMA DigitMissed ==
  ASSUME NEW c, NEW res \in 0 .. B64 - 1, is_hex(c), ~takes(c, res, 16)
  PROVE  res * 16 + Digits[c] >= B64
  <1> DEFINE a == res * 16
  <1>1. B64 \in Nat /\ a \in Nat /\ Digits[c] \in 0 .. 15
    <2>1. B64 \in Nat /\ a \in Nat BY Sizes
    <2>2. Digits[c] \in 0 .. 15 BY DigitValue
    <2> QED BY <2>1, <2>2
  <1>2. u64(a) \div 16 # res BY DEF takes, hex_fits
  <1>3. ~(a \in 0 .. B64 - 1)
    <2> SUFFICES ASSUME a \in 0 .. B64 - 1 PROVE FALSE
      OBVIOUS
    <2>1. u64(a) = a BY DoubleWord
    <2>2. a \div 16 = res OBVIOUS
    <2> QED BY <1>2, <2>1, <2>2
  <1> HIDE DEF a
  <1>4. a >= B64 BY <1>1, <1>3
  <1> QED BY <1>1, <1>4 DEF a

(* The loop of a parser as a function of the position in the string. *)
States == [res : 0 .. B64 - 1, end : Nat]

LEMMA TurnType ==
  ASSUME NEW str, NEW base \in {10, 16}, NEW i \in Nat, NEW s \in States
  PROVE  turn(str, base, i, s) \in States
  <1> DEFINE c == str[i]
  <1>1. s.res \in 0 .. B64 - 1 /\ s.end \in Nat BY DEF States
  <1>2. CASE s.end = i - 1 /\ takes(c, s.res, base)
    <2>1. u64(s.res * base + Digits[c]) \in 0 .. B64 - 1 BY <1>1, <1>2, DigitFits
    <2>2. ~is_gap(c) BY <1>1, <1>2, DigitFits, DigitValue
    <2>3. turn(str, base, i, s) = [res |-> u64(s.res * base + Digits[c]), end |-> i]
      BY <1>2, <2>2 DEF turn
    <2> QED BY <2>1, <2>3 DEF States
  <1>3. CASE s.end = i - 1 /\ ~takes(c, s.res, base) /\ is_gap(c)
    <2>1. turn(str, base, i, s) = [s EXCEPT !.end = i] BY <1>3 DEF turn
    <2> QED BY <2>1 DEF States
  <1>4. CASE ~(s.end = i - 1 /\ takes(c, s.res, base)) /\ ~(s.end = i - 1 /\ is_gap(c))
    <2>1. turn(str, base, i, s) = s BY <1>4 DEF turn
    <2> QED BY <2>1
  <1> QED BY <1>2, <1>3, <1>4

Scans(str, start, base) ==
  {f \in [Nat -> States] :
     /\ digits(str, start, base) = f[Len(str)]
     /\ \A i \in Nat : i <= start => f[i] = [res |-> 0, end |-> start]
     /\ \A i \in Nat : i > start => f[i] = turn(str, base, i, f[i - 1])}

LEMMA DigitsIs ==
  ASSUME NEW str \in Seq(STRING), NEW start \in Nat, NEW base \in {10, 16}
  PROVE  Scans(str, start, base) # {}
  <1> DEFINE begin == [res |-> 0, end |-> start]
             scan[i \in Nat] == IF i <= start THEN [res |-> 0, end |-> start]
                                ELSE turn(str, base, i, scan[i - 1])
  <1>1. PICK V, g : V = States
                    /\ g = [i \in Nat |-> [s \in V |-> IF i <= start THEN begin ELSE turn(str, base, i, s)]]
    OBVIOUS
  <1>2. begin \in V BY <1>1, Sizes DEF States
  <1>3. g \in [Nat -> [V -> V]] BY <1>1, <1>2, TurnType
  <1> HIDE DEF begin
  <1>4. PICK f : f \in Recursive(V, begin, g) BY <1>2, <1>3, RecursionExists
  <1>5. f \in [Nat -> V] /\ f[0] = begin BY <1>4 DEF Recursive
  <1>6. ASSUME NEW i \in Nat
        PROVE  f[i] = IF i <= start THEN begin ELSE turn(str, base, i, f[i - 1])
    <2>1. CASE i = 0 BY <1>5, <2>1
    <2>2. CASE i # 0
      <3>1. i - 1 \in Nat /\ f[i - 1] \in V BY <1>5, <2>2
      <3>2. f[i] = g[i][f[i - 1]] BY <1>4, <2>2 DEF Recursive
      <3> QED BY <1>1, <3>1, <3>2
    <2> QED BY <2>1, <2>2
  <1>7. f = [i \in Nat |-> IF i <= start THEN [res |-> 0, end |-> start]
                           ELSE turn(str, base, i, f[i - 1])]
    BY <1>5, <1>6 DEF begin
  <1>8. \E h : h = [i \in Nat |-> IF i <= start THEN [res |-> 0, end |-> start]
                                  ELSE turn(str, base, i, h[i - 1])]
    BY <1>7
  <1>9. scan = [i \in Nat |-> IF i <= start THEN [res |-> 0, end |-> start]
                              ELSE turn(str, base, i, scan[i - 1])]
    BY <1>8
  <1>10. digits(str, start, base) = scan[Len(str)] BY DEF digits
  <1> HIDE DEF scan
  <1> DEFINE I == {i \in Nat : scan[i] = f[i]}
  <1>11. 0 \in I BY <1>6, <1>9 DEF begin
  <1>12. ASSUME NEW i \in Nat, i \in I PROVE i + 1 \in I
    <2>1. i + 1 \in Nat /\ (i + 1) - 1 = i /\ scan[i] = f[i] BY <1>12
    <2>2. f[i + 1] = IF i + 1 <= start THEN begin ELSE turn(str, base, i + 1, f[i]) BY <1>6, <2>1
    <2>3. scan[i + 1] = IF i + 1 <= start THEN begin ELSE turn(str, base, i + 1, scan[i])
      BY <1>9, <2>1 DEF begin
    <2> QED BY <2>1, <2>2, <2>3
  <1> HIDE DEF I
  <1>13. Len(str) \in I BY <1>11, <1>12, SetInduction
  <1>14. digits(str, start, base) = f[Len(str)] BY <1>10, <1>13 DEF I
  <1>15. f \in [Nat -> States] BY <1>1, <1>5
  <1>16. \A i \in Nat : i <= start => f[i] = [res |-> 0, end |-> start] BY <1>6 DEF begin
  <1>17. \A i \in Nat : i > start => f[i] = turn(str, base, i, f[i - 1]) BY <1>6
  <1>18. f \in Scans(str, start, base) BY <1>14, <1>15, <1>16, <1>17 DEF Scans
  <1> QED BY <1>18

(* What characters denote, as a function of how many are read. *)
Numeral(str, from, end) == \A i \in from + 1 .. end : is_gap(str[i]) \/ is_hex(str[i])

Extended(str, from, base, i, v) ==
  IF i <= from THEN 0
  ELSE IF is_gap(str[i]) THEN v ELSE IF is_hex(str[i]) THEN v * base + Digits[str[i]] ELSE 0

LEMMA ExtendedIs ==
  ASSUME NEW str, NEW from \in Nat, NEW base \in Int, NEW i \in Nat, NEW v \in Int
  PROVE  /\ Extended(str, from, base, i, v) \in Int
         /\ i <= from => Extended(str, from, base, i, v) = 0
         /\ i > from /\ is_gap(str[i]) => Extended(str, from, base, i, v) = v
         /\ i > from /\ is_hex(str[i]) => Extended(str, from, base, i, v) = v * base + Digits[str[i]]
  <1> DEFINE c == str[i]
             d == v * base + Digits[c]
  <1>1. is_hex(c) => ~is_gap(c) /\ d \in Int
    <2>1. v * base \in Int OBVIOUS
    <2> SUFFICES ASSUME is_hex(c) PROVE ~is_gap(c) /\ d \in Int
      OBVIOUS
    <2>2. Digits[c] \in 0 .. 15 /\ ~is_gap(c) BY DigitValue
    <2> HIDE DEF c
    <2> QED BY <2>1, <2>2
  <1>2. Extended(str, from, base, i, v) =
          IF i <= from THEN 0 ELSE IF is_gap(c) THEN v ELSE IF is_hex(c) THEN d ELSE 0
    BY DEF Extended
  <1> HIDE DEF c, d
  <1>3. /\ Extended(str, from, base, i, v) \in Int
        /\ i <= from => Extended(str, from, base, i, v) = 0
        /\ i > from /\ is_gap(c) => Extended(str, from, base, i, v) = v
        /\ i > from /\ is_hex(c) => Extended(str, from, base, i, v) = d
    BY <1>1, <1>2
  <1> QED BY <1>3 DEF c, d

LEMMA DenotedIs ==
  ASSUME NEW str \in Seq(STRING), NEW from \in Nat, NEW base \in Int
  PROVE  \E f \in [Nat -> Int] :
           /\ \A end \in Nat : Numeral(str, from, end) => Denoted(str, from, end, base) = f[end]
           /\ \A i \in Nat : i <= from => f[i] = 0
           /\ \A i \in Nat : i > from /\ is_gap(str[i]) => f[i] = f[i - 1]
           /\ \A i \in Nat : i > from /\ is_hex(str[i]) => f[i] = f[i - 1] * base + Digits[str[i]]
  <1>1. PICK V, a, g : V = Int /\ a = 0 /\ g = [i \in Nat |-> [v \in V |-> Extended(str, from, base, i, v)]]
    OBVIOUS
  <1>2. \A i \in Nat, v \in Int : Extended(str, from, base, i, v) \in Int BY ExtendedIs
  <1>3. a \in V /\ g \in [Nat -> [V -> V]] BY <1>1, <1>2
  <1>4. PICK f : f \in Recursive(V, a, g) BY <1>3, RecursionExists
  <1>5. f \in [Nat -> Int] /\ f[0] = 0 BY <1>1, <1>4 DEF Recursive
  <1>6. ASSUME NEW i \in Nat, i # 0
        PROVE  /\ i <= from => f[i] = 0
               /\ i > from /\ is_gap(str[i]) => f[i] = f[i - 1]
               /\ i > from /\ is_hex(str[i]) => f[i] = f[i - 1] * base + Digits[str[i]]
    <2>1. i - 1 \in Nat /\ f[i - 1] \in Int BY <1>5, <1>6
    <2>2. f[i] = g[i][f[i - 1]] BY <1>4, <1>6 DEF Recursive
    <2>3. f[i] = Extended(str, from, base, i, f[i - 1]) BY <1>1, <2>1, <2>2
    <2> QED BY <2>1, <2>3, ExtendedIs
  <1>7. ASSUME NEW end \in Nat, Numeral(str, from, end) PROVE Denoted(str, from, end, base) = f[end]
    <2> DEFINE value[i \in 0 .. end] ==
                 IF i <= from THEN 0
                 ELSE IF is_gap(str[i]) THEN value[i - 1] ELSE value[i - 1] * base + Digits[str[i]]
               h == [i \in 0 .. end |-> f[i]]
    <2>1. ASSUME NEW i \in 0 .. end
          PROVE  h[i] = IF i <= from THEN 0
                        ELSE IF is_gap(str[i]) THEN h[i - 1] ELSE h[i - 1] * base + Digits[str[i]]
      <3>1. h[i] = f[i] BY <2>1
      <3>2. CASE i <= from
        <4>1. i = 0 => f[i] = 0 BY <1>5
        <4>2. i # 0 => f[i] = 0 BY <1>6, <3>2
        <4> QED BY <3>1, <3>2, <4>1, <4>2
      <3>3. CASE i > from
        <4>1. i \in Nat /\ i # 0 /\ i - 1 \in 0 .. end /\ ~(i <= from) /\ i \in from + 1 .. end
          BY <3>3
        <4>2. is_gap(str[i]) \/ is_hex(str[i]) BY <1>7, <4>1 DEF Numeral
        <4>3. h[i - 1] = f[i - 1] BY <4>1
        <4> HIDE DEF h
        <4>4. is_gap(str[i]) => h[i] = h[i - 1] BY <1>6, <3>1, <3>3, <4>1, <4>3
        <4>5. is_hex(str[i]) => h[i] = h[i - 1] * base + Digits[str[i]]
          BY <1>6, <3>1, <3>3, <4>1, <4>3
        <4>6. is_hex(str[i]) => ~is_gap(str[i]) BY <4>1, DigitValue
        <4> QED BY <4>1, <4>2, <4>4, <4>5, <4>6
      <3> QED BY <3>2, <3>3
    <2> HIDE DEF h
    <2>2. h = [i \in 0 .. end |->
                 IF i <= from THEN 0
                 ELSE IF is_gap(str[i]) THEN h[i - 1] ELSE h[i - 1] * base + Digits[str[i]]]
      <3>1. h = [i \in 0 .. end |-> h[i]] BY DEF h
      <3> QED BY <2>1, <3>1
    <2>3. \E w : w = [i \in 0 .. end |->
                        IF i <= from THEN 0
                        ELSE IF is_gap(str[i]) THEN w[i - 1] ELSE w[i - 1] * base + Digits[str[i]]]
      BY <2>2
    <2>4. value = [i \in 0 .. end |->
                     IF i <= from THEN 0
                     ELSE IF is_gap(str[i]) THEN value[i - 1] ELSE value[i - 1] * base + Digits[str[i]]]
      BY <2>3
    <2>5. Denoted(str, from, end, base) = value[end] BY DEF Denoted
    <2> HIDE DEF value
    <2> DEFINE I == {i \in Nat : i <= end => value[i] = h[i]}
    <2>6. 0 \in I
      <3>1. 0 \in 0 .. end /\ 0 <= from OBVIOUS
      <3>2. value[0] = 0 BY <2>4, <3>1
      <3>3. h[0] = 0 BY <2>1, <3>1
      <3> QED BY <3>2, <3>3
    <2>7. ASSUME NEW i \in Nat, i \in I PROVE i + 1 \in I
      <3> SUFFICES ASSUME i + 1 <= end PROVE value[i + 1] = h[i + 1]
        OBVIOUS
      <3>1. i + 1 \in 0 .. end /\ (i + 1) - 1 = i /\ value[i] = h[i] BY <2>7
      <3>2. value[i + 1] = IF i + 1 <= from THEN 0
                           ELSE IF is_gap(str[i + 1]) THEN value[i]
                           ELSE value[i] * base + Digits[str[i + 1]]
        BY <2>4, <3>1
      <3>3. h[i + 1] = IF i + 1 <= from THEN 0
                       ELSE IF is_gap(str[i + 1]) THEN h[i] ELSE h[i] * base + Digits[str[i + 1]]
        BY <2>1, <3>1
      <3>4. CASE i + 1 <= from BY <3>2, <3>3, <3>4
      <3>5. CASE ~(i + 1 <= from) /\ is_gap(str[i + 1]) BY <3>1, <3>2, <3>3, <3>5
      <3>6. CASE ~(i + 1 <= from) /\ ~is_gap(str[i + 1])
        <4>1. value[i + 1] = value[i] * base + Digits[str[i + 1]] BY <3>2, <3>6
        <4>2. h[i + 1] = h[i] * base + Digits[str[i + 1]] BY <3>3, <3>6
        <4> QED BY <3>1, <4>1, <4>2
      <3> QED BY <3>4, <3>5, <3>6
    <2> HIDE DEF I
    <2>8. end \in I BY <2>6, <2>7, SetInduction
    <2>9. value[end] = h[end] BY <2>8 DEF I
    <2> QED BY <2>5, <2>9 DEF h
  <1>8. ASSUME NEW i \in Nat, i <= from PROVE f[i] = 0
    <2>1. CASE i = 0 BY <1>5, <2>1
    <2>2. CASE i # 0 BY <1>6, <1>8, <2>2
    <2> QED BY <2>1, <2>2
  <1>9. \A i \in Nat : i > from => i # 0 OBVIOUS
  <1> QED BY <1>5, <1>6, <1>7, <1>8, <1>9

(* What is behind the characters that a parser has consumed; what the      *)
(* whole of NumberRead says of a number from `from' on.                    *)
ReadFrom(str, from, base, r) ==
  LET d == Denoted(str, from, r.end, base) IN
  /\ r.end \in from .. Len(str)
  /\ \A i \in from + 1 .. r.end : is_gap(str[i]) \/ (IF base = 16 THEN is_hex(str[i]) ELSE is_dec(str[i]))
  /\ d \in 0 .. B64 - 1
  /\ r.res = d
  /\ base = 16 /\ is_hex(Char(str, r.end)) => d * 16 + Digits[Char(str, r.end)] >= B64

LEMMA DigitsRead ==
  ASSUME NEW str \in Seq(STRING), NEW from \in 0 .. Len(str), NEW base \in {10, 16}
  PROVE  ReadFrom(str, from, base, digits(str, from, base))
  <1> DEFINE L == Len(str)
             ok(c) == is_gap(c) \/ (IF base = 16 THEN is_hex(c) ELSE is_dec(c))
  <1>1. L \in Nat /\ from \in Nat /\ from <= L /\ base \in Int OBVIOUS
  <1> HIDE DEF L
  <1>2. PICK f : f \in Scans(str, from, base) BY <1>1, DigitsIs
  <1>2a. f \in [Nat -> States] /\ digits(str, from, base) = f[L] BY <1>2 DEF Scans, L
  <1>2b. /\ \A i \in Nat : i <= from => f[i] = [res |-> 0, end |-> from]
         /\ \A i \in Nat : i > from => f[i] = turn(str, base, i, f[i - 1])
    BY <1>2 DEF Scans
  <1>3. PICK h \in [Nat -> Int] :
          /\ \A end \in Nat : Numeral(str, from, end) => Denoted(str, from, end, base) = h[end]
          /\ \A i \in Nat : i <= from => h[i] = 0
          /\ \A i \in Nat : i > from /\ is_gap(str[i]) => h[i] = h[i - 1]
          /\ \A i \in Nat : i > from /\ is_hex(str[i]) => h[i] = h[i - 1] * base + Digits[str[i]]
    BY <1>1, DenotedIs
  <1>4. ASSUME NEW c, ok(c) PROVE is_gap(c) \/ is_hex(c) BY <1>4 DEF is_dec
  <1> HIDE DEF ok
  <1> DEFINE Good(i) ==
               /\ f[i].end \in from .. i
               /\ f[i].res \in 0 .. B64 - 1
               /\ f[i].res = h[f[i].end]
               /\ \A k \in from + 1 .. f[i].end : ok(str[k])
               /\ f[i].end < i => ~takes(str[f[i].end + 1], f[i].res, base)
             I == {i \in Nat : i >= from => Good(i)}
  <1>5. Good(from)
    <2>1. f[from] = [res |-> 0, end |-> from] BY <1>1, <1>2b
    <2>2. f[from].res = 0 /\ f[from].end = from BY <2>1
    <2>3. h[from] = 0 BY <1>1, <1>3
    <2>4. 0 \in 0 .. B64 - 1 BY Sizes
    <2> QED BY <1>1, <2>2, <2>3, <2>4
  <1>6. ASSUME NEW i \in Nat, i >= from, Good(i) PROVE Good(i + 1)
    <2> DEFINE s == f[i]
               c == str[i + 1]
    <2>1. s \in States /\ s.res \in 0 .. B64 - 1 /\ s.end \in Nat BY <1>2a DEF States
    <2>0. i >= from BY <1>6
    <2>2. i + 1 \in Nat /\ i + 1 > from /\ (i + 1) - 1 = i BY <1>1, <2>0
    <2>3. f[i + 1] = turn(str, base, i + 1, s) BY <1>2b, <2>2
    <2>4. /\ s.end \in from .. i
          /\ s.res = h[s.end]
          /\ \A k \in from + 1 .. s.end : ok(str[k])
          /\ s.end < i => ~takes(str[s.end + 1], s.res, base)
      BY <1>6
    <2> HIDE DEF s
    <2>5. CASE s.end = i /\ takes(c, s.res, base)
      <3> DEFINE v == s.res * base + Digits[c]
      <3>1. is_hex(c) /\ (base = 10 => is_dec(c)) /\ v \in 0 .. B64 - 1 /\ u64(v) = v
        BY <2>1, <2>5, DigitFits
      <3>2. ~is_gap(c) BY <3>1, DigitValue
      <3>3. f[i + 1] = [res |-> v, end |-> i + 1]
        <4>1. turn(str, base, i + 1, s) = [res |-> u64(v), end |-> i + 1]
          BY <2>2, <2>5, <3>2 DEF turn
        <4> QED BY <2>3, <3>1, <4>1
      <3>4. h[i + 1] = v BY <1>3, <2>2, <2>4, <2>5, <3>1
      <3>5. ok(c) BY <3>1 DEF ok
      <3> HIDE DEF v, c
      <3>6. f[i + 1].res = v /\ f[i + 1].end = i + 1 BY <3>3
      <3>7. \A k \in from + 1 .. i + 1 : ok(str[k])
        <4>1. \A k \in from + 1 .. i : ok(str[k]) BY <2>4, <2>5
        <4>2. ok(str[i + 1]) BY <3>5 DEF c
        <4>3. \A k \in from + 1 .. i + 1 : k = i + 1 \/ k \in from + 1 .. i BY <1>1, <2>2
        <4> QED BY <4>1, <4>2, <4>3
      <3>8. f[i + 1].end \in from .. i + 1 /\ ~(f[i + 1].end < i + 1) BY <1>1, <2>2, <3>6
      <3>9. f[i + 1].res \in 0 .. B64 - 1 /\ f[i + 1].res = h[f[i + 1].end] BY <3>1, <3>4, <3>6
      <3>10. \A k \in from + 1 .. f[i + 1].end : ok(str[k]) BY <3>6, <3>7
      <3> QED BY <3>8, <3>9, <3>10
    <2>6. CASE s.end = i /\ ~takes(c, s.res, base) /\ is_gap(c)
      <3>1. f[i + 1] = [s EXCEPT !.end = i + 1] BY <2>2, <2>3, <2>6 DEF turn
      <3>2. f[i + 1].res = s.res /\ f[i + 1].end = i + 1 BY <2>1, <3>1 DEF States
      <3>3. h[i + 1] = h[i] BY <1>3, <2>2, <2>6
      <3>4. ok(c) BY <2>6 DEF ok
      <3> HIDE DEF c
      <3>7. \A k \in from + 1 .. i + 1 : ok(str[k])
        <4>1. \A k \in from + 1 .. i : ok(str[k]) BY <2>4, <2>6
        <4>2. ok(str[i + 1]) BY <3>4 DEF c
        <4>3. \A k \in from + 1 .. i + 1 : k = i + 1 \/ k \in from + 1 .. i BY <1>1, <2>2
        <4> QED BY <4>1, <4>2, <4>3
      <3>8. f[i + 1].end \in from .. i + 1 /\ ~(f[i + 1].end < i + 1) BY <1>1, <2>2, <3>2
      <3>9. f[i + 1].res \in 0 .. B64 - 1 /\ f[i + 1].res = h[f[i + 1].end]
        BY <2>1, <2>4, <2>6, <3>2, <3>3
      <3>10. \A k \in from + 1 .. f[i + 1].end : ok(str[k]) BY <3>2, <3>7
      <3> QED BY <3>8, <3>9, <3>10
    <2>7. CASE ~(s.end = i /\ takes(c, s.res, base)) /\ ~(s.end = i /\ is_gap(c))
      <3>1. f[i + 1] = s BY <2>2, <2>3, <2>7 DEF turn
      <3>2. ~takes(str[s.end + 1], s.res, base)
        <4>1. CASE s.end = i BY <2>7, <4>1
        <4>2. CASE s.end < i BY <2>4, <4>2
        <4> QED BY <2>1, <2>4, <4>1, <4>2
      <3>3. s.end \in from .. i + 1 BY <2>4
      <3> QED BY <2>1, <2>4, <3>1, <3>2, <3>3
    <2> QED BY <2>5, <2>6, <2>7
  <1> HIDE DEF Good
  <1>7. 0 \in I
    <2>1. 0 >= from => 0 = from BY <1>1
    <2> QED BY <1>5, <2>1
  <1>8. ASSUME NEW i \in Nat, i \in I PROVE i + 1 \in I
    <2> SUFFICES ASSUME i + 1 >= from PROVE Good(i + 1)
      OBVIOUS
    <2>1. CASE i >= from BY <1>6, <1>8, <2>1
    <2>2. CASE i < from
      <3>1. i + 1 = from BY <1>1, <2>2
      <3> QED BY <1>5, <3>1
    <2> QED BY <1>1, <2>1, <2>2
  <1> HIDE DEF I
  <1>9. L \in I BY <1>1, <1>7, <1>8, SetInduction
  <1>10. Good(L) BY <1>1, <1>9 DEF I
  <1> DEFINE r == f[L]
             d == Denoted(str, from, r.end, base)
  <1>11. /\ r.end \in from .. L /\ r.res \in 0 .. B64 - 1 /\ r.res = h[r.end]
         /\ \A k \in from + 1 .. r.end : ok(str[k])
         /\ r.end < L => ~takes(str[r.end + 1], r.res, base)
    BY <1>10 DEF Good
  <1> HIDE DEF r
  <1>12. d = r.res
    <2>1. r.end \in Nat BY <1>1, <1>11
    <2>2. Numeral(str, from, r.end) BY <1>4, <1>11 DEF Numeral
    <2> QED BY <1>3, <1>11, <2>1, <2>2
  <1>13. ASSUME base = 16, is_hex(Char(str, r.end))
         PROVE  r.res * 16 + Digits[Char(str, r.end)] >= B64
    <2>1. r.end < L
      <3>1. Char(str, r.end) # "nul" BY <1>13, EndIsNoDigit
      <3> QED BY <3>1 DEF Char, L
    <2>2. Char(str, r.end) = str[r.end + 1] BY <2>1 DEF Char, L
    <2> DEFINE c == str[r.end + 1]
    <2>3. is_hex(c) /\ ~takes(c, r.res, 16) BY <1>11, <1>13, <2>1, <2>2
    <2> HIDE DEF c
    <2>4. r.res * 16 + Digits[c] >= B64 BY <1>11, <2>3, DigitMissed
    <2> QED BY <2>2, <2>4 DEF c
  <1> DEFINE e == Char(str, r.end)
  <1>14. base = 16 /\ is_hex(e) => d * 16 + Digits[e] >= B64 BY <1>12, <1>13
  <1> HIDE DEF e, d
  <1>15. ReadFrom(str, from, base, r)
    <2>1. \A i \in from + 1 .. r.end :
            is_gap(str[i]) \/ (IF base = 16 THEN is_hex(str[i]) ELSE is_dec(str[i]))
      BY <1>11 DEF ok
    <2> QED BY <1>11, <1>12, <1>14, <2>1 DEF ReadFrom, d, e, L
  <1> QED BY <1>2a, <1>15 DEF r, L

(* config.c:135-151: the sign and the prefix are in the string, so the     *)
(* digits are looked for behind them; a number is negated behind a minus.  *)
LEMMA InTheString ==
  ASSUME NEW str \in Seq(STRING), NEW i \in Nat, Char(str, i) # "nul"
  PROVE  i < Len(str)
  BY DEF Char

LEMMA DigitsRecord ==
  ASSUME NEW str \in Seq(STRING), NEW from \in Nat, NEW base \in {10, 16}
  PROVE  digits(str, from, base) \in States
  <1>1. PICK f : f \in Scans(str, from, base) BY DigitsIs
  <1>2. f \in [Nat -> States] /\ digits(str, from, base) = f[Len(str)] BY <1>1 DEF Scans
  <1>3. Len(str) \in Nat OBVIOUS
  <1> QED BY <1>2, <1>3

LEMMA NumberReadAlways ==
  ASSUME NEW str \in Seq(STRING)
  PROVE  NumberRead(str)
  <1> DEFINE neg == Char(str, 0) = "-"
             sign == IF neg THEN 1 ELSE 0
             hex == Char(str, sign) = "0" /\ Char(str, sign + 1) = "x"
             from == IF hex THEN sign + 2 ELSE sign
             base == IF hex THEN 16 ELSE 10
             q == digits(str, from, base)
             r == parse_u64(str)
             d == Denoted(str, from, r.end, base)
  <1>1. sign \in 0 .. Len(str)
    <2>1. CASE neg
      <3>1. 0 < Len(str)
        <4>1. Char(str, 0) # "nul" BY <2>1
        <4> QED BY <4>1, InTheString
      <3> QED BY <2>1, <3>1
    <2>2. CASE ~neg BY <2>2
    <2> QED BY <2>1, <2>2
  <1>2. from \in 0 .. Len(str)
    <2>1. CASE hex
      <3>1. sign + 1 \in Nat /\ Char(str, sign + 1) # "nul" BY <1>1, <2>1
      <3>2. sign + 1 < Len(str)
        <4> HIDE DEF sign
        <4> QED BY <3>1, InTheString
      <3>3. from = sign + 2 BY <2>1
      <3> HIDE DEF sign, from
      <3> QED BY <1>1, <3>2, <3>3
    <2>2. CASE ~hex
      <3>1. from = sign BY <2>2
      <3> HIDE DEF sign, from
      <3> QED BY <1>1, <3>1
    <2> QED BY <2>1, <2>2
  <1>3. base \in {10, 16} /\ (base = 16 <=> hex) /\ (sign = 1 <=> neg)
    <2>1. CASE hex BY <2>1
    <2>2. CASE ~hex BY <2>2
    <2>3. CASE neg BY <2>3
    <2>4. CASE ~neg BY <2>4
    <2> HIDE DEF hex, neg, base, sign
    <2> QED BY <2>1, <2>2, <2>3, <2>4
  <1>4. r = IF neg THEN [q EXCEPT !.res = u64(-@)] ELSE q
    <2>1. CASE hex BY <2>1 DEF parse_u64, parse_u64_hex
    <2>2. CASE ~hex BY <2>2 DEF parse_u64, parse_u64_dec
    <2> QED BY <2>1, <2>2
  <1>5. NumberRead(str) <=>
          /\ r.end \in from .. Len(str)
          /\ \A i \in from + 1 .. r.end :
               is_gap(str[i]) \/ (IF hex THEN is_hex(str[i]) ELSE is_dec(str[i]))
          /\ d \in 0 .. B64 - 1
          /\ r.res = IF sign = 1 THEN u64(-d) ELSE d
          /\ hex /\ is_hex(Char(str, r.end)) => d * 16 + Digits[Char(str, r.end)] >= B64
    BY DEF NumberRead
  <1> HIDE DEF sign, hex, from, base, r, neg
  <1>6. q \in States BY <1>2, <1>3, DigitsRecord
  <1>7. ReadFrom(str, from, base, q) BY <1>2, <1>3, DigitsRead
  <1> HIDE DEF q
  <1>8. r.end = q.end /\ r.res = IF neg THEN u64(-q.res) ELSE q.res
    <2>1. CASE neg
      <3>1. r = [q EXCEPT !.res = u64(-@)] BY <1>4, <2>1
      <3>2. r.end = q.end /\ r.res = u64(-q.res) BY <1>6, <3>1 DEF States
      <3> QED BY <2>1, <3>2
    <2>2. CASE ~neg BY <1>4, <2>2
    <2> QED BY <2>1, <2>2
  <1> QED BY <1>3, <1>5, <1>7, <1>8 DEF ReadFrom

(* config.c:88-151, div64.h: whatever the width of a word, what the number *)
(* parser returns is what the digits it consumed denote, whichever string  *)
(* it reads, and do_div by any constant divides every double word exactly. *)
THEOREM ArithmeticIsExact == ArithmeticSpec => []ArithmeticExact
  <1>1. ArithmeticInit => ArithmeticExact
    <2>1. ASSUME routine = "parse_u64", argument \in Seq(STRING) PROVE ArithmeticExact
      BY <2>1, NumberReadAlways DEF ArithmeticExact
    <2>2. ASSUME routine = "do_div", argument \in 1 .. B32 - 1 PROVE ArithmeticExact
      BY <2>2, DoDiv DEF ArithmeticExact
    <2> QED BY <2>1, <2>2 DEF ArithmeticInit
  <1>2. ArithmeticInit /\ [UNCHANGED arithmeticVars]_arithmeticVars => ArithmeticInit'
    BY DEF ArithmeticInit, arithmeticVars
  <1> QED BY <1>1, <1>2, PTL DEF ArithmeticSpec
=============================================================================

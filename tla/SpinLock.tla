------------------------------ MODULE SpinLock ------------------------------
(***************************************************************************)
(* arch_spinlock_t of include/asm/spinlock.h: arch_spin_lock polls the     *)
(* word until it reads 0, then tries an amoswap.w.aq; the unlock is an     *)
(* amoswap.w.rl of zero.                                                   *)
(***************************************************************************)
EXTENDS CriticalSection

VARIABLE slock     \* arch_spinlock_t.lock

spinVars == <<slock, spc, sectionVars>>

SpinTypeOK == slock \in {0, 1} /\ SectionTypeOK

SpinInit == slock = 0 /\ SectionInit

SpinBegin(c) ==
  /\ spc[c] = "idle"
  /\ spc' = [spc EXCEPT ![c] = "spin"]
  /\ UNCHANGED <<slock, sectionVars>>

(* if (arch_spin_is_locked(lock)) continue; a plain load. *)
arch_spin_is_locked(c) ==
  /\ spc[c] = "spin" /\ slock = 0
  /\ spc' = [spc EXCEPT ![c] = "try"]
  /\ UNCHANGED <<slock, sectionVars>>

(* amoswap.w.aq of 1: !busy is success, otherwise arch_spin_lock polls     *)
(* again.                                                                  *)
arch_spin_trylock(c) ==
  /\ spc[c] = "try"
  /\ slock' = 1
  /\ IF slock = 0
     THEN EnterSection(c)
     ELSE spc' = [spc EXCEPT ![c] = "spin"] /\ UNCHANGED sectionVars

(* Mutants: the unlock without .rl, and one that stores 1. *)
M_UnlockRelaxed(c) == LeaveSection(c, FALSE) /\ slock' = 0
M_UnlockStoresOne(c) == LeaveSection(c, TRUE) /\ slock' = 1

(* amoswap.w.rl of zero. *)
arch_spin_unlock(c) ==
  /\ LeaveSection(c, TRUE)
  /\ slock' = 0

SpinStep(c) ==
  \/ arch_spin_is_locked(c) \/ arch_spin_trylock(c) \/ arch_spin_unlock(c)
  \/ (Load(c, TRUE) \/ Store(c) \/ Perform(c)) /\ UNCHANGED slock

SpinNext == \E c \in Cpus : SpinBegin(c) \/ SpinStep(c)

SpinSpec == SpinInit /\ [][SpinNext]_spinVars

(* A hart keeps executing and its buffered stores reach memory; nothing    *)
(* makes it want the lock again.                                           *)
SpinFairSpec == SpinSpec /\ \A c \in Cpus : WF_spinVars(SpinStep(c))

(* A hart that polls is not left polling a lock that nobody takes: the     *)
(* unlock, and a trylock that found the lock busy, leave a word that can   *)
(* be won again.  spinlock.h:8 promises no more: no hart is promised it.   *)
SpinProgress ==
  (\E c \in Cpus : spc[c] \in {"spin", "try"}) ~> (\E c \in Cpus : Inside(c))
=============================================================================

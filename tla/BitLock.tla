------------------------------ MODULE BitLock -------------------------------
(***************************************************************************)
(* The bit lock of include/asm/bitops.h, as the generic bit_spin_lock uses *)
(* it: test_and_set_bit_lock is an amoor and clear_bit_unlock an amoand,   *)
(* both with neither .aq nor .rl and without a fence.                      *)
(***************************************************************************)
EXTENDS CriticalSection

VARIABLE word     \* the lock bit of the bitmap word

vars == <<word, spc, sectionVars>>

TypeOK == word \in BOOLEAN /\ SectionTypeOK

Init == word = FALSE /\ SectionInit

Begin(c) ==
  /\ spc[c] = "idle"
  /\ spc' = [spc EXCEPT ![c] = "try"]
  /\ UNCHANGED <<word, sectionVars>>

(* Sets the bit and returns whether it was set.  A load that ran ahead of  *)
(* an attempt that failed is thrown away with it.                          *)
test_and_set_bit_lock(c) ==
  /\ spc[c] = "try"
  /\ word' = TRUE
  /\ IF word
     THEN reg' = [reg EXCEPT ![c] = {}] /\ UNCHANGED <<spc, data, buf, done>>
     ELSE EnterSection(c)

clear_bit_unlock(c) ==
  /\ LeaveSection(c, FALSE)
  /\ word' = FALSE

Next ==
  \E c \in Cpus :
     \/ Begin(c) \/ test_and_set_bit_lock(c) \/ clear_bit_unlock(c)
     \/ (Load(c, FALSE) \/ Store(c) \/ Perform(c)) /\ UNCHANGED word

Spec == Init /\ [][Next]_vars
=============================================================================

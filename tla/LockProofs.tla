----------------------------- MODULE LockProofs -----------------------------
(***************************************************************************)
(* Proofs about the two locks of asm/spinlock.h and the atomic operations. *)
(*                                                                         *)
(* RwLock, for any finite set of contexts: mutual exclusion, the exact     *)
(* count in the lock word, and that the instruction sequences implement    *)
(* AbstractRwLock.  SpinLock, for any set of harts: mutual exclusion, and  *)
(* that the .aq and .rl of the two amoswaps hand the protected memory over *)
(* from holder to holder.                                                  *)
(*                                                                         *)
(* Atomics, for any width of the variable's types, any calls and any       *)
(* contexts: every operation takes effect at once and returns what its     *)
(* comment says (AbstractAtomic).  First what one instruction does to a    *)
(* word is what the comment says of the number (AmoCorrect), and what a    *)
(* loop stores over the value it loaded too (LoopCorrect); then that a     *)
(* loop stores only over the value it loaded (AtomicsInv), whatever other  *)
(* harts and handlers do in between.                                       *)
(***************************************************************************)
EXTENDS RwLock, SpinLock, Atomics, NumberTheorems, FiniteSetTheorems, TLAPS

TypeInv ==
  /\ lock \in Int
  /\ resv \in [Harts -> BOOLEAN]
  /\ pc \in [Contexts -> {"off", "idle", "lr", "sc", "held"}]
  /\ op \in [Contexts -> Ops \cup {"none"}]
  /\ tmp \in [Contexts -> Int]

(* An operation is named exactly while it runs; only handlers are off; a   *)
(* context about to store read a word that was not busy.                   *)
ControlInv ==
  /\ \A x \in Contexts : pc[x] \in {"lr", "sc", "held"} <=> op[x] \in Ops
  /\ \A x \in Contexts : pc[x] = "off" => x \in Irqs
  /\ \A x \in Contexts : pc[x] = "sc" => ~Busy(op[x], tmp[x])

(* The inductive invariant. *)
IInv ==
  /\ TypeInv
  /\ ControlInv
  /\ MutualExclusion
  /\ WordCountsHolders
  /\ ReservationFresh

(* There is one flow of control on a hart at a time: kernel/entry.S runs a *)
(* handler to its sret before the interrupted task goes on.                *)
LEMMA OneActivePerHart ==
  ASSUME TypeInv,
         NEW x \in Contexts, NEW y \in Contexts,
         Active(x), Active(y), HartOf[x] = HartOf[y]
  PROVE  x = y
  BY ContextsAssumption DEF Active, Tasks, TypeInv

(* The holders are finitely many, so they can be counted. *)
LEMMA ReadersFinite == IsFiniteSet(Readers)
  BY ContextsAssumption, FS_Subset DEF Readers

(* What the word says about who is inside, given mutual exclusion and the  *)
(* exact count.                                                            *)
LEMMA WordMeaning ==
  ASSUME TypeInv, MutualExclusion, WordCountsHolders
  PROVE  /\ lock = 0 => Readers = {} /\ Writers = {}
         /\ lock >= 0 => Writers = {}
         /\ Writers = {} => lock = Cardinality(Readers) /\ lock \in Nat
  <1>1. Cardinality(Readers) \in Nat
    BY ReadersFinite, FS_CardinalityType
  <1>2. Cardinality(Readers) = 0 <=> Readers = {}
    BY ReadersFinite, FS_EmptySet
  <1>3. QED
    BY <1>1, <1>2 DEF WordCountsHolders

LEMMA InitIInv == Init => IInv
  <1> SUFFICES ASSUME Init PROVE IInv
    OBVIOUS
  <1>1. Readers = {} /\ Writers = {}
    BY DEF Init, Readers, Writers
  <1>2. TypeInv /\ ControlInv
    BY DEF Init, TypeInv, ControlInv, Ops, ReadOps, WriteOps
  <1>3. WordCountsHolders
    BY <1>1, FS_EmptySet DEF Init, WordCountsHolders
  <1>4. QED
    BY <1>1, <1>2, <1>3 DEF IInv, MutualExclusion, ReservationFresh, Init

(* Type correctness of every step; StoreConditional and the unlocks are    *)
(* the only ones that change the word.                                     *)
LEMMA StepTypeInv == TypeInv /\ ControlInv /\ [Next]_vars => TypeInv'
  <1> SUFFICES ASSUME TypeInv, ControlInv, [Next]_vars PROVE TypeInv'
    OBVIOUS
  <1> USE ContextsAssumption DEF TypeInv, Ops, ReadOps, WriteOps
  <1>1. ASSUME NEW x \in Contexts, NEW o \in Ops, Begin(x, o) PROVE TypeInv'
    BY <1>1 DEF Begin
  <1>2. ASSUME NEW x \in Contexts, LoadReserved(x) PROVE TypeInv'
    BY <1>2 DEF LoadReserved
  <1>3. ASSUME NEW x \in Contexts, StoreConditional(x) PROVE TypeInv'
    BY <1>3 DEF StoreConditional, NewWord
  <1>4. ASSUME NEW x \in Contexts, StoreConditionalFails(x) PROVE TypeInv'
    BY <1>4 DEF StoreConditionalFails
  <1>5. ASSUME NEW x \in Contexts, arch_read_unlock(x) PROVE TypeInv'
    BY <1>5 DEF arch_read_unlock, Release, OnlyOwnReservation
  <1>6. ASSUME NEW x \in Contexts, arch_write_unlock(x) PROVE TypeInv'
    BY <1>6 DEF arch_write_unlock, Release, OnlyOwnReservation
  <1>7. ASSUME NEW i \in Irqs, IrqEnter(i) PROVE TypeInv'
    BY <1>7 DEF IrqEnter
  <1>8. ASSUME NEW i \in Irqs, Sret(i) PROVE TypeInv'
    BY <1>8 DEF Sret
  <1>9. ASSUME NEW h \in Harts, LoseReservation(h) PROVE TypeInv'
    BY <1>9 DEF LoseReservation
  <1>10. CASE UNCHANGED vars
    BY <1>10 DEF vars
  <1>11. QED
    BY <1>1, <1>2, <1>3, <1>4, <1>5, <1>6, <1>7, <1>8, <1>9, <1>10 DEF Next, Step

LEMMA StepControlInv == TypeInv /\ ControlInv /\ [Next]_vars => ControlInv'
  <1> SUFFICES ASSUME TypeInv, ControlInv, [Next]_vars PROVE ControlInv'
    OBVIOUS
  <1> USE ContextsAssumption DEF TypeInv, ControlInv, Ops, ReadOps, WriteOps, TryOps
  <1>1. ASSUME NEW x \in Contexts, NEW o \in Ops, Begin(x, o) PROVE ControlInv'
    BY <1>1 DEF Begin, Busy
  <1>2. ASSUME NEW x \in Contexts, LoadReserved(x) PROVE ControlInv'
    BY <1>2 DEF LoadReserved, Busy
  <1>3. ASSUME NEW x \in Contexts, StoreConditional(x) PROVE ControlInv'
    BY <1>3 DEF StoreConditional, Busy
  <1>4. ASSUME NEW x \in Contexts, StoreConditionalFails(x) PROVE ControlInv'
    BY <1>4 DEF StoreConditionalFails, Busy
  <1>5. ASSUME NEW x \in Contexts, arch_read_unlock(x) PROVE ControlInv'
    BY <1>5 DEF arch_read_unlock, Release, Busy
  <1>6. ASSUME NEW x \in Contexts, arch_write_unlock(x) PROVE ControlInv'
    BY <1>6 DEF arch_write_unlock, Release, Busy
  <1>7. ASSUME NEW i \in Irqs, IrqEnter(i) PROVE ControlInv'
    BY <1>7 DEF IrqEnter, Busy
  <1>8. ASSUME NEW i \in Irqs, Sret(i) PROVE ControlInv'
    BY <1>8 DEF Sret, Busy
  <1>9. ASSUME NEW h \in Harts, LoseReservation(h) PROVE ControlInv'
    BY <1>9 DEF LoseReservation, Busy
  <1>10. CASE UNCHANGED vars
    BY <1>10 DEF vars, Busy
  <1>11. QED
    BY <1>1, <1>2, <1>3, <1>4, <1>5, <1>6, <1>7, <1>8, <1>9, <1>10 DEF Next, Step

(* How each step changes the sets of holders: an sc.w that stores admits   *)
(* its context, an unlock removes it, no other step touches them.          *)
LEMMA StoreConditionalHolders ==
  ASSUME TypeInv, ControlInv, NEW x \in Contexts, StoreConditional(x)
  PROVE  /\ x \notin Readers \cup Writers
         /\ op[x] \in ReadOps  => Readers' = Readers \cup {x} /\ Writers' = Writers
         /\ op[x] \in WriteOps => Writers' = Writers \cup {x} /\ Readers' = Readers
         /\ op[x] \in ReadOps \/ op[x] \in WriteOps
  BY DEF StoreConditional, TypeInv, ControlInv, Readers, Writers, Ops, ReadOps, WriteOps

LEMMA UnlockHolders ==
  ASSUME TypeInv, ControlInv, NEW x \in Contexts
  PROVE  /\ arch_read_unlock(x) =>
              x \in Readers /\ Readers' = Readers \ {x} /\ Writers' = Writers
         /\ arch_write_unlock(x) =>
              x \in Writers /\ Writers' = Writers \ {x} /\ Readers' = Readers
  <1> USE DEF Release, TypeInv, Readers, Writers, Ops, ReadOps, WriteOps
  <1>1. ASSUME arch_read_unlock(x)
        PROVE  x \in Readers /\ Readers' = Readers \ {x} /\ Writers' = Writers
    BY <1>1 DEF arch_read_unlock
  <1>2. ASSUME arch_write_unlock(x)
        PROVE  x \in Writers /\ Writers' = Writers \ {x} /\ Readers' = Readers
    BY <1>2 DEF arch_write_unlock
  <1>3. QED
    BY <1>1, <1>2

(* The steps that neither store to the word nor release it. *)
QuietStep ==
  \/ \E x \in Contexts : \/ LoadReserved(x) \/ StoreConditionalFails(x)
                         \/ \E o \in Ops : Begin(x, o)
  \/ \E i \in Irqs : IrqEnter(i) \/ Sret(i)
  \/ \E h \in Harts : LoseReservation(h)
  \/ UNCHANGED vars

LEMMA QuietStepHolders ==
  ASSUME TypeInv, ControlInv, QuietStep
  PROVE  Readers' = Readers /\ Writers' = Writers /\ lock' = lock
  <1> USE ContextsAssumption DEF TypeInv, ControlInv, Readers, Writers, Ops, ReadOps, WriteOps
  <1>1. ASSUME NEW x \in Contexts, NEW o \in Ops, Begin(x, o)
        PROVE  Readers' = Readers /\ Writers' = Writers /\ lock' = lock
    BY <1>1 DEF Begin
  <1>2. ASSUME NEW x \in Contexts, LoadReserved(x)
        PROVE  Readers' = Readers /\ Writers' = Writers /\ lock' = lock
    BY <1>2 DEF LoadReserved
  <1>3. ASSUME NEW x \in Contexts, StoreConditionalFails(x)
        PROVE  Readers' = Readers /\ Writers' = Writers /\ lock' = lock
    BY <1>3 DEF StoreConditionalFails
  <1>4. ASSUME NEW i \in Irqs, IrqEnter(i) \/ Sret(i)
        PROVE  Readers' = Readers /\ Writers' = Writers /\ lock' = lock
    BY <1>4 DEF IrqEnter, Sret
  <1>5. CASE (\E h \in Harts : LoseReservation(h)) \/ UNCHANGED vars
    BY <1>5 DEF LoseReservation, vars
  <1>6. QED
    BY <1>1, <1>2, <1>3, <1>4, <1>5 DEF QuietStep

(* A store by one hart leaves no reservation to a context that is about to *)
(* store: other harts lost theirs, and the hart itself runs the storing    *)
(* context.                                                                *)
LEMMA StepReservationFresh ==
  ASSUME TypeInv, ControlInv, ReservationFresh, [Next]_vars
  PROVE  ReservationFresh'
  <1> USE ContextsAssumption DEF TypeInv, ReservationFresh
  <1>1. ASSUME NEW x \in Contexts, NEW o \in Ops, Begin(x, o)
        PROVE  ReservationFresh'
    BY <1>1 DEF Begin, Active, Tasks
  <1>2. ASSUME NEW x \in Contexts, LoadReserved(x) PROVE ReservationFresh'
    <2> SUFFICES ASSUME NEW y \in Contexts, Active(y)', pc'[y] = "sc",
                        resv'[HartOf[y]]
                 PROVE  tmp'[y] = lock'
      OBVIOUS
    <2>1. Active(y) /\ Active(x)
      BY <1>2 DEF LoadReserved, Active
    <2>2. CASE y = x
      BY <1>2, <2>2 DEF LoadReserved
    <2>3. CASE y # x
      BY <1>2, <2>1, <2>3, OneActivePerHart DEF LoadReserved
    <2>4. QED
      BY <2>2, <2>3
  <1>3. ASSUME NEW x \in Contexts, StoreConditional(x) PROVE ReservationFresh'
    BY <1>3 DEF StoreConditional
  <1>4. ASSUME NEW x \in Contexts, StoreConditionalFails(x) PROVE ReservationFresh'
    BY <1>4 DEF StoreConditionalFails, Active
  <1>5. ASSUME NEW x \in Contexts, arch_read_unlock(x) \/ arch_write_unlock(x)
        PROVE  ReservationFresh'
    <2> SUFFICES ASSUME NEW y \in Contexts, Active(y)', pc'[y] = "sc",
                        resv'[HartOf[y]]
                 PROVE  FALSE
      OBVIOUS
    <2>1. Active(y) /\ Active(x) /\ y # x
      BY <1>5 DEF arch_read_unlock, arch_write_unlock, Release, Active
    <2>2. HartOf[y] # HartOf[x]
      BY <2>1, OneActivePerHart
    <2>3. QED
      BY <1>5, <2>2 DEF arch_read_unlock, arch_write_unlock, Release, OnlyOwnReservation
  <1>6. ASSUME NEW i \in Irqs, IrqEnter(i) PROVE ReservationFresh'
    BY <1>6 DEF IrqEnter, Active
  <1>7. ASSUME NEW i \in Irqs, Sret(i) PROVE ReservationFresh'
    <2> SUFFICES ASSUME NEW y \in Contexts, Active(y)', pc'[y] = "sc",
                        resv'[HartOf[y]]
                 PROVE  tmp'[y] = lock'
      OBVIOUS
    <2>1. HartOf[y] # HartOf[i] /\ resv[HartOf[y]] /\ pc[y] = "sc"
      BY <1>7 DEF Sret
    <2>2. Active(y)
      BY <1>7, <2>1 DEF Sret, Active
    <2>3. QED
      BY <1>7, <2>1, <2>2 DEF Sret
  <1>8. ASSUME NEW h \in Harts, LoseReservation(h) PROVE ReservationFresh'
    BY <1>8 DEF LoseReservation, Active
  <1>9. CASE UNCHANGED vars
    BY <1>9 DEF vars, Active
  <1>10. QED
    BY <1>1, <1>2, <1>3, <1>4, <1>5, <1>6, <1>7, <1>8, <1>9 DEF Next, Step

(* An sc.w that stores finds the lock as its lr.w left it. *)
LEMMA StoreFindsWordUnchanged ==
  ASSUME IInv, NEW x \in Contexts, StoreConditional(x)
  PROVE  tmp[x] = lock /\ ~Busy(op[x], lock)
  BY DEF IInv, StoreConditional, ReservationFresh, ControlInv

LEMMA StepHolders ==
  ASSUME IInv, [Next]_vars
  PROVE  MutualExclusion' /\ WordCountsHolders'
  <1> USE DEF IInv
  <1>1. Cardinality(Readers) \in Nat
    BY ReadersFinite, FS_CardinalityType
  <1>2. CASE QuietStep
    BY <1>2, QuietStepHolders DEF MutualExclusion, WordCountsHolders
  <1>3. ASSUME NEW x \in Contexts, StoreConditional(x)
        PROVE  MutualExclusion' /\ WordCountsHolders'
    <2>1. lock' = NewWord(op[x], lock) /\ ~Busy(op[x], lock)
      BY <1>3, StoreFindsWordUnchanged DEF StoreConditional
    <2>2. CASE op[x] \in ReadOps
      <3>1. lock \in Int /\ lock >= 0 /\ lock' = lock + 1
        BY <2>1, <2>2 DEF Busy, NewWord, TypeInv
      <3>2. Writers = {} /\ lock = Cardinality(Readers)
        BY <3>1, WordMeaning
      <3>3. Readers' = Readers \cup {x} /\ Writers' = {} /\ x \notin Readers
        BY <1>3, <2>2, <3>2, StoreConditionalHolders
      <3>4. Cardinality(Readers \cup {x}) = Cardinality(Readers) + 1
        BY <3>3, ReadersFinite, FS_AddElement
      <3>5. QED
        BY <3>1, <3>2, <3>3, <3>4 DEF MutualExclusion, WordCountsHolders
    <2>3. CASE op[x] \in WriteOps
      <3>1. lock = 0 /\ lock' = -1
        BY <2>1, <2>3 DEF Busy, NewWord, ReadOps, WriteOps
      <3>2. Writers' = {x} /\ Readers' = {}
        BY <1>3, <2>3, <3>1, StoreConditionalHolders, WordMeaning
      <3>3. QED
        BY <3>1, <3>2 DEF MutualExclusion, WordCountsHolders
    <2>4. QED
      BY <1>3, <2>2, <2>3, StoreConditionalHolders
  <1>4. ASSUME NEW x \in Contexts, arch_read_unlock(x)
        PROVE  MutualExclusion' /\ WordCountsHolders'
    <2>1. x \in Readers /\ Readers' = Readers \ {x} /\ Writers' = Writers
      BY <1>4, UnlockHolders
    <2>2. Writers = {}
      BY <2>1 DEF MutualExclusion
    <2>3. Cardinality(Readers \ {x}) = Cardinality(Readers) - 1
      BY <2>1, ReadersFinite, FS_RemoveElement
    <2>4. lock' = lock - 1
      BY <1>4 DEF arch_read_unlock, Release
    <2>5. QED
      BY <2>1, <2>2, <2>3, <2>4 DEF MutualExclusion, WordCountsHolders
  <1>5. ASSUME NEW x \in Contexts, arch_write_unlock(x)
        PROVE  MutualExclusion' /\ WordCountsHolders'
    <2>1. Writers' = {} /\ Readers' = {}
      BY <1>5, UnlockHolders DEF MutualExclusion
    <2>2. lock' = 0
      BY <1>5 DEF arch_write_unlock, Release
    <2>3. QED
      BY <2>1, <2>2, FS_EmptySet DEF MutualExclusion, WordCountsHolders
  <1>6. QED
    BY <1>2, <1>3, <1>4, <1>5 DEF Next, Step, QuietStep

THEOREM Invariance == Spec => []IInv
  <1>1. IInv /\ [Next]_vars => IInv'
    BY StepTypeInv, StepControlInv, StepReservationFresh, StepHolders DEF IInv
  <1>2. QED
    BY InitIInv, <1>1, PTL DEF Spec

-----------------------------------------------------------------------------
(* The word stays between -1 and the number of contexts, and every         *)
(* register and program counter in its range.                              *)
THEOREM TypeCorrect == Spec => []TypeOK
  <1>1. IInv => TypeOK
    <2> SUFFICES ASSUME IInv PROVE TypeOK
      OBVIOUS
    <2>1. /\ Cardinality(Readers) \in Nat /\ Cardinality(Contexts) \in Nat
          /\ Cardinality(Readers) <= Cardinality(Contexts)
      BY ContextsAssumption, ReadersFinite, FS_CardinalityType, FS_Subset DEF Readers
    <2>2. QED
      BY <2>1 DEF IInv, TypeInv, TypeOK, WordCountsHolders
  <1>2. QED
    BY Invariance, <1>1, PTL

(* spinlock.h's read and write sides exclude each other and writers        *)
(* exclude one another, whatever interrupts run between lr.w and sc.w.     *)
THEOREM Exclusion == Spec => []MutualExclusion
  <1>1. IInv => MutualExclusion
    BY DEF IInv
  <1>2. QED
    BY Invariance, <1>1, PTL

(* The lock word is the exact number of readers, or -1 for a writer.       *)
THEOREM ExactCount == Spec => []WordCountsHolders
  <1>1. IInv => WordCountsHolders
    BY DEF IInv
  <1>2. QED
    BY Invariance, <1>1, PTL

(* A standing reservation vouches for the value read by the context that   *)
(* is about to store.                                                      *)
THEOREM FreshReservations == Spec => []ReservationFresh
  <1>1. IInv => ReservationFresh
    BY DEF IInv
  <1>2. QED
    BY Invariance, <1>1, PTL

(* Every step of the instruction sequences is a step of the abstract lock  *)
(* or leaves its holders alone.                                            *)
THEOREM Refinement == Spec => AbstractSpec
  <1>1. Init => Abstract!Init
    BY DEF Init, Abstract!Init, Readers, Writers
  <1>2. IInv /\ [Next]_vars => [Abstract!Next]_<<Readers, Writers>>
    <2> SUFFICES ASSUME IInv, [Next]_vars
                 PROVE  [Abstract!Next]_<<Readers, Writers>>
      OBVIOUS
    <2> USE DEF IInv, Abstract!Next
    <2>1. CASE QuietStep
      BY <2>1, QuietStepHolders
    <2>2. ASSUME NEW x \in Contexts, StoreConditional(x) PROVE Abstract!Next
      <3>1. lock \in Int /\ ~Busy(op[x], lock)
        BY <2>2, StoreFindsWordUnchanged DEF TypeInv
      <3>2. CASE op[x] \in ReadOps
        <4>1. Writers = {}
          BY <3>1, <3>2, WordMeaning DEF Busy
        <4>2. QED
          BY <2>2, <3>2, <4>1, StoreConditionalHolders DEF Abstract!ReadAcquire
      <3>3. CASE op[x] \in WriteOps
        <4>1. Readers = {} /\ Writers = {}
          BY <3>1, <3>3, WordMeaning DEF Busy, ReadOps, WriteOps
        <4>2. QED
          BY <2>2, <3>3, <4>1, StoreConditionalHolders DEF Abstract!WriteAcquire
      <3>4. QED
        BY <2>2, <3>2, <3>3, StoreConditionalHolders
    <2>3. ASSUME NEW x \in Contexts, arch_read_unlock(x) PROVE Abstract!Next
      BY <2>3, UnlockHolders DEF Abstract!ReadRelease
    <2>4. ASSUME NEW x \in Contexts, arch_write_unlock(x) PROVE Abstract!Next
      BY <2>4, UnlockHolders DEF Abstract!WriteRelease
    <2>5. QED
      BY <2>1, <2>2, <2>3, <2>4 DEF Next, Step, QuietStep
  <1>3. QED
    BY <1>1, <1>2, Invariance, PTL DEF Spec, AbstractSpec, Abstract!Spec

-----------------------------------------------------------------------------
(* The spin lock.                                                          *)

(* Who is inside and what the word says. *)
SpinLockInv ==
  /\ OneInside
  /\ slock = 1 <=> \E c \in Cpus : Inside(c)

(* Where the counter is: nothing is loaded or buffered outside the section *)
(* and, until the holder's store, memory shows every finished section.     *)
SpinMemoryInv ==
  /\ \A c \in Cpus : reg[c] # {} => Inside(c) /\ reg[c] = {done}
  /\ \A c \in Cpus : spc[c] = "unlock" => reg[c] # {}
  /\ \A c \in Cpus : buf[c] # {} => spc[c] = "unlock"
  /\ \A c \in Cpus : spc[c] = "unlock" =>
        IF buf[c] = {} THEN data = (done + 1) % Wrap
        ELSE buf[c] = {(done + 1) % Wrap}
  /\ (\A c \in Cpus : spc[c] # "unlock") => data = done

SpinIInv == SpinTypeOK /\ SpinLockInv /\ SpinMemoryInv

LEMMA WrapValue ==
  ASSUME NEW v \in Value
  PROVE  (v + 1) % Wrap \in Value
  BY WrapAssumption DEF Value

LEMMA InitSpinIInv == SpinInit => SpinIInv
  BY WrapAssumption DEF SpinInit, SectionInit, SpinIInv, SpinTypeOK, SectionTypeOK, SpinLockInv,
     SpinMemoryInv, OneInside, Inside, Value, AtMostOne

LEMMA StepSpinTypeOK == SpinTypeOK /\ [SpinNext]_spinVars => SpinTypeOK'
  <1> SUFFICES ASSUME SpinTypeOK, [SpinNext]_spinVars PROVE SpinTypeOK'
    OBVIOUS
  <1> USE DEF SpinTypeOK, SectionTypeOK, sectionVars
  <1>1. ASSUME NEW c \in Cpus, SpinBegin(c) \/ arch_spin_is_locked(c) PROVE SpinTypeOK'
    BY <1>1 DEF SpinBegin, arch_spin_is_locked
  <1>2. ASSUME NEW c \in Cpus, arch_spin_trylock(c) PROVE SpinTypeOK'
    BY <1>2 DEF arch_spin_trylock, EnterSection
  <1>3. ASSUME NEW c \in Cpus, arch_spin_unlock(c) PROVE SpinTypeOK'
    BY <1>3, WrapValue DEF arch_spin_unlock, LeaveSection, AtMostOne
  <1>4. ASSUME NEW c \in Cpus, Load(c, TRUE), UNCHANGED slock PROVE SpinTypeOK'
    BY <1>4 DEF Load, Visible, AtMostOne
  <1>5. ASSUME NEW c \in Cpus, Store(c), UNCHANGED slock PROVE SpinTypeOK'
    <2>1. PICK v \in Value : reg[c] = {v}
      BY <1>5 DEF Store, AtMostOne
    <2>2. {(w + 1) % Wrap : w \in reg[c]} = {(v + 1) % Wrap}
      BY <2>1
    <2>3. QED
      BY <1>5, <2>1, <2>2, WrapValue DEF Store, AtMostOne
  <1>6. ASSUME NEW c \in Cpus, Perform(c), UNCHANGED slock PROVE SpinTypeOK'
    BY <1>6 DEF Perform, AtMostOne
  <1>7. CASE UNCHANGED spinVars
    BY <1>7 DEF spinVars
  <1>8. QED
    BY <1>1, <1>2, <1>3, <1>4, <1>5, <1>6, <1>7 DEF SpinNext, SpinStep

LEMMA StepSpinLockInv == SpinTypeOK /\ SpinLockInv /\ [SpinNext]_spinVars => SpinLockInv'
  <1> SUFFICES ASSUME SpinTypeOK, SpinLockInv, [SpinNext]_spinVars PROVE SpinLockInv'
    OBVIOUS
  <1> USE DEF SpinTypeOK, SectionTypeOK, SpinLockInv, OneInside, Inside, sectionVars
  <1>1. ASSUME NEW c \in Cpus, SpinBegin(c) \/ arch_spin_is_locked(c) PROVE SpinLockInv'
    BY <1>1 DEF SpinBegin, arch_spin_is_locked
  <1>2. ASSUME NEW c \in Cpus, arch_spin_trylock(c) PROVE SpinLockInv'
    BY <1>2 DEF arch_spin_trylock, EnterSection
  <1>3. ASSUME NEW c \in Cpus, arch_spin_unlock(c) PROVE SpinLockInv'
    BY <1>3 DEF arch_spin_unlock, LeaveSection
  <1>4. ASSUME NEW c \in Cpus, Load(c, TRUE) \/ Store(c) \/ Perform(c), UNCHANGED slock
        PROVE  SpinLockInv'
    BY <1>4 DEF Load, Store, Perform
  <1>5. CASE UNCHANGED spinVars
    BY <1>5 DEF spinVars
  <1>6. QED
    BY <1>1, <1>2, <1>3, <1>4, <1>5 DEF SpinNext, SpinStep

LEMMA StepSpinMemoryInv == SpinIInv /\ [SpinNext]_spinVars => SpinMemoryInv'
  <1> SUFFICES ASSUME SpinIInv, [SpinNext]_spinVars PROVE SpinMemoryInv'
    OBVIOUS
  <1> USE DEF SpinIInv, SpinTypeOK, SectionTypeOK, SpinLockInv, OneInside, SpinMemoryInv,
              Inside, sectionVars
  <1>1. ASSUME NEW c \in Cpus, SpinBegin(c) \/ arch_spin_is_locked(c) PROVE SpinMemoryInv'
    BY <1>1 DEF SpinBegin, arch_spin_is_locked
  <1>2. ASSUME NEW c \in Cpus, arch_spin_trylock(c) PROVE SpinMemoryInv'
    BY <1>2 DEF arch_spin_trylock, EnterSection
  <1>3. ASSUME NEW c \in Cpus, arch_spin_unlock(c) PROVE SpinMemoryInv'
    <2>1. \A d \in Cpus : d # c => spc[d] # "unlock" /\ reg[d] = {} /\ buf[d] = {}
      BY <1>3 DEF arch_spin_unlock, LeaveSection
    <2>2. buf[c] = {} /\ data = (done + 1) % Wrap
      BY <1>3 DEF arch_spin_unlock, LeaveSection
    <2>3. QED
      BY <1>3, <2>1, <2>2 DEF arch_spin_unlock, LeaveSection
  <1>4. ASSUME NEW c \in Cpus, Load(c, TRUE), UNCHANGED slock PROVE SpinMemoryInv'
    <2>1. \A d \in Cpus : spc[d] # "unlock"
      BY <1>4 DEF Load
    <2>2. Visible(c) = {done}
      BY <1>4, <2>1 DEF Load, Visible
    <2>3. QED
      BY <1>4, <2>1, <2>2 DEF Load
  <1>5. ASSUME NEW c \in Cpus, Store(c), UNCHANGED slock PROVE SpinMemoryInv'
    <2>1. reg[c] = {done}
      BY <1>5 DEF Store
    <2>2. {(v + 1) % Wrap : v \in reg[c]} = {(done + 1) % Wrap}
      BY <2>1
    <2>3. buf' = [buf EXCEPT ![c] = {(done + 1) % Wrap}]
      BY <1>5, <2>2 DEF Store
    <2>4. /\ spc' = [spc EXCEPT ![c] = "unlock"]
          /\ UNCHANGED <<data, reg, done>>
      BY <1>5 DEF Store
    <2>5. \A d \in Cpus : d # c => ~Inside(d) /\ reg[d] = {} /\ buf[d] = {}
      BY <1>5 DEF Store
    <2>6. QED
      BY <2>1, <2>3, <2>4, <2>5
  <1>6. ASSUME NEW c \in Cpus, Perform(c), UNCHANGED slock PROVE SpinMemoryInv'
    <2>1. spc[c] = "unlock" /\ \A d \in Cpus : spc[d] = "unlock" => d = c
      BY <1>6 DEF Perform
    <2>2. data' = (done + 1) % Wrap
      BY <1>6, <2>1 DEF Perform
    <2>3. QED
      BY <1>6, <2>1, <2>2 DEF Perform
  <1>7. CASE UNCHANGED spinVars
    BY <1>7 DEF spinVars
  <1>8. QED
    BY <1>1, <1>2, <1>3, <1>4, <1>5, <1>6, <1>7 DEF SpinNext, SpinStep

THEOREM SpinInvariance == SpinSpec => []SpinIInv
  <1>1. SpinIInv /\ [SpinNext]_spinVars => SpinIInv'
    BY StepSpinTypeOK, StepSpinLockInv, StepSpinMemoryInv DEF SpinIInv
  <1>2. QED
    BY InitSpinIInv, <1>1, PTL DEF SpinSpec

(* The lock word is 0 or 1, whatever the harts do. *)
THEOREM SpinTypeCorrect == SpinSpec => []SpinTypeOK
  <1>1. SpinIInv => SpinTypeOK
    BY DEF SpinIInv
  <1>2. QED
    BY SpinInvariance, <1>1, PTL

(* arch_spin_lock lets one hart in at a time. *)
THEOREM SpinExclusion == SpinSpec => []OneInside
  <1>1. SpinIInv => OneInside
    BY DEF SpinIInv, SpinLockInv
  <1>2. QED
    BY SpinInvariance, <1>1, PTL

(* Each holder reads memory as the previous one left it. *)
THEOREM MemoryHandOver == SpinSpec => []HandOver
  <1>1. SpinIInv => HandOver
    BY DEF SpinIInv, SpinMemoryInv, HandOver
  <1>2. QED
    BY SpinInvariance, <1>1, PTL

-----------------------------------------------------------------------------
(* The atomic operations. *)

(* A word has 2^Bits values, half of them negative. *)
LEMMA WordSize ==
  ASSUME type \in Types
  PROVE  /\ Bits[type] \in Nat \ {0}
         /\ Mod \in Nat \ {0} /\ Mod \div 2 \in Nat \ {0} /\ Mod = 2 * (Mod \div 2)
         /\ Mod \div 2 = Pow2[Bits[type] - 1]
         /\ Half \in Nat \ {0} /\ Half <= Mod \div 2
         /\ \E k \in Nat \ {0} : Mod = Half * k
  <1> DEFINE n == Bits[type]
             m == n \div 2
  <1>1. n \in Nat \ {0} BY CallsAssumption
  <1> HIDE DEF n
  <1>2. m \in Nat /\ m \in 0 .. n - 1 /\ n - 1 \in Nat BY <1>1
  <1> HIDE DEF m
  <1>3. /\ Pow2[n - 1] \in Nat \ {0} /\ Pow2[n] = 2 * Pow2[n - 1] /\ Pow2[n] \div 2 = Pow2[n - 1]
    BY <1>1, HalfPower
  <1>4. Pow2[n] \in Nat \ {0} /\ Pow2[m] \in Nat \ {0} BY <1>1, <1>2, Powers
  <1>5. Pow2[m] <= Pow2[n - 1] BY <1>1, <1>2, PowersGrow
  <1>6. PICK k \in Nat \ {0} : Pow2[n] = Pow2[m] * (2 * k) BY <1>1, <1>2, PowerDivides
  <1>7. Mod = Pow2[n] /\ Half = Pow2[m] BY DEF Mod, Half, n, m
  <1>8. 2 * k \in Nat \ {0} OBVIOUS
  <1> QED BY <1>1, <1>3, <1>4, <1>5, <1>6, <1>7, <1>8 DEF n

(* What the abstract variable calls the same number, bits and words. *)
LEMMA AbstractTerms ==
  ASSUME type \in Types
  PROVE  /\ \A v, w : Atomic!Same(v, w) <=> Congruent(v, w, Mod)
         /\ \A v : Atomic!BitsOf(v) = Ones(v)
         /\ Atomic!Words = -(Mod \div 2) .. (Mod \div 2) - 1
  <1>1. Atomic!Pow2 = Pow2 BY DEF Atomic!Pow2, Pow2
  <1>2. \A v : Atomic!BitsOf(v) = Ones(v) BY <1>1 DEF Atomic!BitsOf, Ones, Atomic!BitSet, BitSet
  <1>3. \A v, w : Atomic!Same(v, w) <=> Congruent(v, w, Mod) BY <1>1 DEF Atomic!Same, Mod, Congruent
  <1>4. Atomic!Words = -(Mod \div 2) .. (Mod \div 2) - 1
    BY <1>1, WordSize DEF Atomic!Words
  <1> QED BY <1>2, <1>3, <1>4

(* What the functions of a call's type do. *)
ArithNames == {"read", "set", "add", "sub", "add_return", "sub_return", "inc", "dec", "inc_return",
               "dec_return"}
TestNames == {"sub_and_test", "inc_and_test", "dec_and_test", "add_negative", "xchg"}
LogicNames == {"and", "or", "xor"}
BitopNames == {"test_and_set_bit", "set_bit", "test_and_clear_bit", "clear_bit", "test_and_change_bit",
               "change_bit"}

(* The one table that has a name gives its instruction. *)
LEMMA Tabled ==
  /\ DOMAIN arith = ArithNames /\ DOMAIN tests = TestNames
  /\ DOMAIN logic = LogicNames /\ DOMAIN bitops = BitopNames
  <1>1. DOMAIN arith = ArithNames BY DEF arith, ArithNames
  <1>2. DOMAIN tests = TestNames BY DEF tests, TestNames
  <1>3. DOMAIN logic = LogicNames BY DEF logic, LogicNames
  <1>4. DOMAIN bitops = BitopNames BY DEF bitops, BitopNames
  <1> QED BY <1>1, <1>2, <1>3, <1>4

(* atomic.h and atomic64.h have a table each of what is added, tested and  *)
(* combined.                                                               *)
LEMMA AtomicTables ==
  ASSUME NEW c, c.type \in {"atomic", "atomic64"}
  PROVE  /\ IsAmo(c) <=> c.name \in ArithNames \cup TestNames \cup LogicNames
         /\ c.name \in ArithNames => Insn(c) = arith[c.name]
         /\ c.name \in TestNames => Insn(c) = tests[c.name]
         /\ c.name \in LogicNames => Insn(c) = logic[c.name]
  <1> DEFINE F == Functions(c.type)
             T == Tables(c)
  <1>1. F = <<arith, tests, logic>>
    BY DEF Functions, atomic64_arith, atomic64_tests, atomic64_logic
  <1>2. DOMAIN F = {1, 2, 3} /\ F[1] = arith /\ F[2] = tests /\ F[3] = logic BY <1>1
  <1>3. T = {k \in DOMAIN F : c.name \in DOMAIN F[k]} BY DEF Tables
  <1>4. IsAmo(c) <=> T # {} BY DEF IsAmo
  <1>5. Insn(c) = F[CHOOSE k \in T : TRUE][c.name] BY DEF Insn
  <1> HIDE DEF F, T
  <1>6. /\ 1 \in T <=> c.name \in ArithNames
        /\ 2 \in T <=> c.name \in TestNames
        /\ 3 \in T <=> c.name \in LogicNames
        /\ T \subseteq {1, 2, 3}
    BY <1>2, <1>3, Tabled
  <1>7. c.name \in ArithNames => T = {1} BY <1>6 DEF ArithNames, TestNames, LogicNames
  <1>8. c.name \in TestNames => T = {2} BY <1>6 DEF ArithNames, TestNames, LogicNames
  <1>9. c.name \in LogicNames => T = {3} BY <1>6 DEF ArithNames, TestNames, LogicNames
  <1>10. T # {} => (CHOOSE k \in T : TRUE) \in T OBVIOUS
  <1>11. IsAmo(c) <=> c.name \in ArithNames \cup TestNames \cup LogicNames
    BY <1>4, <1>6
  <1>12. c.name \in ArithNames => Insn(c) = arith[c.name] BY <1>2, <1>5, <1>7, <1>10
  <1>13. c.name \in TestNames => Insn(c) = tests[c.name] BY <1>2, <1>5, <1>8, <1>10
  <1>14. c.name \in LogicNames => Insn(c) = logic[c.name] BY <1>2, <1>5, <1>9, <1>10
  <1> QED BY <1>11, <1>12, <1>13, <1>14

(* bitops.h: the functions that are one instruction. *)
LEMMA BitopTables ==
  ASSUME NEW c, c.type = "bitops"
  PROVE  /\ IsAmo(c) <=> c.name \in BitopNames
         /\ c.name \in BitopNames => Insn(c) = bitops[c.name]
  <1> DEFINE F == Functions(c.type)
             T == Tables(c)
  <1>1. F = <<bitops>> BY DEF Functions
  <1>2. DOMAIN F = {1} /\ F[1] = bitops BY <1>1
  <1>3. T = {k \in DOMAIN F : c.name \in DOMAIN F[k]} BY DEF Tables
  <1>4. IsAmo(c) <=> T # {} BY DEF IsAmo
  <1>5. Insn(c) = F[CHOOSE k \in T : TRUE][c.name] BY DEF Insn
  <1> HIDE DEF F, T
  <1>6. (1 \in T <=> c.name \in BitopNames) /\ T \subseteq {1} BY <1>2, <1>3, Tabled
  <1>7. T # {} => (CHOOSE k \in T : TRUE) \in T OBVIOUS
  <1>8. c.name \in BitopNames => T = {1} BY <1>6
  <1>9. IsAmo(c) <=> c.name \in BitopNames BY <1>4, <1>6
  <1>10. c.name \in BitopNames => Insn(c) = bitops[c.name] BY <1>2, <1>5, <1>7, <1>8
  <1> QED BY <1>9, <1>10

(* A program on a hart without amo has none of them. *)
LEMMA EmulatedTables ==
  ASSUME NEW c, c.type = "sysriscv"
  PROVE  ~IsAmo(c)
  <1>1. Functions(c.type) = <<>> BY DEF Functions
  <1>2. DOMAIN Functions(c.type) = {} BY <1>1
  <1> QED BY <1>2 DEF IsAmo, Tables

(* The number that a word stands for. *)
LEMMA SignedWord ==
  ASSUME type \in Types, NEW v \in Words
  PROVE  /\ v \in Int /\ Signed(v) \in Int /\ Signed(v) \in Atomic!Words
         /\ Congruent(Signed(v), v, Mod)
         /\ Signed(v) = v \/ Signed(v) = v - Mod
         /\ v < Mod \div 2 => Signed(v) = v
         /\ v >= Mod \div 2 => Signed(v) = v - Mod
         /\ Atomic!BitsOf(Signed(v)) = Ones(v)
  <1> DEFINE m == Mod
             h == m \div 2
             n == Bits[type]
  <1>1. /\ m \in Nat \ {0} /\ h \in Nat \ {0} /\ m = 2 * h /\ n \in Nat \ {0} /\ m = Pow2[n]
        /\ Mod = m
    BY WordSize DEF Mod
  <1>2. Atomic!Words = -h .. h - 1 BY AbstractTerms
  <1>3. Signed(v) = IF v < h THEN v ELSE v - m BY DEF Signed
  <1>4. v \in 0 .. m - 1 BY DEF Words
  <1>5. Atomic!BitsOf(Signed(v)) = Ones(Signed(v)) BY AbstractTerms
  <1> DEFINE z == Signed(v)
  <1> HIDE DEF m, h, n
  <1>6. CASE v < h
    <2>1. z = v BY <1>3, <1>6
    <2>2. z \in -h .. h - 1 /\ z \in Int BY <1>1, <1>4, <1>6, <2>1
    <2> HIDE DEF z
    <2>3. Congruent(z, v, m) BY <1>1, <1>4, <2>1, CongruentSelf
    <2>4. ~(v >= h) BY <1>1, <1>4, <1>6
    <2> QED BY <1>1, <1>2, <1>4, <1>5, <1>6, <2>1, <2>2, <2>3, <2>4 DEF z, h, m
  <1>7. CASE ~(v < h)
    <2>1. z = v - m BY <1>3, <1>7
    <2>2. z \in -h .. h - 1 /\ z \in Int BY <1>1, <1>4, <1>7, <2>1
    <2> HIDE DEF z
    <2>3. Congruent(z, v, m)
      <3>1. v \in Int BY <1>4
      <3>2. Congruent(v - m, v, m) BY <1>1, <3>1, CongruentSelf
      <3> QED BY <2>1, <3>2
    <2>4. Ones(z) = Ones(v)
      <3>1. BitSet(v - Pow2[n], n) = BitSet(v, n) BY <1>1, <1>4, SignKeepsBits
      <3>2. z = v - Pow2[n] BY <1>1, <2>1
      <3> QED BY <3>1, <3>2 DEF Ones, n
    <2> QED BY <1>1, <1>2, <1>4, <1>5, <1>7, <2>1, <2>2, <2>3, <2>4 DEF z, h, m
  <1> QED BY <1>6, <1>7

(* A word and the number it stands for. *)
LEMMA SameWord ==
  ASSUME type \in Types, NEW u \in Words, NEW v \in Words
  PROVE  Congruent(Signed(u), v, Mod) <=> u = v
  <1>1. /\ u \in Int /\ v \in Int /\ Signed(u) \in Int /\ Mod \in Nat \ {0}
        /\ Congruent(Signed(u), u, Mod)
    BY SignedWord, WordSize
  <1>2. u \in 0 .. Mod - 1 /\ v \in 0 .. Mod - 1 BY DEF Words
  <1> DEFINE z == Signed(u)
             m == Mod
  <1>3. u \in 0 .. m - 1 /\ v \in 0 .. m - 1 /\ z \in Int /\ m \in Nat \ {0} /\ Congruent(z, u, m)
    BY <1>1, <1>2
  <1> HIDE DEF z, m
  <1>4. ASSUME Congruent(z, v, m) PROVE u = v
    <2>1. Congruent(u, z, m) BY <1>3, CongruentSym
    <2>2. Congruent(u, v, m) BY <1>3, <1>4, <2>1, CongruentTrans
    <2>3. u - v < m /\ v - u < m /\ u \in Int /\ v \in Int /\ m \in Nat \ {0} BY <1>3
    <2> HIDE <1>3
    <2> QED BY <2>2, <2>3, CongruentEqual
  <1> QED BY <1>3, <1>4 DEF z, m

(* sub_and_test and its like test the word for zero. *)
LEMMA ZeroWord ==
  ASSUME type \in Types, NEW u \in Words
  PROVE  Signed(u) = 0 <=> u = 0
  <1> DEFINE m == Mod
  <1>1. u \in 0 .. m - 1 /\ m \in Nat \ {0} BY WordSize DEF Words
  <1>2. Signed(u) = u \/ Signed(u) = u - m BY SignedWord
  <1>3. u < m \div 2 => Signed(u) = u BY SignedWord
  <1>4. m \div 2 \in Nat \ {0} BY WordSize
  <1> HIDE DEF m
  <1> QED BY <1>1, <1>2, <1>3, <1>4

(* amoadd: the new word is the old one plus what the operand is congruent  *)
(* to.                                                                     *)
LEMMA Added ==
  ASSUME type \in Types, word \in Words, NEW a \in Int, NEW d \in Int, Congruent(a, d, Mod)
  PROVE  /\ (word + a) % Mod \in Words
         /\ Congruent(Signed((word + a) % Mod), Signed(word) + d, Mod)
  <1> DEFINE m == Mod
             s == (word + a) % m
             z == Signed(s)
             x == Signed(word)
  <1>1. m \in Nat \ {0} /\ word \in Int /\ x \in Int /\ Congruent(x, word, m)
    BY WordSize, SignedWord
  <1>2. word + a \in Int BY <1>1
  <1>3. s \in 0 .. m - 1 /\ Congruent(s, word + a, m) BY <1>1, <1>2, CongruentMod
  <1>4. s \in Words BY <1>3 DEF Words
  <1>5. z \in Int /\ s \in Int /\ Congruent(z, s, m) BY <1>4, SignedWord
  <1>6. Congruent(word, x, m) BY <1>1, CongruentSym
  <1>7. Congruent(a, d, m) OBVIOUS
  <1> HIDE DEF m, s, z, x
  <1>8. Congruent(word + a, x + d, m) BY <1>1, <1>6, <1>7, CongruentSum
  <1>9. x + d \in Int BY <1>1
  <1>10. Congruent(s, x + d, m) BY <1>1, <1>2, <1>3, <1>5, <1>8, <1>9, CongruentTrans
  <1>11. Congruent(z, x + d, m) BY <1>1, <1>5, <1>9, <1>10, CongruentTrans
  <1> QED BY <1>4, <1>11 DEF m, s, z, x

(* neg: minus v. *)
LEMMA Negated ==
  ASSUME type \in Types, NEW v \in Words
  PROVE  Minus(v) \in Words /\ Congruent(Minus(v), -v, Mod)
  <1> DEFINE m == Mod
  <1>1. m \in Nat \ {0} /\ v \in 0 .. m - 1 BY WordSize DEF Words
  <1>2. Minus(v) = (m - v) % m BY DEF Minus
  <1> HIDE DEF m
  <1> DEFINE s == (m - v) % m
  <1>3. m - v \in Int /\ -v \in Int /\ v \in Int BY <1>1
  <1>4. s \in 0 .. m - 1 /\ Congruent(s, m - v, m) BY <1>1, <1>3, CongruentMod
  <1>5. Congruent(m - v, -v, m)
    <2>1. Congruent((-v) + m, -v, m) BY <1>1, <1>3, CongruentSelf
    <2>2. (-v) + m = m - v BY <1>1, <1>3
    <2> QED BY <2>1, <2>2
  <1> HIDE DEF s
  <1>6. s \in Int BY <1>1, <1>4
  <1>7. Congruent(s, -v, m) BY <1>1, <1>3, <1>4, <1>5, <1>6, CongruentTrans
  <1> QED BY <1>2, <1>4, <1>7 DEF m, s, Words

(* A word has at least one bit. *)
LEMMA OneIsWord ==
  ASSUME type \in Types
  PROVE  1 \in Words /\ 0 \in Words
  BY WordSize DEF Words

(* A call of a function of the variable's type. *)
Called(c) == type \in Types /\ word \in Words /\ c \in Calls /\ c.type = type

(* The arguments of a call. *)
LEMMA CalledFacts ==
  ASSUME NEW c, Called(c)
  PROVE  /\ type \in Types /\ word \in Words /\ c.type = type
         /\ IsAmo(c) \/ c.name \in Loops(c.type)
         /\ c.i \in Words /\ c.u \in Words
         /\ type = "bitops" => c.i \in 0 .. Bits[type] - 1
         /\ c = [type |-> c.type, name |-> c.name, i |-> c.i, u |-> c.u]
  <1>1. type \in Types /\ word \in Words /\ c.type = type BY DEF Called
  <1>2. /\ IsAmo(c) \/ c.name \in Loops(c.type)
        /\ {c.i, c.u} \subseteq 0 .. Pow2[Bits[c.type]] - 1
        /\ c.type = "bitops" => c.i < Bits["bitops"]
        /\ c = [type |-> c.type, name |-> c.name, i |-> c.i, u |-> c.u]
    BY CallsAssumption DEF Called
  <1>3. {c.i, c.u} \subseteq Words BY <1>1, <1>2 DEF Words, Mod
  <1>4. c.i \in Words /\ c.u \in Words BY <1>3
  <1>5. c.i \in Int /\ c.i >= 0 BY <1>1, <1>4, WordSize DEF Words
  <1>6. Bits[type] \in Nat BY <1>1, WordSize
  <1>7. type = "bitops" => c.i \in 0 .. Bits[type] - 1 BY <1>1, <1>2, <1>5, <1>6
  <1> QED BY <1>1, <1>2, <1>4, <1>7

(* The functions that add. *)
Adders == {"add", "add_return", "add_negative", "sub", "sub_return", "sub_and_test",
           "inc", "inc_return", "inc_and_test", "dec", "dec_return", "dec_and_test"}

(* Each is an amoadd; its operand and its result. *)
LEMMA AdderInsn ==
  ASSUME NEW c, c.type \in {"atomic", "atomic64"}, c.name \in Adders
  PROVE  /\ IsAmo(c) /\ Insn(c).insn = "add"
         /\ Insn(c).operand = CASE c.name \in {"add", "add_return", "add_negative"} -> "i"
                                [] c.name \in {"sub", "sub_return", "sub_and_test"} -> "-i"
                                [] c.name \in {"inc", "inc_return", "inc_and_test"} -> "1"
                                [] c.name \in {"dec", "dec_return", "dec_and_test"} -> "-1"
         /\ Insn(c).ret = CASE c.name \in {"add", "sub", "inc", "dec"} -> "void"
                            [] c.name \in {"add_return", "sub_return", "inc_return", "dec_return"} -> "new"
                            [] c.name \in {"sub_and_test", "inc_and_test", "dec_and_test"} -> "zero"
                            [] c.name = "add_negative" -> "negative"
  <1>1. CASE c.name \in ArithNames
    <2>1. IsAmo(c) /\ Insn(c) = arith[c.name] BY <1>1, AtomicTables
    <2>2. c.name \in {"add", "add_return", "sub", "sub_return", "inc", "inc_return", "dec", "dec_return"}
      BY <1>1 DEF ArithNames, Adders
    <2> QED BY <2>1, <2>2 DEF arith, Amo
  <1>2. CASE c.name \in TestNames
    <2>1. IsAmo(c) /\ Insn(c) = tests[c.name] BY <1>2, AtomicTables
    <2>2. c.name \in {"add_negative", "sub_and_test", "inc_and_test", "dec_and_test"}
      BY <1>2 DEF TestNames, Adders
    <2> QED BY <2>1, <2>2 DEF tests, Amo
  <1> QED BY <1>1, <1>2 DEF Adders, ArithNames, TestNames

(* The operand is the amount that the name says, or congruent to it. *)
LEMMA AdderOperand ==
  ASSUME NEW c, Called(c), c.type \in {"atomic", "atomic64"}, c.name \in Adders
  PROVE  /\ Operand(c) \in Int /\ Atomic!Amount(c) \in Int
         /\ Congruent(Operand(c), Atomic!Amount(c), Mod)
  <1>1. /\ type \in Types /\ c.i \in Words /\ c.i \in Int /\ 1 \in Words
        /\ Minus(c.i) \in Int /\ Minus(1) \in Int /\ Mod \in Nat \ {0}
    <2>1. type \in Types /\ c.i \in Words BY CalledFacts
    <2>2. 1 \in Words /\ Mod \in Nat \ {0} BY <2>1, OneIsWord, WordSize
    <2>3. Minus(c.i) \in Words /\ Minus(1) \in Words BY <2>1, <2>2, Negated
    <2> QED BY <2>1, <2>2, <2>3 DEF Words
  <1>2. CASE c.name \in {"add", "add_return", "add_negative"}
    <2>1. Operand(c) = c.i BY <1>2, AdderInsn DEF Operand
    <2>2. Atomic!Amount(c) = c.i BY <1>2 DEF Atomic!Amount
    <2> QED BY <1>1, <2>1, <2>2, CongruentSelf
  <1>3. CASE c.name \in {"sub", "sub_return", "sub_and_test"}
    <2>1. Operand(c) = Minus(c.i) BY <1>3, AdderInsn DEF Operand
    <2>2. Atomic!Amount(c) = -c.i BY <1>3 DEF Atomic!Amount
    <2>3. Congruent(Minus(c.i), -c.i, Mod) BY <1>1, Negated
    <2> QED BY <1>1, <2>1, <2>2, <2>3
  <1>4. CASE c.name \in {"inc", "inc_return", "inc_and_test"}
    <2>1. Operand(c) = 1 BY <1>4, AdderInsn DEF Operand
    <2>2. Atomic!Amount(c) = 1 BY <1>4 DEF Atomic!Amount
    <2> QED BY <1>1, <2>1, <2>2, CongruentSelf
  <1>5. CASE c.name \in {"dec", "dec_return", "dec_and_test"}
    <2>1. Operand(c) = Minus(1) BY <1>5, AdderInsn DEF Operand
    <2>2. Atomic!Amount(c) = -1 BY <1>5 DEF Atomic!Amount
    <2>3. Congruent(Minus(1), -1, Mod) BY <1>1, Negated
    <2> QED BY <1>1, <2>1, <2>2, <2>3
  <1> QED BY <1>2, <1>3, <1>4, <1>5 DEF Adders

(* What the operation promises: it becomes v and returns r. *)
Effect(c, v, r) == v \in Words /\ Atomic!Becomes(c, Signed(v)) /\ Atomic!Returns(c, Signed(v), r)

(* The functions that add keep their promise, modulo the width of a word. *)
LEMMA AdderCorrect ==
  ASSUME NEW c, Called(c), c.type \in {"atomic", "atomic64"}, c.name \in Adders
  PROVE  Effect(c, Stored(c), Result(c))
  <1> DEFINE s == (word + Operand(c)) % Mod
  <1>1. Operand(c) \in Int /\ Atomic!Amount(c) \in Int /\ Congruent(Operand(c), Atomic!Amount(c), Mod)
    BY AdderOperand
  <1>2. type \in Types /\ word \in Words BY CalledFacts
  <1>3. s \in Words /\ Congruent(Signed(s), Signed(word) + Atomic!Amount(c), Mod)
    BY <1>1, <1>2, Added
  <1>4. Stored(c) = s BY AdderInsn DEF Stored
  <1>5. Atomic!Same(Signed(s), Signed(word) + Atomic!Amount(c)) BY <1>2, <1>3, AbstractTerms
  <1>6. Signed(s) = 0 <=> s = 0 BY <1>2, <1>3, ZeroWord
  <1>7. Result(c) = CASE Insn(c).ret = "void" -> "void"     [] Insn(c).ret = "old" -> Signed(word)
                      [] Insn(c).ret = "new" -> Signed(s)   [] Insn(c).ret = "zero" -> s = 0
                      [] Insn(c).ret = "negative" -> Signed(s) < 0
                      [] Insn(c).ret = "bit" -> WordOf(Ones(word) \cap Ones(BIT_MASK(c.i))) # 0
    BY DEF Result
  <1> HIDE DEF s
  <1>8. Atomic!Becomes(c, Signed(s)) BY <1>5 DEF Atomic!Becomes, Adders
  <1>9. Atomic!Returns(c, Signed(s), Result(c))
    <2>1. CASE c.name \in {"add", "sub", "inc", "dec"}
      <3>1. Insn(c).ret = "void" BY <2>1, AdderInsn
      <3>2. Result(c) = "void" BY <1>7, <3>1
      <3> QED BY <2>1, <3>2 DEF Atomic!Returns
    <2>2. CASE c.name \in {"add_return", "sub_return", "inc_return", "dec_return"}
      <3>1. Insn(c).ret = "new" BY <2>2, AdderInsn
      <3>2. Result(c) = Signed(s) BY <1>7, <3>1
      <3> QED BY <2>2, <3>2 DEF Atomic!Returns
    <2>3. CASE c.name \in {"sub_and_test", "inc_and_test", "dec_and_test"}
      <3>1. Insn(c).ret = "zero" BY <2>3, AdderInsn
      <3>2. Result(c) = (s = 0) BY <1>7, <3>1
      <3>3. Atomic!Returns(c, Signed(s), Result(c)) <=> Result(c) = (Signed(s) = 0)
        BY <2>3 DEF Atomic!Returns
      <3> QED BY <1>6, <3>2, <3>3
    <2>4. CASE c.name = "add_negative"
      <3>1. Insn(c).ret = "negative" BY <2>4, AdderInsn
      <3>2. Result(c) = (Signed(s) < 0) BY <1>7, <3>1
      <3>3. Atomic!Returns(c, Signed(s), Result(c)) <=> Result(c) = (Signed(s) < 0)
        BY <2>4 DEF Atomic!Returns
      <3> QED BY <3>2, <3>3
    <2> QED BY <2>1, <2>2, <2>3, <2>4 DEF Adders
  <1> QED BY <1>3, <1>4, <1>8, <1>9 DEF Effect

(* read and, below, set and xchg. *)
LEMMA ReadCorrect ==
  ASSUME NEW c, Called(c), c.type \in {"atomic", "atomic64"}, c.name = "read"
  PROVE  Insn(c).insn = "load" /\ IsAmo(c) /\ Effect(c, word, Result(c))
  <1>1. c.name \in ArithNames BY DEF ArithNames
  <1>2. IsAmo(c) /\ Insn(c) = Amo("load", "i", "old") BY <1>1, AtomicTables DEF arith
  <1>3. Result(c) = Signed(word) BY <1>2 DEF Result, Amo
  <1>4. Atomic!Becomes(c, Signed(word)) BY DEF Atomic!Becomes
  <1>5. Atomic!Returns(c, Signed(word), Result(c)) BY <1>3 DEF Atomic!Returns
  <1>6. word \in Words BY CalledFacts
  <1> QED BY <1>2, <1>4, <1>5, <1>6 DEF Effect, Amo

LEMMA SwapCorrect ==
  ASSUME NEW c, Called(c), c.type \in {"atomic", "atomic64"}, c.name \in {"set", "xchg"}
  PROVE  IsAmo(c) /\ Insn(c).insn = "swap" /\ Effect(c, Stored(c), Result(c))
  <1>1. c.name = "set" => c.name \in ArithNames BY DEF ArithNames
  <1>2. c.name = "xchg" => c.name \in TestNames BY DEF TestNames
  <1>3. c.name = "set" => IsAmo(c) /\ Insn(c) = Amo("swap", "i", "void") BY <1>1, AtomicTables DEF arith
  <1>4. c.name = "xchg" => IsAmo(c) /\ Insn(c) = Amo("swap", "i", "old") BY <1>2, AtomicTables DEF tests
  <1>5. /\ IsAmo(c) /\ Insn(c).insn = "swap" /\ Insn(c).operand = "i"
        /\ Insn(c).ret = IF c.name = "set" THEN "void" ELSE "old"
    BY <1>3, <1>4 DEF Amo
  <1>6. Stored(c) = c.i BY <1>5 DEF Stored, Operand
  <1>7. Result(c) = IF c.name = "set" THEN "void" ELSE Signed(word) BY <1>5 DEF Result
  <1>8. type \in Types /\ c.i \in Words BY CalledFacts
  <1>9. Atomic!Same(Signed(c.i), c.i) BY <1>8, AbstractTerms, SignedWord
  <1>10. Atomic!Becomes(c, Signed(c.i)) BY <1>9 DEF Atomic!Becomes
  <1>11. Atomic!Returns(c, Signed(c.i), Result(c)) BY <1>7 DEF Atomic!Returns
  <1> QED BY <1>5, <1>6, <1>8, <1>10, <1>11 DEF Effect

(* The words with given bits. *)
LEMMA WordOfBits ==
  ASSUME type \in Types, NEW ones, ones \subseteq 0 .. Bits[type] - 1
  PROVE  WordOf(ones) \in Words /\ Ones(WordOf(ones)) = ones /\ Atomic!BitsOf(Signed(WordOf(ones))) = ones
  <1> DEFINE n == Bits[type]
  <1>1. n \in Nat BY WordSize
  <1>2. ones \subseteq 0 .. n - 1 OBVIOUS
  <1> HIDE DEF n
  <1>3. \E v \in 0 .. Pow2[n] - 1 : BitSet(v, n) = ones BY <1>1, <1>2, BitsExist
  <1>4. \E v \in Words : Ones(v) = ones BY <1>3 DEF Words, Mod, Ones, n
  <1>5. WordOf(ones) \in Words /\ Ones(WordOf(ones)) = ones BY <1>4 DEF WordOf
  <1> QED BY <1>5, SignedWord

(* A word has no bits beyond its width. *)
LEMMA OnesInWord == \A v : Ones(v) \subseteq 0 .. Bits[type] - 1
  BY DEF Ones, BitSet

(* and, or and xor. *)
LEMMA LogicCorrect ==
  ASSUME NEW c, Called(c), c.type \in {"atomic", "atomic64"}, c.name \in LogicNames
  PROVE  IsAmo(c) /\ Insn(c).insn \in {"and", "or", "xor"} /\ Effect(c, Stored(c), Result(c))
  <1> DEFINE A == Ones(word)
             B == Ones(c.i)
  <1>1. IsAmo(c) /\ Insn(c) = Amo(c.name, "i", "void")
    BY AtomicTables DEF logic, LogicNames
  <1>2. Operand(c) = c.i /\ Result(c) = "void" BY <1>1 DEF Operand, Result, Amo
  <1>3. /\ type \in Types /\ word \in Words /\ c.i \in Words BY CalledFacts
  <1>4. /\ Atomic!BitsOf(Signed(word)) = A /\ Atomic!BitsOf(c.i) = B
        /\ A \subseteq 0 .. Bits[type] - 1 /\ B \subseteq 0 .. Bits[type] - 1
    BY <1>3, SignedWord, AbstractTerms, OnesInWord
  <1>5. /\ c.name = "and" => Stored(c) = WordOf(A \cap B)
        /\ c.name = "or" => Stored(c) = WordOf(A \cup B)
        /\ c.name = "xor" => Stored(c) = WordOf((A \ B) \cup (B \ A))
    BY <1>1, <1>2 DEF Stored, Amo
  <1> HIDE DEF A, B
  <1>6. CASE c.name = "and"
    <2>1. A \cap B \subseteq 0 .. Bits[type] - 1 BY <1>4
    <2>2. Stored(c) \in Words /\ Atomic!BitsOf(Signed(Stored(c))) = A \cap B
      BY <1>3, <1>5, <1>6, <2>1, WordOfBits
    <2>3. Atomic!Becomes(c, Signed(Stored(c))) BY <1>4, <1>6, <2>2 DEF Atomic!Becomes
    <2>4. Atomic!Returns(c, Signed(Stored(c)), Result(c)) BY <1>2, <1>6 DEF Atomic!Returns
    <2> QED BY <1>1, <1>6, <2>2, <2>3, <2>4 DEF Effect, Amo
  <1>7. CASE c.name = "or"
    <2>1. A \cup B \subseteq 0 .. Bits[type] - 1 BY <1>4
    <2>2. Stored(c) \in Words /\ Atomic!BitsOf(Signed(Stored(c))) = A \cup B
      BY <1>3, <1>5, <1>7, <2>1, WordOfBits
    <2>3. Atomic!Becomes(c, Signed(Stored(c))) BY <1>4, <1>7, <2>2 DEF Atomic!Becomes
    <2>4. Atomic!Returns(c, Signed(Stored(c)), Result(c)) BY <1>2, <1>7 DEF Atomic!Returns
    <2> QED BY <1>1, <1>7, <2>2, <2>3, <2>4 DEF Effect, Amo
  <1>8. CASE c.name = "xor"
    <2>1. (A \ B) \cup (B \ A) \subseteq 0 .. Bits[type] - 1 BY <1>4
    <2>2. Stored(c) \in Words /\ Atomic!BitsOf(Signed(Stored(c))) = (A \ B) \cup (B \ A)
      BY <1>3, <1>5, <1>8, <2>1, WordOfBits
    <2>3. \A b \in 0 .. Bits[type] - 1 :
            b \in Atomic!BitsOf(Signed(Stored(c))) <=>
              (b \in Atomic!BitsOf(Signed(word))) # (b \in Atomic!BitsOf(c.i))
      BY <1>4, <2>2
    <2>4. Atomic!Becomes(c, Signed(Stored(c))) BY <1>8, <2>3 DEF Atomic!Becomes
    <2>5. Atomic!Returns(c, Signed(Stored(c)), Result(c)) BY <1>2, <1>8 DEF Atomic!Returns
    <2> QED BY <1>1, <1>8, <2>2, <2>4, <2>5 DEF Effect, Amo
  <1> QED BY <1>6, <1>7, <1>8 DEF LogicNames

(* Which instruction and mask a function of bitops.h is. *)
LEMMA BitopInsn ==
  ASSUME NEW c, c.type = "bitops", c.name \in BitopNames
  PROVE  /\ IsAmo(c)
         /\ c.name \in {"set_bit", "test_and_set_bit"} => Insn(c).insn = "or" /\ Insn(c).operand = "mask"
         /\ c.name \in {"clear_bit", "test_and_clear_bit"} => Insn(c).insn = "and" /\ Insn(c).operand = "~mask"
         /\ c.name \in {"change_bit", "test_and_change_bit"} => Insn(c).insn = "xor" /\ Insn(c).operand = "mask"
         /\ c.name \in {"set_bit", "clear_bit", "change_bit"} => Insn(c).ret = "void"
         /\ c.name \in {"test_and_set_bit", "test_and_clear_bit", "test_and_change_bit"} => Insn(c).ret = "bit"
  BY BitopTables DEF bitops, BitopNames, Amo

(* They set, clear or change the one bit, and return what it was. *)
LEMMA BitopCorrect ==
  ASSUME NEW c, Called(c), c.type = "bitops", c.name \in BitopNames
  PROVE  IsAmo(c) /\ Insn(c).insn \in {"and", "or", "xor"} /\ Effect(c, Stored(c), Result(c))
  <1> DEFINE A == Ones(word)
             n == Bits[type]
             Old == Atomic!BitsOf(Signed(word))
             New == Atomic!BitsOf(Signed(Stored(c)))
  <1>1. /\ type \in Types /\ type = "bitops" /\ word \in Words /\ c.i \in Words
        /\ c.i \in 0 .. n - 1 /\ n \in Nat
    BY CalledFacts, WordSize
  <1>2. Ones(BIT_MASK(c.i)) = {c.i} BY <1>1, OneBit DEF Ones, BIT_MASK
  <1>3. Ones(Mod - 1 - BIT_MASK(c.i)) = (0 .. n - 1) \ {c.i}
    <2>1. Pow2[c.i] \in Int BY <1>1, Powers
    <2>2. BitSet(Pow2[n] - 1 - Pow2[c.i], n) = (0 .. n - 1) \ BitSet(Pow2[c.i], n)
      BY <1>1, <2>1, ComplementBits
    <2> QED BY <1>2, <2>2 DEF Ones, Mod, BIT_MASK
  <1>4. A \subseteq 0 .. n - 1 BY OnesInWord
  <1>5. Old = A BY <1>1, SignedWord
  <1>6. IsAmo(c) BY BitopInsn
  <1>7. ASSUME c.name \in {"set_bit", "test_and_set_bit"}
        PROVE  /\ Insn(c).insn \in {"and", "or", "xor"} /\ Stored(c) \in Words
               /\ Atomic!Becomes(c, Signed(Stored(c)))
    <2>1. Insn(c).insn = "or" /\ Insn(c).operand = "mask" BY <1>7, BitopInsn
    <2>2. Stored(c) = WordOf(A \cup {c.i}) BY <1>2, <2>1 DEF Stored, Operand
    <2>3. A \cup {c.i} \subseteq 0 .. n - 1 BY <1>1, <1>4
    <2> HIDE DEF A
    <2>4. Stored(c) \in Words /\ New = A \cup {c.i} BY <1>1, <2>2, <2>3, WordOfBits
    <2>5. New = Old \cup {c.i} BY <1>5, <2>4
    <2>6. Atomic!Becomes(c, Signed(Stored(c))) BY <1>7, <2>5 DEF Atomic!Becomes
    <2> QED BY <2>1, <2>4, <2>6
  <1>8. ASSUME c.name \in {"clear_bit", "test_and_clear_bit"}
        PROVE  /\ Insn(c).insn \in {"and", "or", "xor"} /\ Stored(c) \in Words
               /\ Atomic!Becomes(c, Signed(Stored(c)))
    <2>1. Insn(c).insn = "and" /\ Insn(c).operand = "~mask" BY <1>8, BitopInsn
    <2>2. Stored(c) = WordOf(A \cap ((0 .. n - 1) \ {c.i})) BY <1>3, <2>1 DEF Stored, Operand
    <2>3. A \cap ((0 .. n - 1) \ {c.i}) = A \ {c.i} BY <1>4
    <2>4. A \ {c.i} \subseteq 0 .. n - 1 BY <1>4
    <2> HIDE DEF A
    <2>5. Stored(c) \in Words /\ New = A \ {c.i} BY <1>1, <2>2, <2>3, <2>4, WordOfBits
    <2>6. New = Old \ {c.i} BY <1>5, <2>5
    <2>7. Atomic!Becomes(c, Signed(Stored(c))) BY <1>8, <2>6 DEF Atomic!Becomes
    <2> QED BY <2>1, <2>5, <2>7
  <1>9. ASSUME c.name \in {"change_bit", "test_and_change_bit"}
        PROVE  /\ Insn(c).insn \in {"and", "or", "xor"} /\ Stored(c) \in Words
               /\ Atomic!Becomes(c, Signed(Stored(c)))
    <2>1. Insn(c).insn = "xor" /\ Insn(c).operand = "mask" BY <1>9, BitopInsn
    <2>2. Stored(c) = WordOf((A \ {c.i}) \cup ({c.i} \ A)) BY <1>2, <2>1 DEF Stored, Operand
    <2>3. (A \ {c.i}) \cup ({c.i} \ A) \subseteq 0 .. n - 1 BY <1>1, <1>4
    <2> HIDE DEF A
    <2>4. Stored(c) \in Words /\ New = (A \ {c.i}) \cup ({c.i} \ A) BY <1>1, <2>2, <2>3, WordOfBits
    <2>5. \A b \in 0 .. n - 1 : b \in New <=> (b \in Old) # (b = c.i) BY <1>5, <2>4
    <2>6. Atomic!Becomes(c, Signed(Stored(c))) BY <1>9, <2>5 DEF Atomic!Becomes
    <2> QED BY <2>1, <2>4, <2>6
  <1>10. Atomic!Returns(c, Signed(Stored(c)), Result(c))
    <2>1. CASE c.name \in {"set_bit", "clear_bit", "change_bit"}
      <3>1. Insn(c).ret = "void" BY <2>1, BitopInsn
      <3>2. Result(c) = "void" BY <3>1 DEF Result
      <3> QED BY <2>1, <3>2 DEF Atomic!Returns
    <2>2. CASE c.name \in {"test_and_set_bit", "test_and_clear_bit", "test_and_change_bit"}
      <3> DEFINE S == A \cap {c.i}
      <3>1. Insn(c).ret = "bit" BY <2>2, BitopInsn
      <3>2. Result(c) = (WordOf(S) # 0) BY <1>2, <3>1 DEF Result
      <3>3. S \subseteq 0 .. n - 1 BY <1>4
      <3>4. WordOf(S) \in Words /\ Ones(WordOf(S)) = S BY <1>1, <3>3, WordOfBits
      <3>5. Ones(WordOf(S)) = {} <=> WordOf(S) = 0
        <4>1. \A v \in 0 .. Pow2[n] - 1 : BitSet(v, n) = {} <=> v = 0 BY <1>1, NoBits
        <4> QED BY <3>4, <4>1 DEF Words, Mod, Ones
      <3>6. S = {} <=> c.i \notin A OBVIOUS
      <3>7. Result(c) = (c.i \in A) BY <3>2, <3>4, <3>5, <3>6
      <3>8. Result(c) = (c.i \in Old) BY <1>5, <3>7
      <3>9. Atomic!Returns(c, Signed(Stored(c)), Result(c)) <=> Result(c) = (c.i \in Old)
        BY <2>2 DEF Atomic!Returns
      <3> QED BY <3>8, <3>9
    <2> QED BY <2>1, <2>2 DEF BitopNames
  <1> QED BY <1>6, <1>7, <1>8, <1>9, <1>10 DEF Effect, BitopNames

(* Every operation that is one instruction is atomic and returns what it   *)
(* promises.                                                               *)
LEMMA AmoCorrect ==
  ASSUME NEW c, Called(c), IsAmo(c)
  PROVE  Effect(c, IF Insn(c).insn = "load" THEN word ELSE Stored(c), Result(c))
  <1>1. c.type \in Types /\ c.type # "sysriscv" BY CalledFacts, EmulatedTables
  <1>2. CASE c.type = "bitops"
    <2>1. c.name \in BitopNames BY <1>2, BitopTables
    <2>2. Insn(c).insn \in {"and", "or", "xor"} /\ Effect(c, Stored(c), Result(c)) BY <1>2, <2>1, BitopCorrect
    <2> QED BY <2>2
  <1>3. CASE c.type \in {"atomic", "atomic64"}
    <2>1. c.name \in ArithNames \cup TestNames \cup LogicNames BY <1>3, AtomicTables
    <2>2. CASE c.name \in Adders
      BY <1>3, <2>2, AdderCorrect, AdderInsn
    <2>3. CASE c.name = "read" BY <1>3, <2>3, ReadCorrect
    <2>4. CASE c.name \in {"set", "xchg"} BY <1>3, <2>4, SwapCorrect
    <2>5. CASE c.name \in LogicNames BY <1>3, <2>5, LogicCorrect
    <2> QED BY <2>1, <2>2, <2>3, <2>4, <2>5 DEF ArithNames, TestNames, Adders
  <1> QED BY <1>1, <1>2, <1>3 DEF Types

(* A call that is a loop, and what its pass over the value v is. *)
Looping(c) == type \in Types /\ c \in Calls /\ c.type = type /\ ~IsAmo(c)

(* Which loops a type has, and their arguments. *)
LEMMA LoopingFacts ==
  ASSUME NEW c, Looping(c)
  PROVE  /\ type \in Types /\ c.type = type /\ c.type # "bitops"
         /\ c.name \in Loops(c.type) /\ c.i \in Words /\ c.u \in Words
         /\ c = [type |-> c.type, name |-> c.name, i |-> c.i, u |-> c.u]
  <1>1. type \in Types /\ c.type = type BY DEF Looping
  <1>2. /\ c.name \in Loops(c.type)
        /\ {c.i, c.u} \subseteq 0 .. Pow2[Bits[c.type]] - 1
        /\ c = [type |-> c.type, name |-> c.name, i |-> c.i, u |-> c.u]
    BY CallsAssumption DEF Looping
  <1>3. {c.i, c.u} \subseteq Words BY <1>1, <1>2 DEF Words, Mod
  <1>4. c.i \in Words /\ c.u \in Words BY <1>3
  <1>5. c.type # "bitops" BY <1>2 DEF Loops
  <1> QED BY <1>1, <1>2, <1>4, <1>5

(* Leaving at v with r, and storing over v, keep the promise.              *)
Promised(c, w, r) ==
  \/ Atomic!Becomes(c, w) /\ (Atomic!Returns(c, w, r) \/ Atomic!AnyResult(c))
  \/ Atomic!Unreliable(c)

LeavesWell(c, tried) ==
  LrSc(c, word, tried).leaves =>
    \A r \in LrSc(c, word, tried).left : Promised(c, Signed(word), r)

StoresWell(c) ==
  LET loop == LrSc(c, word, TRUE) IN
  loop.new \in Words /\ (~loop.leaves => Promised(c, Signed(loop.new), loop.ret))

(* cmpxchg stores where it finds what is expected, and returns what it     *)
(* finds.                                                                  *)
LEMMA CmpxchgCorrect ==
  ASSUME NEW c, NEW tried, Looping(c), word \in Words, c.name = "cmpxchg"
  PROVE  LeavesWell(c, tried) /\ StoresWell(c)
  <1>1. type \in Types /\ c.i \in Words /\ c.u \in Words BY LoopingFacts
  <1>2. LrSc(c, word, tried) = cmpxchg(c, word) /\ LrSc(c, word, TRUE) = cmpxchg(c, word) BY DEF LrSc
  <1>10. cmpxchg(c, word).leaves <=> word # c.i BY DEF cmpxchg, Loop
  <1>11. /\ cmpxchg(c, word).new = c.u /\ cmpxchg(c, word).left = {Signed(word)}
         /\ cmpxchg(c, word).ret = Signed(word)
    BY DEF cmpxchg, Loop
  <1>3. Atomic!Same(Signed(word), c.i) <=> word = c.i BY <1>1, SameWord, AbstractTerms
  <1>4. Atomic!Same(Signed(c.u), c.u) BY <1>1, SameWord, AbstractTerms
  <1>5. \A w : Atomic!Returns(c, w, Signed(word)) BY DEF Atomic!Returns
  <1>6. LeavesWell(c, tried)
    <2>1. SUFFICES ASSUME word # c.i PROVE Promised(c, Signed(word), Signed(word))
      BY <1>2, <1>10, <1>11 DEF LeavesWell
    <2>2. Atomic!Becomes(c, Signed(word)) BY <1>3, <2>1 DEF Atomic!Becomes
    <2> QED BY <1>5, <2>2 DEF Promised
  <1>7. StoresWell(c)
    <2>1. SUFFICES ASSUME word = c.i PROVE Promised(c, Signed(c.u), Signed(word))
      BY <1>1, <1>2, <1>10, <1>11 DEF StoresWell
    <2>2. Atomic!Becomes(c, Signed(c.u)) BY <1>3, <1>4, <2>1 DEF Atomic!Becomes
    <2> QED BY <1>5, <2>2 DEF Promised
  <1> QED BY <1>6, <1>7

(* __atomic_add_unless: adds unless it finds u, and returns what it finds. *)
LEMMA AddUnlessCorrect ==
  ASSUME NEW c, NEW tried, Looping(c), word \in Words, c.type = "atomic", c.name = "add_unless"
  PROVE  LeavesWell(c, tried) /\ StoresWell(c)
  <1> DEFINE s == (word + c.i) % Mod
  <1>1. type \in Types /\ c.i \in Words /\ c.u \in Words /\ c.i \in Int /\ Mod \in Nat \ {0} /\ type = "atomic"
    BY LoopingFacts, WordSize DEF Words
  <1>2. /\ LrSc(c, word, tried) = __atomic_add_unless(c, word)
        /\ LrSc(c, word, TRUE) = __atomic_add_unless(c, word)
    BY DEF LrSc
  <1>3. Atomic!Excluded(c) = c.u /\ Atomic!Amount(c) = c.i BY DEF Atomic!Excluded, Atomic!Amount
  <1>4. Atomic!Same(Signed(word), c.u) <=> word = c.u BY <1>1, SameWord, AbstractTerms
  <1>5. s \in Words /\ Atomic!Same(Signed(s), Signed(word) + c.i)
    BY <1>1, CongruentSelf, Added, AbstractTerms
  <1>6. \A w : Atomic!Returns(c, w, Signed(word)) BY <1>1 DEF Atomic!Returns
  <1>10. __atomic_add_unless(c, word).leaves <=> word = c.u BY DEF __atomic_add_unless, Loop
  <1>11. /\ __atomic_add_unless(c, word).new = s /\ __atomic_add_unless(c, word).left = {Signed(word)}
         /\ __atomic_add_unless(c, word).ret = Signed(word)
    BY DEF __atomic_add_unless, Loop
  <1> HIDE DEF s
  <1>7. LeavesWell(c, tried)
    <2>1. SUFFICES ASSUME word = c.u PROVE Promised(c, Signed(word), Signed(word))
      BY <1>2, <1>10, <1>11 DEF LeavesWell
    <2>2. Atomic!Becomes(c, Signed(word)) BY <1>3, <1>4, <2>1 DEF Atomic!Becomes
    <2> QED BY <1>6, <2>2 DEF Promised
  <1>8. StoresWell(c)
    <2>1. SUFFICES ASSUME word # c.u PROVE Promised(c, Signed(s), Signed(word))
      BY <1>2, <1>5, <1>10, <1>11 DEF StoresWell
    <2>2. Atomic!Becomes(c, Signed(s)) BY <1>3, <1>4, <1>5, <2>1 DEF Atomic!Becomes
    <2> QED BY <1>6, <2>2 DEF Promised
  <1> QED BY <1>7, <1>8

(* atomic64_add_unless and atomic64_inc_not_zero: what is returned when    *)
(* nothing is added is anything.                                           *)
LEMMA AddUnless64Correct ==
  ASSUME NEW c, NEW tried \in BOOLEAN, Looping(c), word \in Words, c.type = "atomic64",
         c.name \in {"add_unless", "inc_not_zero"}
  PROVE  LeavesWell(c, tried) /\ StoresWell(c)
  <1> DEFINE i == IF c.name = "inc_not_zero" THEN 1 ELSE c.i
             u == IF c.name = "inc_not_zero" THEN 0 ELSE c.u
             s == (word + i) % Mod
  <1>1. /\ type \in Types /\ c.i \in Words /\ c.u \in Words /\ 1 \in Words /\ 0 \in Words /\ type = "atomic64"
        /\ c = [type |-> c.type, name |-> c.name, i |-> c.i, u |-> c.u]
    BY LoopingFacts, OneIsWord
  <1>2. i \in Words /\ u \in Words BY <1>1
  <1>3. i \in Int /\ Mod \in Nat \ {0} BY <1>1, <1>2, WordSize DEF Words
  <1>4. Atomic!Excluded(c) = u /\ Atomic!Amount(c) = i BY DEF Atomic!Excluded, Atomic!Amount
  <1>5. PICK d : d.i = i /\ d.u = u /\ \A t : LrSc(c, word, t) = atomic64_add_unless(d, word, t)
    <2>1. CASE c.name = "add_unless"
      <3>1. \A t : LrSc(c, word, t) = atomic64_add_unless(c, word, t) BY <2>1 DEF LrSc
      <3> QED BY <2>1, <3>1
    <2>2. CASE c.name = "inc_not_zero"
      <3> DEFINE e == [c EXCEPT !.i = 1, !.u = 0]
      <3>1. e.i = 1 /\ e.u = 0 BY <1>1
      <3>2. \A t : LrSc(c, word, t) = atomic64_add_unless(e, word, t) BY <2>2 DEF LrSc
      <3> HIDE DEF e
      <3> QED BY <2>2, <3>1, <3>2
    <2> QED BY <2>1, <2>2
  <1> DEFINE L(t) == atomic64_add_unless(d, word, t)
  <1>10. \A t : L(t).leaves <=> word = d.u BY DEF atomic64_add_unless, Loop
  <1>11. \A t : L(t).new = (word + d.i) % Mod BY DEF atomic64_add_unless, Loop
  <1>12. \A t : L(t).ret = TRUE BY DEF atomic64_add_unless, Loop
  <1>13. \A t : (L(t).leaves <=> word = u) /\ L(t).new = s /\ L(t).ret = TRUE
    BY <1>5, <1>10, <1>11, <1>12
  <1>14. \A t : L(t) = LrSc(c, word, t) BY <1>5
  <1> HIDE DEF L
  <1> HIDE DEF i, u
  <1>6. Atomic!Same(Signed(word), u) <=> word = u BY <1>1, <1>2, SameWord, AbstractTerms
  <1>7. s \in Words /\ Atomic!Same(Signed(s), Signed(word) + i)
    BY <1>1, <1>3, CongruentSelf, Added, AbstractTerms
  <1> HIDE DEF s
  <1>8. LeavesWell(c, tried)
    <2>1. SUFFICES ASSUME word = u, NEW r PROVE Promised(c, Signed(word), r)
      BY <1>13, <1>14 DEF LeavesWell
    <2>2. Atomic!Becomes(c, Signed(word)) BY <1>4, <1>6, <2>1 DEF Atomic!Becomes
    <2>3. Atomic!AnyResult(c) BY <1>1, <1>4, <1>6, <2>1 DEF Atomic!AnyResult
    <2> QED BY <2>2, <2>3 DEF Promised
  <1>9. StoresWell(c)
    <2>1. SUFFICES ASSUME word # u PROVE Promised(c, Signed(s), TRUE)
      BY <1>7, <1>13, <1>14 DEF StoresWell
    <2>2. Atomic!Becomes(c, Signed(s)) BY <1>4, <1>6, <1>7, <2>1 DEF Atomic!Becomes
    <2>3. ~Atomic!Same(Signed(word), Atomic!Excluded(c)) BY <1>4, <1>6, <2>1
    <2>4. Atomic!Returns(c, Signed(s), TRUE) BY <1>1, <2>3 DEF Atomic!Returns
    <2> QED BY <2>2, <2>4 DEF Promised
  <1> QED BY <1>8, <1>9

(* sc.w over the low half of a word leaves a word. *)
LEMMA HalfStored ==
  ASSUME NEW h \in Nat \ {0}, NEW k \in Nat \ {0}, NEW v \in 0 .. (h * k) - 1, NEW p \in Int
  PROVE  h * (v \div h) + (p % h) \in 0 .. (h * k) - 1
  <1> DEFINE q == v \div h
             r == v % h
             s == p % h
  <1>1. q \in Int /\ r \in 0 .. h - 1 /\ v = h * q + r /\ v \in Nat
    <2>1. v \in Int OBVIOUS
    <2> QED BY <2>1, DivMod
  <1>2. s \in 0 .. h - 1 BY DivMod
  <1> HIDE DEF q, r, s
  <1>3. h * q \in Int /\ h * k \in Nat BY <1>1
  <1>4. q < k
    <2>1. SUFFICES ASSUME ~(q < k) PROVE FALSE
      OBVIOUS
    <2>2. h * k <= h * q
      <3>1. CASE q = k BY <3>1, <1>3
      <3>2. CASE k < q
        <4>1. h * k + h <= h * q BY <1>1, <3>2, MulMono
        <4> QED BY <1>3, <4>1
      <3> QED BY <1>1, <2>1, <3>1, <3>2
    <2> QED BY <1>1, <1>3, <2>2
  <1>5. h * q + h <= h * k BY <1>1, <1>4, MulMono
  <1>6. q >= 0
    <2>1. SUFFICES ASSUME q < 0 PROVE FALSE
      BY <1>1
    <2>2. PICK z \in Int : z = 0 OBVIOUS
    <2>3. h * q + h <= h * z BY <1>1, <2>1, <2>2, MulMono
    <2>4. h * z = 0 BY <2>2
    <2> QED BY <1>1, <1>3, <2>3, <2>4
  <1>7. h * q >= 0 BY <1>1, <1>6
  <1> QED BY <1>2, <1>3, <1>5, <1>7 DEF q, s

(* atomic64_dec_if_positive: right for values in the low half of the word. *)
LEMMA DecIfPositiveCorrect ==
  ASSUME NEW c, NEW tried, Looping(c), word \in Words, c.name = "dec_if_positive"
  PROVE  LeavesWell(c, tried) /\ StoresWell(c)
  <1> DEFINE m == Mod
             h == Half
             x == Signed(word)
             prev == (word + Minus(1)) % Mod
             z == Signed(prev)
             new == h * (word \div h) + (prev % h)
             L == atomic64_dec_if_positive(word)
  <1>1. /\ type \in Types /\ m \in Nat \ {0} /\ h \in Nat \ {0} /\ m \div 2 \in Nat \ {0}
        /\ m = 2 * (m \div 2) /\ h <= m \div 2
        /\ word \in 0 .. m - 1 /\ 1 \in Words
    BY LoopingFacts, WordSize, OneIsWord DEF Words
  <1>2. \E k \in Nat \ {0} : m = h * k BY <1>1, WordSize
  <1>3. \A t : LrSc(c, word, t) = L BY DEF LrSc
  <1>4. L.leaves <=> z < 0 BY DEF atomic64_dec_if_positive, Loop
  <1>5. L.new = new /\ L.left = {z} /\ L.ret = z BY DEF atomic64_dec_if_positive, Loop
  <1>6. Minus(1) \in Words /\ Congruent(Minus(1), -1, m) BY <1>1, Negated
  <1>7. Minus(1) \in Int BY <1>6 DEF Words
  <1>8. prev \in Words /\ Congruent(Signed(prev), Signed(word) + (-1), m)
    <2>1. PICK d \in Int : d = -1 OBVIOUS
    <2>2. PICK a \in Int : a = Minus(1) BY <1>7
    <2>3. type \in Types /\ word \in Words /\ Congruent(a, d, Mod) BY <1>1, <1>6, <2>1, <2>2
    <2>4. (word + a) % Mod \in Words /\ Congruent(Signed((word + a) % Mod), Signed(word) + d, Mod)
      BY <2>3, Added
    <2> QED BY <2>1, <2>2, <2>4
  <1>9. prev \in 0 .. m - 1 /\ z \in Int /\ (z = prev \/ z = prev - m)
        /\ (prev < m \div 2 => z = prev) /\ (prev >= m \div 2 => z = prev - m)
        /\ z \in -(m \div 2) .. (m \div 2) - 1
    BY <1>1, <1>8, SignedWord, AbstractTerms DEF Words
  <1>10. /\ x \in Int /\ (x = word \/ x = word - m) /\ x \in -(m \div 2) .. (m \div 2) - 1
    BY <1>1, SignedWord, AbstractTerms
  <1>11. Congruent(z, x + (-1), m) BY <1>8
  <1> HIDE DEF L
  <1>12. new \in Words
    <2>1. PICK k \in Nat \ {0} : m = h * k BY <1>2
    <2>2. word \in 0 .. (h * k) - 1 /\ prev \in Int BY <1>1, <1>9, <2>1
    <2> HIDE DEF m, h, prev
    <2>3. h * (word \div h) + (prev % h) \in 0 .. (h * k) - 1 BY <1>1, <2>2, HalfStored
    <2> QED BY <2>1, <2>3 DEF Words, m
  <1>13. Atomic!Unreliable(c) <=> x \notin 0 .. h - 1
    <2>1. Atomic!Pow2 = Pow2 BY DEF Atomic!Pow2, Pow2
    <2> QED BY <2>1 DEF Atomic!Unreliable, Half
  <1>14. CASE Atomic!Unreliable(c)
    <2>1. \A w, r : Promised(c, w, r) BY <1>14 DEF Promised
    <2> QED BY <1>3, <1>5, <1>12, <2>1 DEF LeavesWell, StoresWell
  <1>15. CASE ~Atomic!Unreliable(c)
    <2>1. x \in 0 .. h - 1 BY <1>13, <1>15
    <2>2. x = word BY <1>1, <1>10, <2>1
    <2> DEFINE g == m \div 2
    <2>3. /\ m \in Nat \ {0} /\ h \in Nat \ {0} /\ g \in Nat \ {0} /\ m = 2 * g /\ h <= g
          /\ z \in Int /\ z \in -g .. g - 1 /\ Congruent(z, x + (-1), m) /\ x \in Int
      BY <1>1, <1>9, <1>10, <1>11
    <2> HIDE DEF g, z, x, m, h
    <2>4. z = x - 1
      <3>1. x + (-1) \in Int BY <2>3
      <3>2. z - (x + (-1)) < m /\ (x + (-1)) - z < m BY <2>1, <2>3
      <3>3. z = x + (-1) BY <2>3, <3>1, <3>2, CongruentEqual
      <3> QED BY <2>3, <3>3
    <2>5. Atomic!Returns(c, x, z) /\ \A w : Atomic!Returns(c, w, z)
      BY <2>4 DEF Atomic!Returns, x
    <2>6. CASE x = 0
      <3>1. z < 0 BY <2>3, <2>4, <2>6
      <3>2. Atomic!Becomes(c, x) BY <2>6 DEF Atomic!Becomes, x
      <3>3. Promised(c, x, z) BY <2>5, <3>2 DEF Promised
      <3> QED BY <1>3, <1>4, <1>5, <1>12, <3>1, <3>3 DEF LeavesWell, StoresWell, x
    <2>7. CASE x # 0
      <3>1. x > 0 /\ ~(z < 0) /\ z \in 0 .. h - 1 BY <2>1, <2>3, <2>4, <2>7
      <3>2. prev = z BY <1>1, <1>9, <2>3, <3>1 DEF m
      <3>3. word \div h = 0 /\ prev % h = z
        <4>1. word \in 0 .. h - 1 /\ prev \in 0 .. h - 1 BY <2>1, <2>2, <3>1, <3>2
        <4>2. PICK o \in Int : o = 0 OBVIOUS
        <4>3. (h * o + word) \div h = o /\ (h * o + prev) % h = prev BY <2>3, <4>1, DivUnique
        <4>4. h * o + word = word /\ h * o + prev = prev BY <2>3, <4>1, <4>2
        <4> QED BY <3>2, <4>2, <4>3, <4>4
      <3>4. new = z
        <4>1. h * 0 + z = z BY <2>3
        <4> QED BY <3>3, <4>1
      <3> HIDE DEF new
      <3>5. Signed(new) = z BY <1>9, <3>2, <3>4 DEF z
      <3>6. Atomic!Becomes(c, z) BY <2>4, <3>1 DEF Atomic!Becomes, x
      <3>7. Promised(c, z, z) BY <2>5, <3>6 DEF Promised
      <3> QED BY <1>3, <1>4, <1>5, <1>12, <3>1, <3>5, <3>7 DEF LeavesWell, StoresWell
    <2> QED BY <2>6, <2>7
  <1> QED BY <1>14, <1>15

(* Every loop, wherever it leaves and whatever it stores, keeps its        *)
(* promise.                                                                *)
LEMMA LoopCorrect ==
  ASSUME NEW c, NEW tried \in BOOLEAN, Looping(c), word \in Words
  PROVE  LeavesWell(c, tried) /\ StoresWell(c)
  <1>1. c.type \in Types /\ c.name \in Loops(c.type) /\ c.type # "bitops" BY LoopingFacts
  <1>2. /\ c.type = "atomic" => c.name \in {"cmpxchg", "add_unless"}
        /\ c.type = "atomic64" => c.name \in {"cmpxchg", "add_unless", "inc_not_zero", "dec_if_positive"}
        /\ c.type = "sysriscv" => c.name \in {"cmpxchg"}
    BY <1>1 DEF Loops
  <1>3. CASE c.name = "cmpxchg" BY <1>3, CmpxchgCorrect
  <1>4. CASE c.name = "dec_if_positive" BY <1>4, DecIfPositiveCorrect
  <1>5. CASE c.type = "atomic" /\ c.name = "add_unless" BY <1>5, AddUnlessCorrect
  <1>6. CASE c.type = "atomic64" /\ c.name \in {"add_unless", "inc_not_zero"} BY <1>6, AddUnless64Correct
  <1> QED BY <1>1, <1>2, <1>3, <1>4, <1>5, <1>6 DEF Types

AtomicsTypeInv ==
  /\ type \in Types /\ word \in Words
  /\ aresv \in [Harts -> BOOLEAN]
  /\ apc \in [Contexts -> {"off", "idle", "lr", "retry", "sc", "put"}]
  /\ call \in [Contexts -> Calls \cup {None}] /\ atmp \in [Contexts -> Words]

(* What x is about to do: in a loop, of a call that is one; after an lr,   *)
(* with a value at which the loop goes on; between __get_user and          *)
(* __put_user, undisturbed and with the value it compared.                 *)
Poised(x) ==
  /\ apc[x] \in {"lr", "retry", "sc"} => Looping(call[x]) /\ type # "sysriscv"
  /\ apc[x] = "sc" => atmp[x] \in Words /\ ~LrSc(call[x], atmp[x], TRUE).leaves
  /\ apc[x] = "put" =>
       /\ Looping(call[x]) /\ type = "sysriscv" /\ HartOf[x] = BootHart /\ Running(x)
       /\ word = call[x].i /\ atmp[x] = word

(* A standing reservation vouches for the value that was loaded under it.  *)
LoadsFresh ==
  \A x \in Contexts : At(x, "sc") /\ aresv[HartOf[x]] => atmp[x] = word

AtomicsInv == AtomicsTypeInv /\ (\A x \in Contexts : Poised(x)) /\ LoadsFresh

(* What the types of operands mean does not change. *)
LEMMA SamePass ==
  ASSUME type' = type
  PROVE  /\ \A c, v, t : LrSc(c, v, t)' = LrSc(c, v, t)
         /\ \A c : Looping(c)' <=> Looping(c)
         /\ Words' = Words
         /\ \A v : Signed(v)' = Signed(v)
  BY DEF LrSc, cmpxchg, __atomic_add_unless, atomic64_add_unless, atomic64_dec_if_positive,
     Loop, Words, Mod, Half, Signed, Minus, Looping

(* Whether a loop is left does not depend on a failed sc before. *)
LEMMA LeavesEitherWay ==
  ASSUME NEW c, Looping(c), NEW v, NEW t
  PROVE  LrSc(c, v, t).leaves <=> LrSc(c, v, TRUE).leaves
  <1>1. \A s : atomic64_add_unless(c, v, s).leaves <=> v = c.u
    BY DEF atomic64_add_unless, Loop
  <1> DEFINE e == [c EXCEPT !.i = 1, !.u = 0]
  <1>2. \A s : atomic64_add_unless(e, v, s).leaves <=> v = e.u
    BY DEF atomic64_add_unless, Loop
  <1> HIDE DEF e
  <1>3. /\ c.type \in {"atomic", "atomic64", "sysriscv"}
        /\ c.type = "atomic" => c.name \in {"cmpxchg", "add_unless"}
        /\ c.type = "atomic64" => c.name \in {"cmpxchg", "add_unless", "inc_not_zero", "dec_if_positive"}
        /\ c.type = "sysriscv" => c.name \in {"cmpxchg"}
    <2>1. c.type \in Types /\ c.type # "bitops" /\ c.name \in Loops(c.type) BY LoopingFacts
    <2> QED BY <2>1 DEF Loops, Types
  <1>4. CASE c.name = "cmpxchg"
    <2>1. \A s : LrSc(c, v, s) = cmpxchg(c, v) BY <1>4 DEF LrSc
    <2> QED BY <2>1
  <1>5. CASE c.name = "dec_if_positive"
    <2>1. \A s : LrSc(c, v, s) = atomic64_dec_if_positive(v) BY <1>5 DEF LrSc
    <2> QED BY <2>1
  <1>6. CASE c.name = "add_unless" /\ c.type = "atomic"
    <2>1. \A s : LrSc(c, v, s) = __atomic_add_unless(c, v) BY <1>6 DEF LrSc
    <2> QED BY <2>1
  <1>7. CASE c.name = "add_unless" /\ c.type = "atomic64"
    <2>1. \A s : LrSc(c, v, s) = atomic64_add_unless(c, v, s) BY <1>7 DEF LrSc
    <2> QED BY <1>1, <2>1
  <1>8. CASE c.name = "inc_not_zero"
    <2>1. \A s : LrSc(c, v, s) = atomic64_add_unless(e, v, s) BY <1>8 DEF LrSc, e
    <2> QED BY <1>2, <2>1
  <1> QED BY <1>3, <1>4, <1>5, <1>6, <1>7, <1>8

(* One flow of control runs on a hart. *)
LEMMA OneRuns ==
  ASSUME NEW x \in Contexts, NEW y \in Contexts, Running(x), Running(y), HartOf[x] = HartOf[y]
  PROVE  x = y
  BY ContextsAssumption DEF Running, HandlerOff, Tasks

(* What a step of x that is not its sret leaves to the others. *)
LEMMA SameRun ==
  ASSUME NEW x \in Contexts, Running(x), NEW s, s # "off",
         apc \in [Contexts -> {"off", "idle", "lr", "retry", "sc", "put"}],
         apc' = [apc EXCEPT ![x] = s]
  PROVE  \A y \in Contexts : Running(y)' <=> Running(y)
  <1>1. \A i \in Irqs : apc'[i] = "off" <=> apc[i] = "off"
    BY ContextsAssumption DEF Running
  <1> QED BY <1>1 DEF Running, HandlerOff

(* Who does not move stays poised, undisturbed between get and put. *)
LEMMA StillPoised ==
  ASSUME NEW y, Poised(y), type' = type,
         apc'[y] = apc[y], call'[y] = call[y], atmp'[y] = atmp[y],
         apc[y] = "put" => word' = word /\ Running(y)'
  PROVE  Poised(y)'
  <1>1. /\ Looping(call[y])' <=> Looping(call[y])
        /\ LrSc(call[y], atmp[y], TRUE)' = LrSc(call[y], atmp[y], TRUE)
        /\ Words' = Words
    BY SamePass
  <1>2. (apc[y] \in {"lr", "retry", "sc"} => Looping(call[y]) /\ type # "sysriscv")'
    BY <1>1 DEF Poised
  <1>3. (apc[y] = "sc" => atmp[y] \in Words /\ ~LrSc(call[y], atmp[y], TRUE).leaves)'
    BY <1>1 DEF Poised
  <1>4. (apc[y] = "put" =>
           /\ Looping(call[y]) /\ type = "sysriscv" /\ HartOf[y] = BootHart /\ Running(y)
           /\ word = call[y].i /\ atmp[y] = word)'
    BY <1>1 DEF Poised
  <1> QED BY <1>2, <1>3, <1>4 DEF Poised

(* Who makes no call has nothing to keep. *)
LEMMA AtRestPoised ==
  ASSUME NEW x, apc'[x] \in {"off", "idle"}
  PROVE  Poised(x)'
  BY DEF Poised

(* A step of x disturbs no other: sysriscv runs alone on the one hart. *)
LEMMA OthersPoised ==
  ASSUME AtomicsInv, NEW x \in Contexts, Running(x), NEW s, s # "off", type' = type,
         apc' = [apc EXCEPT ![x] = s],
         \A y \in Contexts \ {x} : call'[y] = call[y] /\ atmp'[y] = atmp[y],
         word' = word \/ (type = "sysriscv" => HartOf[x] = BootHart)
  PROVE  \A y \in Contexts \ {x} : Poised(y)'
  <1> TAKE y \in Contexts \ {x}
  <1>1. Poised(y) /\ apc'[y] = apc[y] /\ call'[y] = call[y] /\ atmp'[y] = atmp[y]
    BY DEF AtomicsInv, AtomicsTypeInv
  <1>2. ASSUME apc[y] = "put" PROVE word' = word /\ Running(y)'
    <2>1. type = "sysriscv" /\ HartOf[y] = BootHart /\ Running(y) BY <1>1, <1>2 DEF Poised
    <2>2. Running(y)' BY <2>1, SameRun DEF AtomicsInv, AtomicsTypeInv
    <2>3. HartOf[x] # BootHart BY <2>1, OneRuns
    <2> QED BY <2>1, <2>2, <2>3
  <1> QED BY <1>1, <1>2, StillPoised

(* Only the reservation of its own hart can vouch for x; and after a       *)
(* store, no other.                                                        *)
LEMMA OthersFresh ==
  ASSUME AtomicsInv, NEW x \in Contexts, Running(x), NEW s, s # "off",
         apc' = [apc EXCEPT ![x] = s],
         \A y \in Contexts \ {x} : atmp'[y] = atmp[y],
         \/ word' = word /\ \A h \in Harts \ {HartOf[x]} : aresv'[h] => aresv[h]
         \/ \A h \in Harts : aresv'[h] => h = HartOf[x]
  PROVE  \A y \in Contexts \ {x} : (At(y, "sc") /\ aresv[HartOf[y]] => atmp[y] = word)'
  <1> SUFFICES ASSUME NEW y \in Contexts \ {x}, At(y, "sc")', aresv'[HartOf[y]]
               PROVE  atmp'[y] = word'
    OBVIOUS
  <1>1. Running(y) /\ apc[y] = "sc"
    <2>1. Running(y)' /\ apc'[y] = "sc" BY DEF At
    <2>2. apc'[y] = apc[y] BY DEF AtomicsInv, AtomicsTypeInv
    <2> QED BY <2>1, <2>2, SameRun DEF AtomicsInv, AtomicsTypeInv
  <1>2. HartOf[y] # HartOf[x] BY <1>1, OneRuns
  <1>3. HartOf[y] \in Harts BY ContextsAssumption
  <1>4. word' = word /\ aresv[HartOf[y]] BY <1>2, <1>3
  <1> QED BY <1>1, <1>4 DEF AtomicsInv, LoadsFresh, At

(* A step of x: what it must establish, beside leaving the others alone. *)
LEMMA MoveKeepsInv ==
  ASSUME AtomicsInv, NEW x \in Contexts, Running(x),
         NEW s \in {"idle", "lr", "retry", "sc", "put"},
         type' = type, apc' = [apc EXCEPT ![x] = s],
         NEW d \in Calls \cup {None}, call' = [call EXCEPT ![x] = d], NEW v \in Words, atmp' = [atmp EXCEPT ![x] = v],
         word' \in Words, aresv' \in [Harts -> BOOLEAN],
         word' = word \/ (type = "sysriscv" => HartOf[x] = BootHart),
         \/ word' = word /\ \A h \in Harts \ {HartOf[x]} : aresv'[h] => aresv[h]
         \/ \A h \in Harts : aresv'[h] => h = HartOf[x],
         Poised(x)', s = "sc" => v = word'
  PROVE  AtomicsInv'
  <1>1. AtomicsTypeInv'
    <2>1. Words' = Words BY SamePass
    <2> QED BY <2>1 DEF AtomicsInv, AtomicsTypeInv
  <1>2. DOMAIN call = Contexts /\ DOMAIN atmp = Contexts BY DEF AtomicsInv, AtomicsTypeInv
  <1>3. \A y \in Contexts \ {x} : call'[y] = call[y] /\ atmp'[y] = atmp[y] BY <1>2
  <1>4. \A y \in Contexts \ {x} : Poised(y)' BY <1>3, OthersPoised
  <1>5. \A y \in Contexts \ {x} : (At(y, "sc") /\ aresv[HartOf[y]] => atmp[y] = word)'
    BY <1>3, OthersFresh
  <1>6. (At(x, "sc") /\ aresv[HartOf[x]] => atmp[x] = word)'
    <2>1. apc'[x] = s /\ atmp'[x] = v BY <1>2 DEF AtomicsInv, AtomicsTypeInv
    <2> QED BY <2>1 DEF At
  <1>7. LoadsFresh' BY <1>5, <1>6 DEF LoadsFresh
  <1>8. \A y \in Contexts : Poised(y)' BY <1>4
  <1> QED BY <1>1, <1>7, <1>8 DEF AtomicsInv

(* The end of a call. *)
LEMMA DoneKeepsInv ==
  ASSUME AtomicsInv, NEW x \in Contexts, Running(x), NEW c, NEW r, Done(x, c, r),
         word' \in Words,
         word' = word \/ (type = "sysriscv" => HartOf[x] = BootHart),
         \/ word' = word /\ aresv' = aresv
         \/ word' = word /\ aresv' = [aresv EXCEPT ![HartOf[x]] = TRUE]
         \/ aresv' = [h \in Harts |-> h = HartOf[x] /\ aresv[h]]
         \/ aresv' = [h \in Harts |-> FALSE]
  PROVE  AtomicsInv'
  <1>1. /\ type' = type /\ apc' = [apc EXCEPT ![x] = "idle"]
        /\ call' = [call EXCEPT ![x] = None] /\ atmp' = [atmp EXCEPT ![x] = 0]
    BY DEF Done
  <1>2. aresv' \in [Harts -> BOOLEAN] BY DEF AtomicsInv, AtomicsTypeInv
  <1>3. \/ word' = word /\ \A h \in Harts \ {HartOf[x]} : aresv'[h] => aresv[h]
        \/ \A h \in Harts : aresv'[h] => h = HartOf[x]
    BY DEF AtomicsInv, AtomicsTypeInv
  <1>4. Poised(x)' BY <1>1, AtRestPoised DEF AtomicsInv, AtomicsTypeInv
  <1>5. 0 \in Words BY WordSize DEF AtomicsInv, AtomicsTypeInv, Words
  <1> QED BY <1>1, <1>2, <1>3, <1>4, <1>5, MoveKeepsInv

(* One instruction; then the steps of the loops and of sysriscv. *)
LEMMA AtomicOpKeepsInv ==
  ASSUME AtomicsInv, NEW x \in Contexts, NEW c \in Calls, Make(x, c), AtomicOp(x, c)
  PROVE  AtomicsInv'
  <1>1. Running(x) /\ Done(x, c, Result(c)) BY DEF AtomicOp, At
  <1>2. Called(c) /\ IsAmo(c) BY DEF Make, AtomicOp, Called, AtomicsInv, AtomicsTypeInv
  <1>3. (IF Insn(c).insn = "load" THEN word ELSE Stored(c)) \in Words BY <1>2, AmoCorrect DEF Effect
  <1>4. CASE Insn(c).insn = "load"
    <2>1. word' = word /\ aresv' = aresv /\ word' \in Words
      BY <1>4 DEF AtomicOp, AtomicsInv, AtomicsTypeInv
    <2> QED BY <1>1, <2>1, DoneKeepsInv
  <1>5. CASE Insn(c).insn # "load"
    <2>1. Write(x, Stored(c)) /\ Stored(c) \in Words BY <1>3, <1>5 DEF AtomicOp
    <2>2. type = "sysriscv" => HartOf[x] = BootHart BY DEF Make
    <2> QED BY <1>1, <2>1, <2>2, DoneKeepsInv DEF Write
  <1> QED BY <1>4, <1>5

LEMMA BeginLoopKeepsInv ==
  ASSUME AtomicsInv, NEW x \in Contexts, NEW c \in Calls, Make(x, c), BeginLoop(x, c)
  PROVE  AtomicsInv'
  <1>1. /\ Running(x) /\ type' = type /\ word' = word /\ aresv' = aresv /\ atmp' = atmp
        /\ apc' = [apc EXCEPT ![x] = "lr"] /\ call' = [call EXCEPT ![x] = c]
    BY DEF BeginLoop, At
  <1>2. atmp' = [atmp EXCEPT ![x] = atmp[x]] /\ atmp[x] \in Words BY <1>1 DEF AtomicsInv, AtomicsTypeInv
  <1>3. word' \in Words /\ aresv' \in [Harts -> BOOLEAN] BY <1>1 DEF AtomicsInv, AtomicsTypeInv
  <1>4. Poised(x)'
    <2>1. Looping(c) /\ type # "sysriscv" BY DEF Looping, Make, BeginLoop, AtomicsInv, AtomicsTypeInv
    <2>2. Looping(c)' BY <1>1, <2>1, SamePass
    <2>3. apc'[x] = "lr" /\ call'[x] = c BY <1>1 DEF AtomicsInv, AtomicsTypeInv
    <2>4. Looping(call[x])' BY <2>2, <2>3
    <2> QED BY <1>1, <2>1, <2>3, <2>4 DEF Poised
  <1> QED BY <1>1, <1>2, <1>3, <1>4, MoveKeepsInv

(* What a loop is doing. *)
LEMMA InLoop ==
  ASSUME AtomicsInv, NEW x \in Contexts, apc[x] \in {"lr", "retry", "sc", "put"}
  PROVE  /\ Looping(call[x]) /\ word \in Words
         /\ apc[x] = "put" <=> type = "sysriscv"
  BY DEF AtomicsInv, AtomicsTypeInv, Poised

LEMMA LrKeepsInv ==
  ASSUME AtomicsInv, NEW x \in Contexts, lr(x)
  PROVE  AtomicsInv'
  <1> DEFINE L == LrSc(call[x], word, apc[x] = "retry")
  <1>1. /\ Running(x) /\ apc[x] \in {"lr", "retry"} /\ word' = word
        /\ aresv' = [aresv EXCEPT ![HartOf[x]] = TRUE]
    BY DEF lr, At
  <1>2. Looping(call[x]) /\ word \in Words /\ type # "sysriscv" BY <1>1, InLoop
  <1>3. CASE L.leaves
    <2>1. PICK r : Done(x, call[x], r) BY <1>3 DEF lr
    <2> QED BY <1>1, <1>2, <2>1, DoneKeepsInv
  <1>4. CASE ~L.leaves
    <2>1. /\ type' = type /\ apc' = [apc EXCEPT ![x] = "sc"] /\ call' = call
          /\ atmp' = [atmp EXCEPT ![x] = word]
      BY <1>4 DEF lr
    <2>2. call' = [call EXCEPT ![x] = call[x]] /\ call[x] \in Calls \cup {None} BY <2>1 DEF AtomicsInv, AtomicsTypeInv
    <2>3. /\ word' \in Words /\ aresv' \in [Harts -> BOOLEAN]
          /\ \A h \in Harts \ {HartOf[x]} : aresv'[h] => aresv[h]
      BY <1>1, <1>2 DEF AtomicsInv, AtomicsTypeInv
    <2>4. Poised(x)'
      <3>1. apc'[x] = "sc" /\ call'[x] = call[x] /\ atmp'[x] = word
        BY <2>1 DEF AtomicsInv, AtomicsTypeInv
      <3>2. ~LrSc(call[x], word, TRUE).leaves BY <1>2, <1>4, LeavesEitherWay
      <3> DEFINE c == call[x]
                 v == word
      <3>3. LrSc(call[x], atmp[x], TRUE)' = LrSc(call[x], word, TRUE)
        BY <2>1, <3>1, SamePass
      <3>4. Looping(call[x])' BY <1>2, <2>1, SamePass
      <3>5. (atmp[x] \in Words)' BY <1>2, <2>1, <3>1, SamePass
      <3>6. (~LrSc(call[x], atmp[x], TRUE).leaves)' BY <3>2, <3>3
      <3> QED BY <1>2, <2>1, <3>1, <3>4, <3>5, <3>6 DEF Poised
    <2> QED BY <1>1, <2>1, <2>2, <2>3, <2>4, MoveKeepsInv
  <1> QED BY <1>3, <1>4

LEMMA ScKeepsInv ==
  ASSUME AtomicsInv, NEW x \in Contexts, sc(x)
  PROVE  AtomicsInv'
  <1>1. Running(x) /\ apc[x] = "sc" /\ aresv[HartOf[x]] BY DEF sc, At
  <1>2. Looping(call[x]) /\ word \in Words /\ type # "sysriscv" BY <1>1, InLoop
  <1>3. atmp[x] = word BY <1>1 DEF AtomicsInv, LoadsFresh, At
  <1>4. LrSc(call[x], word, TRUE).new \in Words
    <2>1. StoresWell(call[x]) BY <1>2, LoopCorrect
    <2> QED BY <2>1 DEF StoresWell
  <1>5. /\ word' = LrSc(call[x], word, TRUE).new /\ aresv' = [h \in Harts |-> FALSE]
        /\ Done(x, call[x], LrSc(call[x], word, TRUE).ret)
    BY <1>3 DEF sc
  <1> QED BY <1>1, <1>2, <1>4, <1>5, DoneKeepsInv

LEMMA ScFailsKeepsInv ==
  ASSUME AtomicsInv, NEW x \in Contexts, sc_fails(x)
  PROVE  AtomicsInv'
  <1>1. /\ Running(x) /\ apc[x] = "sc" /\ type' = type /\ word' = word /\ aresv' = aresv
        /\ call' = call /\ apc' = [apc EXCEPT ![x] = "retry"] /\ atmp' = [atmp EXCEPT ![x] = 0]
    BY DEF sc_fails, At
  <1>2. /\ call' = [call EXCEPT ![x] = call[x]] /\ call[x] \in Calls \cup {None}
        /\ 0 \in Words
    BY <1>1, WordSize DEF Words, AtomicsInv, AtomicsTypeInv
  <1>3. word' \in Words /\ aresv' \in [Harts -> BOOLEAN] BY <1>1 DEF AtomicsInv, AtomicsTypeInv
  <1>4. Poised(x)'
    <2>1. Looping(call[x]) /\ type # "sysriscv" BY <1>1, InLoop
    <2>2. Looping(call[x])' BY <1>1, <2>1, SamePass
    <2>3. apc'[x] = "retry" BY <1>1 DEF AtomicsInv, AtomicsTypeInv
    <2> QED BY <1>1, <2>1, <2>2, <2>3 DEF Poised
  <1> QED BY <1>1, <1>2, <1>3, <1>4, MoveKeepsInv

LEMMA GetKeepsInv ==
  ASSUME AtomicsInv, NEW x \in Contexts, NEW c \in Calls, Make(x, c), sysriscv_get(x, c)
  PROVE  AtomicsInv'
  <1>1. /\ Running(x) /\ word' = word /\ aresv' = aresv /\ type = "sysriscv" /\ c.type = type
        /\ HartOf[x] = BootHart
    BY DEF sysriscv_get, At, Make
  <1>2. word \in Words /\ aresv' \in [Harts -> BOOLEAN] BY <1>1 DEF AtomicsInv, AtomicsTypeInv
  <1>3. ASSUME NEW r, Done(x, c, r) PROVE AtomicsInv'
    BY <1>1, <1>2, <1>3, DoneKeepsInv
  <1>4. CASE /\ word = c.i /\ call' = [call EXCEPT ![x] = c] /\ atmp' = [atmp EXCEPT ![x] = word]
             /\ apc' = [apc EXCEPT ![x] = "put"] /\ out' = <<>> /\ UNCHANGED type
    <2>1. apc'[x] = "put" /\ call'[x] = c /\ atmp'[x] = word
      BY <1>4 DEF AtomicsInv, AtomicsTypeInv
    <2>2. Poised(x)'
      <3>1. Looping(c)
        <4>1. ~IsAmo(c) BY <1>1, EmulatedTables
        <4> QED BY <1>1, <4>1 DEF Looping, AtomicsInv, AtomicsTypeInv
      <3>2. Looping(c)' BY <1>4, <3>1, SamePass
      <3>3. Looping(call[x])' BY <2>1, <3>2
      <3>4. Running(x)' BY <1>1, <1>4, SameRun DEF AtomicsInv, AtomicsTypeInv
      <3> QED BY <1>1, <1>4, <2>1, <3>3, <3>4 DEF Poised
    <2> QED BY <1>1, <1>2, <1>4, <2>2, MoveKeepsInv
  <1> QED BY <1>3, <1>4 DEF sysriscv_get

LEMMA PutKeepsInv ==
  ASSUME AtomicsInv, NEW x \in Contexts, sysriscv_put(x)
  PROVE  AtomicsInv'
  <1>1. Running(x) /\ apc[x] = "put" BY DEF sysriscv_put, At
  <1>2. Looping(call[x]) /\ word \in Words /\ type = "sysriscv" /\ HartOf[x] = BootHart
    BY <1>1 DEF Poised, AtomicsInv, AtomicsTypeInv
  <1>3. call[x].u \in Words BY <1>2, LoopingFacts
  <1>4. CASE Write(x, call[x].u) /\ Done(x, call[x], Signed(atmp[x]))
    BY <1>1, <1>2, <1>3, <1>4, DoneKeepsInv DEF Write
  <1>5. CASE UNCHANGED <<word, aresv>> /\ Done(x, call[x], EFAULT)
    BY <1>1, <1>2, <1>5, DoneKeepsInv
  <1> QED BY <1>4, <1>5 DEF sysriscv_put

(* Handlers come and go, and reservations with them: a context that is     *)
(* about to store and still has one was not disturbed.                     *)
LEMMA HandlersKeepInv ==
  ASSUME AtomicsInv, type' = type, word' = word, call' = call, atmp' = atmp,
         aresv' \in [Harts -> BOOLEAN],
         apc' \in [Contexts -> {"off", "idle", "lr", "retry", "sc", "put"}],
         \A y \in Contexts : apc'[y] # apc[y] => apc'[y] \in {"off", "idle"},
         \A y \in Contexts : apc[y] = "put" => Running(y)',
         \A y \in Contexts : At(y, "sc")' /\ aresv'[HartOf[y]] => At(y, "sc") /\ aresv[HartOf[y]]
  PROVE  AtomicsInv'
  <1>1. AtomicsTypeInv'
    <2>1. Words' = Words BY SamePass
    <2> QED BY <2>1 DEF AtomicsInv, AtomicsTypeInv
  <1>2. ASSUME NEW y \in Contexts PROVE Poised(y)'
    <2>1. CASE apc'[y] = apc[y] BY <2>1, StillPoised DEF AtomicsInv
    <2>2. CASE apc'[y] # apc[y] BY <2>2, AtRestPoised
    <2> QED BY <2>1, <2>2
  <1>3. LoadsFresh' BY DEF AtomicsInv, LoadsFresh
  <1> QED BY <1>1, <1>2, <1>3 DEF AtomicsInv

(* A handler starts: the contexts of its hart stop, none of them in        *)
(* sysriscv.                                                               *)
LEMMA HandlerEnterKeepsInv ==
  ASSUME AtomicsInv, NEW i \in Irqs, HandlerEnter(i)
  PROVE  AtomicsInv'
  <1>1. /\ apc[i] = "off" /\ apc' = [apc EXCEPT ![i] = "idle"] /\ i \in Contexts
        /\ \A x \in Contexts : HartOf[x] = HartOf[i] => apc[x] # "put"
        /\ type' = type /\ word' = word /\ aresv' = aresv /\ call' = call /\ atmp' = atmp
    BY ContextsAssumption DEF HandlerEnter
  <1>2. /\ aresv' \in [Harts -> BOOLEAN]
        /\ apc' \in [Contexts -> {"off", "idle", "lr", "retry", "sc", "put"}]
        /\ \A y \in Contexts : apc'[y] # apc[y] => apc'[y] = "idle"
    BY <1>1 DEF AtomicsInv, AtomicsTypeInv
  <1>3. ASSUME NEW y \in Contexts, HartOf[y] # HartOf[i] PROVE Running(y)' <=> Running(y)
    BY <1>1, <1>3, ContextsAssumption DEF Running, HandlerOff, AtomicsInv, AtomicsTypeInv
  <1>4. ASSUME NEW y \in Contexts, apc[y] = "put" PROVE Running(y)'
    BY <1>1, <1>3, <1>4 DEF AtomicsInv, Poised
  <1>5. ASSUME NEW y \in Contexts, At(y, "sc")', aresv'[HartOf[y]]
        PROVE  At(y, "sc") /\ aresv[HartOf[y]]
    <2>1. apc'[i] = "idle" BY <1>1 DEF AtomicsInv, AtomicsTypeInv
    <2>2. y # i /\ Running(y)' /\ apc'[y] = "sc" BY <1>5, <2>1 DEF At
    <2>3. apc[y] = "sc" BY <1>1, <2>2 DEF AtomicsInv, AtomicsTypeInv
    <2>4. HartOf[y] # HartOf[i]
      <3>1. CASE y \in Irqs BY <2>2, <3>1, ContextsAssumption
      <3>2. CASE y \notin Irqs BY <2>1, <2>2, <3>2 DEF Running, HandlerOff
      <3> QED BY <3>1, <3>2
    <2> QED BY <1>1, <1>3, <1>5, <2>2, <2>3, <2>4 DEF At
  <1> QED BY <1>1, <1>2, <1>4, <1>5, HandlersKeepInv

(* A handler ends: its sret drops the reservation of the hart. *)
LEMMA HandlerSretKeepsInv ==
  ASSUME AtomicsInv, NEW i \in Irqs, HandlerSret(i)
  PROVE  AtomicsInv'
  <1>1. /\ apc[i] = "idle" /\ apc' = [apc EXCEPT ![i] = "off"] /\ i \in Contexts
        /\ aresv' = [aresv EXCEPT ![HartOf[i]] = FALSE] /\ HartOf[i] \in Harts
        /\ type' = type /\ word' = word /\ call' = call /\ atmp' = atmp
    BY ContextsAssumption DEF HandlerSret
  <1>2. /\ aresv' \in [Harts -> BOOLEAN] /\ ~aresv'[HartOf[i]]
        /\ apc' \in [Contexts -> {"off", "idle", "lr", "retry", "sc", "put"}]
        /\ \A y \in Contexts : apc'[y] # apc[y] => apc'[y] = "off"
    BY <1>1 DEF AtomicsInv, AtomicsTypeInv
  <1>3. ASSUME NEW y \in Contexts, HartOf[y] # HartOf[i] PROVE Running(y)' <=> Running(y)
    BY <1>1, <1>3, ContextsAssumption DEF Running, HandlerOff, AtomicsInv, AtomicsTypeInv
  <1>4. ASSUME NEW y \in Contexts, apc[y] = "put" PROVE Running(y)'
    <2>1. Running(y) BY <1>4 DEF AtomicsInv, Poised
    <2>2. Running(i) /\ y # i BY <1>1, <1>4 DEF Running
    <2>3. HartOf[y] # HartOf[i] BY <1>1, <2>1, <2>2, OneRuns
    <2> QED BY <1>3, <2>1, <2>3
  <1>5. ASSUME NEW y \in Contexts, At(y, "sc")', aresv'[HartOf[y]]
        PROVE  At(y, "sc") /\ aresv[HartOf[y]]
    <2>1. HartOf[y] # HartOf[i] /\ HartOf[y] \in Harts BY <1>2, <1>5, ContextsAssumption
    <2>2. aresv[HartOf[y]] /\ y # i BY <1>1, <1>5, <2>1 DEF AtomicsInv, AtomicsTypeInv
    <2>3. apc[y] = "sc" /\ Running(y)' BY <1>1, <1>5, <2>2 DEF At, AtomicsInv, AtomicsTypeInv
    <2> QED BY <1>3, <2>1, <2>2, <2>3 DEF At
  <1> QED BY <1>1, <1>2, <1>4, <1>5, HandlersKeepInv

(* Dropping a reservation only makes an sc fail. *)
LEMMA DropKeepsInv ==
  ASSUME AtomicsInv, (\E h \in Harts : DropReservation(h)) \/ UNCHANGED atomicVars
  PROVE  AtomicsInv'
  <1>1. /\ type' = type /\ word' = word /\ call' = call /\ atmp' = atmp /\ apc' = apc
        /\ aresv' \in [Harts -> BOOLEAN] /\ \A h \in Harts : aresv'[h] => aresv[h]
    BY DEF DropReservation, atomicVars, AtomicsInv, AtomicsTypeInv
  <1>2. \A y \in Contexts : (Running(y)' <=> Running(y)) BY <1>1 DEF Running, HandlerOff
  <1>3. ASSUME NEW y \in Contexts, apc[y] = "put" PROVE Running(y)'
    BY <1>2, <1>3 DEF AtomicsInv, Poised
  <1>4. ASSUME NEW y \in Contexts, At(y, "sc")', aresv'[HartOf[y]]
        PROVE  At(y, "sc") /\ aresv[HartOf[y]]
    BY <1>1, <1>2, <1>4, ContextsAssumption DEF At
  <1>5. apc' \in [Contexts -> {"off", "idle", "lr", "retry", "sc", "put"}]
    BY <1>1 DEF AtomicsInv, AtomicsTypeInv
  <1> QED BY <1>1, <1>3, <1>4, <1>5, HandlersKeepInv

(* No call is under way at the start. *)
LEMMA InitAtomicsInv == AtomicsInit => AtomicsInv
  <1> SUFFICES ASSUME AtomicsInit PROVE AtomicsInv
    OBVIOUS
  <1>1. type \in Types BY CallsAssumption DEF AtomicsInit
  <1>2. 0 \in Words BY <1>1, OneIsWord
  <1>3. AtomicsTypeInv BY <1>1, <1>2 DEF AtomicsInit, AtomicsTypeInv
  <1>4. \A x \in Contexts : apc[x] \in {"off", "idle"} BY DEF AtomicsInit
  <1>5. \A x \in Contexts : Poised(x) BY <1>4 DEF Poised
  <1>6. LoadsFresh BY <1>4 DEF LoadsFresh, At
  <1> QED BY <1>3, <1>5, <1>6 DEF AtomicsInv

(* Every step keeps the invariant. *)
LEMMA StepAtomicsInv == AtomicsInv /\ [AtomicsNext]_atomicVars => AtomicsInv'
  <1> SUFFICES ASSUME AtomicsInv, [AtomicsNext]_atomicVars PROVE AtomicsInv'
    OBVIOUS
  <1>1. ASSUME NEW x \in Contexts, NEW c \in Calls, Make(x, c) PROVE AtomicsInv'
    BY <1>1, AtomicOpKeepsInv, BeginLoopKeepsInv, GetKeepsInv DEF Make
  <1>2. ASSUME NEW x \in Contexts, lr(x) \/ sc(x) \/ sc_fails(x) \/ sysriscv_put(x) PROVE AtomicsInv'
    BY <1>2, LrKeepsInv, ScKeepsInv, ScFailsKeepsInv, PutKeepsInv
  <1>3. ASSUME NEW i \in Irqs, HandlerEnter(i) \/ HandlerSret(i) PROVE AtomicsInv'
    BY <1>3, HandlerEnterKeepsInv, HandlerSretKeepsInv
  <1>4. CASE (\E h \in Harts : DropReservation(h)) \/ UNCHANGED atomicVars
    BY <1>4, DropKeepsInv
  <1> QED BY <1>1, <1>2, <1>3, <1>4 DEF AtomicsNext, Continue

(* A context between lr and sc is at a value where its loop goes on, and   *)
(* still has its reservation only if the variable holds that value;        *)
(* sysriscv is alone between get and put.                                  *)
THEOREM AtomicsInvariance == AtomicsSpec => []AtomicsInv
  <1> QED BY InitAtomicsInv, StepAtomicsInv, PTL DEF AtomicsSpec

-----------------------------------------------------------------------------
(* The end of a call that keeps its promise is a step of the abstract      *)
(* variable.                                                               *)
LEMMA DoneIsAtomic ==
  ASSUME type \in Types, NEW x, NEW c, NEW r, Done(x, c, r),
         Promised(c, Signed(word'), r)
  PROVE  Atomic!Next
  <1>1. out' = <<c, r>> /\ type' = type /\ Bits[type]' = Bits[type] BY DEF Done
  <1>2. Signed(word)' = Signed(word') BY <1>1, SamePass
  <1>3. out'[1] = c /\ out'[2] = r /\ out' # <<>> BY <1>1
  <1>4. Atomic!Do(c, r) BY <1>2 DEF Atomic!Do, Promised
  <1> QED BY <1>1, <1>3, <1>4 DEF Atomic!Next

(* A page fault fails the emulated operation, which did nothing. *)
LEMMA FaultIsAtomic ==
  ASSUME type = "sysriscv", word' = word, NEW x, NEW c, Done(x, c, EFAULT)
  PROVE  Atomic!Next
  <1>1. out' = <<c, EFAULT>> /\ type' = type /\ Bits[type]' = Bits[type] BY DEF Done
  <1>2. Signed(word)' = Signed(word)
    BY <1>1 DEF Signed, Mod
  <1>3. out'[1] = c /\ out'[2] = EFAULT /\ out' # <<>> BY <1>1
  <1>4. Atomic!Do(c, EFAULT) BY <1>2 DEF Atomic!Do
  <1> QED BY <1>1, <1>3, <1>4 DEF Atomic!Next

(* In between, nothing is stored and nothing returned. *)
LEMMA QuietIsAtomic ==
  ASSUME type' = type, word' = word, out' = <<>>
  PROVE  Atomic!Next
  <1>1. Signed(word)' = Signed(word) BY DEF Signed, Mod
  <1> QED BY <1>1 DEF Atomic!Next

(* A call that returns at once, or the begin of one that does not. *)
LEMMA MakeIsAtomic ==
  ASSUME AtomicsInv, NEW x \in Contexts, NEW c \in Calls, Make(x, c)
  PROVE  Atomic!Next
  <1>1. type \in Types /\ word \in Words /\ c.type = type
    BY DEF AtomicsInv, AtomicsTypeInv, Make
  <1>2. CASE AtomicOp(x, c)
    <2> DEFINE w == IF Insn(c).insn = "load" THEN word ELSE Stored(c)
    <2>1. Called(c) /\ IsAmo(c) BY <1>1, <1>2 DEF Called, AtomicOp
    <2>2. Effect(c, w, Result(c)) BY <2>1, AmoCorrect
    <2>3. word' = w /\ Done(x, c, Result(c)) BY <1>2 DEF AtomicOp, Write
    <2> HIDE DEF w
    <2>4. Promised(c, Signed(word'), Result(c)) BY <2>2, <2>3 DEF Effect, Promised
    <2> QED BY <1>1, <2>3, <2>4, DoneIsAtomic
  <1>3. CASE BeginLoop(x, c)
    BY <1>3, QuietIsAtomic DEF BeginLoop
  <1>4. CASE sysriscv_get(x, c)
    <2>1. type = "sysriscv" /\ word' = word BY <1>1, <1>4 DEF sysriscv_get
    <2>2. CASE Done(x, c, EFAULT) BY <2>1, <2>2, FaultIsAtomic
    <2>3. CASE word # c.i /\ Done(x, c, Signed(word))
      <3>1. Looping(c)
        <4>1. ~IsAmo(c) BY <1>1, <2>1, EmulatedTables
        <4> QED BY <1>1, <4>1 DEF Looping
      <3>2. c.name = "cmpxchg" BY <1>1, <2>1, <3>1, LoopingFacts DEF Loops
      <3>3. /\ LrSc(c, word, TRUE) = cmpxchg(c, word)
            /\ cmpxchg(c, word).leaves <=> word # c.i
            /\ cmpxchg(c, word).left = {Signed(word)}
        <4>1. LrSc(c, word, TRUE) = cmpxchg(c, word) BY <3>2 DEF LrSc
        <4>2. cmpxchg(c, word).leaves <=> word # c.i BY DEF cmpxchg, Loop
        <4>3. cmpxchg(c, word).left = {Signed(word)} BY DEF cmpxchg, Loop
        <4> QED BY <4>1, <4>2, <4>3
      <3>4. LeavesWell(c, TRUE) BY <1>1, <3>1, LoopCorrect
      <3>5. Promised(c, Signed(word), Signed(word)) BY <2>3, <3>3, <3>4 DEF LeavesWell
      <3>6. Promised(c, Signed(word'), Signed(word)) BY <2>1, <3>5
      <3> QED BY <1>1, <2>3, <3>6, DoneIsAtomic
    <2>4. CASE out' = <<>> /\ UNCHANGED type BY <2>1, <2>4, QuietIsAtomic
    <2> QED BY <1>4, <2>2, <2>3, <2>4 DEF sysriscv_get
  <1> QED BY <1>2, <1>3, <1>4 DEF Make

(* Leaving a loop after its lr; storing with its sc; sysriscv storing. *)
LEMMA LrIsAtomic ==
  ASSUME AtomicsInv, NEW x \in Contexts, lr(x)
  PROVE  Atomic!Next
  <1> DEFINE tried == apc[x] = "retry"
             L == LrSc(call[x], word, tried)
  <1>1. apc[x] \in {"lr", "retry"} /\ word' = word BY DEF lr, At
  <1>2. Looping(call[x]) /\ word \in Words /\ type \in Types
    BY <1>1, InLoop DEF AtomicsInv, AtomicsTypeInv
  <1>3. CASE L.leaves
    <2>1. PICK r \in L.left : Done(x, call[x], r) BY <1>3 DEF lr
    <2>2. LeavesWell(call[x], tried) BY <1>2, LoopCorrect
    <2>3. Promised(call[x], Signed(word), r) BY <1>3, <2>1, <2>2 DEF LeavesWell
    <2>4. Promised(call[x], Signed(word'), r) BY <1>1, <2>3
    <2> QED BY <1>2, <2>1, <2>4, DoneIsAtomic
  <1>4. CASE ~L.leaves
    <2>1. type' = type /\ out' = <<>> BY <1>4 DEF lr
    <2> QED BY <1>1, <2>1, QuietIsAtomic
  <1> QED BY <1>3, <1>4

LEMMA ScIsAtomic ==
  ASSUME AtomicsInv, NEW x \in Contexts, sc(x)
  PROVE  Atomic!Next
  <1>1. apc[x] = "sc" /\ At(x, "sc") /\ aresv[HartOf[x]] BY DEF sc, At
  <1>2. Looping(call[x]) /\ word \in Words /\ type \in Types
    BY <1>1, InLoop DEF AtomicsInv, AtomicsTypeInv
  <1>3. atmp[x] = word BY <1>1 DEF AtomicsInv, LoadsFresh
  <1>4. ~LrSc(call[x], word, TRUE).leaves BY <1>1, <1>3 DEF AtomicsInv, Poised
  <1>5. StoresWell(call[x]) BY <1>2, LoopCorrect
  <1>6. /\ word' = LrSc(call[x], word, TRUE).new
        /\ Done(x, call[x], LrSc(call[x], word, TRUE).ret)
    BY <1>3 DEF sc
  <1>7. Promised(call[x], Signed(word'), LrSc(call[x], word, TRUE).ret)
    BY <1>4, <1>5, <1>6 DEF StoresWell
  <1> QED BY <1>2, <1>6, <1>7, DoneIsAtomic

LEMMA PutIsAtomic ==
  ASSUME AtomicsInv, NEW x \in Contexts, sysriscv_put(x)
  PROVE  Atomic!Next
  <1>1. apc[x] = "put" BY DEF sysriscv_put, At
  <1>2. /\ Looping(call[x]) /\ word \in Words /\ type \in Types /\ type = "sysriscv"
        /\ word = call[x].i /\ atmp[x] = word
    BY <1>1 DEF AtomicsInv, AtomicsTypeInv, Poised
  <1>3. CASE Write(x, call[x].u) /\ Done(x, call[x], Signed(atmp[x]))
    <2>1. call[x].name = "cmpxchg" BY <1>2, LoopingFacts DEF Loops
    <2>2. /\ LrSc(call[x], word, TRUE) = cmpxchg(call[x], word)
          /\ ~cmpxchg(call[x], word).leaves
          /\ cmpxchg(call[x], word).new = call[x].u
          /\ cmpxchg(call[x], word).ret = Signed(word)
      <3>1. LrSc(call[x], word, TRUE) = cmpxchg(call[x], word) BY <2>1 DEF LrSc
      <3>2. cmpxchg(call[x], word).leaves <=> word # call[x].i BY DEF cmpxchg, Loop
      <3>3. cmpxchg(call[x], word).new = call[x].u /\ cmpxchg(call[x], word).ret = Signed(word)
        BY DEF cmpxchg, Loop
      <3> QED BY <1>2, <3>1, <3>2, <3>3
    <2>3. StoresWell(call[x]) BY <1>2, LoopCorrect
    <2>4. Promised(call[x], Signed(call[x].u), Signed(word)) BY <2>2, <2>3 DEF StoresWell
    <2>5. word' = call[x].u BY <1>3 DEF Write
    <2>6. Promised(call[x], Signed(word'), Signed(word)) BY <2>4, <2>5
    <2>7. Done(x, call[x], Signed(word)) BY <1>2, <1>3
    <2> QED BY <1>2, <2>6, <2>7, DoneIsAtomic
  <1>4. CASE UNCHANGED <<word, aresv>> /\ Done(x, call[x], EFAULT)
    BY <1>2, <1>4, FaultIsAtomic
  <1> QED BY <1>3, <1>4 DEF sysriscv_put

(* atomic.h, atomic64.h, bitops.h, cmpxchg.h, sys_riscv.c: whatever other  *)
(* harts store and handlers do between the instructions of a loop, every   *)
(* operation takes effect at once, on the value it found, and returns what *)
(* its comment says.                                                       *)
THEOREM OperationsAreAtomic == AtomicsSpec => AtomicSpec
  <1>1. AtomicsInit => Atomic!Init
    <2> SUFFICES ASSUME AtomicsInit PROVE Atomic!Init
      OBVIOUS
    <2>1. type \in Types /\ word \in Words BY CallsAssumption DEF AtomicsInit
    <2>2. Signed(word) \in Atomic!Words BY <2>1, SignedWord, AbstractTerms
    <2> QED BY <2>2 DEF AtomicsInit, Atomic!Init
  <1>2. AtomicsInv /\ [AtomicsNext]_atomicVars => [Atomic!Next]_<<type, Bits[type], Signed(word), out>>
    <2> SUFFICES ASSUME AtomicsInv, [AtomicsNext]_atomicVars
                 PROVE  Atomic!Next \/ UNCHANGED <<type, Bits[type], Signed(word), out>>
      OBVIOUS
    <2>1. ASSUME NEW x \in Contexts, NEW c \in Calls, Make(x, c) PROVE Atomic!Next
      BY <2>1, MakeIsAtomic
    <2>2. ASSUME NEW x \in Contexts, lr(x) \/ sc(x) \/ sysriscv_put(x) PROVE Atomic!Next
      BY <2>2, LrIsAtomic, ScIsAtomic, PutIsAtomic
    <2>3. ASSUME NEW x \in Contexts, sc_fails(x) PROVE Atomic!Next
      BY <2>3, QuietIsAtomic DEF sc_fails
    <2>4. ASSUME NEW i \in Irqs, HandlerEnter(i) \/ HandlerSret(i) PROVE Atomic!Next
      BY <2>4, QuietIsAtomic DEF HandlerEnter, HandlerSret
    <2>5. ASSUME NEW h \in Harts, DropReservation(h) PROVE Atomic!Next
      BY <2>5, QuietIsAtomic DEF DropReservation
    <2>6. CASE UNCHANGED atomicVars
      BY <2>6 DEF atomicVars, Signed, Mod
    <2> QED BY <2>1, <2>2, <2>3, <2>4, <2>5, <2>6 DEF AtomicsNext, Continue
  <1> QED BY <1>1, <1>2, AtomicsInvariance, PTL DEF AtomicsSpec, AtomicSpec, Atomic!Spec
=============================================================================

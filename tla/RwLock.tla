------------------------------- MODULE RwLock -------------------------------
(***************************************************************************)
(* The reader/writer lock of include/asm/spinlock.h, one action per        *)
(* instruction that touches the lock word: 0 is free, n > 0 is n readers,  *)
(* -1 is a writer.  lr.w reads the word and reserves it for the hart,      *)
(* sc.w stores only while the reservation stands.                          *)
(*                                                                         *)
(* A reservation belongs to a hart, not to a flow of control: a task and   *)
(* the interrupt handler that preempts it share one.  So the actors are    *)
(* the contexts of each hart, and the sret that ends a handler             *)
(* (kernel/entry.S) is a step of the lock's protocol.                      *)
(***************************************************************************)
EXTENDS Integers, Contexts

VARIABLES
  lock,       \* arch_rwlock_t.lock, read as the signed word bltz tests
  resv,       \* resv[h]: hart h's reservation on the word stands
  pc,         \* pc[x]: where context x is
  op,         \* op[x]: the operation it is in
  tmp         \* tmp[x]: the word its last lr.w returned

vars == <<lock, resv, pc, op, tmp>>

ReadOps  == {"arch_read_lock", "arch_read_trylock"}
WriteOps == {"arch_write_lock", "arch_write_trylock"}
TryOps   == {"arch_read_trylock", "arch_write_trylock"}
Ops      == ReadOps \cup WriteOps

TypeOK ==
  /\ lock \in -1 .. Cardinality(Contexts)
  /\ resv \in [Harts -> BOOLEAN]
  /\ pc \in [Contexts -> {"off", "idle", "lr", "sc", "held"}]
  /\ op \in [Contexts -> Ops \cup {"none"}]
  /\ tmp \in [Contexts -> Int]

Init ==
  /\ lock = 0
  /\ resv = [h \in Harts |-> FALSE]
  /\ pc = [x \in Contexts |-> IF x \in Irqs THEN "off" ELSE "idle"]
  /\ op = [x \in Contexts |-> "none"]
  /\ tmp = [x \in Contexts |-> 0]

(* A handler runs to its end before the task it interrupted goes on. *)
Active(x) ==
  IF x \in Irqs THEN pc[x] # "off"
  ELSE \A i \in Irqs : HartOf[i] = HartOf[x] => pc[i] = "off"

(* The callers.  Handlers never spin for writing, and tasks write with     *)
(* interrupts off (write_lock_irq): the kernel's rule for a lock that      *)
(* handlers read.                                                          *)
Begin(x, o) ==
  /\ Active(x) /\ pc[x] = "idle"
  /\ x \in Irqs => o # "arch_write_lock"
  /\ pc' = [pc EXCEPT ![x] = "lr"]
  /\ op' = [op EXCEPT ![x] = o]
  /\ UNCHANGED <<lock, resv, tmp>>

IrqEnter(i) ==
  /\ i \in Irqs /\ pc[i] = "off"
  /\ \A t \in Tasks : HartOf[t] = HartOf[i] => op[t] \notin WriteOps
  /\ pc' = [pc EXCEPT ![i] = "idle"]
  /\ UNCHANGED <<lock, resv, op, tmp>>

(* Mutant: an exception return that leaves the reservation standing. *)
M_SretKeepsReservation(i) ==
  /\ i \in Irqs /\ pc[i] = "idle"
  /\ pc' = [pc EXCEPT ![i] = "off"]
  /\ UNCHANGED <<lock, resv, op, tmp>>

(* sret: RISC-V requires that an sc.w fails when its hart executed an      *)
(* exception return since the lr.w.                                        *)
Sret(i) ==
  /\ i \in Irqs /\ pc[i] = "idle"
  /\ pc' = [pc EXCEPT ![i] = "off"]
  /\ resv' = [resv EXCEPT ![HartOf[i]] = FALSE]
  /\ UNCHANGED <<lock, op, tmp>>

(* An implementation may drop a reservation at any time. *)
LoseReservation(h) ==
  /\ resv[h]
  /\ resv' = [resv EXCEPT ![h] = FALSE]
  /\ UNCHANGED <<lock, pc, op, tmp>>

-----------------------------------------------------------------------------
(* Mutant: the word tested as the unsigned int it is declared as. *)
M_BusyUnsigned(o, v) == o \in WriteOps /\ v # 0

(* bltz for a reader, bnez for a writer. *)
Busy(o, v) == IF o \in ReadOps THEN v < 0 ELSE v # 0

(* The word sc.w stores: addi %1, %1, 1 or li %1, -1. *)
NewWord(o, v) == IF o \in ReadOps THEN v + 1 ELSE -1

(* lr.w and the branch after it: a lock operation retries, a trylock       *)
(* returns 0 with the reservation still standing.                          *)
LoadReserved(x) ==
  /\ Active(x) /\ pc[x] = "lr"
  /\ resv' = [resv EXCEPT ![HartOf[x]] = TRUE]
  /\ IF Busy(op[x], lock)
     THEN /\ pc' = [pc EXCEPT ![x] = IF op[x] \in TryOps THEN "idle" ELSE "lr"]
          /\ op' = [op EXCEPT ![x] = IF op[x] \in TryOps THEN "none" ELSE @]
          /\ UNCHANGED tmp
     ELSE /\ pc' = [pc EXCEPT ![x] = "sc"]
          /\ tmp' = [tmp EXCEPT ![x] = lock]
          /\ UNCHANGED op
  /\ UNCHANGED lock

(* A store by hart h takes the other harts' reservations away. *)
OnlyOwnReservation(h) == [g \in Harts |-> g = h /\ resv[g]]

(* sc.w with a reservation: the store happens and the lock is held. *)
StoreConditional(x) ==
  /\ Active(x) /\ pc[x] = "sc" /\ resv[HartOf[x]]
  /\ lock' = NewWord(op[x], tmp[x])
  /\ resv' = [h \in Harts |-> FALSE]
  /\ pc' = [pc EXCEPT ![x] = "held"]
  /\ tmp' = [tmp EXCEPT ![x] = 0]
  /\ UNCHANGED op

(* sc.w without one: nothing is stored and bnez goes back to the lr.w. *)
StoreConditionalFails(x) ==
  /\ Active(x) /\ pc[x] = "sc" /\ ~resv[HartOf[x]]
  /\ pc' = [pc EXCEPT ![x] = "lr"]
  /\ tmp' = [tmp EXCEPT ![x] = 0]
  /\ UNCHANGED <<lock, resv, op>>

Release(x, word) ==
  /\ lock' = word
  /\ resv' = OnlyOwnReservation(HartOf[x])
  /\ pc' = [pc EXCEPT ![x] = "idle"]
  /\ op' = [op EXCEPT ![x] = "none"]
  /\ UNCHANGED tmp

(* Mutants: the reader's unlock leaves the word; the writer's decrements   *)
(* it.                                                                     *)
M_ReadUnlockKeeps(x) ==
  Active(x) /\ pc[x] = "held" /\ op[x] \in ReadOps /\ Release(x, lock)

(* amoadd.w.rl of -1. *)
arch_read_unlock(x) ==
  /\ Active(x) /\ pc[x] = "held" /\ op[x] \in ReadOps
  /\ Release(x, lock - 1)

(* amoswap.w.rl of 0. *)
arch_write_unlock(x) ==
  /\ Active(x) /\ pc[x] = "held" /\ op[x] \in WriteOps
  /\ Release(x, 0)

-----------------------------------------------------------------------------
Step(x) ==
  \/ LoadReserved(x) \/ StoreConditional(x) \/ StoreConditionalFails(x)
  \/ arch_read_unlock(x) \/ arch_write_unlock(x)

Next ==
  \/ \E x \in Contexts : Step(x) \/ \E o \in Ops : Begin(x, o)
  \/ \E i \in Irqs : IrqEnter(i) \/ Sret(i)
  \/ \E h \in Harts : LoseReservation(h)

Spec == Init /\ [][Next]_vars

(* A hart keeps executing: handlers end, an interrupted task is resumed,   *)
(* and the ISA guarantees that a short lr/sc loop that is retried for ever *)
(* succeeds.  Nothing makes a context begin an operation, an interrupt     *)
(* arrive or a reservation vanish.                                         *)
Fairness ==
  /\ \A x \in Contexts : SF_vars(Step(x)) /\ SF_vars(StoreConditional(x))
  /\ \A i \in Irqs : SF_vars(Sret(i))

FairSpec == Spec /\ Fairness

-----------------------------------------------------------------------------
Readers == {x \in Contexts : pc[x] = "held" /\ op[x] \in ReadOps}
Writers == {x \in Contexts : pc[x] = "held" /\ op[x] \in WriteOps}

(* spinlock.h: a writer is alone, whatever handler runs between another    *)
(* context's lr.w and its sc.w.                                            *)
MutualExclusion ==
  \A w \in Writers : Writers = {w} /\ Readers = {}

(* The word counts the readers exactly, or says there is a writer: no      *)
(* increment is lost between an lr.w and its sc.w.                         *)
WordCountsHolders ==
  lock = IF Writers # {} THEN -1 ELSE Cardinality(Readers)

(* A reservation that stands vouches for the value its own context read:   *)
(* what makes the sc.w of a preempted loop safe.                           *)
ReservationFresh ==
  \A x \in Contexts :
     Active(x) /\ pc[x] = "sc" /\ resv[HartOf[x]] => tmp[x] = lock

Spinning(x) == pc[x] \in {"lr", "sc"} /\ op[x] \notin TryOps

(* A context that spins for the lock does not spin on a lock nobody ever   *)
(* holds again: unlocking leaves a word that lets some waiter in.          *)
LockProgress ==
  (\E x \in Contexts : Spinning(x)) ~> (Readers \cup Writers # {})

(* The instruction sequences implement the abstract reader/writer lock.    *)
Abstract == INSTANCE AbstractRwLock WITH readers <- Readers, writers <- Writers
AbstractSpec == Abstract!Spec
=============================================================================

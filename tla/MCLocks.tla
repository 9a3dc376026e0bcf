------------------------------ MODULE MCLocks -------------------------------
(***************************************************************************)
(* Two harts with a task each, the first also takes interrupts.  They use  *)
(* a reader/writer lock, a spin lock, or an atomic variable.  Every call   *)
(* of Atomics is made while the variable is at rest, a few while others    *)
(* are under way.                                                          *)
(***************************************************************************)
EXTENDS RwLock, SpinLock, Atomics, TLC

CONSTANTS h1, h2, t1, t2, i1

VARIABLE scenario

allVars == <<scenario, vars, spinVars, atomicVars>>

MCHartOf == t1 :> h1 @@ i1 :> h1 @@ t2 :> h2
MCBits == [atomic |-> 2, atomic64 |-> 4, bitops |-> 3, sysriscv |-> 2]

C(t, n, i, u) == [type |-> t, name |-> n, i |-> i, u |-> u]

StormCalls ==
  {C("atomic", "add", 1, 0), C("atomic", "cmpxchg", 1, 3), C("atomic", "add_unless", 1, 3),
   C("atomic64", "dec", 0, 0), C("atomic64", "dec_if_positive", 0, 0)}
  \cup {C("sysriscv", "cmpxchg", i, u) : i, u \in 0 .. 1}

AmoNames ==
  {"read", "set", "add", "sub", "add_return", "sub_return", "inc", "dec", "inc_return", "dec_return",
   "sub_and_test", "inc_and_test", "dec_and_test", "add_negative", "xchg", "and", "or", "xor"}
BitNames ==
  {"set_bit", "clear_bit", "change_bit", "test_and_set_bit", "test_and_clear_bit", "test_and_change_bit"}

CalmCalls ==
  {C(t, n, i, 0) : t \in {"atomic", "atomic64"}, n \in AmoNames, i \in {0, 1, 3, 6, 8, 13}}
  \cup {C("bitops", n, i, 0) : n \in BitNames, i \in 0 .. 2}
  \cup {C(t, n, i, u) : t \in {"atomic", "atomic64"}, n \in {"cmpxchg", "add_unless"}, i \in {1, 3, 7}, u \in {0, 2}}
  \cup {C("atomic64", "inc_not_zero", 0, 0)}

MCCalls == {c \in StormCalls \cup CalmCalls : c.i < Pow2[MCBits[c.type]] /\ c.u < Pow2[MCBits[c.type]]}

Calm == out = <<>> /\ \A h \in Harts : ~aresv[h] /\ \A x \in Contexts : apc[x] \in {"off", "idle"}
Storm == \A x \in Contexts : call[x] \in StormCalls \cup {None}
CallsNow(x) == IF Calm /\ x = t1 THEN MCCalls ELSE IF Storm THEN StormCalls ELSE {}

MCInit ==
  /\ scenario \in {"rwlock", "spinlock", "atomics"}
  /\ Init /\ SpinInit
  /\ AtomicsInit /\ (scenario # "atomics" => type = "atomic" /\ word = 0)

MCNext ==
  /\ UNCHANGED scenario
  /\ \/ scenario = "rwlock" /\ Next /\ UNCHANGED <<spinVars, atomicVars>>
     \/ scenario = "spinlock" /\ SpinNext /\ UNCHANGED <<vars, atomicVars>>
     \/ /\ scenario = "atomics" /\ UNCHANGED <<vars, spinVars>>
        /\ Continue \/ \E x \in Contexts : \E c \in CallsNow(x) : Make(x, c)

(* Where a lock is not used nothing of it can be done, and its fairness    *)
(* asks for nothing.                                                       *)
MCSpec ==
  /\ MCInit /\ [][MCNext]_allVars
  /\ Fairness
  /\ \A c \in Cpus : WF_spinVars(SpinStep(c))

(* spinlock.h: a lock that harts wait for is taken by one of them, of both *)
(* kinds of lock.                                                          *)
Progress == LockProgress /\ SpinProgress
=============================================================================

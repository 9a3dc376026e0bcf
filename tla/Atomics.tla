------------------------------ MODULE Atomics -------------------------------
(***************************************************************************)
(* The atomic operations: asm/atomic.h, asm/atomic64.h, asm/cmpxchg.h and  *)
(* asm/bitops.h on one variable, most of them one AMO instruction, the     *)
(* others loops of lr and sc; and the compare-and-exchange that            *)
(* kernel/sys_riscv.c offers to programs of a hart that has neither.       *)
(* Contexts, handlers and reservations are those of RwLock.                *)
(***************************************************************************)
EXTENDS Integers, Binary, Contexts

CONSTANTS
  BootHart,    \* the hart of a machine that has one
  Bits,        \* Bits[t]: the width of a variable of type t
  Calls,       \* records [type, name, i, u]: a call and its arguments
  None, EFAULT

Types == {"atomic", "atomic64", "bitops", "sysriscv"}

VARIABLES
  type,        \* the type of the variable
  word,        \* its value, unsigned
  aresv,        \* aresv[h]: hart h's reservation stands
  apc,          \* apc[x]: "off", "idle", "lr", "retry" (an lr after an sc), "sc", "put"
  call, atmp,   \* the call of x, and what its lr or __get_user returned
  out          \* the call that returned in the last step, and its result

atomicVars == <<type, word, aresv, apc, call, atmp, out>>

Mod == Pow2[Bits[type]]
Half == Pow2[Bits[type] \div 2]
Words == 0 .. Mod - 1
Signed(v) == IF v < Mod \div 2 THEN v ELSE v - Mod
Minus(v) == (Mod - v) % Mod

(* The bits of a word, and the word with given bits. *)
Ones(v) == BitSet(v, Bits[type])
WordOf(ones) == CHOOSE v \in Words : Ones(v) = ones

-----------------------------------------------------------------------------
(* Single instructions: the instruction, its operand, and what the         *)
(* function makes of the old value.                                        *)
Amo(insn, operand, ret) == [insn |-> insn, operand |-> operand, ret |-> ret]

arith == [
  read |-> Amo("load", "i", "old"),          set |-> Amo("swap", "i", "void"),
  add |-> Amo("add", "i", "void"),           sub |-> Amo("add", "-i", "void"),
  add_return |-> Amo("add", "i", "new"),     sub_return |-> Amo("add", "-i", "new"),
  inc |-> Amo("add", "1", "void"),           dec |-> Amo("add", "-1", "void"),
  inc_return |-> Amo("add", "1", "new"),     dec_return |-> Amo("add", "-1", "new")]

tests == [
  sub_and_test |-> Amo("add", "-i", "zero"), inc_and_test |-> Amo("add", "1", "zero"),
  dec_and_test |-> Amo("add", "-1", "zero"), add_negative |-> Amo("add", "i", "negative"),
  xchg |-> Amo("swap", "i", "old")]

logic == [
  and |-> Amo("and", "i", "void"), or |-> Amo("or", "i", "void"), xor |-> Amo("xor", "i", "void")]

bitops == [
  test_and_set_bit |-> Amo("or", "mask", "bit"),    set_bit |-> Amo("or", "mask", "void"),
  test_and_clear_bit |-> Amo("and", "~mask", "bit"), clear_bit |-> Amo("and", "~mask", "void"),
  test_and_change_bit |-> Amo("xor", "mask", "bit"), change_bit |-> Amo("xor", "mask", "void")]

(* The functions of atomic64.h are the same, with .d for .w. *)
atomic64_arith == arith
atomic64_tests == tests
atomic64_logic == logic

Functions(t) ==
  CASE t = "atomic" -> <<arith, tests, logic>>
    [] t = "atomic64" -> <<atomic64_arith, atomic64_tests, atomic64_logic>>
    [] t = "bitops" -> <<bitops>>
    [] t = "sysriscv" -> <<>>

Tables(c) == {k \in DOMAIN Functions(c.type) : c.name \in DOMAIN Functions(c.type)[k]}
IsAmo(c) == Tables(c) # {}
Insn(c) == Functions(c.type)[CHOOSE k \in Tables(c) : TRUE][c.name]

BIT_MASK(nr) == Pow2[nr]
Operand(c) ==
  CASE Insn(c).operand = "i" -> c.i       [] Insn(c).operand = "-i" -> Minus(c.i)
    [] Insn(c).operand = "1" -> 1         [] Insn(c).operand = "-1" -> Minus(1)
    [] Insn(c).operand = "mask" -> BIT_MASK(c.i)
    [] Insn(c).operand = "~mask" -> Mod - 1 - BIT_MASK(c.i)

Stored(c) ==
  CASE Insn(c).insn = "add" -> (word + Operand(c)) % Mod
    [] Insn(c).insn = "swap" -> Operand(c)
    [] Insn(c).insn = "and" -> WordOf(Ones(word) \cap Ones(Operand(c)))
    [] Insn(c).insn = "or" -> WordOf(Ones(word) \cup Ones(Operand(c)))
    [] Insn(c).insn = "xor" -> WordOf((Ones(word) \ Ones(Operand(c))) \cup (Ones(Operand(c)) \ Ones(word)))
    [] Insn(c).insn = "load" -> word

Result(c) ==
  LET sum == (word + Operand(c)) % Mod IN
  CASE Insn(c).ret = "void" -> "void"     [] Insn(c).ret = "old" -> Signed(word)
    [] Insn(c).ret = "new" -> Signed(sum) [] Insn(c).ret = "zero" -> sum = 0
    [] Insn(c).ret = "negative" -> Signed(sum) < 0
    [] Insn(c).ret = "bit" -> WordOf(Ones(word) \cap Ones(BIT_MASK(c.i))) # 0

-----------------------------------------------------------------------------
(* Loops: at which values they leave after the lr, what the sc stores, and *)
(* the results, of leaving (after an sc that failed or not) and of storing. *)
Loop(leaves, new, left, ret) == [leaves |-> leaves, new |-> new, left |-> left, ret |-> ret]

cmpxchg(c, v) == Loop(v # c.i, c.u, {Signed(v)}, Signed(v))

__atomic_add_unless(c, v) == Loop(v = c.u, (v + c.i) % Mod, {Signed(v)}, Signed(v))

(* rc is an output of the asm only: unless an sc has failed, it has no     *)
(* value when the loop is left.                                            *)
atomic64_add_unless(c, v, tried) ==
  Loop(v = c.u, (v + c.i) % Mod, IF tried THEN {FALSE} ELSE BOOLEAN, TRUE)

(* The value is loaded with lr.d and stored with sc.w. *)
atomic64_dec_if_positive(v) ==
  LET prev == (v + Minus(1)) % Mod IN
  Loop(Signed(prev) < 0, Half * (v \div Half) + (prev % Half), {Signed(prev)}, Signed(prev))

Loops(t) ==
  CASE t = "atomic" -> {"cmpxchg", "add_unless"}
    [] t = "atomic64" -> {"cmpxchg", "add_unless", "inc_not_zero", "dec_if_positive"}
    [] t = "bitops" -> {}
    [] t = "sysriscv" -> {"cmpxchg"}

(* A variable has bits, a call is of a function of its type, and its       *)
(* arguments are words, or the number of a bit.                            *)
ASSUME CallsAssumption ==
  /\ Bits \in [Types -> Nat \ {0}]
  /\ \A c \in Calls :
       /\ c.type \in Types /\ (IsAmo(c) \/ c.name \in Loops(c.type))
       /\ {c.i, c.u} \subseteq 0 .. Pow2[Bits[c.type]] - 1
       /\ c.type = "bitops" => c.i < Bits["bitops"]
       /\ c = [type |-> c.type, name |-> c.name, i |-> c.i, u |-> c.u]

LrSc(c, v, tried) ==
  CASE c.name = "cmpxchg" -> cmpxchg(c, v)
    [] c.name = "add_unless" /\ c.type = "atomic" -> __atomic_add_unless(c, v)
    [] c.name = "add_unless" /\ c.type = "atomic64" -> atomic64_add_unless(c, v, tried)
    [] c.name = "inc_not_zero" -> atomic64_add_unless([c EXCEPT !.i = 1, !.u = 0], v, tried)
    [] c.name = "dec_if_positive" -> atomic64_dec_if_positive(v)

-----------------------------------------------------------------------------
HandlerOff(h) == \A i \in Irqs : HartOf[i] = h => apc[i] = "off"
Running(x) == IF x \in Irqs THEN apc[x] # "off" ELSE HandlerOff(HartOf[x])

(* Mutant: sysriscv leaves interrupts on. *)
M_HandlerEnterAlways(i) ==
  /\ apc[i] = "off"
  /\ apc' = [apc EXCEPT ![i] = "idle"] /\ out' = <<>>
  /\ UNCHANGED <<type, word, aresv, call, atmp>>

(* A handler, or another task, preempts; not where sysriscv forbids it. *)
HandlerEnter(i) ==
  /\ apc[i] = "off"
  /\ \A x \in Contexts : HartOf[x] = HartOf[i] => apc[x] # "put"
  /\ apc' = [apc EXCEPT ![i] = "idle"] /\ out' = <<>>
  /\ UNCHANGED <<type, word, aresv, call, atmp>>

HandlerSret(i) ==
  /\ apc[i] = "idle" /\ apc' = [apc EXCEPT ![i] = "off"] /\ out' = <<>>
  /\ aresv' = [aresv EXCEPT ![HartOf[i]] = FALSE]
  /\ UNCHANGED <<type, word, call, atmp>>

DropReservation(h) ==
  /\ aresv[h] /\ aresv' = [aresv EXCEPT ![h] = FALSE] /\ out' = <<>>
  /\ UNCHANGED <<type, word, apc, call, atmp>>

At(x, where) == Running(x) /\ apc[x] = where

(* x has stored v; the call c of it returns r. *)
Write(x, v) == word' = v /\ aresv' = [h \in Harts |-> h = HartOf[x] /\ aresv[h]]
Done(x, c, r) ==
  /\ out' = <<c, r>>
  /\ apc' = [apc EXCEPT ![x] = "idle"] /\ call' = [call EXCEPT ![x] = None]
  /\ atmp' = [atmp EXCEPT ![x] = 0] /\ UNCHANGED type

AtomicOp(x, c) ==
  /\ At(x, "idle") /\ IsAmo(c)
  /\ IF Insn(c).insn = "load" THEN UNCHANGED <<word, aresv>> ELSE Write(x, Stored(c))
  /\ Done(x, c, Result(c))

BeginLoop(x, c) ==
  /\ At(x, "idle") /\ ~IsAmo(c) /\ c.type # "sysriscv"
  /\ call' = [call EXCEPT ![x] = c] /\ apc' = [apc EXCEPT ![x] = "lr"] /\ out' = <<>>
  /\ UNCHANGED <<type, word, aresv, atmp>>

lr(x) ==
  /\ At(x, "lr") \/ At(x, "retry")
  /\ aresv' = [aresv EXCEPT ![HartOf[x]] = TRUE] /\ UNCHANGED word
  /\ LET loop == LrSc(call[x], word, apc[x] = "retry") IN
     IF loop.leaves THEN \E r \in loop.left : Done(x, call[x], r)
     ELSE /\ atmp' = [atmp EXCEPT ![x] = word] /\ apc' = [apc EXCEPT ![x] = "sc"]
          /\ out' = <<>> /\ UNCHANGED <<type, call>>

sc(x) ==
  /\ At(x, "sc") /\ aresv[HartOf[x]]
  /\ LET loop == LrSc(call[x], atmp[x], TRUE) IN
       word' = loop.new /\ aresv' = [h \in Harts |-> FALSE] /\ Done(x, call[x], loop.ret)

sc_fails(x) ==
  /\ At(x, "sc") /\ ~aresv[HartOf[x]]
  /\ apc' = [apc EXCEPT ![x] = "retry"] /\ atmp' = [atmp EXCEPT ![x] = 0] /\ out' = <<>>
  /\ UNCHANGED <<type, word, aresv, call>>

(* sysriscv, RISCV_ATOMIC_CMPXCHG.  Interrupts and preemption are off from *)
(* __get_user to __put_user, and there is one hart.  A page fault on       *)
(* either access finds in_atomic() and fails it.                           *)
sysriscv_get(x, c) ==
  /\ At(x, "idle") /\ c.type = "sysriscv" /\ UNCHANGED <<word, aresv>>
  /\ \/ Done(x, c, EFAULT)
     \/ word # c.i /\ Done(x, c, Signed(word))
     \/ /\ word = c.i /\ call' = [call EXCEPT ![x] = c] /\ atmp' = [atmp EXCEPT ![x] = word]
        /\ apc' = [apc EXCEPT ![x] = "put"] /\ out' = <<>> /\ UNCHANGED type

sysriscv_put(x) ==
  /\ At(x, "put")
  /\ \/ Write(x, call[x].u) /\ Done(x, call[x], Signed(atmp[x]))
     \/ UNCHANGED <<word, aresv>> /\ Done(x, call[x], EFAULT)

AtomicsInit ==
  /\ type \in DOMAIN Bits /\ word \in Words
  /\ aresv = [h \in Harts |-> FALSE]
  /\ apc = [x \in Contexts |-> IF x \in Irqs THEN "off" ELSE "idle"]
  /\ call = [x \in Contexts |-> None] /\ atmp = [x \in Contexts |-> 0] /\ out = <<>>

(* Context x makes call c.  The programs that sysriscv serves run on a     *)
(* machine of one hart.                                                    *)
Make(x, c) ==
  /\ c.type = type /\ (type = "sysriscv" => HartOf[x] = BootHart)
  /\ AtomicOp(x, c) \/ BeginLoop(x, c) \/ sysriscv_get(x, c)

Continue ==
  \/ \E x \in Contexts :
       lr(x) \/ sc(x) \/ sc_fails(x) \/ sysriscv_put(x)
  \/ \E i \in Irqs : HandlerEnter(i) \/ HandlerSret(i)
  \/ \E h \in Harts : DropReservation(h)

AtomicsNext == Continue \/ \E x \in Contexts, c \in Calls : Make(x, c)

AtomicsSpec == AtomicsInit /\ [][AtomicsNext]_atomicVars

-----------------------------------------------------------------------------
(* atomic.h, atomic64.h, bitops.h, cmpxchg.h, sys_riscv.c: whatever other  *)
(* harts store and handlers do between the instructions of a loop, every   *)
(* operation takes effect at once, on the value it found and no other, and *)
(* returns what its comment says.                                          *)
Atomic == INSTANCE AbstractAtomic WITH bits <- Bits[type], word <- Signed(word)
AtomicSpec == Atomic!Spec
=============================================================================

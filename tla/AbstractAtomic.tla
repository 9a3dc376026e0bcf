--------------------------- MODULE AbstractAtomic ---------------------------
(***************************************************************************)
(* What the comments of asm/atomic.h, atomic64.h, bitops.h and cmpxchg.h   *)
(* promise: every operation takes effect at once, and returns what its     *)
(* comment says, in terms of the old and the new value.                    *)
(***************************************************************************)
EXTENDS Integers, Binary

CONSTANT EFAULT

VARIABLES
  type, bits,   \* the variable's type, and how wide it is
  word,         \* its value, signed
  out           \* the call that returned last, and its result

Words == -Pow2[bits - 1] .. Pow2[bits - 1] - 1
BitsOf(v) == BitSet(v, bits)
Same(v, w) == (v - w) % Pow2[bits] = 0

Amount(c) ==
  CASE c.name \in {"add", "add_return", "add_negative", "add_unless"} -> c.i
    [] c.name \in {"sub", "sub_return", "sub_and_test"} -> -c.i
    [] c.name \in {"inc", "inc_return", "inc_and_test", "inc_not_zero"} -> 1
    [] OTHER -> -1

Excluded(c) == IF c.name = "inc_not_zero" THEN 0 ELSE c.u

(* The new value w. *)
Becomes(c, w) ==
  CASE c.name = "read" -> w = word
    [] c.name \in {"set", "xchg"} -> Same(w, c.i)
    [] c.name = "or" -> BitsOf(w) = BitsOf(word) \cup BitsOf(c.i)
    [] c.name = "and" -> BitsOf(w) = BitsOf(word) \cap BitsOf(c.i)
    [] c.name = "xor" -> \A b \in 0 .. bits - 1 :
         b \in BitsOf(w) <=> (b \in BitsOf(word)) # (b \in BitsOf(c.i))
    [] c.name \in {"set_bit", "test_and_set_bit"} -> BitsOf(w) = BitsOf(word) \cup {c.i}
    [] c.name \in {"clear_bit", "test_and_clear_bit"} -> BitsOf(w) = BitsOf(word) \ {c.i}
    [] c.name \in {"change_bit", "test_and_change_bit"} -> \A b \in 0 .. bits - 1 :
         b \in BitsOf(w) <=> (b \in BitsOf(word)) # (b = c.i)
    [] c.name = "cmpxchg" -> IF Same(word, c.i) THEN Same(w, c.u) ELSE w = word
    [] c.name \in {"add_unless", "inc_not_zero"} ->
         IF Same(word, Excluded(c)) THEN w = word ELSE Same(w, word + Amount(c))
    [] c.name = "dec_if_positive" -> w = IF word > 0 THEN word - 1 ELSE word
    [] OTHER -> Same(w, word + Amount(c))

(* The result r, when the new value is w. *)
Returns(c, w, r) ==
  CASE c.name \in {"read", "xchg", "cmpxchg"} -> r = word
    [] c.name \in {"add_return", "sub_return", "inc_return", "dec_return"} -> r = w
    [] c.name \in {"sub_and_test", "inc_and_test", "dec_and_test"} -> r = (w = 0)
    [] c.name = "add_negative" -> r = (w < 0)
    [] c.name \in {"test_and_set_bit", "test_and_clear_bit", "test_and_change_bit"} ->
         r = (c.i \in BitsOf(word))
    [] c.name = "add_unless" /\ type = "atomic" -> r = word
    [] c.name \in {"add_unless", "inc_not_zero"} /\ type # "atomic" -> r = ~Same(word, Excluded(c))
    [] c.name = "dec_if_positive" -> r = word - 1
    [] OTHER -> r = "void"

(* Where the code does not keep the promise: atomic64_dec_if_positive      *)
(* beyond the low half of the word, and what atomic64_add_unless returns   *)
(* when it adds nothing.                                                   *)
Unreliable(c) == c.name = "dec_if_positive" /\ word \notin 0 .. Pow2[bits \div 2] - 1
AnyResult(c) ==
  type = "atomic64" /\ c.name \in {"add_unless", "inc_not_zero"} /\ Same(word, Excluded(c))

(* Call c returns r.  The emulated operation may fail. *)
Do(c, r) ==
  \/ Becomes(c, word') /\ (Returns(c, word', r) \/ AnyResult(c))
  \/ Unreliable(c)
  \/ type = "sysriscv" /\ r = EFAULT /\ word' = word

Init == word \in Words /\ out = <<>>

Next ==
  /\ out' = <<>> \/ Do(out'[1], out'[2])
  /\ out' = <<>> => word' = word
  /\ UNCHANGED <<type, bits>>

Spec == Init /\ [][Next]_<<type, bits, word, out>>
=============================================================================

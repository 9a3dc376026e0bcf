------------------------------ MODULE Arithmetic ----------------------------
(***************************************************************************)
(* Arithmetic on double words: the number parser of drivers/config.c and   *)
(* do_div by a constant on RV32 (asm/div64.h).                             *)
(***************************************************************************)
EXTENDS Integers, Sequences, Binary

CONSTANTS
  Half,     \* bits of a uint32_t
  Digits    \* Digits[c]: the value of character c

(* A word is at least a byte; neither the underscore nor the zero behind a *)
(* string is a digit.                                                      *)
ASSUME HalfAssumption == Half \in Nat /\ Half >= 4
ASSUME DigitsAssumption ==
  /\ Digits \in [DOMAIN Digits -> 0 .. 15]
  /\ {"_", "nul"} \cap DOMAIN Digits = {}

VARIABLES
  routine,   \* what is called: "parse_u64" or "do_div" by a constant
  argument   \* the string, or the divisor

arithmeticVars == <<routine, argument>>

B32 == Pow2[Half]
B64 == B32 * B32
u32(x) == x % B32
u64(x) == x % B64

-----------------------------------------------------------------------------
(* parse_u64.  A string is a sequence of characters, behind which is a     *)
(* zero; where a parser stops is the number of characters it consumed.     *)
is_hex(c) == c \in DOMAIN Digits
is_dec(c) == is_hex(c) /\ Digits[c] < 10
is_gap(c) == c = "_"

Char(str, i) == IF i < Len(str) THEN str[i + 1] ELSE "nul"

(* Mutant: what is shifted out is not missed. *)
M_HexOverflows(res) == TRUE
hex_fits(res) == u64(res * 16) \div 16 = res

(* do_div leaves the quotient in its first argument, and returns the       *)
(* remainder.                                                              *)
dec_fits(res) == u64(res * 10) % 10 = res

takes(c, res, base) ==
  IF base = 16 THEN is_hex(c) /\ hex_fits(res) ELSE is_dec(c) /\ dec_fits(res)

(* One turn of the loop, for the i-th character: res * base + digit.       *)
(* A parser that has not consumed all that is before it has stopped.       *)
turn(str, base, i, s) ==
  CASE s.end = i - 1 /\ takes(str[i], s.res, base) ->
         [res |-> u64(s.res * base + Digits[str[i]]), end |-> i]
    [] s.end = i - 1 /\ is_gap(str[i]) -> [s EXCEPT !.end = i]
    [] OTHER -> s

(* From behind the first `start' characters on. *)
digits(str, start, base) ==
  LET scan[i \in Nat] ==
        IF i <= start THEN [res |-> 0, end |-> start] ELSE turn(str, base, i, scan[i - 1])
  IN  scan[Len(str)]

parse_u64_hex(str, i) == digits(str, i, 16)
parse_u64_dec(str, i) == digits(str, i, 10)

parse_u64(str) ==
  LET neg == Char(str, 0) = "-"
      i == IF neg THEN 1 ELSE 0
      r == IF Char(str, i) = "0" /\ Char(str, i + 1) = "x"
           THEN parse_u64_hex(str, i + 2) ELSE parse_u64_dec(str, i)
  IN  IF neg THEN [r EXCEPT !.res = u64(-@)] ELSE r

-----------------------------------------------------------------------------
(* __div64_const32: multiplication by the reciprocal.                      *)
ilog2(x) == CHOOSE k \in 0 .. 2 * Half : Pow2[k] <= x /\ x < Pow2[k + 1]
lowest_bit(x) == CHOOSE p \in {Pow2[k] : k \in 0 .. 2 * Half} : x % p = 0 /\ x % (2 * p) # 0
lo32(x) == x % B32
hi32(x) == x \div B32

Max64 == B64 - 1
MayOverflow(m) == BitSet(m, 2 * Half) \cap {2 * Half - 1, Half - 1} # {}

(* The carry out of a sum of double words that became s: into the high     *)
(* word of the sum, which is then shifted down.                            *)
Carry(s, addend) == IF s < addend THEN B32 ELSE 0

(* What the low product, to which m is added if the multiplication is      *)
(* biased, has above its low word.                                         *)
low_product(m, n, bias) ==
  LET low == lo32(m) * lo32(n) IN
  CASE ~bias -> hi32(low)
    [] bias /\ ~MayOverflow(m) -> hi32(u64(m + low))
    [] bias /\ MayOverflow(m) -> hi32(u64(m + low)) + Carry(u64(m + low), m)

(* Mutant: the carry of the cross products is lost. *)
M_NoCrossCarry(m, n, r) ==
  hi32(u64(u64(r + lo32(m) * hi32(n)) + hi32(m) * lo32(n)))

(* The cross products are added to that. *)
cross_products(m, n, r) ==
  LET t == u64(r + lo32(m) * hi32(n))
      s == u64(t + hi32(m) * lo32(n))
  IN  IF MayOverflow(m) THEN hi32(s) + Carry(s, t) ELSE hi32(s)

__arch_xprod_64(m, n, bias) ==
  u64(cross_products(m, n, low_product(m, n, bias)) + hi32(m) * hi32(n))

(* What is precomputed for the divisor b: the dividend is first divided by *)
(* pre, then multiplied with m, biased by m or not, and divided by p.      *)
reciprocal(b) ==
  LET p == Pow2[ilog2(b)]
      wrap == ((Max64 % b) + 1) * p          \* of 2^64 by b, times p
      m == u64((Max64 \div b) * p + (u64(wrap + b - 1) \div b))
      x == u64((Max64 \div b) * b - 1)
      exact == __arch_xprod_64(m, x, FALSE) \div p = x \div b
      odd == b \div lowest_bit(b)
      bits == {i \in 1 .. Half - 1 :
                 i - 1 \notin BitSet(u32(-lowest_bit(m)), Half) \cup BitSet(hi32(m), Half)}
      shift == IF bits = {} THEN lowest_bit(m)
               ELSE Pow2[CHOOSE i \in bits : \A j \in bits : j <= i]
  IN  CASE Max64 % odd = 0 -> [pre |-> lowest_bit(b), m |-> Max64 \div odd, p |-> 1, bias |-> TRUE]
        [] Max64 % odd # 0 /\ ~exact ->
             [pre |-> 1, m |-> u64((Max64 \div b) * p + (wrap \div b)), p |-> p, bias |-> TRUE]
        [] OTHER -> [pre |-> 1, m |-> m \div shift, p |-> p \div shift, bias |-> FALSE]

__div64_const32(n, b) ==
  LET r == reciprocal(b)
  IN  __arch_xprod_64(r.m, n \div r.pre, r.bias) \div r.p

is_power_of_2(b) == b = lowest_bit(b)

do_div(n, b) ==
  LET q == IF is_power_of_2(b) THEN n \div b ELSE __div64_const32(n, b)
  IN  [n |-> q, rem |-> IF is_power_of_2(b) THEN n % b ELSE u32(lo32(n) - lo32(q) * b)]

-----------------------------------------------------------------------------
(* What the characters behind the first `from' denote, up to the end-th.   *)
Denoted(str, from, end, base) ==
  LET value[i \in 0 .. end] ==
        IF i <= from THEN 0
        ELSE IF is_gap(str[i]) THEN value[i - 1] ELSE value[i - 1] * base + Digits[str[i]]
  IN  value[end]

(* config.c:88-151: a number never wraps: what the parser consumes are     *)
(* digits, what it returns is what they denote, and it leaves a            *)
(* hexadecimal digit unread only when the number would not fit with it.    *)
NumberRead(str) ==
  LET r == parse_u64(str)
      sign == IF Char(str, 0) = "-" THEN 1 ELSE 0
      hex == Char(str, sign) = "0" /\ Char(str, sign + 1) = "x"
      from == IF hex THEN sign + 2 ELSE sign
      d == Denoted(str, from, r.end, IF hex THEN 16 ELSE 10)
  IN  /\ r.end \in from .. Len(str)
      /\ \A i \in from + 1 .. r.end : is_gap(str[i]) \/ (IF hex THEN is_hex(str[i]) ELSE is_dec(str[i]))
      /\ d \in 0 .. B64 - 1
      /\ r.res = IF sign = 1 THEN u64(-d) ELSE d
      /\ hex /\ is_hex(Char(str, r.end)) => d * 16 + Digits[Char(str, r.end)] >= B64

(* div64.h: do_div by a constant divides, for every dividend: neither the  *)
(* rounding of the reciprocal nor an overflow of the cross products shows. *)
Divides(b) ==
  \A n \in 0 .. B64 - 1 : do_div(n, b) = [n |-> n \div b, rem |-> n % b]

-----------------------------------------------------------------------------
(* One call, with whatever string or divisor. *)
ArithmeticInit ==
  \/ routine = "parse_u64" /\ argument \in Seq(STRING)
  \/ routine = "do_div" /\ argument \in 1 .. B32 - 1

ArithmeticSpec == ArithmeticInit /\ [][UNCHANGED arithmeticVars]_arithmeticVars

(* div64.h, config.c:88-151: the numbers of the configuration string and   *)
(* the quotients of do_div are exact, in every width of a word.            *)
ArithmeticExact ==
  /\ routine = "parse_u64" => NumberRead(argument)
  /\ routine = "do_div" => Divides(argument)
=============================================================================

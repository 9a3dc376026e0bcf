--------------------------- MODULE NumberTheorems ---------------------------
(***************************************************************************)
(* Facts about numbers that several proofs need: induction, quotients and  *)
(* remainders, the powers of two and the bits of a number (Binary).        *)
(***************************************************************************)
EXTENDS Binary, WellFoundedInduction, TLAPS

(* Induction over the numbers, on sets. *)
LessThan == {ss \in Nat \X Nat : ss[1] < ss[2]}

LEMMA SetInduction ==
  ASSUME NEW S, 0 \in S, \A n \in Nat : n \in S => n + 1 \in S
  PROVE  Nat \subseteq S
  <1> SUFFICES ASSUME Nat \ S # {} PROVE FALSE
    OBVIOUS
  <1>1. IsWellFoundedOn(LessThan, Nat)
    BY NatLessThanWellFounded DEF OpToRel, LessThan
  <1>2. \E x \in Nat \ S : \A y \in Nat \ S : ~ (<<y, x>> \in LessThan)
    BY <1>1, WFMin
  <1>3. PICK x \in Nat \ S : \A y \in Nat \ S : ~ (<<y, x>> \in LessThan)
    BY <1>2
  <1>4. x # 0 OBVIOUS
  <1>5. x - 1 \in Nat /\ x - 1 + 1 = x /\ x - 1 < x BY <1>4
  <1>6. <<x - 1, x>> \in LessThan BY <1>5 DEF LessThan
  <1>7. x - 1 \in S BY <1>3, <1>5, <1>6
  <1>8. x - 1 + 1 \in S BY <1>5, <1>7
  <1> QED BY <1>5, <1>8

-----------------------------------------------------------------------------
(* Functions that are defined by recursion on a number: the value at n is  *)
(* g[n] of the value at n - 1.  The function is built from its beginnings. *)
Beginnings(V, a, g, m) ==
  {f \in [0 .. m -> V] : f[0] = a /\ \A i \in 1 .. m : f[i] = g[i][f[i - 1]]}

LEMMA BeginningsExist ==
  ASSUME NEW V, NEW a \in V, NEW g \in [Nat -> [V -> V]], NEW N \in Nat
  PROVE  Beginnings(V, a, g, N) # {}
  <1> DEFINE S == {m \in Nat : Beginnings(V, a, g, m) # {}}
  <1>1. 0 \in S
    <2>1. [i \in 0 .. 0 |-> a] \in Beginnings(V, a, g, 0) BY DEF Beginnings
    <2> QED BY <2>1
  <1>2. ASSUME NEW m \in Nat, m \in S PROVE m + 1 \in S
    <2>1. PICK f : f \in Beginnings(V, a, g, m) BY <1>2
    <2> DEFINE h == [i \in 0 .. m + 1 |-> IF i = m + 1 THEN g[m + 1][f[m]] ELSE f[i]]
    <2>2. f \in [0 .. m -> V] /\ m \in 0 .. m BY <2>1 DEF Beginnings
    <2>3. f[m] \in V /\ f[0] = a BY <2>1, <2>2 DEF Beginnings
    <2>4. g[m + 1] \in [V -> V] OBVIOUS
    <2>5. g[m + 1][f[m]] \in V BY <2>3, <2>4
    <2>6. ASSUME NEW i \in 0 .. m + 1 PROVE h[i] \in V
      <3>1. CASE i = m + 1 BY <2>5, <3>1
      <3>2. CASE i # m + 1
        <4>1. i \in 0 .. m BY <3>2
        <4> QED BY <2>2, <3>2, <4>1
      <3> QED BY <3>1, <3>2
    <2>7. h \in [0 .. m + 1 -> V] BY <2>6
    <2>8. h[0] = a BY <2>3
    <2>9. ASSUME NEW i \in 1 .. m + 1 PROVE h[i] = g[i][h[i - 1]]
      <3>1. CASE i = m + 1
        <4>1. i - 1 = m /\ m \in 0 .. m + 1 /\ i \in 0 .. m + 1 /\ m # m + 1 BY <3>1
        <4> QED BY <3>1, <4>1
      <3>2. CASE i # m + 1
        <4>1. i \in 1 .. m /\ i \in 0 .. m + 1 /\ i - 1 \in 0 .. m + 1 /\ i - 1 # m + 1
          BY <3>2
        <4>2. f[i] = g[i][f[i - 1]] BY <2>1, <4>1 DEF Beginnings
        <4> QED BY <3>2, <4>1, <4>2
      <3> QED BY <3>1, <3>2
    <2> HIDE DEF h
    <2>10. h \in Beginnings(V, a, g, m + 1) BY <2>7, <2>8, <2>9 DEF Beginnings
    <2> QED BY <2>10
  <1> HIDE DEF S
  <1>3. N \in S BY <1>1, <1>2, SetInduction
  <1> QED BY <1>3 DEF S

LEMMA BeginningsAgree ==
  ASSUME NEW V, NEW a \in V, NEW g \in [Nat -> [V -> V]], NEW m \in Nat, NEW k \in Nat,
         NEW f \in Beginnings(V, a, g, m), NEW h \in Beginnings(V, a, g, k),
         NEW n \in Nat, n <= m, n <= k
  PROVE  f[n] = h[n]
  <1> DEFINE S == {i \in Nat : i <= n => f[i] = h[i]}
  <1>1. 0 \in S BY DEF Beginnings
  <1>2. ASSUME NEW i \in Nat, i \in S PROVE i + 1 \in S
    <2> SUFFICES ASSUME i + 1 <= n PROVE f[i + 1] = h[i + 1]
      OBVIOUS
    <2>1. f[i] = h[i] BY <1>2
    <2>2. i + 1 \in 1 .. m /\ i + 1 \in 1 .. k /\ i + 1 - 1 = i OBVIOUS
    <2>3. f[i + 1] = g[i + 1][f[i + 1 - 1]] /\ h[i + 1] = g[i + 1][h[i + 1 - 1]]
      BY <2>2 DEF Beginnings
    <2> QED BY <2>1, <2>2, <2>3
  <1> HIDE DEF S
  <1>3. n \in S BY <1>1, <1>2, SetInduction
  <1> QED BY <1>3 DEF S

Recursive(V, a, g) ==
  {f \in [Nat -> V] : f[0] = a /\ \A n \in Nat : n # 0 => f[n] = g[n][f[n - 1]]}

LEMMA RecursionExists ==
  ASSUME NEW V, NEW a \in V, NEW g \in [Nat -> [V -> V]]
  PROVE  Recursive(V, a, g) # {}
  <1> DEFINE F(m) == CHOOSE f : f \in Beginnings(V, a, g, m)
             h == [n \in Nat |-> F(n)[n]]
  <1>1. \A m \in Nat : F(m) \in Beginnings(V, a, g, m) BY BeginningsExist
  <1>2. ASSUME NEW n \in Nat PROVE h[n] \in V
    <2>1. F(n) \in [0 .. n -> V] BY <1>1 DEF Beginnings
    <2> HIDE DEF F
    <2>2. n \in 0 .. n OBVIOUS
    <2> QED BY <2>1, <2>2
  <1>3. h[0] = a
    <2>1. F(0)[0] = a BY <1>1 DEF Beginnings
    <2> QED BY <2>1
  <1>4. ASSUME NEW n \in Nat, n # 0 PROVE h[n] = g[n][h[n - 1]]
    <2>1. n - 1 \in Nat /\ n \in 1 .. n /\ n - 1 <= n BY <1>4
    <2>2. F(n) \in Beginnings(V, a, g, n) /\ F(n - 1) \in Beginnings(V, a, g, n - 1) BY <1>1, <2>1
    <2> HIDE DEF F
    <2>3. F(n)[n] = g[n][F(n)[n - 1]] BY <2>1, <2>2 DEF Beginnings
    <2>4. F(n)[n - 1] = F(n - 1)[n - 1] BY <2>1, <2>2, BeginningsAgree
    <2> QED BY <2>1, <2>3, <2>4
  <1> HIDE DEF F
  <1>5. h \in [Nat -> V] BY <1>2
  <1> HIDE DEF h
  <1>6. h \in Recursive(V, a, g) BY <1>3, <1>4, <1>5 DEF Recursive
  <1> QED BY <1>6

-----------------------------------------------------------------------------
(* Arithmetic: quotients and remainders. *)
LEMMA DivMod ==
  ASSUME NEW a \in Int, NEW m \in Nat \ {0}
  PROVE  /\ a \div m \in Int /\ a % m \in 0 .. m - 1
         /\ a = m * (a \div m) + (a % m)
  OBVIOUS

LEMMA MulMono ==
  ASSUME NEW m \in Nat \ {0}, NEW j \in Int, NEW k \in Int, j < k
  PROVE  m * j + m <= m * k
  <1>1. m * (k - j - 1) >= 0
    OBVIOUS
  <1>2. m * (k - j - 1) = m * k - m * j - m
    OBVIOUS
  <1>3. m * k \in Int /\ m * j \in Int
    OBVIOUS
  <1> QED BY <1>1, <1>2, <1>3

LEMMA DivUnique ==
  ASSUME NEW m \in Nat \ {0}, NEW q \in Int, NEW r \in 0 .. m - 1
  PROVE  (m * q + r) \div m = q /\ (m * q + r) % m = r
  <1> DEFINE a == m * q + r
             k == a \div m
             s == a % m
  <1>1. a \in Int /\ k \in Int /\ s \in 0 .. m - 1 /\ a = m * k + s
    BY DivMod
  <1>2. m * k \in Int /\ m * q \in Int /\ m * q + r = m * k + s
    BY <1>1
  <1> HIDE DEF a, k, s
  <1>3. CASE k < q
    <2>1. m * k + m <= m * q BY <1>1, <1>3, MulMono
    <2> QED BY <1>1, <1>2, <2>1
  <1>4. CASE q < k
    <2>1. m * q + m <= m * k BY <1>1, <1>4, MulMono
    <2> QED BY <1>1, <1>2, <2>1
  <1>5. CASE q = k
    BY <1>1, <1>2, <1>5 DEF a, k, s
  <1> QED BY <1>1, <1>3, <1>4, <1>5

(* Multiples are closed under addition and subtraction. *)
LEMMA Multiple ==
  ASSUME NEW m \in Nat \ {0}, NEW a \in Int
  PROVE  a % m = 0 <=> \E k \in Int : a = m * k
  <1>1. ASSUME a % m = 0 PROVE \E k \in Int : a = m * k
    <2>1. a \div m \in Int /\ a = m * (a \div m) + (a % m) BY DivMod
    <2>2. m * (a \div m) \in Int BY <2>1
    <2>3. a = m * (a \div m) BY <1>1, <2>1, <2>2
    <2> QED BY <2>1, <2>3
  <1>2. ASSUME NEW k \in Int, a = m * k PROVE a % m = 0
    <2>1. (m * k + 0) % m = 0 BY DivUnique
    <2>2. m * k \in Int OBVIOUS
    <2> QED BY <1>2, <2>1, <2>2
  <1> QED BY <1>1, <1>2

LEMMA MultipleSum ==
  ASSUME NEW m \in Nat \ {0}, NEW a \in Int, NEW b \in Int, a % m = 0
  PROVE  (a + b) % m = b % m
  <1>1. PICK k \in Int : a = m * k BY Multiple
  <1>2. b \div m \in Int /\ b % m \in 0 .. m - 1 /\ b = m * (b \div m) + (b % m) BY DivMod
  <1> DEFINE j == b \div m
             r == b % m
  <1>3. j \in Int /\ r \in 0 .. m - 1 /\ b = m * j + r BY <1>2
  <1> HIDE DEF j, r
  <1>4. m * (k + j) = m * k + m * j BY <1>3
  <1>5. m * k \in Int /\ m * j \in Int /\ m * (k + j) \in Int BY <1>3
  <1>6. a + b = m * (k + j) + r BY <1>1, <1>3, <1>4, <1>5
  <1>7. (m * (k + j) + r) % m = r BY <1>3, DivUnique
  <1> QED BY <1>6, <1>7 DEF r

LEMMA MultipleNext ==
  ASSUME NEW m \in Nat \ {0}, NEW a \in Int, a % m = 0
  PROVE  (a + m) % m = 0
  <1>1. PICK k \in Int : a = m * k BY Multiple
  <1>2. m * (k + 1) = m * k + m /\ m * (k + 1) \in Int /\ k + 1 \in Int OBVIOUS
  <1>3. a + m = m * (k + 1) BY <1>1, <1>2
  <1> QED BY <1>2, <1>3, Multiple

LEMMA MultipleTrans ==
  ASSUME NEW m \in Nat \ {0}, NEW n \in Nat \ {0}, NEW a \in Int, n % m = 0, a % n = 0
  PROVE  a % m = 0
  <1>1. PICK j \in Int : n = m * j BY Multiple
  <1>2. PICK k \in Int : a = n * k BY Multiple
  <1>3. (m * j) * k = m * (j * k) /\ j * k \in Int OBVIOUS
  <1>4. a = (m * j) * k BY <1>1, <1>2
  <1>5. \E i \in Int : a = m * i BY <1>3, <1>4
  <1> QED BY <1>5, Multiple

(* Congruence: numbers whose difference is a multiple of m. *)
Congruent(a, b, m) == (a - b) % m = 0

LEMMA CongruentMultiple ==
  ASSUME NEW m \in Nat \ {0}, NEW a \in Int, NEW b \in Int
  PROVE  Congruent(a, b, m) <=> \E k \in Int : a = b + m * k
  <1>1. a - b \in Int OBVIOUS
  <1>2. (a - b) % m = 0 <=> \E k \in Int : a - b = m * k BY <1>1, Multiple
  <1>3. \A k \in Int : m * k \in Int OBVIOUS
  <1>4. \A k \in Int : a - b = m * k <=> a = b + m * k BY <1>3
  <1> QED BY <1>2, <1>4 DEF Congruent

LEMMA CongruentSelf ==
  ASSUME NEW m \in Nat \ {0}, NEW a \in Int
  PROVE  Congruent(a, a, m) /\ Congruent(a - m, a, m) /\ Congruent(a + m, a, m)
  <1>1. PICK z \in Int : z = 0 OBVIOUS
  <1>2. PICK u \in Int : u = 1 OBVIOUS
  <1>3. PICK v \in Int : v = -1 OBVIOUS
  <1>4. a = a + m * z BY <1>1
  <1>5. a + m = a + m * u BY <1>2
  <1>6. a - m = a + m * v BY <1>3
  <1>7. a + m \in Int /\ a - m \in Int OBVIOUS
  <1>8. Congruent(a, a, m) BY <1>4, CongruentMultiple
  <1>9. Congruent(a + m, a, m) BY <1>5, <1>7, CongruentMultiple
  <1>10. Congruent(a - m, a, m) BY <1>6, <1>7, CongruentMultiple
  <1> QED BY <1>8, <1>9, <1>10

LEMMA CongruentSum ==
  ASSUME NEW m \in Nat \ {0}, NEW a \in Int, NEW b \in Int, NEW c \in Int, NEW d \in Int,
         Congruent(a, b, m), Congruent(c, d, m)
  PROVE  Congruent(a + c, b + d, m)
  <1>1. PICK j \in Int : a = b + m * j BY CongruentMultiple
  <1>2. PICK k \in Int : c = d + m * k BY CongruentMultiple
  <1>3. m * (j + k) = m * j + m * k /\ m * j \in Int /\ m * k \in Int OBVIOUS
  <1>4. a + c = (b + d) + m * (j + k) BY <1>1, <1>2, <1>3
  <1>5. a + c \in Int /\ b + d \in Int /\ j + k \in Int OBVIOUS
  <1> QED BY <1>4, <1>5, CongruentMultiple

LEMMA CongruentSym ==
  ASSUME NEW m \in Nat \ {0}, NEW a \in Int, NEW b \in Int, Congruent(a, b, m)
  PROVE  Congruent(b, a, m)
  <1>1. PICK k \in Int : a = b + m * k BY CongruentMultiple
  <1>2. m * (-k) = -(m * k) /\ m * k \in Int /\ -k \in Int OBVIOUS
  <1>3. b = a + m * (-k) BY <1>1, <1>2
  <1> QED BY <1>2, <1>3, CongruentMultiple

LEMMA CongruentTrans ==
  ASSUME NEW m \in Nat \ {0}, NEW a \in Int, NEW b \in Int, NEW c \in Int,
         Congruent(a, b, m), Congruent(b, c, m)
  PROVE  Congruent(a, c, m)
  <1>1. PICK j \in Int : a = b + m * j BY CongruentMultiple
  <1>2. PICK k \in Int : b = c + m * k BY CongruentMultiple
  <1>3. m * (j + k) = m * j + m * k /\ m * j \in Int /\ m * k \in Int /\ j + k \in Int OBVIOUS
  <1>4. a = c + m * (j + k) BY <1>1, <1>2, <1>3
  <1> QED BY <1>3, <1>4, CongruentMultiple

LEMMA CongruentMod ==
  ASSUME NEW m \in Nat \ {0}, NEW a \in Int
  PROVE  a % m \in 0 .. m - 1 /\ Congruent(a % m, a, m)
  <1> DEFINE q == a \div m
             r == a % m
  <1>1. q \in Int /\ r \in 0 .. m - 1 /\ a = m * q + r BY DivMod
  <1> HIDE DEF q, r
  <1>2. m * (-q) = -(m * q) /\ m * q \in Int /\ -q \in Int BY <1>1
  <1>3. r = a + m * (-q) /\ r \in Int BY <1>1, <1>2
  <1>4. Congruent(r, a, m) BY <1>2, <1>3, CongruentMultiple
  <1> QED BY <1>1, <1>4 DEF r

LEMMA CongruentEqual ==
  ASSUME NEW m \in Nat \ {0}, NEW a \in Int, NEW b \in Int,
         Congruent(a, b, m), a - b < m, b - a < m
  PROVE  a = b
  <1>1. PICK k \in Int : a = b + m * k BY CongruentMultiple
  <1>2. m * k \in Int OBVIOUS
  <1>3. CASE k > 0
    <2>1. m * 0 + m <= m * k BY <1>3, MulMono
    <2> QED BY <1>1, <1>2, <2>1
  <1>4. CASE k < 0
    <2>1. m * k + m <= m * 0 BY <1>4, MulMono
    <2> QED BY <1>1, <1>2, <2>1
  <1>5. CASE k = 0 BY <1>1, <1>5
  <1> QED BY <1>3, <1>4, <1>5

-----------------------------------------------------------------------------
(* The powers of two. *)
LEMMA Pow2Def == Pow2 = [n \in Nat |-> IF n = 0 THEN 1 ELSE 2 * Pow2[n - 1]]
  <1>1. PICK V, a, g : V = Nat /\ a = 1 /\ g = [n \in Nat |-> [v \in V |-> 2 * v]] OBVIOUS
  <1>2. a \in V /\ g \in [Nat -> [V -> V]] BY <1>1
  <1>3. PICK f : f \in Recursive(V, a, g) BY <1>2, RecursionExists
  <1>4. ASSUME NEW n \in Nat PROVE f[n] = IF n = 0 THEN 1 ELSE 2 * f[n - 1]
    <2>1. CASE n = 0 BY <1>1, <1>3, <2>1 DEF Recursive
    <2>2. CASE n # 0
      <3>1. n - 1 \in Nat BY <2>2
      <3> QED BY <1>1, <1>3, <2>2, <3>1 DEF Recursive
    <2> QED BY <2>1, <2>2
  <1>5. f = [n \in Nat |-> IF n = 0 THEN 1 ELSE 2 * f[n - 1]]
    BY <1>1, <1>3, <1>4 DEF Recursive
  <1>6. \E p : p = [n \in Nat |-> IF n = 0 THEN 1 ELSE 2 * p[n - 1]] BY <1>5
  <1> QED BY <1>6 DEF Pow2

LEMMA Powers ==
  /\ Pow2[0] = 1
  /\ \A n \in Nat : Pow2[n] \in Nat \ {0} /\ Pow2[n + 1] = 2 * Pow2[n]
  <1>1. Pow2[0] = 1 BY Pow2Def
  <1>2. ASSUME NEW n \in Nat PROVE Pow2[n + 1] = 2 * Pow2[n]
    <2>1. n + 1 \in Nat /\ n + 1 # 0 /\ n + 1 - 1 = n OBVIOUS
    <2> QED BY <2>1, Pow2Def
  <1> DEFINE S == {n \in Nat : Pow2[n] \in Nat \ {0}}
  <1>3. 0 \in S BY <1>1
  <1>4. ASSUME NEW n \in Nat, n \in S PROVE n + 1 \in S
    <2>1. Pow2[n] \in Nat \ {0} /\ Pow2[n + 1] = 2 * Pow2[n] BY <1>2, <1>4
    <2> HIDE DEF S
    <2>2. Pow2[n + 1] \in Nat \ {0} BY <2>1
    <2> QED BY <2>2 DEF S
  <1> HIDE DEF S
  <1>5. Nat \subseteq S BY <1>3, <1>4, SetInduction
  <1> QED BY <1>1, <1>2, <1>5 DEF S


LEMMA PowerSum ==
  ASSUME NEW k \in Nat, NEW n \in Nat
  PROVE  Pow2[k + n] = Pow2[k] * Pow2[n]
  <1> DEFINE S == {i \in Nat : Pow2[k + i] = Pow2[k] * Pow2[i]}
  <1>1. 0 \in S
    <2>1. Pow2[k] \in Nat /\ Pow2[0] = 1 /\ k + 0 = k BY Powers
    <2> QED BY <2>1
  <1>2. ASSUME NEW i \in Nat, i \in S PROVE i + 1 \in S
    <2>1. Pow2[k + i] = Pow2[k] * Pow2[i] BY <1>2
    <2>2. k + i \in Nat /\ k + (i + 1) = (k + i) + 1 /\ i + 1 \in Nat OBVIOUS
    <2>3. Pow2[(k + i) + 1] = 2 * Pow2[k + i] /\ Pow2[i + 1] = 2 * Pow2[i] BY <2>2, Powers
    <2>4. Pow2[k] \in Nat /\ Pow2[i] \in Nat BY Powers
    <2>5. 2 * (Pow2[k] * Pow2[i]) = Pow2[k] * (2 * Pow2[i]) BY <2>4
    <2>6. Pow2[k + (i + 1)] = Pow2[k] * Pow2[i + 1] BY <2>1, <2>2, <2>3, <2>5
    <2> QED BY <2>2, <2>6
  <1> HIDE DEF S
  <1>3. n \in S BY <1>1, <1>2, SetInduction
  <1> QED BY <1>3 DEF S

(* A larger power is an even multiple of a smaller one. *)
LEMMA PowerDivides ==
  ASSUME NEW n \in Nat, NEW b \in 0 .. n - 1
  PROVE  \E k \in Nat \ {0} : Pow2[n] = Pow2[b] * (2 * k)
  <1>1. b \in Nat /\ n - b - 1 \in Nat /\ n - b \in Nat /\ b + (n - b) = n /\ (n - b - 1) + 1 = n - b
    OBVIOUS
  <1>2. Pow2[b + (n - b)] = Pow2[b] * Pow2[n - b] BY <1>1, PowerSum
  <1>3. Pow2[(n - b - 1) + 1] = 2 * Pow2[n - b - 1] /\ Pow2[n - b - 1] \in Nat \ {0} BY <1>1, Powers
  <1>4. Pow2[n] = Pow2[b] * (2 * Pow2[n - b - 1]) BY <1>1, <1>2, <1>3
  <1> QED BY <1>3, <1>4

LEMMA PowersGrow ==
  ASSUME NEW n \in Nat, NEW b \in 0 .. n
  PROVE  Pow2[b] <= Pow2[n] /\ (b < n => 2 * Pow2[b] <= Pow2[n])
  <1>1. b \in Nat /\ Pow2[b] \in Nat \ {0} /\ Pow2[n] \in Nat \ {0} BY Powers
  <1>2. CASE b = n BY <1>1, <1>2
  <1>3. CASE b < n
    <2>1. PICK k \in Nat \ {0} : Pow2[n] = Pow2[b] * (2 * k) BY <1>3, PowerDivides
    <2> DEFINE p == Pow2[b]
    <2>2. p \in Nat \ {0} BY <1>1
    <2> HIDE DEF p
    <2>3. p * (2 * k) = p * k + p * k /\ p * k \in Nat BY <2>2
    <2>4. p * k = p * (k - 1) + p /\ p * (k - 1) \in Nat BY <2>2
    <2>5. 2 * p <= p * (2 * k) BY <2>2, <2>3, <2>4
    <2>6. Pow2[n] = p * (2 * k) BY <2>1 DEF p
    <2>7. 2 * p <= Pow2[n] BY <2>5, <2>6
    <2> QED BY <1>1, <2>7 DEF p
  <1> QED BY <1>2, <1>3

LEMMA HalfPower ==
  ASSUME NEW n \in Nat \ {0}
  PROVE  /\ Pow2[n - 1] \in Nat \ {0} /\ Pow2[n] = 2 * Pow2[n - 1]
         /\ Pow2[n] \div 2 = Pow2[n - 1]
  <1>1. n - 1 \in Nat /\ (n - 1) + 1 = n OBVIOUS
  <1>2. Pow2[n - 1] \in Nat \ {0} /\ Pow2[(n - 1) + 1] = 2 * Pow2[n - 1] BY <1>1, Powers
  <1> DEFINE p == Pow2[n - 1]
  <1>3. p \in Nat BY <1>2
  <1> HIDE DEF p
  <1>4. (2 * p + 0) \div 2 = p BY <1>3, DivUnique
  <1>5. 2 * p + 0 = 2 * p BY <1>3
  <1>6. (2 * p) \div 2 = p BY <1>4, <1>5
  <1> QED BY <1>1, <1>2, <1>6 DEF p

-----------------------------------------------------------------------------
(* The bits of a number. *)
LEMMA Bit ==
  ASSUME NEW n \in Nat, NEW b \in 0 .. n - 1, NEW q \in Int, NEW r \in 0 .. Pow2[b] - 1, NEW v,
         v = Pow2[b] * q + r
  PROVE  b \in BitSet(v, n) <=> q % 2 = 1
  <1>1. Pow2[b] \in Nat \ {0} BY Powers
  <1>2. v \div Pow2[b] = q BY <1>1, DivUnique
  <1> QED BY <1>2 DEF BitSet

LEMMA Split ==
  ASSUME NEW v \in Int, NEW b \in Nat
  PROVE  /\ Pow2[b] \in Nat \ {0} /\ v \div Pow2[b] \in Int /\ v % Pow2[b] \in 0 .. Pow2[b] - 1
         /\ v = Pow2[b] * (v \div Pow2[b]) + (v % Pow2[b])
         /\ Pow2[b] * (v \div Pow2[b]) \in Int
  <1>1. Pow2[b] \in Nat \ {0} BY Powers
  <1> DEFINE p == Pow2[b]
  <1>2. p \in Nat \ {0} BY <1>1
  <1> HIDE DEF p
  <1>3. v \div p \in Int /\ v % p \in 0 .. p - 1 /\ v = p * (v \div p) + (v % p) BY <1>2, DivMod
  <1>4. p * (v \div p) \in Int BY <1>2, <1>3
  <1> QED BY <1>2, <1>3, <1>4 DEF p

LEMMA Parity ==
  /\ \A q, k \in Int : (q + 2 * k) % 2 = q % 2
  /\ \A q, k \in Int : (2 * k - 1 - q) % 2 = 1 <=> ~(q % 2 = 1)
  OBVIOUS

(* The two numbers that a word stands for have the same bits. *)
LEMMA SignKeepsBits ==
  ASSUME NEW n \in Nat, NEW v \in Int
  PROVE  BitSet(v - Pow2[n], n) = BitSet(v, n)
  <1>1. ASSUME NEW b \in 0 .. n - 1
        PROVE  b \in BitSet(v - Pow2[n], n) <=> b \in BitSet(v, n)
    <2>1. PICK k \in Nat \ {0} : Pow2[n] = Pow2[b] * (2 * k) BY PowerDivides
    <2> DEFINE p == Pow2[b]
               q == v \div p
               r == v % p
    <2>2. /\ p \in Nat \ {0} /\ q \in Int /\ r \in 0 .. p - 1 /\ v = p * q + r /\ p * q \in Int
      <3>1. b \in Nat OBVIOUS
      <3> QED BY <3>1, Split
    <2>3. Pow2[n] = p * (2 * k) BY <2>1
    <2> HIDE DEF q, r
    <2>4. p = Pow2[b] OBVIOUS
    <2> HIDE DEF p
    <2>5. p * (q - 2 * k) = p * q - p * (2 * k) /\ p * (2 * k) \in Int BY <2>2
    <2>6. v - Pow2[n] = p * (q - 2 * k) + r BY <2>2, <2>3, <2>5
    <2>7. q - 2 * k \in Int BY <2>2
    <2>8. b \in BitSet(v - Pow2[n], n) <=> (q - 2 * k) % 2 = 1 BY <2>2, <2>4, <2>6, <2>7, Bit
    <2>9. b \in BitSet(v, n) <=> q % 2 = 1 BY <2>2, <2>4, Bit
    <2>10. (q - 2 * k) % 2 = q % 2
      <3>1. q - 2 * k = q + 2 * (-k) /\ -k \in Int BY <2>2
      <3> QED BY <2>2, <3>1, Parity
    <2> QED BY <2>8, <2>9, <2>10
  <1>2. BitSet(v - Pow2[n], n) \subseteq 0 .. n - 1 /\ BitSet(v, n) \subseteq 0 .. n - 1 BY DEF BitSet
  <1> QED BY <1>1, <1>2

LEMMA ComplementBits ==
  ASSUME NEW n \in Nat, NEW v \in Int
  PROVE  BitSet(Pow2[n] - 1 - v, n) = (0 .. n - 1) \ BitSet(v, n)
  <1>1. ASSUME NEW b \in 0 .. n - 1
        PROVE  b \in BitSet(Pow2[n] - 1 - v, n) <=> b \notin BitSet(v, n)
    <2>1. PICK k \in Nat \ {0} : Pow2[n] = Pow2[b] * (2 * k) BY PowerDivides
    <2> DEFINE p == Pow2[b]
               q == v \div p
               r == v % p
    <2>2. /\ p \in Nat \ {0} /\ q \in Int /\ r \in 0 .. p - 1 /\ v = p * q + r /\ p * q \in Int
      <3>1. b \in Nat OBVIOUS
      <3> QED BY <3>1, Split
    <2>3. Pow2[n] = p * (2 * k) BY <2>1
    <2> HIDE DEF q, r
    <2>4. p = Pow2[b] OBVIOUS
    <2> HIDE DEF p
    <2>5. p * (2 * k - 1 - q) = p * (2 * k) - p - p * q /\ p * (2 * k) \in Int BY <2>2
    <2>6. Pow2[n] - 1 - v = p * (2 * k - 1 - q) + (p - 1 - r) BY <2>2, <2>3, <2>5
    <2>7. 2 * k - 1 - q \in Int /\ p - 1 - r \in 0 .. p - 1 BY <2>2
    <2>8. b \in BitSet(Pow2[n] - 1 - v, n) <=> (2 * k - 1 - q) % 2 = 1
      BY <2>4, <2>6, <2>7, Bit
    <2>9. b \in BitSet(v, n) <=> q % 2 = 1 BY <2>2, <2>4, Bit
    <2>10. k \in Int OBVIOUS
    <2> QED BY <2>2, <2>8, <2>9, <2>10, Parity
  <1>2. BitSet(Pow2[n] - 1 - v, n) \subseteq 0 .. n - 1 /\ BitSet(v, n) \subseteq 0 .. n - 1 BY DEF BitSet
  <1> QED BY <1>1, <1>2

LEMMA OneBit ==
  ASSUME NEW n \in Nat, NEW i \in 0 .. n - 1
  PROVE  BitSet(Pow2[i], n) = {i}
  <1>1. ASSUME NEW b \in 0 .. n - 1
        PROVE  b \in BitSet(Pow2[i], n) <=> b = i
    <2>1. b \in Nat /\ i \in Nat /\ Pow2[b] \in Nat \ {0} /\ Pow2[i] \in Nat \ {0} BY Powers
    <2>2. CASE b < i
      <3>1. b \in 0 .. i - 1 BY <2>1, <2>2
      <3>2. PICK k \in Nat \ {0} : Pow2[i] = Pow2[b] * (2 * k) BY <2>1, <3>1, PowerDivides
      <3>3. Pow2[i] = Pow2[b] * (2 * k) + 0 /\ 2 * k \in Int /\ 0 \in 0 .. Pow2[b] - 1 BY <2>1, <3>2
      <3>4. b \in BitSet(Pow2[i], n) <=> (2 * k) % 2 = 1 BY <3>3, Bit
      <3>5. (2 * k) % 2 = 0 OBVIOUS
      <3> QED BY <2>2, <3>4, <3>5
    <2>3. CASE b = i
      <3>1. PICK q \in Int : q = 1 OBVIOUS
      <3>2. Pow2[i] = Pow2[b] * q + 0 /\ 0 \in 0 .. Pow2[b] - 1 BY <2>1, <2>3, <3>1
      <3>3. b \in BitSet(Pow2[i], n) <=> q % 2 = 1 BY <3>2, Bit
      <3> QED BY <2>3, <3>1, <3>3
    <2>4. CASE i < b
      <3>1. 2 * Pow2[i] <= Pow2[b] BY <2>1, <2>4, PowersGrow
      <3>2. PICK q \in Int : q = 0 OBVIOUS
      <3>3. Pow2[i] = Pow2[b] * q + Pow2[i] /\ Pow2[i] \in 0 .. Pow2[b] - 1 BY <2>1, <3>1, <3>2
      <3>4. b \in BitSet(Pow2[i], n) <=> q % 2 = 1 BY <3>3, Bit
      <3> QED BY <2>4, <3>2, <3>4
    <2> QED BY <2>1, <2>2, <2>3, <2>4
  <1>2. BitSet(Pow2[i], n) \subseteq 0 .. n - 1 BY DEF BitSet
  <1> QED BY <1>1, <1>2

(* The bits of 2 * u + e are those of u, one place up, and e. *)
LEMMA LowBit ==
  ASSUME NEW n \in Nat, NEW u \in Nat, NEW e \in 0 .. 1
  PROVE  0 \in BitSet(2 * u + e, n + 1) <=> e = 1
  <1> DEFINE v == 2 * u + e
  <1>1. v \in Nat /\ v % 2 = e OBVIOUS
  <1> HIDE DEF v
  <1>2. v \div 1 = v BY <1>1
  <1>3. Pow2[0] = 1 /\ 0 \in 0 .. (n + 1) - 1 BY Powers
  <1>4. 0 \in BitSet(v, n + 1) <=> v % 2 = 1 BY <1>2, <1>3 DEF BitSet
  <1>5. 0 \in BitSet(v, n + 1) <=> e = 1 BY <1>1, <1>4
  <1> QED BY <1>5 DEF v

LEMMA ShiftedBits ==
  ASSUME NEW n \in Nat, NEW u \in Nat, NEW e \in 0 .. 1, NEW b \in 0 .. n - 1
  PROVE  b + 1 \in BitSet(2 * u + e, n + 1) <=> b \in BitSet(u, n)
  <1> DEFINE p == Pow2[b]
             q == u \div p
             r == u % p
             v == 2 * u + e
  <1>1. /\ p \in Nat \ {0} /\ q \in Int /\ r \in 0 .. p - 1 /\ u = p * q + r /\ p * q \in Int
    <2>1. b \in Nat /\ u \in Int OBVIOUS
    <2> QED BY <2>1, Split
  <1>2. Pow2[b + 1] = 2 * p BY Powers
  <1>3. v = 2 * u + e OBVIOUS
  <1> HIDE DEF q, r, v
  <1>4. p = Pow2[b] OBVIOUS
  <1> HIDE DEF p
  <1>5. (2 * p) * q = 2 * (p * q) BY <1>1
  <1>6. v = (2 * p) * q + (2 * r + e) BY <1>1, <1>3, <1>5
  <1>7. 2 * r + e \in 0 .. (2 * p) - 1 BY <1>1
  <1>8. PICK m, c, s : m = n + 1 /\ c = b + 1 /\ s = 2 * r + e OBVIOUS
  <1>9. v = Pow2[c] * q + s /\ s \in 0 .. Pow2[c] - 1 BY <1>2, <1>6, <1>7, <1>8
  <1>10. m \in Nat /\ c \in 0 .. m - 1 BY <1>8
  <1> HIDE <1>8
  <1>11. c \in BitSet(v, m) <=> q % 2 = 1 BY <1>1, <1>9, <1>10, Bit
  <1>12. b \in BitSet(u, n) <=> q % 2 = 1 BY <1>1, <1>4, Bit
  <1> QED BY <1>8, <1>11, <1>12 DEF v

(* Every set of bits is that of a word, and of one only. *)
LEMMA BitsExist ==
  ASSUME NEW n \in Nat, NEW S, S \subseteq 0 .. n - 1
  PROVE  \E v \in 0 .. Pow2[n] - 1 : BitSet(v, n) = S
  <1> DEFINE I == {m \in Nat : \A T \in SUBSET (0 .. m - 1) :
                     \E v \in 0 .. Pow2[m] - 1 : BitSet(v, m) = T}
  <1>1. 0 \in I
    <2>1. ASSUME NEW T \in SUBSET (0 .. 0 - 1)
          PROVE  \E v \in 0 .. Pow2[0] - 1 : BitSet(v, 0) = T
      <3>1. Pow2[0] = 1 BY Powers
      <3>2. T = {} /\ BitSet(0, 0) = {} BY DEF BitSet
      <3>3. 0 \in 0 .. Pow2[0] - 1 BY <3>1
      <3> QED BY <3>2, <3>3
    <2> QED BY <2>1
  <1>2. ASSUME NEW m \in Nat, m \in I PROVE m + 1 \in I
    <2>1. ASSUME NEW T \in SUBSET (0 .. (m + 1) - 1)
          PROVE  \E v \in 0 .. Pow2[m + 1] - 1 : BitSet(v, m + 1) = T
      <3> DEFINE R == {b \in 0 .. m - 1 : b + 1 \in T}
      <3>1. PICK u \in 0 .. Pow2[m] - 1 : BitSet(u, m) = R BY <1>2
      <3>2. PICK e \in 0 .. 1 : e = 1 <=> 0 \in T OBVIOUS
      <3>3. Pow2[m] \in Nat \ {0} /\ Pow2[m + 1] = 2 * Pow2[m] BY Powers
      <3>4. u \in Nat /\ 2 * u + e \in 0 .. Pow2[m + 1] - 1 BY <3>1, <3>2, <3>3
      <3>5. 0 \in BitSet(2 * u + e, m + 1) <=> 0 \in T BY <3>2, <3>4, LowBit
      <3>6. ASSUME NEW b \in 0 .. m - 1
            PROVE  b + 1 \in BitSet(2 * u + e, m + 1) <=> b + 1 \in T
        <4>1. b + 1 \in BitSet(2 * u + e, m + 1) <=> b \in BitSet(u, m) BY <3>2, <3>4, ShiftedBits
        <4>2. b \in R <=> b + 1 \in T OBVIOUS
        <4> QED BY <3>1, <4>1, <4>2
      <3>7. BitSet(2 * u + e, m + 1) \subseteq 0 .. (m + 1) - 1 BY DEF BitSet
      <3>8. ASSUME NEW c \in 0 .. (m + 1) - 1
            PROVE  c \in BitSet(2 * u + e, m + 1) <=> c \in T
        <4>1. CASE c = 0 BY <3>5, <4>1
        <4>2. CASE c # 0
          <5>1. c - 1 \in 0 .. m - 1 /\ (c - 1) + 1 = c BY <4>2
          <5>2. (c - 1) + 1 \in BitSet(2 * u + e, m + 1) <=> (c - 1) + 1 \in T BY <3>6, <5>1
          <5> QED BY <5>1, <5>2
        <4> QED BY <4>1, <4>2
      <3>9. BitSet(2 * u + e, m + 1) = T BY <3>7, <3>8
      <3> QED BY <3>4, <3>9
    <2>2. m + 1 \in Nat OBVIOUS
    <2> QED BY <2>1, <2>2
  <1> HIDE DEF I
  <1>3. n \in I BY <1>1, <1>2, SetInduction
  <1> QED BY <1>3 DEF I

LEMMA BitsUnique ==
  ASSUME NEW n \in Nat, NEW v \in 0 .. Pow2[n] - 1, NEW w \in 0 .. Pow2[n] - 1,
         BitSet(v, n) = BitSet(w, n)
  PROVE  v = w
  <1> DEFINE I == {m \in Nat : \A x, y \in 0 .. Pow2[m] - 1 : BitSet(x, m) = BitSet(y, m) => x = y}
  <1>1. 0 \in I
    <2>1. Pow2[0] = 1 BY Powers
    <2> QED BY <2>1
  <1>2. ASSUME NEW m \in Nat, m \in I PROVE m + 1 \in I
    <2>1. ASSUME NEW x \in 0 .. Pow2[m + 1] - 1, NEW y \in 0 .. Pow2[m + 1] - 1,
                 BitSet(x, m + 1) = BitSet(y, m + 1)
          PROVE  x = y
      <3>1. Pow2[m] \in Nat \ {0} /\ Pow2[m + 1] = 2 * Pow2[m] BY Powers
      <3>2. PICK u \in 0 .. Pow2[m] - 1, e \in 0 .. 1 : x = 2 * u + e
        <4>1. x \div 2 \in 0 .. Pow2[m] - 1 /\ x % 2 \in 0 .. 1 /\ x = 2 * (x \div 2) + (x % 2)
          BY <3>1
        <4> QED BY <4>1
      <3>3. PICK t \in 0 .. Pow2[m] - 1, d \in 0 .. 1 : y = 2 * t + d
        <4>1. y \div 2 \in 0 .. Pow2[m] - 1 /\ y % 2 \in 0 .. 1 /\ y = 2 * (y \div 2) + (y % 2)
          BY <3>1
        <4> QED BY <4>1
      <3>4. u \in Nat /\ t \in Nat BY <3>1
      <3>5. e = d
        <4>1. 0 \in BitSet(2 * u + e, m + 1) <=> e = 1 BY <3>4, LowBit
        <4>2. 0 \in BitSet(2 * t + d, m + 1) <=> d = 1 BY <3>4, LowBit
        <4>3. e = 1 <=> d = 1 BY <2>1, <3>2, <3>3, <4>1, <4>2
        <4> QED BY <4>3
      <3>6. ASSUME NEW b \in 0 .. m - 1 PROVE b \in BitSet(u, m) <=> b \in BitSet(t, m)
        <4>1. b + 1 \in BitSet(2 * u + e, m + 1) <=> b \in BitSet(u, m) BY <3>4, ShiftedBits
        <4>2. b + 1 \in BitSet(2 * t + d, m + 1) <=> b \in BitSet(t, m) BY <3>4, ShiftedBits
        <4> QED BY <2>1, <3>2, <3>3, <4>1, <4>2
      <3>7. BitSet(u, m) \subseteq 0 .. m - 1 /\ BitSet(t, m) \subseteq 0 .. m - 1 BY DEF BitSet
      <3>8. BitSet(u, m) = BitSet(t, m) BY <3>6, <3>7
      <3>9. u = t BY <1>2, <3>8
      <3> QED BY <3>2, <3>3, <3>5, <3>9
    <2>2. m + 1 \in Nat OBVIOUS
    <2> QED BY <2>1, <2>2
  <1> HIDE DEF I
  <1>3. n \in I BY <1>1, <1>2, SetInduction
  <1> QED BY <1>3 DEF I

LEMMA NoBits ==
  ASSUME NEW n \in Nat, NEW v \in 0 .. Pow2[n] - 1
  PROVE  BitSet(v, n) = {} <=> v = 0
  <1>1. ASSUME NEW b \in 0 .. n - 1 PROVE b \notin BitSet(0, n)
    <2>1. PICK q \in Int : q = 0 OBVIOUS
    <2>2. b \in Nat /\ Pow2[b] \in Nat \ {0} BY Powers
    <2>3. 0 = Pow2[b] * q + 0 /\ 0 \in 0 .. Pow2[b] - 1 BY <2>1, <2>2
    <2>4. b \in BitSet(0, n) <=> q % 2 = 1 BY <2>3, Bit
    <2> QED BY <2>1, <2>4
  <1>2. BitSet(0, n) \subseteq 0 .. n - 1 BY DEF BitSet
  <1>3. BitSet(0, n) = {} BY <1>1, <1>2
  <1>4. 0 \in 0 .. Pow2[n] - 1 BY Powers
  <1> QED BY <1>3, <1>4, BitsUnique


-----------------------------------------------------------------------------
(* Quotients of quotients, and the highest and lowest bits of a number. *)
LEMMA Least ==
  ASSUME NEW S, S \subseteq Nat, S # {}
  PROVE  \E x \in S : \A y \in S : x <= y
  <1>1. IsWellFoundedOn(LessThan, Nat)
    BY NatLessThanWellFounded DEF OpToRel, LessThan
  <1>2. PICK x \in S : \A y \in S : ~ (<<y, x>> \in LessThan)
    BY <1>1, WFMin
  <1>3. \A y \in S : ~ (y < x) BY <1>2 DEF LessThan
  <1> QED BY <1>3

LEMMA Quotient ==
  ASSUME NEW m \in Nat \ {0}, NEW a \in Int, NEW q \in Int, m * q <= a, a < m * q + m
  PROVE  a \div m = q /\ a % m = a - m * q
  <1>1. m * q \in Int OBVIOUS
  <1> DEFINE r == a - m * q
  <1>2. r \in 0 .. m - 1 /\ a = m * q + r BY <1>1
  <1> HIDE DEF r
  <1>3. a \div m = q /\ a % m = r BY <1>2, DivUnique
  <1> QED BY <1>3 DEF r

LEMMA NestedDiv ==
  ASSUME NEW m \in Nat \ {0}, NEW k \in Nat \ {0}, NEW a \in Int
  PROVE  (a \div m) \div k = a \div (m * k)
  <1> DEFINE u == a \div m
             r == a % m
             q == u \div k
             s == u % k
  <1>1. u \in Int /\ r \in 0 .. m - 1 /\ a = m * u + r BY DivMod
  <1> HIDE DEF u, r
  <1>2. q \in Int /\ s \in 0 .. k - 1 /\ u = k * q + s BY <1>1, DivMod
  <1> HIDE DEF q, s
  <1>3. m * (k * q + s) = (m * k) * q + m * s /\ m * s \in Int /\ (m * k) * q \in Int BY <1>2
  <1>4. m * s + m <= m * k BY <1>2, MulMono
  <1>5. m * s >= 0 BY <1>2
  <1>6. m * k \in Nat \ {0} OBVIOUS
  <1>7. m * s + r \in 0 .. m * k - 1 BY <1>1, <1>3, <1>4, <1>5, <1>6
  <1>8. a = (m * k) * q + (m * s + r) BY <1>1, <1>2, <1>3
  <1>9. a \div (m * k) = q BY <1>2, <1>6, <1>7, <1>8, DivUnique
  <1> QED BY <1>9 DEF q, u

LEMMA ScaledDiv ==
  ASSUME NEW m \in Nat \ {0}, NEW k \in Nat \ {0}, NEW a \in Int
  PROVE  (k * a) \div (k * m) = a \div m
  <1>1. k * a \in Int OBVIOUS
  <1>2. ((k * a) \div k) \div m = (k * a) \div (k * m) BY <1>1, NestedDiv
  <1> PICK z : z = 0 OBVIOUS
  <1>3. k * a + z = k * a /\ z \in 0 .. k - 1 BY <1>1
  <1>4. (k * a) \div k = a BY <1>3, DivUnique
  <1> QED BY <1>2, <1>4

LEMMA EvenOrOdd ==
  ASSUME NEW a \in Int
  PROVE  (\E j \in Int : a = 2 * j /\ a % 2 = 0) \/ (\E j \in Int : a = 2 * j + 1 /\ a % 2 = 1)
  OBVIOUS

(* A power of two has no odd divisor. *)
LEMMA OddDivisor ==
  ASSUME NEW n \in Nat, NEW o \in Nat, NEW c \in Nat, o % 2 = 1, o * c = Pow2[n]
  PROVE  o = 1
  <1> DEFINE S == {i \in Nat : \A d \in Nat : o * d = Pow2[i] => o = 1}
  <1>1. 0 \in S
    <2> SUFFICES ASSUME NEW d \in Nat, o * d = 1 PROVE o = 1
      BY Powers
    <2>1. d # 0 /\ o # 0 OBVIOUS
    <2>2. CASE o > 1
      <3>1. o * 1 <= o * d BY <2>1
      <3> QED BY <2>2, <3>1
    <2> QED BY <2>1, <2>2
  <1>2. ASSUME NEW i \in Nat, i \in S PROVE i + 1 \in S
    <2> SUFFICES ASSUME NEW d \in Nat, o * d = Pow2[i + 1] PROVE o = 1
      OBVIOUS
    <2>1. Pow2[i] \in Nat /\ Pow2[i + 1] = 2 * Pow2[i] BY Powers
    <2>2. PICK j \in Int : o = 2 * j + 1 BY EvenOrOdd
    <2>3. CASE \E k \in Int : d = 2 * k
      <3>1. PICK k \in Int : d = 2 * k BY <2>3
      <3>2. o * (2 * k) = 2 * (o * k) /\ o * k \in Int /\ k \in Nat BY <3>1
      <3>3. o * k = Pow2[i] BY <2>1, <3>1, <3>2
      <3> QED BY <1>2, <3>2, <3>3
    <2>4. CASE \E k \in Int : d = 2 * k + 1
      <3>1. PICK k \in Int : d = 2 * k + 1 BY <2>4
      <3>2. (2 * j + 1) * (2 * k + 1) = 2 * (2 * (j * k) + j + k) + 1 /\ j * k \in Int OBVIOUS
      <3>3. 2 * Pow2[i] = 2 * (2 * (j * k) + j + k) + 1 BY <2>1, <2>2, <3>1, <3>2
      <3> QED BY <2>1, <3>2, <3>3
    <2> QED BY <2>3, <2>4, EvenOrOdd
  <1> HIDE DEF S
  <1>3. n \in S BY <1>1, <1>2, SetInduction
  <1> QED BY <1>3 DEF S

LEMMA LowestBitExists ==
  ASSUME NEW n \in Nat, NEW x \in 1 .. Pow2[n] - 1
  PROVE  \E k \in 0 .. n - 1 : x % Pow2[k] = 0 /\ x % Pow2[k + 1] # 0
  <1> DEFINE S == {k \in Nat : x % Pow2[k + 1] # 0}
  <1>1. n \in Nat \ {0} /\ Pow2[n] \in Nat \ {0} BY Powers
  <1>2. x % Pow2[n] = x BY <1>1
  <1>3. n - 1 \in Nat /\ n - 1 + 1 = n BY <1>1
  <1>4. n - 1 \in S BY <1>2, <1>3
  <1>5. PICK k \in S : \A y \in S : k <= y BY <1>4, Least
  <1>6. k \in 0 .. n - 1 /\ x % Pow2[k + 1] # 0 BY <1>3, <1>4, <1>5
  <1>7. x % Pow2[k] = 0
    <2>1. CASE k = 0 BY <2>1, Powers
    <2>2. CASE k # 0
      <3>1. k - 1 \in Nat /\ k - 1 + 1 = k /\ ~(k <= k - 1) BY <1>6, <2>2
      <3>2. k - 1 \notin S BY <1>5, <3>1
      <3> QED BY <3>1, <3>2
    <2> QED BY <2>1, <2>2
  <1> QED BY <1>6, <1>7

LEMMA HighestBitExists ==
  ASSUME NEW n \in Nat, NEW x \in 1 .. Pow2[n] - 1
  PROVE  \E k \in 0 .. n - 1 : Pow2[k] <= x /\ x < Pow2[k + 1]
  <1> DEFINE S == {k \in Nat : x < Pow2[k + 1]}
  <1>1. n \in Nat \ {0} /\ Pow2[n] \in Nat \ {0} BY Powers
  <1>3. n - 1 \in Nat /\ n - 1 + 1 = n BY <1>1
  <1>4. n - 1 \in S BY <1>1, <1>3
  <1>5. PICK k \in S : \A y \in S : k <= y BY <1>4, Least
  <1>6. k \in 0 .. n - 1 /\ x < Pow2[k + 1] BY <1>3, <1>4, <1>5
  <1>7. Pow2[k] <= x
    <2>1. CASE k = 0 BY <2>1, Powers
    <2>2. CASE k # 0
      <3>1. k - 1 \in Nat /\ k - 1 + 1 = k /\ ~(k <= k - 1) BY <1>6, <2>2
      <3>2. k - 1 \notin S BY <1>5, <3>1
      <3>3. ~(x < Pow2[k]) BY <3>1, <3>2
      <3>4. Pow2[k] \in Nat BY Powers
      <3> QED BY <3>3, <3>4
    <2> QED BY <2>1, <2>2
  <1> QED BY <1>6, <1>7


-----------------------------------------------------------------------------
(* Division by multiplication: m is D divided by b, rounded up, down or    *)
(* not at all, so that m times n, divided by D, is n divided by b.         *)
LEMMA MulOrder ==
  ASSUME NEW m \in Nat \ {0}, NEW j \in Int, NEW k \in Int
  PROVE  (m * j < m * k <=> j < k) /\ (m * j <= m * k <=> j <= k)
  <1>1. m * j \in Int /\ m * k \in Int OBVIOUS
  <1>2. j < k => m * j + m <= m * k BY MulMono
  <1>3. k < j => m * k + m <= m * j BY MulMono
  <1> QED BY <1>1, <1>2, <1>3

LEMMA MulBound ==
  ASSUME NEW c \in Nat, NEW j \in Int, NEW k \in Int, j <= k
  PROVE  c * j <= c * k
  <1>1. CASE c = 0 BY <1>1
  <1>2. CASE c # 0 BY <1>2, MulOrder
  <1> QED BY <1>1, <1>2

(* What remains to show in both cases: the product is off by less than D.  *)
LEMMA Scaled ==
  ASSUME NEW D \in Nat \ {0}, NEW b \in Nat \ {0}, NEW q \in Int, NEW v \in Int, NEW w \in Int,
         b * v = b * (D * q) + w, 0 <= w, w < b * D
  PROVE  v \div D = q
  <1> DEFINE u == D * q
  <1>1. u \in Int /\ b * v = b * u + w OBVIOUS
  <1> HIDE DEF u
  <1>2. b * (u + D) = b * u + b * D /\ b * u \in Int /\ b * D \in Int BY <1>1
  <1>3. b * u <= b * v /\ b * v < b * (u + D) BY <1>1, <1>2
  <1>4. u <= v /\ v < u + D BY <1>1, <1>3, MulOrder
  <1>5. D * q <= v /\ v < D * q + D BY <1>4 DEF u
  <1> QED BY <1>5, Quotient

LEMMA RoundedUp ==
  ASSUME NEW B \in Nat \ {0}, NEW b \in Nat \ {0}, NEW p \in Nat \ {0}, NEW m \in Nat,
         NEW e \in 0 .. b - 1, NEW Q \in Nat, NEW R \in 0 .. b - 2, NEW n \in 0 .. B - 1,
         NEW D \in Nat \ {0}, NEW x \in Int, D = B * p, x = b * Q - 1,
         b < 2 * p, b * m = D + e, B - 1 = b * Q + R, e * x < D
  PROVE  (m * n) \div D = n \div b
  <1> DEFINE q == n \div b
             r == n % b
  <1>1. q \in Int /\ r \in 0 .. b - 1 /\ n = b * q + r BY DivMod
  <1>2. D \in Nat \ {0} OBVIOUS
  <1>3. b * m = D + e OBVIOUS
  <1>4. e * x < D OBVIOUS
  <1>5. b * B < 2 * D
    <2>1. B * b < B * (2 * p) BY MulOrder
    <2>2. B * (2 * p) = 2 * (B * p) /\ B * b = b * B OBVIOUS
    <2> QED BY <2>1, <2>2
  <1> HIDE DEF q, r
  <1>6. e * n < D * (b - r)
    <2>1. CASE n <= x
      <3> DEFINE c == b - r
      <3>1. x \in Int /\ n \in Int /\ e \in Nat /\ n <= x /\ e * x < D BY <1>4, <2>1
      <3>2. c \in Int /\ 1 <= c BY <1>1
      <3> HIDE DEF c
      <3>3. e * n <= e * x BY <3>1, MulBound
      <3>4. D * 1 <= D * c BY <1>2, <3>2, MulBound
      <3>5. e * n \in Int /\ e * x \in Int /\ D * c \in Int /\ D * 1 = D BY <1>2, <3>1, <3>2
      <3>6. e * n < D * c BY <1>2, <3>1, <3>3, <3>4, <3>5
      <3> QED BY <3>6 DEF c
    <2>2. CASE n > x
      <3>1. b * Q \in Int OBVIOUS
      <3>2. b * Q <= n /\ n < b * Q + b /\ n - b * Q <= R BY <2>2, <3>1
      <3>3. n % b = n - b * Q
        <4>1. n \in Int /\ Q \in Int OBVIOUS
        <4> QED BY <3>2, <4>1, Quotient
      <3>4. r <= b - 2 BY <3>2, <3>3 DEF r
      <3>5. D * 2 <= D * (b - r) BY <1>1, <1>2, <3>4, MulBound
      <3>6. n * e <= n * b /\ b * n <= b * B BY MulBound
      <3>7. n * e = e * n /\ n * b = b * n /\ e * n \in Int /\ b * n \in Int /\ b * B \in Int OBVIOUS
      <3>8. D * 2 = 2 * D /\ D * (b - r) \in Int BY <1>1, <1>2
      <3> QED BY <1>2, <1>5, <3>5, <3>6, <3>7, <3>8
    <2> QED BY <2>1, <2>2
  <1> DEFINE w == D * r + e * n
  <1>7. b * (m * n) = b * (D * q) + w
    <2>1. b * (m * n) = (b * m) * n OBVIOUS
    <2>2. (D + e) * n = D * n + e * n BY <1>2
    <2>3. D * (b * q + r) = b * (D * q) + D * r BY <1>1, <1>2
    <2>4. D * n = b * (D * q) + D * r BY <1>1, <2>3
    <2>5. D * n \in Int /\ e * n \in Int /\ b * (D * q) \in Int /\ D * r \in Int BY <1>1, <1>2
    <2>6. b * (m * n) = D * n + e * n BY <1>3, <2>1, <2>2
    <2> QED BY <2>4, <2>5, <2>6
  <1>8. w \in Int /\ 0 <= w
    <2>1. D * r \in Nat /\ e * n \in Nat BY <1>1, <1>2
    <2> QED BY <2>1
  <1>9. w < b * D
    <2>1. D * (b - r) = b * D - D * r BY <1>1, <1>2
    <2>2. D * r \in Int /\ e * n \in Int /\ b * D \in Int BY <1>1, <1>2
    <2> QED BY <1>6, <2>1, <2>2
  <1> HIDE DEF w
  <1> DEFINE v == m * n
  <1>10. v \in Int /\ b * v = b * (D * q) + w BY <1>7
  <1> HIDE DEF v
  <1>11. v \div D = q BY <1>1, <1>2, <1>8, <1>9, <1>10, Scaled
  <1> QED BY <1>11 DEF v, q

(* The reciprocal that is rounded up is right for every dividend if it is  *)
(* right for the largest one that leaves the largest remainder.            *)
LEMMA ExactAt ==
  ASSUME NEW D \in Nat \ {0}, NEW b \in Nat \ {0}, NEW m \in Nat, NEW e \in Nat, NEW Q \in Nat \ {0},
         b * m = D + e
  PROVE  (m * (b * Q - 1)) \div D = (b * Q - 1) \div b <=> e * (b * Q - 1) < D
  <1> DEFINE x == b * Q - 1
             w == D * (b - 1) + e * x
  <1>1. x \in Nat /\ x = b * (Q - 1) + (b - 1)
    <2>1. b * (Q - 1) = b * Q - b /\ b * Q \in Int /\ b * (Q - 1) \in Nat OBVIOUS
    <2> QED BY <2>1
  <1> HIDE DEF x
  <1>2. x \div b = Q - 1
    <2>1. Q - 1 \in Int /\ b - 1 \in 0 .. b - 1 OBVIOUS
    <2> DEFINE k == Q - 1
               j == b - 1
    <2>2. k \in Int /\ j \in 0 .. b - 1 /\ x = b * k + j BY <1>1, <2>1
    <2> HIDE DEF k, j
    <2>3. x \div b = k BY <2>2, DivUnique
    <2> QED BY <2>3 DEF k
  <1>3. b * (m * x) = b * (D * (Q - 1)) + w
    <2>1. b * (m * x) = (D + e) * x BY <1>1
    <2>2. (D + e) * x = D * x + e * x BY <1>1
    <2>3. D * (b * (Q - 1) + (b - 1)) = b * (D * (Q - 1)) + D * (b - 1) OBVIOUS
    <2>4. D * x = b * (D * (Q - 1)) + D * (b - 1) BY <1>1, <2>3
    <2>5. D * x \in Int /\ e * x \in Int /\ b * (D * (Q - 1)) \in Int /\ D * (b - 1) \in Int BY <1>1
    <2> QED BY <2>1, <2>2, <2>4, <2>5
  <1>4. w \in Int /\ 0 <= w
    <2>1. D * (b - 1) \in Nat /\ e * x \in Nat BY <1>1
    <2> QED BY <2>1
  <1>5. w < b * D <=> e * x < D
    <2>1. D * (b - 1) = b * D - D /\ b * D \in Int /\ e * x \in Int BY <1>1
    <2> QED BY <2>1
  <1> HIDE DEF w
  <1> DEFINE u == m * x
             k == Q - 1
  <1>6. u \in Int /\ k \in Int /\ b * u = b * (D * k) + w BY <1>1, <1>3
  <1> HIDE DEF u, k
  <1>7. e * x < D => u \div D = k BY <1>4, <1>5, <1>6, Scaled
  <1>8. ASSUME u \div D = k PROVE e * x < D
    <2>1. u \in Int /\ k \in Int /\ b * u = b * (D * k) + w /\ u \div D = k BY <1>6, <1>8
    <2>2. u % D \in 0 .. D - 1 /\ u = D * k + (u % D) BY <2>1, DivMod
    <2>3. D * k \in Int BY <2>1
    <2>4. u < D * k + D BY <2>2, <2>3
    <2>5. b * u < b * (D * k + D) BY <2>1, <2>3, <2>4, MulOrder
    <2>6. b * (D * k + D) = b * (D * k) + b * D /\ b * (D * k) \in Int /\ b * D \in Int BY <2>3
    <2>7. w < b * D BY <1>4, <2>1, <2>5, <2>6
    <2> QED BY <1>5, <2>7
  <1>9. u \div D = k <=> e * x < D BY <1>7, <1>8
  <1> QED BY <1>2, <1>9 DEF x, u, k

LEMMA RoundedDown ==
  ASSUME NEW B \in Nat \ {0}, NEW b \in Nat \ {0}, NEW p \in Nat \ {0}, NEW m \in Nat,
         NEW f \in 1 .. p, NEW n \in 0 .. B - 1, b * m = B * p - f
  PROVE  (m + m * n) \div (B * p) = n \div b
  <1> DEFINE q == n \div b
             r == n % b
             D == B * p
  <1>1. q \in Int /\ r \in 0 .. b - 1 /\ n = b * q + r BY DivMod
  <1>2. D \in Nat \ {0} OBVIOUS
  <1>3. b * m = D - f OBVIOUS
  <1>4. f * (n + 1) <= D
    <2>1. (n + 1) * f <= (n + 1) * p /\ p * (n + 1) <= p * B BY MulBound
    <2>2. (n + 1) * f = f * (n + 1) /\ (n + 1) * p = p * (n + 1) /\ p * B = B * p OBVIOUS
    <2>3. f * (n + 1) \in Int /\ p * (n + 1) \in Int /\ B * p \in Int OBVIOUS
    <2> QED BY <2>1, <2>2, <2>3
  <1>5. f * (n + 1) > 0 /\ f * (n + 1) \in Int OBVIOUS
  <1> HIDE DEF q, r, D
  <1> DEFINE g == f * (n + 1)
             w == D * (r + 1) - g
  <1>6. b * (m + m * n) = b * (D * q) + w
    <2>1. b * (m + m * n) = (b * m) * (n + 1) OBVIOUS
    <2>2. (D - f) * (n + 1) = D * (n + 1) - f * (n + 1) BY <1>2
    <2>3. D * (b * q + r + 1) = b * (D * q) + D * (r + 1) BY <1>1, <1>2
    <2>4. D * (n + 1) = b * (D * q) + D * (r + 1) BY <1>1, <2>3
    <2>5. D * (n + 1) \in Int /\ b * (D * q) \in Int /\ D * (r + 1) \in Int BY <1>1, <1>2
    <2>6. b * (m + m * n) = D * (n + 1) - f * (n + 1) BY <1>3, <2>1, <2>2
    <2> QED BY <1>5, <2>4, <2>5, <2>6
  <1>7. g > 0 /\ g <= D /\ g \in Int BY <1>4, <1>5
  <1> HIDE DEF g
  <1>8. w \in Int /\ 0 <= w /\ w < b * D
    <2>1. D * 1 <= D * (r + 1) /\ D * (r + 1) <= D * b BY <1>1, <1>2, MulBound
    <2>2. D * 1 = D /\ D * (r + 1) \in Int /\ D * b \in Int /\ D * b = b * D BY <1>1, <1>2
    <2> QED BY <1>2, <1>7, <2>1, <2>2
  <1> HIDE DEF w
  <1> DEFINE v == m + m * n
  <1>9. v \in Int /\ b * v = b * (D * q) + w BY <1>6
  <1> HIDE DEF v
  <1>10. v \div D = q BY <1>1, <1>2, <1>8, <1>9, Scaled
  <1> QED BY <1>10 DEF D, v, q

LEMMA Cofactor ==
  ASSUME NEW B \in Nat \ {0}, NEW o \in Nat \ {0}, NEW m \in Nat, NEW n \in 0 .. B - 1, o * m = B - 1
  PROVE  (m + m * n) \div B = n \div o
  <1> DEFINE q == n \div o
             r == n % o
  <1>1. q \in Int /\ r \in 0 .. o - 1 /\ n = o * q + r BY DivMod
  <1> HIDE DEF q, r
  <1> DEFINE w == m * (r + 1) - q
  <1>2. m + m * n = B * q + w
    <2>1. m * (o * q + r) = (o * m) * q + m * r BY <1>1
    <2>2. (B - 1) * q = B * q - q /\ B * q \in Int /\ m * r \in Int BY <1>1
    <2>3. m * (r + 1) = m * r + m BY <1>1
    <2>4. m * n = (B * q - q) + m * r BY <1>1, <2>1, <2>2
    <2> QED BY <1>1, <2>2, <2>3, <2>4
  <1>3. m * (r + 1) <= B - 1 /\ m * (r + 1) \in Int
    <2>1. m * (r + 1) <= m * o BY <1>1, MulBound
    <2>2. m * o = o * m OBVIOUS
    <2> QED BY <1>1, <2>1, <2>2
  <1>4. q <= m
    <2>1. o * q \in Int /\ o * m \in Int BY <1>1
    <2>2. o * q <= o * m BY <1>1, <2>1
    <2> QED BY <1>1, <2>2, MulOrder
  <1>5. q >= 0
    <2>1. CASE q < 0
      <3>1. o * q + o <= o * 0 BY <1>1, <2>1, MulMono
      <3>2. o * q \in Int /\ o * 0 = 0 BY <1>1
      <3> QED BY <1>1, <3>1, <3>2
    <2> QED BY <1>1, <2>1
  <1>6. m * 1 <= m * (r + 1) /\ m * 1 = m BY <1>1, MulBound
  <1>7. w \in 0 .. B - 1 BY <1>1, <1>3, <1>4, <1>5, <1>6
  <1> HIDE DEF w
  <1>8. (B * q + w) \div B = q BY <1>1, <1>7, DivUnique
  <1> QED BY <1>2, <1>8 DEF q

=============================================================================

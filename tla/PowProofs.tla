----------------------------- MODULE PowProofs -----------------------------
(***************************************************************************)
(* Proofs about Pow: rounding to nBits and back gives the greatest number  *)
(* that nBits can hold, so it is monotone; with that the two rules for the *)
(* next target, and the test of headers sync, can be compared for every    *)
(* base, width, network and chain.                                         *)
(***************************************************************************)
EXTENDS Pow, WellFoundedInduction, TLAPS

-----------------------------------------------------------------------------
(* Induction, and the powers of the base.                                   *)

\* Every nonempty set of natural numbers has a least one.
LEMMA LeastOf ==
  ASSUME NEW T, T \subseteq Nat, T # {}
  PROVE  \E n \in T : \A m \in T : n <= m
<1> DEFINE R == OpToRel(<, Nat)
<1>1. IsWellFoundedOn(R, Nat)  BY NatLessThanWellFounded
<1>2. \E x \in T : \A y \in T : ~(<<y, x>> \in R)
  <2> HIDE DEF R
  <2> QED BY <1>1, WFMin
<1>3. PICK x \in T : \A y \in T : ~(<<y, x>> \in R)  BY <1>2
<1>4. ASSUME NEW y \in T PROVE x <= y
  <2>1. x \in Nat /\ y \in Nat  OBVIOUS
  <2>2. <<y, x>> \notin R  BY <1>3
  <2>3. ~(y < x)  BY <2>1, <2>2 DEF OpToRel
  <2> QED BY <2>1, <2>3
<1> HIDE DEF R
<1> QED BY <1>4

\* A set with 0 and with the successors of its members holds every natural number.
LEMMA CountUp ==
  ASSUME NEW T, 0 \in T, \A n \in Nat : n \in T => n + 1 \in T
  PROVE  Nat \subseteq T
<1> DEFINE M == Nat \ T
<1> SUFFICES ASSUME M # {} PROVE FALSE  OBVIOUS
<1>0. M \subseteq Nat  OBVIOUS
<1>1. PICK n \in M : \A m \in M : n <= m
  <2> HIDE DEF M
  <2> QED BY <1>0, LeastOf
<1>2. n \in Nat /\ n \notin T /\ n # 0  OBVIOUS
<1>3. n - 1 \in Nat /\ (n - 1) + 1 = n /\ ~(n <= n - 1)  BY <1>2
<1>4. n - 1 \in T  BY <1>1, <1>3
<1> QED BY <1>2, <1>3, <1>4

\* What PowAssumption says of the numbers.
LEMMA Numbers ==
  /\ BASE \in Nat /\ BASE >= 2 /\ DIGITS \in Nat /\ DIGITS >= 2 /\ WIDTH \in Nat
  /\ \E half \in Nat : half >= 1 /\ BASE = 2 * half
<1>1. BASE \in Nat /\ BASE >= 2 /\ DIGITS \in Nat /\ DIGITS >= 2 /\ WIDTH \in Nat /\ BASE % 2 = 0
  BY PowAssumption
<1>2. BASE \div 2 \in Nat /\ BASE \div 2 >= 1 /\ BASE = 2 * (BASE \div 2)  BY <1>1
<1> QED BY <1>1, <1>2

\* f is a table of the powers up to N.
IsPower(f, N) == f \in [0..N -> Nat] /\ f[0] = 1 /\ \A n \in 1..N : f[n] = BASE * f[n - 1]

\* There is such a table for every N.
LEMMA PowerExists ==
  \A N \in Nat : \E f : IsPower(f, N)
<1> DEFINE T == {N \in Nat : \E f : IsPower(f, N)}
<1>1. 0 \in T
  <2>1. IsPower([n \in 0..0 |-> 1], 0)  BY DEF IsPower
  <2> QED BY <2>1
<1>2. ASSUME NEW N \in Nat, N \in T PROVE N + 1 \in T
  <2>1. PICK f : IsPower(f, N)  BY <1>2
  <2>2. f \in [0..N -> Nat] /\ f[0] = 1 /\ \A n \in 1..N : f[n] = BASE * f[n - 1]
    BY <2>1 DEF IsPower
  <2> DEFINE g == [n \in 0..(N + 1) |-> IF n = N + 1 THEN BASE * f[N] ELSE f[n]]
  <2>3. BASE * f[N] \in Nat
    <3>1. f[N] \in Nat  BY <2>2
    <3> QED BY <3>1, Numbers
  <2>4. g \in [0..(N + 1) -> Nat] /\ g[0] = 1  BY <2>2, <2>3
  <2>5. ASSUME NEW n \in 1..(N + 1) PROVE g[n] = BASE * g[n - 1]
    <3>1. g[n - 1] = f[n - 1]  OBVIOUS
    <3>2. CASE n = N + 1  BY <3>1, <3>2
    <3>3. CASE n # N + 1
      <4>1. n \in 1..N  BY <3>3
      <4> QED BY <2>2, <3>1, <3>3, <4>1
    <3> QED BY <3>2, <3>3
  <2> HIDE DEF g
  <2>6. IsPower(g, N + 1)  BY <2>4, <2>5 DEF IsPower
  <2> QED BY <2>6
<1>3. Nat \subseteq T
  <2> HIDE DEF T
  <2> QED BY <1>1, <1>2, CountUp
<1> QED BY <1>3

\* Two tables agree where both are defined.
LEMMA PowerUnique ==
  ASSUME NEW f, NEW g, NEW N \in Nat, NEW M \in Nat, IsPower(f, N), IsPower(g, M), N <= M
  PROVE  \A n \in 0..N : f[n] = g[n]
<1> DEFINE T == {n \in Nat : n <= N => f[n] = g[n]}
<1>1. 0 \in T  BY DEF IsPower
<1>2. ASSUME NEW n \in Nat, n \in T PROVE n + 1 \in T
  <2> SUFFICES ASSUME n + 1 <= N PROVE f[n + 1] = g[n + 1]  OBVIOUS
  <2>1. f[n] = g[n]  BY <1>2
  <2>2. n + 1 \in 1..N /\ n + 1 \in 1..M /\ (n + 1) - 1 = n  OBVIOUS
  <2>3. f[n + 1] = BASE * f[n]  BY <2>2 DEF IsPower
  <2>4. g[n + 1] = BASE * g[n]  BY <2>2 DEF IsPower
  <2> QED BY <2>1, <2>3, <2>4
<1>3. Nat \subseteq T
  <2> HIDE DEF T
  <2> QED BY <1>1, <1>2, CountUp
<1> QED BY <1>3

\* The recursive definition of Power has a solution, so Power is one.
LEMMA PowerIs ==
  /\ Power[0] = 1
  /\ \A n \in Nat : Power[n] \in Nat /\ Power[n + 1] = BASE * Power[n]
<1> DEFINE f(n) == CHOOSE h : IsPower(h, n)
           F == [n \in Nat |-> f(n)[n]]
<1>1. \A n \in Nat : IsPower(f(n), n)  BY PowerExists
<1> HIDE DEF f
<1>2. F[0] = 1  BY <1>1 DEF IsPower
<1>3. ASSUME NEW n \in Nat PROVE F[n] \in Nat /\ F[n + 1] = BASE * F[n]
  <2>0. F[n] = f(n)[n] /\ F[n + 1] = f(n + 1)[n + 1]  OBVIOUS
  <2>1. n + 1 \in Nat /\ n \in 0..n /\ n + 1 \in 1..(n + 1) /\ (n + 1) - 1 = n /\ n <= n + 1  OBVIOUS
  <2>2. IsPower(f(n), n) /\ IsPower(f(n + 1), n + 1)  BY <1>1, <2>1
  <2>3. f(n)[n] = f(n + 1)[n]  BY <2>1, <2>2, PowerUnique
  <2>4. f(n + 1)[n + 1] = BASE * f(n + 1)[n]  BY <2>1, <2>2 DEF IsPower
  <2>5. f(n)[n] \in Nat  BY <2>1, <2>2 DEF IsPower
  <2> QED BY <2>0, <2>3, <2>4, <2>5
<1>4. F = [n \in Nat |-> IF n = 0 THEN 1 ELSE BASE * F[n - 1]]
  <2> SUFFICES ASSUME NEW n \in Nat PROVE F[n] = IF n = 0 THEN 1 ELSE BASE * F[n - 1]
    OBVIOUS
  <2>1. CASE n = 0  BY <1>2, <2>1
  <2>2. CASE n # 0
    <3>1. n - 1 \in Nat /\ (n - 1) + 1 = n  BY <2>2
    <3>2. F[n] = BASE * F[n - 1]
      <4> HIDE DEF F
      <4> QED BY <1>3, <3>1
    <3> QED BY <2>2, <3>2
  <2> QED BY <2>1, <2>2
<1> HIDE DEF F
<1>5. Power = [n \in Nat |-> IF n = 0 THEN 1 ELSE BASE * Power[n - 1]]
  BY <1>4 DEF Power
<1>6. \A n \in Nat : Power[n] = IF n = 0 THEN 1 ELSE BASE * Power[n - 1]
  BY <1>5
<1>7. Power[0] = 1  BY <1>6
<1>8. \A n \in Nat : Power[n + 1] = BASE * Power[n]
  <2> TAKE n \in Nat
  <2>1. n + 1 \in Nat /\ n + 1 # 0 /\ (n + 1) - 1 = n  OBVIOUS
  <2> QED BY <1>6, <2>1
<1> DEFINE T == {n \in Nat : Power[n] \in Nat}
<1>9. 0 \in T  BY <1>7
<1>10. ASSUME NEW n \in Nat, n \in T PROVE n + 1 \in T  BY <1>8, <1>10, Numbers
<1>11. Nat \subseteq T
  <2> HIDE DEF T
  <2> QED BY <1>9, <1>10, CountUp
<1> QED BY <1>7, <1>8, <1>11

-----------------------------------------------------------------------------
(* Products and quotients of natural numbers.                               *)

\* Products of natural numbers are natural numbers.
LEMMA MulNat ==
  ASSUME NEW a \in Nat, NEW b \in Nat
  PROVE  a * b \in Nat
OBVIOUS

\* A product does not decrease when a factor grows.
LEMMA MulMono ==
  ASSUME NEW a \in Nat, NEW b \in Nat, NEW c \in Nat, a <= b
  PROVE  a * c <= b * c /\ c * a <= c * b
<1>1. (b - a) * c >= 0  OBVIOUS
<1>2. b * c = a * c + (b - a) * c  OBVIOUS
<1> QED BY <1>1, <1>2

\* A positive factor keeps and reflects the strict order.
LEMMA MulLess ==
  ASSUME NEW a \in Nat, NEW b \in Nat, NEW c \in Nat, c >= 1
  PROVE  a * c < b * c <=> a < b
<1>1. ASSUME a < b PROVE a * c < b * c
  <2>1. (a + 1) * c <= b * c
    <3>1. a + 1 \in Nat /\ a + 1 <= b  BY <1>1
    <3> QED BY <3>1, MulMono
  <2>2. (a + 1) * c = a * c + c  OBVIOUS
  <2> QED BY <2>1, <2>2
<1>2. ASSUME b <= a PROVE b * c <= a * c  BY <1>2, MulMono
<1> QED BY <1>1, <1>2

\* The rearrangements of a product that the proofs use.
LEMMA MulAssoc ==
  ASSUME NEW a \in Nat, NEW b \in Nat, NEW c \in Nat
  PROVE  (a * b) * c = a * (b * c) /\ a * b = b * a /\ (a * b) * c = (a * c) * b
OBVIOUS

\* The quotient is the only q with q * d <= n < q * d + d.
LEMMA DivIs ==
  ASSUME NEW n \in Nat, NEW d \in Nat, d >= 1
  PROVE  n \div d \in Nat /\ (n \div d) * d <= n /\ n < (n \div d) * d + d
OBVIOUS

\* Whoever lies in that range is the quotient.
LEMMA DivUnique ==
  ASSUME NEW n \in Nat, NEW d \in Nat, d >= 1, NEW q \in Nat, q * d <= n, n < q * d + d
  PROVE  n \div d = q
<1> DEFINE r == n \div d
<1>1. r \in Nat /\ r * d <= n /\ n < r * d + d  BY DivIs
<1> HIDE DEF r
<1>2. (r + 1) * d = r * d + d /\ (q + 1) * d = q * d + d  BY <1>1
<1>3. q < r + 1
  <2>1. q * d < (r + 1) * d  BY <1>1, <1>2
  <2> QED BY <1>1, <2>1, MulLess
<1>4. r < q + 1
  <2>1. r * d < (q + 1) * d  BY <1>1, <1>2
  <2> QED BY <1>1, <2>1, MulLess
<1> QED BY <1>1, <1>3, <1>4 DEF r

\* Dividing a multiple gives the factor back.
LEMMA DivMul ==
  ASSUME NEW a \in Nat, NEW d \in Nat, d >= 1
  PROVE  (a * d) \div d = a
BY MulNat, DivUnique

\* Whole multiples of d below n are below its quotient.
LEMMA DivMost ==
  ASSUME NEW n \in Nat, NEW d \in Nat, d >= 1, NEW a \in Nat
  PROVE  a * d <= n <=> a <= n \div d
<1> DEFINE q == n \div d
<1>1. q \in Nat /\ q * d <= n /\ n < q * d + d  BY DivIs
<1> HIDE DEF q
<1>2. ASSUME a <= q PROVE a * d <= n
  <2>1. a * d <= q * d  BY <1>1, <1>2, MulMono
  <2> QED BY <1>1, <2>1
<1>3. ASSUME q < a PROVE n < a * d
  <2>1. (q + 1) * d <= a * d  BY <1>1, <1>3, MulMono
  <2>2. (q + 1) * d = q * d + d  BY <1>1
  <2> QED BY <1>1, <2>1, <2>2
<1> QED BY <1>1, <1>2, <1>3 DEF q

\* A quotient does not decrease when the dividend grows.
LEMMA DivMono ==
  ASSUME NEW n \in Nat, NEW m \in Nat, NEW d \in Nat, d >= 1, n <= m
  PROVE  n \div d <= m \div d
<1>1. n \div d \in Nat /\ (n \div d) * d <= n  BY DivIs
<1>2. (n \div d) * d <= m  BY <1>1
<1> QED BY <1>1, <1>2, DivMost

\* Dividing twice is dividing by the product.
LEMMA DivDiv ==
  ASSUME NEW n \in Nat, NEW a \in Nat, NEW b \in Nat, a >= 1, b >= 1
  PROVE  (n \div a) \div b = n \div (a * b)
<1> DEFINE q == n \div a
           r == q \div b
<1>1. q \in Nat /\ q * a <= n /\ n < q * a + a  BY DivIs
<1>2. r \in Nat /\ r * b <= q /\ q < r * b + b
  <2> HIDE DEF q
  <2> QED BY <1>1, DivIs
<1> HIDE DEF q, r
<1>3. a * b \in Nat /\ a * b >= 1 /\ r * b \in Nat /\ r * b + b \in Nat  BY <1>2
<1>4. r * (a * b) <= n
  <2>1. (r * b) * a <= q * a  BY <1>1, <1>2, <1>3, MulMono
  <2>2. (r * b) * a = r * (a * b)  BY <1>2, MulAssoc
  <2> QED BY <1>1, <1>3, <2>1, <2>2
<1>5. n < r * (a * b) + a * b
  <2>1. (q + 1) * a <= (r * b + b) * a  BY <1>1, <1>2, <1>3, MulMono
  <2>2. (q + 1) * a = q * a + a  BY <1>1
  <2>3. (r * b + b) * a = r * (a * b) + a * b
    <3>1. (r * b + b) * a = (r * b) * a + b * a  BY <1>2, <1>3
    <3>2. (r * b) * a = r * (a * b)  BY <1>2, MulAssoc
    <3> QED BY <3>1, <3>2, MulAssoc
  <2>4. q * a \in Nat /\ (r * b + b) * a \in Nat  BY <1>1, <1>3
  <2> HIDE DEF q, r
  <2>5. n < (r * b + b) * a  BY <1>1, <2>1, <2>2, <2>4
  <2> QED BY <2>3, <2>5
<1>6. n \div (a * b) = r  BY <1>2, <1>3, <1>4, <1>5, DivUnique
<1> QED BY <1>6 DEF q, r

\* A number below a modulus is its own remainder.
LEMMA ModSmall ==
  ASSUME NEW n \in Nat, NEW d \in Nat, n < d
  PROVE  n % d = n
OBVIOUS

-----------------------------------------------------------------------------
\* Powers are positive.
LEMMA PowerPos ==
  \A n \in Nat : Power[n] \in Nat /\ Power[n] >= 1
<1> DEFINE T == {n \in Nat : Power[n] >= 1}
<1>1. 0 \in T  BY PowerIs
<1>2. ASSUME NEW n \in Nat, n \in T PROVE n + 1 \in T
  <2>1. Power[n] \in Nat /\ Power[n] >= 1 /\ Power[n + 1] = BASE * Power[n]  BY <1>2, PowerIs
  <2>2. BASE \in Nat /\ BASE >= 1  BY Numbers
  <2>3. 1 * Power[n] <= BASE * Power[n]  BY <2>1, <2>2, MulMono
  <2> QED BY <2>1, <2>2, <2>3
<1>3. Nat \subseteq T
  <2> HIDE DEF T
  <2> QED BY <1>1, <1>2, CountUp
<1> QED BY <1>3, PowerIs

\* The power of a sum is the product of the powers.
LEMMA PowerSum ==
  \A m, n \in Nat : Power[m + n] = Power[m] * Power[n]
<1> TAKE m \in Nat
<1> DEFINE T == {n \in Nat : Power[m + n] = Power[m] * Power[n]}
<1>0. Power[m] \in Nat  BY PowerIs
<1>1. 0 \in T  BY <1>0, PowerIs
<1>2. ASSUME NEW n \in Nat, n \in T PROVE n + 1 \in T
  <2>1. m + n \in Nat /\ m + (n + 1) = (m + n) + 1 /\ BASE \in Nat  BY Numbers
  <2>2. Power[m + (n + 1)] = BASE * Power[m + n] /\ Power[n + 1] = BASE * Power[n] /\ Power[n] \in Nat
    BY <2>1, PowerIs
  <2>3. Power[m + n] = Power[m] * Power[n]  BY <1>2
  <2>4. BASE * (Power[m] * Power[n]) = Power[m] * (BASE * Power[n])
    BY <1>0, <2>1, <2>2, MulAssoc
  <2> QED BY <2>2, <2>3, <2>4
<1>3. Nat \subseteq T
  <2> HIDE DEF T
  <2> QED BY <1>1, <1>2, CountUp
<1> QED BY <1>3

\* The same, for an exponent written as a sum.
LEMMA PowerSplit ==
  ASSUME NEW m \in Nat, NEW n \in Nat, NEW k \in Nat, k = m + n
  PROVE  Power[k] = Power[m] * Power[n] /\ Power[m] \in Nat /\ Power[n] \in Nat
BY PowerSum, PowerIs

\* Powers grow with the exponent, by whole factors.
LEMMA PowerMono ==
  ASSUME NEW m \in Nat, NEW n \in Nat, m <= n
  PROVE  Power[m] <= Power[n] /\ Power[n] = Power[n - m] * Power[m]
<1>1. n - m \in Nat /\ (n - m) + m = n  OBVIOUS
<1>2. Power[n] = Power[n - m] * Power[m]  BY <1>1, PowerSum
<1>3. Power[m] \in Nat /\ Power[n - m] \in Nat /\ Power[n - m] >= 1  BY <1>1, PowerPos
<1>4. 1 * Power[m] <= Power[n - m] * Power[m]  BY <1>3, MulMono
<1> QED BY <1>2, <1>3, <1>4

-----------------------------------------------------------------------------
(* Compact numbers.                                                         *)

\* The sign bit is the upper half of the highest digit, and a multiple of BASE.
LEMMA SignBitIs ==
  /\ SignBit \in Nat /\ SignBit >= 2 /\ Power[DIGITS] = 2 * SignBit
  /\ Power[DIGITS - 1] <= SignBit
  /\ \E k \in Nat : SignBit = k * BASE
<1>1. PICK half \in Nat : half >= 1 /\ BASE = 2 * half  BY Numbers
<1>2. DIGITS - 1 \in Nat /\ DIGITS - 2 \in Nat /\ (DIGITS - 1) + 1 = DIGITS
      /\ (DIGITS - 2) + 1 = DIGITS - 1 /\ BASE \in Nat /\ BASE >= 2
  BY Numbers
<1> DEFINE p == Power[DIGITS - 1]
           q == Power[DIGITS - 2]
<1>3. p \in Nat /\ q \in Nat /\ q >= 1 /\ p >= 1 /\ p = BASE * q /\ Power[DIGITS] = BASE * p
  BY <1>2, PowerIs, PowerPos
<1> HIDE DEF p, q
<1>4. half * p \in Nat /\ BASE * p = 2 * (half * p)  BY <1>1, <1>3
<1>5. SignBit = half * p  BY <1>3, <1>4 DEF SignBit
<1>6. half * p = (half * q) * BASE /\ half * q \in Nat /\ half * q >= 1  BY <1>1, <1>2, <1>3
<1>7. 1 * p <= half * p  BY <1>1, <1>3, MulMono
<1>8. 1 * BASE <= (half * q) * BASE  BY <1>2, <1>6, MulMono
<1> QED BY <1>2, <1>3, <1>4, <1>5, <1>6, <1>7, <1>8 DEF p

\* The numbers of at most WIDTH digits.
Targets == {n \in Nat : n < Power[WIDTH]}

\* The CHOOSE in Size has a value: the number of digits of n.
LEMMA SizeIs ==
  ASSUME NEW n \in Targets
  PROVE  /\ Size(n) \in Nat /\ Size(n) <= WIDTH /\ n < Power[Size(n)]
         /\ Size(n) = 0 \/ n >= Power[Size(n) - 1]
<1> DEFINE T == {s \in Nat : n < Power[s]}
<1>1. WIDTH \in T  BY Numbers DEF Targets
<1>2. PICK s \in T : \A r \in T : s <= r
  <2> HIDE DEF T
  <2>1. T \subseteq Nat  BY DEF T
  <2> QED BY <1>1, <2>1, LeastOf
<1>3. s \in Nat /\ s <= WIDTH /\ n < Power[s]  BY <1>1, <1>2
<1>4. s = 0 \/ n >= Power[s - 1]
  <2> SUFFICES ASSUME s # 0 PROVE n >= Power[s - 1]  OBVIOUS
  <2>1. s - 1 \in Nat /\ ~(s <= s - 1)  BY <1>3
  <2>2. s - 1 \notin T  BY <1>2, <2>1
  <2>3. Power[s - 1] \in Nat /\ n \in Nat  BY <2>1, PowerIs DEF Targets
  <2> QED BY <2>1, <2>2, <2>3
<1>5. s \in 0..WIDTH  BY <1>3, Numbers
<1> HIDE DEF T
<1>6. Size(n) \in 0..WIDTH /\ n < Power[Size(n)] /\ (Size(n) = 0 \/ n >= Power[Size(n) - 1])
  BY <1>3, <1>4, <1>5 DEF Size
<1> QED BY <1>6, Numbers

(***************************************************************************)
(* The compact form of n: all of a number below the sign bit, otherwise    *)
(* the leading digits, as many as fit below the sign bit.                  *)
(***************************************************************************)
Exact(n, c) == n < SignBit /\ c.size <= DIGITS /\ c.word = n * Power[DIGITS - c.size]
Rounded(n, c) ==
  /\ c.size > DIGITS /\ c.word = n \div Power[c.size - DIGITS]
  /\ SignBit * Power[c.size - DIGITS - 1] <= n

\* GetCompact is one of the two, with a word below the sign bit: the assertion in its code.
LEMMA CompactIs ==
  ASSUME NEW n \in Targets
  PROVE  /\ GetCompact(n) = [size |-> GetCompact(n).size, word |-> GetCompact(n).word]
         /\ GetCompact(n).size \in Nat /\ GetCompact(n).size <= WIDTH + 1
         /\ GetCompact(n).word \in Nat /\ GetCompact(n).word < SignBit
         /\ Exact(n, GetCompact(n)) \/ Rounded(n, GetCompact(n))
<1> DEFINE s == Size(n)
           c == GetCompact(n)
<1>1. s \in Nat /\ s <= WIDTH /\ n < Power[s] /\ (s = 0 \/ n >= Power[s - 1])  BY SizeIs
<1>2. n \in Nat  BY DEF Targets
<1>3. /\ BASE \in Nat /\ BASE >= 2 /\ DIGITS \in Nat /\ DIGITS >= 2
      /\ SignBit \in Nat /\ Power[DIGITS] = 2 * SignBit /\ Power[DIGITS - 1] <= SignBit
      /\ Power[DIGITS] = BASE * Power[DIGITS - 1] /\ Power[DIGITS - 1] \in Nat
  <2>1. DIGITS - 1 \in Nat /\ (DIGITS - 1) + 1 = DIGITS  BY Numbers
  <2> QED BY <2>1, Numbers, SignBitIs, PowerIs
<1>4. CASE s < DIGITS
  <2> DEFINE e == DIGITS - s
             p == Power[e - 1]
  <2>1. e \in Nat /\ e - 1 \in Nat /\ (e - 1) + 1 = e /\ s + e = DIGITS /\ DIGITS - (s + 1) = e - 1
    BY <1>1, <1>3, <1>4
  <2>2. Leading(n) = n * Power[e]  BY <1>1, <1>3, <1>4 DEF Leading
  <2>3. p \in Nat /\ p >= 1 /\ Power[e] = BASE * p /\ Power[e] \in Nat /\ Power[e] >= 1
    BY <2>1, PowerIs, PowerPos
  <2>4. n < SignBit
    <3>1. Power[s] <= Power[DIGITS - 1] /\ Power[s] \in Nat
      <4>1. s <= DIGITS - 1 /\ DIGITS - 1 \in Nat  BY <1>1, <1>3, <1>4
      <4> QED BY <1>1, <4>1, PowerMono, PowerIs
    <3> QED BY <1>1, <1>2, <1>3, <3>1
  <2>5. CASE Leading(n) >= SignBit
    <3>1. c = [size |-> s + 1, word |-> Leading(n) \div BASE]  BY <2>5 DEF GetCompact
    <3>2. Leading(n) \div BASE = n * p
      <4>1. n * (BASE * p) = (n * p) * BASE /\ n * p \in Nat  BY <1>2, <1>3, <2>3, MulAssoc, MulNat
      <4> QED BY <1>3, <2>2, <2>3, <4>1, DivMul
    <3>3. n * p < SignBit
      <4>1. n * Power[e] < Power[DIGITS]
        <5>1. Power[DIGITS] = Power[s] * Power[e] /\ Power[s] \in Nat
          BY <1>1, <1>3, <2>1, PowerSplit
        <5> QED BY <1>1, <1>2, <2>3, <5>1, MulLess
      <4>2. (n * p) * BASE < Power[DIGITS - 1] * BASE
        <5>1. n * Power[e] = (n * p) * BASE  BY <1>2, <1>3, <2>3, MulAssoc
        <5>2. Power[DIGITS] = Power[DIGITS - 1] * BASE  BY <1>3, MulAssoc
        <5> QED BY <4>1, <5>1, <5>2
      <4>3. n * p < Power[DIGITS - 1]
        <5>1. n * p \in Nat  BY <1>2, <2>3, MulNat
        <5> QED BY <1>3, <4>2, <5>1, MulLess
      <4>4. n * p \in Nat  BY <1>2, <2>3, MulNat
      <4> QED BY <1>3, <4>3, <4>4
    <3>4. n * p \in Nat  BY <1>2, <2>3, MulNat
    <3>5. c.size = s + 1 /\ c.word = n * p /\ s + 1 <= DIGITS /\ s + 1 \in Nat /\ s + 1 <= WIDTH + 1
      BY <1>1, <1>3, <1>4, <3>1, <3>2, Numbers
    <3>6. Exact(n, c)  BY <2>1, <2>4, <3>5 DEF Exact
    <3> QED BY <3>1, <3>3, <3>4, <3>5, <3>6
  <2>6. CASE ~(Leading(n) >= SignBit)
    <3>1. c = [size |-> s, word |-> Leading(n)]  BY <2>6 DEF GetCompact
    <3>2. n * Power[e] \in Nat  BY <1>2, <2>3, MulNat
    <3>3. c.size = s /\ c.word = n * Power[e] /\ n * Power[e] < SignBit /\ s <= WIDTH + 1
      BY <1>1, <1>3, <2>2, <2>6, <3>1, <3>2, Numbers
    <3>4. Exact(n, c)  BY <1>4, <1>1, <1>3, <2>4, <3>3 DEF Exact
    <3> QED BY <1>1, <3>1, <3>2, <3>3, <3>4
  <2> QED BY <2>5, <2>6
<1>5. CASE s >= DIGITS
  <2> DEFINE e == s - DIGITS
             p == Power[e]
  <2>1. e \in Nat /\ s = e + DIGITS /\ (s + 1) - DIGITS = e + 1 /\ (s + 1) - DIGITS - 1 = e
    BY <1>1, <1>3, <1>5
  <2>2. p \in Nat /\ p >= 1 /\ Power[e + 1] = BASE * p /\ Power[e + 1] \in Nat /\ Power[e + 1] >= 1
    BY <2>1, PowerIs, PowerPos
  <2>3. Leading(n) = n \div p
    <3>1. CASE s = DIGITS
      <4>1. Leading(n) = n * Power[0] /\ p = Power[0]  BY <1>3, <3>1 DEF Leading
      <4>2. n * 1 = n /\ n \div 1 = n  BY <1>2
      <4> QED BY <4>1, <4>2, PowerIs
    <3>2. CASE s # DIGITS
      BY <1>1, <1>3, <1>5, <3>2 DEF Leading
    <3> QED BY <3>1, <3>2
  <2>4. n \div p \in Nat /\ n \div p < Power[DIGITS]
    <3>1. Power[s] = Power[DIGITS] * p /\ Power[DIGITS] \in Nat
      <4>1. s = DIGITS + e  BY <2>1, <1>3
      <4>2. s \in Nat /\ DIGITS \in Nat /\ e \in Nat  BY <1>1, <1>3, <2>1
      <4> HIDE DEF s, e
      <4> QED BY <4>1, <4>2, PowerSplit
    <3>2. n \div p \in Nat /\ (n \div p) * p <= n  BY <1>2, <2>2, DivIs
    <3>3. (n \div p) * p < Power[DIGITS] * p  BY <1>1, <1>2, <2>2, <3>1, <3>2
    <3> QED BY <2>2, <3>1, <3>2, <3>3, MulLess
  <2>5. CASE Leading(n) >= SignBit
    <3>1. c = [size |-> s + 1, word |-> Leading(n) \div BASE]  BY <2>5 DEF GetCompact
    <3>2. Leading(n) \div BASE = n \div Power[e + 1]
      <4>1. Power[e + 1] = p * BASE  BY <1>3, <2>2, MulAssoc
      <4> QED BY <1>2, <1>3, <2>2, <2>3, <4>1, DivDiv
    <3>3. Leading(n) \div BASE \in Nat /\ Leading(n) \div BASE < SignBit
      <4> DEFINE w == Leading(n)
                 q == w \div BASE
      <4>1. w \in Nat /\ w < BASE * Power[DIGITS - 1]  BY <1>3, <2>3, <2>4
      <4>2. q \in Nat /\ q * BASE <= w
        <5>1. w \in Nat  BY <4>1
        <5>2. BASE \in Nat /\ BASE >= 1  BY Numbers
        <5> HIDE DEF w
        <5> QED BY <5>1, <5>2, DivIs
      <4> HIDE DEF q, w
      <4>3. q * BASE < Power[DIGITS - 1] * BASE  BY <1>3, <4>1, <4>2, MulAssoc
      <4>4. q < Power[DIGITS - 1]  BY <1>3, <4>2, <4>3, MulLess
      <4>5. q < SignBit  BY <1>3, <4>2, <4>4
      <4> QED BY <4>2, <4>5 DEF q, w
    <3>4. SignBit * p <= n  BY <1>2, <1>3, <2>2, <2>3, <2>5, DivMost
    <3>5. c.size = s + 1 /\ c.word = n \div Power[e + 1] /\ s + 1 > DIGITS /\ s + 1 \in Nat
          /\ s + 1 <= WIDTH + 1
      BY <1>1, <1>3, <1>5, <3>1, <3>2, Numbers
    <3>6. Rounded(n, c)  BY <2>1, <3>4, <3>5 DEF Rounded
    <3> QED BY <3>1, <3>2, <3>3, <3>5, <3>6
  <2>6. CASE ~(Leading(n) >= SignBit)
    <3>1. c = [size |-> s, word |-> Leading(n)]  BY <2>6 DEF GetCompact
    <3>2. c.size = s /\ c.word = n \div p /\ n \div p < SignBit /\ s <= WIDTH + 1
      BY <1>1, <1>3, <2>3, <2>4, <2>6, <3>1, Numbers
    <3>3. CASE s = DIGITS
      <4>1. p = 1 /\ n \div 1 = n /\ n * 1 = n  BY <1>2, <1>3, <3>3, PowerIs
      <4>2. DIGITS - s = 0 /\ Power[0] = 1  BY <1>3, <3>3, PowerIs
      <4>3. Exact(n, c)  BY <1>3, <3>2, <3>3, <4>1, <4>2 DEF Exact
      <4> QED BY <1>1, <2>4, <3>1, <3>2, <4>3
    <3>4. CASE s # DIGITS
      <4>1. e - 1 \in Nat /\ s > DIGITS /\ s - DIGITS - 1 = e - 1 /\ s - 1 = DIGITS + (e - 1)
        BY <1>1, <1>3, <1>5, <3>4
      <4>2. Power[s - 1] = Power[DIGITS] * Power[e - 1] /\ Power[e - 1] \in Nat
        <5>1. s - 1 \in Nat /\ DIGITS \in Nat  BY <1>1, <1>3, <4>1
        <5> HIDE DEF s, e
        <5> QED BY <4>1, <5>1, PowerSplit
      <4>3. n >= Power[s - 1]  BY <1>1, <1>3, <4>1
      <4>4. SignBit * Power[e - 1] <= Power[DIGITS] * Power[e - 1]
        BY <1>3, <4>2, MulMono
      <4>5. SignBit * Power[e - 1] <= n
        <5>1. SignBit * Power[e - 1] \in Nat /\ Power[DIGITS] * Power[e - 1] \in Nat
          BY <1>3, <4>2, MulNat
        <5> QED BY <1>2, <4>2, <4>3, <4>4, <5>1
      <4>6. Rounded(n, c)  BY <3>2, <4>1, <4>5 DEF Rounded
      <4> QED BY <1>1, <2>4, <3>1, <3>2, <4>6
    <3> QED BY <3>3, <3>4
  <2> QED BY <2>5, <2>6
<1> QED BY <1>1, <1>3, <1>4, <1>5

-----------------------------------------------------------------------------
(* Rounding to nBits and back.                                              *)

Round(n) == SetCompact(GetCompact(n))

\* What rounding keeps: the number itself, or its leading digits.
LEMMA RoundIs ==
  ASSUME NEW n \in Targets
  PROVE  /\ Exact(n, GetCompact(n)) => Round(n) = n
         /\ Rounded(n, GetCompact(n)) =>
              /\ Round(n) = GetCompact(n).word * Power[GetCompact(n).size - DIGITS]
              /\ Round(n) <= n /\ Round(n) \in Nat
<1> DEFINE c == GetCompact(n)
<1>1. c.size \in Nat /\ c.word \in Nat /\ c.word < SignBit  BY CompactIs
<1>2. n \in Nat /\ n < Power[WIDTH]  BY DEF Targets
<1>3. DIGITS \in Nat /\ WIDTH \in Nat /\ SignBit \in Nat  BY Numbers, SignBitIs
<1> HIDE DEF c
<1>4. c.word % SignBit = c.word  BY <1>1, <1>3, ModSmall
<1>5. ASSUME Exact(n, c) PROVE SetCompact(c) = n
  <2> DEFINE p == Power[DIGITS - c.size]
  <2>1. c.size <= DIGITS /\ c.word = n * p  BY <1>5 DEF Exact
  <2>2. DIGITS - c.size \in Nat  BY <1>1, <1>3, <2>1
  <2>3. p \in Nat /\ p >= 1  BY <2>2, PowerPos
  <2>4. SetCompact(c) = c.word \div p  BY <1>4, <2>1 DEF SetCompact
  <2> HIDE DEF p
  <2> QED BY <1>2, <2>1, <2>3, <2>4, DivMul
<1>6. ASSUME Rounded(n, c)
      PROVE  /\ SetCompact(c) = c.word * Power[c.size - DIGITS]
             /\ SetCompact(c) <= n /\ SetCompact(c) \in Nat
  <2> DEFINE p == Power[c.size - DIGITS]
             q == Power[WIDTH]
  <2>1. c.size > DIGITS /\ c.word = n \div p  BY <1>6 DEF Rounded
  <2>2. c.size - DIGITS \in Nat  BY <1>1, <1>3, <2>1
  <2>3. p \in Nat /\ p >= 1 /\ q \in Nat  BY <1>3, <2>2, PowerPos
  <2>4. SetCompact(c) = (c.word * p) % q
    <3>1. ~(c.size <= DIGITS)  BY <1>1, <1>3, <2>1
    <3> QED BY <1>4, <3>1 DEF SetCompact
  <2> HIDE DEF p
  <2>5. c.word * p <= n /\ c.word * p \in Nat
    <3>1. (n \div p) * p <= n  BY <1>2, <2>3, DivIs
    <3> QED BY <1>1, <2>1, <2>3, <3>1, MulNat
  <2>6. c.word * p < q  BY <1>2, <2>3, <2>5
  <2> DEFINE v == c.word * p
  <2>7. v \in Nat /\ v <= n /\ v < q /\ SetCompact(c) = v % q  BY <2>4, <2>5, <2>6
  <2> HIDE DEF v, q
  <2>8. SetCompact(c) = v  BY <2>3, <2>7, ModSmall
  <2> QED BY <2>7, <2>8 DEF v, p
<1> QED BY <1>5, <1>6 DEF Round, c

\* Nothing is rounded up, and the sign bit and what it stands for survive.
LEMMA RoundDown ==
  ASSUME NEW n \in Targets
  PROVE  Round(n) \in Nat /\ Round(n) <= n /\ Round(n) \in Targets
<1>1. n \in Nat /\ n < Power[WIDTH] /\ Power[WIDTH] \in Nat  BY Numbers, PowerIs DEF Targets
<1>2. Round(n) \in Nat /\ Round(n) <= n  BY <1>1, CompactIs, RoundIs
<1> QED BY <1>1, <1>2 DEF Targets

(***************************************************************************)
(* Rounding gives the greatest number that a word below the sign bit and   *)
(* an exponent can express.                                                *)
(***************************************************************************)
LEMMA RoundGreatest ==
  ASSUME NEW n \in Targets, NEW w \in Nat, NEW k \in Nat, w < SignBit, w * Power[k] <= n
  PROVE  w * Power[k] <= Round(n)
<1> DEFINE c == GetCompact(n)
           v == w * Power[k]
<1>1. c.size \in Nat /\ c.word \in Nat /\ c.word < SignBit /\ (Exact(n, c) \/ Rounded(n, c))
  BY CompactIs
<1>2. n \in Nat /\ DIGITS \in Nat /\ SignBit \in Nat /\ BASE \in Nat
  BY Numbers, SignBitIs DEF Targets
<1>3. Power[k] \in Nat /\ Power[k] >= 1 /\ v \in Nat
  <2>1. Power[k] \in Nat /\ Power[k] >= 1  BY PowerPos
  <2> QED BY <2>1, MulNat
<1> HIDE DEF c
<1>4. CASE Exact(n, c)
  BY <1>4, RoundIs DEF c
<1>5. CASE Rounded(n, c)
  <2> DEFINE e == c.size - DIGITS
             p == Power[e]
             r == Power[e - 1]
  <2>1. c.size > DIGITS /\ c.word = n \div p /\ SignBit * r <= n  BY <1>5 DEF Rounded
  <2>2. e \in Nat /\ e - 1 \in Nat /\ (e - 1) + 1 = e  BY <1>1, <1>2, <2>1
  <2>3. p \in Nat /\ p >= 1 /\ r \in Nat /\ r >= 1 /\ p = BASE * r  BY <2>2, PowerPos, PowerIs
  <2>4. Round(n) = c.word * p  BY <1>5, RoundIs DEF c
  <2> HIDE DEF p, r
  <2>5. CASE k >= e
    <3> DEFINE d == Power[k - e]
    <3>1. Power[k] = d * p /\ d \in Nat
      <4>1. k - e \in Nat  BY <2>2, <2>5
      <4>2. Power[k] = d * p  BY <2>2, <2>5, PowerMono DEF p
      <4> QED BY <4>1, <4>2, PowerIs
    <3> HIDE DEF d, v
    <3>2. v = (w * d) * p /\ w * d \in Nat  BY <2>3, <3>1, MulAssoc, MulNat DEF v
    <3>3. (w * d) * p <= n  BY <3>2 DEF v
    <3>4. w * d <= c.word  BY <1>2, <2>1, <2>3, <3>2, <3>3, DivMost
    <3>5. (w * d) * p <= c.word * p  BY <1>1, <2>3, <3>2, <3>4, MulMono
    <3> QED BY <2>4, <3>2, <3>5 DEF v
  <2>6. CASE k < e
    <3>1. PICK j \in Nat : SignBit = j * BASE  BY SignBitIs
    <3>2. SignBit * r = j * p  BY <1>2, <2>3, <3>1, MulAssoc
    <3>3. j <= c.word
      <4>1. j * p <= n  BY <2>1, <3>2
      <4> QED BY <1>2, <2>1, <2>3, <4>1, DivMost
    <3>4. j * p <= c.word * p  BY <1>1, <2>3, <3>1, <3>3, MulMono
    <3>5. Power[k] <= r
      <4>1. k <= e - 1  BY <2>2, <2>6
      <4> QED BY <2>2, <4>1, PowerMono DEF r
    <3>6. w * Power[k] <= w * r  BY <1>3, <2>3, <3>5, MulMono
    <3>7. w * r <= SignBit * r  BY <1>2, <2>3, MulMono
    <3>8. w * r \in Nat /\ SignBit * r \in Nat /\ c.word * p \in Nat  BY <1>1, <1>2, <2>3, MulNat
    <3> DEFINE x == w * r
               y == SignBit * r
               z == c.word * p
    <3>9. v <= x /\ x <= y /\ y <= z /\ x \in Nat /\ y \in Nat /\ z \in Nat
      BY <3>2, <3>4, <3>6, <3>7, <3>8
    <3> HIDE DEF v, x, y, z
    <3>10. v <= z  BY <1>3, <3>9
    <3> QED BY <2>4, <3>10 DEF v, z
  <2> QED BY <2>2, <2>5, <2>6
<1> QED BY <1>1, <1>4, <1>5

\* What nBits holds is expressed by a word and an exponent.
LEMMA RoundShape ==
  ASSUME NEW n \in Targets
  PROVE  \E w, k \in Nat : w < SignBit /\ Round(n) = w * Power[k]
<1> DEFINE c == GetCompact(n)
<1>1. c.size \in Nat /\ c.word \in Nat /\ c.word < SignBit /\ (Exact(n, c) \/ Rounded(n, c))
  BY CompactIs
<1>2. n \in Nat /\ DIGITS \in Nat  BY Numbers DEF Targets
<1> HIDE DEF c
<1>3. CASE Exact(n, c)
  <2>1. Round(n) = n /\ n < SignBit  BY <1>3, RoundIs DEF Exact, c
  <2>2. n * Power[0] = n  BY <1>2, PowerIs
  <2> QED BY <1>2, <2>1, <2>2
<1>4. CASE Rounded(n, c)
  <2>1. Round(n) = c.word * Power[c.size - DIGITS]  BY <1>4, RoundIs DEF c
  <2>2. c.size - DIGITS \in Nat  BY <1>1, <1>2, <1>4 DEF Rounded
  <2> QED BY <1>1, <2>1, <2>2
<1> QED BY <1>1, <1>3, <1>4

\* Rounding keeps the order, and a positive number positive.
LEMMA RoundMono ==
  ASSUME NEW n \in Targets, NEW m \in Targets, n <= m
  PROVE  Round(n) <= Round(m)
<1>1. PICK w, k \in Nat : w < SignBit /\ Round(n) = w * Power[k]  BY RoundShape
<1>2. Round(n) \in Nat /\ Round(n) <= n /\ n \in Nat /\ m \in Nat  BY RoundDown DEF Targets
<1>3. w * Power[k] <= m  BY <1>1, <1>2
<1> QED BY <1>1, <1>3, RoundGreatest

\* The leading digit survives, so a positive number stays positive.
LEMMA RoundPos ==
  ASSUME NEW n \in Targets, n >= 1
  PROVE  Round(n) >= 1
<1>1. 1 * Power[0] = 1 /\ 1 < SignBit /\ n \in Nat  BY PowerIs, SignBitIs DEF Targets
<1>2. 1 * Power[0] <= n  BY <1>1
<1>3. 1 * Power[0] <= Round(n)  BY <1>1, <1>2, RoundGreatest
<1> QED BY <1>1, <1>3

(***************************************************************************)
(* The compact form is stable: what comes back from nBits goes to the same *)
(* nBits.  The word keeps a digit that reaches the sign bit one exponent   *)
(* lower, so the exponent does not change.                                 *)
(***************************************************************************)
LEMMA RoundStable ==
  ASSUME NEW n \in Targets
  PROVE  GetCompact(Round(n)) = GetCompact(n)
<1> DEFINE c == GetCompact(n)
           v == Round(n)
           d == GetCompact(v)
<1>1. /\ c = [size |-> c.size, word |-> c.word]
      /\ c.size \in Nat /\ c.word \in Nat /\ c.word < SignBit /\ (Exact(n, c) \/ Rounded(n, c))
  BY CompactIs
<1>2. n \in Nat /\ v \in Nat /\ v <= n /\ v \in Targets  BY RoundDown DEF Targets
<1>3. /\ d = [size |-> d.size, word |-> d.word]
      /\ d.size \in Nat /\ d.word \in Nat /\ d.word < SignBit /\ (Exact(v, d) \/ Rounded(v, d))
  <2> HIDE DEF v
  <2> QED BY <1>2, CompactIs
<1>4. SignBit \in Nat /\ SignBit >= 2 /\ DIGITS \in Nat /\ BASE \in Nat  BY SignBitIs, Numbers
<1>5. CASE Exact(n, c)
  BY <1>5, RoundIs
<1>6. CASE Rounded(n, c)
  <2> DEFINE e == c.size - DIGITS
             f == d.size - DIGITS
  <2>0. v = c.word * Power[e]  BY <1>6, RoundIs
  <2> HIDE DEF c, v, d
  <2>1. e \in Nat /\ e - 1 \in Nat /\ (e - 1) + 1 = e /\ SignBit * Power[e - 1] <= n
    BY <1>1, <1>4, <1>6 DEF Rounded
  <2>2. Power[e] \in Nat /\ Power[e] >= 1 /\ Power[e - 1] \in Nat /\ Power[e - 1] >= 1
        /\ Power[e] = BASE * Power[e - 1]
    BY <2>1, PowerIs, PowerPos
  <2>3. SignBit * Power[e - 1] <= v
    <3>1. PICK j \in Nat : SignBit = j * BASE  BY SignBitIs
    <3> DEFINE p == Power[e]
               r == Power[e - 1]
    <3>2. p \in Nat /\ r \in Nat /\ p = BASE * r /\ p >= 1 /\ v = c.word * p /\ SignBit * r <= n
      BY <2>0, <2>1, <2>2
    <3>3. c.word = n \div p  BY <1>6 DEF Rounded
    <3> HIDE DEF p, r, e
    <3>4. SignBit * r = j * p  BY <1>4, <3>1, <3>2, MulAssoc
    <3>5. j * p <= n  BY <3>2, <3>4
    <3>6. j <= c.word  BY <1>2, <3>1, <3>2, <3>3, <3>5, DivMost
    <3>7. j * p <= c.word * p  BY <1>1, <3>1, <3>2, <3>6, MulMono
    <3> QED BY <3>2, <3>4, <3>7 DEF r
  <2>4. v >= SignBit
    <3>1. SignBit * 1 <= SignBit * Power[e - 1]  BY <1>4, <2>2, MulMono
    <3>2. SignBit * Power[e - 1] \in Nat /\ SignBit * 1 = SignBit  BY <1>4, <2>2, MulNat
    <3> QED BY <1>2, <1>4, <2>3, <3>1, <3>2
  <2>5. Rounded(v, d)
    <3>1. ~Exact(v, d)  BY <1>2, <1>4, <2>4 DEF Exact
    <3> QED BY <1>3, <3>1
  <2>6. f \in Nat /\ f - 1 \in Nat /\ d.word = v \div Power[f] /\ SignBit * Power[f - 1] <= v
    BY <1>3, <1>4, <2>5 DEF Rounded
  <2>7. Power[f] \in Nat /\ Power[f] >= 1 /\ Power[f - 1] \in Nat  BY <2>6, PowerPos
  <2>8. ~(f > e)
    <3> SUFFICES ASSUME f > e PROVE FALSE  OBVIOUS
    <3>1. Power[e] <= Power[f - 1]
      <4>1. e <= f - 1  BY <2>1, <2>6
      <4> HIDE DEF e, f
      <4> QED BY <2>1, <2>6, <4>1, PowerMono
    <3> DEFINE p == Power[e]
               r == Power[f - 1]
    <3>2. p \in Nat /\ p >= 1 /\ r \in Nat /\ p <= r /\ v = c.word * p /\ SignBit * r <= v
      BY <2>0, <2>2, <2>6, <2>7, <3>1
    <3> HIDE DEF p, r
    <3>3. SignBit * p <= SignBit * r  BY <1>4, <3>2, MulMono
    <3>4. c.word * p < SignBit * p  BY <1>1, <1>4, <3>2, MulLess
    <3>5. SignBit * p \in Nat /\ SignBit * r \in Nat  BY <1>4, <3>2, MulNat
    <3> QED BY <1>2, <3>2, <3>3, <3>4, <3>5
  <2>9. ~(f < e)
    <3> SUFFICES ASSUME f < e PROVE FALSE  OBVIOUS
    <3>1. Power[f] <= Power[e - 1]
      <4>1. f <= e - 1  BY <2>1, <2>6
      <4> HIDE DEF e, f
      <4> QED BY <2>1, <2>6, <4>1, PowerMono
    <3> DEFINE p == Power[f]
               r == Power[e - 1]
    <3>2. p \in Nat /\ p >= 1 /\ r \in Nat /\ p <= r /\ d.word = v \div p /\ SignBit * r <= v
      BY <2>2, <2>3, <2>6, <2>7, <3>1
    <3> HIDE DEF p, r
    <3>3. SignBit * p <= SignBit * r  BY <1>4, <3>2, MulMono
    <3>4. SignBit * p \in Nat /\ SignBit * r \in Nat  BY <1>4, <3>2, MulNat
    <3>5. SignBit * p <= v  BY <1>2, <3>2, <3>3, <3>4
    <3>6. SignBit <= v \div p  BY <1>2, <1>4, <3>2, <3>5, DivMost
    <3> QED BY <1>3, <1>4, <3>2, <3>6
  <2>10. e = f  BY <2>1, <2>6, <2>8, <2>9
  <2>11. c.size = d.size  BY <1>1, <1>3, <1>4, <2>10
  <2>12. c.word = d.word
    <3>1. v \div Power[e] = c.word
      <4> HIDE DEF e
      <4> QED BY <1>1, <2>0, <2>2, DivMul
    <3> QED BY <2>6, <2>10, <3>1
  <2>13. c = d  BY <1>1, <1>3, <2>11, <2>12
  <2> QED BY <2>13 DEF c, d, v
<1> QED BY <1>1, <1>5, <1>6

\* A compact form is never negative and never overflows.
LEMMA CompactValid ==
  ASSUME NEW n \in Targets
  PROVE  ~Negative(GetCompact(n)) /\ ~Overflow(GetCompact(n))
<1> DEFINE c == GetCompact(n)
<1>1. c.size \in Nat /\ c.word \in Nat /\ c.word < SignBit /\ (Exact(n, c) \/ Rounded(n, c))
  BY CompactIs
<1>2. n \in Nat /\ n < Power[WIDTH] /\ DIGITS \in Nat /\ WIDTH \in Nat /\ SignBit \in Nat
  BY Numbers, SignBitIs DEF Targets
<1> HIDE DEF c
<1>3. ~Negative(c)  BY <1>1, <1>2 DEF Negative
<1> DEFINE p == Power[DIGITS]
           q == Power[WIDTH]
<1>4. p \in Nat /\ p >= 1 /\ q \in Nat /\ Power[WIDTH + DIGITS] = q * p
  <2>1. WIDTH + DIGITS \in Nat  BY <1>2
  <2> QED BY <1>2, <2>1, PowerPos, PowerSplit
<1>5. \E v \in Nat : v <= n /\ c.word * Power[c.size] = v * p
  <2>1. CASE Exact(n, c)
    <3> DEFINE r == Power[DIGITS - c.size]
               s == Power[c.size]
    <3>1. c.size <= DIGITS /\ c.word = n * r  BY <2>1 DEF Exact
    <3>2. DIGITS - c.size \in Nat /\ DIGITS = (DIGITS - c.size) + c.size  BY <1>1, <1>2, <3>1
    <3>3. p = r * s /\ r \in Nat /\ s \in Nat  BY <1>1, <1>2, <3>2, PowerSplit
    <3> HIDE DEF r, s, p
    <3>4. c.word * s = n * p  BY <1>2, <3>1, <3>3, MulAssoc
    <3> QED BY <1>2, <3>4 DEF s
  <2>2. CASE Rounded(n, c)
    <3> DEFINE k == c.size - DIGITS
               r == Power[k]
               s == Power[c.size]
    <3>1. c.size > DIGITS /\ c.word = n \div r  BY <2>2 DEF Rounded
    <3>2. k \in Nat /\ c.size = k + DIGITS  BY <1>1, <1>2, <3>1
    <3> HIDE DEF k
    <3>3. s = r * p /\ r \in Nat /\ r >= 1  BY <1>1, <1>2, <3>2, PowerSplit, PowerPos
    <3> HIDE DEF r, s, p
    <3>4. c.word * s = (c.word * r) * p /\ c.word * r \in Nat  BY <1>1, <1>4, <3>3, MulAssoc, MulNat
    <3>5. c.word * r <= n
      <4>1. (n \div r) * r <= n  BY <1>2, <3>3, DivIs
      <4> QED BY <3>1, <4>1
    <3> QED BY <3>4, <3>5 DEF s
  <2> QED BY <1>1, <2>1, <2>2
<1>6. PICK v \in Nat : v <= n /\ c.word * Power[c.size] = v * p  BY <1>5
<1>7. v * p < q * p
  <2> HIDE DEF p
  <2>1. v < q  BY <1>2, <1>4, <1>6
  <2> QED BY <1>4, <2>1, MulLess
<1>8. c.word % SignBit = c.word  BY <1>1, <1>2, ModSmall
<1>9. ~Overflow(c)
  <2> DEFINE x == v * p
             y == q * p
  <2>1. x \in Nat /\ y \in Nat /\ x < y  BY <1>4, <1>7, MulNat
  <2>2. (c.word % SignBit) * Power[c.size] = x /\ Power[WIDTH + DIGITS] = y  BY <1>4, <1>6, <1>8
  <2> HIDE DEF x, y
  <2>3. ~(x >= y)  BY <2>1
  <2> QED BY <2>2, <2>3 DEF Overflow
<1> QED BY <1>3, <1>9 DEF c

-----------------------------------------------------------------------------
(* The next target.                                                         *)

\* A field of nBits that is the compact form of a target up to powLimit.
Valid(b) == SetCompact(b) \in 1..powLimit /\ GetCompact(SetCompact(b)) = b

\* The inductive invariant: every header of the chain has a valid target.
Headers == [time : Int, nBits : Compacts]
TargetsValid ==
  /\ params \in Networks
  /\ chain \in Seq(Headers) /\ Len(chain) >= 1
  /\ \A i \in DOMAIN chain : Valid(chain[i].nBits)

\* The types of the consensus parameters.
LEMMA NetworkIs ==
  ASSUME params \in Networks
  PROVE  /\ powLimit \in Nat /\ powLimit >= 1 /\ powLimit < Power[WIDTH]
         /\ nPowTargetSpacing \in Nat /\ nPowTargetSpacing >= 1
         /\ nPowTargetTimespan \in Nat /\ nPowTargetTimespan >= nPowTargetSpacing
         /\ params.fPowAllowMinDifficultyBlocks \in BOOLEAN
         /\ params.fPowNoRetargeting \in BOOLEAN /\ params.enforce_BIP94 \in BOOLEAN
         /\ nBlocksToAverage \in Nat /\ nBlocksToAverage >= 1
<1>1. params \in Params  BY PowAssumption
<1>2. /\ params.powLimit \in 1..(Power[WIDTH] - 1)
      /\ params.nPowTargetSpacing \in Nat \ {0} /\ params.nPowTargetTimespan \in Nat
      /\ params.fPowAllowMinDifficultyBlocks \in BOOLEAN
      /\ params.fPowNoRetargeting \in BOOLEAN /\ params.enforce_BIP94 \in BOOLEAN
  BY <1>1 DEF Params
<1>3. Power[WIDTH] \in Nat  BY Numbers, PowerIs
<1>4. params.nPowTargetTimespan >= params.nPowTargetSpacing  BY PowAssumption
<1>5. nBlocksToAverage \in Nat /\ nBlocksToAverage >= 1  BY PowAssumption
<1> QED BY <1>2, <1>3, <1>4, <1>5 DEF powLimit, nPowTargetSpacing, nPowTargetTimespan

\* The interval is at least one block: the modulo in pow.cpp has a divisor.
LEMMA IntervalIs ==
  ASSUME params \in Networks
  PROVE  DifficultyAdjustmentInterval \in Nat /\ DifficultyAdjustmentInterval >= 1
<1>1. /\ nPowTargetSpacing \in Nat /\ nPowTargetSpacing >= 1
      /\ nPowTargetTimespan \in Nat /\ nPowTargetTimespan >= nPowTargetSpacing
  BY NetworkIs
<1>2. nPowTargetTimespan \div nPowTargetSpacing \in Nat  BY <1>1, DivIs
<1>3. 1 * nPowTargetSpacing <= nPowTargetTimespan  BY <1>1
<1>4. 1 <= nPowTargetTimespan \div nPowTargetSpacing  BY <1>1, <1>3, DivMost
<1> QED BY <1>2, <1>4 DEF DifficultyAdjustmentInterval

\* The compact form of a number up to powLimit fits nBits, and is a target unless it is 0.
LEMMA CompactOfTarget ==
  ASSUME params \in Networks, NEW y \in Nat, y <= powLimit
  PROVE  /\ y \in Targets /\ GetCompact(y) \in Compacts
         /\ DeriveTarget(GetCompact(y)) = Round(y)
         /\ Round(y) >= 1 => Valid(GetCompact(y))
<1>1. powLimit \in Nat /\ powLimit < Power[WIDTH] /\ Power[WIDTH] \in Nat
  BY NetworkIs, Numbers, PowerIs
<1>2. y \in Targets  BY <1>1 DEF Targets
<1>3. GetCompact(y) \in Compacts
  <2> DEFINE c == GetCompact(y)
  <2>1. /\ c = [size |-> c.size, word |-> c.word] /\ c.size \in Nat /\ c.size <= WIDTH + 1
        /\ c.word \in Nat /\ c.word < SignBit
    BY <1>2, CompactIs
  <2>2. SignBit \in Nat /\ Power[DIGITS] = 2 * SignBit /\ WIDTH \in Nat  BY SignBitIs, Numbers
  <2> HIDE DEF c
  <2>3. c.size \in 0..(WIDTH + 2) /\ c.word \in 0..(Power[DIGITS] - 1)  BY <2>1, <2>2
  <2>4. c \in Compacts  BY <2>1, <2>3 DEF Compacts, Words
  <2> QED BY <2>4 DEF c
<1>4. Round(y) \in Nat /\ Round(y) <= powLimit
  <2>1. Round(y) \in Nat /\ Round(y) <= y  BY <1>2, RoundDown
  <2> QED BY <1>1, <2>1
<1>5. ~Negative(GetCompact(y)) /\ ~Overflow(GetCompact(y))  BY <1>2, CompactValid
<1>6. DeriveTarget(GetCompact(y)) = Round(y)  BY <1>1, <1>4, <1>5 DEF DeriveTarget, Round
<1>7. Round(y) >= 1 => Valid(GetCompact(y))
  <2>1. GetCompact(Round(y)) = GetCompact(y)  BY <1>2, RoundStable
  <2>2. Round(y) >= 1 => Round(y) \in 1..powLimit  BY <1>1, <1>4
  <2> QED BY <2>1, <2>2 DEF Valid, Round
<1> QED BY <1>2, <1>3, <1>6, <1>7

\* A clamped time is within its limits.
LEMMA ClampIs ==
  ASSUME NEW x \in Int, NEW lo \in Nat, NEW hi \in Nat, lo <= hi
  PROVE  Clamp(x, lo, hi) \in Nat /\ lo <= Clamp(x, lo, hi) /\ Clamp(x, lo, hi) <= hi
BY DEF Clamp

\* A capped target is at most powLimit.
LEMMA CappedIs ==
  ASSUME params \in Networks, NEW x \in Nat
  PROVE  Capped(x) \in Nat /\ Capped(x) <= powLimit /\ (x >= 1 => Capped(x) >= 1)
<1>1. powLimit \in Nat /\ powLimit >= 1  BY NetworkIs
<1> QED BY <1>1 DEF Capped

\* The times measured are within what NetworksAssumption lets a target be multiplied by.
Measured == {a \in Nat : a <= nPowTargetTimespan * 4}

\* The target before it is rounded.
Scaled(bits, actual, target) == Capped(Mul(SetCompact(bits), actual) \div target)

\* Both rules round a number up to powLimit, even if the product wraps.
LEMMA ScaledIs ==
  ASSUME params \in Networks, NEW bits, Valid(bits), NEW actual \in Nat, NEW target \in Nat, target >= 1
  PROVE  /\ Retargeted(bits, actual, target) = GetCompact(Scaled(bits, actual, target))
         /\ Scaled(bits, actual, target) \in Nat /\ Scaled(bits, actual, target) <= powLimit
<1>1. SetCompact(bits) \in Nat  BY NetworkIs DEF Valid
<1>2. Power[WIDTH] \in Nat /\ Power[WIDTH] >= 1  BY Numbers, PowerPos
<1> DEFINE x == SetCompact(bits) * actual
           m == Mul(SetCompact(bits), actual)
<1>3. x \in Nat  BY <1>1, MulNat
<1>4. m \in Nat
  <2>1. m = x % Power[WIDTH]  BY DEF Mul
  <2> HIDE DEF x, m
  <2> QED BY <1>2, <1>3, <2>1
<1> HIDE DEF x, m
<1>5. m \div target \in Nat  BY <1>4, DivIs
<1>6. Capped(m \div target) \in Nat /\ Capped(m \div target) <= powLimit  BY <1>5, CappedIs
<1> QED BY <1>6 DEF Retargeted, Scaled, m

\* Where targets change, the product is exact.
LEMMA MulExact ==
  ASSUME params \in Networks, params.fPowNoRetargeting = FALSE, NEW bits, Valid(bits), NEW actual \in Measured
  PROVE  Mul(SetCompact(bits), actual) = SetCompact(bits) * actual
<1>1. powLimit \in Nat /\ SetCompact(bits) \in Nat /\ SetCompact(bits) <= powLimit
  BY NetworkIs DEF Valid
<1>2. nPowTargetTimespan * 4 \in Nat /\ actual \in Nat /\ actual <= nPowTargetTimespan * 4
  BY NetworkIs DEF Measured
<1>3. powLimit * (nPowTargetTimespan * 4) < Power[WIDTH] /\ Power[WIDTH] \in Nat
  BY NetworksAssumption, Numbers, PowerIs DEF powLimit, nPowTargetTimespan
<1> DEFINE t == SetCompact(bits)
           h == nPowTargetTimespan * 4
<1>4. t * actual <= powLimit * h
  <2> HIDE DEF t, h
  <2>1. t \in Nat /\ t <= powLimit /\ h \in Nat /\ actual <= h /\ actual \in Nat  BY <1>1, <1>2 DEF t, h
  <2>2. t * actual <= powLimit * actual  BY <1>1, <2>1, MulMono
  <2>3. powLimit * actual <= powLimit * h  BY <1>1, <2>1, MulMono
  <2>4. t * actual \in Nat /\ powLimit * actual \in Nat /\ powLimit * h \in Nat  BY <1>1, <2>1, MulNat
  <2> QED BY <2>2, <2>3, <2>4
<1> DEFINE x == t * actual
           y == powLimit * h
<1>5. x \in Nat /\ y \in Nat  BY <1>1, <1>2, MulNat
<1>6. x % Power[WIDTH] = x
  <2>1. x <= y /\ y < Power[WIDTH]  BY <1>3, <1>4
  <2> HIDE DEF x, y
  <2>2. x < Power[WIDTH]  BY <1>3, <1>5, <2>1
  <2> QED BY <1>3, <1>5, <2>2, ModSmall
<1> QED BY <1>6 DEF Mul

\* A longer time measured does not make the next target harder.
LEMMA RetargetMono ==
  ASSUME params \in Networks, params.fPowNoRetargeting = FALSE, NEW bits, Valid(bits),
         NEW a \in Measured, NEW b \in Measured, a <= b, NEW target \in Nat, target >= 1
  PROVE  SetCompact(Retargeted(bits, a, target)) <= SetCompact(Retargeted(bits, b, target))
<1>1. powLimit \in Nat /\ SetCompact(bits) \in Nat /\ a \in Nat /\ b \in Nat
  BY NetworkIs DEF Valid, Measured
<1> DEFINE x == SetCompact(bits) * a
           y == SetCompact(bits) * b
<1>2. x \in Nat /\ y \in Nat /\ x <= y  BY <1>1, MulMono, MulNat
<1>3. Scaled(bits, a, target) = Capped(x \div target) /\ Scaled(bits, b, target) = Capped(y \div target)
  BY MulExact DEF Scaled
<1> HIDE DEF x, y
<1>4. x \div target <= y \div target /\ x \div target \in Nat /\ y \div target \in Nat
  BY <1>2, DivMono, DivIs
<1>5. Scaled(bits, a, target) <= Scaled(bits, b, target)
  <2> DEFINE i == x \div target
             j == y \div target
  <2> HIDE DEF i, j
  <2>1. i \in Nat /\ j \in Nat /\ i <= j  BY <1>4 DEF i, j
  <2>2. Capped(i) <= Capped(j)  BY <1>1, <2>1 DEF Capped
  <2> QED BY <1>3, <2>2 DEF i, j
<1>6. /\ Retargeted(bits, a, target) = GetCompact(Scaled(bits, a, target))
      /\ Retargeted(bits, b, target) = GetCompact(Scaled(bits, b, target))
      /\ Scaled(bits, a, target) \in Nat /\ Scaled(bits, a, target) <= powLimit
      /\ Scaled(bits, b, target) \in Nat /\ Scaled(bits, b, target) <= powLimit
  BY <1>1, ScaledIs
<1>7. Scaled(bits, a, target) \in Targets /\ Scaled(bits, b, target) \in Targets
  BY <1>6, CompactOfTarget
<1>8. Round(Scaled(bits, a, target)) <= Round(Scaled(bits, b, target))
  BY <1>5, <1>7, RoundMono
<1> QED BY <1>6, <1>8 DEF Round

\* A time measured that is the target time leaves nBits as it is.
LEMMA RetargetSame ==
  ASSUME params \in Networks, params.fPowNoRetargeting = FALSE, NEW bits, Valid(bits),
         NEW target \in Measured, target >= 1
  PROVE  Retargeted(bits, target, target) = bits
<1>1. powLimit \in Nat /\ SetCompact(bits) \in Nat /\ SetCompact(bits) <= powLimit /\ target \in Nat
  BY NetworkIs DEF Valid, Measured
<1>2. Mul(SetCompact(bits), target) \div target = SetCompact(bits)
  <2>1. Mul(SetCompact(bits), target) = SetCompact(bits) * target  BY MulExact
  <2> QED BY <1>1, <2>1, DivMul
<1>3. Capped(SetCompact(bits)) = SetCompact(bits)  BY <1>1 DEF Capped
<1> QED BY <1>2, <1>3 DEF Retargeted, Valid

\* A target with room stays positive.
LEMMA ScaledPos ==
  ASSUME params \in Networks, params.fPowNoRetargeting = FALSE, NEW bits, Valid(bits),
         NEW least \in Nat, NEW actual \in Measured, least <= actual, NEW target \in Nat, target >= 1,
         SetCompact(bits) * least >= target
  PROVE  Scaled(bits, actual, target) >= 1
<1>1. SetCompact(bits) \in Nat /\ actual \in Nat  BY NetworkIs DEF Valid, Measured
<1> DEFINE t == SetCompact(bits)
           x == t * least
           y == t * actual
<1>2. x \in Nat /\ y \in Nat /\ x <= y /\ x >= target
  <2> HIDE DEF t
  <2>1. t \in Nat  BY <1>1 DEF t
  <2>2. t * least <= t * actual /\ t * least \in Nat /\ t * actual \in Nat
    BY <1>1, <2>1, MulMono, MulNat
  <2> QED BY <2>2 DEF t
<1>3. Scaled(bits, actual, target) = Capped(y \div target)  BY MulExact DEF Scaled
<1> HIDE DEF x, y
<1>4. 1 <= y \div target /\ y \div target \in Nat
  <2>1. 1 * target <= y  BY <1>2
  <2> QED BY <1>2, <2>1, DivMost, DivIs
<1> QED BY <1>3, <1>4, CappedIs

-----------------------------------------------------------------------------
(* The rules for the next block of a valid chain.                           *)

\* What the invariant says of the headers, one by one.
LEMMA ChainIs ==
  ASSUME TargetsValid
  PROVE  /\ params \in Networks /\ Len(chain) \in Nat /\ Len(chain) >= 1
         /\ \A i \in Int : i \in DOMAIN chain <=> 1 <= i /\ i <= Len(chain)
         /\ \A i \in DOMAIN chain : i \in Nat /\ chain[i].time \in Int /\ Valid(chain[i].nBits)
         /\ Len(chain) \in DOMAIN chain /\ Last(chain) = chain[Len(chain)]
<1>1. params \in Networks /\ chain \in Seq(Headers) /\ Len(chain) >= 1  BY DEF TargetsValid
<1>2. Len(chain) \in Nat /\ DOMAIN chain = 1..Len(chain)  BY <1>1
<1>3. \A i \in DOMAIN chain : chain[i] \in Headers  BY <1>1, <1>2
<1>4. \A i \in DOMAIN chain : chain[i].time \in Int  BY <1>3 DEF Headers
<1>5. Last(chain) = chain[Len(chain)]  BY DEF Last
<1>6. \A i \in DOMAIN chain : Valid(chain[i].nBits)  BY DEF TargetsValid
<1> QED BY <1>1, <1>2, <1>4, <1>5, <1>6

\* At the end of an interval, its first block is on the chain.
LEMMA IntervalStart ==
  ASSUME TargetsValid, Len(chain) % DifficultyAdjustmentInterval = 0
  PROVE  /\ Len(chain) - (DifficultyAdjustmentInterval - 1) \in DOMAIN chain
         /\ Len(chain) - (DifficultyAdjustmentInterval - 1) > Len(chain) - DifficultyAdjustmentInterval
<1>1. Len(chain) \in Nat /\ Len(chain) >= 1 /\ params \in Networks  BY ChainIs
<1>2. DifficultyAdjustmentInterval \in Nat /\ DifficultyAdjustmentInterval >= 1  BY <1>1, IntervalIs
<1> DEFINE n == Len(chain)
           d == DifficultyAdjustmentInterval
<1> HIDE DEF n, d
<1>3. n \in Nat /\ n >= 1 /\ d \in Nat /\ d >= 1 /\ n % d = 0  BY <1>1, <1>2 DEF n, d
<1>4. d <= n
  <2> SUFFICES ASSUME n < d PROVE FALSE  BY <1>3
  <2>1. n % d = n  BY <1>3, ModSmall
  <2> QED BY <1>3, <2>1
<1>5. n - (d - 1) \in Int /\ 1 <= n - (d - 1) /\ n - (d - 1) <= n /\ n - (d - 1) > n - d  BY <1>3, <1>4
<1> QED BY <1>5, ChainIs DEF n, d

\* The walk back over min-difficulty blocks ends on the chain.
LEMMA LastNonSpecialIs ==
  ASSUME TargetsValid
  PROVE  LastNonSpecial(chain) \in DOMAIN chain
<1> DEFINE n == Len(chain)
           Ends(i) == i = 1 \/ (i - 1) % DifficultyAdjustmentInterval = 0 \/ chain[i].nBits # nProofOfWorkLimit
           T == {k \in Nat : k <= n - 1 /\ Ends(n - k)}
<1>1. n \in Nat /\ n >= 1  BY ChainIs
<1>2. n - 1 \in T
  <2>1. n - (n - 1) = 1 /\ n - 1 \in Nat  BY <1>1
  <2> QED BY <2>1
<1>3. PICK k \in T : \A j \in T : k <= j
  <2>1. T \subseteq Nat  OBVIOUS
  <2> HIDE DEF T
  <2> QED BY <1>2, <2>1, LeastOf
<1> DEFINE i == n - k
<1>4. k \in Nat /\ k <= n - 1 /\ Ends(i)  BY <1>3
<1>5. i \in Int /\ 1 <= i /\ i <= n  BY <1>1, <1>4
<1>6. ASSUME NEW j \in (i + 1)..n PROVE ~Ends(j)
  <2>1. n - j \in Nat /\ n - j <= n - 1 /\ n - (n - j) = j /\ ~(k <= n - j)  BY <1>1, <1>4, <1>5
  <2>2. n - j \notin T
    <3> HIDE DEF T
    <3> QED BY <1>3, <2>1
  <2> QED BY <2>1, <2>2
<1>7. i \in DOMAIN chain  BY <1>5, ChainIs
<1> HIDE DEF T, i
<1>8. /\ i = 1 \/ (i - 1) % DifficultyAdjustmentInterval = 0 \/ chain[i].nBits # nProofOfWorkLimit
      /\ \A j \in (i + 1)..Len(chain) : /\ (j - 1) % DifficultyAdjustmentInterval # 0
                                        /\ chain[j].nBits = nProofOfWorkLimit
  BY <1>4, <1>6 DEF i
<1> HIDE DEF n, Ends
<1> QED BY <1>7, <1>8 DEF LastNonSpecial

\* The lower and upper limits of the two rules.
LEMMA Limits ==
  ASSUME params \in Networks
  PROVE  /\ nPowTargetSpacing \in Nat /\ nPowTargetSpacing >= 1 /\ nPowTargetSpacing \in Measured
         /\ nPowTargetSpacing \div 2 \in Nat /\ nPowTargetSpacing \div 2 \in Measured
         /\ nPowTargetSpacing * 2 \in Nat /\ nPowTargetSpacing * 2 \in Measured
         /\ nPowTargetSpacing \div 2 <= nPowTargetSpacing
         /\ nPowTargetSpacing <= nPowTargetSpacing * 2
         /\ nPowTargetTimespan \in Nat /\ nPowTargetTimespan >= 1
         /\ nPowTargetTimespan \div 4 \in Nat /\ nPowTargetTimespan \div 4 \in Measured
         /\ nPowTargetTimespan * 4 \in Nat /\ nPowTargetTimespan * 4 \in Measured
         /\ nPowTargetTimespan \div 4 <= nPowTargetTimespan * 4
<1>1. /\ nPowTargetSpacing \in Nat /\ nPowTargetSpacing >= 1
      /\ nPowTargetTimespan \in Nat /\ nPowTargetTimespan >= nPowTargetSpacing
  BY NetworkIs
<1> QED BY <1>1 DEF Measured

\* The time measured by each rule is within its limits.
ShieldTime == Clamp(AverageTime(chain), nPowTargetSpacing \div 2, nPowTargetSpacing * 2)
SpanTime ==
  Clamp(Last(chain).time - chain[Len(chain) - (DifficultyAdjustmentInterval - 1)].time,
        nPowTargetTimespan \div 4, nPowTargetTimespan * 4)

\* The averaging rule measures between half and twice the spacing.
LEMMA ShieldTimeIs ==
  ASSUME TargetsValid, Len(chain) - 1 >= nBlocksToAverage
  PROVE  /\ ShieldTime \in Measured
         /\ nPowTargetSpacing \div 2 <= ShieldTime /\ ShieldTime <= nPowTargetSpacing * 2
<1>0. params \in Networks /\ Len(chain) \in Nat  BY ChainIs
<1>1. nBlocksToAverage \in Nat /\ nBlocksToAverage >= 1  BY <1>0, NetworkIs
<1>2. Len(chain) - nBlocksToAverage \in DOMAIN chain /\ Len(chain) \in DOMAIN chain
  BY <1>0, <1>1, ChainIs
<1> DEFINE x == Last(chain).time - chain[Len(chain) - nBlocksToAverage].time
<1>3. x \in Int  BY <1>2, ChainIs
<1> HIDE DEF x
<1>4. Quotient(x, nBlocksToAverage) \in Int
  <2>1. CASE x >= 0
    <3>1. x \in Nat  BY <1>3, <2>1
    <3>2. x \div nBlocksToAverage \in Nat  BY <1>1, <3>1, DivIs
    <3> QED BY <2>1, <3>2 DEF Quotient
  <2>2. CASE x < 0
    <3>1. -x \in Nat  BY <1>3, <2>2
    <3>2. (-x) \div nBlocksToAverage \in Nat  BY <1>1, <3>1, DivIs
    <3>3. -((-x) \div nBlocksToAverage) \in Int
      <4> DEFINE q == (-x) \div nBlocksToAverage
      <4>1. q \in Nat  BY <3>2
      <4> HIDE DEF q
      <4>2. -q \in Int  BY <4>1
      <4> QED BY <4>2 DEF q
    <3>4. ~(x >= 0)  BY <1>3, <2>2
    <3> QED BY <3>3, <3>4 DEF Quotient
  <2> QED BY <1>3, <2>1, <2>2
<1>5. AverageTime(chain) \in Int  BY <1>4 DEF AverageTime, x
<1>6. /\ nPowTargetSpacing \div 2 \in Nat /\ nPowTargetSpacing * 2 \in Nat
      /\ nPowTargetSpacing \div 2 <= nPowTargetSpacing * 2 /\ nPowTargetSpacing * 2 \in Measured
  BY <1>0, Limits
<1>7. ShieldTime \in Nat /\ nPowTargetSpacing \div 2 <= ShieldTime /\ ShieldTime <= nPowTargetSpacing * 2
  BY <1>5, <1>6, ClampIs DEF ShieldTime
<1>8. nPowTargetTimespan * 4 \in Nat  BY <1>0, Limits
<1> QED BY <1>6, <1>7, <1>8 DEF Measured

\* The interval rule measures between a quarter of and four timespans.
LEMMA SpanTimeIs ==
  ASSUME TargetsValid, Len(chain) % DifficultyAdjustmentInterval = 0
  PROVE  /\ SpanTime \in Measured
         /\ nPowTargetTimespan \div 4 <= SpanTime /\ SpanTime <= nPowTargetTimespan * 4
<1>0. params \in Networks /\ Len(chain) \in DOMAIN chain /\ Last(chain) = chain[Len(chain)]  BY ChainIs
<1> DEFINE i == Len(chain) - (DifficultyAdjustmentInterval - 1)
<1>1. i \in DOMAIN chain  BY IntervalStart
<1> HIDE DEF i
<1>2. Last(chain).time - chain[i].time \in Int
  <2>1. chain[Len(chain)].time \in Int /\ chain[i].time \in Int  BY <1>0, <1>1, ChainIs
  <2> QED BY <1>0, <2>1
<1>3. /\ nPowTargetTimespan \div 4 \in Nat /\ nPowTargetTimespan * 4 \in Nat
      /\ nPowTargetTimespan \div 4 <= nPowTargetTimespan * 4
  BY <1>0, Limits
<1>4. SpanTime \in Nat /\ nPowTargetTimespan \div 4 <= SpanTime /\ SpanTime <= nPowTargetTimespan * 4
  BY <1>2, <1>3, ClampIs DEF SpanTime, i
<1> QED BY <1>4 DEF Measured

(***************************************************************************)
(* What GetNextWorkRequired can answer: the nBits of a block of the chain, *)
(* the limit, or the retargeting of one rule.                              *)
(***************************************************************************)
Copies(w) ==
  /\ \E i \in DOMAIN chain : w = chain[i].nBits
  /\ ~params.fPowAllowMinDifficultyBlocks =>
       /\ w = chain[Len(chain)].nBits
       /\ Len(chain) - 1 < nBlocksToAverage /\ Len(chain) % DifficultyAdjustmentInterval # 0
Eases(w) == params.fPowAllowMinDifficultyBlocks /\ w = nProofOfWorkLimit
Shields(w) ==
  /\ params.fPowNoRetargeting = FALSE /\ Len(chain) - 1 >= nBlocksToAverage
  /\ w = Retargeted(chain[Len(chain)].nBits, ShieldTime, nPowTargetSpacing)
Spans(w) ==
  /\ params.fPowNoRetargeting = FALSE /\ Len(chain) - 1 < nBlocksToAverage
  /\ Len(chain) % DifficultyAdjustmentInterval = 0
  /\ \E i \in DOMAIN chain :
       /\ w = Retargeted(chain[i].nBits, SpanTime, nPowTargetTimespan)
       /\ i > Len(chain) - DifficultyAdjustmentInterval
       /\ ~params.fPowAllowMinDifficultyBlocks => i = Len(chain)

\* These are all the cases of GetNextWorkRequired.
LEMMA WorkCases ==
  ASSUME TargetsValid, NEW time
  PROVE  LET w == GetNextWorkRequired(chain, time) IN Copies(w) \/ Eases(w) \/ Shields(w) \/ Spans(w)
<1> DEFINE w == GetNextWorkRequired(chain, time)
<1>0. /\ params \in Networks /\ Len(chain) \in Nat /\ Len(chain) \in DOMAIN chain
      /\ Last(chain) = chain[Len(chain)]
  BY ChainIs
<1>1. /\ params.fPowAllowMinDifficultyBlocks \in BOOLEAN
      /\ params.fPowNoRetargeting \in BOOLEAN /\ params.enforce_BIP94 \in BOOLEAN
      /\ nBlocksToAverage \in Nat
      /\ DifficultyAdjustmentInterval \in Nat /\ DifficultyAdjustmentInterval >= 1
  BY <1>0, NetworkIs, IntervalIs
<1>2. (params.fPowNoRetargeting \/ params.enforce_BIP94) => params.fPowAllowMinDifficultyBlocks
  BY <1>0, NetworksAssumption
<1>3. CASE ~(Len(chain) - 1 < nBlocksToAverage)
  <2>1. w = CalculateNextWorkRequired_DigiShield(chain, AverageTime(chain))
    BY <1>3 DEF GetNextWorkRequired
  <2>2. CASE params.fPowNoRetargeting
    <3>1. w = chain[Len(chain)].nBits  BY <1>0, <2>1, <2>2 DEF CalculateNextWorkRequired_DigiShield
    <3>2. Copies(w)  BY <1>0, <1>2, <2>2, <3>1 DEF Copies
    <3> QED BY <3>2
  <2>3. CASE ~params.fPowNoRetargeting
    <3>1. w = Retargeted(chain[Len(chain)].nBits, ShieldTime, nPowTargetSpacing)
      BY <1>0, <2>1, <2>3 DEF CalculateNextWorkRequired_DigiShield, ShieldTime
    <3>2. Len(chain) - 1 >= nBlocksToAverage  BY <1>0, <1>1, <1>3
    <3>3. Shields(w)  BY <1>1, <2>3, <3>1, <3>2 DEF Shields
    <3> QED BY <3>3
  <2> QED BY <2>2, <2>3
<1>4. CASE Len(chain) - 1 < nBlocksToAverage
  <2>1. w = IntervalWork(chain, time)  BY <1>4 DEF GetNextWorkRequired
  <2>2. CASE Len(chain) % DifficultyAdjustmentInterval = 0
    <3> DEFINE i == Len(chain) - (DifficultyAdjustmentInterval - 1)
    <3>0. i \in DOMAIN chain /\ i > Len(chain) - DifficultyAdjustmentInterval  BY <2>2, IntervalStart
    <3>1. w = CalculateNextWorkRequired(chain, chain[i].time)  BY <2>1, <2>2 DEF IntervalWork
    <3>2. CASE params.fPowNoRetargeting
      <4>1. w = chain[Len(chain)].nBits  BY <1>0, <3>1, <3>2 DEF CalculateNextWorkRequired
      <4>2. Copies(w)  BY <1>0, <1>2, <3>2, <4>1 DEF Copies
      <4> QED BY <4>2
    <3>3. CASE ~params.fPowNoRetargeting
      <4>1. w = Retargeted(IF params.enforce_BIP94 THEN chain[i].nBits ELSE chain[Len(chain)].nBits,
                           SpanTime, nPowTargetTimespan)
        BY <1>0, <3>1, <3>3 DEF CalculateNextWorkRequired, SpanTime
      <4>2. Len(chain) > Len(chain) - DifficultyAdjustmentInterval  BY <1>0, <1>1
      <4>3. params.fPowNoRetargeting = FALSE  BY <1>1, <3>3
      <4>4. CASE params.enforce_BIP94
        <5> HIDE DEF i
        <5>1. w = Retargeted(chain[i].nBits, SpanTime, nPowTargetTimespan)  BY <4>1, <4>4
        <5>2. params.fPowAllowMinDifficultyBlocks  BY <1>2, <4>4
        <5>3. Spans(w)  BY <1>4, <2>2, <3>0, <4>3, <5>1, <5>2 DEF Spans
        <5> QED BY <5>3
      <4>5. CASE ~params.enforce_BIP94
        <5> HIDE DEF i
        <5>1. w = Retargeted(chain[Len(chain)].nBits, SpanTime, nPowTargetTimespan)  BY <4>1, <4>5
        <5>2. Spans(w)  BY <1>0, <1>4, <2>2, <4>2, <4>3, <5>1 DEF Spans
        <5> QED BY <5>2
      <4> QED BY <4>4, <4>5
    <3> QED BY <3>2, <3>3
  <2>3. CASE ~(Len(chain) % DifficultyAdjustmentInterval = 0)
    <3>1. w = IF ~params.fPowAllowMinDifficultyBlocks THEN chain[Len(chain)].nBits
              ELSE IF time > Last(chain).time + nPowTargetSpacing * 2 THEN nProofOfWorkLimit
              ELSE chain[LastNonSpecial(chain)].nBits
      BY <1>0, <2>1, <2>3 DEF IntervalWork
    <3>2. CASE ~params.fPowAllowMinDifficultyBlocks
      <4>1. w = chain[Len(chain)].nBits  BY <3>1, <3>2
      <4>2. Copies(w)  BY <1>0, <1>4, <2>3, <4>1 DEF Copies
      <4> QED BY <4>2
    <3>3. CASE params.fPowAllowMinDifficultyBlocks /\ w = nProofOfWorkLimit
      BY <3>3 DEF Eases
    <3>4. CASE params.fPowAllowMinDifficultyBlocks /\ w # nProofOfWorkLimit
      <4>1. w = chain[LastNonSpecial(chain)].nBits  BY <3>1, <3>4
      <4>2. LastNonSpecial(chain) \in DOMAIN chain  BY LastNonSpecialIs
      <4>3. Copies(w)  BY <3>4, <4>1, <4>2 DEF Copies
      <4> QED BY <4>3
    <3> QED BY <3>2, <3>3, <3>4
  <2> QED BY <2>2, <2>3
<1> QED BY <1>3, <1>4

\* All of the last interval leaves room for a harder target.
Roomy ==
  \A i \in DOMAIN chain : i > Len(chain) - DifficultyAdjustmentInterval => HasRoom(chain[i].nBits)

\* The work asked is the compact form of a number up to powLimit, positive where there is room.
LEMMA NextWorkIs ==
  ASSUME TargetsValid, NEW time
  PROVE  \E y \in Nat : /\ y <= powLimit /\ GetNextWorkRequired(chain, time) = GetCompact(y)
                        /\ Roomy => y >= 1
<1> DEFINE w == GetNextWorkRequired(chain, time)
           P(y) == y \in Nat /\ y <= powLimit /\ w = GetCompact(y) /\ (Roomy => y >= 1)
<1>0. params \in Networks /\ Len(chain) \in Nat /\ Len(chain) \in DOMAIN chain  BY ChainIs
<1>1. powLimit \in Nat /\ powLimit >= 1  BY <1>0, NetworkIs
<1>2. DifficultyAdjustmentInterval \in Nat /\ DifficultyAdjustmentInterval >= 1  BY <1>0, IntervalIs
<1>3. Copies(w) \/ Eases(w) \/ Shields(w) \/ Spans(w)  BY WorkCases
<1> HIDE DEF w
<1>4. CASE Copies(w)
  <2>1. PICK i \in DOMAIN chain : w = chain[i].nBits  BY <1>4 DEF Copies
  <2>2. Valid(chain[i].nBits)  BY ChainIs
  <2>3. P(SetCompact(chain[i].nBits))  BY <1>1, <2>1, <2>2 DEF Valid
  <2> QED BY <2>3 DEF w
<1>5. CASE Eases(w)
  <2>1. P(powLimit)  BY <1>1, <1>5 DEF Eases, nProofOfWorkLimit
  <2> QED BY <2>1 DEF w
<1>6. CASE Shields(w)
  <2> DEFINE bits == chain[Len(chain)].nBits
             y == Scaled(bits, ShieldTime, nPowTargetSpacing)
             least == nPowTargetSpacing \div 2
  <2>1. /\ params.fPowNoRetargeting = FALSE /\ Len(chain) - 1 >= nBlocksToAverage
        /\ w = Retargeted(bits, ShieldTime, nPowTargetSpacing)
    BY <1>6 DEF Shields
  <2>2. Valid(bits)  BY <1>0, ChainIs
  <2>3. ShieldTime \in Measured /\ least <= ShieldTime /\ ShieldTime \in Nat
    BY <2>1, ShieldTimeIs DEF Measured
  <2>4. nPowTargetSpacing \in Nat /\ nPowTargetSpacing >= 1 /\ least \in Nat  BY <1>0, Limits
  <2> HIDE DEF bits, least
  <2>5. y \in Nat /\ y <= powLimit /\ w = GetCompact(y)  BY <1>0, <2>1, <2>2, <2>3, <2>4, ScaledIs
  <2>6. Roomy => y >= 1
    <3> SUFFICES ASSUME Roomy PROVE y >= 1  OBVIOUS
    <3>1. Len(chain) > Len(chain) - DifficultyAdjustmentInterval  BY <1>0, <1>2
    <3>2. SetCompact(bits) * least >= nPowTargetSpacing
      BY <1>0, <3>1 DEF Roomy, HasRoom, bits, least
    <3> QED BY <1>0, <2>1, <2>2, <2>3, <2>4, <3>2, ScaledPos
  <2>7. P(y)  BY <2>5, <2>6
  <2> QED BY <2>7 DEF w
<1>7. CASE Spans(w)
  <2>1. PICK i \in DOMAIN chain :
          /\ w = Retargeted(chain[i].nBits, SpanTime, nPowTargetTimespan)
          /\ i > Len(chain) - DifficultyAdjustmentInterval
    BY <1>7 DEF Spans
  <2> DEFINE bits == chain[i].nBits
             y == Scaled(bits, SpanTime, nPowTargetTimespan)
             least == nPowTargetTimespan \div 4
  <2>2. params.fPowNoRetargeting = FALSE /\ Len(chain) % DifficultyAdjustmentInterval = 0
    BY <1>7 DEF Spans
  <2>3. Valid(bits)  BY ChainIs
  <2>4. SpanTime \in Measured /\ least <= SpanTime /\ SpanTime \in Nat
    BY <2>2, SpanTimeIs DEF Measured
  <2>5. nPowTargetTimespan \in Nat /\ nPowTargetTimespan >= 1 /\ least \in Nat  BY <1>0, Limits
  <2>6. w = Retargeted(bits, SpanTime, nPowTargetTimespan)  BY <2>1
  <2>7. Roomy => SetCompact(bits) * least >= nPowTargetTimespan
    BY <2>1 DEF Roomy, HasRoom
  <2> HIDE DEF bits, least
  <2>8. y \in Nat /\ y <= powLimit /\ w = GetCompact(y)  BY <1>0, <2>3, <2>4, <2>5, <2>6, ScaledIs
  <2>9. Roomy => y >= 1
    BY <1>0, <2>2, <2>3, <2>4, <2>5, <2>7, ScaledPos
  <2>10. P(y)  BY <2>8, <2>9
  <2> QED BY <2>10 DEF w
<1> QED BY <1>3, <1>4, <1>5, <1>6, <1>7

-----------------------------------------------------------------------------
(* The inductive invariant, and what follows from it in every state.        *)

\* The genesis block has a valid target.
LEMMA InitTargetsValid ==
  Init => TargetsValid
<1> SUFFICES ASSUME Init PROVE TargetsValid  OBVIOUS
<1>1. params \in Networks /\ chain = <<[time |-> 0, nBits |-> params.genesisBits]>>  BY DEF Init
<1>2. params \in Params  BY <1>1, PowAssumption
<1>3. params.genesisBits \in Compacts  BY <1>2 DEF Params
<1>4. Valid(params.genesisBits)  BY <1>1, NetworksAssumption DEF Valid, powLimit
<1>5. [time |-> 0, nBits |-> params.genesisBits] \in Headers  BY <1>3 DEF Headers
<1>6. chain \in Seq(Headers) /\ Len(chain) = 1 /\ chain[1].nBits = params.genesisBits  BY <1>1, <1>5
<1> QED BY <1>1, <1>4, <1>6 DEF TargetsValid

\* What a step does.
LEMMA NextIs ==
  ASSUME Next
  PROVE  \E time \in {Last(chain).time + step : step \in TimeSteps} :
           /\ DeriveTarget(GetNextWorkRequired(chain, time)) # NoTarget
           /\ chain' = Append(chain, [time |-> time, nBits |-> GetNextWorkRequired(chain, time)])
           /\ params' = params
BY DEF Next, AcceptBlock

\* A block accepted has a valid target.
LEMMA NextTargetsValid ==
  ASSUME TargetsValid, Next
  PROVE  TargetsValid'
<1>1. PICK time \in {Last(chain).time + step : step \in TimeSteps} :
         /\ DeriveTarget(GetNextWorkRequired(chain, time)) # NoTarget
         /\ chain' = Append(chain, [time |-> time, nBits |-> GetNextWorkRequired(chain, time)])
         /\ params' = params
  BY NextIs
<1>2. params \in Networks /\ chain \in Seq(Headers) /\ Len(chain) \in Nat
  BY ChainIs DEF TargetsValid
<1>3. time \in Int
  <2>1. Last(chain).time \in Int  BY ChainIs
  <2>2. TimeSteps \subseteq Int  BY PowAssumption
  <2> QED BY <2>1, <2>2
<1> DEFINE w == GetNextWorkRequired(chain, time)
           block == [time |-> time, nBits |-> w]
<1>4. PICK y \in Nat : y <= powLimit /\ w = GetCompact(y)  BY NextWorkIs
<1>5. w \in Compacts /\ Valid(w)
  <2>1. y \in Targets /\ GetCompact(y) \in Compacts /\ DeriveTarget(GetCompact(y)) = Round(y)
        /\ (Round(y) >= 1 => Valid(GetCompact(y)))
    BY <1>2, <1>4, CompactOfTarget
  <2>2. Round(y) \in Nat  BY <2>1, RoundDown
  <2>3. Round(y) # 0  BY <1>1, <1>4, <2>1 DEF NoTarget
  <2> HIDE DEF w
  <2> QED BY <1>4, <2>1, <2>2, <2>3
<1> HIDE DEF w
<1>6. block \in Headers /\ block.nBits = w  BY <1>3, <1>5 DEF Headers
<1>7. chain' = Append(chain, block)  BY <1>1 DEF w
<1> HIDE DEF block
<1>8. /\ chain' \in Seq(Headers) /\ Len(chain') = Len(chain) + 1
      /\ \A i \in DOMAIN chain' : chain'[i] = IF i = Len(chain) + 1 THEN block ELSE chain[i]
      /\ \A i \in DOMAIN chain' : i # Len(chain) + 1 => i \in DOMAIN chain
  BY <1>2, <1>6, <1>7
<1>9. \A i \in DOMAIN chain' : Valid(chain'[i].nBits)
  <2> TAKE i \in DOMAIN chain'
  <2>1. CASE i = Len(chain) + 1  BY <1>5, <1>6, <1>8, <2>1
  <2>2. CASE i # Len(chain) + 1
    <3>1. i \in DOMAIN chain /\ chain'[i] = chain[i]  BY <1>8, <2>2
    <3> QED BY <3>1, ChainIs
  <2> QED BY <2>1, <2>2
<1>10. powLimit' = powLimit  BY <1>1 DEF powLimit
<1>11. \A i \in DOMAIN chain' : SetCompact(chain'[i].nBits) \in 1..powLimit'
                                /\ GetCompact(SetCompact(chain'[i].nBits)) = chain'[i].nBits
  BY <1>9, <1>10 DEF Valid
<1>12. params' \in Networks /\ Len(chain') >= 1  BY <1>1, <1>2, <1>8
<1> QED BY <1>8, <1>11, <1>12 DEF TargetsValid, Valid

\* Every step keeps targets valid.
LEMMA StepTargetsValid ==
  TargetsValid /\ [Next]_vars => TargetsValid'
<1>1. ASSUME TargetsValid, UNCHANGED vars PROVE TargetsValid'
  BY <1>1 DEF vars, TargetsValid, Valid, powLimit
<1> QED BY <1>1, NextTargetsValid

\* Valid targets give the types.
LEMMA TypeFollows ==
  TargetsValid => TypeOK
<1> SUFFICES ASSUME TargetsValid PROVE TypeOK  OBVIOUS
<1>1. params \in Networks /\ Len(chain) \in DOMAIN chain /\ Last(chain) = chain[Len(chain)]  BY ChainIs
<1>2. chain \in Seq([time : Int, nBits : Compacts])  BY DEF TargetsValid, Headers
<1>3. powLimit \in Nat  BY <1>1, NetworkIs
<1>4. nProofOfWorkLimit \in Compacts  BY <1>1, <1>3, CompactOfTarget DEF nProofOfWorkLimit
<1>5. Retargeted(Last(chain).nBits, nPowTargetSpacing * 2, nPowTargetSpacing) \in Compacts
  <2> DEFINE bits == Last(chain).nBits
             y == Scaled(bits, nPowTargetSpacing * 2, nPowTargetSpacing)
  <2>1. Valid(bits)  BY <1>1, ChainIs
  <2>2. nPowTargetSpacing \in Nat /\ nPowTargetSpacing >= 1 /\ nPowTargetSpacing * 2 \in Nat
    BY <1>1, Limits
  <2> HIDE DEF bits
  <2>3. y \in Nat /\ y <= powLimit /\ Retargeted(bits, nPowTargetSpacing * 2, nPowTargetSpacing) = GetCompact(y)
    BY <1>1, <2>1, <2>2, ScaledIs
  <2> HIDE DEF y
  <2> QED BY <1>1, <2>3, CompactOfTarget DEF bits
<1> QED BY <1>1, <1>2, <1>4, <1>5 DEF TypeOK

\* From valid targets with room the next one is valid.
LEMMA NextTargetFollows ==
  TargetsValid => NextTargetValid
<1> SUFFICES ASSUME TargetsValid, Roomy, NEW time \in Times
             PROVE  DeriveTarget(GetNextWorkRequired(chain, time)) # NoTarget
  BY DEF NextTargetValid, Roomy
<1>1. PICK y \in Nat : y <= powLimit /\ GetNextWorkRequired(chain, time) = GetCompact(y) /\ y >= 1
  BY NextWorkIs
<1>2. params \in Networks  BY ChainIs
<1>3. y \in Targets /\ DeriveTarget(GetCompact(y)) = Round(y)  BY <1>1, <1>2, CompactOfTarget
<1>4. Round(y) \in Nat /\ Round(y) >= 1  BY <1>1, <1>3, RoundDown, RoundPos
<1> QED BY <1>1, <1>3, <1>4 DEF NoTarget

\* The mean spacing is measured exactly, and rounding is stable.
LEMMA SteadyFollows ==
  TargetsValid => SteadyAtTarget
<1> SUFFICES ASSUME TargetsValid, NEW time \in Times, Len(chain) > nBlocksToAverage,
                    Last(chain).time - chain[Len(chain) - nBlocksToAverage].time
                      = nBlocksToAverage * nPowTargetSpacing
             PROVE  GetNextWorkRequired(chain, time) = Last(chain).nBits
  BY DEF SteadyAtTarget
<1>0. params \in Networks /\ Len(chain) \in Nat /\ Len(chain) \in DOMAIN chain /\ Last(chain) = chain[Len(chain)]
  BY ChainIs
<1>1. nBlocksToAverage \in Nat /\ nBlocksToAverage >= 1 /\ params.fPowNoRetargeting \in BOOLEAN
  BY <1>0, NetworkIs
<1>2. /\ nPowTargetSpacing \in Nat /\ nPowTargetSpacing >= 1 /\ nPowTargetSpacing \in Measured
      /\ nPowTargetSpacing \div 2 <= nPowTargetSpacing /\ nPowTargetSpacing <= nPowTargetSpacing * 2
      /\ nPowTargetSpacing \div 2 \in Nat
  BY <1>0, Limits
<1>3. GetNextWorkRequired(chain, time) = CalculateNextWorkRequired_DigiShield(chain, AverageTime(chain))
  <2>1. ~(Len(chain) - 1 < nBlocksToAverage)  BY <1>0, <1>1
  <2> QED BY <2>1 DEF GetNextWorkRequired
<1>4. AverageTime(chain) = nPowTargetSpacing
  <2>1. nBlocksToAverage * nPowTargetSpacing >= 0  BY <1>1, <1>2
  <2>2. (nPowTargetSpacing * nBlocksToAverage) \div nBlocksToAverage = nPowTargetSpacing
    BY <1>1, <1>2, DivMul
  <2>3. nBlocksToAverage * nPowTargetSpacing = nPowTargetSpacing * nBlocksToAverage
    BY <1>1, <1>2, MulAssoc
  <2> QED BY <2>1, <2>2, <2>3 DEF AverageTime, Quotient
<1>5. Clamp(nPowTargetSpacing, nPowTargetSpacing \div 2, nPowTargetSpacing * 2) = nPowTargetSpacing
  BY <1>2 DEF Clamp
<1>6. CASE params.fPowNoRetargeting
  BY <1>3, <1>6 DEF CalculateNextWorkRequired_DigiShield
<1>7. CASE ~params.fPowNoRetargeting
  <2>1. GetNextWorkRequired(chain, time) = Retargeted(Last(chain).nBits, nPowTargetSpacing, nPowTargetSpacing)
    BY <1>3, <1>4, <1>5, <1>7 DEF CalculateNextWorkRequired_DigiShield
  <2>2. Valid(Last(chain).nBits) /\ params.fPowNoRetargeting = FALSE  BY <1>0, <1>1, <1>7, ChainIs
  <2>3. Retargeted(Last(chain).nBits, nPowTargetSpacing, nPowTargetSpacing) = Last(chain).nBits
    BY <1>0, <1>2, <2>2, RetargetSame
  <2> QED BY <2>1, <2>3
<1> QED BY <1>6, <1>7

-----------------------------------------------------------------------------
(* Headers sync.                                                            *)

\* The one block that GetNextWorkRequired and headers sync judge by different rules.
Boundary(h) == h = nBlocksToAverage /\ h % DifficultyAdjustmentInterval = 0

\* A time measured within the limits gives a target within them.
LEMMA WithinLimits ==
  ASSUME params \in Networks, params.fPowNoRetargeting = FALSE, NEW bits, Valid(bits),
         NEW least \in Measured, NEW a \in Measured, NEW most \in Measured, least <= a, a <= most,
         NEW target \in Nat, target >= 1
  PROVE  Within(bits, Retargeted(bits, a, target), least, most, target)
<1>1. SetCompact(Retargeted(bits, least, target)) <= SetCompact(Retargeted(bits, a, target))
  BY RetargetMono
<1>2. SetCompact(Retargeted(bits, a, target)) <= SetCompact(Retargeted(bits, most, target))
  BY RetargetMono
<1>3. ASSUME NEW b \in Measured PROVE SetCompact(Retargeted(bits, b, target)) \in Nat
  <2>1. b \in Nat  BY DEF Measured
  <2>2. /\ Retargeted(bits, b, target) = GetCompact(Scaled(bits, b, target))
        /\ Scaled(bits, b, target) \in Nat /\ Scaled(bits, b, target) <= powLimit
    BY <2>1, ScaledIs
  <2>3. Round(Scaled(bits, b, target)) \in Nat  BY <2>2, CompactOfTarget, RoundDown
  <2> QED BY <2>2, <2>3 DEF Round
<1>4. /\ SetCompact(Retargeted(bits, least, target)) \in Nat
      /\ SetCompact(Retargeted(bits, a, target)) \in Nat
  BY <1>3
<1> QED BY <1>1, <1>2, <1>4 DEF Within

\* The work asked of the next block is a permitted transition from the last.
LEMMA NextPermitted ==
  ASSUME TargetsValid, NEW time
  PROVE  \/ Boundary(Len(chain))
         \/ PermittedDifficultyTransition(Len(chain), chain[Len(chain)].nBits, GetNextWorkRequired(chain, time))
<1> DEFINE w == GetNextWorkRequired(chain, time)
           h == Len(chain)
           old == chain[Len(chain)].nBits
<1>0. params \in Networks /\ h \in Nat /\ h >= 1 /\ h \in DOMAIN chain  BY ChainIs
<1>1. /\ params.fPowAllowMinDifficultyBlocks \in BOOLEAN /\ params.fPowNoRetargeting \in BOOLEAN
      /\ nBlocksToAverage \in Nat
  BY <1>0, NetworkIs
<1>2. Valid(old)  BY <1>0, ChainIs
<1>3. Copies(w) \/ Eases(w) \/ Shields(w) \/ Spans(w)  BY WorkCases
<1>4. CASE params.fPowAllowMinDifficultyBlocks
  BY <1>4 DEF PermittedDifficultyTransition
<1>5. CASE ~params.fPowAllowMinDifficultyBlocks
  <2>1. params.fPowNoRetargeting = FALSE  BY <1>0, <1>1, <1>5, NetworksAssumption
  <2>2. /\ nPowTargetSpacing \in Nat /\ nPowTargetSpacing >= 1 /\ nPowTargetSpacing \in Measured
        /\ nPowTargetSpacing \div 2 \in Measured /\ nPowTargetSpacing * 2 \in Measured
        /\ nPowTargetSpacing \div 2 <= nPowTargetSpacing /\ nPowTargetSpacing <= nPowTargetSpacing * 2
        /\ nPowTargetTimespan \in Nat /\ nPowTargetTimespan >= 1
        /\ nPowTargetTimespan \div 4 \in Measured /\ nPowTargetTimespan * 4 \in Measured
    BY <1>0, Limits
  <2> HIDE DEF w, old
  <2>3. CASE Copies(w)
    <3>1. w = old /\ h - 1 < nBlocksToAverage /\ h % DifficultyAdjustmentInterval # 0
      BY <1>5, <2>3 DEF Copies, old
    <3>2. CASE h >= nBlocksToAverage
      <4>1. Retargeted(old, nPowTargetSpacing, nPowTargetSpacing) = old
        BY <1>0, <1>2, <2>1, <2>2, RetargetSame
      <4>2. Within(old, Retargeted(old, nPowTargetSpacing, nPowTargetSpacing),
                   nPowTargetSpacing \div 2, nPowTargetSpacing * 2, nPowTargetSpacing)
        BY <1>0, <1>2, <2>1, <2>2, WithinLimits
      <4>3. Within(old, w, nPowTargetSpacing \div 2, nPowTargetSpacing * 2, nPowTargetSpacing)
        BY <3>1, <4>1, <4>2
      <4> QED BY <3>2, <4>3 DEF PermittedDifficultyTransition, old, w
    <3>3. CASE ~(h >= nBlocksToAverage)
      BY <3>1, <3>3 DEF PermittedDifficultyTransition, old, w
    <3> QED BY <3>2, <3>3
  <2>4. CASE Eases(w)
    BY <1>5, <2>4 DEF Eases
  <2>5. CASE Shields(w)
    <3>1. h - 1 >= nBlocksToAverage /\ w = Retargeted(old, ShieldTime, nPowTargetSpacing)
      BY <2>5 DEF Shields, old
    <3>2. /\ ShieldTime \in Measured
          /\ nPowTargetSpacing \div 2 <= ShieldTime /\ ShieldTime <= nPowTargetSpacing * 2
      BY <3>1, ShieldTimeIs
    <3>3. Within(old, w, nPowTargetSpacing \div 2, nPowTargetSpacing * 2, nPowTargetSpacing)
      BY <1>0, <1>2, <2>1, <2>2, <3>1, <3>2, WithinLimits
    <3>4. h >= nBlocksToAverage  BY <1>0, <1>1, <3>1
    <3> QED BY <3>3, <3>4 DEF PermittedDifficultyTransition, old, w
  <2>6. CASE Spans(w)
    <3>1. /\ h - 1 < nBlocksToAverage /\ h % DifficultyAdjustmentInterval = 0
          /\ w = Retargeted(old, SpanTime, nPowTargetTimespan)
      BY <1>5, <2>6 DEF Spans, old
    <3>2. /\ SpanTime \in Measured
          /\ nPowTargetTimespan \div 4 <= SpanTime /\ SpanTime <= nPowTargetTimespan * 4
      BY <3>1, SpanTimeIs
    <3>3. Within(old, w, nPowTargetTimespan \div 4, nPowTargetTimespan * 4, nPowTargetTimespan)
      BY <1>0, <1>2, <2>1, <2>2, <3>1, <3>2, WithinLimits
    <3>4. CASE h = nBlocksToAverage
      BY <3>1, <3>4 DEF Boundary
    <3>5. CASE h # nBlocksToAverage
      <4>1. ~(h >= nBlocksToAverage)  BY <1>0, <1>1, <3>1, <3>5
      <4> QED BY <3>1, <3>3, <4>1 DEF PermittedDifficultyTransition, old, w
    <3> QED BY <3>4, <3>5
  <2> QED BY <1>3, <2>3, <2>4, <2>5, <2>6
<1> QED BY <1>1, <1>4, <1>5

\* Headers sync accepts all transitions of the chain but the one at the boundary.
AcceptsOffBoundary ==
  \A h \in 1..(Len(chain) - 1) :
    Boundary(h) \/ PermittedDifficultyTransition(h, chain[h].nBits, chain[h + 1].nBits)

\* A chain of one block has no transition.
LEMMA InitAccepts ==
  Init => AcceptsOffBoundary
<1> SUFFICES ASSUME Init, NEW h \in 1..(Len(chain) - 1) PROVE FALSE  BY DEF AcceptsOffBoundary
<1>1. Len(chain) = 1  BY DEF Init
<1> QED BY <1>1

\* A step adds one transition, a permitted one.
LEMMA StepAccepts ==
  TargetsValid /\ AcceptsOffBoundary /\ [Next]_vars => AcceptsOffBoundary'
<1>1. ASSUME UNCHANGED vars, AcceptsOffBoundary PROVE AcceptsOffBoundary'
  BY <1>1 DEF vars, AcceptsOffBoundary, Boundary, PermittedDifficultyTransition, Within, Retargeted,
              Capped, powLimit, nPowTargetSpacing, nPowTargetTimespan, DifficultyAdjustmentInterval
<1>2. ASSUME TargetsValid, AcceptsOffBoundary, Next PROVE AcceptsOffBoundary'
  <2>1. PICK time \in {Last(chain).time + step : step \in TimeSteps} :
           /\ chain' = Append(chain, [time |-> time, nBits |-> GetNextWorkRequired(chain, time)])
           /\ params' = params
    BY <1>2, NextIs
  <2> DEFINE w == GetNextWorkRequired(chain, time)
             block == [time |-> time, nBits |-> w]
  <2>2. Len(chain) \in Nat /\ chain \in Seq(Headers)  BY <1>2, ChainIs DEF TargetsValid
  <2>3. \/ Boundary(Len(chain))
        \/ PermittedDifficultyTransition(Len(chain), chain[Len(chain)].nBits, w)
    BY <1>2, NextPermitted
  <2>4. chain' = Append(chain, block) /\ block.nBits = w  BY <2>1
  <2> HIDE DEF w, block
  <2>5. Len(chain') = Len(chain) + 1 /\ chain'[Len(chain) + 1] = block
        /\ \A i \in 1..Len(chain) : chain'[i] = chain[i]
    BY <2>2, <2>4
  <2>6. ASSUME NEW h \in 1..(Len(chain') - 1)
        PROVE  Boundary(h) \/ PermittedDifficultyTransition(h, chain'[h].nBits, chain'[h + 1].nBits)
    <3>1. h \in Nat /\ h \in 1..Len(chain)  BY <2>2, <2>5
    <3>2. chain'[h] = chain[h]  BY <2>5, <3>1
    <3>3. CASE h = Len(chain)
      <4>1. chain'[h + 1].nBits = w  BY <2>4, <2>5, <3>3
      <4> QED BY <2>3, <3>2, <3>3, <4>1
    <3>4. CASE h # Len(chain)
      <4>1. h \in 1..(Len(chain) - 1) /\ h + 1 \in 1..Len(chain)  BY <2>2, <3>1, <3>4
      <4>2. chain'[h + 1] = chain[h + 1]  BY <2>5, <4>1
      <4>3. Boundary(h) \/ PermittedDifficultyTransition(h, chain[h].nBits, chain[h + 1].nBits)
        BY <1>2, <4>1 DEF AcceptsOffBoundary
      <4> QED BY <3>2, <4>2, <4>3
    <3> QED BY <3>3, <3>4
  <2>7. params' = params  BY <2>1
  <2> QED
    BY <2>6, <2>7 DEF AcceptsOffBoundary, Boundary, PermittedDifficultyTransition, Within, Retargeted,
              Capped, powLimit, nPowTargetSpacing, nPowTargetTimespan, DifficultyAdjustmentInterval
<1> QED BY <1>1, <1>2

-----------------------------------------------------------------------------
(***************************************************************************)
(* On every network and for all timestamps, nBits of each header accepted  *)
(* is the compact form of a target between 1 and powLimit.                 *)
(***************************************************************************)
THEOREM TargetsAlwaysValid == Spec => []TargetsValid
<1> QED BY InitTargetsValid, StepTargetsValid, PTL DEF Spec

(***************************************************************************)
(* Types: whatever pow.cpp computes from a chain fits size and word of     *)
(* nBits.                                                                  *)
(***************************************************************************)
THEOREM TypeCorrect == Spec => []TypeOK
<1> QED BY TargetsAlwaysValid, TypeFollows, PTL

(***************************************************************************)
(* The work GetNextWorkRequired asks can be met: it is a target that       *)
(* CheckProofOfWork accepts, as long as targets are not down to a few      *)
(* units.                                                                  *)
(***************************************************************************)
THEOREM NextTargetCorrect == Spec => []NextTargetValid
<1> QED BY TargetsAlwaysValid, NextTargetFollows, PTL

(***************************************************************************)
(* Blocks at the target spacing leave nBits exactly as it is, for every    *)
(* base, precision and network: rounding does not drift.                   *)
(***************************************************************************)
THEOREM SteadyCorrect == Spec => []SteadyAtTarget
<1> QED BY TargetsAlwaysValid, SteadyFollows, PTL

(***************************************************************************)
(* PermittedDifficultyTransition accepts every transition that             *)
(* GetNextWorkRequired makes, but for the block at height nBlocksToAverage *)
(* where that is a multiple of the interval.                               *)
(***************************************************************************)
THEOREM AcceptsOffBoundaryCorrect == Spec => []AcceptsOffBoundary
<1>1. Init => AcceptsOffBoundary  BY InitAccepts
<1>2. TargetsValid /\ AcceptsOffBoundary /\ [Next]_vars => AcceptsOffBoundary'  BY StepAccepts
<1> QED BY <1>1, <1>2, TargetsAlwaysValid, PTL DEF Spec

\* No network without min-difficulty blocks ends an interval where the averaging rule begins.
OffBoundary ==
  \A p \in Networks :
    p.fPowAllowMinDifficultyBlocks \/ nBlocksToAverage % (p.nPowTargetTimespan \div p.nPowTargetSpacing) # 0

(***************************************************************************)
(* On such networks (main, signet, and those with min-difficulty blocks)   *)
(* headers sync refuses no header of a valid chain.                        *)
(***************************************************************************)
THEOREM HeadersSyncCorrect ==
  ASSUME OffBoundary
  PROVE  Spec => []HeadersSyncAccepts
<1>1. TargetsValid /\ AcceptsOffBoundary => HeadersSyncAccepts
  <2> SUFFICES ASSUME TargetsValid, AcceptsOffBoundary, NEW h \in 1..(Len(chain) - 1)
               PROVE  PermittedDifficultyTransition(h, chain[h].nBits, chain[h + 1].nBits)
    BY DEF HeadersSyncAccepts
  <2>1. params \in Networks  BY ChainIs
  <2>2. CASE params.fPowAllowMinDifficultyBlocks
    BY <2>2 DEF PermittedDifficultyTransition
  <2>3. CASE ~params.fPowAllowMinDifficultyBlocks
    <3>1. ~Boundary(h)
      BY <2>1, <2>3 DEF OffBoundary, Boundary, DifficultyAdjustmentInterval, nPowTargetTimespan,
                        nPowTargetSpacing
    <3> QED BY <3>1 DEF AcceptsOffBoundary
  <2> QED BY <2>2, <2>3
<1> QED BY <1>1, TargetsAlwaysValid, AcceptsOffBoundaryCorrect, PTL

-----------------------------------------------------------------------------
(* "Allow max 2x increase ... per block."                                   *)

\* From the averaging rule on, no target is more than twice its parent's.
AtMostDoubles ==
  \A h \in (nBlocksToAverage + 1)..(Len(chain) - 1) :
    SetCompact(chain[h + 1].nBits) <= SetCompact(chain[h].nBits) * 2

\* The averaging rule at most doubles the target.
LEMMA NextAtMostDoubles ==
  ASSUME TargetsValid, NEW time, Len(chain) - 1 >= nBlocksToAverage
  PROVE  SetCompact(GetNextWorkRequired(chain, time)) <= SetCompact(chain[Len(chain)].nBits) * 2
<1> DEFINE w == GetNextWorkRequired(chain, time)
           old == chain[Len(chain)].nBits
           t == SetCompact(old)
           s == nPowTargetSpacing
<1>0. params \in Networks /\ Len(chain) \in DOMAIN chain /\ Last(chain) = chain[Len(chain)] /\ Len(chain) \in Nat
  BY ChainIs
<1>1. Valid(old) /\ t \in Nat /\ powLimit \in Nat /\ nBlocksToAverage \in Nat
      /\ params.fPowNoRetargeting \in BOOLEAN
  BY <1>0, ChainIs, NetworkIs DEF Valid
<1>2. w = CalculateNextWorkRequired_DigiShield(chain, AverageTime(chain))
  <2>1. ~(Len(chain) - 1 < nBlocksToAverage)  BY <1>0, <1>1
  <2> QED BY <2>1 DEF GetNextWorkRequired
<1>3. CASE params.fPowNoRetargeting
  <2>1. w = old  BY <1>0, <1>2, <1>3 DEF CalculateNextWorkRequired_DigiShield
  <2>2. t <= t * 2
    <3> HIDE DEF t
    <3> QED BY <1>1
  <2> QED BY <2>1, <2>2
<1>4. CASE ~params.fPowNoRetargeting
  <2> DEFINE y == Scaled(old, ShieldTime, s)
  <2>1. w = Retargeted(old, ShieldTime, s)
    BY <1>0, <1>2, <1>4 DEF CalculateNextWorkRequired_DigiShield, ShieldTime
  <2>2. ShieldTime \in Measured /\ ShieldTime \in Nat /\ ShieldTime <= s * 2  BY ShieldTimeIs DEF Measured
  <2>3. s \in Nat /\ s >= 1  BY <1>0, Limits
  <2> HIDE DEF old
  <2>4. w = GetCompact(y) /\ y \in Nat /\ y <= powLimit
    BY <1>0, <1>1, <2>1, <2>2, <2>3, ScaledIs
  <2>5. y <= t * 2
    <3> DEFINE x == t * ShieldTime
               z == t * (s * 2)
    <3>1. y = Capped(x \div s)
      BY <1>0, <1>1, <1>4, <2>2, MulExact DEF Scaled
    <3> HIDE DEF t, s
    <3>2. s * 2 \in Nat  BY <2>3
    <3>3. x \in Nat /\ z \in Nat /\ x <= z  BY <1>1, <2>2, <3>2, MulMono, MulNat
    <3>4. z \div s = t * 2
      <4>1. z = (t * 2) * s /\ t * 2 \in Nat  BY <1>1, <2>3
      <4> HIDE DEF z
      <4> QED BY <2>3, <4>1, DivMul
    <3> HIDE DEF x, z, y
    <3>5. x \div s <= z \div s /\ x \div s \in Nat /\ z \div s \in Nat
      BY <2>3, <3>3, DivMono, DivIs
    <3> DEFINE q == x \div s
               r == t * 2
    <3>6. q \in Nat /\ r \in Nat /\ q <= r /\ y = Capped(q)  BY <3>1, <3>4, <3>5
    <3> HIDE DEF q, r
    <3>7. y <= r  BY <1>1, <3>6 DEF Capped
    <3> QED BY <3>7 DEF r
  <2>6. y \in Targets  BY <1>0, <2>4, CompactOfTarget
  <2> HIDE DEF y, t
  <2>7. Round(y) \in Nat /\ Round(y) <= y  BY <2>6, RoundDown
  <2>8. SetCompact(w) = Round(y)  BY <2>4 DEF Round
  <2>9. SetCompact(w) <= t * 2
    <3> DEFINE r == t * 2
    <3>1. r \in Nat /\ y <= r  BY <1>1, <2>5
    <3> HIDE DEF r
    <3>2. Round(y) <= r  BY <2>4, <2>7, <3>1
    <3> QED BY <2>8, <3>2 DEF r
  <2> QED BY <2>9 DEF t, old
<1> QED BY <1>3, <1>4

(***************************************************************************)
(* "Allow max 2x increase" (CalculateNextWorkRequired_DigiShield): with    *)
(* rounding and the cap, no target after the first nBlocksToAverage blocks *)
(* is more than twice that of its parent, on every network, with or        *)
(* without min-difficulty blocks.                                          *)
(***************************************************************************)
THEOREM DoublesCorrect == Spec => []AtMostDoubles
<1>1. Init => AtMostDoubles
  <2> SUFFICES ASSUME Init, NEW h \in (nBlocksToAverage + 1)..(Len(chain) - 1) PROVE FALSE
    BY DEF AtMostDoubles
  <2>1. Len(chain) = 1 /\ nBlocksToAverage \in Nat  BY PowAssumption DEF Init
  <2> QED BY <2>1
<1>2. TargetsValid /\ AtMostDoubles /\ [Next]_vars => AtMostDoubles'
  <2>1. ASSUME UNCHANGED vars, AtMostDoubles PROVE AtMostDoubles'
    BY <2>1 DEF vars, AtMostDoubles
  <2>2. ASSUME TargetsValid, AtMostDoubles, Next PROVE AtMostDoubles'
    <3>1. PICK time \in {Last(chain).time + step : step \in TimeSteps} :
             chain' = Append(chain, [time |-> time, nBits |-> GetNextWorkRequired(chain, time)])
      BY <2>2, NextIs
    <3> DEFINE w == GetNextWorkRequired(chain, time)
               block == [time |-> time, nBits |-> w]
    <3>2. /\ Len(chain) \in Nat /\ chain \in Seq(Headers) /\ nBlocksToAverage \in Nat
          /\ block.nBits = w /\ chain' = Append(chain, block)
      BY <2>2, <3>1, ChainIs, PowAssumption DEF TargetsValid
    <3>3. Len(chain) - 1 >= nBlocksToAverage => SetCompact(w) <= SetCompact(chain[Len(chain)].nBits) * 2
      BY <2>2, NextAtMostDoubles
    <3> HIDE DEF w, block
    <3>4. Len(chain') = Len(chain) + 1 /\ chain'[Len(chain) + 1] = block
          /\ \A i \in 1..Len(chain) : chain'[i] = chain[i]
      BY <3>2
    <3>5. ASSUME NEW h \in (nBlocksToAverage + 1)..(Len(chain') - 1)
          PROVE  SetCompact(chain'[h + 1].nBits) <= SetCompact(chain'[h].nBits) * 2
      <4>1. h \in Nat /\ h \in 1..Len(chain)  BY <3>2, <3>4
      <4>2. chain'[h] = chain[h]  BY <3>4, <4>1
      <4>3. CASE h = Len(chain)
        <5>1. chain'[h + 1].nBits = w  BY <3>2, <3>4, <4>3
        <5>2. Len(chain) - 1 >= nBlocksToAverage  BY <3>2, <4>3
        <5> QED BY <3>3, <4>2, <4>3, <5>1, <5>2
      <4>4. CASE h # Len(chain)
        <5>1. h \in (nBlocksToAverage + 1)..(Len(chain) - 1) /\ h + 1 \in 1..Len(chain)
          BY <3>2, <4>1, <4>4
        <5>2. chain'[h + 1] = chain[h + 1]  BY <3>4, <5>1
        <5>3. SetCompact(chain[h + 1].nBits) <= SetCompact(chain[h].nBits) * 2
          BY <2>2, <5>1 DEF AtMostDoubles
        <5> QED BY <4>2, <5>2, <5>3
      <4> QED BY <4>3, <4>4
    <3> QED BY <3>5 DEF AtMostDoubles
  <2> QED BY <2>1, <2>2
<1> QED BY <1>1, <1>2, TargetsAlwaysValid, PTL DEF Spec
=============================================================================

-------------------------- MODULE WorkParamsProofs --------------------------
(***************************************************************************)
(* check_work_parameters, closest_power_of_2 and work_sizes for integers   *)
(* of any width and any sizes that do not overflow them.                   *)
(***************************************************************************)
EXTENDS WorkParams, SequenceTheorems, Recursion

-----------------------------------------------------------------------------
(* Powers of two *)

\* The recursive function Pow2 exists: positive, 1 at 0, twice as much at n + 1.
LEMMA Pow2Facts ==
  /\ Pow2 \in [Nat -> Nat \ {0}]
  /\ Pow2[0] = 1
  /\ \A n \in Nat : Pow2[n + 1] = 2 * Pow2[n]
<1>. DEFINE D == Nat \ {0}
            s == [n \in Nat |-> [x \in D |-> 2 * x]]
            P(f) == f = [n \in Nat |-> IF n = 0 THEN 1 ELSE 2 * f[n - 1]]
<1>1. 1 \in D /\ s \in StepFunctions(D)
  BY DEF StepFunctions
<1>2. PICK f \in [Nat -> D] : Iterates(f, 1, s)
  <2> HIDE DEF s, D
  <2>. QED BY <1>1, PrimitiveRecursion
<1>3. P(f)
  <2>1. ASSUME NEW n \in Nat PROVE f[n] = IF n = 0 THEN 1 ELSE 2 * f[n - 1]
    <3>1. CASE n = 0
      BY <1>2, <3>1 DEF Iterates
    <3>2. CASE n # 0
      <4>1. n - 1 \in Nat /\ (n - 1) + 1 = n
        BY <3>2
      <4>. QED BY <1>2, <3>2, <4>1 DEF Iterates
    <3>. QED BY <3>1, <3>2
  <2>. QED BY <1>2, <2>1
<1>4. P(Pow2)
  <2>1. Pow2 = CHOOSE x : P(x)
    BY DEF Pow2
  <2> HIDE DEF P
  <2>. QED BY <1>3, <2>1
<1>5. Pow2 = f
  <2> DEFINE E == {n \in Nat : Pow2[n] = f[n]}
  <2>1. 0 \in E /\ \A n \in Nat : n \in E => n + 1 \in E
    BY <1>3, <1>4
  <2>2. Nat \subseteq E
    <3> HIDE DEF E
    <3>. QED BY <2>1, NatSetInduction
  <2>. QED BY <1>2, <1>4, <2>2
<1>. QED
  BY <1>2, <1>5 DEF Iterates

\* The exponent of a sum, and order.
LEMMA Pow2Sum ==
  ASSUME NEW m \in Nat, NEW n \in Nat
  PROVE  Pow2[m + n] = Pow2[m] * Pow2[n]
<1>. DEFINE E == {k \in Nat : Pow2[m + k] = Pow2[m] * Pow2[k]}
<1>1. 0 \in E
  BY Pow2Facts
<1>2. ASSUME NEW k \in Nat, k \in E PROVE k + 1 \in E
  <2>1. Pow2[m + (k + 1)] = 2 * Pow2[m + k]
    BY Pow2Facts, (m + k) + 1 = m + (k + 1)
  <2>2. Pow2[k + 1] = 2 * Pow2[k] /\ Pow2[m] \in Nat /\ Pow2[k] \in Nat
    BY Pow2Facts
  <2>3. Pow2[m] * (2 * Pow2[k]) = 2 * (Pow2[m] * Pow2[k])
    BY <2>2
  <2>. QED BY <1>2, <2>1, <2>2, <2>3
<1>3. Nat \subseteq E
  <2> HIDE DEF E
  <2>. QED BY <1>1, <1>2, NatSetInduction
<1>. QED
  BY <1>3

LEMMA Pow2Order ==
  ASSUME NEW m \in Nat, NEW n \in Nat
  PROVE  /\ m <= n => Pow2[m] <= Pow2[n]
         /\ m < n => 2 * Pow2[m] <= Pow2[n]
         /\ Pow2[m] < Pow2[n] => m < n
<1>1. ASSUME NEW a \in Nat, NEW b \in Nat, a <= b
      PROVE  Pow2[a] <= Pow2[b]
  <2>1. b - a \in Nat /\ a + (b - a) = b
    BY <1>1
  <2>2. Pow2[b] = Pow2[a] * Pow2[b - a]
    BY <2>1, Pow2Sum
  <2>3. Pow2[a] \in Nat \ {0} /\ Pow2[b - a] \in Nat \ {0}
    BY <2>1, Pow2Facts
  <2>. QED BY <2>2, <2>3
<1>2. m < n => 2 * Pow2[m] <= Pow2[n]
  BY <1>1, Pow2Facts
<1>3. Pow2[m] \in Nat /\ Pow2[n] \in Nat
  BY Pow2Facts
<1>. QED
  BY <1>1, <1>2, <1>3

Powers == {Pow2[k] : k \in Nat}

LEMMA PowersFacts ==
  /\ Powers \subseteq Nat \ {0}
  /\ 1 \in Powers
  /\ \A x \in Powers : x = 1 \/ \E y \in Powers : x = 2 * y
  /\ \A x, y \in Powers : x <= y => y % x = 0
<1>1. Powers \subseteq Nat \ {0} /\ 1 \in Powers
  BY Pow2Facts DEF Powers
<1>2. ASSUME NEW x \in Powers, x # 1 PROVE \E y \in Powers : x = 2 * y
  <2>1. PICK k \in Nat : x = Pow2[k]
    BY DEF Powers
  <2>2. k - 1 \in Nat /\ (k - 1) + 1 = k
    BY <1>2, <2>1, Pow2Facts
  <2>. QED BY <2>1, <2>2, Pow2Facts DEF Powers
<1>3. ASSUME NEW x \in Powers, NEW y \in Powers, x <= y PROVE y % x = 0
  <2>1. PICK j \in Nat, k \in Nat : x = Pow2[j] /\ y = Pow2[k]
    BY DEF Powers
  <2>2. x \in Nat \ {0} /\ y \in Nat \ {0}
    BY <1>1
  <2>3. \E q \in Nat : y = x * q
    <3>1. CASE j <= k
      <4>1. k - j \in Nat /\ j + (k - j) = k
        BY <3>1
      <4>2. Pow2[k] = Pow2[j] * Pow2[k - j] /\ Pow2[k - j] \in Nat
        BY <4>1, Pow2Sum, Pow2Facts
      <4>. QED BY <2>1, <4>2
    <3>2. CASE k < j
      <4>1. 2 * y <= x
        BY <2>1, <3>2, Pow2Order
      <4>. QED BY <1>3, <2>2, <4>1
    <3>. QED BY <3>1, <3>2
  <2>4. PICK q \in Nat : y = x * q
    BY <2>3
  <2>. QED BY <2>2, <2>4
<1>. QED
  BY <1>1, <1>2, <1>3

-----------------------------------------------------------------------------
(* Products *)

\* The products of the first n entries of s, as a loop accumulates them.
AreProducts(p, s) == p = [n \in 0 .. Len(s) |-> IF n = 0 THEN 1 ELSE p[n - 1] * s[n]]

LEMMA ProductIs ==
  ASSUME NEW s \in Seq(Nat)
  PROVE  \E p : AreProducts(p, s) /\ Product(s) = p[Len(s)]
<1>. DEFINE m == Len(s)
            step == [n \in Nat |-> [x \in Nat |-> IF n < m THEN x * s[n + 1] ELSE x]]
<1>1. m \in Nat /\ \A n \in 1 .. m : s[n] \in Nat
  OBVIOUS
<1>2. step \in StepFunctions(Nat)
  BY <1>1 DEF StepFunctions
<1>3. \E r \in [0 .. m -> Nat] : IsRun(r, m, 1, step)
  <2>. HIDE DEF step
  <2>. QED BY <1>1, <1>2, BoundedRecursion
<1>4. PICK r \in [0 .. m -> Nat] : IsRun(r, m, 1, step)
  BY <1>3
<1>5. ASSUME NEW n \in 0 .. m
      PROVE  r[n] = IF n = 0 THEN 1 ELSE r[n - 1] * s[n]
  <2>1. CASE n = 0
    BY <1>4, <2>1 DEF IsRun
  <2>2. CASE n # 0
    <3>1. n - 1 \in Nat /\ n - 1 \in 0 .. m /\ (n - 1) + 1 = n /\ n - 1 < m
      BY <1>1, <2>2
    <3>2. r[n - 1] \in Nat
      BY <1>4, <3>1
    <3>3. r[n] = step[n - 1][r[n - 1]]
      BY <1>4, <2>2 DEF IsRun
    <3>. QED BY <2>2, <3>1, <3>2, <3>3
  <2>. QED BY <2>1, <2>2
<1>6. AreProducts(r, s)
  BY <1>4, <1>5 DEF AreProducts
<1>. DEFINE p == CHOOSE f : AreProducts(f, s)
<1>7. AreProducts(p, s)
  BY <1>6
<1>8. Product(s) = p[Len(s)]
  BY DEF Product, AreProducts
<1>. QED
  BY <1>7, <1>8

LEMMA ProductFacts ==
  ASSUME NEW s \in Seq(Nat)
  PROVE  /\ Product(s) \in Nat
         /\ s = <<>> => Product(s) = 1
         /\ Len(s) = 2 => Product(s) = s[1] * s[2]
<1>1. PICK p : AreProducts(p, s) /\ Product(s) = p[Len(s)]
  BY ProductIs
<1>2. Len(s) \in Nat /\ \A n \in 1 .. Len(s) : s[n] \in Nat
  OBVIOUS
<1>3. Product(s) \in Nat
  <2>. DEFINE E == {n \in Nat : n <= Len(s) => p[n] \in Nat}
  <2>1. 0 \in E
    BY <1>1, <1>2 DEF AreProducts
  <2>2. ASSUME NEW n \in Nat, n \in E PROVE n + 1 \in E
    <3>1. CASE ~ (n + 1 <= Len(s))
      BY <3>1
    <3>2. CASE n + 1 <= Len(s)
      <4>1. /\ n + 1 \in 0 .. Len(s) /\ (n + 1) - 1 = n /\ n + 1 # 0
            /\ p[n] \in Nat /\ s[n + 1] \in Nat
        BY <1>2, <2>2, <3>2
      <4>2. p[n + 1] = p[n] * s[n + 1]
        BY <1>1, <4>1 DEF AreProducts
      <4>. QED BY <4>1, <4>2
    <3>. QED BY <3>1, <3>2
  <2>3. Nat \subseteq E
    <3>. HIDE DEF E
    <3>. QED BY <2>1, <2>2, NatSetInduction
  <2>. QED BY <1>1, <1>2, <2>3
<1>4. s = <<>> => Product(s) = 1
  BY <1>1 DEF AreProducts
<1>5. ASSUME Len(s) = 2 PROVE Product(s) = s[1] * s[2]
  <2>1. p[0] = 1 /\ p[1] = p[0] * s[1] /\ p[2] = p[1] * s[2]
    BY <1>1, <1>5 DEF AreProducts
  <2>. QED BY <1>1, <1>2, <1>5, <2>1
<1>. QED
  BY <1>3, <1>4, <1>5

\* No factor is more than the product, unless there is a zero.
LEMMA FactorBelowProduct ==
  ASSUME NEW s \in Seq(Nat \ {0}), NEW i \in 1 .. Len(s)
  PROVE  s[i] <= Product(s)
<1>0. s \in Seq(Nat)
  OBVIOUS
<1>1. PICK p : AreProducts(p, s) /\ Product(s) = p[Len(s)]
  BY <1>0, ProductIs
<1>2. Len(s) \in Nat /\ \A n \in 1 .. Len(s) : s[n] \in Nat \ {0}
  OBVIOUS
<1>. DEFINE E == {n \in Nat : n <= Len(s) => p[n] \in Nat \ {0} /\ (i <= n => s[i] <= p[n])}
<1>3. 0 \in E
  BY <1>1, <1>2 DEF AreProducts
<1>4. ASSUME NEW n \in Nat, n \in E PROVE n + 1 \in E
  <2>1. CASE ~ (n + 1 <= Len(s))
    BY <2>1
  <2>2. CASE n + 1 <= Len(s)
    <3>1. n + 1 \in 0 .. Len(s) /\ (n + 1) - 1 = n /\ n + 1 # 0 /\ n + 1 \in 1 .. Len(s)
      BY <1>2, <2>2
    <3>2. p[n] \in Nat \ {0} /\ (i <= n => s[i] <= p[n])
      BY <1>2, <1>4, <2>2
    <3>. DEFINE x == p[n]
                f == s[n + 1]
    <3>3. p[n + 1] = x * f
      BY <1>1, <3>1 DEF AreProducts
    <3>4. f \in Nat \ {0}
      BY <1>2, <3>1
    <3>5. x \in Nat \ {0} /\ (i <= n => s[i] <= x)
      BY <3>2
    <3>6. i = n + 1 => s[i] = f
      OBVIOUS
    <3>7. s[i] \in Nat /\ i \in Nat
      BY <1>2
    <3>. HIDE DEF x, f
    <3>8. x * f \in Nat \ {0} /\ x <= x * f /\ f <= x * f
      BY <3>4, <3>5
    <3>9. i <= n + 1 => s[i] <= x * f
      BY <3>4, <3>5, <3>6, <3>7, <3>8
    <3>. QED BY <3>3, <3>8, <3>9
  <2>. QED BY <2>1, <2>2
<1>5. Nat \subseteq E
  <2>. HIDE DEF E
  <2>. QED BY <1>3, <1>4, NatSetInduction
<1>6. Len(s) \in E
  <2>. HIDE DEF E
  <2>. QED BY <1>2, <1>5
<1>. QED
  BY <1>1, <1>2, <1>6

-----------------------------------------------------------------------------
(* Conversions *)

\* What fits in its type is not changed by a conversion.
LEMMA FitsUnsigned ==
  ASSUME NEW bits \in Nat, NEW x \in Nat, x < Pow2[bits]
  PROVE  ToUnsigned(x, bits) = x
<1>1. Pow2[bits] \in Nat \ {0}
  BY Pow2Facts
<1>2. x \div Pow2[bits] = 0
  BY <1>1, DivisionUnique, Pow2[bits] * 0 <= x, x < Pow2[bits] * (0 + 1)
<1>. QED
  BY <1>1, <1>2 DEF ToUnsigned

LEMMA FitsSigned ==
  ASSUME NEW bits \in Nat \ {0}, NEW x \in Nat, x < Pow2[bits - 1]
  PROVE  ToSigned(x, bits) = x
<1>1. Pow2[bits - 1] <= Pow2[bits] /\ Pow2[bits] \in Nat /\ Pow2[bits - 1] \in Nat
  BY Pow2Order, Pow2Facts, bits - 1 \in Nat, bits - 1 <= bits
<1>2. ToUnsigned(x, bits) = x
  BY <1>1, FitsUnsigned
<1>. QED
  BY <1>2 DEF ToSigned

LEMMA WidthTypes ==
  /\ INT_BITS \in Nat \ {0} /\ SIZE_BITS \in Nat \ {0} /\ LL_BITS \in Nat \ {0}
  /\ INT_BITS - 1 \in Nat /\ INT_BITS - 2 \in Nat /\ LL_BITS - 1 \in Nat /\ SIZE_BITS - 1 \in Nat
  /\ INT_BITS <= SIZE_BITS /\ SIZE_BITS <= LL_BITS
BY WidthAssumption, IntAssumption

LEMMA IntRange ==
  /\ Pow2[INT_BITS] = 2 * Pow2[INT_BITS - 1] /\ Pow2[INT_BITS - 1] = 2 * Pow2[INT_BITS - 2]
  /\ Pow2[INT_BITS - 1] \in Nat \ {0} /\ Pow2[INT_BITS - 2] \in Nat \ {0}
  /\ Pow2[INT_BITS] \in Nat \ {0}
<1>1. (INT_BITS - 1) + 1 = INT_BITS /\ (INT_BITS - 2) + 1 = INT_BITS - 1
  BY WidthTypes
<1>. QED
  BY <1>1, WidthTypes, Pow2Facts

LEMMA SizeRange ==
  /\ Pow2[SIZE_BITS] = 2 * Pow2[SIZE_BITS - 1]
  /\ Pow2[SIZE_BITS] \in Nat \ {0} /\ Pow2[SIZE_BITS - 1] \in Nat \ {0}
  /\ Pow2[INT_BITS - 1] <= Pow2[SIZE_BITS]
<1>1. (SIZE_BITS - 1) + 1 = SIZE_BITS /\ INT_BITS - 1 <= SIZE_BITS
  BY WidthTypes
<1>. QED
  BY <1>1, WidthTypes, Pow2Facts, Pow2Order

LEMMA LongRange ==
  /\ Pow2[LL_BITS] = 2 * Pow2[LL_BITS - 1]
  /\ Pow2[LL_BITS] \in Nat \ {0} /\ Pow2[LL_BITS - 1] \in Nat \ {0}
  /\ Pow2[SIZE_BITS - 1] <= Pow2[LL_BITS - 1]
<1>1. (LL_BITS - 1) + 1 = LL_BITS /\ SIZE_BITS - 1 <= LL_BITS - 1
  BY WidthTypes
<1>. QED
  BY <1>1, WidthTypes, Pow2Facts, Pow2Order

-----------------------------------------------------------------------------
(* closest_power_of_2 *)

\* Every positive number lies between a power of two and the next.
LEMMA Bracketed ==
  ASSUME NEW y \in Nat \ {0}, NEW n \in Nat, y < Pow2[n]
  PROVE  \E m \in 0 .. n - 1 : Pow2[m] <= y /\ y < Pow2[m + 1]
<1>. DEFINE E == {k \in Nat : y < Pow2[k] => \E m \in 0 .. k - 1 : Pow2[m] <= y /\ y < Pow2[m + 1]}
<1>1. 0 \in E
  BY Pow2Facts
<1>2. ASSUME NEW k \in Nat, k \in E PROVE k + 1 \in E
  <2>1. Pow2[k] \in Nat
    BY Pow2Facts
  <2>2. CASE y < Pow2[k]
    BY <1>2, <2>2
  <2>3. CASE Pow2[k] <= y
    BY <2>3, k \in 0 .. (k + 1) - 1
  <2>. QED BY <2>1, <2>2, <2>3
<1>3. Nat \subseteq E
  <2>. HIDE DEF E
  <2>. QED BY <1>1, <1>2, NatSetInduction
<1>. QED
  BY <1>3

\* The highest bit of a number.
LEMMA TopBit ==
  ASSUME NEW y \in Nat, NEW m \in 0 .. INT_BITS - 1, Pow2[m] <= y, y < Pow2[m + 1]
  PROVE  m \in Bits(y) /\ Bits(y) \subseteq 0 .. m
<1>1. Pow2[m] \in Nat \ {0} /\ Pow2[m + 1] = 2 * Pow2[m] /\ m \in Nat /\ INT_BITS \in Nat
  BY Pow2Facts, WidthTypes
<1>2. y \div Pow2[m] = 1
  BY <1>1, DivisionUnique, Pow2[m] * 1 <= y, y < Pow2[m] * (1 + 1)
<1>3. ASSUME NEW b \in 0 .. INT_BITS - 1, m < b
      PROVE  y \div Pow2[b] = 0
  <2>0. b \in Nat
    BY <1>1
  <2>1. Pow2[b] \in Nat \ {0} /\ 2 * Pow2[m] <= Pow2[b]
    BY <1>1, <1>3, <2>0, Pow2Facts, Pow2Order
  <2>. QED BY <1>1, <2>0, <2>1, DivisionUnique, Pow2[b] * 0 <= y, y < Pow2[b] * (0 + 1)
<1>4. m \in Bits(y)
  BY <1>2 DEF Bits
<1>5. ASSUME NEW b \in Bits(y) PROVE b \in 0 .. m
  BY <1>1, <1>3 DEF Bits
<1>. QED
  BY <1>4, <1>5

\* The highest of the bits in B is m, and the j below it are set.
FilledBelow(B, m, j) ==
  /\ B \subseteq 0 .. m
  /\ \A b \in 0 .. m : m - j <= b => b \in B

\* A shift adds as many bits below the highest as it shifts by, when there are as many.
LEMMA SmearFacts ==
  ASSUME NEW m \in 0 .. INT_BITS - 2, NEW B, NEW j \in Nat, NEW k \in Nat, k <= j + 1,
         FilledBelow(B, m, j)
  PROVE  FilledBelow(Smear(B, k), m, j + k)
<1>1. m \in Nat /\ INT_BITS - 1 \notin 0 .. m
  BY WidthTypes
<1>2. Smear(B, k) = B \union ({b - k : b \in B} \intersect Nat)
  BY <1>1 DEF Smear, FilledBelow
<1>3. ASSUME NEW b \in Smear(B, k) PROVE b \in 0 .. m
  <2>1. \A c \in B : c \in Int /\ c <= m
    BY <1>1 DEF FilledBelow
  <2>2. b \in B \/ \E c \in B : b = c - k /\ b \in Nat
    BY <1>2, <1>3
  <2>3. ASSUME NEW c \in B, b = c - k, b \in Nat PROVE b \in 0 .. m
    BY <1>1, <2>1, <2>3
  <2>. QED BY <2>2, <2>3 DEF FilledBelow
<1>4. ASSUME NEW b \in 0 .. m, m - (j + k) <= b PROVE b \in Smear(B, k)
  <2>1. CASE m - j <= b
    BY <1>2, <2>1 DEF FilledBelow
  <2>2. CASE b < m - j
    <3>1. b + k \in 0 .. m /\ m - j <= b + k /\ (b + k) - k = b
      BY <1>1, <1>4, <2>2
    <3>2. b + k \in B
      BY <3>1 DEF FilledBelow
    <3>. QED BY <1>2, <3>1, <3>2
  <2>. QED BY <1>1, <2>1, <2>2
<1>. QED
  BY <1>3, <1>4 DEF FilledBelow

\* The five shifts fill in everything below the highest bit.
LEMMA AllBelowFills ==
  ASSUME NEW m \in 0 .. INT_BITS - 2, NEW B, m \in B, B \subseteq 0 .. m
  PROVE  AllBelow(B) = 0 .. m
<1>1. m \in Nat /\ m < 32
  BY IntAssumption
<1>2. FilledBelow(B, m, 0)
  BY <1>1 DEF FilledBelow
<1>3. PICK B1 : B1 = Smear(B, 1) /\ FilledBelow(B1, m, 0 + 1)
  BY <1>2, SmearFacts, 1 <= 0 + 1
<1>4. PICK B2 : B2 = Smear(B1, 2) /\ FilledBelow(B2, m, (0 + 1) + 2)
  BY <1>3, SmearFacts, 2 <= (0 + 1) + 1
<1>5. PICK B4 : B4 = Smear(B2, 4) /\ FilledBelow(B4, m, 3 + 4)
  BY <1>4, SmearFacts, 4 <= 3 + 1, (0 + 1) + 2 = 3
<1>6. PICK B8 : B8 = Smear(B4, 8) /\ FilledBelow(B8, m, 7 + 8)
  BY <1>5, SmearFacts, 8 <= 7 + 1, 3 + 4 = 7
<1>7. PICK B16 : B16 = Smear(B8, 16) /\ FilledBelow(B16, m, 15 + 16)
  BY <1>6, SmearFacts, 16 <= 15 + 1, 7 + 8 = 15
<1>8. B16 = 0 .. m
  <2>1. \A b \in 0 .. m : m - (15 + 16) <= b
    BY <1>1
  <2>. QED BY <1>7, <2>1 DEF FilledBelow
<1>. QED
  BY <1>3, <1>4, <1>5, <1>6, <1>7, <1>8 DEF AllBelow

\* The values of the bits below the n-th.
AreValues(v, B) ==
  v = [n \in 0 .. INT_BITS |->
         IF n = 0 THEN 0 ELSE v[n - 1] + (IF n - 1 \in B THEN Pow2[n - 1] ELSE 0)]

LEMMA ValueIs ==
  ASSUME NEW B
  PROVE  \E v : AreValues(v, B) /\ Value(B) = v[INT_BITS]
<1>. DEFINE m == INT_BITS
            step == [n \in Nat |-> [x \in Nat |-> x + (IF n \in B THEN Pow2[n] ELSE 0)]]
<1>1. m \in Nat
  BY WidthTypes
<1>2. step \in StepFunctions(Nat)
  BY Pow2Facts DEF StepFunctions
<1>3. \E r \in [0 .. m -> Nat] : IsRun(r, m, 0, step)
  <2>. HIDE DEF step
  <2>. QED BY <1>1, <1>2, BoundedRecursion
<1>4. PICK r \in [0 .. m -> Nat] : IsRun(r, m, 0, step)
  BY <1>3
<1>5. ASSUME NEW n \in 0 .. m
      PROVE  r[n] = IF n = 0 THEN 0 ELSE r[n - 1] + (IF n - 1 \in B THEN Pow2[n - 1] ELSE 0)
  <2>1. CASE n = 0
    BY <1>4, <2>1 DEF IsRun
  <2>2. CASE n # 0
    <3>1. n - 1 \in Nat /\ n - 1 \in 0 .. m
      BY <1>1, <2>2
    <3>2. r[n - 1] \in Nat
      BY <1>4, <3>1
    <3>3. r[n] = step[n - 1][r[n - 1]]
      BY <1>4, <2>2 DEF IsRun
    <3>. QED BY <2>2, <3>1, <3>2, <3>3
  <2>. QED BY <2>1, <2>2
<1>6. AreValues(r, B)
  BY <1>4, <1>5 DEF AreValues
<1>. DEFINE v == CHOOSE f : AreValues(f, B)
<1>7. AreValues(v, B)
  BY <1>6
<1>8. Value(B) = v[INT_BITS]
  BY DEF Value, AreValues
<1>. QED
  BY <1>7, <1>8

LEMMA ValueBelow ==
  ASSUME NEW m \in 0 .. INT_BITS
  PROVE  Value(0 .. m - 1) = Pow2[m] - 1
<1>1. PICK v : AreValues(v, 0 .. m - 1) /\ Value(0 .. m - 1) = v[INT_BITS]
  BY ValueIs
<1>. DEFINE E == {n \in Nat : n <= INT_BITS => v[n] = Pow2[IF n <= m THEN n ELSE m] - 1}
<1>2. m \in Nat /\ INT_BITS \in Nat /\ m <= INT_BITS
  BY WidthTypes
<1>3. 0 \in E
  BY <1>1, <1>2, Pow2Facts DEF AreValues
<1>4. ASSUME NEW n \in Nat, n \in E PROVE n + 1 \in E
  <2>1. CASE ~ (n + 1 <= INT_BITS)
    BY <2>1
  <2>2. CASE n + 1 <= INT_BITS
    <3>1. n + 1 \in 0 .. INT_BITS /\ (n + 1) - 1 = n /\ n + 1 # 0 /\ n <= INT_BITS
      BY <1>2, <2>2
    <3>2. v[n + 1] = v[n] + (IF n \in 0 .. m - 1 THEN Pow2[n] ELSE 0)
      BY <1>1, <3>1 DEF AreValues
    <3>3. CASE n < m
      <4>1. v[n] = Pow2[n] - 1 /\ v[n + 1] = v[n] + Pow2[n]
        BY <1>2, <1>4, <3>1, <3>2, <3>3
      <4>2. Pow2[n + 1] = 2 * Pow2[n] /\ Pow2[n] \in Nat
        BY Pow2Facts
      <4>3. v[n + 1] = Pow2[n + 1] - 1
        BY <4>1, <4>2
      <4>. QED BY <1>2, <3>3, <4>3
    <3>4. CASE m <= n
      <4>1. v[n] = Pow2[m] - 1
        BY <1>2, <1>4, <3>1, <3>4
      <4>2. v[n + 1] = v[n] + 0 /\ Pow2[m] \in Nat
        BY <1>2, <3>2, <3>4, Pow2Facts
      <4>3. v[n + 1] = Pow2[m] - 1
        BY <4>1, <4>2
      <4>. QED BY <1>2, <3>4, <4>3
    <3>. QED BY <1>2, <3>3, <3>4
  <2>. QED BY <2>1, <2>2
<1>5. Nat \subseteq E
  <2>. HIDE DEF E
  <2>. QED BY <1>3, <1>4, NatSetInduction
<1>6. v[INT_BITS] = Pow2[m] - 1
  BY <1>2, <1>5
<1>. QED
  BY <1>1, <1>6

\* A non-negative int is rounded by way of the bits of the number below it.
LEMMA RoundedUpIs ==
  ASSUME NEW x \in Nat, x < Pow2[INT_BITS - 1], NEW m \in 0 .. INT_BITS,
         AllBelow(Bits(x - 1)) = 0 .. m - 1
  PROVE  /\ m = INT_BITS => closest_power_of_2(x) = 0
         /\ m < INT_BITS - 1 => closest_power_of_2(x) = Pow2[m]
<1>0. m \in Nat /\ INT_BITS \in Nat \ {0}
  BY WidthTypes
<1>1. m \in Nat /\ Pow2[m] \in Nat \ {0} /\ INT_BITS \in Nat \ {0}
  BY <1>0, Pow2Facts
<1>2. x < Pow2[INT_BITS] /\ x \in 0 .. Pow2[INT_BITS] - 1
  BY IntRange
<1>3. ToUnsigned(x, INT_BITS) = x /\ ToInt(x) = x
  BY <1>1, <1>2, FitsUnsigned, FitsSigned DEF ToInt
<1>4. Value(AllBelow(Bits(x - 1))) + 1 = Pow2[m]
  BY <1>1, ValueBelow
<1>5. closest_power_of_2(x) = ToUnsigned(ToInt(Pow2[m]), SIZE_BITS)
  BY <1>2, <1>3, <1>4 DEF closest_power_of_2, RoundedUp
<1>6. ASSUME m = INT_BITS PROVE closest_power_of_2(x) = 0
  <2>1. ASSUME NEW p \in Nat \ {0} PROVE p % p = 0
    OBVIOUS
  <2>2. ToUnsigned(Pow2[m], INT_BITS) = 0
    BY <1>1, <1>6, <2>1 DEF ToUnsigned
  <2>3. ToInt(Pow2[m]) = 0
    BY <2>2, IntRange DEF ToInt, ToSigned
  <2>4. ToUnsigned(0, SIZE_BITS) = 0
    BY SizeRange, WidthTypes, FitsUnsigned
  <2>. QED BY <1>5, <2>3, <2>4
<1>7. ASSUME m < INT_BITS - 1 PROVE closest_power_of_2(x) = Pow2[m]
  <2>1. Pow2[m] < Pow2[INT_BITS - 1]
    <3>1. 2 * Pow2[m] <= Pow2[INT_BITS - 1]
      BY <1>1, <1>7, WidthTypes, Pow2Order
    <3>. QED BY <1>1, <3>1, IntRange
  <2>2. ToInt(Pow2[m]) = Pow2[m]
    BY <1>1, <2>1, FitsSigned DEF ToInt
  <2>3. Pow2[m] < Pow2[SIZE_BITS]
    <3>1. Pow2[INT_BITS - 1] \in Nat
      BY IntRange
    <3>2. Pow2[SIZE_BITS] \in Nat /\ Pow2[INT_BITS - 1] <= Pow2[SIZE_BITS]
      BY SizeRange
    <3>. QED BY <1>1, <2>1, <3>1, <3>2
  <2>. QED BY <1>1, <1>5, <2>2, <2>3, WidthTypes, FitsUnsigned
<1>. QED
  BY <1>6, <1>7

\* For any width of int: closest_power_of_2 gives the least power of two that is not below its
\* argument, as long as an int can hold it; nothing comes of zero or of what an int has no room for.
THEOREM ClosestIsLeastPower ==
  ASSUME NEW x \in Nat
  PROVE  /\ x \in 1 .. Pow2[INT_BITS - 2] =>
              \E m \in 0 .. INT_BITS - 2 :
                /\ closest_power_of_2(x) = Pow2[m]
                /\ x <= Pow2[m] /\ Pow2[m] <= 2 * x - 1
                /\ \A k \in Nat : x <= Pow2[k] => m <= k
         /\ x = 0 => closest_power_of_2(x) = 0
         /\ x \in Pow2[INT_BITS - 1] .. Pow2[INT_BITS] - 1 => closest_power_of_2(x) = 0
<1>1. CASE x = 0
  <2>1. Bits(x - 1) = 0 .. INT_BITS - 1
    <3>1. ASSUME NEW p \in Nat \ {0} PROVE ((-1) \div p) % 2 = 1
      <4>1. (-1) \div p = -1
        OBVIOUS
      <4>. QED BY <4>1
    <3>2. \A b \in 0 .. INT_BITS - 1 : Pow2[b] \in Nat \ {0}
      BY Pow2Facts, WidthTypes
    <3>. QED BY <1>1, <3>1, <3>2 DEF Bits
  <2>2. ASSUME NEW B, B = 0 .. INT_BITS - 1, NEW k \in {1, 2, 4, 8, 16}
        PROVE  Smear(B, k) = 0 .. INT_BITS - 1
    <3>1. INT_BITS \in Nat
      BY WidthTypes
    <3>2. {b - k : b \in B} \intersect Nat \subseteq 0 .. INT_BITS - 1
      BY <2>2, <3>1
    <3>3. (INT_BITS - k .. INT_BITS - 1) \intersect Nat \subseteq 0 .. INT_BITS - 1
      BY <3>1
    <3>. QED BY <2>2, <3>2, <3>3 DEF Smear
  <2>3. AllBelow(0 .. INT_BITS - 1) = 0 .. INT_BITS - 1
    <3>. DEFINE B == 0 .. INT_BITS - 1
    <3>1. /\ Smear(B, 1) = B /\ Smear(B, 2) = B /\ Smear(B, 4) = B
          /\ Smear(B, 8) = B /\ Smear(B, 16) = B
      BY <2>2
    <3>. HIDE DEF B
    <3>2. AllBelow(B) = B
      BY <3>1 DEF AllBelow
    <3>. QED BY <3>2 DEF B
  <2>4. closest_power_of_2(x) = 0
    <3>1. INT_BITS \in 0 .. INT_BITS
      BY WidthTypes
    <3>2. x < Pow2[INT_BITS - 1]
      BY <1>1, IntRange
    <3>. QED BY <2>1, <2>3, <3>1, <3>2, RoundedUpIs
  <2>. QED BY <1>1, <2>4, IntRange
<1>2. CASE x \in Pow2[INT_BITS - 1] .. Pow2[INT_BITS] - 1
  <2>1. /\ x \in 0 .. Pow2[INT_BITS] - 1 /\ x < Pow2[INT_BITS]
        /\ ~ (x < Pow2[INT_BITS - 1]) /\ x - Pow2[INT_BITS] < 0
    BY <1>2, IntRange
  <2>2. ToUnsigned(x, INT_BITS) = x
    BY <2>1, WidthTypes, FitsUnsigned
  <2>3. ToInt(x) < 0
    BY <2>1, <2>2 DEF ToInt, ToSigned
  <2>4. closest_power_of_2(x) = 0
    BY <2>1, <2>2, <2>3 DEF closest_power_of_2, RoundedUp
  <2>5. x > Pow2[INT_BITS - 2]
    BY <1>2, IntRange
  <2>. QED BY <1>2, <2>4, <2>5, IntRange
<1>3. CASE x \in 1 .. Pow2[INT_BITS - 2]
  <2>1. x < Pow2[INT_BITS - 1] /\ x # 0 /\ x \in Nat
    BY <1>3, IntRange
  <2>2. \E m \in 0 .. INT_BITS - 2 :
          /\ closest_power_of_2(x) = Pow2[m]
          /\ x <= Pow2[m] /\ Pow2[m] <= 2 * x - 1
          /\ \A k \in Nat : x <= Pow2[k] => m <= k
    <3>1. CASE x = 1
      <4>1. Bits(0) = {}
        <5>1. ASSUME NEW b \in 0 .. INT_BITS - 1 PROVE (0 \div Pow2[b]) % 2 = 0
          <6>1. Pow2[b] \in Nat \ {0}
            BY Pow2Facts, WidthTypes
          <6>. QED BY <6>1
        <5>. QED BY <5>1 DEF Bits
      <4>2. \A k : Smear({}, k) = {}
        BY DEF Smear
      <4>3. AllBelow({}) = {}
        BY <4>2 DEF AllBelow
      <4>4. 0 .. 0 - 1 = {} /\ 0 \in 0 .. INT_BITS /\ 0 < INT_BITS - 1 /\ 0 \in 0 .. INT_BITS - 2
        BY IntAssumption
      <4>5. closest_power_of_2(x) = Pow2[0]
        BY <2>1, <3>1, <4>1, <4>3, <4>4, RoundedUpIs, 1 - 1 = 0
      <4>. QED BY <3>1, <4>4, <4>5, Pow2Facts
    <3>2. CASE x # 1
      <4>. DEFINE y == x - 1
      <4>1. y \in Nat \ {0} /\ y < Pow2[INT_BITS - 2] /\ y < x /\ x = y + 1
        BY <1>3, <3>2, IntRange
      <4>. HIDE DEF y
      <4>2. PICK n \in 0 .. (INT_BITS - 2) - 1 : Pow2[n] <= y /\ y < Pow2[n + 1]
        BY <4>1, WidthTypes, Bracketed
      <4>3. /\ n \in Nat /\ n \in 0 .. INT_BITS - 1 /\ n \in 0 .. INT_BITS - 2
            /\ n + 1 \in 0 .. INT_BITS /\ n + 1 < INT_BITS - 1 /\ n + 1 \in 0 .. INT_BITS - 2
            /\ 0 .. n = 0 .. (n + 1) - 1
        BY WidthTypes
      <4>4. n \in Bits(y) /\ Bits(y) \subseteq 0 .. n
        BY <4>1, <4>2, <4>3, TopBit
      <4>5. AllBelow(Bits(y)) = 0 .. (n + 1) - 1
        BY <4>3, <4>4, AllBelowFills
      <4>6. closest_power_of_2(x) = Pow2[n + 1]
        BY <2>1, <4>3, <4>5, RoundedUpIs DEF y
      <4>7. Pow2[n] \in Nat /\ Pow2[n + 1] = 2 * Pow2[n]
        BY <4>3, Pow2Facts
      <4>8. x <= Pow2[n + 1] /\ Pow2[n + 1] <= 2 * x - 1 /\ Pow2[n] < x
        BY <4>1, <4>2, <4>7
      <4>9. ASSUME NEW k \in Nat, x <= Pow2[k] PROVE n + 1 <= k
        <5>1. Pow2[k] \in Nat
          BY Pow2Facts
        <5>2. Pow2[n] < Pow2[k]
          BY <4>7, <4>8, <4>9, <5>1
        <5>. QED BY <4>3, <5>2, Pow2Order
      <4>. QED BY <4>3, <4>6, <4>8, <4>9
    <3>. QED BY <3>1, <3>2
  <2>3. ~ (x \in Pow2[INT_BITS - 1] .. Pow2[INT_BITS] - 1)
    BY <2>1, IntRange
  <2>. QED BY <2>1, <2>2, <2>3
<1>. QED
  BY <1>1, <1>2, <1>3

-----------------------------------------------------------------------------
(* check_work_parameters *)

\* A launch whose groups are counted without loss, and a device.
ProperLaunch(p) ==
  /\ p.work_dim \in Nat
  /\ p.global \in Seq(Nat) /\ Len(p.global) = p.work_dim
  /\ p.local \in Seq(Nat) /\ (p.local = NoLocal \/ Len(p.local) = p.work_dim)
  /\ LaunchFits(p)

ProperDevice(d) ==
  /\ d.address_bits \in Nat /\ d.max_work_group_size \in Nat \ {0}
  /\ d.work_items_for_dims \in Seq(Nat \ {0}) /\ Len(d.work_items_for_dims) = 3

\* A conversion to a signed type never makes more of a number.
LEMMA SignedBelow ==
  ASSUME NEW bits \in Nat \ {0}, NEW x \in Nat
  PROVE  ToSigned(x, bits) \in Int /\ ToSigned(x, bits) <= x
<1>1. Pow2[bits] \in Nat \ {0}
  BY Pow2Facts
<1>2. x % Pow2[bits] \in Nat /\ x % Pow2[bits] <= x
  <2>. DEFINE P == Pow2[bits]
  <2>1. P \in Nat \ {0}
    BY <1>1
  <2>. HIDE DEF P
  <2>2. x % P \in Nat /\ x % P <= x
    BY <2>1
  <2>. QED BY <2>2 DEF P
<1>. DEFINE u == x % Pow2[bits]
<1>3. ToSigned(x, bits) \in {u, u - Pow2[bits]}
  BY DEF ToSigned, ToUnsigned
<1>. HIDE DEF u
<1>. QED
  BY <1>1, <1>2, <1>3 DEF u

\* The shift gives the device's range or, when it overflows, something less.
LEMMA RangeFacts ==
  ASSUME NEW d, ProperDevice(d)
  PROVE  /\ Pow2[d.address_bits] \in Nat
         /\ \A r \in ShiftedOne(d.address_bits) : r \in Int /\ r <= Pow2[d.address_bits]
         /\ RangeFits(d) => ShiftedOne(d.address_bits) = {Pow2[d.address_bits]}
<1>. DEFINE n == d.address_bits
<1>1. n \in Nat /\ LL_BITS \in Nat \ {0} /\ LL_BITS - 1 \in Nat
  BY WidthTypes DEF ProperDevice
<1>. HIDE DEF n
<1>2. Pow2[n] \in Nat \ {0}
  BY <1>1, Pow2Facts
<1>3. ASSUME n <= LL_BITS - 2 PROVE ShiftedOne(n) = {Pow2[n]}
  <2>1. n < LL_BITS - 1 /\ n < LL_BITS
    BY <1>1, <1>3
  <2>2. 2 * Pow2[n] <= Pow2[LL_BITS - 1]
    BY <1>1, <2>1, Pow2Order
  <2>3. Pow2[n] < Pow2[LL_BITS - 1]
    BY <1>2, <2>2, LongRange
  <2>4. ToSigned(Pow2[n], LL_BITS) = Pow2[n]
    BY <1>2, <2>3, WidthTypes, FitsSigned
  <2>. QED BY <2>1, <2>4 DEF ShiftedOne
<1>4. ASSUME NEW r \in ShiftedOne(n) PROVE r \in Int /\ r <= Pow2[n]
  <2>1. CASE n < LL_BITS
    <3>1. r = ToSigned(Pow2[n], LL_BITS)
      BY <1>4, <2>1 DEF ShiftedOne
    <3>. QED BY <1>1, <1>2, <3>1, SignedBelow
  <2>2. CASE ~ (n < LL_BITS)
    <3>. DEFINE k == n % LL_BITS
    <3>1. k \in Nat /\ k <= n
      BY <1>1, <2>2
    <3>2. r = 0 \/ r = ToSigned(Pow2[k], LL_BITS)
      BY <1>4, <2>2 DEF ShiftedOne
    <3>. HIDE DEF k
    <3>3. Pow2[k] \in Nat /\ Pow2[k] <= Pow2[n]
      BY <1>1, <3>1, Pow2Facts, Pow2Order
    <3>4. ToSigned(Pow2[k], LL_BITS) \in Int /\ ToSigned(Pow2[k], LL_BITS) <= Pow2[k]
      BY <1>1, <3>3, SignedBelow
    <3>. DEFINE v == ToSigned(Pow2[k], LL_BITS)
    <3>5. v \in Int /\ v <= Pow2[k] /\ (r = 0 \/ r = v)
      BY <3>2, <3>4
    <3>. HIDE DEF v
    <3>. QED BY <1>2, <3>3, <3>5
  <2>. QED BY <2>1, <2>2
<1>. QED
  BY <1>2, <1>3, <1>4 DEF n, RangeFits

LEMMA ProductFits ==
  ASSUME NEW s \in Seq(Nat), Product(s) < Pow2[LL_BITS - 1]
  PROVE  /\ ProductLL(s) = Product(s)
         /\ \A size \in Nat : ExceedsSize(ProductLL(s), size) <=> Product(s) > size
<1>1. Product(s) \in Nat
  BY ProductFacts
<1>2. ProductLL(s) = Product(s)
  BY <1>1, WidthTypes, FitsSigned DEF ProductLL
<1>3. Product(s) < Pow2[LL_BITS]
  BY <1>1, LongRange
<1>4. ToUnsigned(Product(s), LL_BITS) = Product(s)
  BY <1>1, <1>3, WidthTypes, FitsUnsigned
<1>. QED
  BY <1>2, <1>4 DEF ExceedsSize

\* The range as the check sees it: it is exact until the product wraps, and what it lets through
\* is beyond the driver's range on the edges only.
LEMMA RangeOfLaunch ==
  ASSUME NEW p, ProperLaunch(p), NEW d, ProperDevice(d),
         RangeHolds(p, d) \/ Product(p.global) >= Pow2[LL_BITS - 1]
  PROVE  GlobalsInRange(p, d) \/ Overlooked(p, d)
<1>. DEFINE P == Pow2[d.address_bits]
<1>1. SUFFICES ASSUME ~ Overlooked(p, d), NEW i \in Dims(p)
               PROVE  p.global[i] \in 1 .. P - 1
  BY DEF GlobalsInRange
<1>2. P \in Nat
  BY RangeFacts
<1>3. p.global \in Seq(Nat) /\ \A j \in 1 .. Len(p.global) : p.global[j] # 0 /\ p.global[j] # P
  BY <1>1 DEF ProperLaunch, Overlooked, Dims
<1>4. p.global \in Seq(Nat \ {0})
  BY <1>3
<1>5. i \in 1 .. Len(p.global)
  BY <1>1 DEF ProperLaunch, Dims
<1>6. Product(p.global) <= P
  BY <1>1 DEF Overlooked, RangeHolds
<1>7. p.global[i] <= Product(p.global)
  BY <1>4, <1>5, FactorBelowProduct
<1>8. Product(p.global) \in Nat
  BY <1>3, ProductFacts
<1>9. p.global[i] \in Nat \ {0} /\ p.global[i] # P
  BY <1>3, <1>4, <1>5
<1>. HIDE DEF P
<1>. QED BY <1>2, <1>6, <1>7, <1>8, <1>9

\* For any widths, while groups are counted without loss: the limits hold of what the check
\* accepts, and the driver's range too, but for the edges it overlooks; and when the shift does
\* not overflow, what is within the limits and the program's range is accepted, and what is beyond
\* that range without wrapping is refused, whether the driver would run it or not.
THEOREM CheckAgainstDriver ==
  ASSUME NEW p, ProperLaunch(p), NEW d, ProperDevice(d), NEW limit \in Nat \ {0}
  PROVE  /\ "accepted" \in check_work_parameters(p, d, limit) =>
              LimitsHold(p, d, limit) /\ (GlobalsInRange(p, d) \/ Overlooked(p, d))
         /\ RangeFits(d) /\ LimitsHold(p, d, limit) /\ RangeHolds(p, d) =>
              check_work_parameters(p, d, limit) = {"accepted"}
         /\ RangeFits(d) /\ LimitsHold(p, d, limit) /\ ~ RangeHolds(p, d)
              /\ Product(p.global) < Pow2[LL_BITS - 1] =>
              check_work_parameters(p, d, limit) = {"refused"}
<1>1. /\ Pow2[d.address_bits] \in Nat
      /\ \A r \in ShiftedOne(d.address_bits) : r \in Int /\ r <= Pow2[d.address_bits]
      /\ RangeFits(d) => ShiftedOne(d.address_bits) = {Pow2[d.address_bits]}
  BY RangeFacts
<1>2. /\ Product(p.global) \in Nat /\ Product(p.local) \in Nat
      /\ LocalTooBig(p, d, limit) <=> Product(p.local) > d.max_work_group_size
                                      \/ Product(p.local) > limit
  BY ProductFits, ProductFacts DEF ProperLaunch, LaunchFits, ProperDevice, LocalTooBig
<1>3. p.local = NoLocal => Product(p.local) = 1
  BY ProductFacts DEF ProperLaunch, NoLocal
<1>. DEFINE range == RangeHolds(p, d)
            wraps == Product(p.global) >= Pow2[LL_BITS - 1]
            group == Product(p.local) <= d.max_work_group_size /\ Product(p.local) <= limit
            last == {IF ProductLL(p.global) > r \/ LocalTooBig(p, d, limit)
                       THEN "refused" ELSE "accepted" : r \in ShiftedOne(d.address_bits)}
<1>4. /\ "accepted" \in last => (range \/ wraps) /\ group
      /\ RangeFits(d) /\ range /\ group => last = {"accepted"}
      /\ RangeFits(d) /\ ~ range /\ ~ wraps => last = {"refused"}
  <2>1. group <=> ~ LocalTooBig(p, d, limit)
    BY <1>2 DEF ProperDevice
  <2>2. ~ wraps => ProductLL(p.global) = Product(p.global)
    <3>1. Pow2[LL_BITS - 1] \in Nat
      BY LongRange
    <3>2. ~ wraps => Product(p.global) < Pow2[LL_BITS - 1]
      BY <1>2, <3>1
    <3>. QED BY <3>2, ProductFits DEF ProperLaunch
  <2>3. ASSUME NEW r \in ShiftedOne(d.address_bits), ~ (ProductLL(p.global) > r), ~ wraps
        PROVE  range
    <3>. DEFINE P == Pow2[d.address_bits]
                x == Product(p.global)
    <3>1. r \in Int /\ r <= P /\ P \in Nat /\ x \in Nat
      BY <1>1, <1>2
    <3>2. ~ (x > r)
      BY <2>2, <2>3
    <3>3. range <=> x <= P
      BY DEF RangeHolds
    <3>. HIDE DEF P, x, range
    <3>. QED BY <3>1, <3>2, <3>3
  <2>4. RangeFits(d) /\ range => ~ wraps
    <3>. SUFFICES ASSUME RangeFits(d), range PROVE ~ wraps
      OBVIOUS
    <3>. DEFINE n == d.address_bits
    <3>1. n \in Nat /\ n <= LL_BITS - 2
      BY DEF ProperDevice, RangeFits
    <3>2. LL_BITS - 1 \in Nat /\ n < LL_BITS - 1
      BY <3>1, WidthTypes
    <3>. HIDE DEF n
    <3>3. 2 * Pow2[n] <= Pow2[LL_BITS - 1] /\ Pow2[n] \in Nat \ {0}
      BY <3>1, <3>2, Pow2Order, Pow2Facts
    <3>4. Product(p.global) <= Pow2[n]
      BY DEF RangeHolds, n
    <3>5. Pow2[LL_BITS - 1] \in Nat
      BY LongRange
    <3>. QED BY <1>2, <3>3, <3>4, <3>5
  <2>5. ~ wraps => (ProductLL(p.global) > Pow2[d.address_bits] <=> ~ range)
    BY <1>1, <1>2, <2>2 DEF RangeHolds
  <2>. HIDE DEF range, group, wraps
  <2>6. ASSUME "accepted" \in last PROVE (range \/ wraps) /\ group
    <3>1. PICK r \in ShiftedOne(d.address_bits) :
                 ~ (ProductLL(p.global) > r \/ LocalTooBig(p, d, limit))
      BY <2>6
    <3>. QED BY <2>1, <2>3, <3>1
  <2>7. ASSUME RangeFits(d), range, group PROVE last = {"accepted"}
    BY <1>1, <2>1, <2>4, <2>5, <2>7
  <2>8. ASSUME RangeFits(d), ~ range, ~ wraps PROVE last = {"refused"}
    BY <1>1, <2>5, <2>8
  <2>. QED BY <2>6, <2>7, <2>8
<1>5. range \/ wraps => GlobalsInRange(p, d) \/ Overlooked(p, d)
  BY RangeOfLaunch
<1>6. ~ wraps <=> Product(p.global) < Pow2[LL_BITS - 1]
  BY <1>2, LongRange
<1>. HIDE DEF last
<1>7. CASE p.work_dim \notin 1 .. 3
  BY <1>7 DEF LimitsHold, check_work_parameters
<1>8. CASE p.work_dim \in 1 .. 3 /\ p.local = NoLocal
  <2>1. group
    BY <1>2, <1>3, <1>8 DEF ProperDevice
  <2>2. LimitsHold(p, d, limit)
    BY <1>8 DEF LimitsHold
  <2>3. check_work_parameters(p, d, limit) = last
    BY <1>8 DEF check_work_parameters, last
  <2>. HIDE DEF range, group, wraps
  <2>. QED BY <1>4, <1>5, <1>6, <2>1, <2>2, <2>3 DEF range
<1>9. CASE p.work_dim \in 1 .. 3 /\ p.local # NoLocal
  <2>. DEFINE zero == \E i \in Dims(p) : p.local[i] = 0
              bad == \E i \in Dims(p) : \/ p.local[i] > d.work_items_for_dims[i]
                                        \/ p.global[i] % p.local[i] # 0
  <2>1. check_work_parameters(p, d, limit) =
          IF zero THEN {"crashed"} ELSE IF bad THEN {"refused"} ELSE last
    BY <1>9 DEF check_work_parameters, last
  <2>2. \A i \in Dims(p) : p.local[i] \in Nat /\ d.work_items_for_dims[i] \in Nat
    <3>1. p.local \in Seq(Nat) /\ Len(p.local) = p.work_dim /\ p.work_dim \in 1 .. 3
      BY <1>9 DEF ProperLaunch
    <3>2. d.work_items_for_dims \in Seq(Nat) /\ Len(d.work_items_for_dims) = 3
      BY DEF ProperDevice
    <3>3. ASSUME NEW i \in Dims(p)
          PROVE  p.local[i] \in Nat /\ d.work_items_for_dims[i] \in Nat
      <4>1. i \in 1 .. Len(p.local) /\ i \in 1 .. Len(d.work_items_for_dims)
        BY <3>1, <3>2 DEF Dims
      <4>2. p.local[i] \in Nat
        BY <3>1, <4>1
      <4>3. d.work_items_for_dims[i] \in Nat
        BY <3>2, <4>1
      <4>. QED BY <4>2, <4>3
    <3>. QED BY <3>3
  <2>3. (\A i \in Dims(p) : /\ p.local[i] \in 1 .. d.work_items_for_dims[i]
                            /\ p.global[i] % p.local[i] = 0) <=> ~ zero /\ ~ bad
    BY <2>2
  <2>4. LimitsHold(p, d, limit) <=> group /\ ~ zero /\ ~ bad
    BY <1>9, <2>3 DEF LimitsHold
  <2>. HIDE DEF range, group, zero, bad, wraps
  <2>. QED BY <1>4, <1>5, <1>6, <2>1, <2>4 DEF range
<1>. QED
  BY <1>7, <1>8, <1>9

-----------------------------------------------------------------------------
(* The loop of work_sizes *)

\* After some turns on sizes F0 and S0, the longer one first, f and s are left: they were halved
\* as often, or f once more, or s is gone because F0 is more than twice M times as long as S0.
Halving(F0, S0, M, f, s, firsts_turn) ==
  \/ s = 0 /\ F0 > 2 * S0 * M
  \/ /\ f \in Powers /\ s \in Powers
     /\ \E c \in Nat \ {0} : s * c = S0 /\ (IF firsts_turn THEN f * c = F0 ELSE 2 * f * c = F0)

LongestFirst(A, B, M, a, b, turn) ==
  IF A > B THEN Halving(A, B, M, a, b, turn) ELSE Halving(B, A, M, b, a, ~turn)

LEMMA HalvingStep ==
  ASSUME NEW F0 \in Nat \ {0}, NEW S0 \in Nat \ {0}, S0 <= F0, NEW M \in Nat \ {0},
         NEW f \in Nat, NEW s \in Nat, f * s > M
  PROVE  /\ Halving(F0, S0, M, f, s, TRUE) => Halving(F0, S0, M, f \div 2, s, FALSE)
         /\ Halving(F0, S0, M, f, s, FALSE) => Halving(F0, S0, M, f, s \div 2, TRUE)
<1>1. s # 0 /\ f # 0 /\ f * s # 1
  OBVIOUS
<1>2. ASSUME Halving(F0, S0, M, f, s, TRUE)
      PROVE  Halving(F0, S0, M, f \div 2, s, FALSE)
  <2>1. PICK c \in Nat \ {0} : s * c = S0 /\ f * c = F0 /\ f \in Powers /\ s \in Powers
    BY <1>1, <1>2 DEF Halving
  \* The longer one is not down to 1 yet: then the shorter one would be too.
  <2>2. f # 1
    <3>. SUFFICES ASSUME f = 1 PROVE FALSE
      OBVIOUS
    <3>1. F0 = c
      BY <2>1
    <3>2. s * c <= c
      BY <2>1, <3>1
    <3>3. s <= 1
      BY <2>1, <3>2
    <3>. QED BY <1>1, <3>3
  <2>3. PICK g \in Powers : f = 2 * g
    BY <2>1, <2>2, PowersFacts
  <2>4. g \in Nat /\ f \div 2 = g
    BY <2>3, PowersFacts
  <2>5. 2 * g * c = F0
    BY <2>1, <2>3
  <2>. QED BY <2>1, <2>3, <2>4, <2>5 DEF Halving
<1>3. ASSUME Halving(F0, S0, M, f, s, FALSE)
      PROVE  Halving(F0, S0, M, f, s \div 2, TRUE)
  <2>1. PICK c \in Nat \ {0} : s * c = S0 /\ 2 * f * c = F0 /\ f \in Powers /\ s \in Powers
    BY <1>1, <1>3 DEF Halving
  <2>2. CASE s = 1
    <3>1. S0 = c /\ f > M /\ s \div 2 = 0
      BY <2>1, <2>2
    <3>2. 2 * S0 * M < 2 * S0 * f
      BY <3>1
    <3>3. 2 * S0 * f = F0
      BY <2>1, <3>1
    <3>. QED BY <3>1, <3>2, <3>3 DEF Halving
  <2>3. CASE s # 1
    <3>1. PICK g \in Powers : s = 2 * g
      BY <2>1, <2>3, PowersFacts
    <3>2. g \in Nat /\ s \div 2 = g
      BY <3>1, PowersFacts
    <3>3. g * (2 * c) = S0 /\ f * (2 * c) = F0 /\ 2 * c \in Nat \ {0}
      BY <2>1, <3>1, <3>2
    <3>. QED BY <2>1, <3>1, <3>2, <3>3 DEF Halving
  <2>. QED BY <2>2, <2>3
<1>. QED
  BY <1>2, <1>3

LEMMA HalvingEnd ==
  ASSUME NEW F0 \in Nat \ {0}, NEW S0 \in Nat \ {0}, NEW M \in Nat \ {0},
         NEW f \in Nat, NEW s \in Nat, f * s <= M, NEW turn \in BOOLEAN,
         Halving(F0, S0, M, f, s, turn)
  PROVE  /\ f = 0 \/ s = 0 <=> F0 > 2 * S0 * M
         /\ s # 0 => f \in Powers /\ s \in Powers
<1>1. CASE s = 0 /\ F0 > 2 * S0 * M
  BY <1>1
<1>2. CASE \E c \in Nat \ {0} : /\ s * c = S0 /\ f \in Powers /\ s \in Powers
                                /\ (IF turn THEN f * c = F0 ELSE 2 * f * c = F0)
  <2>1. PICK c \in Nat \ {0} : /\ s * c = S0 /\ f \in Powers /\ s \in Powers
                               /\ (IF turn THEN f * c = F0 ELSE 2 * f * c = F0)
    BY <1>2
  <2>2. s >= 1 /\ f >= 1
    BY <2>1, PowersFacts
  <2>3. c <= S0 /\ f <= M
    <3>1. c <= s * c
      BY <2>2
    <3>2. f <= f * s
      BY <2>2
    <3>. QED BY <2>1, <3>1, <3>2
  <2>4. F0 <= 2 * (f * c)
    <3>1. f * c \in Nat /\ 2 * f * c = 2 * (f * c)
      OBVIOUS
    <3>. QED BY <2>1, <3>1
  <2>5. f * c <= S0 * M
    <3>1. f * c <= M * c
      BY <2>3
    <3>2. M * c <= M * S0
      BY <2>3
    <3>3. M * S0 = S0 * M /\ f * c \in Nat /\ M * c \in Nat /\ S0 * M \in Nat
      OBVIOUS
    <3>. QED BY <3>1, <3>2, <3>3
  <2>6. F0 <= 2 * S0 * M
    <3>1. 2 * S0 * M = 2 * (S0 * M) /\ S0 * M \in Nat /\ f * c \in Nat
      OBVIOUS
    <3>. QED BY <2>4, <2>5, <3>1
  <2>. QED BY <2>1, <2>2, <2>6
<1>. QED
  BY <1>1, <1>2 DEF Halving

-----------------------------------------------------------------------------
(* The inductive invariant *)

\* FittingSides that are rounded up to a power of two; the other ones that fit become zero.
Rounded == 1 .. Pow2[INT_BITS - 2]

\* The first sizes of the loop.
LocalW == LocalSize(w, device.work_items_for_dims[1])
LocalH == LocalSize(h, device.work_items_for_dims[2])

PlaceInv ==
  /\ device \in Devices /\ true_limit \in KernelLimits
  /\ host_pc # "create_kernel" => max_work_group_size = true_limit
  /\ \/ w = NoSide /\ host_pc \in {"create_kernel", "choose"}
     \/ w = NoSide /\ host_pc \in {"execute", "checked"} /\ launch \in Launches
     \/ w \in Widths /\ h \in Heights /\ host_pc \in {"round", "halve", "threw"}
     \/ /\ w \in Widths /\ h \in Heights /\ host_pc \in {"execute", "checked"}
        /\ launch = [work_dim |-> 2, global |-> global_work_size, local |-> local_work_size]

VerdictInv ==
  \/ verdict = "none" /\ host_pc # "checked"
  \/ host_pc = "checked" /\ verdict \in check_work_parameters(launch, device, true_limit)

SizesInv ==
  Pictured /\ host_pc # "round" =>
    /\ global_work_size = <<closest_power_of_2(w), closest_power_of_2(h)>>
    /\ local_work_size \in Seq(Nat) /\ Len(local_work_size) = 2
    /\ local_work_size[1] <= LocalW /\ local_work_size[2] <= LocalH
    /\ div_w \in BOOLEAN
    /\ w \in Rounded /\ h \in Rounded =>
         LongestFirst(LocalW, LocalH, max_local, local_work_size[1], local_work_size[2], div_w)

\* How the loop ended.
ReturnInv ==
  Pictured /\ host_pc \in {"threw", "execute", "checked"} =>
    /\ ~ TooMany
    /\ host_pc = "threw" <=> Nonstandard

WorkInv == PlaceInv /\ VerdictInv /\ SizesInv /\ ReturnInv

-----------------------------------------------------------------------------
(* The first sizes *)

LEMMA MinMaxOfPair ==
  ASSUME NEW a \in Nat, NEW b \in Nat
  PROVE  /\ Min({a, b}) = IF a <= b THEN a ELSE b
         /\ Max({a, b}) = IF a >= b THEN a ELSE b
<1>. DEFINE least == IF a <= b THEN a ELSE b
            most == IF a >= b THEN a ELSE b
<1>1. least \in {a, b} /\ \A y \in {a, b} : least <= y
  OBVIOUS
<1>2. most \in {a, b} /\ \A y \in {a, b} : most >= y
  OBVIOUS
<1>3. Min({a, b}) \in {a, b} /\ \A y \in {a, b} : Min({a, b}) <= y
  BY <1>1 DEF Min
<1>4. Max({a, b}) \in {a, b} /\ \A y \in {a, b} : Max({a, b}) >= y
  BY <1>2 DEF Max
<1>. HIDE DEF least, most
<1>5. Min({a, b}) \in Nat /\ Max({a, b}) \in Nat /\ least \in Nat /\ most \in Nat
  BY <1>1, <1>2, <1>3, <1>4
<1>6. Min({a, b}) = least
  BY <1>1, <1>3, <1>5
<1>7. Max({a, b}) = most
  BY <1>2, <1>4, <1>5
<1>. QED
  BY <1>6, <1>7 DEF least, most

\* What a side is rounded up to.
LEMMA RoundedSide ==
  ASSUME NEW x \in Rounded
  PROVE  \E m \in 0 .. INT_BITS - 2 :
           /\ closest_power_of_2(x) = Pow2[m] /\ Pow2[m] \in Nat \ {0}
           /\ x <= Pow2[m] /\ Pow2[m] <= 2 * x - 1
           /\ \A k \in Nat : x <= Pow2[k] => m <= k
<1>1. x \in Nat /\ x \in 1 .. Pow2[INT_BITS - 2]
  BY IntRange DEF Rounded
<1>2. PICK m \in 0 .. INT_BITS - 2 :
           /\ closest_power_of_2(x) = Pow2[m]
           /\ x <= Pow2[m] /\ Pow2[m] <= 2 * x - 1
           /\ \A k \in Nat : x <= Pow2[k] => m <= k
  BY <1>1, ClosestIsLeastPower
<1>3. m \in Nat
  BY WidthTypes
<1>. QED
  BY <1>2, <1>3, Pow2Facts

LEMMA UnroundedSide ==
  ASSUME NEW x \in FittingSides \ Rounded
  PROVE  /\ closest_power_of_2(x) = 0
         /\ x = 0 \/ x >= Pow2[INT_BITS - 1]
<1>1. x \in Nat /\ (x = 0 \/ x \in Pow2[INT_BITS - 1] .. Pow2[INT_BITS] - 1)
  BY IntRange DEF FittingSides, Rounded
<1>. QED
  BY <1>1, IntRange, ClosestIsLeastPower

\* LeastPower is that power.
LEMMA LeastPowerIs ==
  ASSUME NEW x \in Rounded
  PROVE  LeastPower(x) = closest_power_of_2(x)
<1>1. PICK m \in 0 .. INT_BITS - 2 :
           /\ closest_power_of_2(x) = Pow2[m] /\ Pow2[m] \in Nat \ {0}
           /\ x <= Pow2[m] /\ Pow2[m] <= 2 * x - 1
           /\ \A k \in Nat : x <= Pow2[k] => m <= k
  BY RoundedSide
<1>. DEFINE S == {Pow2[k] : k \in {j \in 0 .. INT_BITS : Pow2[j] >= x}}
<1>2. x \in Nat /\ INT_BITS \in Nat /\ m \in Nat /\ m \in 0 .. INT_BITS
  BY IntRange, WidthTypes DEF Rounded
<1>3. Pow2[m] \in S
  BY <1>1, <1>2
<1>4. ASSUME NEW y \in S PROVE Pow2[m] <= y /\ y \in Nat
  <2>1. PICK k \in 0 .. INT_BITS : Pow2[k] >= x /\ y = Pow2[k]
    OBVIOUS
  <2>2. k \in Nat /\ Pow2[k] \in Nat
    BY <1>2, Pow2Facts
  <2>3. m <= k
    BY <1>1, <1>2, <2>1, <2>2
  <2>. QED BY <1>2, <2>1, <2>2, <2>3, Pow2Order
<1>. HIDE DEF S
<1>5. Min(S) \in S /\ \A y \in S : Min(S) <= y
  BY <1>3, <1>4 DEF Min
<1>6. Min(S) = Pow2[m]
  BY <1>1, <1>3, <1>4, <1>5
<1>. QED
  BY <1>1, <1>6 DEF LeastPower, S

LEMMA LocalSizeFacts ==
  ASSUME NEW x \in FittingSides, NEW limit \in Powers
  PROVE  /\ closest_power_of_2(x) \in Nat
         /\ LocalSize(x, limit) \in Nat /\ LocalSize(x, limit) <= limit
         /\ x \in Rounded =>
              /\ LocalSize(x, limit) \in Powers /\ closest_power_of_2(x) \in Powers
              /\ LocalSize(x, limit) <= closest_power_of_2(x)
              /\ LocalSize(x, limit) = Min({LeastPower(x), limit})
<1>1. limit \in Nat \ {0} /\ x \in Nat
  BY PowersFacts, IntRange DEF FittingSides
<1>2. CASE x \notin Rounded
  BY <1>1, <1>2, UnroundedSide DEF LocalSize
<1>3. CASE x \in Rounded
  <2>1. PICK m \in 0 .. INT_BITS - 2 :
             /\ closest_power_of_2(x) = Pow2[m] /\ Pow2[m] \in Nat \ {0}
             /\ x <= Pow2[m] /\ Pow2[m] <= 2 * x - 1
             /\ \A k \in Nat : x <= Pow2[k] => m <= k
    BY <1>3, RoundedSide
  <2>2. PICK k \in Nat : limit = Pow2[k]
    BY DEF Powers
  <2>3. m \in Nat /\ Pow2[m] \in Powers
    BY WidthTypes DEF Powers
  <2>4. x <= limit => Pow2[m] <= limit
    <3>1. x <= limit => m <= k
      BY <2>1, <2>2
    <3>. QED BY <2>2, <2>3, <3>1, Pow2Order
  <2>5. LocalSize(x, limit) = IF x >= limit THEN limit ELSE Pow2[m]
    BY <2>1 DEF LocalSize
  <2>6. Min({LeastPower(x), limit}) = IF Pow2[m] <= limit THEN Pow2[m] ELSE limit
    BY <1>1, <1>3, <2>1, LeastPowerIs, MinMaxOfPair
  <2>. DEFINE c == Pow2[m]
  <2>7. c \in Nat \ {0} /\ c \in Powers /\ closest_power_of_2(x) = c /\ x <= c
        /\ (x <= limit => c <= limit)
    BY <2>1, <2>3, <2>4
  <2>. HIDE DEF c
  <2>8. LocalSize(x, limit) = IF x >= limit THEN limit ELSE c
    BY <2>5 DEF c
  <2>9. Min({LeastPower(x), limit}) = IF c <= limit THEN c ELSE limit
    BY <2>6 DEF c
  <2>10. LocalSize(x, limit) \in Nat /\ LocalSize(x, limit) <= limit /\ LocalSize(x, limit) \in Powers
         /\ LocalSize(x, limit) <= c
    BY <1>1, <2>7, <2>8
  <2>11. LocalSize(x, limit) = Min({LeastPower(x), limit})
    BY <1>1, <2>7, <2>8, <2>9
  <2>. QED BY <2>7, <2>10, <2>11
<1>. QED
  BY <1>2, <1>3

LEMMA PairTypes ==
  ASSUME NEW s \in Seq(Nat), Len(s) = 2
  PROVE  s[1] \in Nat /\ s[2] \in Nat
OBVIOUS

\* Sizes within the device's limits are multiplied without loss.
LEMMA DeviceFacts ==
  ASSUME DevicesFit, NEW d \in Devices
  PROVE  /\ ProperDevice(d)
         /\ d.work_items_for_dims[1] \in Powers /\ d.work_items_for_dims[2] \in Powers
         /\ \A s \in Seq(Nat) :
              Len(s) = 2 /\ s[1] <= d.work_items_for_dims[1] /\ s[2] <= d.work_items_for_dims[2] =>
                /\ Product(s) = s[1] * s[2] /\ Product(s) < Pow2[SIZE_BITS - 1]
                /\ ToUnsigned(Product(s), SIZE_BITS) = s[1] * s[2]
<1>. DEFINE m1 == d.work_items_for_dims[1]
            m2 == d.work_items_for_dims[2]
<1>1. m1 \in Powers /\ m2 \in Powers /\ m1 * m2 < Pow2[SIZE_BITS - 1]
  <2>1. PICK j \in 0 .. SIZE_BITS, k \in 0 .. SIZE_BITS :
               m1 = Pow2[j] /\ m2 = Pow2[k] /\ j + k < SIZE_BITS - 1
    BY DEF DevicesFit, DeviceFits
  <2>2. j \in Nat /\ k \in Nat /\ j + k \in Nat /\ SIZE_BITS - 1 \in Nat
    BY WidthTypes
  <2>3. m1 * m2 = Pow2[j + k] /\ 2 * Pow2[j + k] <= Pow2[SIZE_BITS - 1]
    <3>1. Pow2[j + k] = Pow2[j] * Pow2[k]
      BY <2>2, Pow2Sum
    <3>2. 2 * Pow2[j + k] <= Pow2[SIZE_BITS - 1]
      BY <2>1, <2>2, Pow2Order
    <3>. QED BY <2>1, <3>1, <3>2
  <2>4. Pow2[j + k] \in Nat \ {0} /\ Pow2[SIZE_BITS - 1] \in Nat
    BY <2>2, Pow2Facts
  <2>5. m1 \in Powers /\ m2 \in Powers
    BY <2>1, <2>2 DEF Powers
  <2>. QED BY <2>3, <2>4, <2>5
<1>2. ProperDevice(d)
  BY ParamsAssumption DEF ProperDevice
<1>3. m1 \in Nat /\ m2 \in Nat
  BY <1>1, PowersFacts
<1>. HIDE DEF m1, m2
<1>4. ASSUME NEW s \in Seq(Nat), Len(s) = 2, s[1] <= m1, s[2] <= m2
      PROVE  /\ Product(s) = s[1] * s[2] /\ Product(s) < Pow2[SIZE_BITS - 1]
             /\ ToUnsigned(Product(s), SIZE_BITS) = s[1] * s[2]
  <2>1. s[1] \in Nat /\ s[2] \in Nat
    BY <1>4, PairTypes
  <2>2. s[1] * s[2] <= m1 * m2
    <3>1. s[1] * s[2] <= m1 * s[2]
      BY <1>3, <1>4, <2>1
    <3>2. m1 * s[2] <= m1 * m2
      BY <1>3, <1>4, <2>1
    <3>3. s[1] * s[2] \in Nat /\ m1 * s[2] \in Nat /\ m1 * m2 \in Nat
      BY <1>3, <2>1
    <3>. QED BY <3>1, <3>2, <3>3
  <2>3. Product(s) = s[1] * s[2] /\ Product(s) \in Nat
    BY <1>4, ProductFacts
  <2>4. m1 * m2 \in Nat
    BY <1>3
  <2>5. Product(s) < Pow2[SIZE_BITS - 1] /\ Product(s) < Pow2[SIZE_BITS]
    BY <1>1, <2>2, <2>3, <2>4, SizeRange
  <2>. QED BY <2>3, <2>5, WidthTypes, FitsUnsigned
<1>. QED
  BY <1>1, <1>2, <1>4 DEF m1, m2

\* The sizes and limits the loop works on.
LEMMA SizesFacts ==
  ASSUME DevicesFit, PicturesFit, WorkInv, Pictured, host_pc # "round"
  PROVE  /\ w \in FittingSides /\ h \in FittingSides
         /\ max_local \in Nat \ {0}
         /\ max_local <= device.max_work_group_size /\ max_local <= true_limit
         /\ LocalW \in Nat /\ LocalH \in Nat
         /\ local_work_size[1] \in Nat /\ local_work_size[2] \in Nat
         /\ local_work_size[1] <= device.work_items_for_dims[1]
         /\ local_work_size[2] <= device.work_items_for_dims[2]
         /\ Product(local_work_size) = local_work_size[1] * local_work_size[2]
         /\ Product(local_work_size) < Pow2[SIZE_BITS - 1]
         /\ TooMany <=> local_work_size[1] * local_work_size[2] > max_local
         /\ w \in Rounded /\ h \in Rounded =>
              /\ LocalW \in Powers /\ LocalH \in Powers
              /\ LocalW \in Nat \ {0} /\ LocalH \in Nat \ {0}
<1>1. w \in Widths /\ h \in Heights /\ max_work_group_size = true_limit /\ device \in Devices
      /\ true_limit \in Nat \ {0}
  BY ParamsAssumption DEF WorkInv, PlaceInv, Pictured
<1>2. w \in FittingSides /\ h \in FittingSides
  BY <1>1 DEF PicturesFit
<1>3. /\ ProperDevice(device)
      /\ device.work_items_for_dims[1] \in Powers /\ device.work_items_for_dims[2] \in Powers
      /\ device.work_items_for_dims[1] \in Nat /\ device.work_items_for_dims[2] \in Nat
  BY <1>1, DeviceFacts, PowersFacts
<1>4. /\ max_local \in Nat \ {0}
      /\ max_local <= device.max_work_group_size /\ max_local <= true_limit
  <2>1. device.max_work_group_size \in Nat \ {0}
    BY <1>3 DEF ProperDevice
  <2>. DEFINE a == device.max_work_group_size
  <2>2. max_local = IF a <= true_limit THEN a ELSE true_limit
    BY <1>1, <2>1, MinMaxOfPair DEF max_local
  <2>. HIDE DEF a
  <2>3. a \in Nat \ {0}
    BY <2>1 DEF a
  <2>4. max_local \in Nat \ {0} /\ max_local <= a /\ max_local <= true_limit
    BY <1>1, <2>2, <2>3
  <2>. QED BY <2>4 DEF a
<1>5. /\ LocalW \in Nat /\ LocalW <= device.work_items_for_dims[1]
      /\ w \in Rounded => LocalW \in Powers
  BY <1>2, <1>3, LocalSizeFacts DEF LocalW
<1>6. /\ LocalH \in Nat /\ LocalH <= device.work_items_for_dims[2]
      /\ h \in Rounded => LocalH \in Powers
  BY <1>2, <1>3, LocalSizeFacts DEF LocalH
<1>7. /\ local_work_size \in Seq(Nat) /\ Len(local_work_size) = 2
      /\ local_work_size[1] <= LocalW /\ local_work_size[2] <= LocalH
  BY DEF WorkInv, SizesInv
<1>8. local_work_size[1] \in Nat /\ local_work_size[2] \in Nat
  BY <1>7, PairTypes
<1>9. /\ local_work_size[1] <= device.work_items_for_dims[1]
      /\ local_work_size[2] <= device.work_items_for_dims[2]
  BY <1>3, <1>5, <1>6, <1>7, <1>8
<1>10. /\ Product(local_work_size) = local_work_size[1] * local_work_size[2]
       /\ Product(local_work_size) < Pow2[SIZE_BITS - 1]
       /\ ToUnsigned(Product(local_work_size), SIZE_BITS) = local_work_size[1] * local_work_size[2]
  BY <1>1, <1>7, <1>9, DeviceFacts
<1>11. TooMany <=> local_work_size[1] * local_work_size[2] > max_local
  BY <1>10 DEF TooMany
<1>. QED
  BY <1>2, <1>4, <1>5, <1>6, <1>8, <1>9, <1>10, <1>11, PowersFacts

-----------------------------------------------------------------------------
(* The steps *)

LEMMA InitWorkInv == Init => WorkInv
BY DEF Init, WorkInv, PlaceInv, VerdictInv, SizesInv, ReturnInv, Pictured, NoSide

\* No sizes are made in a step that leaves the picture unasked for, or only asks for it.
LEMMA PlacesStep ==
  ASSUME WorkInv, CreateKernel \/ OwnSizes \/ CallWorkSizes
  PROVE  WorkInv'
<1>. USE DEF WorkInv, PlaceInv, VerdictInv, SizesInv, ReturnInv, Pictured, picture, limits
<1>1. CASE CreateKernel
  <2>1. w = NoSide /\ verdict = "none"
    BY <1>1 DEF CreateKernel
  <2>. QED BY <1>1, <2>1 DEF CreateKernel
<1>2. CASE OwnSizes
  <2>1. w = NoSide /\ verdict = "none" /\ max_work_group_size = true_limit
    BY <1>2 DEF OwnSizes
  <2>. QED BY <1>2, <2>1 DEF OwnSizes
<1>3. CASE CallWorkSizes
  <2>1. w = NoSide /\ verdict = "none" /\ max_work_group_size = true_limit
    BY <1>3 DEF CallWorkSizes
  <2>. QED BY <1>3, <2>1 DEF CallWorkSizes
<1>. QED
  BY <1>1, <1>2, <1>3

\* The two sizes at the start of the loop.
LEMMA RoundUpStep ==
  ASSUME DevicesFit, PicturesFit, WorkInv, RoundUp, UNCHANGED <<true_limit, launch, verdict>>
  PROVE  WorkInv'
<1>1. /\ w \in Widths /\ h \in Heights /\ device \in Devices /\ verdict = "none"
      /\ max_work_group_size = true_limit /\ Pictured
      /\ true_limit \in KernelLimits
  BY ParamsAssumption DEF WorkInv, PlaceInv, VerdictInv, Pictured, NoSide, RoundUp
<1>2. w \in FittingSides /\ h \in FittingSides
  BY <1>1 DEF PicturesFit
<1>3. /\ LocalW \in Nat /\ LocalH \in Nat
      /\ w \in Rounded => LocalW \in Powers
      /\ h \in Rounded => LocalH \in Powers
  BY <1>1, <1>2, DeviceFacts, LocalSizeFacts DEF LocalW, LocalH
<1>4. /\ device' = device /\ max_work_group_size' = max_work_group_size /\ w' = w /\ h' = h
      /\ true_limit' = true_limit /\ launch' = launch /\ verdict' = verdict
      /\ host_pc' = "halve"
  BY DEF RoundUp, limits
<1>5. local_work_size' = <<LocalW, LocalH>>
  BY DEF RoundUp, LocalW, LocalH
<1>6. div_w' = (LocalW > LocalH)
  BY <1>5 DEF RoundUp
<1>7. PlaceInv'
  BY <1>1, <1>4 DEF PlaceInv
<1>8. VerdictInv' /\ ReturnInv'
  BY <1>1, <1>4 DEF VerdictInv, ReturnInv
<1>9. w \in Rounded /\ h \in Rounded =>
        LongestFirst(LocalW, LocalH, max_local, LocalW, LocalH, LocalW > LocalH)
  <2>1. ASSUME NEW F \in Powers, NEW S \in Powers, NEW M
        PROVE  Halving(F, S, M, F, S, TRUE)
    <3>1. F \in Nat /\ S \in Nat /\ S * 1 = S /\ F * 1 = F /\ 1 \in Nat \ {0}
      BY PowersFacts
    <3>. QED BY <3>1 DEF Halving
  <2>. QED BY <1>3, <2>1 DEF LongestFirst
<1>10. SizesInv'
  <2>. DEFINE A == LocalW
              B == LocalH
              M == max_local
  <2>1. LocalW' = A /\ LocalH' = B /\ max_local' = M
    BY <1>4 DEF LocalW, LocalH, max_local
  <2>2. A \in Nat /\ B \in Nat
    BY <1>3
  <2>3. local_work_size' = <<A, B>> /\ div_w' = (A > B)
    BY <1>5, <1>6
  <2>4. w' \in Rounded /\ h' \in Rounded => LongestFirst(A, B, M, A, B, A > B)
    BY <1>4, <1>9
  <2>. HIDE DEF A, B, M
  <2>5. local_work_size' \in Seq(Nat) /\ Len(local_work_size') = 2
        /\ local_work_size'[1] = A /\ local_work_size'[2] = B
    BY <2>2, <2>3
  <2>6. A <= A /\ B <= B /\ div_w' \in BOOLEAN
    BY <2>2, <2>3
  <2>7. global_work_size' = <<closest_power_of_2(w'), closest_power_of_2(h')>>
    BY <1>4 DEF RoundUp
  <2>8. w' \in Rounded' /\ h' \in Rounded' =>
          LongestFirst(A, B, M, local_work_size'[1], local_work_size'[2], div_w')
    BY <2>3, <2>4, <2>5 DEF Rounded
  <2>. QED BY <2>1, <2>5, <2>6, <2>7, <2>8 DEF SizesInv, Rounded, LongestFirst, Halving
<1>. QED
  BY <1>7, <1>8, <1>10 DEF WorkInv

\* A turn of the loop.
LEMMA HalveStep ==
  ASSUME DevicesFit, PicturesFit, WorkInv, Halve, UNCHANGED <<true_limit, launch, verdict>>
  PROVE  WorkInv'
<1>1. /\ Pictured /\ verdict = "none" /\ host_pc = "halve" /\ TooMany
  BY ParamsAssumption DEF WorkInv, PlaceInv, VerdictInv, Pictured, NoSide, Halve
<1>2. /\ device' = device /\ max_work_group_size' = max_work_group_size /\ w' = w /\ h' = h
      /\ true_limit' = true_limit /\ launch' = launch /\ verdict' = verdict
      /\ host_pc' = "halve" /\ global_work_size' = global_work_size /\ div_w' = ~ div_w
  BY <1>1 DEF Halve, limits
<1>3. PlaceInv'
  BY <1>1, <1>2 DEF WorkInv, PlaceInv
<1>4. VerdictInv' /\ ReturnInv'
  BY <1>1, <1>2 DEF VerdictInv, ReturnInv
<1>5. SizesInv'
  <2>. DEFINE A == LocalW
              B == LocalH
              M == max_local
              a == local_work_size[1]
              b == local_work_size[2]
  <2>1. /\ M \in Nat \ {0} /\ A \in Nat /\ B \in Nat /\ a \in Nat /\ b \in Nat
        /\ a * b > M
        /\ w \in Rounded /\ h \in Rounded => A \in Nat \ {0} /\ B \in Nat \ {0}
    BY <1>1, SizesFacts
  <2>2. /\ global_work_size = <<closest_power_of_2(w), closest_power_of_2(h)>>
        /\ local_work_size \in Seq(Nat) /\ Len(local_work_size) = 2
        /\ a <= A /\ b <= B /\ div_w \in BOOLEAN
        /\ w \in Rounded /\ h \in Rounded => LongestFirst(A, B, M, a, b, div_w)
    BY <1>1 DEF WorkInv, SizesInv
  <2>3. LocalW' = A /\ LocalH' = B /\ max_local' = M
    BY <1>2 DEF LocalW, LocalH, max_local
  <2>. DEFINE a2 == IF div_w THEN a \div 2 ELSE a
              b2 == IF div_w THEN b ELSE b \div 2
  <2>4. /\ local_work_size' \in Seq(Nat) /\ Len(local_work_size') = 2
        /\ local_work_size'[1] = a2 /\ local_work_size'[2] = b2
    <3>1. a \div 2 \in Nat /\ b \div 2 \in Nat
      BY <2>1
    <3>. QED BY <2>2, <3>1 DEF Halve
  <2>. HIDE DEF A, B, M, a, b
  <2>5. a2 <= A /\ b2 <= B
    BY <2>1, <2>2
  <2>6. ASSUME w \in Rounded, h \in Rounded PROVE LongestFirst(A, B, M, a2, b2, ~ div_w)
    <3>1. LongestFirst(A, B, M, a, b, div_w) /\ A \in Nat \ {0} /\ B \in Nat \ {0}
      BY <2>1, <2>2, <2>6
    <3>2. CASE A > B
      <4>1. /\ Halving(A, B, M, a, b, TRUE) => Halving(A, B, M, a \div 2, b, FALSE)
            /\ Halving(A, B, M, a, b, FALSE) => Halving(A, B, M, a, b \div 2, TRUE)
        BY <2>1, <3>1, <3>2, B <= A, HalvingStep
      <4>2. Halving(A, B, M, a, b, div_w)
        BY <3>1, <3>2 DEF LongestFirst
      <4>3. CASE div_w = TRUE
        BY <3>2, <4>1, <4>2, <4>3 DEF LongestFirst
      <4>4. CASE div_w = FALSE
        BY <3>2, <4>1, <4>2, <4>4 DEF LongestFirst
      <4>. QED BY <2>2, <4>3, <4>4
    <3>3. CASE ~ (A > B)
      <4>1. b * a > M /\ A <= B
        BY <2>1, <3>1, <3>3
      <4>2. /\ Halving(B, A, M, b, a, TRUE) => Halving(B, A, M, b \div 2, a, FALSE)
            /\ Halving(B, A, M, b, a, FALSE) => Halving(B, A, M, b, a \div 2, TRUE)
        BY <2>1, <3>1, <4>1, HalvingStep
      <4>3. Halving(B, A, M, b, a, ~ div_w)
        BY <3>1, <3>3 DEF LongestFirst
      <4>4. CASE div_w = TRUE
        BY <3>3, <4>2, <4>3, <4>4 DEF LongestFirst
      <4>5. CASE div_w = FALSE
        BY <3>3, <4>2, <4>3, <4>5 DEF LongestFirst
      <4>. QED BY <2>2, <4>4, <4>5
    <3>. QED BY <3>2, <3>3
  <2>. HIDE DEF a2, b2
  <2>7. w' \in Rounded' /\ h' \in Rounded' =>
          LongestFirst(A, B, M, local_work_size'[1], local_work_size'[2], div_w')
    BY <1>2, <2>4, <2>6 DEF Rounded
  <2>8. global_work_size' = <<closest_power_of_2(w'), closest_power_of_2(h')>>
    BY <1>2, <2>2
  <2>9. div_w' \in BOOLEAN
    BY <1>2
  <2>. QED BY <2>3, <2>4, <2>5, <2>7, <2>8, <2>9 DEF SizesInv, Rounded, LongestFirst, Halving
<1>. QED
  BY <1>3, <1>4, <1>5 DEF WorkInv

\* The end of the loop, and the launch of the sizes.
LEMMA LaunchStep ==
  ASSUME WorkInv, ReturnSizes \/ Execute
  PROVE  WorkInv'
<1>1. CASE ReturnSizes
  <2>1. /\ device' = device /\ max_work_group_size' = max_work_group_size /\ w' = w /\ h' = h
        /\ true_limit' = true_limit /\ verdict' = verdict
        /\ global_work_size' = global_work_size /\ local_work_size' = local_work_size
        /\ div_w' = div_w /\ ~ TooMany /\ host_pc = "halve"
        /\ host_pc' = (IF Nonstandard THEN "threw" ELSE "execute")
    BY <1>1 DEF ReturnSizes, Return, limits
  <2>2. /\ w \in Widths /\ h \in Heights /\ verdict = "none"
    BY <2>1 DEF WorkInv, PlaceInv, VerdictInv
  <2>3. (TooMany' <=> TooMany) /\ (Nonstandard' <=> Nonstandard)
    BY <2>1 DEF TooMany, Nonstandard, max_local
  <2>4. PlaceInv'
    <3>1. ~ Nonstandard => launch' = [work_dim |-> 2, global |-> global_work_size',
                                      local |-> local_work_size']
      BY <1>1, <2>1 DEF ReturnSizes
    <3>. QED BY <2>1, <2>2, <3>1 DEF WorkInv, PlaceInv
  <2>5. VerdictInv'
    BY <2>1, <2>2 DEF VerdictInv
  <2>6. SizesInv'
    <3>1. Pictured' <=> Pictured
      BY <2>1 DEF Pictured
    <3>. QED BY <2>1, <3>1 DEF WorkInv, SizesInv, LocalW, LocalH, max_local, Rounded,
                               LongestFirst, Halving
  <2>7. ReturnInv'
    BY <2>1, <2>3 DEF ReturnInv
  <2>. QED BY <2>4, <2>5, <2>6, <2>7 DEF WorkInv
<1>2. CASE Execute
  <2>1. /\ device' = device /\ max_work_group_size' = max_work_group_size /\ w' = w /\ h' = h
        /\ true_limit' = true_limit /\ launch' = launch
        /\ global_work_size' = global_work_size /\ local_work_size' = local_work_size
        /\ div_w' = div_w /\ host_pc = "execute" /\ host_pc' = "checked"
        /\ verdict' \in check_work_parameters(launch, device, max_work_group_size)
    BY <1>2 DEF Execute, limits, picture
  <2>2. (TooMany' <=> TooMany) /\ (Nonstandard' <=> Nonstandard) /\ (Pictured' <=> Pictured)
    BY <2>1 DEF TooMany, Nonstandard, max_local, Pictured
  <2>3. PlaceInv'
    BY <2>1 DEF WorkInv, PlaceInv
  <2>4. VerdictInv'
    BY <2>1 DEF WorkInv, PlaceInv, VerdictInv
  <2>5. SizesInv'
    BY <2>1, <2>2 DEF WorkInv, SizesInv, LocalW, LocalH, max_local, Rounded, LongestFirst, Halving
  <2>6. ReturnInv'
    BY <2>1, <2>2 DEF WorkInv, ReturnInv
  <2>. QED BY <2>3, <2>4, <2>5, <2>6 DEF WorkInv
<1>. QED
  BY <1>1, <1>2

THEOREM WorkInvariance ==
  ASSUME DevicesFit, PicturesFit
  PROVE  Spec => []WorkInv
<1>1. WorkInv /\ [Next]_vars => WorkInv'
  <2>. SUFFICES ASSUME WorkInv, [Next]_vars PROVE WorkInv'
    OBVIOUS
  <2>1. CASE Next
    <3>1. CASE CreateKernel \/ OwnSizes \/ CallWorkSizes
      BY <3>1, PlacesStep
    <3>2. CASE SizesStep
      BY <3>2, RoundUpStep, HalveStep DEF SizesStep
    <3>3. CASE ReturnSizes \/ Execute
      BY <3>3, LaunchStep
    <3>4. CASE UNCHANGED vars
      BY <3>4 DEF vars, picture, limits, WorkInv, PlaceInv, VerdictInv, SizesInv, ReturnInv, Pictured,
                  LocalW, LocalH, max_local, Rounded, LongestFirst, Halving, TooMany, Nonstandard
    <3>. QED BY <2>1, <3>1, <3>2, <3>3, <3>4 DEF Next
  <2>2. CASE UNCHANGED vars
    BY <2>2 DEF vars, picture, limits, WorkInv, PlaceInv, VerdictInv, SizesInv, ReturnInv, Pictured,
                LocalW, LocalH, max_local, Rounded, LongestFirst, Halving, TooMany, Nonstandard
  <2>. QED BY <2>1, <2>2
<1>. QED
  BY <1>1, InitWorkInv, PTL DEF Spec

-----------------------------------------------------------------------------
(* What the invariant gives *)

\* FittingSides that are empty or beyond an int are rounded up to zero, which no local size is below.
LEMMA UnroundedThrows ==
  ASSUME DevicesFit, PicturesFit, WorkInv, Pictured, host_pc # "round",
         w \notin Rounded \/ h \notin Rounded
  PROVE  /\ Nonstandard
         /\ Min({w, h}) = 0 \/ Max({w, h}) >= Pow2[INT_BITS - 1]
<1>1. /\ w \in FittingSides /\ h \in FittingSides
      /\ local_work_size[1] \in Nat /\ local_work_size[2] \in Nat
      /\ global_work_size = <<closest_power_of_2(w), closest_power_of_2(h)>>
  BY SizesFacts DEF WorkInv, SizesInv
<1>2. w \in Nat /\ h \in Nat /\ Pow2[INT_BITS - 1] \in Nat \ {0}
  BY <1>1, IntRange DEF FittingSides
<1>3. ASSUME NEW i \in 1 .. 2, global_work_size[i] = 0, local_work_size[i] \in Nat
      PROVE  Nonstandard
  <2>1. 0 < local_work_size[i] \/ local_work_size[i] = 0
    BY <1>3
  <2>. QED BY <1>3, <2>1 DEF Nonstandard
<1>4. /\ Min({w, h}) = (IF w <= h THEN w ELSE h)
      /\ Max({w, h}) = (IF w >= h THEN w ELSE h)
  BY <1>2, MinMaxOfPair
<1>5. CASE w \notin Rounded
  <2>1. global_work_size[1] = 0 /\ (w = 0 \/ w >= Pow2[INT_BITS - 1])
    BY <1>1, <1>5, UnroundedSide
  <2>2. Nonstandard
    BY <1>1, <1>3, <2>1
  <2>. QED BY <1>2, <1>4, <2>1, <2>2
<1>6. CASE h \notin Rounded
  <2>1. global_work_size[2] = 0 /\ (h = 0 \/ h >= Pow2[INT_BITS - 1])
    BY <1>1, <1>6, UnroundedSide
  <2>2. Nonstandard
    BY <1>1, <1>3, <2>1
  <2>. QED BY <1>2, <1>4, <2>1, <2>2
<1>. QED
  BY <1>5, <1>6

\* After the loop, a local size is zero exactly for a thin picture, and otherwise both are powers of
\* two that divide the global ones.
LEMMA LoopEnd ==
  ASSUME DevicesFit, PicturesFit, WorkInv, Pictured, host_pc \in {"threw", "execute", "checked"},
         w \in Rounded, h \in Rounded
  PROVE  /\ Nonstandard <=> Thin
         /\ local_work_size[1] * local_work_size[2] <= max_local
         /\ ~ Nonstandard =>
              \A i \in 1 .. 2 : /\ local_work_size[i] \in Nat \ {0}
                                /\ global_work_size[i] % local_work_size[i] = 0
<1>. DEFINE A == LocalW
            B == LocalH
            M == max_local
            a == local_work_size[1]
            b == local_work_size[2]
            g == closest_power_of_2(w)
            k == closest_power_of_2(h)
<1>1. /\ w \in FittingSides /\ h \in FittingSides /\ host_pc # "round" /\ device \in Devices
      /\ global_work_size = <<g, k>>
      /\ a <= A /\ b <= B /\ div_w \in BOOLEAN /\ LongestFirst(A, B, M, a, b, div_w)
      /\ ~ TooMany
  BY SizesFacts DEF WorkInv, PlaceInv, SizesInv, ReturnInv
<1>2. /\ M \in Nat \ {0} /\ A \in Nat \ {0} /\ B \in Nat \ {0}
      /\ a \in Nat /\ b \in Nat
      /\ TooMany <=> a * b > M
  BY <1>1, SizesFacts
<1>3. /\ g \in Powers /\ A <= g
      /\ A = Min({LeastPower(w), device.work_items_for_dims[1]})
  BY <1>1, DeviceFacts, LocalSizeFacts DEF LocalW
<1>4. /\ k \in Powers /\ B <= k
      /\ B = Min({LeastPower(h), device.work_items_for_dims[2]})
  BY <1>1, DeviceFacts, LocalSizeFacts DEF LocalH
<1>5. g \in Nat \ {0} /\ k \in Nat \ {0}
  BY <1>3, <1>4, PowersFacts
<1>6. Thin <=> Max({A, B}) > 2 * Min({A, B}) * M
  BY <1>3, <1>4 DEF Thin
<1>7. /\ global_work_size[1] = g /\ global_work_size[2] = k
  BY <1>1
<1>8. Nonstandard <=> g < a \/ a = 0 \/ k < b \/ b = 0
  BY <1>7 DEF Nonstandard
<1>. HIDE DEF A, B, M, a, b, g, k
<1>9. a * b <= M
  <2>1. a * b \in Nat
    BY <1>2
  <2>. QED BY <1>1, <1>2, <2>1
<1>10. Nonstandard <=> a = 0 \/ b = 0
  BY <1>1, <1>2, <1>3, <1>4, <1>5, <1>8
<1>11. /\ a = 0 \/ b = 0 <=> Max({A, B}) > 2 * Min({A, B}) * M
       /\ a # 0 /\ b # 0 => a \in Powers /\ b \in Powers
  <2>1. CASE A > B
    <3>1. Halving(A, B, M, a, b, div_w)
      BY <1>1, <2>1 DEF LongestFirst
    <3>2. /\ a = 0 \/ b = 0 <=> A > 2 * B * M
          /\ b # 0 => a \in Powers /\ b \in Powers
      BY <1>1, <1>2, <1>9, <3>1, HalvingEnd
    <3>3. Max({A, B}) = A /\ Min({A, B}) = B
      BY <1>2, <2>1, MinMaxOfPair
    <3>. QED BY <3>2, <3>3
  <2>2. CASE ~ (A > B)
    <3>1. Halving(B, A, M, b, a, ~ div_w)
      BY <1>1, <2>2 DEF LongestFirst
    <3>2. b * a <= M /\ (~ div_w) \in BOOLEAN
      BY <1>2, <1>9
    <3>3. /\ b = 0 \/ a = 0 <=> B > 2 * A * M
          /\ a # 0 => a \in Powers /\ b \in Powers
      BY <1>2, <3>1, <3>2, HalvingEnd
    <3>4. Max({A, B}) = B /\ Min({A, B}) = A
      BY <1>2, <2>2, MinMaxOfPair
    <3>. QED BY <3>3, <3>4
  <2>. QED BY <2>1, <2>2
<1>12. ASSUME a # 0, b # 0 PROVE g % a = 0 /\ k % b = 0
  <2>1. a \in Powers /\ b \in Powers /\ a <= g /\ b <= k
    BY <1>1, <1>2, <1>3, <1>4, <1>5, <1>11, <1>12
  <2>. QED BY <1>3, <1>4, <2>1, PowersFacts
<1>13. Nonstandard <=> Thin
  BY <1>6, <1>10, <1>11
<1>14. a * b <= M /\ (~ Nonstandard => /\ a \in Nat \ {0} /\ b \in Nat \ {0}
                                       /\ g % a = 0 /\ k % b = 0)
  BY <1>2, <1>9, <1>10, <1>12
<1>. QED
  BY <1>7, <1>13, <1>14 DEF M, a, b

\* The launch of a picture, ready for the check.
LEMMA PictureLaunch ==
  ASSUME DevicesFit, PicturesFit, WorkInv, Pictured, host_pc \in {"execute", "checked"}
  PROVE  /\ w \in Rounded /\ h \in Rounded
         /\ launch = [work_dim |-> 2, global |-> global_work_size, local |-> local_work_size]
         /\ global_work_size = <<closest_power_of_2(w), closest_power_of_2(h)>>
         /\ ProperLaunch(launch) /\ LimitsHold(launch, device, true_limit)
         /\ Product(launch.global) < Pow2[LL_BITS - 1]
         /\ Product(launch.global) = LeastPower(w) * LeastPower(h)
<1>1. /\ ~ Nonstandard /\ host_pc # "round" /\ device \in Devices
      /\ launch = [work_dim |-> 2, global |-> global_work_size, local |-> local_work_size]
      /\ global_work_size = <<closest_power_of_2(w), closest_power_of_2(h)>>
      /\ local_work_size \in Seq(Nat) /\ Len(local_work_size) = 2
  BY DEF WorkInv, PlaceInv, SizesInv, ReturnInv, Pictured
<1>2. w \in Rounded /\ h \in Rounded
  BY <1>1, UnroundedThrows
<1>3. /\ local_work_size[1] * local_work_size[2] <= max_local
      /\ \A i \in 1 .. 2 : /\ local_work_size[i] \in Nat \ {0}
                           /\ global_work_size[i] % local_work_size[i] = 0
  BY <1>1, <1>2, LoopEnd
<1>4. /\ max_local \in Nat \ {0}
      /\ max_local <= device.max_work_group_size /\ max_local <= true_limit
      /\ local_work_size[1] <= device.work_items_for_dims[1]
      /\ local_work_size[2] <= device.work_items_for_dims[2]
      /\ Product(local_work_size) = local_work_size[1] * local_work_size[2]
      /\ Product(local_work_size) < Pow2[SIZE_BITS - 1]
  BY <1>1, SizesFacts
<1>5. /\ global_work_size \in Seq(Nat) /\ Len(global_work_size) = 2
      /\ Product(global_work_size) < Pow2[LL_BITS - 1]
  <2>1. PICK m \in 0 .. INT_BITS - 2 :
             closest_power_of_2(w) = Pow2[m] /\ Pow2[m] \in Nat \ {0}
    BY <1>2, RoundedSide
  <2>2. PICK n \in 0 .. INT_BITS - 2 :
             closest_power_of_2(h) = Pow2[n] /\ Pow2[n] \in Nat \ {0}
    BY <1>2, RoundedSide
  <2>3. global_work_size \in Seq(Nat) /\ Len(global_work_size) = 2
        /\ global_work_size[1] = Pow2[m] /\ global_work_size[2] = Pow2[n]
    BY <1>1, <2>1, <2>2
  <2>4. m \in Nat /\ n \in Nat /\ m + n \in Nat /\ LL_BITS - 1 \in Nat /\ m + n < LL_BITS - 1
    BY IntAssumption, WidthTypes
  <2>5. Product(global_work_size) = Pow2[m + n]
    BY <2>3, <2>4, ProductFacts, Pow2Sum
  <2>6. 2 * Pow2[m + n] <= Pow2[LL_BITS - 1]
    BY <2>4, Pow2Order
  <2>7. Pow2[m + n] \in Nat \ {0} /\ Pow2[LL_BITS - 1] \in Nat
    BY <2>4, Pow2Facts
  <2>. QED BY <2>3, <2>5, <2>6, <2>7
<1>6. ProperLaunch(launch)
  <2>1. Product(local_work_size) \in Nat /\ Product(local_work_size) < Pow2[LL_BITS - 1]
    BY <1>1, <1>4, ProductFacts, SizeRange, LongRange
  <2>. QED BY <1>1, <1>5, <2>1 DEF ProperLaunch, LaunchFits
<1>7. ProperDevice(device) /\ true_limit \in Nat \ {0}
  BY <1>1, DeviceFacts, ParamsAssumption DEF WorkInv, PlaceInv
<1>8. Product(local_work_size) <= device.max_work_group_size /\ Product(local_work_size) <= true_limit
  <2>1. Product(local_work_size) \in Nat /\ device.max_work_group_size \in Nat
    BY <1>1, <1>7, ProductFacts DEF ProperDevice
  <2>. QED BY <1>3, <1>4, <1>7, <2>1
<1>9. \A i \in 1 .. 2 : local_work_size[i] \in 1 .. device.work_items_for_dims[i]
  <2>1. /\ device.work_items_for_dims[1] \in Nat /\ device.work_items_for_dims[2] \in Nat
    BY <1>1, DeviceFacts, PowersFacts
  <2>2. local_work_size[1] \in Nat \ {0} /\ local_work_size[2] \in Nat \ {0}
    BY <1>3
  <2>3. local_work_size[1] \in 1 .. device.work_items_for_dims[1]
    BY <1>4, <2>1, <2>2
  <2>4. local_work_size[2] \in 1 .. device.work_items_for_dims[2]
    BY <1>4, <2>1, <2>2
  <2>5. \A i \in 1 .. 2 : i = 1 \/ i = 2
    OBVIOUS
  <2>. QED BY <2>3, <2>4, <2>5
<1>10. local_work_size # NoLocal
  <2>1. Len(local_work_size) = 2 /\ Len(<<>>) = 0
    BY <1>1
  <2>. QED BY <2>1 DEF NoLocal
<1>11. /\ launch.work_dim = 2 /\ launch.global = global_work_size /\ launch.local = local_work_size
       /\ Dims(launch) = 1 .. 2
  BY <1>1 DEF Dims
<1>12. LimitsHold(launch, device, true_limit)
  BY <1>3, <1>8, <1>9, <1>11 DEF LimitsHold
<1>13. Product(launch.global) = LeastPower(w) * LeastPower(h)
  <2>1. LeastPower(w) = global_work_size[1] /\ LeastPower(h) = global_work_size[2]
    BY <1>1, <1>2, LeastPowerIs
  <2>. QED BY <1>5, <1>11, <2>1, ProductFacts
<1>. QED
  BY <1>1, <1>2, <1>5, <1>6, <1>11, <1>12, <1>13

\* What is checked is a launch the exactness of the check is about.
LEMMA CheckedLaunch ==
  ASSUME DevicesFit, LaunchesFit, PicturesFit, WorkInv, host_pc = "checked"
  PROVE  /\ verdict = "accepted" =>
              /\ LimitsHold(launch, device, true_limit)
              /\ GlobalsInRange(launch, device) \/ Overlooked(launch, device)
         /\ RangesFit /\ LimitsHold(launch, device, true_limit) =>
              /\ RangeHolds(launch, device) => verdict = "accepted"
              /\ ~ RangeHolds(launch, device) /\ Product(launch.global) < Pow2[LL_BITS - 1] =>
                   verdict = "refused"
<1>1. device \in Devices /\ true_limit \in Nat \ {0}
      /\ verdict \in check_work_parameters(launch, device, true_limit)
  BY ParamsAssumption DEF WorkInv, PlaceInv, VerdictInv
<1>2. ProperDevice(device)
  BY <1>1, DeviceFacts
<1>3. ProperLaunch(launch)
  <2>1. CASE Pictured
    BY <2>1, PictureLaunch
  <2>2. CASE ~ Pictured
    <3>1. launch \in Launches
      BY <2>2, ParamsAssumption DEF WorkInv, PlaceInv, Pictured, NoSide
    <3>. QED BY <3>1, ParamsAssumption DEF LaunchesFit, ProperLaunch
  <2>. QED BY <2>1, <2>2
<1>4. /\ "accepted" \in check_work_parameters(launch, device, true_limit) =>
           /\ LimitsHold(launch, device, true_limit)
           /\ GlobalsInRange(launch, device) \/ Overlooked(launch, device)
      /\ RangeFits(device) /\ LimitsHold(launch, device, true_limit) /\ RangeHolds(launch, device) =>
           check_work_parameters(launch, device, true_limit) = {"accepted"}
      /\ RangeFits(device) /\ LimitsHold(launch, device, true_limit) /\ ~ RangeHolds(launch, device)
           /\ Product(launch.global) < Pow2[LL_BITS - 1] =>
           check_work_parameters(launch, device, true_limit) = {"refused"}
  BY <1>1, <1>2, <1>3, CheckAgainstDriver
<1>. QED
  BY <1>1, <1>4 DEF RangesFit

-----------------------------------------------------------------------------
(* The theorems *)

\* No launch whose groups the device or the kernel would not take gets past the check, and no
\* launch with any other size the driver refuses but the edges the check overlooks, for launches
\* and pictures of any sizes whose groups are counted without loss, wrapping products included,
\* and for devices of any address_bits.
THEOREM CheckOverlooksOnlyEdges ==
  ASSUME DevicesFit, LaunchesFit, PicturesFit
  PROVE  Spec => []OverlooksOnlyEdges
<1>1. WorkInv => OverlooksOnlyEdges
  <2>. SUFFICES ASSUME WorkInv, verdict = "accepted"
                PROVE  \/ CanRun(launch, device, true_limit)
                       \/ LimitsHold(launch, device, true_limit) /\ Overlooked(launch, device)
    BY DEF OverlooksOnlyEdges
  <2>1. host_pc = "checked"
    BY DEF WorkInv, VerdictInv
  <2>. QED BY <2>1, CheckedLaunch DEF CanRun
<1>. QED
  BY <1>1, WorkInvariance, PTL

\* No launch within the limits and the program's range is refused, by devices whose range is a
\* long long.
THEOREM RefusedLaunchesAreBeyondLimits ==
  ASSUME DevicesFit, RangesFit, LaunchesFit, PicturesFit
  PROVE  Spec => []RefusesOnlyBeyondLimits
<1>1. WorkInv => RefusesOnlyBeyondLimits
  <2>. SUFFICES ASSUME WorkInv, verdict = "refused",
                       LimitsHold(launch, device, true_limit), RangeHolds(launch, device)
                PROVE  FALSE
    BY DEF RefusesOnlyBeyondLimits
  <2>1. host_pc = "checked"
    BY DEF WorkInv, VerdictInv
  <2>. QED BY <2>1, CheckedLaunch
<1>. QED
  BY <1>1, WorkInvariance, PTL

\* The sizes work_sizes returns are refused exactly when the rounded sides are beyond the range of
\* the device, and accepted otherwise.
THEOREM WorkSizesAreAccepted ==
  ASSUME DevicesFit, RangesFit, LaunchesFit, PicturesFit
  PROVE  Spec => []SizesAreAccepted
<1>1. WorkInv => SizesAreAccepted
  <2>. SUFFICES ASSUME WorkInv, Pictured, verdict # "none"
                PROVE  verdict = IF LeastPower(w) * LeastPower(h) > Pow2[device.address_bits]
                                 THEN "refused" ELSE "accepted"
    BY DEF SizesAreAccepted
  <2>1. host_pc = "checked" /\ device \in Devices
    BY DEF WorkInv, VerdictInv, PlaceInv
  <2>2. /\ LimitsHold(launch, device, true_limit) /\ launch.global \in Seq(Nat)
        /\ Product(launch.global) < Pow2[LL_BITS - 1]
        /\ Product(launch.global) = LeastPower(w) * LeastPower(h)
    BY <2>1, PictureLaunch DEF ProperLaunch
  <2>3. verdict = IF RangeHolds(launch, device) THEN "accepted" ELSE "refused"
    BY <2>1, <2>2, CheckedLaunch
  <2>. DEFINE x == Product(launch.global)
              P == Pow2[device.address_bits]
  <2>4. P \in Nat /\ x \in Nat
    BY <2>1, <2>2, DeviceFacts, RangeFacts, ProductFacts
  <2>5. /\ verdict = IF x <= P THEN "accepted" ELSE "refused"
        /\ x = LeastPower(w) * LeastPower(h)
    BY <2>2, <2>3 DEF RangeHolds
  <2>. HIDE DEF x, P
  <2>6. verdict = IF x > P THEN "refused" ELSE "accepted"
    BY <2>4, <2>5
  <2>. QED BY <2>5, <2>6 DEF P
<1>. QED
  BY <1>1, WorkInvariance, PTL

\* A launch of the sizes covers the picture, with less than twice its sides.
THEOREM WorkSizesCoverPicture ==
  ASSUME DevicesFit, PicturesFit
  PROVE  Spec => []CoversPicture
<1>1. WorkInv => CoversPicture
  <2>. SUFFICES ASSUME WorkInv, Pictured, host_pc \in {"execute", "checked"}
                PROVE  /\ launch.global[1] \in w .. 2 * w - 1
                       /\ launch.global[2] \in h .. 2 * h - 1
    BY DEF CoversPicture
  <2>1. /\ w \in Rounded /\ h \in Rounded
        /\ launch.global[1] = closest_power_of_2(w) /\ launch.global[2] = closest_power_of_2(h)
    BY PictureLaunch
  <2>2. ASSUME NEW x \in Rounded PROVE closest_power_of_2(x) \in x .. 2 * x - 1
    <3>1. PICK m \in 0 .. INT_BITS - 2 :
               /\ closest_power_of_2(x) = Pow2[m] /\ Pow2[m] \in Nat \ {0}
               /\ x <= Pow2[m] /\ Pow2[m] <= 2 * x - 1
      BY RoundedSide
    <3>2. x \in Nat
      BY IntRange DEF Rounded
    <3>. QED BY <3>1, <3>2
  <2>. QED BY <2>1, <2>2
<1>. QED
  BY <1>1, WorkInvariance, PTL

\* work_sizes gives up on empty and on overlong sides, and on pictures too thin for the limits.
THEOREM OnlyThinPicturesThrow ==
  ASSUME DevicesFit, PicturesFit
  PROVE  Spec => []ThrowsOnlyWhenThin
<1>1. WorkInv => ThrowsOnlyWhenThin
  <2>. SUFFICES ASSUME WorkInv, Pictured, Done
                PROVE  host_pc = "threw" <=>
                         Min({w, h}) = 0 \/ Max({w, h}) >= Pow2[INT_BITS - 1] \/ Thin
    BY DEF ThrowsOnlyWhenThin
  <2>1. host_pc \in {"threw", "checked"} /\ (host_pc = "threw" <=> Nonstandard)
    BY DEF Done, WorkInv, ReturnInv
  <2>2. CASE w \notin Rounded \/ h \notin Rounded
    BY <2>1, <2>2, UnroundedThrows
  <2>3. CASE w \in Rounded /\ h \in Rounded
    <3>1. Nonstandard <=> Thin
      BY <2>1, <2>3, LoopEnd
    <3>2. /\ w \in Nat \ {0} /\ h \in Nat \ {0}
          /\ w < Pow2[INT_BITS - 1] /\ h < Pow2[INT_BITS - 1]
      BY <2>3, IntRange DEF Rounded
    <3>3. Min({w, h}) # 0 /\ ~ (Max({w, h}) >= Pow2[INT_BITS - 1])
      <4>1. /\ Min({w, h}) = (IF w <= h THEN w ELSE h)
            /\ Max({w, h}) = (IF w >= h THEN w ELSE h)
        BY <3>2, MinMaxOfPair
      <4>2. Pow2[INT_BITS - 1] \in Nat
        BY IntRange
      <4>. QED BY <3>2, <4>1, <4>2
    <3>. QED BY <2>1, <3>1, <3>3
  <2>. QED BY <2>2, <2>3
<1>. QED
  BY <1>1, WorkInvariance, PTL

=============================================================================

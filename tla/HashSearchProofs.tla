-------------------------- MODULE HashSearchProofs --------------------------
(***************************************************************************)
(* The words, the powers and the tables of HashWord for every split of the *)
(* letters; IInv is inductive, and what follows from it: the safety        *)
(* properties of HashSearch for every alphabet, split of the letters, set  *)
(* of targets and number of work items; that HashSearch implements         *)
(* WordSearch; and that the percentage main shows is honest.               *)
(***************************************************************************)
EXTENDS HashSearchInv, Recursion, SequenceTheorems


-----------------------------------------------------------------------------
(* Powers of the base *)

\* The recursive function Pow exists: positive, 1 at 0, BASE times at n + 1.
LEMMA PowFacts ==
  /\ Pow \in [Nat -> Nat \ {0}]
  /\ Pow[0] = 1
  /\ \A n \in Nat : Pow[n + 1] = BASE * Pow[n]
<1> DEFINE D == Nat \ {0}
           s == [n \in Nat |-> [x \in D |-> BASE * x]]
           P(f) == f = [n \in Nat |-> IF n = 0 THEN 1 ELSE BASE * f[n - 1]]
<1>1. 1 \in D /\ s \in StepFunctions(D)
  BY BaseAssumption DEF StepFunctions
<1>2. PICK f \in [Nat -> D] : Iterates(f, 1, s)
  <2> HIDE DEF s, D
  <2>. QED BY <1>1, PrimitiveRecursion
<1>3. P(f)
  <2>1. ASSUME NEW n \in Nat PROVE f[n] = IF n = 0 THEN 1 ELSE BASE * f[n - 1]
    <3>1. CASE n = 0
      BY <1>2, <3>1 DEF Iterates
    <3>2. CASE n # 0
      <4>1. n - 1 \in Nat /\ (n - 1) + 1 = n
        BY <3>2
      <4>. QED BY <1>2, <3>2, <4>1 DEF Iterates
    <3>. QED BY <3>1, <3>2
  <2>. QED BY <1>2, <2>1
<1>4. P(Pow)
  <2>1. Pow = CHOOSE x : P(x)
    BY DEF Pow
  <2> HIDE DEF P
  <2>. QED BY <1>3, <2>1
<1>5. Pow = f
  <2> DEFINE E == {n \in Nat : Pow[n] = f[n]}
  <2>1. 0 \in E /\ \A n \in Nat : n \in E => n + 1 \in E
    BY <1>3, <1>4
  <2>2. Nat \subseteq E
    <3> HIDE DEF E
    <3>. QED BY <2>1, NatSetInduction
  <2>. QED BY <1>2, <1>4, <2>2
<1>. QED
  BY <1>2, <1>5 DEF Iterates

-----------------------------------------------------------------------------
(* The two tables *)

\* Every letter is a lower case character; the lookup table gives back the
\* index of a letter, and no two letters are the same.
LEMMA TableFacts ==
  ASSUME NEW n \in 1 .. 16
  PROVE  letters[n] \in 97 .. 122 /\ lookup[(letters[n] - 97) + 1] = n - 1
<1>1. n \in 1 .. 8 \/ n \in 9 .. 16
  OBVIOUS
<1>2. CASE n \in 1 .. 8
  BY <1>2 DEF letters, lookup
<1>3. CASE n \in 9 .. 16
  BY <1>3 DEF letters, lookup
<1>. QED
  BY <1>1, <1>2, <1>3

\* The reference index of a letter is the index the lookup table gives.
LEMMA AlphabetIndexFacts ==
  ASSUME NEW n \in 1 .. 16
  PROVE  AlphabetIndex(letters[n]) = n - 1
<1>1. Len(letters) = 16
  BY DEF letters
<1>2. \A m \in 1 .. 16 : letters[m] = letters[n] => m = n
  BY TableFacts
<1>. QED
  BY <1>1, <1>2 DEF AlphabetIndex

\* A letter of the alphabet goes through hash_step as the reference says.
LEMMA HashStepFacts ==
  ASSUME NEW v, NEW letter \in Alphabet
  PROVE  hash_step(v, letter) = (v * 37 + AlphabetIndex(letter)) % LONG_RANGE
<1>1. PICK n \in 1 .. BASE : letter = letters[n]
  BY DEF Alphabet
<1>2. n \in 1 .. 16
  BY BaseAssumption
<1>. QED
  BY <1>1, <1>2, TableFacts, AlphabetIndexFacts DEF hash_step

\* A zero byte is not a letter.
LEMMA ZeroNotInAlphabet == 0 \notin Alphabet
<1>1. 1 .. BASE \subseteq 1 .. 16
  BY BaseAssumption
<1>. QED
  BY <1>1, TableFacts DEF Alphabet

-----------------------------------------------------------------------------
(* The word of a launch, an item and a combination *)

LEMMA LetterAtFacts ==
  ASSUME NEW n \in Nat, NEW k \in Nat
  PROVE  LetterAt(n, k) \in Alphabet
<1>1. Pow[k] \in Nat \ {0}
  BY PowFacts
<1>2. (n \div Pow[k]) \in Nat
  BY <1>1, SMT
<1>3. ((n \div Pow[k]) % BASE) + 1 \in 1 .. BASE
  BY <1>2, BaseAssumption
<1>. QED
  BY <1>3 DEF LetterAt, Alphabet

LEMMA DataFacts ==
  ASSUME NEW c \in Nat, NEW g \in Nat, NEW k \in Nat
  PROVE  data(c, g, k) \in Words
<1>1. letters_from_cpu \in Nat \ {0} /\ base_idx \in Nat /\ LETTER_COUNT \in Nat
  BY SplitAssumption DEF letters_from_cpu, base_idx
<1>2. ASSUME NEW p \in Position PROVE data(c, g, k)[p] \in Alphabet
  <2>1. CASE p < letters_from_cpu
    BY <1>1, <2>1, LetterAtFacts DEF data, Position
  <2>2. CASE ~ (p < letters_from_cpu) /\ p < base_idx
    <3>1. p - letters_from_cpu \in Nat
      BY <1>1, <2>2 DEF Position
    <3>. QED BY <2>2, <3>1, LetterAtFacts DEF data, Position
  <2>3. CASE ~ (p < letters_from_cpu) /\ ~ (p < base_idx)
    <3>1. p - base_idx \in Nat
      BY <1>1, <2>3 DEF Position
    <3>. QED BY <2>3, <3>1, LetterAtFacts DEF data, Position
  <2>. QED BY <2>1, <2>2, <2>3
<1>. QED
  BY <1>2 DEF data, Words

-----------------------------------------------------------------------------
(* The hash *)

\* What the loops over hash_step compute: one step per letter, from `start`.
HashRun(h, start, word, m) ==
  /\ h \in [0 .. m -> Int]
  /\ h[0] = start
  /\ \A n \in 0 .. m - 1 : h[n + 1] = hash_step(h[n], word[n])

LEMMA HashStepType ==
  ASSUME NEW v \in Int, NEW letter \in Alphabet
  PROVE  hash_step(v, letter) \in Int
<1>1. PICK n \in 1 .. BASE : letter = letters[n]
  BY DEF Alphabet
<1>2. n \in 1 .. 16
  BY BaseAssumption
<1>3. v * 37 + lookup[(letter - 97) + 1] \in Int
  BY <1>1, <1>2, TableFacts
<1>. QED
  BY <1>3, BaseAssumption DEF hash_step

LEMMA HashStepsFacts ==
  ASSUME NEW m \in Nat, NEW start \in Int, NEW word,
         \A n \in 0 .. m - 1 : word[n] \in Alphabet
  PROVE  \E h : HashRun(h, start, word, m) /\ hash_steps(start, word, m) = h[m]
<1> DEFINE s == [n \in Nat |-> [v \in Int |->
                   IF n < m THEN hash_step(v, word[n]) ELSE v]]
           P(f) == f = [n \in 0 .. m |->
                          IF n = 0 THEN start ELSE hash_step(f[n - 1], word[n - 1])]
           h == CHOOSE f : P(f)
<1>1. s \in StepFunctions(Int)
  BY HashStepType DEF StepFunctions
<1>2. PICK r \in [0 .. m -> Int] : IsRun(r, m, start, s)
  <2> HIDE DEF s
  <2>. QED BY <1>1, BoundedRecursion
<1>3. P(r)
  <2>1. ASSUME NEW n \in 0 .. m, n # 0
        PROVE  s[n - 1][r[n - 1]] = hash_step(r[n - 1], word[n - 1])
    <3>1. n - 1 \in Nat /\ n - 1 < m /\ r[n - 1] \in Int
      BY <1>2, <2>1
    <3>. QED BY <3>1
  <2> HIDE DEF s
  <2>. QED BY <1>2, <2>1 DEF IsRun
<1>4. P(h)
  <2> HIDE DEF P
  <2>. QED BY <1>3
<1>5. h = r
  <2> DEFINE E == {n \in Nat : n <= m => h[n] = r[n]}
  <2> HIDE DEF h
  <2>1. 0 \in E
    BY <1>3, <1>4
  <2>2. ASSUME NEW n \in Nat, n \in E PROVE n + 1 \in E
    <3>1. CASE ~ (n + 1 <= m)
      BY <3>1
    <3>2. CASE n + 1 <= m
      <4>1. n + 1 \in 0 .. m /\ (n + 1) - 1 = n /\ n + 1 # 0 /\ n <= m
        BY <3>2
      <4>2. h[n] = r[n]
        BY <2>2, <4>1
      <4>3. h[n + 1] = hash_step(h[n], word[n])
        BY <1>4, <4>1
      <4>4. r[n + 1] = hash_step(r[n], word[n])
        BY <1>3, <4>1
      <4>. QED BY <4>2, <4>3, <4>4
    <3>. QED BY <3>1, <3>2
  <2>3. Nat \subseteq E
    <3> HIDE DEF E
    <3>. QED BY <2>1, <2>2, NatSetInduction
  <2>. QED BY <1>2, <1>4, <2>3
<1>6. HashRun(r, start, word, m)
  <2>1. \A n \in 0 .. m - 1 : r[n + 1] = hash_step(r[n], word[n])
    BY <1>3
  <2>. QED BY <1>2, <1>3, <2>1 DEF HashRun
<1>7. hash_steps(start, word, m) = h[m]
  BY DEF hash_steps
<1> HIDE DEF h
<1>. QED
  BY <1>5, <1>6, <1>7

\* The reference hash of a word is the run of hash_step over all its letters.
LEMMA HashFacts ==
  ASSUME NEW w \in Words
  PROVE  Hash(w) = hash_steps(7, w, LETTER_COUNT)
<1>1. LETTER_COUNT \in Nat
  BY SplitAssumption
<1>2. ASSUME NEW n \in 0 .. LETTER_COUNT, n # 0, NEW v
      PROVE  hash_step(v, w[n - 1]) = (v * 37 + AlphabetIndex(w[n - 1])) % LONG_RANGE
  <2>1. w[n - 1] \in Alphabet
    BY <1>1, <1>2 DEF Words, Position
  <2>. QED BY <2>1, HashStepFacts
<1> DEFINE L(f) == f = [n \in 0 .. LETTER_COUNT |->
                          IF n = 0 THEN 7
                          ELSE (f[n - 1] * 37 + AlphabetIndex(w[n - 1])) % LONG_RANGE]
           R(f) == f = [n \in 0 .. LETTER_COUNT |->
                          IF n = 0 THEN 7 ELSE hash_step(f[n - 1], w[n - 1])]
<1>3. \A f : L(f) <=> R(f)
  BY <1>2
<1>4. Hash(w) = (CHOOSE f : L(f))[LETTER_COUNT]
  BY DEF Hash
<1>5. hash_steps(7, w, LETTER_COUNT) = (CHOOSE f : R(f))[LETTER_COUNT]
  BY DEF hash_steps
<1> HIDE DEF L, R
<1>6. (CHOOSE f : L(f)) = (CHOOSE f : R(f))
  BY <1>3
<1>. QED
  BY <1>4, <1>5, <1>6

(***************************************************************************)
(* What a work item compares with the target is the reference hash of the  *)
(* word in its private buffer, although it hashes the first base_idx       *)
(* letters once and continues from there for each combination.             *)
(***************************************************************************)
THEOREM HashSplit ==
  ASSUME NEW c \in Nat, NEW g \in Nat, NEW k \in Nat
  PROVE  hash_value(c, g, k) = Hash(data(c, g, k))
<1> DEFINE N == LETTER_COUNT
           B == base_idx
           M == letters_to_iter_over
           w == data(c, g, k)
           first == data(c, g, 0)
           last == [n \in 0 .. M - 1 |-> LetterAt(k, n)]
<1>1. /\ N \in Nat /\ B \in Nat /\ M \in Nat /\ B + M = N /\ letters_from_cpu <= B
      /\ letters_from_cpu \in Nat
  BY SplitAssumption DEF base_idx, letters_from_cpu
<1>2. w \in Words /\ first \in Words
  BY DataFacts
<1>3. \A n \in 0 .. B - 1 : first[n] = w[n]
  BY <1>1 DEF data, Position
<1>4. \A n \in 0 .. M - 1 : last[n] = w[B + n]
  <2>1. ASSUME NEW n \in 0 .. M - 1 PROVE last[n] = w[B + n]
    <3>1. B + n \in Position /\ ~ (B + n < letters_from_cpu) /\ ~ (B + n < B)
          /\ (B + n) - B = n
      BY <1>1 DEF Position
    <3>. QED BY <3>1 DEF data
  <2>. QED BY <2>1
<1> HIDE DEF first, last, w, N, B, M
<1>5. /\ \A n \in 0 .. N - 1 : w[n] \in Alphabet
      /\ \A n \in 0 .. B - 1 : first[n] \in Alphabet
      /\ \A n \in 0 .. M - 1 : last[n] \in Alphabet
  BY <1>1, <1>2, <1>3, <1>4 DEF Words, Position, N
<1>6. PICK H : HashRun(H, 7, w, N) /\ hash_steps(7, w, N) = H[N]
  BY <1>1, <1>5, HashStepsFacts
<1>7. PICK b : HashRun(b, 7, first, B) /\ hash_steps(7, first, B) = b[B]
  BY <1>1, <1>5, HashStepsFacts
<1>8. b[B] \in Int
  BY <1>1, <1>7 DEF HashRun
<1>9. PICK t : HashRun(t, b[B], last, M) /\ hash_steps(b[B], last, M) = t[M]
  BY <1>1, <1>5, <1>8, HashStepsFacts
<1>10. b[B] = H[B]
  <2> DEFINE E == {n \in Nat : n <= B => b[n] = H[n]}
  <2>1. 0 \in E
    BY <1>6, <1>7 DEF HashRun
  <2>2. ASSUME NEW n \in Nat, n \in E PROVE n + 1 \in E
    <3>1. CASE n + 1 <= B
      <4>1. n \in 0 .. B - 1 /\ n \in 0 .. N - 1 /\ b[n] = H[n]
        BY <1>1, <2>2, <3>1
      <4>2. b[n + 1] = hash_step(b[n], first[n]) /\ H[n + 1] = hash_step(H[n], w[n])
        BY <1>6, <1>7, <4>1 DEF HashRun
      <4>. QED BY <1>3, <4>1, <4>2
    <3>. QED BY <3>1
  <2>3. Nat \subseteq E
    <3> HIDE DEF E
    <3>. QED BY <2>1, <2>2, NatSetInduction
  <2>. QED BY <1>1, <2>3
<1>11. t[M] = H[N]
  <2> DEFINE E == {n \in Nat : n <= M => t[n] = H[B + n]}
  <2>1. 0 \in E
    BY <1>1, <1>9, <1>10 DEF HashRun
  <2>2. ASSUME NEW n \in Nat, n \in E PROVE n + 1 \in E
    <3>1. CASE n + 1 <= M
      <4>1. /\ n \in 0 .. M - 1 /\ B + n \in 0 .. N - 1 /\ t[n] = H[B + n]
            /\ B + (n + 1) = (B + n) + 1
        BY <1>1, <2>2, <3>1
      <4>2. t[n + 1] = hash_step(t[n], last[n])
        BY <1>9, <4>1 DEF HashRun
      <4>3. H[(B + n) + 1] = hash_step(H[B + n], w[B + n])
        BY <1>6, <4>1 DEF HashRun
      <4>. QED BY <1>4, <4>1, <4>2, <4>3
    <3>. QED BY <3>1
  <2>3. Nat \subseteq E
    <3> HIDE DEF E
    <3>. QED BY <2>1, <2>2, NatSetInduction
  <2>. QED BY <1>1, <2>3
<1>12. hash_value(c, g, k) = hash_steps(b[B], last, M)
  BY <1>7 DEF hash_value, base_hash, first, last, B, M
<1>. QED
  BY <1>2, <1>6, <1>9, <1>11, <1>12, HashFacts DEF w, N

-----------------------------------------------------------------------------
(* The three indices enumerate every word *)

\* Dropping the lowest digit of an index, then dividing.
LEMMA ShiftFacts ==
  ASSUME NEW n \in Nat, NEW d \in 0 .. BASE - 1, NEW P \in Nat \ {0}
  PROVE  /\ (BASE * n + d) \div (BASE * P) = n \div P
         /\ ((BASE * n + d) \div 1) % BASE = d
<1> DEFINE q == n \div P
           a == BASE * n + d
           b == BASE * P
<1>1. BASE \in Nat \ {0} /\ d \in Nat /\ d < BASE
  BY BaseAssumption
<1>2. q \in Nat /\ P * q <= n /\ n + 1 <= P * (q + 1)
  OBVIOUS
<1>3. a \in Nat /\ b \in Nat \ {0}
  BY BaseAssumption
<1> HIDE DEF q
<1>4. b * q <= a
  <2>1. BASE * (P * q) <= BASE * n
    BY <1>1, <1>2
  <2>2. b * q = BASE * (P * q)
    BY BaseAssumption, <1>2
  <2>3. BASE * n \in Nat /\ BASE * n <= a
    BY <1>1
  <2>4. BASE * (P * q) \in Nat
    BY <1>1, <1>2
  <2> HIDE DEF a, b
  <2>. QED BY <1>3, <2>1, <2>2, <2>3, <2>4
<1>5. a < b * (q + 1)
  <2>1. BASE * (n + 1) <= BASE * (P * (q + 1))
    BY <1>1, <1>2
  <2>2. b * (q + 1) = BASE * (P * (q + 1))
    BY BaseAssumption, <1>2
  <2>3. a < BASE * (n + 1)
    BY <1>1, BaseAssumption
  <2>. QED BY <1>1, <1>2, <2>1, <2>2, <2>3
<1>6. a \div b = q
  <2> HIDE DEF a, b
  <2>. QED BY <1>2, <1>3, <1>4, <1>5, DivisionUnique
<1>7. (a \div 1) % BASE = d
  BY BaseAssumption
<1>. QED
  BY <1>6, <1>7 DEF q

\* Every sequence of digits is the sequence of digits of an index.
Digits(m) == [0 .. m - 1 -> 0 .. BASE - 1]
IsIndexOf(n, d, m) == \A k \in 0 .. m - 1 : (n \div Pow[k]) % BASE = d[k]

LEMMA DigitsFacts ==
  ASSUME NEW m \in Nat, NEW d \in Digits(m)
  PROVE  \E n \in 0 .. Pow[m] - 1 : IsIndexOf(n, d, m)
<1> DEFINE S == {j \in Nat : \A e \in Digits(j) :
                               \E n \in 0 .. Pow[j] - 1 : IsIndexOf(n, e, j)}
<1>1. 0 \in S
  BY PowFacts DEF IsIndexOf
<1>2. ASSUME NEW j \in Nat, j \in S PROVE j + 1 \in S
  <2>1. SUFFICES ASSUME NEW e \in Digits(j + 1)
                 PROVE  \E n \in 0 .. Pow[j + 1] - 1 : IsIndexOf(n, e, j + 1)
    OBVIOUS
  <2> DEFINE rest == [k \in 0 .. j - 1 |-> e[k + 1]]
  <2>2. rest \in Digits(j) /\ e[0] \in 0 .. BASE - 1
    BY DEF Digits
  <2>3. PICK n \in 0 .. Pow[j] - 1 : IsIndexOf(n, rest, j)
    BY <1>2, <2>2
  <2> DEFINE x == BASE * n + e[0]
  <2>4. n \in Nat /\ Pow[j] \in Nat \ {0} /\ Pow[j + 1] = BASE * Pow[j]
    BY <2>3, PowFacts
  <2>5. x \in 0 .. Pow[j + 1] - 1
    <3>1. n + 1 <= Pow[j]
      BY <2>3, <2>4
    <3>2. BASE * (n + 1) <= Pow[j + 1]
      BY <2>4, <3>1, BaseAssumption
    <3>3. x \in Nat /\ x < BASE * (n + 1)
      <4>1. ASSUME NEW z \in 0 .. BASE - 1
            PROVE  BASE * n + z \in Nat /\ BASE * n + z < BASE * (n + 1)
        BY <2>4, BaseAssumption
      <4>. QED BY <2>2, <4>1
    <3>4. Pow[j + 1] \in Nat /\ BASE * (n + 1) \in Nat
      BY <2>4, BaseAssumption, PowFacts
    <3> HIDE DEF x
    <3>. QED BY <3>2, <3>3, <3>4
  <2>6. ASSUME NEW k \in 0 .. (j + 1) - 1 PROVE (x \div Pow[k]) % BASE = e[k]
    <3>1. CASE k = 0
      <4>1. 1 \in Nat \ {0} /\ Pow[k] = 1
        BY <3>1, PowFacts
      <4>2. (x \div 1) % BASE = e[0]
        BY <2>2, <2>4, <4>1, ShiftFacts
      <4>. QED BY <3>1, <4>1, <4>2
    <3>2. CASE k # 0
      <4>1. k - 1 \in 0 .. j - 1 /\ k - 1 \in Nat /\ (k - 1) + 1 = k
        BY <3>2
      <4>2. Pow[k - 1] \in Nat \ {0} /\ Pow[k] = BASE * Pow[k - 1]
        BY <4>1, PowFacts
      <4>3. x \div Pow[k] = n \div Pow[k - 1]
        BY <2>2, <2>4, <4>2, ShiftFacts
      <4>4. (n \div Pow[k - 1]) % BASE = rest[k - 1]
        BY <2>3, <4>1 DEF IsIndexOf
      <4>. QED BY <4>1, <4>3, <4>4
    <3>. QED BY <3>1, <3>2
  <2> HIDE DEF x
  <2>. QED BY <2>5, <2>6 DEF IsIndexOf
<1>3. Nat \subseteq S
  <2> HIDE DEF S
  <2>. QED BY <1>1, <1>2, NatSetInduction
<1>. QED
  BY <1>3

\* Every word over the alphabet is given by digits, one per position.
LEMMA WordDigits ==
  ASSUME NEW w \in Words
  PROVE  \E d \in [Position -> 0 .. BASE - 1] :
           \A p \in Position : w[p] = letters[d[p] + 1]
<1> DEFINE d == [p \in Position |->
                   CHOOSE x \in 0 .. BASE - 1 : w[p] = letters[x + 1]]
<1>1. ASSUME NEW p \in Position
      PROVE  \E x \in 0 .. BASE - 1 : w[p] = letters[x + 1]
  <2>1. PICK n \in 1 .. BASE : w[p] = letters[n]
    BY DEF Words, Alphabet
  <2>2. n - 1 \in 0 .. BASE - 1 /\ (n - 1) + 1 = n
    BY BaseAssumption
  <2>. QED BY <2>1, <2>2
<1>2. \A p \in Position : d[p] \in 0 .. BASE - 1 /\ w[p] = letters[d[p] + 1]
  BY <1>1
<1>3. d \in [Position -> 0 .. BASE - 1]
  BY <1>2
<1> HIDE DEF d
<1>. QED
  BY <1>2, <1>3

(***************************************************************************)
(* Coverage: every word of the search space is in the private buffer of    *)
(* some work item of some launch for some combination, so the launches of  *)
(* main's loop together try every word.                                    *)
(***************************************************************************)
THEOREM Coverage ==
  ASSUME NEW w \in Words
  PROVE  \E c \in Launch, g \in Item, k \in Combination : data(c, g, k) = w
<1> DEFINE C == letters_from_cpu
           G == letters_from_global_id
           M == letters_to_iter_over
<1>1. /\ C \in Nat /\ G \in Nat /\ M \in Nat
      /\ base_idx = C + G /\ LETTER_COUNT = C + G + M
  BY SplitAssumption DEF base_idx, letters_from_cpu
<1>2. PICK d \in [Position -> 0 .. BASE - 1] :
        \A p \in Position : w[p] = letters[d[p] + 1]
  BY WordDigits
<1> HIDE DEF C, G, M
<1> DEFINE dC == [p \in 0 .. C - 1 |-> d[p]]
           dG == [p \in 0 .. G - 1 |-> d[C + p]]
           dM == [p \in 0 .. M - 1 |-> d[(C + G) + p]]
<1>3. dC \in Digits(C) /\ dG \in Digits(G) /\ dM \in Digits(M)
  BY <1>1 DEF Digits, Position
<1>4. PICK c \in 0 .. Pow[C] - 1 : IsIndexOf(c, dC, C)
  BY <1>1, <1>3, DigitsFacts
<1>5. PICK g \in 0 .. Pow[G] - 1 : IsIndexOf(g, dG, G)
  BY <1>1, <1>3, DigitsFacts
<1>6. PICK k \in 0 .. Pow[M] - 1 : IsIndexOf(k, dM, M)
  BY <1>1, <1>3, DigitsFacts
<1>7. c \in Launch /\ g \in Item /\ k \in Combination
  BY DEF Launch, Item, Combination, repeatCnt, global_work_size, combinations,
         C, G, M
<1>8. ASSUME NEW p \in Position PROVE data(c, g, k)[p] = w[p]
  <2>1. CASE p < C
    <3>1. p \in 0 .. C - 1
      BY <1>1, <2>1 DEF Position
    <3>2. LetterAt(c, p) = letters[d[p] + 1]
      BY <1>4, <3>1 DEF IsIndexOf, LetterAt
    <3>. QED BY <1>2, <2>1, <3>2 DEF data, C
  <2>2. CASE ~ (p < C) /\ p < C + G
    <3>1. p - C \in 0 .. G - 1 /\ C + (p - C) = p
      BY <1>1, <2>2 DEF Position
    <3>2. LetterAt(g, p - C) = letters[d[p] + 1]
      BY <1>5, <3>1 DEF IsIndexOf, LetterAt
    <3>. QED BY <1>1, <1>2, <2>2, <3>2 DEF data, C
  <2>3. CASE ~ (p < C) /\ ~ (p < C + G)
    <3>1. p - (C + G) \in 0 .. M - 1 /\ (C + G) + (p - (C + G)) = p
      BY <1>1, <2>3 DEF Position
    <3>2. LetterAt(k, p - (C + G)) = letters[d[p] + 1]
      BY <1>6, <3>1 DEF IsIndexOf, LetterAt
    <3>. QED BY <1>1, <1>2, <2>3, <3>2 DEF data, C
  <2>. QED BY <2>1, <2>2, <2>3
<1>9. data(c, g, k) = w
  BY <1>8 DEF data, Words
<1>. QED
  BY <1>7, <1>9

\* Indices with the same digits are the same.
LEMMA DigitsUnique ==
  ASSUME NEW m \in Nat, NEW a \in 0 .. Pow[m] - 1, NEW b \in 0 .. Pow[m] - 1,
         \A k \in 0 .. m - 1 : (a \div Pow[k]) % BASE = (b \div Pow[k]) % BASE
  PROVE  a = b
<1>. DEFINE SameDigits(x, y, j) ==
              \A k \in 0 .. j - 1 : (x \div Pow[k]) % BASE = (y \div Pow[k]) % BASE
            S == {j \in Nat : \A x, y \in 0 .. Pow[j] - 1 : SameDigits(x, y, j) => x = y}
<1>1. 0 \in S
  BY PowFacts
<1>2. ASSUME NEW j \in Nat, j \in S PROVE j + 1 \in S
  <2>1. SUFFICES ASSUME NEW x \in 0 .. Pow[j + 1] - 1, NEW y \in 0 .. Pow[j + 1] - 1,
                        SameDigits(x, y, j + 1)
                 PROVE  x = y
    OBVIOUS
  <2>2. Pow[j] \in Nat \ {0} /\ Pow[j + 1] = BASE * Pow[j] /\ x \in Nat /\ y \in Nat
    BY PowFacts
  <2>3. ASSUME NEW z \in Nat, z < Pow[j + 1]
        PROVE  /\ z = BASE * (z \div BASE) + (z % BASE)
               /\ z % BASE \in 0 .. BASE - 1 /\ z \div BASE \in 0 .. Pow[j] - 1
               /\ (z \div Pow[0]) % BASE = z % BASE
               /\ \A k \in 0 .. j - 1 : z \div Pow[k + 1] = (z \div BASE) \div Pow[k]
    <3>. DEFINE q == z \div BASE
                r == z % BASE
    <3>1. z = BASE * q + r /\ q \in Nat /\ r \in 0 .. BASE - 1
      BY BaseAssumption
    <3>. HIDE DEF q, r
    <3>2. q < Pow[j]
      <4>1. SUFFICES ASSUME q >= Pow[j] PROVE FALSE
        BY <3>1, <2>2
      <4>2. BASE * q >= BASE * Pow[j] /\ BASE * q \in Nat /\ BASE * Pow[j] \in Nat
        BY <2>2, <3>1, <4>1, BaseAssumption
      <4>3. z >= BASE * q
        BY <3>1, <4>2
      <4>. QED BY <2>2, <2>3, <4>2, <4>3
    <3>3. z \div Pow[0] = z
      BY PowFacts
    <3>4. ASSUME NEW k \in 0 .. j - 1 PROVE z \div Pow[k + 1] = q \div Pow[k]
      <4>1. Pow[k] \in Nat \ {0} /\ Pow[k + 1] = BASE * Pow[k]
        BY PowFacts
      <4>2. (BASE * q + r) \div (BASE * Pow[k]) = q \div Pow[k]
        BY <3>1, <4>1, ShiftFacts
      <4>. QED BY <3>1, <4>1, <4>2
    <3>5. q \in 0 .. Pow[j] - 1
      BY <2>2, <3>1, <3>2
    <3>. QED BY <3>1, <3>3, <3>4, <3>5 DEF q, r
  <2>. DEFINE p == x \div BASE
              q == y \div BASE
              r == x % BASE
              s == y % BASE
  <2>4. x < Pow[j + 1] /\ y < Pow[j + 1] /\ Pow[j + 1] \in Nat
    BY <2>2, PowFacts
  <2>5. /\ x = BASE * p + r /\ p \in 0 .. Pow[j] - 1
        /\ (x \div Pow[0]) % BASE = r
        /\ \A k \in 0 .. j - 1 : x \div Pow[k + 1] = p \div Pow[k]
    BY <2>2, <2>3, <2>4
  <2>6. /\ y = BASE * q + s /\ q \in 0 .. Pow[j] - 1
        /\ (y \div Pow[0]) % BASE = s
        /\ \A k \in 0 .. j - 1 : y \div Pow[k + 1] = q \div Pow[k]
    BY <2>2, <2>3, <2>4
  <2>. HIDE DEF p, q, r, s
  <2>7. r = s
    BY <2>1, <2>5, <2>6
  <2>8. SameDigits(p, q, j)
    <3>1. ASSUME NEW k \in 0 .. j - 1 PROVE (p \div Pow[k]) % BASE = (q \div Pow[k]) % BASE
      <4>1. (x \div Pow[k + 1]) % BASE = (y \div Pow[k + 1]) % BASE
        BY <2>1, k + 1 \in 0 .. (j + 1) - 1
      <4>. QED BY <2>5, <2>6, <4>1
    <3>. QED BY <3>1
  <2>9. p = q
    BY <1>2, <2>5, <2>6, <2>8
  <2>. QED BY <2>5, <2>6, <2>7, <2>9
<1>3. Nat \subseteq S
  <2>. HIDE DEF S
  <2>. QED BY <1>1, <1>2, NatSetInduction
<1>. QED
  BY <1>3

\* Letters that are the same stand for the same digits.
LEMMA LetterAtInjective ==
  ASSUME NEW m \in Nat, NEW a \in 0 .. Pow[m] - 1, NEW b \in 0 .. Pow[m] - 1,
         \A k \in 0 .. m - 1 : LetterAt(a, k) = LetterAt(b, k)
  PROVE  a = b
<1>1. ASSUME NEW k \in 0 .. m - 1
      PROVE  (a \div Pow[k]) % BASE = (b \div Pow[k]) % BASE
  <2>1. Pow[k] \in Nat \ {0} /\ Pow[m] \in Nat
    BY PowFacts
  <2>. DEFINE x == (a \div Pow[k]) % BASE
              y == (b \div Pow[k]) % BASE
  <2>2. x \in 0 .. BASE - 1 /\ y \in 0 .. BASE - 1
    <3>1. ASSUME NEW n \in Nat, NEW P \in Nat \ {0} PROVE (n \div P) % BASE \in 0 .. BASE - 1
      <4>1. n \div P \in Nat
        OBVIOUS
      <4>. QED BY <4>1, BaseAssumption
    <3>. QED BY <2>1, <3>1
  <2>3. letters[x + 1] = letters[y + 1]
    BY <1>1 DEF LetterAt
  <2>. HIDE DEF x, y
  <2>4. x + 1 \in 1 .. 16 /\ y + 1 \in 1 .. 16
    BY <2>2, BaseAssumption
  <2>5. (x + 1) - 1 = (y + 1) - 1
    BY <2>3, <2>4, AlphabetIndexFacts
  <2>. QED BY <2>2, <2>5 DEF x, y
<1>. QED
  BY <1>1, DigitsUnique

(***************************************************************************)
(* No word is tried twice: launches, items and combinations that differ    *)
(* fill the private buffer with different words.                           *)
(***************************************************************************)
THEOREM EachWordOnce ==
  ASSUME NEW c1 \in Launch, NEW g1 \in Item, NEW k1 \in Combination,
         NEW c2 \in Launch, NEW g2 \in Item, NEW k2 \in Combination,
         data(c1, g1, k1) = data(c2, g2, k2)
  PROVE  c1 = c2 /\ g1 = g2 /\ k1 = k2
<1>. DEFINE C == letters_from_cpu
            G == letters_from_global_id
            M == letters_to_iter_over
<1>1. /\ C \in Nat /\ G \in Nat /\ M \in Nat
      /\ base_idx = C + G /\ LETTER_COUNT = C + G + M
  BY SplitAssumption DEF base_idx, letters_from_cpu
<1>2. /\ c1 \in 0 .. Pow[C] - 1 /\ c2 \in 0 .. Pow[C] - 1
      /\ g1 \in 0 .. Pow[G] - 1 /\ g2 \in 0 .. Pow[G] - 1
      /\ k1 \in 0 .. Pow[M] - 1 /\ k2 \in 0 .. Pow[M] - 1
  BY DEF Launch, Item, Combination, repeatCnt, global_work_size, combinations
<1>3. \A p \in Position :
        /\ p < C => LetterAt(c1, p) = LetterAt(c2, p)
        /\ ~ (p < C) /\ p < C + G => LetterAt(g1, p - C) = LetterAt(g2, p - C)
        /\ ~ (p < C) /\ ~ (p < C + G) => LetterAt(k1, p - (C + G)) = LetterAt(k2, p - (C + G))
  <2>. SUFFICES ASSUME NEW p \in Position
                PROVE  /\ p < C => LetterAt(c1, p) = LetterAt(c2, p)
                       /\ ~ (p < C) /\ p < C + G => LetterAt(g1, p - C) = LetterAt(g2, p - C)
                       /\ ~ (p < C) /\ ~ (p < C + G) =>
                            LetterAt(k1, p - (C + G)) = LetterAt(k2, p - (C + G))
    OBVIOUS
  <2>1. data(c1, g1, k1)[p] = data(c2, g2, k2)[p]
    OBVIOUS
  <2>. QED BY <1>1, <2>1 DEF data
<1>. HIDE DEF C, G, M
<1>4. \A n \in 0 .. C - 1 : LetterAt(c1, n) = LetterAt(c2, n)
  BY <1>1, <1>3 DEF Position
<1>5. ASSUME NEW n \in 0 .. G - 1 PROVE LetterAt(g1, n) = LetterAt(g2, n)
  <2>1. C + n \in Position /\ ~ (C + n < C) /\ C + n < C + G /\ (C + n) - C = n
    BY <1>1 DEF Position
  <2>2. LetterAt(g1, (C + n) - C) = LetterAt(g2, (C + n) - C)
    BY <1>3, <2>1
  <2>. QED BY <2>1, <2>2
<1>6. ASSUME NEW n \in 0 .. M - 1 PROVE LetterAt(k1, n) = LetterAt(k2, n)
  <2>. DEFINE p == (C + G) + n
  <2>1. p \in Position /\ ~ (p < C) /\ ~ (p < C + G) /\ p - (C + G) = n
    BY <1>1 DEF Position
  <2>. HIDE DEF p
  <2>2. LetterAt(k1, p - (C + G)) = LetterAt(k2, p - (C + G))
    BY <1>3, <2>1
  <2>. QED BY <2>1, <2>2
<1>. QED
  BY <1>1, <1>2, <1>4, <1>5, <1>6, LetterAtInjective

-----------------------------------------------------------------------------
(* The sizes, the arguments and the queue of the search *)

LEMMA SizeFacts ==
  /\ repeatCnt \in Nat \ {0} /\ global_work_size \in Nat \ {0}
  /\ combinations \in Nat \ {0} /\ LETTER_COUNT \in Nat \ {0}
  /\ Item # {} /\ Item \subseteq Nat
<1>1. /\ letters_from_cpu \in Nat /\ letters_from_global_id \in Nat
      /\ letters_to_iter_over \in Nat /\ LETTER_COUNT \in Nat \ {0}
  BY SplitAssumption DEF letters_from_cpu
<1>2. /\ repeatCnt \in Nat \ {0} /\ global_work_size \in Nat \ {0}
      /\ combinations \in Nat \ {0}
  BY <1>1, PowFacts DEF repeatCnt, global_work_size, combinations
<1>3. 0 \in Item /\ Item \subseteq Nat
  BY <1>2 DEF Item
<1>. QED
  BY <1>1, <1>2, <1>3

LEMMA LaunchArgsFacts ==
  ASSUME TypeOK
  PROVE  /\ launch_args \in [ArgIndex -> Int]
         /\ launch_args[TARGET_HASH_ARG] = target_hash
         /\ launch_args[CPU_ITER_ARG] = i
<1>1. target_hash \in Int /\ i \in Int
  BY TargetAssumption, BaseAssumption, SizeFacts DEF TypeOK
<1>2. letters_from_global_id \in Int /\ letters_to_iter_over \in Int
  BY SplitAssumption
<1>. QED
  BY <1>1, <1>2 DEF launch_args, ArgIndex, NUM_ARGS, TARGET_HASH_ARG,
                    CPU_ITER_ARG, gpu_buf, gpu_flag

LEMMA LaunchArgsUnchanged ==
  UNCHANGED << i, target_hash >> => launch_args' = launch_args
BY DEF launch_args

\* The queue never holds more than two commands.
LEMMA QueueFacts ==
  ASSUME NEW a, NEW b
  PROVE  /\ Append(<< >>, a) = << a >> /\ Append(<< a >>, b) = << a, b >>
         /\ Tail(<< a >>) = << >> /\ Tail(<< a, b >>) = << b >>
         /\ Head(<< a >>) = a /\ Head(<< a, b >>) = a
         /\ << a >> # << >> /\ << a, b >> # << >>
<1> DEFINE S == {a, b}
<1>1. << a >> \in Seq(S) /\ << a, b >> \in Seq(S)
  OBVIOUS
<1>2. Append(<< a >>, b) \in Seq(S) /\ Len(Append(<< a >>, b)) = 2
  BY <1>1, AppendProperties
<1>3. \A n \in 1 .. 2 : Append(<< a >>, b)[n] = << a, b >>[n]
  BY <1>1, AppendProperties
<1>4. Len(<< a, b >>) = 2
  OBVIOUS
<1>5. Append(<< a >>, b) = << a, b >>
  <2> HIDE DEF S
  <2>. QED BY <1>1, <1>2, <1>3, <1>4, SeqEqual
<1>. QED
  BY <1>5

-----------------------------------------------------------------------------

LEMMA InitInv == Init => IInv
<1>. SUFFICES ASSUME Init PROVE IInv
  OBVIOUS
<1>1. TypeOK
  BY SizeFacts, BaseAssumption
     DEF Init, TypeOK, Char, ArgValue, HostPC, SetupPC, NUM_ARGS, Blank
<1>2. PipelineInv /\ ArgsInv /\ LoopInv /\ FlagInv
  BY DEF Init, PipelineInv, ArgsInv, LoopInv, FlagInv, SetupPC, PendingPC, LaunchPC
<1>3. ItemInv /\ FailedInv
  BY DEF Init, ItemInv, AllItems, Active, LaunchPC, FailedInv
<1>4. BufferInv
  BY DEF Init, BufferInv, Active, LaunchPC
<1>5. TriedInv
  BY SizeFacts DEF Init, TriedInv, Launch
<1>. QED
  BY <1>1, <1>2, <1>3, <1>4, <1>5 DEF IInv

\* A throw keeps everything but the program counter and the reason.
LEMMA ThrowStep ==
  ASSUME IInv, NEW reason \in {"driver", "work_size"}, Throw(reason)
  PROVE  IInv'
<1> USE DEF IInv, Throw, kernelVars, mainVars, argVars, deviceVars, cpuVars
<1>1. TypeOK'
  BY DEF TypeOK, HostPC, Final
<1>2. PipelineInv' /\ ArgsInv' /\ LoopInv' /\ FlagInv'
  BY DEF PipelineInv, ArgsInv, LoopInv, FlagInv, SetupPC, PendingPC, LaunchPC
<1>3. ItemInv' /\ FailedInv'
  BY DEF ItemInv, AllItems, Active, LaunchPC, FailedInv
<1>4. BufferInv'
  BY DEF BufferInv, Active, LaunchPC
<1>5. TriedInv'
  BY DEF TriedInv, Match
<1>. QED
  BY <1>1, <1>2, <1>3, <1>4, <1>5

\* The statements before main's loop: no launch was ever enqueued.
LEMMA SetupStep ==
  ASSUME IInv, Setup \/ WriteBuf \/ WriteFlag \/ CreateKernel
  PROVE  IInv'
<1> USE DEF IInv, Setup, WriteBuf, WriteFlag, CreateKernel, Goto,
            kernelVars, mainVars, argVars, deviceVars, cpuVars
<1>1. TypeOK'
  BY DEF TypeOK, HostPC, SetupPC, LoopPC, NUM_ARGS
<1>2. PipelineInv' /\ ArgsInv' /\ LoopInv'
  BY DEF PipelineInv, ArgsInv, LoopInv, SetupPC, PendingPC, LaunchPC
<1>6. FlagInv'
  BY DEF PipelineInv, FlagInv, SetupPC
<1>3. ItemInv' /\ FailedInv'
  BY DEF ItemInv, AllItems, Active, LaunchPC, FailedInv
<1>4. BufferInv'
  BY DEF BufferInv, Active, LaunchPC
<1>5. TriedInv'
  BY DEF TriedInv, Match
<1>. QED
  BY <1>1, <1>2, <1>3, <1>4, <1>5, <1>6

LEMMA LoopHeadStep ==
  ASSUME IInv, LoopHead
  PROVE  IInv'
<1> USE DEF IInv, LoopHead, Goto, kernelVars, argVars, deviceVars, cpuVars
<1>1. TypeOK'
  <2>1. host_pc' \in {"push", "notfound"} /\ percent_done' \in Nat /\ pushed' = 0
    BY DEF TypeOK
  <2>. QED BY <2>1 DEF TypeOK, HostPC, LoopPC, Final, NUM_ARGS
<1>2. PipelineInv' /\ FlagInv'
  BY DEF PipelineInv, FlagInv, SetupPC
<1>6. ArgsInv'
  BY DEF ArgsInv, ArgIndex, NUM_ARGS, LaunchPC
<1>7. LoopInv'
  BY SizeFacts DEF LoopInv, PendingPC, LaunchPC, TypeOK
<1>3. ItemInv' /\ FailedInv'
  BY DEF ItemInv, AllItems, Active, LaunchPC, FailedInv
<1>4. BufferInv'
  BY DEF BufferInv, Active, LaunchPC
<1>5. TriedInv'
  BY DEF TriedInv, Match
<1>. QED
  BY <1>1, <1>2, <1>3, <1>4, <1>5, <1>6, <1>7

LEMMA PushArgStep ==
  ASSUME IInv, PushArg
  PROVE  IInv'
<1> USE DEF IInv
<1>1. /\ arg_stack_size = pushed /\ pushed \in ArgIndex /\ host_pc = "push"
      /\ \A n \in ArgIndex : n < pushed => kernel_arg[n] = launch_args[n]
  BY DEF PushArg, ArgsInv, TypeOK, ArgIndex, NUM_ARGS
<1>2. /\ kernel_arg' = [kernel_arg EXCEPT ![pushed] = launch_args[pushed]]
      /\ arg_stack_size' = pushed + 1 /\ pushed' = pushed + 1
      /\ host_pc' = IF pushed + 1 = NUM_ARGS THEN "execute" ELSE "push"
      /\ UNCHANGED << kernelVars, target_hash, i, percent_done, deviceVars,
                      cpuVars, failed >>
  BY <1>1 DEF PushArg
<1>3. launch_args' = launch_args
  BY <1>2, LaunchArgsUnchanged
<1> USE DEF kernelVars, deviceVars, cpuVars
<1>4. TypeOK'
  <2>1. kernel_arg' \in [ArgIndex -> ArgValue]
    <3>1. kernel_arg \in [ArgIndex -> ArgValue] /\ launch_args[pushed] \in ArgValue
      BY <1>1, LaunchArgsFacts DEF TypeOK, ArgValue
    <3>. QED BY <1>1, <1>2, <3>1
  <2>2. host_pc' \in HostPC /\ pushed' \in 0 .. NUM_ARGS
        /\ arg_stack_size' \in 0 .. NUM_ARGS
    BY <1>1, <1>2 DEF HostPC, LoopPC, ArgIndex, NUM_ARGS
  <2>. QED BY <1>2, <2>1, <2>2 DEF TypeOK
<1>5. ArgsInv'
  <2>1. \A n \in ArgIndex : n < pushed' => kernel_arg'[n] = launch_args'[n]
    BY <1>1, <1>2, <1>3 DEF ArgIndex, NUM_ARGS, TypeOK
  <2>2. host_pc' = "execute" => kernel_arg' = launch_args'
    <3>1. kernel_arg' \in [ArgIndex -> ArgValue]
      BY <1>4 DEF TypeOK
    <3>2. launch_args \in [ArgIndex -> Int]
      BY LaunchArgsFacts
    <3>3. host_pc' = "execute" => pushed' = NUM_ARGS
      BY <1>2
    <3>. QED BY <1>3, <2>1, <3>1, <3>2, <3>3 DEF ArgIndex, NUM_ARGS
  <2>. QED BY <1>1, <1>2, <2>1, <2>2 DEF ArgsInv, ArgIndex, NUM_ARGS, LaunchPC
<1>6. PipelineInv' /\ LoopInv' /\ FlagInv'
  BY <1>1, <1>2 DEF PipelineInv, LoopInv, FlagInv, SetupPC, PendingPC, LaunchPC
<1>7. ItemInv' /\ FailedInv'
  BY <1>1, <1>2 DEF ItemInv, AllItems, Active, LaunchPC, FailedInv
<1>8. BufferInv'
  BY <1>1, <1>2 DEF BufferInv, Active, LaunchPC
<1>9. TriedInv'
  BY <1>1, <1>2 DEF TriedInv, Match
<1>. QED
  BY <1>4, <1>5, <1>6, <1>7, <1>8, <1>9

LEMMA ExecuteStep ==
  ASSUME IInv, Execute
  PROVE  IInv'
<1> USE DEF IInv
<1>1. /\ host_pc = "execute" /\ host_pc' = "read_flag"
      /\ arg_stack_size' = 0 /\ finish_token' = "queued"
      /\ UNCHANGED << kernelVars, mainVars, kernel_arg, cpuVars, failed >>
  BY DEF Execute, Goto
<1>2. queue' = << LaunchCommand(launch_args) >>
  BY QueueFacts DEF Execute, Goto, PipelineInv, ArgsInv
<1> USE DEF kernelVars, mainVars, cpuVars
<1>3. launch_args' = launch_args
  BY <1>1, LaunchArgsUnchanged
<1>4. TypeOK'
  <2>1. LaunchCommand(launch_args) \in Command
    BY LaunchArgsFacts DEF Command, LaunchCommand, ArgValue
  <2>2. queue' \in Seq(Command)
    BY <1>2, <2>1
  <2>. QED BY <1>1, <2>2 DEF TypeOK, HostPC, LoopPC, NUM_ARGS
<1>5. PipelineInv' /\ ArgsInv'
  BY <1>1, <1>2, <1>3 DEF PipelineInv, ArgsInv, SetupPC
<1>6. LoopInv' /\ FlagInv'
  BY <1>1 DEF LoopInv, FlagInv, SetupPC, PendingPC, LaunchPC
<1>7. ItemInv' /\ FailedInv'
  BY <1>1 DEF ItemInv, AllItems, Active, PipelineInv, FailedInv
<1>8. BufferInv'
  BY <1>1 DEF BufferInv, Active, FlagInv, LaunchPC
<1>9. TriedInv'
  BY <1>1 DEF TriedInv, Match
<1>. QED
  BY <1>4, <1>5, <1>6, <1>7, <1>8, <1>9

\* The two blocking reads: the command goes behind what is enqueued.
LEMMA EnqueueReadStep ==
  ASSUME IInv, ReadFlag \/ ReadBuf
  PROVE  IInv'
<1> USE DEF IInv, Goto
<1>1. \/ /\ host_pc = "read_flag" /\ host_pc' = "wait_flag"
         /\ queue' = Append(queue, ReadFlagCommand)
      \/ /\ host_pc = "read_buf" /\ host_pc' = "wait_buf"
         /\ queue' = Append(queue, ReadBufCommand)
  BY DEF ReadFlag, ReadBuf
<1>2. UNCHANGED << kernelVars, mainVars, argVars, finish_token, cpuVars, failed >>
  BY DEF ReadFlag, ReadBuf
<1> USE DEF kernelVars, mainVars, argVars, cpuVars
<1>3. launch_args' = launch_args
  BY <1>2, LaunchArgsUnchanged
<1>4. PipelineInv'
  BY <1>1, <1>2, <1>3, QueueFacts DEF PipelineInv, SetupPC
<1>5. TypeOK'
  <2>1. LaunchCommand(launch_args) \in Command
    BY LaunchArgsFacts DEF Command, LaunchCommand, ArgValue
  <2>2. ReadFlagCommand \in Command /\ ReadBufCommand \in Command
    BY DEF Command, ReadFlagCommand, ReadBufCommand
  <2>3. queue' \in Seq(Command)
    BY <1>1, <1>3, <1>4, <2>1, <2>2 DEF PipelineInv
  <2>. QED BY <1>1, <1>2, <2>3 DEF TypeOK, HostPC, LoopPC
<1>6. ArgsInv' /\ LoopInv' /\ FlagInv'
  BY <1>1, <1>2 DEF ArgsInv, LoopInv, FlagInv, SetupPC, PendingPC, LaunchPC
<1>7. Active' <=> Active
  BY <1>1, <1>2 DEF Active, LaunchPC
<1>8. ItemInv' /\ FailedInv'
  BY <1>1, <1>2, <1>3, <1>7 DEF ItemInv, AllItems, Match, FailedInv
<1>9. BufferInv'
  <2>1. \A w \in Item : Owner(w) => Owner(w)'
    BY <1>2 DEF Owner, Match
  <2>. QED BY <1>1, <1>2, <1>7, <2>1 DEF BufferInv, LaunchPC
<1>10. TriedInv'
  BY <1>2 DEF TriedInv, Match
<1>. QED
  BY <1>4, <1>5, <1>6, <1>8, <1>9, <1>10

LEMMA CheckFlagStep ==
  ASSUME IInv, CheckFlag
  PROVE  IInv'
<1> USE DEF IInv, Goto
<1>1. /\ host_pc = "check" /\ cpu_flag = found_flag /\ i < repeatCnt
      /\ queue = << >> /\ finish_token = "complete" /\ arg_stack_size = 0
  BY DEF CheckFlag, FlagInv, LoopInv, PendingPC, LaunchPC, PipelineInv, ArgsInv
<1>2. UNCHANGED << kernelVars, target_hash, percent_done, pushed,
                   argVars, deviceVars, cpuVars, failed >>
  BY DEF CheckFlag
<1> USE DEF kernelVars, argVars, deviceVars, cpuVars
<1>3. CASE cpu_flag # 0
  <2>1. host_pc' = "read_buf" /\ i' = i
    BY <1>3 DEF CheckFlag
  <2>2. launch_args' = launch_args
    BY <1>2, <2>1, LaunchArgsUnchanged
  <2>3. TypeOK'
    BY <1>2, <2>1 DEF TypeOK, HostPC, LoopPC
  <2>4. PipelineInv' /\ ArgsInv' /\ LoopInv' /\ FlagInv'
    BY <1>1, <1>2, <1>3, <2>1
       DEF PipelineInv, ArgsInv, LoopInv, FlagInv, SetupPC, PendingPC, LaunchPC,
           TypeOK
  <2>5. Active' <=> Active
    BY <1>1, <1>2, <2>1 DEF Active, LaunchPC
  <2>6. ItemInv' /\ FailedInv'
    BY <1>2, <2>1, <2>2, <2>5 DEF ItemInv, AllItems, Match, FailedInv
  <2>7. BufferInv'
    <3>1. \A w \in Item : Owner(w) => Owner(w)'
      BY <1>2, <2>1 DEF Owner, Match
    <3>. QED BY <1>1, <1>2, <2>1, <2>5, <3>1 DEF BufferInv, LaunchPC
  <2>8. TriedInv'
    BY <1>2, <2>1 DEF TriedInv, Match
  <2>. QED BY <2>3, <2>4, <2>6, <2>7, <2>8
<1>4. CASE cpu_flag = 0
  <2>1. host_pc' = "loop" /\ i' = i + 1
    BY <1>4 DEF CheckFlag
  <2>2. i \in Nat /\ i + 1 \in 0 .. repeatCnt
    BY <1>1, SizeFacts DEF TypeOK
  <2>3. TypeOK'
    BY <1>2, <2>1, <2>2 DEF TypeOK, HostPC, LoopPC
  <2>4. PipelineInv' /\ ArgsInv' /\ LoopInv' /\ FlagInv'
    BY <1>1, <1>2, <1>4, <2>1
       DEF PipelineInv, ArgsInv, LoopInv, FlagInv, SetupPC, PendingPC, LaunchPC
  <2>5. ItemInv' /\ FailedInv'
    BY <1>2, <2>1 DEF ItemInv, AllItems, Active, LaunchPC, FailedInv
  <2>6. BufferInv'
    BY <1>1, <1>2, <2>1 DEF BufferInv, Active, LaunchPC
  <2>7. \A g \in Item, k \in Combination : ~ Match(i, g, k)
    <3>1. Active /\ AllItems("done")
      BY <1>1 DEF Active, LaunchPC, ItemInv
    <3>2. \A g \in Item : item_i[g] = combinations
      BY <1>1, <1>4, <3>1 DEF ItemInv, AllItems
    <3>. QED BY <3>1, <3>2 DEF ItemInv, Combination
  <2>8. TriedInv'
    <3>1. \A c \in Launch : c < i + 1 => c < i \/ c = i
      BY <2>2 DEF Launch
    <3>. QED BY <1>2, <2>1, <2>7, <3>1 DEF TriedInv, Match
  <2>. QED BY <2>3, <2>4, <2>5, <2>6, <2>8
<1>. QED
  BY <1>3, <1>4

LEMMA PrintWordStep ==
  ASSUME IInv, PrintWord
  PROVE  IInv'
<1> USE DEF IInv, PrintWord, Goto, kernelVars, mainVars, argVars, deviceVars, cpuVars
<1>1. TypeOK'
  BY DEF TypeOK, HostPC, Final
<1>2. PipelineInv' /\ ArgsInv' /\ LoopInv' /\ FlagInv'
  BY DEF PipelineInv, ArgsInv, LoopInv, FlagInv, SetupPC, PendingPC, LaunchPC
<1>3. Active' <=> Active
  BY DEF Active, LaunchPC
<1>4. launch_args' = launch_args
  BY LaunchArgsUnchanged
<1>5. ItemInv' /\ FailedInv'
  BY <1>3, <1>4 DEF ItemInv, AllItems, Match, FailedInv
<1>6. BufferInv'
  <2>1. \A w \in Item : Owner(w) => Owner(w)'
    BY DEF Owner, Match
  <2>. QED BY <1>3, <2>1 DEF BufferInv, LaunchPC
<1>7. TriedInv'
  BY DEF TriedInv, Match
<1>. QED
  BY <1>1, <1>2, <1>5, <1>6, <1>7

-----------------------------------------------------------------------------
(* Device steps *)

\* While a launch is pending, the host is where it enqueued that launch.
LEMMA LaunchAtHead ==
  ASSUME TypeOK, PipelineInv, HeadIs("launch")
  PROVE  /\ host_pc \in {"read_flag", "wait_flag"}
         /\ finish_token \in {"queued", "running"}
         /\ \/ host_pc = "read_flag" /\ queue = << LaunchCommand(launch_args) >>
            \/ /\ host_pc = "wait_flag"
               /\ queue = << LaunchCommand(launch_args), ReadFlagCommand >>
<1>1. ReadFlagCommand.op # "launch" /\ ReadBufCommand.op # "launch"
  BY DEF ReadFlagCommand, ReadBufCommand
<1>2. host_pc \notin Final /\ queue # << >> /\ Head(queue).op = "launch"
  BY DEF HeadIs
<1>3. queue # << ReadFlagCommand >> /\ queue # << ReadBufCommand >>
  BY <1>1, <1>2, QueueFacts
<1>4. host_pc \in {"read_flag", "wait_flag"}
  BY <1>2, <1>3 DEF TypeOK, PipelineInv, HostPC, SetupPC, LoopPC, Final
<1>. QED
  BY <1>2, <1>3, <1>4 DEF PipelineInv, SetupPC

LEMMA StartLaunchStep ==
  ASSUME IInv, StartLaunch
  PROVE  IInv'
<1> USE DEF IInv
<1>1. /\ host_pc \in {"read_flag", "wait_flag"} /\ finish_token = "queued"
      /\ Head(queue) = LaunchCommand(launch_args)
  BY LaunchAtHead, QueueFacts DEF StartLaunch
<1>2. /\ launch' = launch_args /\ finish_token' = "running"
      /\ item_pc' = [g \in Item |-> "scan"]
      /\ item_i' = [g \in Item |-> 0] /\ item_pos' = [g \in Item |-> 0]
      /\ UNCHANGED << found_flag, target, host_pc, mainVars, argVars, queue,
                      cpuVars, failed >>
  BY <1>1 DEF StartLaunch, BeginLaunch, LaunchCommand
<1> USE DEF mainVars, argVars, cpuVars
<1>3. launch_args' = launch_args
  BY <1>2, LaunchArgsUnchanged
<1>4. TypeOK'
  BY <1>2, LaunchArgsFacts, SizeFacts DEF TypeOK, ArgValue
<1>5. PipelineInv' /\ ArgsInv' /\ LoopInv' /\ FlagInv'
  BY <1>1, <1>2, <1>3 DEF PipelineInv, ArgsInv, LoopInv, FlagInv, SetupPC
<1>6. ItemInv' /\ FailedInv'
  BY <1>2, <1>3 DEF ItemInv, AllItems, FailedInv
<1>7. BufferInv'
  BY <1>1, <1>2 DEF BufferInv, FlagInv
<1>8. TriedInv'
  BY <1>2 DEF TriedInv, Match
<1>. QED
  BY <1>4, <1>5, <1>6, <1>7, <1>8

\* The launch leaves the queue, completed or killed.
LEMMA EndLaunchStep ==
  ASSUME IInv, FinishLaunch \/ KillLaunch
  PROVE  IInv'
<1> USE DEF IInv
<1>1. /\ host_pc \in {"read_flag", "wait_flag"}
      /\ \/ host_pc = "read_flag" /\ queue' = << >>
         \/ host_pc = "wait_flag" /\ queue' = << ReadFlagCommand >>
  <2>1. HeadIs("launch") /\ queue' = Tail(queue)
    BY DEF FinishLaunch, KillLaunch
  <2>2. \/ host_pc = "read_flag" /\ queue = << LaunchCommand(launch_args) >>
        \/ /\ host_pc = "wait_flag"
           /\ queue = << LaunchCommand(launch_args), ReadFlagCommand >>
    BY <2>1, LaunchAtHead
  <2>3. CASE queue = << LaunchCommand(launch_args) >>
    BY <2>1, <2>2, <2>3
  <2>4. CASE queue = << LaunchCommand(launch_args), ReadFlagCommand >>
    BY <2>1, <2>2, <2>4
  <2>. QED BY <2>2, <2>3, <2>4
<1>2. /\ \/ finish_token = "running" /\ finish_token' = "complete" /\ item_pc' = item_pc
            /\ AllItems("done")
         \/ finish_token' = "error" /\ item_pc' = [g \in Item |-> "done"]
      /\ UNCHANGED << found_flag, target, launch, item_i, item_pos, host_pc,
                      mainVars, argVars, cpuVars, failed >>
  BY DEF FinishLaunch, KillLaunch, kernelVars
<1> USE DEF mainVars, argVars, cpuVars
<1>3. launch_args' = launch_args
  BY <1>2, LaunchArgsUnchanged
<1>4. TypeOK'
  <2>1. ReadFlagCommand \in Command
    BY DEF Command, ReadFlagCommand
  <2>2. << >> \in Seq(Command) /\ << ReadFlagCommand >> \in Seq(Command)
    BY <2>1
  <2>. QED BY <1>1, <1>2, <2>2 DEF TypeOK
<1>5. PipelineInv' /\ ArgsInv' /\ LoopInv' /\ FlagInv'
  BY <1>1, <1>2, <1>3 DEF PipelineInv, ArgsInv, LoopInv, FlagInv, SetupPC, PendingPC,
     LaunchPC
<1>6. Active' => Active /\ item_pc' = item_pc
  BY <1>2 DEF Active
<1>7. ItemInv' /\ FailedInv'
  BY <1>2, <1>3, <1>6 DEF ItemInv, AllItems, Match, FailedInv
<1>8. BufferInv'
  <2>1. ASSUME Active' PROVE \A w \in Item : Owner(w) => Owner(w)'
    BY <1>2, <1>6, <2>1 DEF Owner, Match
  <2>. QED BY <1>1, <1>2, <1>6, <2>1 DEF BufferInv
<1>9. TriedInv'
  BY <1>2 DEF TriedInv, Match
<1>. QED
  BY <1>4, <1>5, <1>7, <1>8, <1>9

\* The two reads complete: the host's copy takes the device's value.
LEMMA CompleteReadFlagStep ==
  ASSUME IInv, CompleteReadFlag
  PROVE  IInv'
<1> USE DEF IInv
<1>1. /\ host_pc = "wait_flag" /\ host_pc' = "check" /\ finish_token = "complete"
      /\ cpu_flag' = found_flag
      /\ UNCHANGED << kernelVars, mainVars, argVars, finish_token, cpu_buf, failed >>
  BY DEF CompleteReadFlag
<1>2. queue' = << >>
  BY <1>1, QueueFacts DEF CompleteReadFlag, PipelineInv
<1> USE DEF kernelVars, mainVars, argVars
<1>3. launch_args' = launch_args
  BY <1>1, LaunchArgsUnchanged
<1>4. TypeOK'
  BY <1>1, <1>2 DEF TypeOK, HostPC, LoopPC
<1>5. PipelineInv' /\ ArgsInv' /\ LoopInv' /\ FlagInv'
  BY <1>1, <1>2 DEF PipelineInv, ArgsInv, LoopInv, FlagInv, SetupPC, PendingPC, LaunchPC
<1>6. Active' <=> Active
  BY <1>1 DEF Active, LaunchPC
<1>7. ItemInv' /\ FailedInv'
  BY <1>1, <1>3, <1>6 DEF ItemInv, AllItems, Match, FailedInv
<1>8. BufferInv'
  <2>1. \A w \in Item : Owner(w) => Owner(w)'
    BY <1>1 DEF Owner, Match
  <2>. QED BY <1>1, <1>6, <2>1 DEF BufferInv, LaunchPC
<1>9. TriedInv'
  BY <1>1 DEF TriedInv, Match
<1>. QED
  BY <1>4, <1>5, <1>7, <1>8, <1>9

LEMMA CompleteReadBufStep ==
  ASSUME IInv, CompleteReadBuf
  PROVE  IInv'
<1> USE DEF IInv
<1>1. /\ host_pc = "wait_buf" /\ host_pc' = "report" /\ cpu_buf' = target
      /\ UNCHANGED << kernelVars, mainVars, argVars, finish_token, cpu_flag, failed >>
  BY DEF CompleteReadBuf
<1>2. queue' = << >>
  BY <1>1, QueueFacts DEF CompleteReadBuf, PipelineInv
<1> USE DEF kernelVars, mainVars, argVars
<1>3. launch_args' = launch_args
  BY <1>1, LaunchArgsUnchanged
<1>4. TypeOK'
  BY <1>1, <1>2 DEF TypeOK, HostPC, LoopPC
<1>5. PipelineInv' /\ ArgsInv' /\ LoopInv' /\ FlagInv'
  BY <1>1, <1>2 DEF PipelineInv, ArgsInv, LoopInv, FlagInv, SetupPC, PendingPC, LaunchPC
<1>6. Active' <=> Active
  BY <1>1 DEF Active, LaunchPC
<1>7. ItemInv' /\ FailedInv'
  BY <1>1, <1>3, <1>6 DEF ItemInv, AllItems, Match, FailedInv
<1>8. BufferInv'
  <2>1. \A w \in Item : Owner(w) => Owner(w)'
    BY <1>1 DEF Owner, Match
  <2>. QED BY <1>1, <1>6, <2>1 DEF BufferInv, LaunchPC
<1>9. TriedInv'
  BY <1>1 DEF TriedInv, Match
<1>. QED
  BY <1>4, <1>5, <1>7, <1>8, <1>9

\* While an item runs, its launch is the one of this turn, on this turn's
\* arguments, and the rest of the program waits.
LEMMA ItemContext ==
  ASSUME IInv, NEW g \in Item, RunItem(g)
  PROVE  /\ host_pc \in {"read_flag", "wait_flag"} /\ finish_token = "running"
         /\ Active /\ Active' /\ launch' = launch /\ launch_args' = launch_args
         /\ item_matches(g) <=> Match(i, g, item_i[g])
         /\ item_data(g) = data(i, g, item_i[g])
         /\ item_i[g] \in Nat /\ item_i[g] <= combinations
         /\ UNCHANGED << launch, host_pc, mainVars, argVars, deviceVars, cpuVars,
                         failed >>
<1> USE DEF IInv
<1>1. HeadIs("launch") /\ finish_token = "running" /\ ItemStep(g)
      /\ UNCHANGED << host_pc, mainVars, argVars, deviceVars, cpuVars, failed >>
  BY DEF RunItem
<1>2. host_pc \in {"read_flag", "wait_flag"}
  BY <1>1, LaunchAtHead
<1>3. launch' = launch
  BY <1>1 DEF ItemStep, Scan, Claim, CopyLetter
<1>4. launch_args' = launch_args
  BY <1>1, LaunchArgsUnchanged DEF mainVars
<1>5. Active /\ Active'
  BY <1>1, <1>2 DEF Active, LaunchPC, deviceVars
<1>6. launch[CPU_ITER_ARG] = i /\ launch[TARGET_HASH_ARG] = target_hash
  BY <1>5, LaunchArgsFacts DEF ItemInv
<1>7. item_i[g] \in Nat /\ item_i[g] <= combinations
  BY SizeFacts DEF TypeOK
<1>. QED
  BY <1>1, <1>2, <1>3, <1>4, <1>5, <1>6, <1>7
     DEF item_matches, item_data, cpu_iter_i, Match

\* An item's step can only disturb TypeOK, ItemInv and BufferInv.
LEMMA ItemFrame ==
  ASSUME IInv, NEW g \in Item, RunItem(g), TypeOK', ItemInv', BufferInv'
  PROVE  IInv'
<1> USE DEF IInv, mainVars, argVars, deviceVars, cpuVars
<1>1. PipelineInv'
  BY ItemContext DEF PipelineInv
<1>2. ArgsInv' /\ LoopInv' /\ FlagInv' /\ FailedInv'
  BY ItemContext
     DEF ArgsInv, LoopInv, FlagInv, FailedInv, SetupPC, PendingPC, LaunchPC
<1>3. TriedInv'
  BY ItemContext DEF TriedInv, Match
<1>. QED
  BY <1>1, <1>2, <1>3

LEMMA ScanStep ==
  ASSUME IInv, NEW g \in Item, RunItem(g), Scan(g)
  PROVE  IInv'
<1> USE DEF IInv, mainVars, argVars, deviceVars, cpuVars
<1>1. /\ item_pc[g] = "scan"
      /\ UNCHANGED << found_flag, target, launch, item_pos >>
  BY DEF Scan
<1>2. \/ /\ item_i[g] = combinations /\ item_i' = item_i
         /\ item_pc' = [item_pc EXCEPT ![g] = "done"]
      \/ /\ item_i[g] < combinations /\ item_i' = item_i /\ Match(i, g, item_i[g])
         /\ item_pc' = [item_pc EXCEPT ![g] = "claim"]
      \/ /\ item_i[g] < combinations /\ item_i' = [item_i EXCEPT ![g] = @ + 1]
         /\ ~ Match(i, g, item_i[g]) /\ item_pc' = item_pc
  BY ItemContext DEF Scan
<1>3. TypeOK'
  <2>1. item_pc' \in [Item -> {"scan", "claim", "copy", "done"}]
    BY <1>2 DEF TypeOK
  <2>2. item_i' \in [Item -> 0 .. combinations]
    BY <1>2, SizeFacts DEF TypeOK
  <2>. QED BY <1>1, <2>1, <2>2, ItemContext DEF TypeOK
<1>4. \A h \in Item \ {g} : item_pc'[h] = item_pc[h] /\ item_i'[h] = item_i[h]
  BY <1>2 DEF TypeOK
<1>5. ItemInv'
  <2>1. \A k \in 0 .. item_i'[g] - 1 : ~ Match(i, g, k)
    <3>1. \A k \in 0 .. item_i[g] - 1 : ~ Match(i, g, k)
      BY ItemContext DEF ItemInv
    <3>2. \/ item_i'[g] = item_i[g]
          \/ /\ item_i'[g] = item_i[g] + 1
             /\ ~ Match(i, g, item_i[g])
      BY <1>2 DEF TypeOK
    <3>. QED BY <3>1, <3>2, ItemContext
  <2>2. /\ item_pc'[g] # "copy"
        /\ item_pc'[g] = "claim" =>
             item_i'[g] < combinations /\ Match(i, g, item_i'[g])
        /\ item_pc'[g] = "done" => item_i'[g] = combinations
    BY <1>1, <1>2 DEF TypeOK
  <2>3. item_pos[g] = 0
    BY <1>1, ItemContext DEF ItemInv
  <2>. QED BY <1>1, <1>4, <2>1, <2>2, <2>3, ItemContext DEF ItemInv, Match
<1>6. BufferInv'
  <2>1. item_pc'[g] # "copy"
    BY <1>1, <1>2 DEF TypeOK
  <2>2. \A w \in Item : Owner(w) => w # g
    BY <1>1 DEF Owner
  <2>3. \A w \in Item : Owner(w) => Owner(w)'
    BY <1>1, <1>4, <2>1, <2>2, ItemContext DEF Owner, Match
  <2>. QED BY <1>1, <2>3, ItemContext DEF BufferInv
<1>. QED
  BY <1>3, <1>5, <1>6, ItemFrame

LEMMA ClaimStep ==
  ASSUME IInv, NEW g \in Item, RunItem(g), Claim(g)
  PROVE  IInv'
<1> USE DEF IInv, mainVars, argVars, deviceVars, cpuVars
<1>1. /\ item_pc[g] = "claim" /\ item_pos[g] = 0
      /\ item_i[g] < combinations /\ Match(i, g, item_i[g])
      /\ UNCHANGED << target, launch, item_i, item_pos >>
  BY ItemContext DEF Claim, ItemInv
<1>2. \/ /\ found_flag = 0 /\ found_flag' = 1
         /\ item_pc' = [item_pc EXCEPT ![g] = "copy"]
      \/ /\ found_flag = 1 /\ found_flag' = 1
         /\ item_pc' = [item_pc EXCEPT ![g] = "done"]
  BY DEF Claim, TypeOK
<1>3. TypeOK'
  <2>1. item_pc' \in [Item -> {"scan", "claim", "copy", "done"}]
    BY <1>2 DEF TypeOK
  <2>. QED BY <1>1, <1>2, <2>1, ItemContext DEF TypeOK
<1>4. /\ \A h \in Item \ {g} : item_pc'[h] = item_pc[h]
      /\ item_pc'[g] = IF found_flag = 0 THEN "copy" ELSE "done"
  BY <1>2 DEF TypeOK
<1>5. ItemInv'
  BY <1>1, <1>2, <1>4, ItemContext DEF ItemInv, Match
<1>6. BufferInv'
  <2>1. CASE found_flag = 0
    <3>1. target = Blank
      BY <2>1, ItemContext DEF BufferInv, LaunchPC
    <3>2. \A h \in Item : item_pc[h] # "copy"
      BY <2>1, ItemContext DEF ItemInv
    <3>3. Owner(g)'
      BY <1>1, <1>4, <2>1, <3>1, <3>2, ItemContext DEF Owner, Match, Blank, Position
    <3>. QED BY <1>1, <1>2, <3>3, ItemContext DEF BufferInv
  <2>2. CASE found_flag = 1
    <3>1. \A w \in Item : Owner(w) => w # g
      BY <1>1 DEF Owner
    <3>2. \A w \in Item : Owner(w) => Owner(w)'
      BY <1>1, <1>4, <2>2, <3>1, ItemContext DEF Owner, Match
    <3>. QED BY <1>1, <1>2, <2>2, <3>2, ItemContext DEF BufferInv
  <2>. QED BY <1>2, <2>1, <2>2
<1>. QED
  BY <1>3, <1>5, <1>6, ItemFrame

LEMMA CopyLetterStep ==
  ASSUME IInv, NEW g \in Item, RunItem(g), CopyLetter(g)
  PROVE  IInv'
<1> USE DEF IInv, mainVars, argVars, deviceVars, cpuVars
<1>1. /\ item_pc[g] = "copy" /\ found_flag = 1
      /\ item_i[g] < combinations /\ Match(i, g, item_i[g])
      /\ UNCHANGED << found_flag, launch, item_i >>
  BY ItemContext DEF CopyLetter, ItemInv
<1>2. \/ /\ item_pos[g] < LETTER_COUNT /\ item_pc' = item_pc
         /\ target' = [target EXCEPT ![item_pos[g]] =
                         data(i, g, item_i[g])[item_pos[g]]]
         /\ item_pos' = [item_pos EXCEPT ![g] = @ + 1]
      \/ /\ item_pos[g] = LETTER_COUNT /\ target' = target /\ item_pos' = item_pos
         /\ item_pc' = [item_pc EXCEPT ![g] = "done"]
  BY ItemContext DEF CopyLetter
<1>3. item_pos[g] \in Nat /\ item_pos[g] <= LETTER_COUNT
  BY SizeFacts DEF TypeOK
<1>4. data(i, g, item_i[g]) \in Words
  BY DataFacts, SizeFacts, ItemContext DEF TypeOK
<1>5. TypeOK'
  <2>1. item_pc' \in [Item -> {"scan", "claim", "copy", "done"}]
    BY <1>2 DEF TypeOK
  <2>2. item_pos' \in [Item -> 0 .. LETTER_COUNT]
    BY <1>2, <1>3, SizeFacts DEF TypeOK
  <2>3. target' \in [Position -> Char]
    <3>1. target \in [Position -> Char]
      BY DEF TypeOK
    <3>2. CASE item_pos[g] < LETTER_COUNT
      <4>1. item_pos[g] \in Position
        BY <1>3, <3>2, SizeFacts DEF Position
      <4>2. data(i, g, item_i[g])[item_pos[g]] \in Char
        BY <1>4, <4>1 DEF Words, Char
      <4> QED BY <1>2, <3>1, <3>2, <4>2
    <3>. QED BY <1>2, <1>3, <3>1, <3>2
  <2>. QED BY <1>1, <2>1, <2>2, <2>3, ItemContext DEF TypeOK
<1>6. /\ \A h \in Item \ {g} : item_pc'[h] = item_pc[h] /\ item_pos'[h] = item_pos[h]
      /\ item_pc'[g] \in {"copy", "done"}
      /\ item_pc'[g] = "done" => item_pos'[g] = LETTER_COUNT
  BY <1>1, <1>2 DEF TypeOK
<1>7. ItemInv'
  BY <1>1, <1>6, ItemContext DEF ItemInv, Match
<1>8. Owner(g)
  BY <1>1, ItemContext DEF BufferInv, Owner
<1>9. Owner(g)'
  <2>1. ASSUME NEW p \in Position
        PROVE  target'[p] = IF p < item_pos'[g] THEN data(i, g, item_i[g])[p] ELSE 0
    <3>1. target[p] = IF p < item_pos[g] THEN data(i, g, item_i[g])[p] ELSE 0
      BY <1>8 DEF Owner
    <3>2. CASE item_pos[g] < LETTER_COUNT
      <4>1. target' = [target EXCEPT ![item_pos[g]] =
                         data(i, g, item_i[g])[item_pos[g]]]
            /\ item_pos'[g] = item_pos[g] + 1
        BY <1>2, <3>2 DEF TypeOK
      <4>2. p < item_pos[g] + 1 <=> p < item_pos[g] \/ p = item_pos[g]
        BY <1>3 DEF Position
      <4>. QED BY <3>1, <4>1, <4>2 DEF TypeOK
    <3>3. CASE item_pos[g] = LETTER_COUNT
      BY <1>2, <3>1, <3>3, SizeFacts
    <3>. QED BY <1>2, <3>2, <3>3
  <2>. QED BY <1>1, <1>6, <1>8, <2>1, ItemContext DEF Owner, Match
<1>10. BufferInv'
  BY <1>1, <1>9, ItemContext DEF BufferInv
<1>. QED
  BY <1>5, <1>7, <1>10, ItemFrame

-----------------------------------------------------------------------------

LEMMA StepInv == IInv /\ [Next]_vars => IInv'
<1>. SUFFICES ASSUME IInv, [Next]_vars PROVE IInv'
  OBVIOUS
<1>1. CASE HostStep
  BY <1>1, SetupStep, LoopHeadStep, PushArgStep, ExecuteStep, EnqueueReadStep,
     CheckFlagStep, PrintWordStep DEF HostStep
<1>2. CASE HostFault
  BY <1>2, ThrowStep DEF HostFault, CallFails, ExecuteRefused
<1>3. CASE DeviceStep \/ KillLaunch
  BY <1>3, StartLaunchStep, EndLaunchStep, CompleteReadFlagStep,
     CompleteReadBufStep, ThrowStep DEF DeviceStep, ReadFlagFails
<1>4. CASE \E g \in Item : RunItem(g)
  BY <1>4, ScanStep, ClaimStep, CopyLetterStep DEF RunItem, ItemStep
<1>5. CASE UNCHANGED vars
  <2> USE <1>5 DEF vars, kernelVars, mainVars, argVars, deviceVars, cpuVars, IInv
  <2>1. launch_args' = launch_args /\ (Active' <=> Active)
    BY LaunchArgsUnchanged DEF Active
  <2>2. TypeOK' /\ LoopInv' /\ FlagInv' /\ FailedInv' /\ TriedInv'
    BY DEF TypeOK, LoopInv, FlagInv, FailedInv, TriedInv, Match
  <2>3. PipelineInv' /\ ArgsInv'
    BY <2>1 DEF PipelineInv, ArgsInv
  <2>4. ItemInv'
    BY <2>1 DEF ItemInv, AllItems, Match
  <2>5. BufferInv'
    <3>1. \A w \in Item : Owner(w) => Owner(w)'
      BY DEF Owner, Match
    <3>. QED BY <2>1, <3>1 DEF BufferInv
  <2>. QED BY <2>2, <2>3, <2>4, <2>5
<1>. QED
  BY <1>1, <1>2, <1>3, <1>4, <1>5 DEF Next, Terminated

\* The strengthening is an invariant.
THEOREM Invariance == Spec => []IInv
<1>1. Init => IInv
  BY InitInv
<1>2. IInv /\ [Next]_vars => IInv'
  BY StepInv
<1>. QED
  BY <1>1, <1>2, PTL DEF Spec

-----------------------------------------------------------------------------
(* What follows from it *)

(***************************************************************************)
(* Type correctness, for every size of the search.                         *)
(***************************************************************************)
THEOREM TypeCorrect == Spec => []TypeOK
<1>1. IInv => TypeOK
  BY DEF IInv
<1>. QED
  BY <1>1, Invariance, PTL

(***************************************************************************)
(* The word main prints hashes to the target and is a word of the search   *)
(* space: the winner's Match is about the reference hash by HashSplit, and *)
(* target is exactly the winner's buffer once the launch completed.        *)
(***************************************************************************)
THEOREM ReportIsCorrect == Spec => []ReportedWordCorrect
<1>1. IInv => ReportedWordCorrect
  <2>1. SUFFICES ASSUME IInv, host_pc = "found"
                 PROVE  cpu_buf \in Words /\ Hash(cpu_buf) = target_hash
    BY DEF ReportedWordCorrect
  <2> USE DEF IInv
  <2>2. Active /\ AllItems("done") /\ found_flag = 1 /\ cpu_buf = target
    BY <2>1 DEF PipelineInv, Active, LaunchPC, ItemInv, FlagInv, BufferInv
  <2>3. PICK w \in Item : Owner(w)
    BY <2>1, <2>2 DEF BufferInv
  <2> DEFINE word == data(i, w, item_i[w])
  <2>4. i \in Nat /\ w \in Nat /\ item_i[w] \in Nat
    BY <2>1, SizeFacts DEF TypeOK
  <2>5. word \in Words
    BY <2>4, DataFacts
  <2>6. \A p \in Position : target[p] = word[p]
    BY <2>2, <2>3, SizeFacts DEF Owner, AllItems, Position
  <2>7. target = word
    <3> HIDE DEF word
    <3>. QED BY <2>1, <2>5, <2>6 DEF TypeOK, Words
  <2>8. Hash(word) = target_hash
    BY <2>3, <2>4, HashSplit DEF Owner, Match
  <2>. QED BY <2>2, <2>5, <2>7, <2>8
<1>. QED
  BY <1>1, Invariance, PTL

(***************************************************************************)
(* When main's loop runs out, no word hashes to the target: every launch   *)
(* tried its words (TriedInv) and the launches cover all words (Coverage). *)
(***************************************************************************)
THEOREM SearchIsExhaustive == Spec => []NotFoundIsExhaustive
<1>1. IInv => NotFoundIsExhaustive
  <2>1. SUFFICES ASSUME IInv, host_pc = "notfound", NEW w \in Words
                 PROVE  Hash(w) # target_hash
    BY DEF NotFoundIsExhaustive
  <2>2. PICK c \in Launch, g \in Item, k \in Combination : data(c, g, k) = w
    BY Coverage
  <2>3. c \in Nat /\ g \in Nat /\ k \in Nat /\ c < i
    BY <2>1, SizeFacts DEF IInv, LoopInv, Launch, Item, Combination
  <2>4. hash_value(c, g, k) # target_hash
    BY <2>1, <2>3 DEF IInv, TriedInv, Match
  <2>. QED BY <2>2, <2>3, <2>4, HashSplit
<1>. QED
  BY <1>1, Invariance, PTL

\* Outside an abort, what is enqueued is spelled out by PipelineInv.
LEMMA FreshUnlessAborted ==
  ASSUME TypeOK, PipelineInv, host_pc # "aborted"
  PROVE  LaunchArgsFresh
<1>1. \/ queue = << >> \/ queue = << ReadFlagCommand >> \/ queue = << ReadBufCommand >>
      \/ queue = << LaunchCommand(launch_args) >>
      \/ queue = << LaunchCommand(launch_args), ReadFlagCommand >>
  BY DEF TypeOK, PipelineInv, HostPC, SetupPC, LoopPC, Final
<1>2. /\ ReadFlagCommand.op # "launch" /\ ReadBufCommand.op # "launch"
      /\ LaunchCommand(launch_args).args = launch_args
  BY DEF ReadFlagCommand, ReadBufCommand, LaunchCommand
<1>3. SUFFICES ASSUME NEW n \in 1 .. Len(queue), queue[n].op = "launch"
               PROVE  queue[n].args = launch_args
  BY DEF LaunchArgsFresh
<1>4. queue[n] \in {LaunchCommand(launch_args), ReadFlagCommand, ReadBufCommand}
  <2>1. CASE queue = << >>
    BY <1>3, <2>1
  <2>2. CASE queue = << ReadFlagCommand >> \/ queue = << ReadBufCommand >>
    BY <1>3, <2>2
  <2>3. CASE queue = << LaunchCommand(launch_args) >>
    BY <1>3, <2>3
  <2>4. CASE queue = << LaunchCommand(launch_args), ReadFlagCommand >>
    BY <1>3, <2>4
  <2>. QED BY <1>1, <2>1, <2>2, <2>3, <2>4
<1>. QED
  BY <1>2, <1>3, <1>4

(***************************************************************************)
(* No launch runs on an argument of an earlier turn of the loop.           *)
(***************************************************************************)
THEOREM ArgumentsFresh == Spec => []LaunchArgsFresh
<1>1. Init => LaunchArgsFresh
  BY DEF Init, LaunchArgsFresh
<1>2. ASSUME LaunchArgsFresh, [Next]_vars, IInv'
      PROVE  LaunchArgsFresh'
  <2>1. CASE host_pc' # "aborted"
    <3>1. (TypeOK /\ PipelineInv /\ host_pc # "aborted" => LaunchArgsFresh)'
      BY FreshUnlessAborted, PTL
    <3>. QED BY <1>2, <2>1, <3>1 DEF IInv
  <2>2. CASE host_pc' = "aborted"
    <3>1. UNCHANGED << queue, i, target_hash >>
      <4>1. ASSUME NEW g \in Item, RunItem(g)
            PROVE  UNCHANGED << queue, i, target_hash >>
        BY <4>1 DEF RunItem, mainVars, deviceVars
      <4>2. CASE HostStep
        BY <2>2, <4>2
           DEF HostStep, Setup, WriteBuf, WriteFlag, CreateKernel, LoopHead, PushArg,
               Execute, ReadFlag, ReadBuf, CheckFlag, PrintWord, Goto, Throw,
               mainVars, deviceVars
      <4>3. CASE HostFault
        BY <4>3 DEF HostFault, CallFails, ExecuteRefused, Throw, mainVars, deviceVars
      <4>4. CASE DeviceStep \/ KillLaunch
        BY <2>2, <4>4
           DEF DeviceStep, StartLaunch, FinishLaunch, KillLaunch, CompleteReadFlag,
               ReadFlagFails, CompleteReadBuf, HeadIs, Final, Throw, mainVars,
               deviceVars
      <4>5. CASE UNCHANGED vars
        BY <4>5 DEF vars, mainVars, deviceVars
      <4>. QED BY <1>2, <4>1, <4>2, <4>3, <4>4, <4>5 DEF Next, Terminated
    <3>2. launch_args' = launch_args
      BY <3>1, LaunchArgsUnchanged
    <3>. QED BY <1>2, <3>1, <3>2 DEF LaunchArgsFresh
  <2>. QED BY <2>1, <2>2
<1>. QED
  BY <1>1, <1>2, Invariance, PTL DEF Spec

(***************************************************************************)
(* From the test of cpu_flag on, the launch it is about is over, without   *)
(* error, and the flag is what the host read.                              *)
(***************************************************************************)
THEOREM HostWaitsForLaunch == Spec => []HostSeesFinishedLaunch
<1>1. IInv => HostSeesFinishedLaunch
  BY DEF IInv, HostSeesFinishedLaunch, PipelineInv, ItemInv, FlagInv
<1>. QED
  BY <1>1, Invariance, PTL

(***************************************************************************)
(* The program's own argument indices never make it throw.                 *)
(***************************************************************************)
THEOREM AbortIsCaused == Spec => []AbortHasCause
<1>1. IInv => AbortHasCause
  BY DEF IInv, TypeOK, FailedInv, AbortHasCause
<1>. QED
  BY <1>1, Invariance, PTL

(***************************************************************************)
(* A stored letter is never overwritten: the only writers of target are    *)
(* the first blocking write, over indeterminate bytes, and the item that   *)
(* won the exchange, which writes every position once.                     *)
(***************************************************************************)
THEOREM LettersStay == Spec => NoOverwrite
<1> DEFINE Stays == \A p \in Position : target[p] \in Alphabet => target'[p] = target[p]
<1>1. IInv /\ [Next]_vars => Stays
  <2>1. SUFFICES ASSUME IInv, [Next]_vars, NEW p \in Position, target[p] \in Alphabet
                 PROVE  target'[p] = target[p]
    OBVIOUS
  <2>2. CASE target' = target
    BY <2>2
  <2>3. ASSUME WriteBuf PROVE FALSE
    <3>1. target[p] = Garbage
      BY <2>1, <2>3 DEF IInv, BufferInv, WriteBuf, Goto
    <3>. QED BY <2>1, <3>1, GarbageAssumption
  <2>4. ASSUME NEW g \in Item, RunItem(g), CopyLetter(g)
        PROVE  target'[p] = target[p]
    <3>1. Owner(g) /\ item_pc[g] = "copy"
      <4>1. item_pc[g] = "copy" /\ Active
        BY <2>1, <2>4, ItemContext DEF CopyLetter
      <4>2. found_flag = 1
        BY <2>1, <4>1 DEF IInv, ItemInv
      <4>3. PICK w \in Item : Owner(w)
        BY <2>1, <4>1, <4>2 DEF IInv, BufferInv
      <4>. QED BY <4>1, <4>3 DEF Owner
    <3>2. item_pos[g] # p
      <4>1. item_pos[g] = p => target[p] = 0
        BY <3>1, SizeFacts DEF Owner, Position
      <4>. QED BY <2>1, <4>1, ZeroNotInAlphabet
    <3>3. target \in [Position -> Char]
      BY <2>1 DEF IInv, TypeOK
    <3>. QED BY <2>4, <3>2, <3>3 DEF CopyLetter
  <2>5. \/ target' = target \/ WriteBuf
        \/ \E g \in Item : RunItem(g) /\ CopyLetter(g)
    <3>1. CASE HostStep
      BY <3>1 DEF HostStep, Setup, WriteFlag, CreateKernel, LoopHead, PushArg, Execute,
                  ReadFlag, ReadBuf, CheckFlag, PrintWord, Throw, kernelVars
    <3>2. CASE HostFault
      BY <3>2 DEF HostFault, CallFails, ExecuteRefused, Throw, kernelVars
    <3>3. CASE DeviceStep \/ KillLaunch
      BY <3>3 DEF DeviceStep, StartLaunch, BeginLaunch, FinishLaunch, KillLaunch,
                  CompleteReadFlag, ReadFlagFails, CompleteReadBuf, Throw, kernelVars
    <3>4. ASSUME NEW g \in Item, RunItem(g)
          PROVE  target' = target \/ (RunItem(g) /\ CopyLetter(g))
      BY <3>4 DEF RunItem, ItemStep, Scan, Claim
    <3>5. CASE UNCHANGED vars
      BY <3>5 DEF vars, kernelVars
    <3>. QED BY <2>1, <3>1, <3>2, <3>3, <3>4, <3>5 DEF Next, Terminated
  <2>. QED BY <2>2, <2>3, <2>4, <2>5
<1>2. IInv /\ [Next]_vars => [Stays]_vars
  BY <1>1
<1>. QED
  BY <1>2, Invariance, PTL DEF Spec, NoOverwrite

-----------------------------------------------------------------------------
(* The search implements WordSearch *)

Matches == {w \in Words : Hash(w) = target_hash}
Outcome == IF host_pc \in Final THEN host_pc ELSE "searching"
Answer  == IF host_pc = "found" THEN {cpu_buf} ELSE {}

\* A step that WordSearch does not see.
Quiet ==
  /\ UNCHANGED << i, target_hash >>
  /\ host_pc' = host_pc \/ (host_pc \notin Final /\ host_pc' \notin Final)
  /\ host_pc = "found" => UNCHANGED cpu_buf

LEMMA QuietStutters == Quiet => UNCHANGED << Matches, TriedWords, Outcome, Answer >>
<1>. SUFFICES ASSUME Quiet PROVE UNCHANGED << Matches, TriedWords, Outcome, Answer >>
  OBVIOUS
<1>1. Matches' = Matches /\ TriedWords' = TriedWords
  BY DEF Quiet, Matches, TriedWords
<1>2. Outcome' = Outcome /\ Answer' = Answer
  BY DEF Quiet, Outcome, Answer, Final
<1>. QED
  BY <1>1, <1>2

LEMMA ThrowRefines ==
  ASSUME host_pc \notin Final, NEW reason, Throw(reason)
  PROVE  Search!Fail
<1>1. Matches' = Matches /\ TriedWords' = TriedWords
  BY DEF Throw, mainVars, Matches, TriedWords
<1>2. Outcome = "searching" /\ Outcome' = "aborted" /\ Answer = {} /\ Answer' = {}
  BY DEF Throw, Outcome, Answer, Final
<1>. QED
  BY <1>1, <1>2 DEF Search!Fail, Matches, Outcome, Answer

\* What main tried in the turns it finished are words, and none of them matches.
LEMMA TriedFacts ==
  ASSUME IInv
  PROVE  TriedWords \subseteq Words /\ TriedWords \cap Matches = {}
<1>1. ASSUME NEW c \in 0 .. i - 1, NEW g \in Item, NEW k \in Combination
      PROVE  data(c, g, k) \in Words /\ Hash(data(c, g, k)) # target_hash
  <2>1. c \in Nat /\ g \in Nat /\ k \in Nat /\ c \in Launch /\ c < i
    BY SizeFacts DEF IInv, TypeOK, Launch, Item, Combination
  <2>2. hash_value(c, g, k) # target_hash
    BY <2>1 DEF IInv, TriedInv, Match
  <2>. QED BY <2>1, <2>2, DataFacts, HashSplit
<1>. QED
  BY <1>1 DEF TriedWords, Matches

\* A turn of the loop that finds the flag clear rules its words out.
LEMMA CheckFlagRefines ==
  ASSUME IInv, IInv', CheckFlag
  PROVE  Search!RuleOut \/ Quiet
<1>1. CASE cpu_flag # 0
  BY <1>1 DEF CheckFlag, Goto, Quiet, Final, cpuVars
<1>2. CASE cpu_flag = 0
  <2>1. host_pc = "check" /\ host_pc' = "loop" /\ i' = i + 1 /\ target_hash' = target_hash
    BY <1>2 DEF CheckFlag, Goto
  <2>2. Outcome = "searching" /\ Outcome' = Outcome /\ Answer' = Answer /\ Matches' = Matches
    BY <2>1 DEF Outcome, Answer, Matches, Final
  <2>3. TriedWords \subseteq TriedWords'
    <3>1. 0 .. i - 1 \subseteq 0 .. i' - 1
      BY <2>1, SizeFacts DEF IInv, TypeOK
    <3>. QED BY <3>1 DEF TriedWords
  <2>4. TriedWords' \subseteq Words /\ TriedWords' \cap Matches' = {}
    <3>1. (IInv => TriedWords \subseteq Words /\ TriedWords \cap Matches = {})'
      BY TriedFacts, PTL
    <3>. QED BY <3>1
  <2>. QED BY <2>2, <2>3, <2>4 DEF Search!RuleOut, Matches, Outcome, Answer
<1>. QED
  BY <1>1, <1>2

LEMMA LoopHeadRefines ==
  ASSUME IInv, LoopHead
  PROVE  Search!GiveUp \/ Quiet
<1>1. CASE i < repeatCnt
  BY <1>1 DEF LoopHead, Goto, Quiet, Final
<1>2. CASE ~ (i < repeatCnt)
  <2>1. /\ host_pc = "loop" /\ host_pc' = "notfound"
        /\ UNCHANGED << i, target_hash >> /\ i = repeatCnt
    BY <1>2, SizeFacts DEF LoopHead, Goto, IInv, TypeOK
  <2>2. Words \subseteq TriedWords
    BY <2>1, Coverage DEF TriedWords, Launch
  <2>3. TriedWords = Words
    BY <2>2, TriedFacts
  <2>4. Matches' = Matches /\ TriedWords' = TriedWords
    BY <2>1 DEF Matches, TriedWords
  <2>5. Outcome = "searching" /\ Outcome' = "notfound" /\ Answer = {} /\ Answer' = {}
    BY <2>1 DEF Outcome, Answer, Final
  <2>. QED BY <2>3, <2>4, <2>5 DEF Search!GiveUp, Matches, Outcome, Answer
<1>. QED
  BY <1>1, <1>2

LEMMA PrintWordRefines ==
  ASSUME ReportedWordCorrect', PrintWord
  PROVE  \E w \in Words : Search!Report(w)
<1>1. /\ host_pc = "report" /\ host_pc' = "found"
      /\ UNCHANGED << i, target_hash, cpu_buf >>
  BY DEF PrintWord, Goto, mainVars, cpuVars
<1>2. cpu_buf \in Words /\ cpu_buf \in Matches
  BY <1>1 DEF ReportedWordCorrect, Matches
<1>3. Matches' = Matches /\ TriedWords' = TriedWords
  BY <1>1 DEF Matches, TriedWords
<1>4. Outcome = "searching" /\ Outcome' = "found" /\ Answer' = {cpu_buf}
  BY <1>1 DEF Outcome, Answer, Final
<1>5. Search!Report(cpu_buf)
  BY <1>2, <1>3, <1>4 DEF Search!Report, Matches, Outcome, Answer
<1>. QED
  BY <1>2, <1>5

\* Every other step changes nothing that WordSearch sees, or throws.
LEMMA OtherStepsRefine ==
  ASSUME IInv, [Next]_vars, ~ CheckFlag, ~ LoopHead, ~ PrintWord
  PROVE  Search!Fail \/ Quiet
<1>1. CASE HostStep
  <2>1. CASE PushArg /\ arg_stack_size \notin ArgIndex
    BY <2>1, ThrowRefines DEF PushArg, Final
  <2>2. CASE ~ (PushArg /\ arg_stack_size \notin ArgIndex)
    BY <1>1, <2>2
       DEF HostStep, Setup, WriteBuf, WriteFlag, CreateKernel, PushArg, Execute,
           ReadFlag, ReadBuf, Goto, Quiet, Final, mainVars
  <2>. QED BY <2>1, <2>2
<1>2. CASE HostFault
  <2>1. host_pc \notin Final
    BY <1>2 DEF HostFault, CallFails, ExecuteRefused, CallPC, SetupPC, Final
  <2>. QED BY <1>2, <2>1, ThrowRefines DEF HostFault, CallFails, ExecuteRefused
<1>3. CASE ReadFlagFails
  BY <1>3, ThrowRefines DEF ReadFlagFails, HeadIs
<1>4. CASE StartLaunch \/ FinishLaunch \/ KillLaunch \/ CompleteReadFlag \/ CompleteReadBuf
  BY <1>4 DEF StartLaunch, FinishLaunch, KillLaunch, CompleteReadFlag, CompleteReadBuf,
              HeadIs, Quiet, Final, mainVars, cpuVars
<1>5. ASSUME NEW g \in Item, RunItem(g) PROVE Quiet
  BY <1>5 DEF RunItem, HeadIs, Quiet, mainVars, cpuVars
<1>6. CASE UNCHANGED vars
  BY <1>6 DEF Quiet, vars, mainVars, cpuVars
<1>. QED
  BY <1>1, <1>2, <1>3, <1>4, <1>5, <1>6 DEF Next, DeviceStep, Terminated

(***************************************************************************)
(* The search does what WordSearch promises: main's turns rule out words   *)
(* that do not match, until it reports one that does, gives up with all of *)
(* them ruled out, or is made to fail.                                     *)
(***************************************************************************)
THEOREM SearchIsWordSearch == Spec => RefinesWordSearch
<1>1. Init => Search!SearchInit
  <2>. SUFFICES ASSUME Init PROVE Search!SearchInit
    OBVIOUS
  <2>1. TriedWords = {} /\ Outcome = "searching" /\ Answer = {}
    BY DEF Init, TriedWords, Outcome, Answer, Final
  <2>. QED BY <2>1 DEF Search!SearchInit, Outcome, Answer
<1>2. ASSUME IInv, IInv', ReportedWordCorrect', [Next]_vars
      PROVE  Search!SearchNext \/ UNCHANGED << Matches, TriedWords, Outcome, Answer >>
  <2>1. CASE CheckFlag
    BY <1>2, <2>1, CheckFlagRefines, QuietStutters DEF Search!SearchNext
  <2>2. CASE LoopHead
    BY <1>2, <2>2, LoopHeadRefines, QuietStutters DEF Search!SearchNext
  <2>3. CASE PrintWord
    BY <1>2, <2>3, PrintWordRefines DEF Search!SearchNext
  <2>4. CASE ~ CheckFlag /\ ~ LoopHead /\ ~ PrintWord
    BY <1>2, <2>4, OtherStepsRefine, QuietStutters DEF Search!SearchNext
  <2>. QED BY <2>1, <2>2, <2>3, <2>4
<1>3. ASSUME IInv, IInv', ReportedWordCorrect', [Next]_vars
      PROVE  [Search!SearchNext]_(Search!searchVars)
  BY <1>2, <1>3 DEF Search!searchVars, Matches, Outcome, Answer
<1>. QED
  BY <1>1, <1>3, Invariance, ReportIsCorrect, PTL
     DEF Spec, RefinesWordSearch, Search!SearchSpec

-----------------------------------------------------------------------------
(* The percentage *)

\* One percentage is printed at every multiple of repeats_per_percent.
ProgressInv ==
  /\ (percent_done - 1) * repeats_per_percent <= i
  /\ host_pc \in SetupPC \cup {"loop"} =>
       /\ (percent_done - 1) * repeats_per_percent < i
       /\ i <= percent_done * repeats_per_percent
  /\ host_pc \in PendingPC => i < percent_done * repeats_per_percent

\* The + 1 of repeats_per_percent: a hundred of them exceed all the launches.
LEMMA PercentFacts ==
  /\ repeats_per_percent \in Nat \ {0}
  /\ repeatCnt < 100 * repeats_per_percent
BY SizeFacts DEF repeats_per_percent

LEMMA ProductOrder ==
  ASSUME NEW a \in Int, NEW b \in Int, NEW q \in Nat \ {0}
  PROVE  /\ a * q < b * q <=> a < b
         /\ a <= b => a * q <= b * q
         /\ (a + 1) * q = a * q + q
OBVIOUS

\* Between one multiple of q and the next there is none, but the next itself.
LEMMA NextMultiple ==
  ASSUME NEW n \in Nat, NEW p \in Nat, NEW q \in Nat \ {0},
         (p - 1) * q < n, n <= p * q, n % q = 0
  PROVE  n = p * q
<1> DEFINE r == n \div q
<1>1. n = r * q + (n % q) /\ r \in Int
  OBVIOUS
<1>. HIDE DEF r
<1>2. n = r * q /\ p \in Int /\ p - 1 \in Int
  BY <1>1
<1>3. p - 1 < r /\ r <= p
  <2>1. (p - 1) * q < r * q /\ r * q <= p * q
    BY <1>2
  <2>2. ~ (p < r)
    BY <1>1, <1>2, <2>1, ProductOrder
  <2>. QED BY <1>1, <1>2, <2>1, <2>2, ProductOrder
<1>. QED
  BY <1>1, <1>2, <1>3

LEMMA ProgressStep ==
  ASSUME IInv, ProgressInv, [Next]_vars
  PROVE  ProgressInv'
<1> DEFINE q == repeats_per_percent
<1>1. /\ q \in Nat \ {0} /\ q' = q /\ i \in Nat /\ percent_done \in Nat
      /\ percent_done * q \in Int /\ (percent_done - 1) * q \in Int
  BY PercentFacts, SizeFacts DEF repeats_per_percent, IInv, TypeOK
<1>2. CASE LoopHead
  <2>1. host_pc = "loop" /\ i' = i /\ (percent_done - 1) * q < i /\ i <= percent_done * q
    BY <1>2 DEF LoopHead, Goto, ProgressInv
  <2>2. CASE i < repeatCnt /\ i % q = 0
    <3>1. i = percent_done * q
      BY <1>1, <2>1, <2>2, NextMultiple
    <3>2. percent_done' = percent_done + 1 /\ host_pc' = "push"
      BY <1>2, <2>2 DEF LoopHead, Goto
    <3>3. (percent_done' - 1) * q = i /\ i < percent_done' * q
      BY <1>1, <3>1, <3>2, ProductOrder
    <3>. QED BY <1>1, <2>1, <3>2, <3>3 DEF ProgressInv, SetupPC
  <2>3. CASE i < repeatCnt /\ i % q # 0
    <3>1. i # percent_done * q
      BY <1>1, <2>3, (percent_done * q) % q = 0
    <3>2. percent_done' = percent_done /\ host_pc' = "push"
      BY <1>2, <2>3 DEF LoopHead, Goto
    <3>. QED BY <1>1, <2>1, <3>1, <3>2 DEF ProgressInv, SetupPC
  <2>4. CASE ~ (i < repeatCnt)
    <3>1. percent_done' = percent_done /\ host_pc' = "notfound"
      BY <1>2, <2>4 DEF LoopHead, Goto
    <3>. QED BY <1>1, <2>1, <3>1 DEF ProgressInv, SetupPC, PendingPC, LaunchPC
  <2>. QED BY <2>2, <2>3, <2>4
<1>3. CASE CheckFlag
  <2>1. host_pc = "check" /\ percent_done' = percent_done /\ i < percent_done * q
    BY <1>3 DEF CheckFlag, Goto, ProgressInv, PendingPC, LaunchPC
  <2>2. \/ i' = i /\ host_pc' = "read_buf"
        \/ i' = i + 1 /\ host_pc' = "loop"
    BY <1>3 DEF CheckFlag, Goto
  <2>3. (percent_done - 1) * q <= i
    BY DEF ProgressInv
  <2>. QED BY <1>1, <2>1, <2>2, <2>3 DEF ProgressInv, SetupPC, PendingPC, LaunchPC
<1>4. CASE UNCHANGED << i, percent_done >> /\ ~ LoopHead /\ ~ CheckFlag
  <2>1. /\ host_pc' \in SetupPC \cup {"loop"} => host_pc \in SetupPC \cup {"loop"}
        /\ host_pc' \in PendingPC => host_pc \in PendingPC
    BY <1>4 DEF Next, vars, HostStep, HostFault, DeviceStep, Setup, WriteBuf, WriteFlag,
       CreateKernel, PushArg, Execute, ReadFlag, ReadBuf, PrintWord, CallFails,
       ExecuteRefused, Throw, Goto, StartLaunch, FinishLaunch, KillLaunch, RunItem,
       CompleteReadFlag, ReadFlagFails, CompleteReadBuf, HeadIs, Terminated,
       SetupPC, PendingPC, LaunchPC, Final
  <2>. QED BY <1>1, <1>4, <2>1 DEF ProgressInv
<1>5. ~ LoopHead /\ ~ CheckFlag => UNCHANGED << i, percent_done >>
  BY DEF Next, vars, mainVars, HostStep, HostFault, DeviceStep, Setup, WriteBuf, WriteFlag,
     CreateKernel, PushArg, Execute, ReadFlag, ReadBuf, PrintWord, CallFails,
     ExecuteRefused, Throw, StartLaunch, FinishLaunch, KillLaunch, RunItem,
     CompleteReadFlag, ReadFlagFails, CompleteReadBuf, Terminated
<1>. QED
  BY <1>2, <1>3, <1>4, <1>5

(***************************************************************************)
(* The percentage shown never exceeds the share of the launches done, and  *)
(* never passes 100, however many launches the sizes make.                 *)
(***************************************************************************)
THEOREM PercentageIsHonest == Spec => []ProgressHonest
<1>1. Init => ProgressInv
  BY PercentFacts DEF Init, ProgressInv, SetupPC, PendingPC, LaunchPC
<1>2. IInv /\ ProgressInv => ProgressHonest
  <2> SUFFICES ASSUME IInv, ProgressInv PROVE ProgressHonest
    OBVIOUS
  <2> DEFINE q == repeats_per_percent
  <2>1. /\ q \in Nat \ {0} /\ repeatCnt \in Nat /\ repeatCnt < 100 * q
        /\ i \in Nat /\ i <= repeatCnt /\ percent_done \in Nat
        /\ (percent_done - 1) * q <= i
    BY PercentFacts, SizeFacts DEF IInv, TypeOK, ProgressInv
  <2>2. percent_done <= 100
    <3>1. (percent_done - 1) * q < 100 * q
      BY <2>1
    <3>2. percent_done - 1 < 100
      BY <2>1, <3>1, ProductOrder
    <3>. QED BY <2>1, <3>2
  <2>3. (percent_done - 1) * repeatCnt <= 100 * i
    <3>1. CASE percent_done = 0
      BY <2>1, <3>1
    <3>2. CASE percent_done > 0
      <4>1. repeatCnt * (percent_done - 1) <= (100 * q) * (percent_done - 1)
        BY <2>1, <3>2
      <4>2. (100 * q) * (percent_done - 1) = 100 * ((percent_done - 1) * q)
        BY <2>1
      <4>. QED BY <2>1, <4>1, <4>2
    <3>. QED BY <2>1, <3>1, <3>2
  <2>. QED BY <2>2, <2>3 DEF ProgressHonest
<1>. QED
  BY <1>1, <1>2, ProgressStep, Invariance, PTL DEF Spec

=============================================================================

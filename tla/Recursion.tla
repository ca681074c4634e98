----------------------------- MODULE Recursion -----------------------------
(***************************************************************************)
(* Induction over the naturals and primitive recursion, stated with sets   *)
(* and functions so that a proof can use them: a principle derived from    *)
(* the well-foundedness of strict inclusion, and what it says of functions *)
(* that are defined step by step.  At the end, a fact about division.      *)
(***************************************************************************)
EXTENDS Integers, FiniteSetTheorems, TLAPS

(***************************************************************************)
(* Induction over the naturals: a set that holds 0 and the successor of    *)
(* each of its naturals holds every natural.                               *)
(***************************************************************************)
LEMMA NatSetInduction ==
  ASSUME NEW S, 0 \in S, \A n \in Nat : n \in S => n + 1 \in S
  PROVE  Nat \subseteq S
<1> DEFINE T == Nat \ S
           F == {0 .. n : n \in T}
           R == StrictSubsetOrdering(Nat)
<1>1. SUFFICES ASSUME T # {} PROVE FALSE
  OBVIOUS
<1>2. PICK X \in F : \A Y \in F : ~ (<<Y, X>> \in R)
  <2>1. IsWellFoundedOn(R, FiniteSubsetsOf(Nat))
    BY FS_StrictSubsetOrderingWellFounded
  <2>2. ASSUME NEW n \in T PROVE 0 .. n \in FiniteSubsetsOf(Nat)
    <3>1. IsFiniteSet(0 .. n)
      BY FS_Interval
    <3>. QED BY <3>1 DEF FiniteSubsetsOf
  <2>3. F \subseteq FiniteSubsetsOf(Nat)
    BY <2>2
  <2>4. F # {}
    BY <1>1
  <2> HIDE DEF F, R
  <2>. QED BY <2>1, <2>3, <2>4, WFMin
<1>3. PICK x \in T : X = 0 .. x
  OBVIOUS
<1>4. x - 1 \in T /\ (x - 1) + 1 = x
  OBVIOUS
<1>5. 0 .. (x - 1) \in F
  BY <1>4
<1>6. << 0 .. (x - 1), X >> \in R
  <2>1. 0 .. (x - 1) \subseteq X /\ x \in X /\ x \notin 0 .. (x - 1)
    BY <1>3
  <2>2. X \in SUBSET Nat /\ 0 .. (x - 1) \in SUBSET Nat
    BY <1>3
  <2>. QED BY <2>1, <2>2 DEF StrictSubsetOrdering
<1>. QED
  BY <1>2, <1>5, <1>6

(***************************************************************************)
(* Primitive recursion: from a start value and a step function for each n  *)
(* there is a function on Nat that starts and steps that way.              *)
(***************************************************************************)
StepFunctions(D)  == [Nat -> [D -> D]]
Iterates(f, a, s) == f[0] = a /\ \A n \in Nat : f[n + 1] = s[n][f[n]]

LEMMA PrimitiveRecursion ==
  ASSUME NEW D, NEW a \in D, NEW s \in StepFunctions(D)
  PROVE  \E f \in [Nat -> D] : Iterates(f, a, s)
<1> USE DEF StepFunctions
<1> DEFINE Upto(m) == {f \in [0 .. m -> D] :
                         f[0] = a /\ \A n \in 0 .. m - 1 : f[n + 1] = s[n][f[n]]}
           S == {m \in Nat : Upto(m) # {}}
           G == [m \in Nat |-> CHOOSE f \in Upto(m) : TRUE]
           h == [m \in Nat |-> G[m][m]]
<1>1. Nat \subseteq S
  <2>1. Upto(0) # {}
    <3>1. [n \in 0 .. 0 |-> a] \in Upto(0)
      OBVIOUS
    <3>. QED BY <3>1
  <2>2. ASSUME NEW m \in Nat, Upto(m) # {} PROVE Upto(m + 1) # {}
    <3>1. PICK f \in Upto(m) : TRUE
      BY <2>2
    <3> DEFINE ff == [n \in 0 .. m + 1 |-> IF n = m + 1 THEN s[m][f[m]] ELSE f[n]]
    <3>2. ff \in [0 .. m + 1 -> D]
      BY <3>1
    <3>3. ff[0] = a
      BY <3>1
    <3>4. ASSUME NEW n \in 0 .. (m + 1) - 1 PROVE ff[n + 1] = s[n][ff[n]]
      <4>1. CASE n = m
        BY <4>1
      <4>2. CASE n # m
        BY <3>1, <4>2
      <4>. QED BY <4>1, <4>2
    <3> HIDE DEF ff
    <3>5. ff \in Upto(m + 1)
      BY <3>2, <3>3, <3>4
    <3>. QED BY <3>5
  <2> HIDE DEF Upto
  <2>3. 0 \in S /\ \A m \in Nat : m \in S => m + 1 \in S
    BY <2>1, <2>2
  <2> HIDE DEF S
  <2>. QED BY <2>3, NatSetInduction
<1>2. \A m \in Nat : G[m] \in Upto(m)
  <2> HIDE DEF Upto
  <2>. QED BY <1>1
<1> HIDE DEF G, S
<1>3. ASSUME NEW m \in Nat PROVE G[m][m] = G[m + 1][m]
  <2> DEFINE E == {n \in Nat : n <= m => G[m][n] = G[m + 1][n]}
  <2>1. G[m] \in Upto(m) /\ G[m + 1] \in Upto(m + 1)
    BY <1>2
  <2>2. 0 \in E
    BY <2>1
  <2>3. ASSUME NEW n \in Nat, n \in E PROVE n + 1 \in E
    BY <2>1, <2>3
  <2>4. Nat \subseteq E
    <3> HIDE DEF E
    <3>. QED BY <2>2, <2>3, NatSetInduction
  <2>. QED BY <2>4
<1>4. h \in [Nat -> D]
  BY <1>2
<1>5. h[0] = a
  BY <1>2
<1>6. ASSUME NEW n \in Nat PROVE h[n + 1] = s[n][h[n]]
  <2>1. G[n + 1] \in Upto(n + 1)
    BY <1>2
  <2>2. G[n + 1][n + 1] = s[n][G[n + 1][n]]
    BY <2>1
  <2>. QED BY <1>3, <2>2
<1> HIDE DEF h
<1>. QED
  BY <1>4, <1>5, <1>6 DEF Iterates

\* The same on an initial segment of Nat: a run of m steps.
IsRun(r, m, a, s) ==
  r = [n \in 0 .. m |-> IF n = 0 THEN a ELSE s[n - 1][r[n - 1]]]

LEMMA BoundedRecursion ==
  ASSUME NEW D, NEW a \in D, NEW s \in StepFunctions(D), NEW m \in Nat
  PROVE  \E r \in [0 .. m -> D] : IsRun(r, m, a, s)
<1>1. PICK f \in [Nat -> D] : Iterates(f, a, s)
  BY PrimitiveRecursion
<1> DEFINE r == [n \in 0 .. m |-> f[n]]
<1>2. r \in [0 .. m -> D]
  BY <1>1
<1>3. ASSUME NEW n \in 0 .. m PROVE r[n] = IF n = 0 THEN a ELSE s[n - 1][r[n - 1]]
  <2>1. CASE n = 0
    BY <1>1, <2>1 DEF Iterates
  <2>2. CASE n # 0
    <3>1. n - 1 \in Nat /\ n - 1 \in 0 .. m /\ (n - 1) + 1 = n
      BY <2>2
    <3>. QED BY <1>1, <2>2, <3>1 DEF Iterates
  <2>. QED BY <2>1, <2>2
<1>4. IsRun(r, m, a, s)
  BY <1>2, <1>3 DEF IsRun
<1>. QED
  BY <1>2, <1>4

-----------------------------------------------------------------------------
\* Integer division is characterised by its bounds.
LEMMA DivisionUnique ==
  ASSUME NEW a \in Nat, NEW b \in Nat \ {0}, NEW q \in Nat,
         b * q <= a, a < b * (q + 1)
  PROVE  a \div b = q
<1> DEFINE r == a \div b
<1>1. r \in Nat /\ b * r <= a /\ a < b * (r + 1)
  OBVIOUS
<1> HIDE DEF r
<1>2. CASE r < q
  <2>1. r + 1 <= q
    BY <1>1, <1>2
  <2>2. b * (r + 1) <= b * q
    BY <1>1, <2>1
  <2>. QED BY <1>1, <2>2
<1>3. CASE q < r
  <2>1. q + 1 <= r
    BY <1>1, <1>3
  <2>2. b * (q + 1) <= b * r
    BY <1>1, <2>1
  <2>. QED BY <1>1, <2>2
<1>4. r = q
  BY <1>1, <1>2, <1>3
<1>. QED
  BY <1>4 DEF r

=============================================================================

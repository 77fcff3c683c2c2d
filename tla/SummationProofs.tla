-------------------------- MODULE SummationProofs --------------------------
(***************************************************************************)
(* Facts about Sum.  The prover has no induction principle to instantiate, *)
(* so each is proved by taking the least counterexample.                   *)
(***************************************************************************)
EXTENDS Summation, TLAPS, WellFoundedInduction

\* The order of the naturals as a set of pairs.
LEMMA LessThanPairs ==
  OpToRel(<, Nat) = {ss \in Nat \X Nat : ss[1] < ss[2]}
BY DEF OpToRel

\* Every nonempty set of naturals has a least element.
LEMMA LeastElement ==
  ASSUME NEW T, T \subseteq Nat, T # {}
  PROVE  \E m \in T : \A k \in T : m <= k
<1> DEFINE R == {ss \in Nat \X Nat : ss[1] < ss[2]}
<1>1. IsWellFoundedOn(R, Nat)
  BY NatLessThanWellFounded, LessThanPairs
<1>2. \E m \in T : \A k \in T : ~ (<<k, m>> \in R)
  <2> HIDE DEF R
  <2> QED BY <1>1, WFMin
<1>3. PICK m \in T : \A k \in T : ~ (<<k, m>> \in R)
  BY <1>2
<1>4. ASSUME NEW k \in T PROVE m <= k
  <2>1. <<k, m>> \notin R /\ <<k, m>> \in Nat \X Nat
    BY <1>3
  <2>2. ~ (k < m)
    BY <2>1
  <2>3. QED
    BY <2>2
<1>5. QED
  BY <1>3, <1>4

\* s holds the partial sums of f up to n.
Partial(f, s, n) ==
  s = [i \in 0..n |-> IF i = 0 THEN 0 ELSE s[i - 1] + f[i]]

\* Partial sums exist up to any n.
LEMMA PartialExists ==
  ASSUME NEW f, NEW n \in Nat
  PROVE  \E s : Partial(f, s, n)
<1> DEFINE T == {k \in Nat : ~ \E s : Partial(f, s, k)}
<1> SUFFICES ASSUME T # {} PROVE FALSE
  OBVIOUS
<1>1. PICK m \in T : \A k \in T : m <= k
  BY LeastElement
<1>2. m # 0
  <2>1. Partial(f, [i \in 0..0 |-> 0], 0)
    BY DEF Partial
  <2>2. QED
    BY <2>1
<1>3. m - 1 \in Nat /\ m - 1 \notin T
  BY <1>1, <1>2
<1>4. PICK s : Partial(f, s, m - 1)
  BY <1>3
<1>5. Partial(f, [i \in 0..m |-> IF i = m THEN s[m - 1] + f[m] ELSE s[i]], m)
  BY <1>2, <1>3, <1>4 DEF Partial
<1>6. QED
  BY <1>5

\* Partial sums are determined by the terms they add.
LEMMA PartialAgree ==
  ASSUME NEW f, NEW g, NEW n \in Nat, NEW s, NEW t, Partial(f, s, n), Partial(g, t, n),
         \A i \in 1..n : f[i] = g[i]
  PROVE  s = t
<1> DEFINE T == {k \in 0..n : s[k] # t[k]}
<1>1. T = {}
  <2> SUFFICES ASSUME T # {} PROVE FALSE
    OBVIOUS
  <2>0. T \subseteq Nat
    OBVIOUS
  <2>1. PICK m \in T : \A k \in T : m <= k
    <3> HIDE DEF T
    <3> QED BY <2>0, LeastElement
  <2>2. m # 0
    BY DEF Partial
  <2>3. m - 1 \in 0..n /\ m - 1 \notin T
    BY <2>1, <2>2
  <2>4. s[m] = s[m - 1] + f[m] /\ t[m] = t[m - 1] + g[m]
    BY <2>2 DEF Partial
  <2>5. QED
    BY <2>2, <2>3, <2>4
<1>2. \A k \in 0..n : s[k] = t[k]
  BY <1>1
<1>3. QED
  BY <1>2 DEF Partial

\* Sum is the last partial sum.
LEMMA SumPartial ==
  ASSUME NEW f, NEW n \in Nat
  PROVE  \E s : Partial(f, s, n) /\ Sum(f, n) = s[n]
<1> DEFINE s == CHOOSE s : Partial(f, s, n)
<1>1. Partial(f, s, n)
  BY PartialExists
<1>2. Sum(f, n) = s[n]
  BY DEF Sum, Partial
<1>3. QED
  BY <1>1, <1>2

\* Sums of equal terms are equal.
LEMMA SumEq ==
  ASSUME NEW f, NEW g, NEW n \in Nat, \A i \in 1..n : f[i] = g[i]
  PROVE  Sum(f, n) = Sum(g, n)
<1>1. PICK s : Partial(f, s, n) /\ Sum(f, n) = s[n]
  BY SumPartial
<1>2. PICK t : Partial(g, t, n) /\ Sum(g, n) = t[n]
  BY SumPartial
<1>3. s = t
  BY <1>1, <1>2, PartialAgree
<1>4. QED
  BY <1>1, <1>2, <1>3

\* The empty sum.
LEMMA SumZero ==
  ASSUME NEW f
  PROVE  Sum(f, 0) = 0
BY SumPartial DEF Partial

\* The recursion of Sum.
LEMMA SumStep ==
  ASSUME NEW f, NEW n \in Nat \ {0}
  PROVE  Sum(f, n) = Sum(f, n - 1) + f[n]
<1>1. PICK s : Partial(f, s, n) /\ Sum(f, n) = s[n]
  BY SumPartial
<1>2. PICK t : Partial(f, t, n - 1) /\ Sum(f, n - 1) = t[n - 1]
  BY SumPartial
<1> DEFINE u == [i \in 0..(n - 1) |-> s[i]]
<1>3. Partial(f, u, n - 1)
  BY <1>1 DEF Partial
<1>4. t = u
  <2> HIDE DEF u
  <2>1. n - 1 \in Nat
    OBVIOUS
  <2>2. QED
    BY <1>2, <1>3, <2>1, PartialAgree
<1>5. s[n] = s[n - 1] + f[n]
  BY <1>1 DEF Partial
<1>6. QED
  BY <1>1, <1>2, <1>4, <1>5

\* A sum of integers is an integer.
LEMMA SumInt ==
  ASSUME NEW n \in Nat, NEW f, \A i \in 1..n : f[i] \in Int
  PROVE  \A k \in 0..n : Sum(f, k) \in Int
<1> DEFINE T == {k \in 0..n : Sum(f, k) \notin Int}
<1> SUFFICES ASSUME T # {} PROVE FALSE
  OBVIOUS
<1>1. T \subseteq Nat
  OBVIOUS
<1>2. PICK m \in T : \A k \in T : m <= k
  <2> HIDE DEF T
  <2> QED BY <1>1, LeastElement
<1>3. m # 0
  BY SumZero
<1>4. m - 1 \in 0..n /\ m - 1 \notin T
  BY <1>2, <1>3
<1>5. Sum(f, m) = Sum(f, m - 1) + f[m]
  BY <1>3, SumStep
<1>6. QED
  BY <1>3, <1>4, <1>5

\* The sum of the sums.
LEMMA SumAdd ==
  ASSUME NEW n \in Nat, NEW f, NEW g, NEW h,
         \A i \in 1..n : f[i] \in Int /\ g[i] \in Int /\ h[i] = f[i] + g[i]
  PROVE  Sum(h, n) = Sum(f, n) + Sum(g, n)
<1> DEFINE T == {k \in 0..n : Sum(h, k) # Sum(f, k) + Sum(g, k)}
<1> SUFFICES ASSUME T # {} PROVE FALSE
  OBVIOUS
<1>1. T \subseteq Nat
  OBVIOUS
<1>2. PICK m \in T : \A k \in T : m <= k
  <2> HIDE DEF T
  <2> QED BY <1>1, LeastElement
<1>3. m # 0
  BY SumZero
<1>4. m - 1 \in 0..n /\ m - 1 \notin T
  BY <1>2, <1>3
<1>5. /\ Sum(f, m) = Sum(f, m - 1) + f[m]
      /\ Sum(g, m) = Sum(g, m - 1) + g[m]
      /\ Sum(h, m) = Sum(h, m - 1) + h[m]
  BY <1>3, SumStep
<1>6. Sum(f, m - 1) \in Int /\ Sum(g, m - 1) \in Int
  BY <1>4, SumInt
<1>7. QED
  BY <1>3, <1>4, <1>5, <1>6

\* A sum of naturals is a natural, and at least each of its terms.
LEMMA SumNat ==
  ASSUME NEW n \in Nat, NEW f, \A i \in 1..n : f[i] \in Nat
  PROVE  \A k \in 0..n : Sum(f, k) \in Nat
<1> DEFINE T == {k \in 0..n : Sum(f, k) \notin Nat}
<1> SUFFICES ASSUME T # {} PROVE FALSE
  OBVIOUS
<1>1. T \subseteq Nat
  OBVIOUS
<1>2. PICK m \in T : \A k \in T : m <= k
  <2> HIDE DEF T
  <2> QED BY <1>1, LeastElement
<1>3. m # 0
  BY SumZero
<1>4. m - 1 \in 0..n /\ m - 1 \notin T
  BY <1>2, <1>3
<1>5. Sum(f, m) = Sum(f, m - 1) + f[m]
  BY <1>3, SumStep
<1>6. QED
  BY <1>3, <1>4, <1>5

\* Sums of equal terms but one differ by that term.
LEMMA SumChange ==
  ASSUME NEW n \in Nat, NEW f, NEW g, NEW j \in 1..n,
         \A i \in 1..n : f[i] \in Int /\ g[i] \in Int /\ (i # j => g[i] = f[i])
  PROVE  Sum(g, n) = Sum(f, n) - f[j] + g[j]
<1> DEFINE T == {k \in j..n : Sum(g, k) # Sum(f, k) - f[j] + g[j]}
<1>0. T \subseteq Nat
  OBVIOUS
<1>1. j \in Nat \ {0} /\ j - 1 \in Nat
  OBVIOUS
<1>2. Sum(f, j - 1) = Sum(g, j - 1)
  BY <1>1, SumEq
<1>3. Sum(f, j) = Sum(f, j - 1) + f[j] /\ Sum(g, j) = Sum(g, j - 1) + g[j]
  BY <1>1, SumStep
<1>4. \A k \in 0..n : Sum(f, k) \in Int /\ Sum(g, k) \in Int
  BY SumInt
<1>5. j \notin T
  BY <1>2, <1>3, <1>4
<1>6. T = {}
  <2> SUFFICES ASSUME T # {} PROVE FALSE
    OBVIOUS
  <2>1. PICK m \in T : \A k \in T : m <= k
    <3> HIDE DEF T
    <3> QED BY <1>0, LeastElement
  <2>2. m # j /\ m \in j..n
    BY <1>5
  <2>3. m - 1 \in j..n /\ m - 1 \notin T
    BY <2>1, <2>2
  <2>4. m \in Nat \ {0}
    BY <2>2
  <2>5. Sum(f, m) = Sum(f, m - 1) + f[m] /\ Sum(g, m) = Sum(g, m - 1) + g[m]
    BY <2>4, SumStep
  <2>6. Sum(g, m - 1) = Sum(f, m - 1) - f[j] + g[j] /\ g[m] = f[m]
    BY <2>2, <2>3
  <2>7. Sum(g, m) = Sum(f, m) - f[j] + g[j]
    BY <2>2, <2>3, <2>5, <2>6, <1>4
  <2>8. QED
    BY <2>7, <2>1
<1>7. QED
  BY <1>6

\* No term of a sum of naturals exceeds it.
LEMMA SumBound ==
  ASSUME NEW n \in Nat, NEW f, NEW j \in 1..n, \A i \in 1..n : f[i] \in Nat
  PROVE  f[j] <= Sum(f, n)
<1> DEFINE g == [i \in 1..n |-> IF i = j THEN 0 ELSE f[i]]
<1>1. Sum(g, n) = Sum(f, n) - f[j] + g[j]
  <2>1. \A i \in 1..n : f[i] \in Int /\ g[i] \in Int /\ (i # j => g[i] = f[i])
    OBVIOUS
  <2> HIDE DEF g
  <2>2. QED
    BY <2>1, SumChange
<1>2. Sum(g, n) \in Nat /\ Sum(f, n) \in Nat
  <2>1. \A i \in 1..n : g[i] \in Nat
    OBVIOUS
  <2> HIDE DEF g
  <2>2. n \in 0..n
    OBVIOUS
  <2>3. QED
    BY <2>1, <2>2, SumNat
<1>3. QED
  BY <1>1, <1>2

\* A constant factor moves out of a sum.
LEMMA SumScale ==
  ASSUME NEW n \in Nat, NEW c \in Int, NEW f, NEW g,
         \A i \in 1..n : f[i] \in Int /\ g[i] = f[i] * c
  PROVE  Sum(g, n) = Sum(f, n) * c
<1> DEFINE T == {k \in 0..n : Sum(g, k) # Sum(f, k) * c}
<1> SUFFICES ASSUME T # {} PROVE FALSE
  OBVIOUS
<1>1. T \subseteq Nat
  OBVIOUS
<1>2. PICK m \in T : \A k \in T : m <= k
  <2> HIDE DEF T
  <2> QED BY <1>1, LeastElement
<1>3. m # 0
  BY SumZero
<1>4. m - 1 \in 0..n /\ m - 1 \notin T
  BY <1>2, <1>3
<1>5. Sum(f, m) = Sum(f, m - 1) + f[m] /\ Sum(g, m) = Sum(g, m - 1) + g[m]
  BY <1>3, SumStep
<1>6. Sum(f, m - 1) \in Int
  BY <1>4, SumInt
<1>7. f[m] \in Int /\ g[m] = f[m] * c /\ Sum(g, m - 1) = Sum(f, m - 1) * c
  BY <1>3, <1>4
<1>8. (Sum(f, m - 1) + f[m]) * c = Sum(f, m - 1) * c + f[m] * c
  BY <1>6, <1>7
<1>9. QED
  BY <1>5, <1>7, <1>8

\* A sum of zeros is zero.
LEMMA SumZeros ==
  ASSUME NEW n \in Nat, NEW f, \A i \in 1..n : f[i] = 0
  PROVE  Sum(f, n) = 0
<1>1. \A i \in 1..n : f[i] \in Int /\ f[i] = f[i] * 0
  OBVIOUS
<1>2. Sum(f, n) = Sum(f, n) * 0
  BY <1>1, SumScale
<1>3. n \in 0..n /\ Sum(f, n) \in Int
  BY <1>1, SumInt
<1>4. QED
  BY <1>2, <1>3
============================================================================

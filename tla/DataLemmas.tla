----------------------------- MODULE DataLemmas -----------------------------
(***************************************************************************)
(* Facts about numbers and sequences that the proofs about the compressor, *)
(* the decompressor and the device tree share.  The library's induction    *)
(* theorems take a predicate as a parameter, which the provers cannot       *)
(* instantiate; NatInductionSet says the same of a set of numbers, and     *)
(* with it a recursive function is shown to exist and to obey its          *)
(* equation.                                                               *)
(***************************************************************************)
EXTENDS Integers, Sequences, WellFoundedInduction, TLAPS

\* A set of numbers that is not empty has a least one.
LEMMA LeastNumber ==
  ASSUME NEW S, S \subseteq Nat, S # {}
  PROVE  \E m \in S : \A k \in S : m <= k
<1> DEFINE R == OpToRel(<, Nat)
<1>1. IsWellFoundedOn(R, Nat)
  BY NatLessThanWellFounded
<1>2. \A x, y \in Nat : <<x, y>> \in R <=> x < y
  BY DEF OpToRel
<1> HIDE DEF R
<1>3. \E m \in S : \A k \in S : ~(<<k, m>> \in R)
  BY <1>1, WFMin
<1>4. ASSUME NEW m \in S, \A k \in S : ~(<<k, m>> \in R)
      PROVE  \A k \in S : m <= k
  <2>1. ASSUME NEW k \in S PROVE m <= k
    <3>1. ~(k < m)
      BY <1>2, <1>4
    <3> QED
      BY <3>1
  <2> QED
    BY <2>1
<1> QED
  BY <1>3, <1>4

\* A set of numbers that holds 0 and every successor of its elements holds all.
LEMMA NatInductionSet ==
  ASSUME NEW S, 0 \in S, \A n \in Nat : n \in S => n + 1 \in S
  PROVE  Nat \subseteq S
<1> SUFFICES ASSUME Nat \ S # {} PROVE FALSE
  OBVIOUS
<1>1. PICK m \in Nat \ S : \A k \in Nat \ S : m <= k
  BY LeastNumber
<1>2. m # 0 /\ m - 1 \in Nat
  BY <1>1
<1>3. m - 1 \in S
  BY <1>1, <1>2
<1>4. m - 1 + 1 \in S
  BY <1>2, <1>3
<1> QED
  BY <1>1, <1>4

\* The same for the numbers up to a limit.
LEMMA BoundedInductionSet ==
  ASSUME NEW S, NEW n \in Nat, 0 \in S, \A k \in 0 .. n - 1 : k \in S => k + 1 \in S
  PROVE  0 .. n \subseteq S
<1> DEFINE T == {k \in Nat : k <= n => k \in S}
<1>1. 0 \in T
  OBVIOUS
<1>2. \A k \in Nat : k \in T => k + 1 \in T
  OBVIOUS
<1>3. Nat \subseteq T
  <2> HIDE DEF T
  <2> QED
    BY <1>1, <1>2, NatInductionSet
<1> QED
  BY <1>3

\* A set of numbers that is not empty and has a bound has a greatest one.
LEMMA GreatestNumber ==
  ASSUME NEW S, S \subseteq Nat, S # {}, NEW bound \in Nat, \A k \in S : k <= bound
  PROVE  \E m \in S : \A k \in S : k <= m
<1> DEFINE Bounds == {u \in Nat : \A k \in S : k <= u}
<1>1. Bounds \subseteq Nat /\ Bounds # {}
  OBVIOUS
<1>2. \A u : u \in Bounds <=> u \in Nat /\ \A k \in S : k <= u
  OBVIOUS
<1> HIDE DEF Bounds
<1>3. PICK m \in Bounds : \A u \in Bounds : m <= u
  BY <1>1, LeastNumber
<1>4. m \in Nat /\ \A k \in S : k <= m
  BY <1>2, <1>3
<1>5. m \in S
  <2> SUFFICES ASSUME m \notin S PROVE FALSE
    OBVIOUS
  <2>1. PICK k \in S : TRUE
    OBVIOUS
  <2>2. k \in Nat /\ k <= m /\ k # m
    BY <1>4, <2>1
  <2>3. m - 1 \in Nat
    BY <1>4, <2>2
  <2>4. ASSUME NEW j \in S PROVE j <= m - 1
    <3>1. j \in Nat /\ j <= m /\ j # m
      BY <1>4
    <3> QED
      BY <1>4, <3>1
  <2>5. m - 1 \in Bounds
    BY <1>2, <2>3, <2>4
  <2>6. m <= m - 1
    BY <1>3, <2>5
  <2> QED
    BY <1>4, <2>6
<1> QED
  BY <1>4, <1>5

-----------------------------------------------------------------------------
(* Division.                                                                *)

\* A remainder is less than the divisor.
LEMMA ModRange ==
  ASSUME NEW i \in Int, NEW d \in Nat, d > 0
  PROVE  i % d \in 0 .. d - 1
OBVIOUS

\* The remainder of a number less than the divisor.
LEMMA ModSmall ==
  ASSUME NEW i \in Nat, NEW d \in Nat, i < d
  PROVE  i % d = i
OBVIOUS

\* The quotient times the divisor, and the next multiple.
LEMMA DivBounds ==
  ASSUME NEW i \in Int, NEW d \in Nat, d > 0
  PROVE  i \div d \in Int /\ d * (i \div d) <= i /\ i < d * (i \div d) + d
OBVIOUS

\* Division with remainder.
LEMMA DivMod ==
  ASSUME NEW i \in Int, NEW d \in Nat, d > 0
  PROVE  i = d * (i \div d) + (i % d)
OBVIOUS

\* A quotient and a remainder in range are the quotient and the remainder.
LEMMA DivModUnique ==
  ASSUME NEW i \in Int, NEW d \in Nat, d > 0, NEW q \in Int, NEW r \in 0 .. d - 1, i = d * q + r
  PROVE  q = i \div d /\ r = i % d
<1> DEFINE p == i \div d
           s == i % d
<1>1. p \in Int /\ s \in 0 .. d - 1 /\ i = d * p + s
  BY DivMod, ModRange, DivBounds
<1> HIDE DEF p, s
<1>2. d * (p - q) = r - s
  BY <1>1
<1>3. ~(p - q >= 1)
  <2>1. ASSUME p - q >= 1 PROVE d * (p - q) >= d
    BY <1>1, <2>1
  <2> QED
    BY <1>1, <1>2, <2>1
<1>4. ~(q - p >= 1)
  <2>1. ASSUME q - p >= 1 PROVE d * (q - p) >= d
    BY <1>1, <2>1
  <2>2. d * (q - p) = s - r
    BY <1>1
  <2> QED
    BY <1>1, <2>1, <2>2
<1>5. p = q
  BY <1>1, <1>3, <1>4
<1> QED
  BY <1>1, <1>5 DEF p, s

\* The remainder has the divisor as its period.
LEMMA ModPeriod ==
  ASSUME NEW i \in Int, NEW d \in Nat, d > 0
  PROVE  (i - d) % d = i % d
<1> DEFINE q == (i - d) \div d
           r == (i - d) % d
<1>1. q \in Int /\ r \in 0 .. d - 1 /\ i - d = d * q + r
  BY DivMod, ModRange, DivBounds
<1> HIDE DEF q, r
<1>2. q + 1 \in Int /\ i = d * (q + 1) + r
  BY <1>1
<1>3. r = i % d
  BY <1>1, <1>2, DivModUnique
<1> QED
  BY <1>3 DEF r

-----------------------------------------------------------------------------
(* Functions defined by recursion over 0 .. n.                              *)

\* f[i] is reached from x0 by i steps, F[i] being the i-th.
Iterates(f, x0, n, F) == f = [i \in 0 .. n |-> IF i = 0 THEN x0 ELSE F[i][f[i - 1]]]

\* A function given by its first value and its steps exists.
LEMMA RecursiveFunction ==
  ASSUME NEW X, NEW x0 \in X, NEW n \in Nat, NEW F, \A i \in 1 .. n : \A x \in X : F[i][x] \in X
  PROVE  \E f \in [0 .. n -> X] : Iterates(f, x0, n, F)
<1> DEFINE Is(f, k) == f \in [0 .. k -> X] /\ f = [i \in 0 .. k |-> IF i = 0 THEN x0 ELSE F[i][f[i - 1]]]
           S == {k \in Nat : \E f : Is(f, k)}
<1>1. 0 \in S
  <2> DEFINE f == [i \in 0 .. 0 |-> x0]
  <2>1. f \in [0 .. 0 -> X] /\ f = [i \in 0 .. 0 |-> IF i = 0 THEN x0 ELSE F[i][f[i - 1]]]
    OBVIOUS
  <2> QED
    BY <2>1
<1>2. ASSUME NEW k \in 0 .. n - 1, k \in S PROVE k + 1 \in S
  <2>1. PICK f : Is(f, k)
    BY <1>2
  <2> DEFINE g == [i \in 0 .. k + 1 |-> IF i = k + 1 THEN F[k + 1][f[k]] ELSE f[i]]
  <2>2. f \in [0 .. k -> X] /\ f = [i \in 0 .. k |-> IF i = 0 THEN x0 ELSE F[i][f[i - 1]]]
    BY <2>1
  <2>3. g \in [0 .. k + 1 -> X]
    BY <2>2
  <2>4. ASSUME NEW i \in 0 .. k + 1 PROVE g[i] = IF i = 0 THEN x0 ELSE F[i][g[i - 1]]
    <3>1. CASE i = k + 1
      <4>1. g[i] = F[i][f[k]] /\ k \in 0 .. k + 1 /\ k # k + 1 /\ i - 1 = k /\ i # 0
        BY <3>1
      <4>2. g[i - 1] = f[k]
        BY <4>1
      <4> QED
        BY <4>1, <4>2
    <3>2. CASE i # k + 1 /\ i # 0
      <4>1. g[i] = f[i] /\ g[i - 1] = f[i - 1]
        BY <3>2
      <4>2. f[i] = F[i][f[i - 1]]
        BY <2>2, <3>2
      <4> QED
        BY <3>2, <4>1, <4>2
    <3>3. CASE i = 0
      BY <2>2, <3>3
    <3> QED
      BY <3>1, <3>2, <3>3
  <2>5. g = [i \in 0 .. k + 1 |-> IF i = 0 THEN x0 ELSE F[i][g[i - 1]]]
    <3>1. g = [i \in 0 .. k + 1 |-> g[i]]
      OBVIOUS
    <3> HIDE DEF g
    <3> QED
      BY <2>4, <3>1
  <2>6. Is(g, k + 1)
    BY <2>3, <2>5
  <2> HIDE DEF g, Is
  <2> QED
    BY <2>6
<1>3. n \in S
  <2> HIDE DEF S
  <2>1. 0 .. n \subseteq S
    BY <1>1, <1>2, BoundedInductionSet
  <2> QED
    BY <2>1
<1> QED
  BY <1>3 DEF Iterates

\* What holds at first and is handed on by every step holds of all.
LEMMA HandedOn ==
  ASSUME NEW X, NEW n \in Nat, NEW f, f[0] \in X,
         \A i \in 1 .. n : f[i - 1] \in X => f[i] \in X
  PROVE  \A i \in 0 .. n : f[i] \in X
<1> DEFINE S == {k \in Nat : f[k] \in X}
<1>1. 0 \in S
  OBVIOUS
<1>2. \A k \in 0 .. n - 1 : k \in S => k + 1 \in S
  <2> SUFFICES ASSUME NEW k \in 0 .. n - 1, k \in S PROVE k + 1 \in S
    OBVIOUS
  <2>1. k + 1 \in 1 .. n /\ k + 1 - 1 = k
    OBVIOUS
  <2>2. f[k + 1] \in X
    BY <2>1
  <2> QED
    BY <2>2
<1>3. 0 .. n \subseteq S
  <2> HIDE DEF S
  <2> QED
    BY <1>1, <1>2, BoundedInductionSet
<1> QED
  BY <1>3
=============================================================================

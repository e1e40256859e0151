-------------------------- MODULE FseCoding_proofs --------------------------
(***************************************************************************)
(* The invariants of the entropy coder's tables, for every histogram.      *)
(***************************************************************************)
EXTENDS FseCoding, DataLemmas

-----------------------------------------------------------------------------
(* Powers of two and logarithms.                                            *)

\* Pow2 obeys its recursive equation.
LEMMA PowerIs ==
  ASSUME NEW n \in Nat
  PROVE  \E P :
           /\ P[0] = 1
           /\ \A i \in 1 .. n : P[i] = 2 * P[i - 1]
           /\ \A i \in 0 .. n : P[i] \in Nat \ {0}
           /\ Pow2(n) = P[n]
<1> DEFINE last == n
           T == Nat \ {0}
           F == [i \in 1 .. last |-> [x \in T |-> 2 * x]]
           Is(p) == p = [i \in 0 .. last |-> IF i = 0 THEN 1 ELSE 2 * p[i - 1]]
           Q == CHOOSE p : Is(p)
<1>1. last \in Nat /\ 1 \in T
  OBVIOUS
<1>2. ASSUME NEW i \in 1 .. last, NEW x \in T PROVE 2 * x \in T
  BY <1>2
<1>3. \A i \in 1 .. last : \A x \in T : F[i][x] = 2 * x /\ F[i][x] \in T
  BY <1>2
<1>4. \E p : Is(p)
  <2> HIDE DEF F
  <2>1. PICK p \in [0 .. last -> T] : Iterates(p, 1, last, F)
    <3> HIDE DEF last, T
    <3> QED
      BY <1>1, <1>3, RecursiveFunction
  <2>2. ASSUME NEW i \in 0 .. last, i # 0 PROVE F[i][p[i - 1]] = 2 * p[i - 1]
    <3> HIDE DEF last, T
    <3>1. i \in 1 .. last /\ i - 1 \in 0 .. last
      BY <1>1, <2>2
    <3>2. p[i - 1] \in T
      BY <3>1
    <3> QED
      BY <1>3, <3>1, <3>2
  <2>3. p = [i \in 0 .. last |-> IF i = 0 THEN 1 ELSE 2 * p[i - 1]]
    <3> HIDE DEF last, T
    <3> QED
      BY <2>1, <2>2 DEF Iterates
  <2> QED
    BY <2>3
<1>5. Is(Q)
  BY <1>4
<1>6. Pow2(n) = Q[n]
  BY DEF Pow2
<1>7. Q = [i \in 0 .. last |-> IF i = 0 THEN 1 ELSE 2 * Q[i - 1]]
  BY <1>5
<1> HIDE DEF Q, F
<1>8. Q[0] = 1 /\ \A i \in 1 .. last : Q[i] = 2 * Q[i - 1]
  <2> HIDE DEF last
  <2>1. ASSUME NEW i \in 0 .. last PROVE Q[i] = IF i = 0 THEN 1 ELSE 2 * Q[i - 1]
    BY <1>7
  <2>2. 0 \in 0 .. last
    BY <1>1
  <2>3. Q[0] = 1
    BY <2>1, <2>2
  <2>4. ASSUME NEW i \in 1 .. last PROVE Q[i] = 2 * Q[i - 1]
    <3>1. i \in 0 .. last /\ i # 0
      BY <1>1
    <3> QED
      BY <2>1, <3>1
  <2> QED
    BY <2>3, <2>4
<1>9. \A i \in 1 .. last : Q[i - 1] \in T => Q[i] \in T
  <2> HIDE DEF last, T
  <2> QED
    BY <1>2, <1>8
<1>10. \A i \in 0 .. last : Q[i] \in T
  <2> HIDE DEF last, T
  <2> QED
    BY <1>1, <1>8, <1>9, HandedOn
<1> QED
  BY <1>6, <1>8, <1>10


\* The powers of two, one by one.
LEMMA Pow2Steps ==
  /\ Pow2(0) = 1
  /\ \A n \in Nat : Pow2(n) \in Nat /\ Pow2(n) > 0 /\ Pow2(n + 1) = 2 * Pow2(n)
<1>1. Pow2(0) = 1
  <2>1. 0 \in Nat
    OBVIOUS
  <2>2. \E P : P[0] = 1 /\ Pow2(0) = P[0]
    BY <2>1, PowerIs
  <2> QED
    BY <2>2
<1>2. ASSUME NEW n \in Nat PROVE Pow2(n) \in Nat /\ Pow2(n) > 0 /\ Pow2(n + 1) = 2 * Pow2(n)
  <2>1. PICK P : /\ P[0] = 1 /\ \A i \in 1 .. n : P[i] = 2 * P[i - 1]
                 /\ \A i \in 0 .. n : P[i] \in Nat \ {0}
                 /\ Pow2(n) = P[n]
    BY PowerIs
  <2>2. n + 1 \in Nat
    OBVIOUS
  <2>3. PICK R : /\ R[0] = 1 /\ \A i \in 1 .. n + 1 : R[i] = 2 * R[i - 1]
                 /\ \A i \in 0 .. n + 1 : R[i] \in Nat \ {0}
                 /\ Pow2(n + 1) = R[n + 1]
    BY <2>2, PowerIs
  <2> DEFINE S == {i \in Nat : P[i] = R[i]}
  <2>4. 0 \in S
    BY <2>1, <2>3
  <2>5. ASSUME NEW k \in 0 .. n - 1, k \in S PROVE k + 1 \in S
    <3>1. k + 1 \in 1 .. n /\ k + 1 \in 1 .. n + 1 /\ k + 1 - 1 = k
      OBVIOUS
    <3>2. P[k + 1] = 2 * P[k] /\ R[k + 1] = 2 * R[k]
      BY <2>1, <2>3, <3>1
    <3> QED
      BY <2>5, <3>2
  <2>6. n \in S
    <3> HIDE DEF S
    <3>1. 0 .. n \subseteq S
      BY <2>4, <2>5, BoundedInductionSet
    <3> QED
      BY <3>1
  <2>7. n + 1 \in 1 .. n + 1 /\ n + 1 - 1 = n /\ n \in 0 .. n
    OBVIOUS
  <2>8. R[n + 1] = 2 * R[n]
    BY <2>3, <2>7
  <2> QED
    BY <2>1, <2>3, <2>6, <2>7, <2>8
<1> QED
  BY <1>1, <1>2

\* Powers multiply as their exponents add.
LEMMA Pow2Sum ==
  ASSUME NEW m \in Nat, NEW n \in Nat
  PROVE  Pow2(m + n) = Pow2(m) * Pow2(n)
<1> DEFINE S == {k \in Nat : Pow2(m + k) = Pow2(m) * Pow2(k)}
<1>1. 0 \in S
  BY Pow2Steps
<1>2. \A k \in Nat : k \in S => k + 1 \in S
  <2> SUFFICES ASSUME NEW k \in Nat, k \in S PROVE k + 1 \in S
    OBVIOUS
  <2>1. m + k \in Nat /\ m + (k + 1) = m + k + 1
    OBVIOUS
  <2>2. Pow2(m + (k + 1)) = 2 * Pow2(m + k) /\ Pow2(k + 1) = 2 * Pow2(k)
    BY <2>1, Pow2Steps
  <2> DEFINE a == Pow2(m)
             b == Pow2(k)
  <2>3. a \in Nat /\ b \in Nat /\ Pow2(m + k) = a * b
    BY Pow2Steps
  <2> HIDE DEF a, b
  <2>4. 2 * (a * b) = a * (2 * b)
    BY <2>3
  <2> QED
    BY <2>2, <2>3, <2>4 DEF a, b
<1>3. n \in S
  <2> HIDE DEF S
  <2> QED
    BY <1>1, <1>2, NatInductionSet
<1> QED
  BY <1>3

\* A greater exponent gives a greater power.
LEMMA Pow2Grows ==
  ASSUME NEW m \in Nat, NEW n \in Nat, m <= n
  PROVE  Pow2(m) <= Pow2(n)
<1> DEFINE a == Pow2(m)
           b == Pow2(n - m)
<1>1. n - m \in Nat /\ n = m + (n - m)
  OBVIOUS
<1>2. Pow2(n) = a * b
  BY <1>1, Pow2Sum
<1>3. a \in Nat /\ b \in Nat /\ b > 0
  BY <1>1, Pow2Steps
<1> HIDE DEF a, b
<1>4. a <= a * b
  BY <1>3
<1> QED
  BY <1>2, <1>4 DEF a

\* The logarithm exists and is the only one.
LEMMA Log2Is ==
  ASSUME NEW n \in Nat, n > 0
  PROVE  /\ Log2(n) \in Nat /\ Pow2(Log2(n)) <= n /\ n < 2 * Pow2(Log2(n))
         /\ \A k \in Nat : Pow2(k) <= n => k <= Log2(n)
<1> DEFINE S == {k \in Nat : n < Pow2(k)}
           G == {k \in Nat : k < Pow2(k)}
<1>1. n \in G
  <2>1. 0 \in G
    BY Pow2Steps
  <2>2. \A k \in Nat : k \in G => k + 1 \in G
    BY Pow2Steps
  <2> HIDE DEF G
  <2> QED
    BY <2>1, <2>2, NatInductionSet
<1>2. PICK m \in S : \A k \in S : m <= k
  <2>1. n \in S
    BY <1>1
  <2>2. S \subseteq Nat /\ S # {}
    BY <2>1
  <2> HIDE DEF S
  <2> QED
    BY <2>2, LeastNumber
<1>3. m \in Nat /\ n < Pow2(m) /\ m <= n
  BY <1>1, <1>2
<1>4. m # 0
  BY <1>3, Pow2Steps
<1>5. m - 1 \in Nat /\ m - 1 \in 0 .. n /\ m - 1 + 1 = m
  BY <1>3, <1>4
<1>6. m - 1 \notin S
  BY <1>2, <1>5
<1>7. Pow2(m - 1) <= n
  BY <1>5, <1>6, Pow2Steps
<1>8. \E k \in 0 .. n : Pow2(k) <= n /\ n < Pow2(k + 1)
  BY <1>3, <1>5, <1>7
<1> DEFINE l == Log2(n)
<1>9. l \in 0 .. n /\ Pow2(l) <= n /\ n < Pow2(l + 1)
  BY <1>8 DEF Log2
<1> HIDE DEF l
<1>10. Pow2(l + 1) = 2 * Pow2(l)
  BY <1>9, Pow2Steps
<1>11. ASSUME NEW k \in Nat, Pow2(k) <= n PROVE k <= l
  <2> SUFFICES ASSUME l + 1 <= k PROVE FALSE
    BY <1>9
  <2>1. l + 1 \in Nat
    BY <1>9
  <2>2. Pow2(l + 1) <= Pow2(k)
    BY <2>1, Pow2Grows
  <2> QED
    BY <1>9, <1>11, <2>1, <2>2, Pow2Steps
<1> QED
  BY <1>9, <1>10, <1>11 DEF l

-----------------------------------------------------------------------------
(* Sums.                                                                    *)

\* Total obeys its recursive equation.
LEMMA SumIs ==
  ASSUME NEW t \in Seq(Nat)
  PROVE  \E P :
           /\ P[0] = 0
           /\ \A i \in 1 .. Len(t) : P[i] = P[i - 1] + t[i]
           /\ \A i \in 0 .. Len(t) : P[i] \in Nat
           /\ Total(t) = P[Len(t)]
<1> DEFINE last == Len(t)
           T == Nat
           F == [i \in 1 .. last |-> [x \in T |-> x + t[i]]]
           Is(p) == p = [i \in 0 .. last |-> IF i = 0 THEN 0 ELSE p[i - 1] + t[i]]
           Q == CHOOSE p : Is(p)
<1>1. last \in Nat /\ 0 \in T
  OBVIOUS
<1>2. ASSUME NEW i \in 1 .. last, NEW x \in T PROVE x + t[i] \in T
  BY <1>2
<1>3. \A i \in 1 .. last : \A x \in T : F[i][x] = x + t[i] /\ F[i][x] \in T
  BY <1>2
<1>4. \E p : Is(p)
  <2> HIDE DEF F
  <2>1. PICK p \in [0 .. last -> T] : Iterates(p, 0, last, F)
    <3> HIDE DEF last, T
    <3> QED
      BY <1>1, <1>3, RecursiveFunction
  <2>2. ASSUME NEW i \in 0 .. last, i # 0 PROVE F[i][p[i - 1]] = p[i - 1] + t[i]
    <3> HIDE DEF last, T
    <3>1. i \in 1 .. last /\ i - 1 \in 0 .. last
      BY <1>1, <2>2
    <3>2. p[i - 1] \in T
      BY <3>1
    <3> QED
      BY <1>3, <3>1, <3>2
  <2>3. p = [i \in 0 .. last |-> IF i = 0 THEN 0 ELSE p[i - 1] + t[i]]
    <3> HIDE DEF last, T
    <3> QED
      BY <2>1, <2>2 DEF Iterates
  <2> QED
    BY <2>3
<1>5. Is(Q)
  BY <1>4
<1>6. Total(t) = Q[Len(t)]
  BY DEF Total
<1>7. Q = [i \in 0 .. last |-> IF i = 0 THEN 0 ELSE Q[i - 1] + t[i]]
  BY <1>5
<1> HIDE DEF Q, F
<1>8. Q[0] = 0 /\ \A i \in 1 .. last : Q[i] = Q[i - 1] + t[i]
  <2> HIDE DEF last
  <2>1. ASSUME NEW i \in 0 .. last PROVE Q[i] = IF i = 0 THEN 0 ELSE Q[i - 1] + t[i]
    BY <1>7
  <2>2. 0 \in 0 .. last
    BY <1>1
  <2>3. Q[0] = 0
    BY <2>1, <2>2
  <2>4. ASSUME NEW i \in 1 .. last PROVE Q[i] = Q[i - 1] + t[i]
    <3>1. i \in 0 .. last /\ i # 0
      BY <1>1
    <3> QED
      BY <2>1, <3>1
  <2> QED
    BY <2>3, <2>4
<1>9. \A i \in 1 .. last : Q[i - 1] \in T => Q[i] \in T
  <2> HIDE DEF last, T
  <2> QED
    BY <1>2, <1>8
<1>10. \A i \in 0 .. last : Q[i] \in T
  <2> HIDE DEF last, T
  <2> QED
    BY <1>1, <1>8, <1>9, HandedOn
<1> QED
  BY <1>6, <1>8, <1>10


\* Before the first symbol there are no states, before the next one those of its
\* predecessors, and in the end all.
LEMMA OffsetSteps ==
  ASSUME NEW t \in Seq(Nat)
  PROVE  /\ Offset(t, 1) = 0
         /\ \A i \in 1 .. Len(t) : Offset(t, i) \in Nat /\ Offset(t, i + 1) = Offset(t, i) + t[i]
         /\ Total(t) = Offset(t, Len(t) + 1)
         /\ Total(t) \in Nat
<1> DEFINE n == Len(t)
<1>1. PICK P : /\ P[0] = 0 /\ \A i \in 1 .. n : P[i] = P[i - 1] + t[i]
               /\ \A i \in 0 .. n : P[i] \in Nat
               /\ Total(t) = P[n]
  BY SumIs
<1>2. ASSUME NEW j \in 0 .. n PROVE Offset(t, j + 1) = P[j]
  <2> DEFINE s == SubSeq(t, 1, j)
  <2>1. s \in Seq(Nat) /\ Len(s) = j /\ \A i \in 1 .. j : s[i] = t[i]
    OBVIOUS
  <2>2. Offset(t, j + 1) = Total(s)
    <3>1. j + 1 - 1 = j
      OBVIOUS
    <3> QED
      BY <3>1 DEF Offset
  <2> HIDE DEF s
  <2>3. PICK R : /\ R[0] = 0 /\ \A i \in 1 .. j : R[i] = R[i - 1] + s[i]
                 /\ \A i \in 0 .. j : R[i] \in Nat
                 /\ Total(s) = R[j]
    BY <2>1, SumIs
  <2> DEFINE S == {i \in Nat : R[i] = P[i]}
  <2>4. 0 \in S
    BY <1>1, <2>3
  <2>5. ASSUME NEW k \in 0 .. j - 1, k \in S PROVE k + 1 \in S
    <3>1. k + 1 \in 1 .. j /\ k + 1 \in 1 .. n /\ k + 1 - 1 = k
      OBVIOUS
    <3>2. P[k + 1] = P[k] + t[k + 1] /\ R[k + 1] = R[k] + s[k + 1] /\ s[k + 1] = t[k + 1]
      BY <1>1, <2>1, <2>3, <3>1
    <3> QED
      BY <2>5, <3>2
  <2>6. j \in S
    <3>0. j \in Nat
      OBVIOUS
    <3> HIDE DEF S, n
    <3>1. 0 .. j \subseteq S
      BY <2>4, <2>5, <3>0, BoundedInductionSet
    <3> QED
      BY <3>0, <3>1
  <2> QED
    BY <2>2, <2>3, <2>6
<1>3. n \in Nat /\ n \in 0 .. n /\ 0 \in 0 .. n
  OBVIOUS
<1>4. Offset(t, 1) = 0
  <2>1. Offset(t, 0 + 1) = P[0]
    BY <1>2, <1>3
  <2> QED
    BY <1>1, <2>1
<1>5. ASSUME NEW i \in 1 .. n PROVE Offset(t, i) \in Nat /\ Offset(t, i + 1) = Offset(t, i) + t[i]
  <2>1. i - 1 \in 0 .. n /\ i \in 0 .. n /\ i - 1 + 1 = i
    OBVIOUS
  <2>2. Offset(t, i) = P[i - 1] /\ Offset(t, i + 1) = P[i]
    BY <1>2, <2>1
  <2> QED
    BY <1>1, <2>1, <2>2
<1> QED
  BY <1>1, <1>2, <1>3, <1>4, <1>5

\* Offsets are numbers and grow.
LEMMA OffsetsGrow ==
  ASSUME NEW t \in Seq(Nat), NEW i \in 1 .. Len(t) + 1
  PROVE  /\ Offset(t, i) \in Nat
         /\ \A j \in i .. Len(t) + 1 : Offset(t, i) <= Offset(t, j)
<1> DEFINE n == Len(t)
           O(j) == Offset(t, j)
<1>1. n \in Nat /\ O(1) = 0 /\ O(n + 1) \in Nat
      /\ \A j \in 1 .. n : O(j) \in Nat /\ O(j + 1) = O(j) + t[j]
  BY OffsetSteps
<1>2. \A j \in 1 .. n : t[j] \in Nat
  OBVIOUS
<1> HIDE DEF O, n
<1>3. \A j \in 1 .. n + 1 : O(j) \in Nat
  <2> SUFFICES ASSUME NEW j \in 1 .. n + 1 PROVE O(j) \in Nat
    OBVIOUS
  <2>1. CASE j = n + 1
    BY <1>1, <2>1
  <2>2. CASE j \in 1 .. n
    BY <1>1, <2>2
  <2> QED
    BY <1>1, <2>1, <2>2
<1> DEFINE S == {k \in Nat : i + k <= n + 1 => O(i) <= O(i + k)}
<1>4. i \in Nat /\ i \in 1 .. n + 1
  BY <1>1 DEF n
<1>5. 0 \in S
  <2>1. i + 0 = i /\ O(i) \in Nat
    BY <1>3, <1>4
  <2> QED
    BY <2>1
<1>6. \A k \in Nat : k \in S => k + 1 \in S
  <2> SUFFICES ASSUME NEW k \in Nat, k \in S, i + (k + 1) <= n + 1 PROVE O(i) <= O(i + (k + 1))
    OBVIOUS
  <2>1. i + k \in 1 .. n /\ i + (k + 1) = i + k + 1 /\ i + k \in 1 .. n + 1
    BY <1>1, <1>4
  <2>2. O(i + k + 1) = O(i + k) + t[i + k] /\ t[i + k] \in Nat /\ O(i + k) \in Nat
    BY <1>1, <1>2, <2>1
  <2>3. O(i) <= O(i + k) /\ O(i) \in Nat
    BY <1>3, <1>4, <2>1, <1>1
  <2> QED
    BY <2>1, <2>2, <2>3
<1>7. \A k \in Nat : k \in S
  <2> HIDE DEF S
  <2> QED
    BY <1>5, <1>6, NatInductionSet
<1>8. ASSUME NEW j \in i .. n + 1 PROVE O(i) <= O(j)
  <2>1. j - i \in Nat /\ i + (j - i) = j /\ i + (j - i) <= n + 1
    BY <1>1, <1>4
  <2> QED
    BY <1>7, <2>1
<1> QED
  BY <1>3, <1>4, <1>8 DEF O, n

\* A summand is at most the sum.
LEMMA SummandBound ==
  ASSUME NEW t \in Seq(Nat), NEW i \in 1 .. Len(t)
  PROVE  Offset(t, i) + t[i] <= Total(t) /\ t[i] <= Total(t)
<1>1. i + 1 \in 1 .. Len(t) + 1 /\ Len(t) + 1 \in i + 1 .. Len(t) + 1
  OBVIOUS
<1>2. Offset(t, i + 1) <= Offset(t, Len(t) + 1)
  BY <1>1, OffsetsGrow
<1>3. Offset(t, i) \in Nat /\ Offset(t, i + 1) = Offset(t, i) + t[i] /\ Total(t) = Offset(t, Len(t) + 1)
  BY OffsetSteps
<1>4. t[i] \in Nat /\ Total(t) \in Nat
  BY OffsetSteps
<1> QED
  BY <1>2, <1>3, <1>4

\* The sum of ones and zeros is at most their number.
LEMMA SmallSum ==
  ASSUME NEW t \in Seq(Nat), \A i \in 1 .. Len(t) : t[i] <= 1
  PROVE  Total(t) <= Len(t)
<1> DEFINE n == Len(t)
<1>1. PICK P : /\ P[0] = 0 /\ \A i \in 1 .. n : P[i] = P[i - 1] + t[i]
               /\ \A i \in 0 .. n : P[i] \in Nat
               /\ Total(t) = P[n]
  BY SumIs
<1> DEFINE S == {i \in Nat : P[i] <= i}
<1>2. 0 \in S
  BY <1>1
<1>3. ASSUME NEW k \in 0 .. n - 1, k \in S PROVE k + 1 \in S
  <2>1. k + 1 \in 1 .. n /\ k \in 0 .. n /\ k + 1 - 1 = k
    OBVIOUS
  <2>2. P[k + 1] = P[k] + t[k + 1] /\ t[k + 1] <= 1 /\ t[k + 1] \in Nat /\ P[k] \in Nat
    BY <1>1, <2>1
  <2> QED
    BY <1>3, <2>1, <2>2
<1>4. n \in S
  <2>1. n \in Nat
    OBVIOUS
  <2> HIDE DEF S, n
  <2>2. 0 .. n \subseteq S
    BY <1>2, <1>3, <2>1, BoundedInductionSet
  <2> QED
    BY <2>1, <2>2
<1> QED
  BY <1>1, <1>4

\* Changing one summand changes the sum by as much.
LEMMA SumChanged ==
  ASSUME NEW t \in Seq(Nat), NEW m \in 1 .. Len(t), NEW v \in Nat
  PROVE  /\ [t EXCEPT ![m] = v] \in Seq(Nat) /\ Len([t EXCEPT ![m] = v]) = Len(t)
         /\ Total([t EXCEPT ![m] = v]) = Total(t) - t[m] + v
<1> DEFINE n == Len(t)
           g == [t EXCEPT ![m] = v]
<1>1. g \in Seq(Nat) /\ Len(g) = n /\ g[m] = v /\ \A i \in 1 .. n : i # m => g[i] = t[i]
  OBVIOUS
<1> HIDE DEF g
<1>2. PICK P : /\ P[0] = 0 /\ \A i \in 1 .. n : P[i] = P[i - 1] + t[i]
               /\ \A i \in 0 .. n : P[i] \in Nat
               /\ Total(t) = P[n]
  BY SumIs
<1>3. PICK R : /\ R[0] = 0 /\ \A i \in 1 .. n : R[i] = R[i - 1] + g[i]
               /\ \A i \in 0 .. n : R[i] \in Nat
               /\ Total(g) = R[n]
  BY <1>1, SumIs
<1> DEFINE S == {i \in Nat : R[i] = IF i < m THEN P[i] ELSE P[i] - t[m] + v}
<1>4. 0 \in S
  BY <1>2, <1>3
<1>5. ASSUME NEW k \in 0 .. n - 1, k \in S PROVE k + 1 \in S
  <2>1. k + 1 \in 1 .. n /\ k \in 0 .. n /\ k + 1 - 1 = k
    OBVIOUS
  <2>2. P[k + 1] = P[k] + t[k + 1] /\ R[k + 1] = R[k] + g[k + 1] /\ P[k] \in Nat /\ t[k + 1] \in Nat /\ t[m] \in Nat
    BY <1>2, <1>3, <2>1
  <2>3. R[k] = IF k < m THEN P[k] ELSE P[k] - t[m] + v
    BY <1>5
  <2>4. CASE k + 1 = m
    <3>1. k < m /\ g[k + 1] = v /\ t[k + 1] = t[m]
      BY <1>1, <2>4
    <3> QED
      BY <2>2, <2>3, <2>4, <3>1
  <2>5. CASE k + 1 # m
    <3>1. g[k + 1] = t[k + 1] /\ (k < m <=> k + 1 < m)
      BY <1>1, <2>1, <2>5
    <3> QED
      BY <2>2, <2>3, <3>1
  <2> QED
    BY <2>4, <2>5
<1>6. n \in S /\ n \in Nat /\ ~(n < m)
  <2>1. n \in Nat /\ ~(n < m)
    OBVIOUS
  <2> HIDE DEF S, n
  <2>2. 0 .. n \subseteq S
    BY <1>4, <1>5, <2>1, BoundedInductionSet
  <2> QED
    BY <2>1, <2>2
<1> QED
  BY <1>1, <1>2, <1>3, <1>6 DEF g

-----------------------------------------------------------------------------
(* Normalizing a histogram.                                                 *)

\* What fse_normalize_freq gives a symbol that occurs n times, at first.
Rounded(nstates, occ, n) == ((n * Step(occ)) \div Pow2(Precision - 1 - Log2(nstates)) + 1) \div 2
Share(nstates, occ, n) == IF Rounded(nstates, occ, n) = 0 /\ n # 0 THEN 1 ELSE Rounded(nstates, occ, n)

\* A share is a number, and positive for a symbol that occurs.
LEMMA ShareIs ==
  ASSUME NEW nstates \in Nat, nstates > 0, Log2(nstates) < Precision, NEW occ \in Seq(Nat), NEW n \in Nat
  PROVE  Share(nstates, occ, n) \in Nat /\ (n > 0 => Share(nstates, occ, n) > 0)
<1> DEFINE step == Step(occ)
           half == Pow2(Precision - 1 - Log2(nstates))
<1>1. step \in Nat
  <2>1. Total(occ) \in Nat /\ Precision \in Nat
    BY OffsetSteps, PrecisionAssumption
  <2>2. Pow2(Precision) \in Nat
    BY <2>1, Pow2Steps
  <2>3. CASE Total(occ) = 0
    BY <2>3 DEF Step
  <2>4. CASE Total(occ) # 0
    <3> DEFINE a == Pow2(Precision)
               b == Total(occ)
    <3>1. a \in Nat /\ b \in Nat /\ b > 0
      BY <2>1, <2>2, <2>4
    <3> HIDE DEF a, b
    <3>2. a \div b \in Nat
      BY <3>1
    <3> QED
      BY <2>4, <3>2 DEF Step, a, b
  <2> QED
    BY <2>3, <2>4
<1>2. half \in Nat /\ half > 0
  <2>1. Precision - 1 - Log2(nstates) \in Nat
    BY PrecisionAssumption, Log2Is
  <2> QED
    BY <2>1, Pow2Steps
<1>3. Rounded(nstates, occ, n) = ((n * step) \div half + 1) \div 2
  BY DEF Rounded
<1> HIDE DEF step, half
<1>4. n * step \in Nat
  BY <1>1
<1>5. (n * step) \div half \in Nat
  <2> DEFINE a == n * step
  <2>1. a \in Nat
    BY <1>4
  <2> HIDE DEF a
  <2>2. a \div half \in Nat
    BY <1>2, <2>1
  <2> QED
    BY <2>2 DEF a
<1>6. Rounded(nstates, occ, n) \in Nat
  BY <1>3, <1>5
<1> QED
  BY <1>6 DEF Share

\* Scaled obeys its recursive equation.
LEMMA ScaledIs ==
  ASSUME NEW nstates \in Nat, nstates > 0, Log2(nstates) < Precision, NEW occ \in Seq(Nat)
  PROVE  \E P :
           /\ P[0] = <<>>
           /\ \A i \in 1 .. Len(occ) : P[i] = Append(P[i - 1], Share(nstates, occ, occ[i]))
           /\ \A i \in 0 .. Len(occ) : P[i] \in Seq(Nat)
           /\ Scaled(nstates, occ) = P[Len(occ)]
<1> DEFINE last == Len(occ)
           T == Seq(Nat)
           F == [i \in 1 .. last |-> [x \in T |-> Append(x, Share(nstates, occ, occ[i]))]]
           Is(p) == p = [i \in 0 .. last |-> IF i = 0 THEN <<>> ELSE Append(p[i - 1], Share(nstates, occ, occ[i]))]
           Q == CHOOSE p : Is(p)
<1>1. last \in Nat /\ <<>> \in T
  OBVIOUS
<1>2. ASSUME NEW i \in 1 .. last, NEW x \in T PROVE Append(x, Share(nstates, occ, occ[i])) \in T
  <2>1. occ[i] \in Nat
    OBVIOUS
  <2>2. Share(nstates, occ, occ[i]) \in Nat
    BY <2>1, ShareIs
  <2> QED
    BY <2>2
<1>3. \A i \in 1 .. last : \A x \in T : F[i][x] = Append(x, Share(nstates, occ, occ[i])) /\ F[i][x] \in T
  BY <1>2
<1>4. \E p : Is(p)
  <2> HIDE DEF F
  <2>1. PICK p \in [0 .. last -> T] : Iterates(p, <<>>, last, F)
    <3> HIDE DEF last, T
    <3> QED
      BY <1>1, <1>3, RecursiveFunction
  <2>2. ASSUME NEW i \in 0 .. last, i # 0 PROVE F[i][p[i - 1]] = Append(p[i - 1], Share(nstates, occ, occ[i]))
    <3> HIDE DEF last, T
    <3>1. i \in 1 .. last /\ i - 1 \in 0 .. last
      BY <1>1, <2>2
    <3>2. p[i - 1] \in T
      BY <3>1
    <3> QED
      BY <1>3, <3>1, <3>2
  <2>3. p = [i \in 0 .. last |-> IF i = 0 THEN <<>> ELSE Append(p[i - 1], Share(nstates, occ, occ[i]))]
    <3> HIDE DEF last, T
    <3> QED
      BY <2>1, <2>2 DEF Iterates
  <2> QED
    BY <2>3
<1>5. Is(Q)
  BY <1>4
<1>6. Scaled(nstates, occ) = Q[Len(occ)]
  BY DEF Scaled, Share, Rounded
<1>7. Q = [i \in 0 .. last |-> IF i = 0 THEN <<>> ELSE Append(Q[i - 1], Share(nstates, occ, occ[i]))]
  BY <1>5
<1> HIDE DEF Q, F
<1>8. Q[0] = <<>> /\ \A i \in 1 .. last : Q[i] = Append(Q[i - 1], Share(nstates, occ, occ[i]))
  <2> HIDE DEF last
  <2>1. ASSUME NEW i \in 0 .. last PROVE Q[i] = IF i = 0 THEN <<>> ELSE Append(Q[i - 1], Share(nstates, occ, occ[i]))
    BY <1>7
  <2>2. 0 \in 0 .. last
    BY <1>1
  <2>3. Q[0] = <<>>
    BY <2>1, <2>2
  <2>4. ASSUME NEW i \in 1 .. last PROVE Q[i] = Append(Q[i - 1], Share(nstates, occ, occ[i]))
    <3>1. i \in 0 .. last /\ i # 0
      BY <1>1
    <3> QED
      BY <2>1, <3>1
  <2> QED
    BY <2>3, <2>4
<1>9. \A i \in 1 .. last : Q[i - 1] \in T => Q[i] \in T
  <2> HIDE DEF last, T
  <2> QED
    BY <1>2, <1>8
<1>10. \A i \in 0 .. last : Q[i] \in T
  <2> HIDE DEF last, T
  <2> QED
    BY <1>1, <1>8, <1>9, HandedOn
<1> QED
  BY <1>6, <1>8, <1>10


\* Every symbol is given its share.
LEMMA ScaledShares ==
  ASSUME NEW nstates \in Nat, nstates > 0, Log2(nstates) < Precision, NEW occ \in Seq(Nat)
  PROVE  /\ Scaled(nstates, occ) \in Seq(Nat) /\ Len(Scaled(nstates, occ)) = Len(occ)
         /\ \A i \in 1 .. Len(occ) : occ[i] > 0 => Scaled(nstates, occ)[i] > 0
<1> DEFINE n == Len(occ)
           share(i) == Share(nstates, occ, occ[i])
<1>1. PICK P : /\ P[0] = <<>> /\ \A i \in 1 .. n : P[i] = Append(P[i - 1], share(i))
               /\ \A i \in 0 .. n : P[i] \in Seq(Nat)
               /\ Scaled(nstates, occ) = P[n]
  BY ScaledIs
<1>2. \A i \in 1 .. n : share(i) \in Nat /\ (occ[i] > 0 => share(i) > 0)
  <2> SUFFICES ASSUME NEW i \in 1 .. n PROVE share(i) \in Nat /\ (occ[i] > 0 => share(i) > 0)
    OBVIOUS
  <2>1. occ[i] \in Nat
    OBVIOUS
  <2> QED
    BY <2>1, ShareIs
<1> HIDE DEF share
<1> DEFINE S == {k \in Nat : Len(P[k]) = k /\ \A i \in 1 .. k : P[k][i] = share(i)}
<1>3. 0 \in S
  BY <1>1
<1>4. ASSUME NEW k \in 0 .. n - 1, k \in S PROVE k + 1 \in S
  <2>1. k + 1 \in 1 .. n /\ k \in 0 .. n /\ k + 1 - 1 = k
    OBVIOUS
  <2>2. P[k + 1] = Append(P[k], share(k + 1)) /\ P[k] \in Seq(Nat) /\ Len(P[k]) = k /\ share(k + 1) \in Nat
    BY <1>1, <1>2, <1>4, <2>1
  <2>3. Len(P[k + 1]) = k + 1
    BY <2>2
  <2>4. ASSUME NEW i \in 1 .. k + 1 PROVE P[k + 1][i] = share(i)
    <3>1. CASE i = k + 1
      BY <2>2, <3>1
    <3>2. CASE i # k + 1
      <4>1. i \in 1 .. k /\ P[k][i] = share(i)
        BY <1>4, <3>2
      <4> QED
        BY <2>2, <4>1
    <3> QED
      BY <3>1, <3>2
  <2> QED
    BY <2>3, <2>4
<1>5. n \in S /\ n \in Nat
  <2>1. n \in Nat
    OBVIOUS
  <2> HIDE DEF S, n
  <2>2. 0 .. n \subseteq S
    BY <1>3, <1>4, <2>1, BoundedInductionSet
  <2> QED
    BY <2>1, <2>2
<1>6. n \in 0 .. n /\ Len(P[n]) = n /\ \A i \in 1 .. n : P[n][i] = share(i)
  BY <1>5
<1>7. Scaled(nstates, occ) = P[n] /\ P[n] \in Seq(Nat)
  BY <1>1, <1>6
<1>8. \A i \in 1 .. n : occ[i] > 0 => P[n][i] > 0
  BY <1>2, <1>6
<1> QED
  BY <1>6, <1>7, <1>8

\* There is a most frequent symbol.
LEMMA MostFrequentIs ==
  ASSUME NEW t \in Seq(Nat), Len(t) > 0
  PROVE  MostFrequent(t) \in 1 .. Len(t)
<1> DEFINE n == Len(t)
           V == {t[j] : j \in 1 .. n}
<1>1. PICK v \in V : \A w \in V : w <= v
  <2>1. V \subseteq Nat /\ V # {} /\ Total(t) \in Nat
    <3>1. 1 \in 1 .. n
      OBVIOUS
    <3> QED
      BY <3>1, OffsetSteps
  <2>2. \A w \in V : w <= Total(t)
    BY SummandBound
  <2> HIDE DEF V
  <2> QED
    BY <2>1, <2>2, GreatestNumber
<1> DEFINE S == {j \in 1 .. n : t[j] = v}
<1>2. PICK m \in S : \A k \in S : m <= k
  <2>1. S \subseteq Nat /\ S # {}
    OBVIOUS
  <2> HIDE DEF S
  <2> QED
    BY <2>1, LeastNumber
<1>3. m \in DOMAIN t /\ DOMAIN t = 1 .. n
  BY <1>2
<1>4. \A j \in DOMAIN t : t[j] <= t[m]
  <2> SUFFICES ASSUME NEW j \in 1 .. n PROVE t[j] <= t[m]
    BY <1>3
  <2>1. t[j] \in V /\ t[m] = v
    BY <1>2
  <2> QED
    BY <1>1, <2>1
<1>5. \A j \in 1 .. m - 1 : t[j] < t[m]
  <2> SUFFICES ASSUME NEW j \in 1 .. m - 1 PROVE t[j] < t[m]
    OBVIOUS
  <2>1. m \in 1 .. n /\ j \in 1 .. n /\ ~(m <= j)
    BY <1>3
  <2>2. j \notin S
    BY <1>2, <2>1
  <2>3. t[j] # t[m]
    BY <1>2, <2>1, <2>2
  <2>4. t[j] <= t[m] /\ t[j] \in Nat /\ t[m] \in Nat
    BY <1>3, <1>4, <2>1
  <2> QED
    BY <2>3, <2>4
<1> QED
  BY <1>3, <1>4, <1>5 DEF MostFrequent

\* What a round of fse_adjust_freqs does at a symbol.
Spare(t, i, shift) == IF t[i] > 1 THEN (t[i] - 1) \div Pow2(shift) ELSE 0
Taken(r, t, i, shift) == IF r.overrun < Spare(t, i, shift) THEN r.overrun ELSE Spare(t, i, shift)
PassStep(r, t, i, shift) ==
  [freq |-> [r.freq EXCEPT ![i] = @ - Taken(r, t, i, shift)],
   overrun |-> r.overrun - Taken(r, t, i, shift)]

Rest(n) == {r \in [freq : Seq(Int), overrun : Int] : Len(r.freq) = n}

\* A spare is a number less than the frequency, and the last round's is all but one.
LEMMA SpareIs ==
  ASSUME NEW t \in Seq(Nat), NEW i \in 1 .. Len(t), NEW shift \in Nat
  PROVE  /\ Spare(t, i, shift) \in Nat
         /\ t[i] > 0 => Spare(t, i, shift) < t[i]
         /\ t[i] = 0 => Spare(t, i, shift) = 0
         /\ shift = 0 /\ t[i] > 1 => Spare(t, i, shift) = t[i] - 1
<1> DEFINE f == t[i]
           p == Pow2(shift)
<1>1. f \in Nat /\ p \in Nat /\ p > 0 /\ (shift = 0 => p = 1)
  <2>1. f \in Nat
    OBVIOUS
  <2>2. p \in Nat /\ p > 0
    BY Pow2Steps
  <2>3. shift = 0 => p = 1
    BY Pow2Steps
  <2> QED
    BY <2>1, <2>2, <2>3
<1>2. Spare(t, i, shift) = IF f > 1 THEN (f - 1) \div p ELSE 0
  BY DEF Spare
<1> HIDE DEF f, p
<1>3. f > 1 => (f - 1) \div p \in Nat /\ (f - 1) \div p <= f - 1
  <2> SUFFICES ASSUME f > 1 PROVE (f - 1) \div p \in Nat /\ (f - 1) \div p <= f - 1
    OBVIOUS
  <2> DEFINE a == f - 1
             q == a \div p
  <2>1. a \in Nat
    BY <1>1
  <2> HIDE DEF a
  <2>2. q \in Nat /\ p * q <= a
    BY <1>1, <2>1, DivBounds
  <2> HIDE DEF q
  <2>3. q <= p * q
    BY <1>1, <2>2
  <2>4. q <= a
    BY <1>1, <2>1, <2>2, <2>3
  <2> QED
    BY <2>2, <2>4 DEF q, a
<1>4. p = 1 /\ f > 1 => (f - 1) \div p = f - 1
  BY <1>1
<1> QED
  BY <1>1, <1>2, <1>3, <1>4 DEF f

\* A step of a round leads from a table and an overrun to a table and an overrun.
LEMMA PassStepType ==
  ASSUME NEW t \in Seq(Nat), NEW i \in 1 .. Len(t), NEW shift \in Nat, NEW r \in Rest(Len(t))
  PROVE  PassStep(r, t, i, shift) \in Rest(Len(t))
<1> DEFINE d == Taken(r, t, i, shift)
<1>1. r.freq \in Seq(Int) /\ Len(r.freq) = Len(t) /\ r.overrun \in Int /\ i \in 1 .. Len(r.freq)
  BY DEF Rest
<1>2. d \in Int
  BY <1>1, SpareIs DEF Taken
<1>3. PassStep(r, t, i, shift) = [freq |-> [r.freq EXCEPT ![i] = @ - d], overrun |-> r.overrun - d]
  BY DEF PassStep
<1> HIDE DEF d
<1>4. [r.freq EXCEPT ![i] = @ - d] \in Seq(Int) /\ Len([r.freq EXCEPT ![i] = @ - d]) = Len(t)
  BY <1>1, <1>2
<1>5. r.overrun - d \in Int
  BY <1>1, <1>2
<1> QED
  BY <1>3, <1>4, <1>5 DEF Rest

\* AfterPass obeys its recursive equation.
LEMMA AfterPassIs ==
  ASSUME NEW t \in Seq(Nat), NEW overrun \in Nat, NEW shift \in Nat
  PROVE  \E P :
           /\ P[0] = [freq |-> t, overrun |-> overrun]
           /\ \A i \in 1 .. Len(t) : P[i] = PassStep(P[i - 1], t, i, shift)
           /\ \A i \in 0 .. Len(t) : P[i] \in Rest(Len(t))
           /\ AfterPass(t, overrun, shift) = P[Len(t)]
<1> DEFINE last == Len(t)
           T == Rest(Len(t))
           F == [i \in 1 .. last |-> [x \in T |-> PassStep(x, t, i, shift)]]
           Is(p) == p = [i \in 0 .. last |-> IF i = 0 THEN [freq |-> t, overrun |-> overrun] ELSE PassStep(p[i - 1], t, i, shift)]
           Q == CHOOSE p : Is(p)
<1>1. last \in Nat /\ [freq |-> t, overrun |-> overrun] \in T
  <2>1. t \in Seq(Int) /\ overrun \in Int
    OBVIOUS
  <2> QED
    BY <2>1 DEF Rest
<1>2. ASSUME NEW i \in 1 .. last, NEW x \in T PROVE PassStep(x, t, i, shift) \in T
  BY PassStepType
<1>3. \A i \in 1 .. last : \A x \in T : F[i][x] = PassStep(x, t, i, shift) /\ F[i][x] \in T
  BY <1>2
<1>4. \E p : Is(p)
  <2> HIDE DEF F
  <2>1. PICK p \in [0 .. last -> T] : Iterates(p, [freq |-> t, overrun |-> overrun], last, F)
    <3> HIDE DEF last, T
    <3> QED
      BY <1>1, <1>3, RecursiveFunction
  <2>2. ASSUME NEW i \in 0 .. last, i # 0 PROVE F[i][p[i - 1]] = PassStep(p[i - 1], t, i, shift)
    <3> HIDE DEF last, T
    <3>1. i \in 1 .. last /\ i - 1 \in 0 .. last
      BY <1>1, <2>2
    <3>2. p[i - 1] \in T
      BY <3>1
    <3> QED
      BY <1>3, <3>1, <3>2
  <2>3. p = [i \in 0 .. last |-> IF i = 0 THEN [freq |-> t, overrun |-> overrun] ELSE PassStep(p[i - 1], t, i, shift)]
    <3> HIDE DEF last, T
    <3> QED
      BY <2>1, <2>2 DEF Iterates
  <2> QED
    BY <2>3
<1>5. Is(Q)
  BY <1>4
<1>6. AfterPass(t, overrun, shift) = Q[Len(t)]
  BY DEF AfterPass, PassStep, Taken, Spare
<1>7. Q = [i \in 0 .. last |-> IF i = 0 THEN [freq |-> t, overrun |-> overrun] ELSE PassStep(Q[i - 1], t, i, shift)]
  BY <1>5
<1> HIDE DEF Q, F
<1>8. Q[0] = [freq |-> t, overrun |-> overrun] /\ \A i \in 1 .. last : Q[i] = PassStep(Q[i - 1], t, i, shift)
  <2> HIDE DEF last
  <2>1. ASSUME NEW i \in 0 .. last PROVE Q[i] = IF i = 0 THEN [freq |-> t, overrun |-> overrun] ELSE PassStep(Q[i - 1], t, i, shift)
    BY <1>7
  <2>2. 0 \in 0 .. last
    BY <1>1
  <2>3. Q[0] = [freq |-> t, overrun |-> overrun]
    BY <2>1, <2>2
  <2>4. ASSUME NEW i \in 1 .. last PROVE Q[i] = PassStep(Q[i - 1], t, i, shift)
    <3>1. i \in 0 .. last /\ i # 0
      BY <1>1
    <3> QED
      BY <2>1, <3>1
  <2> QED
    BY <2>3, <2>4
<1>9. \A i \in 1 .. last : Q[i - 1] \in T => Q[i] \in T
  <2> HIDE DEF last, T
  <2> QED
    BY <1>2, <1>8
<1>10. \A i \in 0 .. last : Q[i] \in T
  <2> HIDE DEF last, T
  <2> QED
    BY <1>1, <1>8, <1>9, HandedOn
<1> QED
  BY <1>6, <1>8, <1>10


\* What a round keeps up to the symbol k: the sum is as much too large as there is
\* still to take, no symbol loses its last state, and the round with shift 0 leaves one
\* to each symbol as long as there is something to take.
Fair(r, k, t, overrun, shift) ==
  /\ r.freq \in Seq(Nat) /\ Len(r.freq) = Len(t) /\ r.overrun \in Nat
  /\ Total(r.freq) - r.overrun = Total(t) - overrun
  /\ \A j \in 1 .. Len(t) : t[j] > 0 => r.freq[j] > 0
  /\ \A j \in k + 1 .. Len(t) : r.freq[j] = t[j]
  /\ shift = 0 /\ r.overrun > 0 => \A j \in 1 .. k : r.freq[j] <= 1

\* One step of a round keeps it fair: nothing is lost, nobody loses the last state.
LEMMA StepFair ==
  ASSUME NEW t \in Seq(Nat), NEW overrun \in Nat, NEW shift \in Nat, NEW i \in 1 .. Len(t),
         NEW r, Fair(r, i - 1, t, overrun, shift)
  PROVE  Fair(PassStep(r, t, i, shift), i, t, overrun, shift)
<1> DEFINE n == Len(t)
           d == Taken(r, t, i, shift)
           s == Spare(t, i, shift)
           q == PassStep(r, t, i, shift)
           v == t[i] - d
<1>1. r.freq \in Seq(Nat) /\ Len(r.freq) = n /\ r.overrun \in Nat
  BY DEF Fair
<1>2. Total(r.freq) - r.overrun = Total(t) - overrun
  BY DEF Fair
<1>3. \A j \in 1 .. n : t[j] > 0 => r.freq[j] > 0
  BY DEF Fair
<1>4. (\A j \in i .. n : r.freq[j] = t[j]) /\ r.freq[i] = t[i]
  <2>1. i - 1 + 1 = i /\ i \in i .. n
    OBVIOUS
  <2> QED
    BY <2>1 DEF Fair
<1>5. shift = 0 /\ r.overrun > 0 => \A j \in 1 .. i - 1 : r.freq[j] <= 1
  BY DEF Fair
<1>6. /\ s \in Nat /\ (t[i] > 0 => s < t[i]) /\ (t[i] = 0 => s = 0)
      /\ (shift = 0 /\ t[i] > 1 => s = t[i] - 1)
  BY SpareIs
<1>7. d = IF r.overrun < s THEN r.overrun ELSE s
  BY DEF Taken
<1>8. q = [freq |-> [r.freq EXCEPT ![i] = @ - d], overrun |-> r.overrun - d]
  BY DEF PassStep
<1>9. t[i] \in Nat /\ n \in Nat /\ i \in 1 .. n /\ i \in 1 .. Len(r.freq)
  BY <1>1
<1> HIDE DEF s, d, q, n
<1>10. d \in Nat /\ d <= r.overrun /\ d <= s
  BY <1>1, <1>6, <1>7
<1>11. v \in Nat /\ (t[i] > 0 => v > 0)
  BY <1>6, <1>9, <1>10
<1>12. q.freq = [r.freq EXCEPT ![i] = v] /\ q.overrun = r.overrun - d
  BY <1>1, <1>4, <1>8
<1> HIDE DEF v
<1>13. q.freq \in Seq(Nat) /\ Len(q.freq) = n /\ q.overrun \in Nat
       /\ Total(q.freq) = Total(r.freq) - t[i] + v
  <2>1. [r.freq EXCEPT ![i] = v] \in Seq(Nat) /\ Len([r.freq EXCEPT ![i] = v]) = Len(r.freq)
        /\ Total([r.freq EXCEPT ![i] = v]) = Total(r.freq) - r.freq[i] + v
    BY <1>1, <1>9, <1>11, SumChanged
  <2>2. q.overrun \in Nat
    BY <1>1, <1>10, <1>12
  <2> QED
    BY <1>1, <1>4, <1>12, <2>1, <2>2
<1>14. Total(q.freq) - q.overrun = Total(t) - overrun
  <2> DEFINE a == Total(r.freq)
             b == Total(t)
             c == r.overrun
  <2>1. a \in Nat /\ b \in Nat /\ c \in Nat /\ a - c = b - overrun
    BY <1>1, <1>2, OffsetSteps
  <2>2. Total(q.freq) = a - t[i] + (t[i] - d) /\ q.overrun = c - d
    BY <1>12, <1>13 DEF v
  <2> HIDE DEF a, b, c
  <2>3. a - t[i] + (t[i] - d) = a - d
    BY <1>9, <1>10, <2>1
  <2>4. a - d - (c - d) = a - c
    BY <1>10, <2>1
  <2> QED
    BY <2>1, <2>2, <2>3, <2>4 DEF b
<1>15. q.freq[i] = v /\ \A j \in 1 .. n : j # i => q.freq[j] = r.freq[j]
  BY <1>1, <1>9, <1>12
<1>16. \A j \in 1 .. n : t[j] > 0 => q.freq[j] > 0
  BY <1>3, <1>11, <1>15
<1>17. \A j \in i + 1 .. n : q.freq[j] = t[j]
  <2> SUFFICES ASSUME NEW j \in i + 1 .. n PROVE q.freq[j] = t[j]
    OBVIOUS
  <2>1. j \in 1 .. n /\ j # i /\ j \in i .. n
    BY <1>9
  <2> QED
    BY <1>4, <1>15, <2>1
<1>18. ASSUME shift = 0, q.overrun > 0 PROVE \A j \in 1 .. i : q.freq[j] <= 1
  <2>1. r.overrun > 0 /\ d < r.overrun
    BY <1>1, <1>10, <1>12, <1>18
  <2>2. d = s
    BY <1>1, <1>6, <1>7, <2>1
  <2>3. v <= 1
    BY <1>6, <1>9, <1>18, <2>2 DEF v
  <2> SUFFICES ASSUME NEW j \in 1 .. i PROVE q.freq[j] <= 1
    OBVIOUS
  <2>4. CASE j = i
    BY <1>15, <2>3, <2>4
  <2>5. CASE j # i
    <3>1. j \in 1 .. i - 1 /\ j \in 1 .. n
      BY <1>9, <2>5
    <3> QED
      BY <1>5, <1>15, <1>18, <2>1, <2>5, <3>1
  <2> QED
    BY <2>4, <2>5
<1> QED
  BY <1>13, <1>14, <1>16, <1>17, <1>18 DEF Fair, q, n

\* A round is fair.
LEMMA PassFair ==
  ASSUME NEW t \in Seq(Nat), NEW overrun \in Nat, NEW shift \in Nat
  PROVE  Fair(AfterPass(t, overrun, shift), Len(t), t, overrun, shift)
<1>1. PICK P :
        /\ P[0] = [freq |-> t, overrun |-> overrun]
        /\ \A i \in 1 .. Len(t) : P[i] = PassStep(P[i - 1], t, i, shift)
        /\ \A i \in 0 .. Len(t) : P[i] \in Rest(Len(t))
        /\ AfterPass(t, overrun, shift) = P[Len(t)]
  BY AfterPassIs, Zenon
<1> DEFINE n == Len(t)
           start == [freq |-> t, overrun |-> overrun]
<1> DEFINE S == {k \in Nat : Fair(P[k], k, t, overrun, shift)}
<1>2. 0 \in S
  <2>1. start.freq = t /\ start.overrun = overrun /\ P[0] = start
    BY <1>1
  <2> HIDE DEF start
  <2>2. Fair(start, 0, t, overrun, shift)
    BY <2>1 DEF Fair
  <2>3. Fair(P[0], 0, t, overrun, shift)
    BY <2>1, <2>2
  <2> QED
    BY <2>3
<1>3. ASSUME NEW k \in 0 .. n - 1, k \in S PROVE k + 1 \in S
  <2>1. k + 1 \in 1 .. n /\ k + 1 - 1 = k
    OBVIOUS
  <2>2. P[k + 1] = PassStep(P[k], t, k + 1, shift)
    BY <1>1, <2>1
  <2>3. Fair(P[k], k + 1 - 1, t, overrun, shift)
    BY <1>3, <2>1
  <2>4. Fair(PassStep(P[k], t, k + 1, shift), k + 1, t, overrun, shift)
    BY <2>1, <2>3, StepFair
  <2> QED
    BY <2>2, <2>4
<1>4. n \in S
  <2>1. n \in Nat
    OBVIOUS
  <2> HIDE DEF S, n
  <2>2. 0 .. n \subseteq S
    BY <1>2, <1>3, <2>1, BoundedInductionSet
  <2> QED
    BY <2>1, <2>2
<1> QED
  BY <1>1, <1>4

\* The four rounds, one after the other.
LEMMA AdjustedIs ==
  ASSUME NEW t, NEW overrun
  PROVE  LET r3 == AfterPass(t, overrun, 3)
             r2 == AfterPass(r3.freq, r3.overrun, 2)
             r1 == AfterPass(r2.freq, r2.overrun, 1)
         IN Adjusted(t, overrun) = AfterPass(r1.freq, r1.overrun, 0)
<1> DEFINE r4 == [freq |-> t, overrun |-> overrun]
           r3 == AfterPass(t, overrun, 3)
           r2 == AfterPass(r3.freq, r3.overrun, 2)
           r1 == AfterPass(r2.freq, r2.overrun, 1)
           r0 == AfterPass(r1.freq, r1.overrun, 0)
           Step1(s, b) == AfterPass(b.freq, b.overrun, s)
           Is(a) == a = [s \in 0 .. 4 |-> IF s = 4 THEN r4 ELSE Step1(s, a[s + 1])]
           Q == CHOOSE a : Is(a)
           w == [s \in 0 .. 4 |-> IF s = 4 THEN r4 ELSE IF s = 3 THEN r3 ELSE IF s = 2 THEN r2
                                  ELSE IF s = 1 THEN r1 ELSE r0]
<1>0. Step1(3, r4) = r3 /\ Step1(2, r3) = r2 /\ Step1(1, r2) = r1 /\ Step1(0, r1) = r0
  <2>1. r4.freq = t /\ r4.overrun = overrun
    OBVIOUS
  <2> QED
    BY <2>1
<1>1. Adjusted(t, overrun) = Q[0]
  BY DEF Adjusted
<1> HIDE DEF r4, r3, r2, r1, r0, Step1
<1>2. Is(w)
  <2>1. w[4] = r4 /\ w[3] = r3 /\ w[2] = r2 /\ w[1] = r1 /\ w[0] = r0
    OBVIOUS
  <2>2. ASSUME NEW s \in 0 .. 4 PROVE w[s] = IF s = 4 THEN r4 ELSE Step1(s, w[s + 1])
    <3>1. s = 4 \/ s = 3 \/ s = 2 \/ s = 1 \/ s = 0
      OBVIOUS
    <3> HIDE DEF w
    <3>2. 3 + 1 = 4 /\ 2 + 1 = 3 /\ 1 + 1 = 2 /\ 0 + 1 = 1
      OBVIOUS
    <3> QED
      BY <1>0, <2>1, <3>1, <3>2
  <2>3. w = [s \in 0 .. 4 |-> w[s]]
    OBVIOUS
  <2> HIDE DEF w
  <2> QED
    BY <2>2, <2>3
<1>3. Is(Q)
  BY <1>2
<1>4. Q = [s \in 0 .. 4 |-> IF s = 4 THEN r4 ELSE Step1(s, Q[s + 1])]
  BY <1>3
<1> HIDE DEF Q
<1>5. Q[4] = r4 /\ Q[3] = Step1(3, Q[4]) /\ Q[2] = Step1(2, Q[3]) /\ Q[1] = Step1(1, Q[2]) /\ Q[0] = Step1(0, Q[1])
  <2>1. ASSUME NEW s \in 0 .. 4 PROVE Q[s] = IF s = 4 THEN r4 ELSE Step1(s, Q[s + 1])
    BY <1>4
  <2> QED
    BY <2>1
<1>6. Q[0] = r0
  BY <1>0, <1>5
<1> QED
  BY <1>1, <1>6 DEF r0, r1, r2, r3

\* The rounds take exactly what was handed out too much, if every symbol can have a
\* state.
LEMMA AdjustedSound ==
  ASSUME NEW t \in Seq(Nat), NEW nstates \in Nat, Len(t) <= nstates, Total(t) >= nstates
  PROVE  LET f == Adjusted(t, Total(t) - nstates).freq
         IN /\ f \in Seq(Nat) /\ Len(f) = Len(t) /\ Total(f) = nstates
            /\ \A i \in 1 .. Len(t) : t[i] > 0 => f[i] > 0
<1> DEFINE over == Total(t) - nstates
           r3 == AfterPass(t, over, 3)
           r2 == AfterPass(r3.freq, r3.overrun, 2)
           r1 == AfterPass(r2.freq, r2.overrun, 1)
           r0 == AfterPass(r1.freq, r1.overrun, 0)
<1>1. Adjusted(t, over) = r0
  BY AdjustedIs
<1>2. Total(t) \in Nat /\ over \in Nat /\ Total(t) - over = nstates
  <2>1. Total(t) \in Nat
    BY OffsetSteps
  <2> QED
    BY <2>1
<1> HIDE DEF over
<1> DEFINE Held(r) == /\ r.freq \in Seq(Nat) /\ Len(r.freq) = Len(t) /\ r.overrun \in Nat
                      /\ Total(r.freq) - r.overrun = nstates
                      /\ \A j \in 1 .. Len(t) : t[j] > 0 => r.freq[j] > 0
<1>3. Held(r3)
  <2>1. Fair(r3, Len(t), t, over, 3)
    BY <1>2, PassFair
  <2> HIDE DEF r3
  <2> QED
    BY <1>2, <2>1 DEF Fair
<1>4. ASSUME NEW r, Held(r), NEW shift \in Nat
      PROVE  Held(AfterPass(r.freq, r.overrun, shift))
             /\ Fair(AfterPass(r.freq, r.overrun, shift), Len(t), r.freq, r.overrun, shift)
  <2> DEFINE q == AfterPass(r.freq, r.overrun, shift)
  <2>1. Fair(q, Len(r.freq), r.freq, r.overrun, shift)
    BY <1>4, PassFair
  <2> HIDE DEF q
  <2>2. Fair(q, Len(t), r.freq, r.overrun, shift)
    BY <1>4, <2>1
  <2>3. q.freq \in Seq(Nat) /\ Len(q.freq) = Len(t) /\ q.overrun \in Nat
    BY <1>4, <2>1 DEF Fair
  <2>4. Total(q.freq) - q.overrun = nstates
    BY <1>4, <2>1 DEF Fair
  <2>5. \A j \in 1 .. Len(t) : t[j] > 0 => q.freq[j] > 0
    BY <1>4, <2>1 DEF Fair
  <2> QED
    BY <2>2, <2>3, <2>4, <2>5 DEF q
<1> HIDE DEF Held
<1>5. Held(r2)
  <2> HIDE DEF r3
  <2> QED
    BY <1>3, <1>4
<1>6. Held(r1)
  <2> HIDE DEF r2
  <2> QED
    BY <1>4, <1>5
<1>7. Held(r0) /\ Fair(r0, Len(t), r1.freq, r1.overrun, 0)
  <2> HIDE DEF r1
  <2> QED
    BY <1>4, <1>6
<1> HIDE DEF r0, r1
<1>8. r0.freq \in Seq(Nat) /\ Len(r0.freq) = Len(t) /\ r0.overrun \in Nat /\ Total(r0.freq) - r0.overrun = nstates
  BY <1>7 DEF Held
<1>9. r0.overrun = 0
  <2> SUFFICES ASSUME r0.overrun > 0 PROVE FALSE
    BY <1>8
  <2>1. Len(r1.freq) = Len(t)
    BY <1>6 DEF Held
  <2>2. \A j \in 1 .. Len(t) : r0.freq[j] <= 1
    BY <1>7 DEF Fair
  <2>3. Total(r0.freq) <= Len(t)
    BY <1>8, <2>2, SmallSum
  <2>4. Total(r0.freq) \in Nat /\ Len(t) \in Nat
    BY <1>8, OffsetSteps
  <2> QED
    BY <1>8, <2>3, <2>4
<1>10. Total(r0.freq) = nstates
  <2>1. Total(r0.freq) \in Nat
    BY <1>8, OffsetSteps
  <2> QED
    BY <1>8, <1>9, <2>1
<1>11. \A j \in 1 .. Len(t) : t[j] > 0 => r0.freq[j] > 0
  BY <1>7 DEF Held
<1> QED
  BY <1>1, <1>8, <1>10, <1>11 DEF over

\* fse_normalize_freq hands out exactly all states, and a symbol that occurs gets some.
LEMMA NormalizedSound ==
  ASSUME NEW nstates \in Nat, nstates > 0, Log2(nstates) < Precision,
         NEW occ \in Seq(Nat), Len(occ) \in 1 .. nstates
  PROVE  LET f == Normalized(nstates, occ).freq
         IN /\ f \in Seq(Nat) /\ Len(f) = Len(occ) /\ Total(f) = nstates
            /\ \A i \in 1 .. Len(occ) : occ[i] > 0 => f[i] > 0
<1> DEFINE t == Scaled(nstates, occ)
           remaining == nstates - Total(t)
           most == MostFrequent(t)
           f == Normalized(nstates, occ).freq
<1>1. t \in Seq(Nat) /\ Len(t) = Len(occ) /\ \A i \in 1 .. Len(occ) : occ[i] > 0 => t[i] > 0
  BY ScaledShares
<1>2. Normalized(nstates, occ) =
        IF -remaining < t[most] \div 4
        THEN [freq |-> [t EXCEPT ![most] = @ + remaining], overrun |-> 0]
        ELSE Adjusted(t, -remaining)
  BY DEF Normalized
<1> HIDE DEF t
<1>3. Total(t) \in Nat /\ remaining \in Int /\ -remaining = Total(t) - nstates
  <2>1. Total(t) \in Nat
    BY <1>1, OffsetSteps
  <2> QED
    BY <2>1
<1>4. most \in 1 .. Len(t) /\ t[most] \in Nat
  <2>1. most \in 1 .. Len(t)
    BY <1>1, MostFrequentIs
  <2> QED
    BY <1>1, <2>1
<1> HIDE DEF most
<1>5. CASE -remaining < t[most] \div 4
  <2> DEFINE v == t[most] + remaining
  <2>1. v \in Nat /\ v > 0
    <3> DEFINE a == t[most]
    <3>1. a \in Nat /\ -remaining < a \div 4
      BY <1>4, <1>5
    <3> HIDE DEF a, remaining
    <3>2. a \div 4 <= a
      BY <3>1
    <3> QED
      BY <1>3, <3>1, <3>2 DEF a
  <2>2. f = [t EXCEPT ![most] = v]
    BY <1>2, <1>5
  <2> HIDE DEF v, f
  <2>3. f \in Seq(Nat) /\ Len(f) = Len(t) /\ Total(f) = Total(t) - t[most] + v
    BY <1>1, <1>4, <2>1, <2>2, SumChanged
  <2>4. Total(f) = nstates
    BY <1>3, <1>4, <2>3 DEF v
  <2>5. \A i \in 1 .. Len(occ) : occ[i] > 0 => f[i] > 0
    BY <1>1, <1>4, <2>1, <2>2
  <2> QED
    BY <1>1, <2>3, <2>4, <2>5 DEF f
<1>6. CASE ~(-remaining < t[most] \div 4)
  <2>1. -remaining >= 0
    <3> DEFINE a == t[most]
    <3>1. a \in Nat /\ ~(-remaining < a \div 4)
      BY <1>4, <1>6
    <3> HIDE DEF a, remaining
    <3>2. a \div 4 >= 0 /\ a \div 4 \in Int
      BY <3>1
    <3> QED
      BY <1>3, <3>1, <3>2
  <2>2. Total(t) >= nstates /\ Len(t) <= nstates
    BY <1>1, <1>3, <2>1
  <2>3. f = Adjusted(t, Total(t) - nstates).freq
    BY <1>2, <1>3, <1>6
  <2> HIDE DEF f
  <2>4. f \in Seq(Nat) /\ Len(f) = Len(t) /\ Total(f) = nstates /\ \A i \in 1 .. Len(t) : t[i] > 0 => f[i] > 0
    BY <1>1, <2>2, <2>3, AdjustedSound
  <2> QED
    BY <1>1, <2>4 DEF f
<1> QED
  BY <1>5, <1>6

-----------------------------------------------------------------------------
(* Numbers and their bits.                                                  *)

\* Number obeys its recursive equation.
LEMMA NumberIs ==
  ASSUME NEW bits \in Seq(Nat)
  PROVE  \E P :
           /\ P[0] = 0
           /\ \A i \in 1 .. Len(bits) : P[i] = 2 * P[i - 1] + bits[Len(bits) - i + 1]
           /\ \A i \in 0 .. Len(bits) : P[i] \in Nat
           /\ Number(bits) = P[Len(bits)]
<1> DEFINE last == Len(bits)
           T == Nat
           F == [i \in 1 .. last |-> [x \in T |-> 2 * x + bits[Len(bits) - i + 1]]]
           Is(p) == p = [i \in 0 .. last |-> IF i = 0 THEN 0 ELSE 2 * p[i - 1] + bits[Len(bits) - i + 1]]
           Q == CHOOSE p : Is(p)
<1>1. last \in Nat /\ 0 \in T
  OBVIOUS
<1>2. ASSUME NEW i \in 1 .. last, NEW x \in T PROVE 2 * x + bits[Len(bits) - i + 1] \in T
  <2>1. Len(bits) - i + 1 \in 1 .. Len(bits)
    OBVIOUS
  <2>2. bits[Len(bits) - i + 1] \in Nat
    BY <2>1
  <2> QED
    BY <2>2
<1>3. \A i \in 1 .. last : \A x \in T : F[i][x] = 2 * x + bits[Len(bits) - i + 1] /\ F[i][x] \in T
  BY <1>2
<1>4. \E p : Is(p)
  <2> HIDE DEF F
  <2>1. PICK p \in [0 .. last -> T] : Iterates(p, 0, last, F)
    <3> HIDE DEF last, T
    <3> QED
      BY <1>1, <1>3, RecursiveFunction
  <2>2. ASSUME NEW i \in 0 .. last, i # 0 PROVE F[i][p[i - 1]] = 2 * p[i - 1] + bits[Len(bits) - i + 1]
    <3> HIDE DEF last, T
    <3>1. i \in 1 .. last /\ i - 1 \in 0 .. last
      BY <1>1, <2>2
    <3>2. p[i - 1] \in T
      BY <3>1
    <3> QED
      BY <1>3, <3>1, <3>2
  <2>3. p = [i \in 0 .. last |-> IF i = 0 THEN 0 ELSE 2 * p[i - 1] + bits[Len(bits) - i + 1]]
    <3> HIDE DEF last, T
    <3> QED
      BY <2>1, <2>2 DEF Iterates
  <2> QED
    BY <2>3
<1>5. Is(Q)
  BY <1>4
<1>6. Number(bits) = Q[Len(bits)]
  BY DEF Number
<1>7. Q = [i \in 0 .. last |-> IF i = 0 THEN 0 ELSE 2 * Q[i - 1] + bits[Len(bits) - i + 1]]
  BY <1>5
<1> HIDE DEF Q, F
<1>8. Q[0] = 0 /\ \A i \in 1 .. last : Q[i] = 2 * Q[i - 1] + bits[Len(bits) - i + 1]
  <2> HIDE DEF last
  <2>1. ASSUME NEW i \in 0 .. last PROVE Q[i] = IF i = 0 THEN 0 ELSE 2 * Q[i - 1] + bits[Len(bits) - i + 1]
    BY <1>7
  <2>2. 0 \in 0 .. last
    BY <1>1
  <2>3. Q[0] = 0
    BY <2>1, <2>2
  <2>4. ASSUME NEW i \in 1 .. last PROVE Q[i] = 2 * Q[i - 1] + bits[Len(bits) - i + 1]
    <3>1. i \in 0 .. last /\ i # 0
      BY <1>1
    <3> QED
      BY <2>1, <3>1
  <2> QED
    BY <2>3, <2>4
<1>9. \A i \in 1 .. last : Q[i - 1] \in T => Q[i] \in T
  <2> HIDE DEF last, T
  <2> QED
    BY <1>2, <1>8
<1>10. \A i \in 0 .. last : Q[i] \in T
  <2> HIDE DEF last, T
  <2> QED
    BY <1>1, <1>8, <1>9, HandedOn
<1> QED
  BY <1>6, <1>8, <1>10


\* An element of a sequence.
LEMMA ElementIs ==
  ASSUME NEW S, NEW s \in Seq(S), NEW i \in 1 .. Len(s)
  PROVE  s[i] \in S
OBVIOUS

\* A function on 1 .. n is a sequence.
LEMMA SeqIs ==
  ASSUME NEW S, NEW n \in Nat, NEW f \in [1 .. n -> S]
  PROVE  f \in Seq(S) /\ Len(f) = n
OBVIOUS

\* A part of a sequence.
LEMMA PartIs ==
  ASSUME NEW S, NEW s \in Seq(S), NEW m \in 1 .. Len(s), NEW n \in m .. Len(s)
  PROVE  /\ SubSeq(s, m, n) \in Seq(S) /\ Len(SubSeq(s, m, n)) = n - m + 1
         /\ \A i \in 1 .. n - m + 1 : SubSeq(s, m, n)[i] = s[m + i - 1]
OBVIOUS

\* What is a sequence over a set is one over a larger set.
LEMMA WiderSeq ==
  ASSUME NEW T, NEW S, S \subseteq T, NEW s \in Seq(S)
  PROVE  s \in Seq(T)
OBVIOUS

\* One sequence behind another.
LEMMA ConcatIs ==
  ASSUME NEW S, NEW s \in Seq(S), NEW u \in Seq(S)
  PROVE  /\ s \o u \in Seq(S) /\ Len(s \o u) = Len(s) + Len(u)
         /\ \A i \in 1 .. Len(s) : (s \o u)[i] = s[i]
         /\ \A i \in 1 .. Len(u) : (s \o u)[Len(s) + i] = u[i]
OBVIOUS

\* The number that 5 bits stand for.
LEMMA Number5 ==
  ASSUME NEW s \in Seq(Nat), Len(s) = 5
  PROVE  Number(s) = s[1] + 2 * s[2] + 4 * s[3] + 8 * s[4] + 16 * s[5]
<1>1. PICK P : /\ P[0] = 0 /\ \A i \in 1 .. 5 : P[i] = 2 * P[i - 1] + s[5 - i + 1]
               /\ Number(s) = P[5]
  BY NumberIs
<1>2. P[1] = 2 * P[0] + s[5]
  <2>1. 1 \in 1 .. 5 /\ 1 - 1 = 0 /\ 5 - 1 + 1 = 5
    OBVIOUS
  <2> QED
    BY <1>1, <2>1
<1>3. P[2] = 2 * P[1] + s[4]
  <2>1. 2 \in 1 .. 5 /\ 2 - 1 = 1 /\ 5 - 2 + 1 = 4
    OBVIOUS
  <2> QED
    BY <1>1, <2>1
<1>4. P[3] = 2 * P[2] + s[3]
  <2>1. 3 \in 1 .. 5 /\ 3 - 1 = 2 /\ 5 - 3 + 1 = 3
    OBVIOUS
  <2> QED
    BY <1>1, <2>1
<1>5. P[4] = 2 * P[3] + s[2]
  <2>1. 4 \in 1 .. 5 /\ 4 - 1 = 3 /\ 5 - 4 + 1 = 2
    OBVIOUS
  <2> QED
    BY <1>1, <2>1
<1>6. P[5] = 2 * P[4] + s[1]
  <2>1. 5 \in 1 .. 5 /\ 5 - 1 = 4 /\ 5 - 5 + 1 = 1
    OBVIOUS
  <2> QED
    BY <1>1, <2>1
<1>7. ASSUME NEW i \in 1 .. 5 PROVE s[i] \in Nat
  <2>1. i \in 1 .. Len(s)
    OBVIOUS
  <2> QED
    BY <2>1, ElementIs
<1>8. s[1] \in Nat /\ s[2] \in Nat /\ s[3] \in Nat /\ s[4] \in Nat /\ s[5] \in Nat
  BY <1>7
<1> DEFINE b1 == s[1]
           b2 == s[2]
           b3 == s[3]
           b4 == s[4]
           b5 == s[5]
<1>9. b1 \in Nat /\ b2 \in Nat /\ b3 \in Nat /\ b4 \in Nat /\ b5 \in Nat
  BY <1>8
<1>10. P[1] = b5
  BY <1>1, <1>2, <1>8
<1>11. P[2] = b4 + 2 * b5
  <2>1. P[2] = 2 * P[1] + b4
    BY <1>3
  <2> HIDE DEF b1, b2, b3, b4, b5
  <2> QED
    BY <1>9, <1>10, <2>1
<1>12. P[3] = b3 + 2 * b4 + 4 * b5
  <2>1. P[3] = 2 * P[2] + b3
    BY <1>4
  <2> HIDE DEF b1, b2, b3, b4, b5
  <2> QED
    BY <1>9, <1>11, <2>1
<1>13. P[4] = b2 + 2 * b3 + 4 * b4 + 8 * b5
  <2>1. P[4] = 2 * P[3] + b2
    BY <1>5
  <2> HIDE DEF b1, b2, b3, b4, b5
  <2> QED
    BY <1>9, <1>12, <2>1
<1>14. P[5] = b1 + 2 * b2 + 4 * b3 + 8 * b4 + 16 * b5
  <2>1. P[5] = 2 * P[4] + b1
    BY <1>6
  <2> HIDE DEF b1, b2, b3, b4, b5
  <2> QED
    BY <1>9, <1>13, <2>1
<1> QED
  BY <1>1, <1>14


\* Halving a quotient is dividing by twice the divisor.
LEMMA DivTwice ==
  ASSUME NEW x \in Nat, NEW p \in Nat, p > 0
  PROVE  2 * (x \div (2 * p)) + ((x \div p) % 2) = x \div p
<1> DEFINE q == x \div p
           r == x % p
           h == q \div 2
           b == q % 2
           d == 2 * p
<1>1. q \in Int /\ r \in 0 .. p - 1 /\ x = p * q + r
  BY DivMod, ModRange, DivBounds
<1> HIDE DEF q, r
<1>2. h \in Int /\ b \in 0 .. 1 /\ q = 2 * h + b
  BY <1>1, DivMod, ModRange, DivBounds
<1>3. d \in Nat /\ d > 0 /\ d = p + p
  OBVIOUS
<1> HIDE DEF h, b, d
<1>4. p * b + r \in 0 .. d - 1
  <2>1. b = 0 \/ b = 1
    BY <1>2
  <2> QED
    BY <1>1, <1>3, <2>1
<1>5. x = d * h + (p * b + r)
  <2>1. p * q = p * (2 * h) + p * b
    BY <1>1, <1>2
  <2>2. p * (2 * h) = d * h
    BY <1>2, <1>3 DEF d
  <2>3. p * (2 * h) \in Int /\ p * b \in Int
    BY <1>2
  <2> QED
    BY <1>1, <2>1, <2>2, <2>3
<1>6. h = x \div d
  BY <1>2, <1>3, <1>4, <1>5, DivModUnique
<1> QED
  BY <1>2, <1>6 DEF d, b, q

\* Bit k of x, counted from 1.
Bit(x, k) == (x \div Pow2(k - 1)) % 2

\* The next bit is a bit of the half.
LEMMA BitSteps ==
  ASSUME NEW x \in Nat
  PROVE  /\ Bit(x, 1) = x % 2
         /\ \A k \in Nat \ {0} : Bit(x, k) \in {0, 1} /\ Bit(x, k + 1) = Bit(x \div 2, k)
         /\ x \div 2 \in Nat /\ x = 2 * (x \div 2) + Bit(x, 1)
<1>1. Bit(x, 1) = x % 2
  <2>1. 1 - 1 = 0 /\ Pow2(0) = 1
    BY Pow2Steps
  <2>2. x \div 1 = x
    OBVIOUS
  <2> QED
    BY <2>1, <2>2 DEF Bit
<1>2. ASSUME NEW k \in Nat \ {0} PROVE Bit(x, k) \in {0, 1} /\ Bit(x, k + 1) = Bit(x \div 2, k)
  <2> DEFINE p == Pow2(k - 1)
             y == x \div 2
             q == y \div p
             r == y % p
             b == x % 2
  <2>1. p \in Nat /\ p > 0 /\ Pow2(k + 1 - 1) = 2 * p
    <3>1. k - 1 \in Nat /\ k + 1 - 1 = k - 1 + 1
      OBVIOUS
    <3> QED
      BY <3>1, Pow2Steps
  <2>2. y \in Nat /\ b \in 0 .. 1 /\ x = 2 * y + b
    OBVIOUS
  <2>3. x \div p \in Int
    <3> HIDE DEF p
    <3> QED
      BY <2>1
  <2>4. Bit(x, k) = (x \div p) % 2 /\ Bit(x, k + 1) = (x \div (2 * p)) % 2 /\ Bit(y, k) = (y \div p) % 2
    BY <2>1 DEF Bit
  <2> HIDE DEF p, y, b
  <2>5. q \in Int /\ r \in 0 .. p - 1 /\ y = p * q + r
    BY <2>1, <2>2, DivMod, ModRange, DivBounds
  <2>6. (x \div p) % 2 \in {0, 1}
    BY <2>3
  <2> HIDE DEF q, r
  <2>7. 2 * p \in Nat /\ 2 * p > 0 /\ 2 * r + b \in 0 .. 2 * p - 1
    BY <2>1, <2>2, <2>5
  <2>8. x = (2 * p) * q + (2 * r + b)
    <3>1. 2 * (p * q) = (2 * p) * q
      BY <2>1, <2>5
    <3>2. p * q \in Int
      BY <2>1, <2>5
    <3> QED
      BY <2>2, <2>5, <3>1, <3>2
  <2>9. q = x \div (2 * p)
    <3> DEFINE d == 2 * p
               rest == 2 * r + b
    <3>1. d \in Nat /\ d > 0 /\ rest \in 0 .. d - 1 /\ x = d * q + rest
      BY <2>7, <2>8
    <3> HIDE DEF d, rest
    <3>2. q = x \div d
      BY <2>5, <3>1, DivModUnique
    <3> QED
      BY <3>2 DEF d
  <2> QED
    BY <2>4, <2>6, <2>9 DEF q, y
<1>3. x \div 2 \in Nat /\ x = 2 * (x \div 2) + (x % 2)
  OBVIOUS
<1> QED
  BY <1>1, <1>2, <1>3

\* Bits of a number, one by one.
LEMMA BitsAre ==
  ASSUME NEW x \in Nat, NEW n \in Nat
  PROVE  Bits(x, n) \in Seq({0, 1}) /\ Len(Bits(x, n)) = n /\ \A k \in 1 .. n : Bits(x, n)[k] = Bit(x, k)
<1>1. Bits(x, n) = [k \in 1 .. n |-> Bit(x, k)]
  BY DEF Bits, Bit
<1>2. \A k \in 1 .. n : Bit(x, k) \in {0, 1}
  BY BitSteps
<1> HIDE DEF Bit
<1> QED
  BY <1>1, <1>2


\* The bits of a number that has no more of them stand for it.
LEMMA NumberOfBits ==
  ASSUME NEW n \in Nat, NEW x \in Nat, x < Pow2(n)
  PROVE  Number(Bits(x, n)) = x
<1> DEFINE s == Bits(x, n)
           top(i) == x \div Pow2(n - i)
<1>1. s \in Seq({0, 1}) /\ Len(s) = n /\ \A k \in 1 .. n : s[k] = Bit(x, k)
  BY BitsAre
<1> HIDE DEF s
<1>2. PICK P : /\ P[0] = 0 /\ \A i \in 1 .. n : P[i] = 2 * P[i - 1] + s[n - i + 1]
               /\ Number(s) = P[n]
  <2>1. s \in Seq(Nat)
    BY <1>1
  <2> QED
    BY <1>1, <2>1, NumberIs
<1>3. \A i \in 0 .. n : Pow2(n - i) \in Nat /\ Pow2(n - i) > 0
  <2> SUFFICES ASSUME NEW i \in 0 .. n PROVE Pow2(n - i) \in Nat /\ Pow2(n - i) > 0
    OBVIOUS
  <2>1. n - i \in Nat
    OBVIOUS
  <2> QED
    BY <2>1, Pow2Steps
<1> DEFINE S == {i \in Nat : P[i] = top(i)}
<1>4. 0 \in S
  <2> DEFINE p == Pow2(n)
  <2>1. p \in Nat /\ p > 0 /\ x < p
    BY Pow2Steps
  <2>2. n - 0 = n
    OBVIOUS
  <2> HIDE DEF p
  <2>3. x \div p = 0
    BY <2>1
  <2>4. top(0) = x \div p
    BY <2>2 DEF p
  <2> QED
    BY <1>2, <2>3, <2>4
<1>5. ASSUME NEW k \in 0 .. n - 1, k \in S PROVE k + 1 \in S
  <2> DEFINE p == Pow2(n - (k + 1))
  <2>1. k + 1 \in 1 .. n /\ k + 1 - 1 = k /\ n - (k + 1) + 1 = n - k /\ n - (k + 1) \in Nat
        /\ n - k \in 1 .. n /\ n - k - 1 = n - (k + 1)
    OBVIOUS
  <2>2. P[k + 1] = 2 * P[k] + s[n - k]
    BY <1>2, <2>1
  <2>3. s[n - k] = (x \div p) % 2
    BY <1>1, <2>1 DEF Bit
  <2>4. p \in Nat /\ p > 0 /\ Pow2(n - k) = 2 * p
    BY <2>1, Pow2Steps
  <2>5. P[k] = x \div (2 * p)
    BY <1>5, <2>4
  <2>6. top(k + 1) = x \div p
    OBVIOUS
  <2> HIDE DEF p
  <2>7. 2 * (x \div (2 * p)) + ((x \div p) % 2) = x \div p
    BY <2>4, DivTwice
  <2> QED
    BY <2>1, <2>2, <2>3, <2>5, <2>6, <2>7
<1>6. n \in S
  <2> HIDE DEF S
  <2>1. 0 .. n \subseteq S
    BY <1>4, <1>5, BoundedInductionSet
  <2> QED
    BY <2>1
<1>7. top(n) = x
  <2>1. n - n = 0 /\ Pow2(0) = 1 /\ x \div 1 = x
    BY Pow2Steps
  <2> QED
    BY <2>1
<1> QED
  BY <1>2, <1>6, <1>7 DEF s

-----------------------------------------------------------------------------
(* The codes of frequencies.                                                *)

\* The decoder's tables, entry by entry.
LEMMA TablesAre ==
  /\ FreqNbits[1] = 2 /\ FreqNbits[2] = 3 /\ FreqNbits[3] = 2 /\ FreqNbits[4] = 5
     /\ FreqNbits[5] = 2 /\ FreqNbits[6] = 3 /\ FreqNbits[7] = 2 /\ FreqNbits[8] = 8
     /\ FreqNbits[9] = 2 /\ FreqNbits[10] = 3 /\ FreqNbits[11] = 2 /\ FreqNbits[12] = 5
     /\ FreqNbits[13] = 2 /\ FreqNbits[14] = 3 /\ FreqNbits[15] = 2 /\ FreqNbits[16] = 14
     /\ FreqNbits[17] = 2 /\ FreqNbits[18] = 3 /\ FreqNbits[19] = 2 /\ FreqNbits[20] = 5
     /\ FreqNbits[21] = 2 /\ FreqNbits[22] = 3 /\ FreqNbits[23] = 2 /\ FreqNbits[24] = 8
     /\ FreqNbits[25] = 2 /\ FreqNbits[26] = 3 /\ FreqNbits[27] = 2 /\ FreqNbits[28] = 5
     /\ FreqNbits[29] = 2 /\ FreqNbits[30] = 3 /\ FreqNbits[31] = 2 /\ FreqNbits[32] = 14
  /\ FreqValue[1] = 0 /\ FreqValue[2] = 2 /\ FreqValue[3] = 1 /\ FreqValue[4] = 4
     /\ FreqValue[5] = 0 /\ FreqValue[6] = 3 /\ FreqValue[7] = 1 /\ FreqValue[8] = -1
     /\ FreqValue[9] = 0 /\ FreqValue[10] = 2 /\ FreqValue[11] = 1 /\ FreqValue[12] = 5
     /\ FreqValue[13] = 0 /\ FreqValue[14] = 3 /\ FreqValue[15] = 1 /\ FreqValue[16] = -1
     /\ FreqValue[17] = 0 /\ FreqValue[18] = 2 /\ FreqValue[19] = 1 /\ FreqValue[20] = 6
     /\ FreqValue[21] = 0 /\ FreqValue[22] = 3 /\ FreqValue[23] = 1 /\ FreqValue[24] = -1
     /\ FreqValue[25] = 0 /\ FreqValue[26] = 2 /\ FreqValue[27] = 1 /\ FreqValue[28] = 7
     /\ FreqValue[29] = 0 /\ FreqValue[30] = 3 /\ FreqValue[31] = 1 /\ FreqValue[32] = -1
<1>1. FreqNbits[1] = 2 /\ FreqNbits[2] = 3 /\ FreqNbits[3] = 2 /\ FreqNbits[4] = 5 /\ FreqNbits[5] = 2 /\ FreqNbits[6] = 3 /\ FreqNbits[7] = 2 /\ FreqNbits[8] = 8 /\ FreqNbits[9] = 2 /\ FreqNbits[10] = 3 /\ FreqNbits[11] = 2 /\ FreqNbits[12] = 5 /\ FreqNbits[13] = 2 /\ FreqNbits[14] = 3 /\ FreqNbits[15] = 2 /\ FreqNbits[16] = 14 /\ FreqNbits[17] = 2 /\ FreqNbits[18] = 3 /\ FreqNbits[19] = 2 /\ FreqNbits[20] = 5 /\ FreqNbits[21] = 2 /\ FreqNbits[22] = 3 /\ FreqNbits[23] = 2 /\ FreqNbits[24] = 8 /\ FreqNbits[25] = 2 /\ FreqNbits[26] = 3 /\ FreqNbits[27] = 2 /\ FreqNbits[28] = 5 /\ FreqNbits[29] = 2 /\ FreqNbits[30] = 3 /\ FreqNbits[31] = 2 /\ FreqNbits[32] = 14
  BY DEF FreqNbits
<1>2. FreqValue[1] = 0 /\ FreqValue[2] = 2 /\ FreqValue[3] = 1 /\ FreqValue[4] = 4 /\ FreqValue[5] = 0 /\ FreqValue[6] = 3 /\ FreqValue[7] = 1 /\ FreqValue[8] = -1 /\ FreqValue[9] = 0 /\ FreqValue[10] = 2 /\ FreqValue[11] = 1 /\ FreqValue[12] = 5 /\ FreqValue[13] = 0 /\ FreqValue[14] = 3 /\ FreqValue[15] = 1 /\ FreqValue[16] = -1 /\ FreqValue[17] = 0 /\ FreqValue[18] = 2 /\ FreqValue[19] = 1 /\ FreqValue[20] = 6 /\ FreqValue[21] = 0 /\ FreqValue[22] = 3 /\ FreqValue[23] = 1 /\ FreqValue[24] = -1 /\ FreqValue[25] = 0 /\ FreqValue[26] = 2 /\ FreqValue[27] = 1 /\ FreqValue[28] = 7 /\ FreqValue[29] = 0 /\ FreqValue[30] = 3 /\ FreqValue[31] = 1 /\ FreqValue[32] = -1
  BY DEF FreqValue
<1> QED
  BY <1>1, <1>2

Window == {a \in Seq({0, 1}) : Len(a) = 14}

\* What the 14 bits that are looked at consist of.
LEMMA WindowIs ==
  ASSUME NEW a \in Window
  PROVE  /\ a \in Seq({0, 1}) /\ a \in Seq(Nat) /\ Len(a) = 14
         /\ \A k \in 1 .. 14 : a[k] \in {0, 1}
<1>1. a \in Seq({0, 1}) /\ Len(a) = 14
  BY DEF Window
<1>2. ASSUME NEW k \in 1 .. 14 PROVE a[k] \in {0, 1}
  <2>1. k \in 1 .. Len(a)
    BY <1>1
  <2> QED
    BY <1>1, <2>1, ElementIs
<1>3. a \in Seq(Nat)
  BY <1>1
<1> QED
  BY <1>1, <1>2, <1>3

\* What the decoder makes of the bits before it.
LEMMA DecodedIs ==
  ASSUME NEW a \in Window
  PROVE  /\ a[1] = 0 => DecodedFreq(a) = [nbits |-> 2, value |-> a[2]]
         /\ a[1] = 1 /\ a[2] = 0 => DecodedFreq(a) = [nbits |-> 3, value |-> 2 + a[3]]
         /\ a[1] = 1 /\ a[2] = 1 /\ a[3] = 0 => DecodedFreq(a) = [nbits |-> 5, value |-> 4 + a[4] + 2 * a[5]]
         /\ a[1] = 1 /\ a[2] = 1 /\ a[3] = 1 /\ a[4] = 0 =>
              DecodedFreq(a) = [nbits |-> 8, value |-> 8 + Number(SubSeq(a, 5, 8))]
         /\ a[1] = 1 /\ a[2] = 1 /\ a[3] = 1 /\ a[4] = 1 =>
              DecodedFreq(a) = [nbits |-> 14, value |-> 24 + Number(SubSeq(a, 5, 14))]
<1>1. a \in Seq(Nat) /\ \A k \in 1 .. 14 : a[k] \in {0, 1}
  BY WindowIs
<1> DEFINE s == SubSeq(a, 1, 5)
           x == Number(s)
           low == x + 1
<1>2. s \in Seq(Nat) /\ Len(s) = 5 /\ s[1] = a[1] /\ s[2] = a[2] /\ s[3] = a[3] /\ s[4] = a[4] /\ s[5] = a[5]
  <2>1. a \in Seq(Nat) /\ Len(a) = 14
    BY WindowIs
  <2>2. s \in Seq(Nat) /\ Len(s) = 5
    <3>1. 1 \in 1 .. Len(a) /\ 5 \in 1 .. Len(a) /\ 5 - 1 + 1 = 5
      BY <2>1
    <3> QED
      BY <2>1, <3>1, PartIs
  <2>3. s[1] = a[1] /\ s[2] = a[2] /\ s[3] = a[3] /\ s[4] = a[4] /\ s[5] = a[5]
    BY <2>1
  <2> QED
    BY <2>2, <2>3
<1> HIDE DEF s
<1>3. x = a[1] + 2 * a[2] + 4 * a[3] + 8 * a[4] + 16 * a[5]
  BY <1>2, Number5
<1>4. DecodedFreq(a) = [nbits |-> FreqNbits[low],
                        value |-> CASE FreqNbits[low] = 8 -> 8 + Number(SubSeq(a, 5, 8))
                                    [] FreqNbits[low] = 14 -> 24 + Number(SubSeq(a, 5, 14))
                                    [] OTHER -> FreqValue[low]]
  BY DEF DecodedFreq, s
<1> HIDE DEF x
<1>5. a[1] \in {0, 1} /\ a[2] \in {0, 1} /\ a[3] \in {0, 1} /\ a[4] \in {0, 1} /\ a[5] \in {0, 1}
  BY <1>1
<1> DEFINE b1 == a[1]
           b2 == a[2]
           b3 == a[3]
           b4 == a[4]
           b5 == a[5]
           n == FreqNbits[low]
           v == FreqValue[low]
<1>6. /\ b1 \in {0, 1} /\ b2 \in {0, 1} /\ b3 \in {0, 1} /\ b4 \in {0, 1} /\ b5 \in {0, 1}
      /\ low = b1 + 2 * b2 + 4 * b3 + 8 * b4 + 16 * b5 + 1
  BY <1>3, <1>5
<1>7. /\ b1 = 0 => n = 2 /\ v = b2
      /\ b1 = 1 /\ b2 = 0 => n = 3 /\ v = 2 + b3
      /\ b1 = 1 /\ b2 = 1 /\ b3 = 0 => n = 5 /\ v = 4 + b4 + 2 * b5
      /\ b1 = 1 /\ b2 = 1 /\ b3 = 1 /\ b4 = 0 => n = 8
      /\ b1 = 1 /\ b2 = 1 /\ b3 = 1 /\ b4 = 1 => n = 14
  <2> HIDE DEF b1, b2, b3, b4, b5, low
  <2>1. CASE b1 = 0 /\ b2 = 0
    <3>1. low = 1 \/ low = 5 \/ low = 9 \/ low = 13 \/ low = 17 \/ low = 21 \/ low = 25 \/ low = 29
      BY <1>6, <2>1
    <3> QED
      BY <2>1, <3>1, TablesAre
  <2>2. CASE b1 = 0 /\ b2 = 1
    <3>1. low = 3 \/ low = 7 \/ low = 11 \/ low = 15 \/ low = 19 \/ low = 23 \/ low = 27 \/ low = 31
      BY <1>6, <2>2
    <3> QED
      BY <2>2, <3>1, TablesAre
  <2>3. CASE b1 = 1 /\ b2 = 0 /\ b3 = 0
    <3>1. low = 2 \/ low = 10 \/ low = 18 \/ low = 26
      BY <1>6, <2>3
    <3> QED
      BY <2>3, <3>1, TablesAre
  <2>4. CASE b1 = 1 /\ b2 = 0 /\ b3 = 1
    <3>1. low = 6 \/ low = 14 \/ low = 22 \/ low = 30
      BY <1>6, <2>4
    <3> QED
      BY <2>4, <3>1, TablesAre
  <2>5. CASE b1 = 1 /\ b2 = 1 /\ b3 = 0
    <3>1. \/ low = 4 /\ b4 = 0 /\ b5 = 0
          \/ low = 12 /\ b4 = 1 /\ b5 = 0
          \/ low = 20 /\ b4 = 0 /\ b5 = 1
          \/ low = 28 /\ b4 = 1 /\ b5 = 1
      BY <1>6, <2>5
    <3>2. 4 + 0 + 2 * 0 = 4 /\ 4 + 1 + 2 * 0 = 5 /\ 4 + 0 + 2 * 1 = 6 /\ 4 + 1 + 2 * 1 = 7
      OBVIOUS
    <3> QED
      BY <2>5, <3>1, <3>2, TablesAre
  <2>6. CASE b1 = 1 /\ b2 = 1 /\ b3 = 1 /\ b4 = 0
    <3>1. low = 8 \/ low = 24
      BY <1>6, <2>6
    <3> QED
      BY <2>6, <3>1, TablesAre
  <2>7. CASE b1 = 1 /\ b2 = 1 /\ b3 = 1 /\ b4 = 1
    <3>1. low = 16 \/ low = 32
      BY <1>6, <2>7
    <3> QED
      BY <2>7, <3>1, TablesAre
  <2> QED
    BY <1>6, <2>1, <2>2, <2>3, <2>4, <2>5, <2>6, <2>7
<1>8. DecodedFreq(a) = [nbits |-> n, value |-> CASE n = 8 -> 8 + Number(SubSeq(a, 5, 8))
                                          [] n = 14 -> 24 + Number(SubSeq(a, 5, 14))
                                          [] OTHER -> v]
  BY <1>4
<1> HIDE DEF n, v, low
<1> QED
  BY <1>7, <1>8

\* A code is complete in itself: whoever sees its bits sees its length.
LEMMA PrefixFree ==
  ASSUME NEW a \in Window, NEW b \in Window, \A k \in 1 .. DecodedFreq(a).nbits : b[k] = a[k]
  PROVE  DecodedFreq(b).nbits = DecodedFreq(a).nbits
<1>1. a[1] \in {0, 1} /\ a[2] \in {0, 1} /\ a[3] \in {0, 1} /\ a[4] \in {0, 1}
  BY WindowIs
<1> DEFINE n == DecodedFreq(a).nbits
<1>2. \A k \in 1 .. n : b[k] = a[k]
  OBVIOUS
<1>3. CASE a[1] = 0
  <2>1. n = 2
    BY <1>3, DecodedIs
  <2>2. b[1] = 0
    BY <1>2, <1>3, <2>1
  <2> QED
    BY <2>1, <2>2, DecodedIs
<1>4. CASE a[1] = 1 /\ a[2] = 0
  <2>1. n = 3
    BY <1>4, DecodedIs
  <2>2. b[1] = 1 /\ b[2] = 0
    BY <1>2, <1>4, <2>1
  <2> QED
    BY <2>1, <2>2, DecodedIs
<1>5. CASE a[1] = 1 /\ a[2] = 1 /\ a[3] = 0
  <2>1. n = 5
    BY <1>5, DecodedIs
  <2>2. b[1] = 1 /\ b[2] = 1 /\ b[3] = 0
    BY <1>2, <1>5, <2>1
  <2> QED
    BY <2>1, <2>2, DecodedIs
<1>6. CASE a[1] = 1 /\ a[2] = 1 /\ a[3] = 1 /\ a[4] = 0
  <2>1. n = 8
    BY <1>6, DecodedIs
  <2>2. b[1] = 1 /\ b[2] = 1 /\ b[3] = 1 /\ b[4] = 0
    BY <1>2, <1>6, <2>1
  <2> QED
    BY <2>1, <2>2, DecodedIs
<1>7. CASE a[1] = 1 /\ a[2] = 1 /\ a[3] = 1 /\ a[4] = 1
  <2>1. n = 14
    BY <1>7, DecodedIs
  <2>2. b[1] = 1 /\ b[2] = 1 /\ b[3] = 1 /\ b[4] = 1
    BY <1>2, <1>7, <2>1
  <2> QED
    BY <2>1, <2>2, DecodedIs
<1> QED
  BY <1>1, <1>3, <1>4, <1>5, <1>6, <1>7

\* Decoding yields numbers, and takes 2 to 14 bits.
LEMMA DecodedType ==
  ASSUME NEW a \in Window
  PROVE  DecodedFreq(a).nbits \in 2 .. 14 /\ DecodedFreq(a).value \in Nat
<1>1. a[1] \in {0, 1} /\ a[2] \in {0, 1} /\ a[3] \in {0, 1} /\ a[4] \in {0, 1} /\ a[5] \in {0, 1}
  BY WindowIs
<1>2. Number(SubSeq(a, 5, 8)) \in Nat /\ Number(SubSeq(a, 5, 14)) \in Nat
  <2>1. ASSUME NEW s \in Seq(Nat) PROVE Number(s) \in Nat
    <3>1. \E P : (\A i \in 0 .. Len(s) : P[i] \in Nat) /\ Number(s) = P[Len(s)]
      BY NumberIs
    <3>2. Len(s) \in 0 .. Len(s)
      OBVIOUS
    <3> QED
      BY <3>1, <3>2
  <2>2. SubSeq(a, 5, 8) \in Seq(Nat) /\ SubSeq(a, 5, 14) \in Seq(Nat)
    <3>1. a \in Seq(Nat) /\ Len(a) = 14
      BY WindowIs
    <3>2. \A k \in 1 .. Len(a) : a[k] \in Nat
      BY <3>1, ElementIs
    <3> QED
      BY <3>1, <3>2
  <2> QED
    BY <2>1, <2>2
<1>3. 2 \in 2 .. 14 /\ 3 \in 2 .. 14 /\ 5 \in 2 .. 14 /\ 8 \in 2 .. 14 /\ 14 \in 2 .. 14
  OBVIOUS
<1>4. CASE a[1] = 0
  BY <1>1, <1>3, <1>4, DecodedIs
<1>5. CASE a[1] = 1 /\ a[2] = 0
  <2>1. 2 + a[3] \in Nat
    BY <1>1
  <2> QED
    BY <1>3, <1>5, <2>1, DecodedIs
<1>6. CASE a[1] = 1 /\ a[2] = 1 /\ a[3] = 0
  <2>1. 4 + a[4] + 2 * a[5] \in Nat
    BY <1>1
  <2> QED
    BY <1>3, <1>6, <2>1, DecodedIs
<1>7. CASE a[1] = 1 /\ a[2] = 1 /\ a[3] = 1 /\ a[4] = 0
  <2>1. 8 + Number(SubSeq(a, 5, 8)) \in Nat
    BY <1>2
  <2> QED
    BY <1>3, <1>7, <2>1, DecodedIs
<1>8. CASE a[1] = 1 /\ a[2] = 1 /\ a[3] = 1 /\ a[4] = 1
  <2>1. 24 + Number(SubSeq(a, 5, 14)) \in Nat
    BY <1>2
  <2> QED
    BY <1>3, <1>8, <2>1, DecodedIs
<1> QED
  BY <1>1, <1>4, <1>5, <1>6, <1>7, <1>8

\* The first bits of x, and the others as bits of what is left of x.
LEMMA FirstBits ==
  ASSUME NEW x \in Nat
  PROVE  /\ Bit(x, 1) = x % 2 /\ Bit(x, 2) = (x \div 2) % 2
         /\ Bit(x, 3) = ((x \div 2) \div 2) % 2 /\ Bit(x, 4) = (((x \div 2) \div 2) \div 2) % 2
         /\ \A k \in Nat \ {0} : /\ Bit(x, k + 3) = Bit(((x \div 2) \div 2) \div 2, k)
                                 /\ Bit(x, k + 4) = Bit((((x \div 2) \div 2) \div 2) \div 2, k)
<1> DEFINE h1 == x \div 2
           h2 == h1 \div 2
           h3 == h2 \div 2
           h4 == h3 \div 2
<1>1. h1 \in Nat /\ h2 \in Nat /\ h3 \in Nat /\ h4 \in Nat
  OBVIOUS
<1> HIDE DEF h1, h2, h3, h4
<1>2. Bit(x, 1) = x % 2 /\ Bit(h1, 1) = h1 % 2 /\ Bit(h2, 1) = h2 % 2 /\ Bit(h3, 1) = h3 % 2
  BY <1>1, BitSteps
<1>3. ASSUME NEW k \in Nat \ {0}
      PROVE  /\ Bit(x, k + 1) = Bit(h1, k) /\ Bit(h1, k + 1) = Bit(h2, k)
             /\ Bit(h2, k + 1) = Bit(h3, k) /\ Bit(h3, k + 1) = Bit(h4, k)
  BY <1>1, BitSteps DEF h1, h2, h3, h4
<1>4. ASSUME NEW k \in Nat \ {0}
      PROVE  Bit(x, k + 2) = Bit(h2, k) /\ Bit(x, k + 3) = Bit(h3, k) /\ Bit(x, k + 4) = Bit(h4, k)
  <2>1. k + 1 \in Nat \ {0} /\ k + 2 \in Nat \ {0} /\ k + 3 \in Nat \ {0}
        /\ k + 1 + 1 = k + 2 /\ k + 2 + 1 = k + 3 /\ k + 3 + 1 = k + 4
    OBVIOUS
  <2>2. Bit(x, k + 2) = Bit(h1, k + 1) /\ Bit(x, k + 3) = Bit(h1, k + 2) /\ Bit(x, k + 4) = Bit(h1, k + 3)
    BY <1>3, <2>1
  <2>3. Bit(h1, k + 2) = Bit(h2, k + 1) /\ Bit(h1, k + 3) = Bit(h2, k + 2)
    BY <1>3, <2>1
  <2>4. Bit(h2, k + 2) = Bit(h3, k + 1)
    BY <1>3, <2>1
  <2> QED
    BY <1>3, <2>2, <2>3, <2>4
<1>5. Bit(x, 2) = h1 % 2 /\ Bit(x, 3) = h2 % 2 /\ Bit(x, 4) = h3 % 2
  <2>1. 1 \in Nat \ {0} /\ 1 + 1 = 2 /\ 1 + 2 = 3 /\ 1 + 3 = 4
    OBVIOUS
  <2> QED
    BY <1>2, <1>3, <1>4, <2>1
<1> QED
  BY <1>2, <1>4, <1>5 DEF h1, h2, h3, h4

Coded(c, v) ==
  /\ c \in Seq({0, 1}) /\ Len(c) \in 2 .. 14
  /\ \A a \in Window :
       (\A k \in 1 .. Len(c) : a[k] = c[k]) => DecodedFreq(a) = [nbits |-> Len(c), value |-> v]

\* The short codes.
LEMMA CodeOf0 == Coded(Bits(0, 2), 0)
<1> DEFINE c == Bits(0, 2)
<1>1. c \in Seq({0, 1}) /\ Len(c) = 2 /\ \A k \in 1 .. 2 : c[k] = Bit(0, k)
  BY BitsAre
<1>2. Bit(0, 1) = 0 % 2 /\ Bit(0, 2) = 0 % 2 /\ Bit(0, 3) = 0 % 2
  <2>1. 0 = 0 \div 2 /\ 0 = 0 \div 2 /\ 0 = 0 \div 2 /\ 0 = 0 \div 2
    OBVIOUS
  <2> QED
    BY <2>1, FirstBits
<1>3. c[1] = 0 /\ c[2] = 0
  BY <1>1, <1>2
<1> HIDE DEF c
<1>4. ASSUME NEW a \in Window, \A k \in 1 .. 2 : a[k] = c[k]
      PROVE  DecodedFreq(a) = [nbits |-> 2, value |-> 0]
  <2>1. a[1] = 0 /\ a[2] = 0
    BY <1>3, <1>4
  <2>2. DecodedFreq(a) = [nbits |-> 2, value |-> a[2]]
    BY <2>1, DecodedIs
  <2> QED
    BY <2>1, <2>2
<1> QED
  BY <1>1, <1>4 DEF Coded, c

\* The code of 1.
LEMMA CodeOf1 == Coded(Bits(2, 2), 1)
<1> DEFINE c == Bits(2, 2)
<1>1. c \in Seq({0, 1}) /\ Len(c) = 2 /\ \A k \in 1 .. 2 : c[k] = Bit(2, k)
  BY BitsAre
<1>2. Bit(2, 1) = 2 % 2 /\ Bit(2, 2) = 1 % 2 /\ Bit(2, 3) = 0 % 2
  <2>1. 1 = 2 \div 2 /\ 0 = 1 \div 2 /\ 0 = 0 \div 2 /\ 0 = 0 \div 2
    OBVIOUS
  <2> QED
    BY <2>1, FirstBits
<1>3. c[1] = 0 /\ c[2] = 1
  BY <1>1, <1>2
<1> HIDE DEF c
<1>4. ASSUME NEW a \in Window, \A k \in 1 .. 2 : a[k] = c[k]
      PROVE  DecodedFreq(a) = [nbits |-> 2, value |-> 1]
  <2>1. a[1] = 0 /\ a[2] = 1
    BY <1>3, <1>4
  <2>2. DecodedFreq(a) = [nbits |-> 2, value |-> a[2]]
    BY <2>1, DecodedIs
  <2> QED
    BY <2>1, <2>2
<1> QED
  BY <1>1, <1>4 DEF Coded, c

\* The code of 2.
LEMMA CodeOf2 == Coded(Bits(1, 3), 2)
<1> DEFINE c == Bits(1, 3)
<1>1. c \in Seq({0, 1}) /\ Len(c) = 3 /\ \A k \in 1 .. 3 : c[k] = Bit(1, k)
  BY BitsAre
<1>2. Bit(1, 1) = 1 % 2 /\ Bit(1, 2) = 0 % 2 /\ Bit(1, 3) = 0 % 2
  <2>1. 0 = 1 \div 2 /\ 0 = 0 \div 2 /\ 0 = 0 \div 2 /\ 0 = 0 \div 2
    OBVIOUS
  <2> QED
    BY <2>1, FirstBits
<1>3. c[1] = 1 /\ c[2] = 0 /\ c[3] = 0
  BY <1>1, <1>2
<1> HIDE DEF c
<1>4. ASSUME NEW a \in Window, \A k \in 1 .. 3 : a[k] = c[k]
      PROVE  DecodedFreq(a) = [nbits |-> 3, value |-> 2]
  <2>1. a[1] = 1 /\ a[2] = 0 /\ a[3] = 0
    BY <1>3, <1>4
  <2>2. DecodedFreq(a) = [nbits |-> 3, value |-> 2 + a[3]]
    BY <2>1, DecodedIs
  <2> QED
    BY <2>1, <2>2
<1> QED
  BY <1>1, <1>4 DEF Coded, c

\* The code of 3.
LEMMA CodeOf3 == Coded(Bits(5, 3), 3)
<1> DEFINE c == Bits(5, 3)
<1>1. c \in Seq({0, 1}) /\ Len(c) = 3 /\ \A k \in 1 .. 3 : c[k] = Bit(5, k)
  BY BitsAre
<1>2. Bit(5, 1) = 5 % 2 /\ Bit(5, 2) = 2 % 2 /\ Bit(5, 3) = 1 % 2
  <2>1. 2 = 5 \div 2 /\ 1 = 2 \div 2 /\ 0 = 1 \div 2 /\ 0 = 0 \div 2
    OBVIOUS
  <2> QED
    BY <2>1, FirstBits
<1>3. c[1] = 1 /\ c[2] = 0 /\ c[3] = 1
  BY <1>1, <1>2
<1> HIDE DEF c
<1>4. ASSUME NEW a \in Window, \A k \in 1 .. 3 : a[k] = c[k]
      PROVE  DecodedFreq(a) = [nbits |-> 3, value |-> 3]
  <2>1. a[1] = 1 /\ a[2] = 0 /\ a[3] = 1
    BY <1>3, <1>4
  <2>2. DecodedFreq(a) = [nbits |-> 3, value |-> 2 + a[3]]
    BY <2>1, DecodedIs
  <2> QED
    BY <2>1, <2>2
<1> QED
  BY <1>1, <1>4 DEF Coded, c

\* The codes of 4 to 7: three fixed bits and two of the value.
LEMMA CodeOf4 ==
  ASSUME NEW w \in 0 .. 3, NEW x, x = 3 + 8 * w
  PROVE  Coded(Bits(x, 5), 4 + w)
<1> DEFINE c == Bits(x, 5)
<1>1. x \in Nat /\ w \in Nat /\ w <= 3
  OBVIOUS
<1>2. c \in Seq({0, 1}) /\ Len(c) = 5 /\ \A k \in 1 .. 5 : c[k] = Bit(x, k)
  BY <1>1, BitsAre
<1> DEFINE h1 == 1 + 4 * w
           h2 == 2 * w
           h3 == w
           h4 == w \div 2
<1>3. h1 = x \div 2 /\ h2 = h1 \div 2 /\ h3 = h2 \div 2 /\ h4 = h3 \div 2
  OBVIOUS
<1>4. x % 2 = 1 /\ h1 % 2 = 1 /\ h2 % 2 = 0
  BY <1>1
<1>5. /\ Bit(x, 1) = x % 2 /\ Bit(x, 2) = h1 % 2 /\ Bit(x, 3) = h2 % 2 /\ Bit(x, 4) = h3 % 2
      /\ \A k \in Nat \ {0} : Bit(x, k + 3) = Bit(h3, k) /\ Bit(x, k + 4) = Bit(h4, k)
  <2> HIDE DEF h1, h2, h3, h4, c
  <2> QED
    BY <1>1, <1>3, FirstBits, Zenon
<1>6. c[1] = 1 /\ c[2] = 1 /\ c[3] = 0
  BY <1>2, <1>4, <1>5
<1>7. \A k \in 1 .. 2 : c[k + 3] = Bit(w, k)
  <2> SUFFICES ASSUME NEW k \in 1 .. 2 PROVE c[k + 3] = Bit(w, k)
    OBVIOUS
  <2>1. k + 3 \in 1 .. 5 /\ k \in Nat \ {0}
    OBVIOUS
  <2> QED
    BY <1>2, <1>5, <2>1
<1> HIDE DEF c
<1>8. ASSUME NEW a \in Window, \A k \in 1 .. 5 : a[k] = c[k]
      PROVE  DecodedFreq(a) = [nbits |-> 5, value |-> 4 + w]
  <2>1. a[1] = 1 /\ a[2] = 1 /\ a[3] = 0
    BY <1>6, <1>8
  <2>2. a[4] = Bit(w, 1) /\ a[5] = Bit(w, 2)
    <3>1. 1 + 3 = 4 /\ 2 + 3 = 5 /\ 4 \in 1 .. 5 /\ 5 \in 1 .. 5 /\ 1 \in 1 .. 2 /\ 2 \in 1 .. 2
      OBVIOUS
    <3> QED
      BY <1>7, <1>8, <3>1
  <2>3. w = Bit(w, 1) + 2 * Bit(w, 2)
    <3>1. Bit(w, 1) = w % 2
      BY <1>1, BitSteps
    <3>2. Bit(w, 2) = (w \div 2) % 2
      BY <1>1, FirstBits
    <3>3. w = 0 \/ w = 1 \/ w = 2 \/ w = 3
      BY <1>1
    <3>4. \/ w = 0 /\ w % 2 = 0 /\ (w \div 2) % 2 = 0
          \/ w = 1 /\ w % 2 = 1 /\ (w \div 2) % 2 = 0
          \/ w = 2 /\ w % 2 = 0 /\ (w \div 2) % 2 = 1
          \/ w = 3 /\ w % 2 = 1 /\ (w \div 2) % 2 = 1
      BY <3>3
    <3>5. w = (w % 2) + 2 * ((w \div 2) % 2)
      BY <3>4
    <3> QED
      BY <3>1, <3>2, <3>5
  <2>4. DecodedFreq(a) = [nbits |-> 5, value |-> 4 + a[4] + 2 * a[5]]
    BY <2>1, DecodedIs
  <2>5. a[4] \in Nat /\ a[5] \in Nat
    <3>1. a[4] \in {0, 1} /\ a[5] \in {0, 1}
      BY WindowIs
    <3> QED
      BY <3>1
  <2>6. 4 + a[4] + 2 * a[5] = 4 + w
    BY <2>2, <2>3, <2>5
  <2> QED
    BY <2>4, <2>6
<1>9. 5 \in 2 .. 14
  OBVIOUS
<1>10. Coded(c, 4 + w)
  BY <1>2, <1>8, <1>9 DEF Coded
<1> QED
  BY <1>10 DEF c

\* The codes of 8 to 23: four fixed bits and four of the value.
LEMMA CodeOf8 ==
  ASSUME NEW w \in 0 .. 15, NEW x, x = 7 + 16 * w
  PROVE  Coded(Bits(x, 8), 8 + w)
<1> DEFINE c == Bits(x, 8)
<1>1. x \in Nat /\ w \in Nat /\ w <= 15
  OBVIOUS
<1>2. c \in Seq({0, 1}) /\ Len(c) = 8 /\ \A k \in 1 .. 8 : c[k] = Bit(x, k)
  BY <1>1, BitsAre
<1> DEFINE h1 == 3 + 8 * w
           h2 == 1 + 4 * w
           h3 == 2 * w
           h4 == w
<1>3. h1 = x \div 2 /\ h2 = h1 \div 2 /\ h3 = h2 \div 2 /\ h4 = h3 \div 2
  OBVIOUS
<1>4. x % 2 = 1 /\ h1 % 2 = 1 /\ h2 % 2 = 1 /\ h3 % 2 = 0
  BY <1>1
<1>5. /\ Bit(x, 1) = x % 2 /\ Bit(x, 2) = h1 % 2 /\ Bit(x, 3) = h2 % 2 /\ Bit(x, 4) = h3 % 2
      /\ \A k \in Nat \ {0} : Bit(x, k + 3) = Bit(h3, k) /\ Bit(x, k + 4) = Bit(h4, k)
  <2> HIDE DEF h1, h2, h3, h4, c
  <2> QED
    BY <1>1, <1>3, FirstBits, Zenon
<1>6. c[1] = 1 /\ c[2] = 1 /\ c[3] = 1 /\ c[4] = 0
  BY <1>2, <1>4, <1>5
<1>7. \A k \in 1 .. 4 : c[k + 4] = Bit(w, k)
  <2> SUFFICES ASSUME NEW k \in 1 .. 4 PROVE c[k + 4] = Bit(w, k)
    OBVIOUS
  <2>1. k + 4 \in 1 .. 8 /\ k \in Nat \ {0}
    OBVIOUS
  <2> QED
    BY <1>2, <1>5, <2>1
<1> HIDE DEF c
<1>8. ASSUME NEW a \in Window, \A k \in 1 .. 8 : a[k] = c[k]
      PROVE  DecodedFreq(a) = [nbits |-> 8, value |-> 8 + w]
  <2>1. a[1] = 1 /\ a[2] = 1 /\ a[3] = 1 /\ a[4] = 0
    BY <1>6, <1>8
  <2>2. SubSeq(a, 5, 8) = Bits(w, 4)
    <3> DEFINE s == SubSeq(a, 5, 8)
               b == Bits(w, 4)
    <3>1. a \in Seq({0, 1}) /\ 5 \in 1 .. Len(a) /\ 8 \in 5 .. Len(a)
      <4>1. a \in Seq({0, 1}) /\ Len(a) = 14
        BY WindowIs
      <4> QED
        BY <4>1
    <3>2. 8 - 5 + 1 = 4
      OBVIOUS
    <3>3. s \in Seq({0, 1}) /\ Len(s) = 4 /\ \A i \in 1 .. 4 : s[i] = a[5 + i - 1]
      BY <3>1, <3>2, PartIs
    <3>4. b \in Seq({0, 1}) /\ Len(b) = 4 /\ \A i \in 1 .. 4 : b[i] = Bit(w, i)
      BY <1>1, BitsAre
    <3> HIDE DEF s, b
    <3>5. ASSUME NEW i \in 1 .. 4 PROVE s[i] = b[i]
      <4>1. 5 + i - 1 = i + 4 /\ i + 4 \in 1 .. 8
        OBVIOUS
      <4>2. a[i + 4] = Bit(w, i)
        BY <1>7, <1>8, <4>1
      <4> QED
        BY <3>3, <3>4, <4>1, <4>2
    <3>6. s = [i \in 1 .. 4 |-> s[i]] /\ b = [i \in 1 .. 4 |-> b[i]]
      BY <3>3, <3>4
    <3>7. s = b
      BY <3>5, <3>6
    <3> QED
      BY <3>7 DEF s, b
  <2>3. Number(SubSeq(a, 5, 8)) = w
    <3>1. Pow2(4) = 16
      <4>1. Pow2(0) = 1
        BY Pow2Steps
      <4>2. Pow2(1) = 2
        <5>1. 0 \in Nat /\ 0 + 1 = 1
          OBVIOUS
        <5> QED
          BY <4>1, <5>1, Pow2Steps
      <4>3. Pow2(2) = 4
        <5>1. 1 \in Nat /\ 1 + 1 = 2
          OBVIOUS
        <5> QED
          BY <4>2, <5>1, Pow2Steps
      <4>4. Pow2(3) = 8
        <5>1. 2 \in Nat /\ 2 + 1 = 3
          OBVIOUS
        <5> QED
          BY <4>3, <5>1, Pow2Steps
      <4>5. Pow2(4) = 16
        <5>1. 3 \in Nat /\ 3 + 1 = 4
          OBVIOUS
        <5> QED
          BY <4>4, <5>1, Pow2Steps
      <4> QED
        BY <4>5
    <3>2. w < Pow2(4)
      BY <1>1, <3>1
    <3> QED
      BY <1>1, <2>2, <3>2, NumberOfBits
  <2>4. DecodedFreq(a) = [nbits |-> 8, value |-> 8 + Number(SubSeq(a, 5, 8))]
    BY <2>1, DecodedIs
  <2> QED
    BY <2>3, <2>4
<1>9. 8 \in 2 .. 14
  OBVIOUS
<1>10. Coded(c, 8 + w)
  BY <1>2, <1>8, <1>9 DEF Coded
<1> QED
  BY <1>10 DEF c

\* The codes from 24 on: four fixed bits and ten of the value.
LEMMA CodeOf24 ==
  ASSUME NEW w \in 0 .. 1023, NEW x, x = 15 + 16 * w
  PROVE  Coded(Bits(x, 14), 24 + w)
<1> DEFINE c == Bits(x, 14)
<1>1. x \in Nat /\ w \in Nat /\ w <= 1023
  OBVIOUS
<1>2. c \in Seq({0, 1}) /\ Len(c) = 14 /\ \A k \in 1 .. 14 : c[k] = Bit(x, k)
  BY <1>1, BitsAre
<1> DEFINE h1 == 7 + 8 * w
           h2 == 3 + 4 * w
           h3 == 1 + 2 * w
           h4 == w
<1>3. h1 = x \div 2 /\ h2 = h1 \div 2 /\ h3 = h2 \div 2 /\ h4 = h3 \div 2
  OBVIOUS
<1>4. x % 2 = 1 /\ h1 % 2 = 1 /\ h2 % 2 = 1 /\ h3 % 2 = 1
  BY <1>1
<1>5. /\ Bit(x, 1) = x % 2 /\ Bit(x, 2) = h1 % 2 /\ Bit(x, 3) = h2 % 2 /\ Bit(x, 4) = h3 % 2
      /\ \A k \in Nat \ {0} : Bit(x, k + 3) = Bit(h3, k) /\ Bit(x, k + 4) = Bit(h4, k)
  <2> HIDE DEF h1, h2, h3, h4, c
  <2> QED
    BY <1>1, <1>3, FirstBits, Zenon
<1>6. c[1] = 1 /\ c[2] = 1 /\ c[3] = 1 /\ c[4] = 1
  BY <1>2, <1>4, <1>5
<1>7. \A k \in 1 .. 10 : c[k + 4] = Bit(w, k)
  <2> SUFFICES ASSUME NEW k \in 1 .. 10 PROVE c[k + 4] = Bit(w, k)
    OBVIOUS
  <2>1. k + 4 \in 1 .. 14 /\ k \in Nat \ {0}
    OBVIOUS
  <2> QED
    BY <1>2, <1>5, <2>1
<1> HIDE DEF c
<1>8. ASSUME NEW a \in Window, \A k \in 1 .. 14 : a[k] = c[k]
      PROVE  DecodedFreq(a) = [nbits |-> 14, value |-> 24 + w]
  <2>1. a[1] = 1 /\ a[2] = 1 /\ a[3] = 1 /\ a[4] = 1
    BY <1>6, <1>8
  <2>2. SubSeq(a, 5, 14) = Bits(w, 10)
    <3> DEFINE s == SubSeq(a, 5, 14)
               b == Bits(w, 10)
    <3>1. a \in Seq({0, 1}) /\ 5 \in 1 .. Len(a) /\ 14 \in 5 .. Len(a)
      <4>1. a \in Seq({0, 1}) /\ Len(a) = 14
        BY WindowIs
      <4> QED
        BY <4>1
    <3>2. 14 - 5 + 1 = 10
      OBVIOUS
    <3>3. s \in Seq({0, 1}) /\ Len(s) = 10 /\ \A i \in 1 .. 10 : s[i] = a[5 + i - 1]
      BY <3>1, <3>2, PartIs
    <3>4. b \in Seq({0, 1}) /\ Len(b) = 10 /\ \A i \in 1 .. 10 : b[i] = Bit(w, i)
      BY <1>1, BitsAre
    <3> HIDE DEF s, b
    <3>5. ASSUME NEW i \in 1 .. 10 PROVE s[i] = b[i]
      <4>1. 5 + i - 1 = i + 4 /\ i + 4 \in 1 .. 14
        OBVIOUS
      <4>2. a[i + 4] = Bit(w, i)
        BY <1>7, <1>8, <4>1
      <4> QED
        BY <3>3, <3>4, <4>1, <4>2
    <3>6. s = [i \in 1 .. 10 |-> s[i]] /\ b = [i \in 1 .. 10 |-> b[i]]
      BY <3>3, <3>4
    <3>7. s = b
      BY <3>5, <3>6
    <3> QED
      BY <3>7 DEF s, b
  <2>3. Number(SubSeq(a, 5, 14)) = w
    <3>1. Pow2(10) = 1024
      <4>1. Pow2(0) = 1
        BY Pow2Steps
      <4>2. Pow2(1) = 2
        <5>1. 0 \in Nat /\ 0 + 1 = 1
          OBVIOUS
        <5> QED
          BY <4>1, <5>1, Pow2Steps
      <4>3. Pow2(2) = 4
        <5>1. 1 \in Nat /\ 1 + 1 = 2
          OBVIOUS
        <5> QED
          BY <4>2, <5>1, Pow2Steps
      <4>4. Pow2(3) = 8
        <5>1. 2 \in Nat /\ 2 + 1 = 3
          OBVIOUS
        <5> QED
          BY <4>3, <5>1, Pow2Steps
      <4>5. Pow2(4) = 16
        <5>1. 3 \in Nat /\ 3 + 1 = 4
          OBVIOUS
        <5> QED
          BY <4>4, <5>1, Pow2Steps
      <4>6. Pow2(5) = 32
        <5>1. 4 \in Nat /\ 4 + 1 = 5
          OBVIOUS
        <5> QED
          BY <4>5, <5>1, Pow2Steps
      <4>7. Pow2(6) = 64
        <5>1. 5 \in Nat /\ 5 + 1 = 6
          OBVIOUS
        <5> QED
          BY <4>6, <5>1, Pow2Steps
      <4>8. Pow2(7) = 128
        <5>1. 6 \in Nat /\ 6 + 1 = 7
          OBVIOUS
        <5> QED
          BY <4>7, <5>1, Pow2Steps
      <4>9. Pow2(8) = 256
        <5>1. 7 \in Nat /\ 7 + 1 = 8
          OBVIOUS
        <5> QED
          BY <4>8, <5>1, Pow2Steps
      <4>10. Pow2(9) = 512
        <5>1. 8 \in Nat /\ 8 + 1 = 9
          OBVIOUS
        <5> QED
          BY <4>9, <5>1, Pow2Steps
      <4>11. Pow2(10) = 1024
        <5>1. 9 \in Nat /\ 9 + 1 = 10
          OBVIOUS
        <5> QED
          BY <4>10, <5>1, Pow2Steps
      <4> QED
        BY <4>11
    <3>2. w < Pow2(10)
      BY <1>1, <3>1
    <3> QED
      BY <1>1, <2>2, <3>2, NumberOfBits
  <2>4. DecodedFreq(a) = [nbits |-> 14, value |-> 24 + Number(SubSeq(a, 5, 14))]
    BY <2>1, DecodedIs
  <2> QED
    BY <2>3, <2>4
<1>9. 14 \in 2 .. 14
  OBVIOUS
<1>10. Coded(c, 24 + w)
  BY <1>2, <1>8, <1>9 DEF Coded
<1> QED
  BY <1>10 DEF c

Codable == 0 .. 1047

\* Every frequency that a table can have has a code that says it.
LEMMA CodeIs ==
  ASSUME NEW v \in Codable
  PROVE  Coded(FreqCode(v), v)
<1>1. v \in Nat /\ v <= 1047
  BY DEF Codable
<1>2. CASE v = 0
  BY <1>2, CodeOf0 DEF FreqCode
<1>3. CASE v = 1
  BY <1>3, CodeOf1 DEF FreqCode
<1>4. CASE v = 2
  BY <1>4, CodeOf2 DEF FreqCode
<1>5. CASE v = 3
  BY <1>5, CodeOf3 DEF FreqCode
<1>6. CASE v \in 4 .. 7
  <2>1. FreqCode(v) = Bits(3 + 8 * (v - 4), 5)
    BY <1>6 DEF FreqCode
  <2>2. v - 4 \in 0 .. 3 /\ 4 + (v - 4) = v
    BY <1>6
  <2> QED
    BY <2>1, <2>2, CodeOf4
<1>7. CASE v \in 8 .. 23
  <2>1. FreqCode(v) = Bits(7 + (v - 8) * 16, 8)
    BY <1>7 DEF FreqCode
  <2>2. v - 8 \in 0 .. 15 /\ 8 + (v - 8) = v /\ 7 + (v - 8) * 16 = 7 + 16 * (v - 8)
    BY <1>7
  <2> QED
    BY <2>1, <2>2, CodeOf8
<1>8. CASE v >= 24
  <2>1. FreqCode(v) = Bits(15 + (v - 24) * 16, 14)
    BY <1>8 DEF FreqCode
  <2>2. v - 24 \in 0 .. 1023 /\ 24 + (v - 24) = v /\ 15 + (v - 24) * 16 = 15 + 16 * (v - 24)
    BY <1>1, <1>8
  <2> QED
    BY <2>1, <2>2, CodeOf24
<1> QED
  BY <1>1, <1>2, <1>3, <1>4, <1>5, <1>6, <1>7, <1>8

\* The codes from 2 on have a third bit.
LEMMA LongCode ==
  ASSUME NEW v \in Codable, v >= 2
  PROVE  Len(FreqCode(v)) >= 3
<1>0. v \in Nat /\ v <= 1047
  BY DEF Codable
<1>1. \A x, n \in Nat : Len(Bits(x, n)) = n
  BY BitsAre
<1>2. CASE v = 2 \/ v = 3
  <2>1. FreqCode(v) = Bits(1, 3) \/ FreqCode(v) = Bits(5, 3)
    BY <1>2 DEF FreqCode
  <2> QED
    BY <1>1, <2>1
<1>3. CASE v \in 4 .. 7
  <2>1. FreqCode(v) = Bits(3 + 8 * (v - 4), 5) /\ 3 + 8 * (v - 4) \in Nat
    BY <1>3 DEF FreqCode
  <2> QED
    BY <1>1, <2>1
<1>4. CASE v \in 8 .. 23
  <2>1. FreqCode(v) = Bits(7 + (v - 8) * 16, 8) /\ 7 + (v - 8) * 16 \in Nat
    BY <1>4 DEF FreqCode
  <2> QED
    BY <1>1, <2>1
<1>5. CASE v >= 24
  <2>1. FreqCode(v) = Bits(15 + (v - 24) * 16, 14) /\ 15 + (v - 24) * 16 \in Nat
    BY <1>0, <1>5 DEF FreqCode
  <2> QED
    BY <1>1, <2>1
<1> QED
  BY <1>0, <1>2, <1>3, <1>4, <1>5

-----------------------------------------------------------------------------
(* Writing the frequencies and reading them.                                *)

IsCodes(C, t) ==
  /\ C[0] = <<>>
  /\ \A i \in 1 .. Len(t) : C[i] = C[i - 1] \o FreqCode(t[i])
  /\ \A i \in 0 .. Len(t) : C[i] \in Seq({0, 1})

\* FreqTableBits obeys its recursive equation.
LEMMA CodesAre ==
  ASSUME NEW t \in Seq(Codable)
  PROVE  \E P :
           /\ P[0] = <<>>
           /\ \A i \in 1 .. Len(t) : P[i] = P[i - 1] \o FreqCode(t[i])
           /\ \A i \in 0 .. Len(t) : P[i] \in Seq({0, 1})
           /\ FreqTableBits(t) = P[Len(t)] \o [k \in 1 .. 8 * Bytes(P[Len(t)]) - Len(P[Len(t)]) |-> 0]
<1> DEFINE last == Len(t)
           T == Seq({0, 1})
           F == [i \in 1 .. last |-> [x \in T |-> x \o FreqCode(t[i])]]
           Is(p) == p = [i \in 0 .. last |-> IF i = 0 THEN <<>> ELSE p[i - 1] \o FreqCode(t[i])]
           Q == CHOOSE p : Is(p)
<1>1. last \in Nat /\ <<>> \in T
  OBVIOUS
<1>2. ASSUME NEW i \in 1 .. last, NEW x \in T PROVE x \o FreqCode(t[i]) \in T
  <2>1. t[i] \in Codable
    BY ElementIs
  <2>2. FreqCode(t[i]) \in Seq({0, 1})
    BY <2>1, CodeIs DEF Coded
  <2> QED
    BY <2>2
<1>3. \A i \in 1 .. last : \A x \in T : F[i][x] = x \o FreqCode(t[i]) /\ F[i][x] \in T
  BY <1>2
<1>4. \E p : Is(p)
  <2> HIDE DEF F
  <2>1. PICK p \in [0 .. last -> T] : Iterates(p, <<>>, last, F)
    <3> HIDE DEF last, T
    <3> QED
      BY <1>1, <1>3, RecursiveFunction
  <2>2. ASSUME NEW i \in 0 .. last, i # 0 PROVE F[i][p[i - 1]] = p[i - 1] \o FreqCode(t[i])
    <3> HIDE DEF last, T
    <3>1. i \in 1 .. last /\ i - 1 \in 0 .. last
      BY <1>1, <2>2
    <3>2. p[i - 1] \in T
      BY <3>1
    <3> QED
      BY <1>3, <3>1, <3>2
  <2>3. p = [i \in 0 .. last |-> IF i = 0 THEN <<>> ELSE p[i - 1] \o FreqCode(t[i])]
    <3> HIDE DEF last, T
    <3> QED
      BY <2>1, <2>2 DEF Iterates
  <2> QED
    BY <2>3
<1>5. Is(Q)
  BY <1>4
<1>6. FreqTableBits(t) = Q[Len(t)] \o [k \in 1 .. 8 * Bytes(Q[Len(t)]) - Len(Q[Len(t)]) |-> 0]
  BY DEF FreqTableBits
<1>7. Q = [i \in 0 .. last |-> IF i = 0 THEN <<>> ELSE Q[i - 1] \o FreqCode(t[i])]
  BY <1>5
<1> HIDE DEF Q, F
<1>8. Q[0] = <<>> /\ \A i \in 1 .. last : Q[i] = Q[i - 1] \o FreqCode(t[i])
  <2> HIDE DEF last
  <2>1. ASSUME NEW i \in 0 .. last PROVE Q[i] = IF i = 0 THEN <<>> ELSE Q[i - 1] \o FreqCode(t[i])
    BY <1>7
  <2>2. 0 \in 0 .. last
    BY <1>1
  <2>3. Q[0] = <<>>
    BY <2>1, <2>2
  <2>4. ASSUME NEW i \in 1 .. last PROVE Q[i] = Q[i - 1] \o FreqCode(t[i])
    <3>1. i \in 0 .. last /\ i # 0
      BY <1>1
    <3> QED
      BY <2>1, <3>1
  <2> QED
    BY <2>3, <2>4
<1>9. \A i \in 1 .. last : Q[i - 1] \in T => Q[i] \in T
  <2> HIDE DEF last, T
  <2> QED
    BY <1>2, <1>8
<1>10. \A i \in 0 .. last : Q[i] \in T
  <2> HIDE DEF last, T
  <2> QED
    BY <1>1, <1>8, <1>9, HandedOn
<1> QED
  BY <1>6, <1>8, <1>10


\* The codes of the symbols lie one behind the other.
LEMMA CodesGrow ==
  ASSUME NEW t \in Seq(Codable), NEW C, IsCodes(C, t)
  PROVE  /\ \A i \in 0 .. Len(t) : Len(C[i]) \in Nat /\ Len(C[i]) <= Len(C[Len(t)])
         /\ \A i \in 1 .. Len(t) :
              /\ Coded(FreqCode(t[i]), t[i])
              /\ Len(C[i]) = Len(C[i - 1]) + Len(FreqCode(t[i]))
              /\ \A k \in 1 .. Len(FreqCode(t[i])) : C[Len(t)][Len(C[i - 1]) + k] = FreqCode(t[i])[k]
<1> DEFINE n == Len(t)
<1>1. n \in Nat /\ \A i \in 1 .. n : t[i] \in Codable
  <2>1. \A i \in 1 .. Len(t) : t[i] \in Codable
    BY ElementIs
  <2> QED
    BY <2>1
<1>2. \A i \in 1 .. n : Coded(FreqCode(t[i]), t[i])
  BY <1>1, CodeIs
<1>3. \A i \in 1 .. n : C[i] = C[i - 1] \o FreqCode(t[i])
  BY DEF IsCodes
<1>4. \A i \in 0 .. n : C[i] \in Seq({0, 1}) /\ Len(C[i]) \in Nat
  <2>1. \A i \in 0 .. n : C[i] \in Seq({0, 1})
    BY DEF IsCodes
  <2> QED
    BY <2>1
<1> HIDE DEF n
<1>5. ASSUME NEW i \in 1 .. n
      PROVE  /\ Len(C[i]) = Len(C[i - 1]) + Len(FreqCode(t[i]))
             /\ \A p \in 1 .. Len(C[i - 1]) : C[i][p] = C[i - 1][p]
             /\ \A k \in 1 .. Len(FreqCode(t[i])) : C[i][Len(C[i - 1]) + k] = FreqCode(t[i])[k]
  <2> DEFINE a == C[i - 1]
             b == FreqCode(t[i])
  <2>1. a \in Seq({0, 1})
    <3>1. i - 1 \in 0 .. n
      BY <1>1
    <3> QED
      BY <1>4, <3>1
  <2>2. b \in Seq({0, 1})
    BY <1>2 DEF Coded
  <2>3. C[i] = a \o b
    BY <1>3
  <2> HIDE DEF a, b
  <2>4. Len(a \o b) = Len(a) + Len(b)
    BY <2>1, <2>2
  <2>5. \A p \in 1 .. Len(a) : (a \o b)[p] = a[p]
    BY <2>1, <2>2
  <2>6. \A k \in 1 .. Len(b) : (a \o b)[Len(a) + k] = b[k]
    BY <2>1, <2>2
  <2> QED
    BY <2>3, <2>4, <2>5, <2>6 DEF a, b
<1>6. ASSUME NEW i \in 0 .. n
      PROVE  Len(C[i]) <= Len(C[n]) /\ \A p \in 1 .. Len(C[i]) : C[n][p] = C[i][p]
  <2> DEFINE S == {k \in Nat : i + k <= n => /\ Len(C[i]) <= Len(C[i + k])
                                            /\ \A p \in 1 .. Len(C[i]) : C[i + k][p] = C[i][p]}
  <2>0. i \in Nat /\ i <= n
    BY <1>1
  <2>1. 0 \in S
    <3>1. i + 0 = i /\ Len(C[i]) \in Nat
      BY <1>4, <2>0
    <3> QED
      BY <3>1
  <2>2. ASSUME NEW k \in Nat, k \in S PROVE k + 1 \in S
    <3> SUFFICES ASSUME i + (k + 1) <= n
                 PROVE  /\ Len(C[i]) <= Len(C[i + (k + 1)])
                        /\ \A p \in 1 .. Len(C[i]) : C[i + (k + 1)][p] = C[i][p]
      OBVIOUS
    <3> DEFINE j == i + (k + 1)
    <3>1. j \in 1 .. n /\ j - 1 = i + k /\ i + k <= n /\ i + k \in 0 .. n
      BY <1>1, <2>0
    <3>2. Len(C[i]) <= Len(C[j - 1]) /\ \A p \in 1 .. Len(C[i]) : C[j - 1][p] = C[i][p]
      BY <2>2, <3>1
    <3> HIDE DEF j, S
    <3>3. /\ Len(C[j]) = Len(C[j - 1]) + Len(FreqCode(t[j]))
          /\ \A p \in 1 .. Len(C[j - 1]) : C[j][p] = C[j - 1][p]
      BY <1>5, <3>1
    <3>4. Len(FreqCode(t[j])) \in 2 .. 14
      BY <1>2, <3>1 DEF Coded
    <3>5. Len(C[j - 1]) \in Nat /\ Len(C[i]) \in Nat
      BY <1>4, <3>1
    <3>6. Len(C[i]) <= Len(C[j])
      <4> DEFINE x == Len(C[j - 1])
                 y == Len(FreqCode(t[j]))
                 z == Len(C[j])
                 u == Len(C[i])
      <4>1. x \in Nat /\ y \in Nat /\ z = x + y /\ u \in Nat /\ u <= x
        BY <3>2, <3>3, <3>4, <3>5
      <4> HIDE DEF x, y, z, u
      <4>2. u <= z
        BY <4>1
      <4> QED
        BY <4>2 DEF u, z
    <3>7. \A p \in 1 .. Len(C[i]) : C[j][p] = C[i][p]
      BY <3>2, <3>3, <3>5
    <3> QED
      BY <3>6, <3>7 DEF j
  <2>3. n - i \in S /\ n - i \in Nat /\ i + (n - i) = n
    <3>1. n - i \in Nat /\ i + (n - i) = n
      BY <1>1, <2>0
    <3> HIDE DEF S
    <3>2. Nat \subseteq S
      BY <2>1, <2>2, NatInductionSet
    <3> QED
      BY <3>1, <3>2
  <2> QED
    BY <1>1, <2>3
<1>7. ASSUME NEW i \in 1 .. n, NEW k \in 1 .. Len(FreqCode(t[i]))
      PROVE  C[n][Len(C[i - 1]) + k] = FreqCode(t[i])[k]
  <2>1. i \in 0 .. n /\ i - 1 \in 0 .. n
    BY <1>1
  <2>2. Len(C[i - 1]) \in Nat /\ Len(FreqCode(t[i])) \in 2 .. 14
    BY <1>2, <1>4, <2>1 DEF Coded
  <2>3. Len(C[i - 1]) + k \in 1 .. Len(C[i])
    <3> DEFINE x == Len(C[i - 1])
               y == Len(FreqCode(t[i]))
               z == Len(C[i])
    <3>1. x \in Nat /\ y \in Nat /\ z = x + y /\ k \in 1 .. y
      <4>1. z = x + y
        BY <1>5
      <4>2. x \in Nat /\ y \in 2 .. 14
        BY <2>2
      <4>3. k \in 1 .. y
        OBVIOUS
      <4> HIDE DEF x, y, z
      <4> QED
        BY <4>1, <4>2, <4>3
    <3> HIDE DEF x, y, z
    <3>2. x + k \in 1 .. z
      BY <3>1
    <3> QED
      BY <3>2 DEF x, z
  <2> QED
    BY <1>5, <1>6, <2>1, <2>3
<1> QED
  BY <1>2, <1>4, <1>5, <1>6, <1>7 DEF n

\* What the decoder has before it at a position.
ReadAhead(at, m) == IF (at + 32) \div 8 < m THEN (at + 32) \div 8 ELSE m
Accum(s, at) == [k \in 1 .. 14 |-> IF at + k <= 8 * ReadAhead(at, Bytes(s)) THEN s[at + k] ELSE 0]
ReadStep(s, r) ==
  [at |-> r.at + DecodedFreq(Accum(s, r.at)).nbits,
   loaded |-> ReadAhead(r.at, Bytes(s)),
   freqs |-> Append(r.freqs, DecodedFreq(Accum(s, r.at)).value),
   ok |-> r.ok /\ r.at + DecodedFreq(Accum(s, r.at)).nbits <= 8 * ReadAhead(r.at, Bytes(s))]

Reading == [at : Nat, loaded : Nat, freqs : Seq(Nat), ok : BOOLEAN]
Whole == {s \in Seq({0, 1}) : Len(s) = 8 * Bytes(s)}

\* A header's table is made of whole bytes.
LEMMA WholeIs ==
  ASSUME NEW s \in Whole
  PROVE  s \in Seq({0, 1}) /\ Bytes(s) \in Nat /\ Len(s) = 8 * Bytes(s)
<1>1. s \in Seq({0, 1}) /\ Len(s) = 8 * Bytes(s)
  BY DEF Whole
<1>2. Len(s) \in Nat
  BY <1>1
<1>3. (Len(s) + 7) \div 8 \in Nat
  BY <1>2
<1> QED
  BY <1>1, <1>3 DEF Bytes

\* Bytes are loaded as far as a code can reach.
LEMMA ReadAheadIs ==
  ASSUME NEW at \in Nat, NEW m \in Nat
  PROVE  /\ ReadAhead(at, m) \in Nat /\ ReadAhead(at, m) <= m
         /\ ReadAhead(at, m) = m \/ at + 14 <= 8 * ReadAhead(at, m)
         /\ at + 14 > 8 * m - 8 => ReadAhead(at, m) = m
<1> DEFINE q == (at + 32) \div 8
<1>1. q \in Nat /\ at + 32 < 8 * q + 8 /\ 8 * q <= at + 32
  OBVIOUS
<1>2. ReadAhead(at, m) = IF q < m THEN q ELSE m
  BY DEF ReadAhead
<1> HIDE DEF q
<1> QED
  BY <1>1, <1>2

\* The accumulator shows the bits that are loaded, and 0 behind them.
LEMMA AccumIs ==
  ASSUME NEW s \in Whole, NEW at \in Nat
  PROVE  /\ Accum(s, at) \in Window
         /\ \A k \in 1 .. 14 : at + k <= 8 * ReadAhead(at, Bytes(s)) => Accum(s, at)[k] = s[at + k]
<1> DEFINE a == Accum(s, at)
<1>1. a = [k \in 1 .. 14 |-> IF at + k <= 8 * ReadAhead(at, Bytes(s)) THEN s[at + k] ELSE 0]
  BY DEF Accum
<1>2. ReadAhead(at, Bytes(s)) \in Nat /\ ReadAhead(at, Bytes(s)) <= Bytes(s) /\ Bytes(s) \in Nat /\ Len(s) = 8 * Bytes(s)
      /\ s \in Seq({0, 1})
  BY ReadAheadIs, WholeIs
<1> HIDE DEF a
<1>3. ASSUME NEW k \in 1 .. 14 PROVE a[k] \in {0, 1}
  <2>1. CASE at + k <= 8 * ReadAhead(at, Bytes(s))
    <3>1. at + k \in 1 .. Len(s)
      BY <1>2, <2>1
    <3>2. s[at + k] \in {0, 1}
      BY <1>2, <3>1, ElementIs
    <3> QED
      BY <1>1, <2>1, <3>2
  <2>2. CASE ~(at + k <= 8 * ReadAhead(at, Bytes(s)))
    BY <1>1, <2>2
  <2> QED
    BY <2>1, <2>2
<1>4. a \in [1 .. 14 -> {0, 1}]
  BY <1>1, <1>3
<1>5. a \in Seq({0, 1}) /\ Len(a) = 14
  <2>1. 14 \in Nat
    OBVIOUS
  <2> HIDE DEF Accum
  <2> QED
    BY <1>4, <2>1, SeqIs
<1> QED
  BY <1>1, <1>5 DEF Window, a

\* ReadFreqTable obeys its recursive equation.
LEMMA ReadingIs ==
  ASSUME NEW s \in Whole, s # <<>>, NEW n \in Nat
  PROVE  \E P :
           /\ P[0] = [at |-> 0, loaded |-> 0, freqs |-> <<>>, ok |-> TRUE]
           /\ \A i \in 1 .. n : P[i] = ReadStep(s, P[i - 1])
           /\ \A i \in 0 .. n : P[i] \in Reading
           /\ ReadFreqTable(s, n) = [P[n] EXCEPT !.ok = @ /\ (8 * P[n].loaded - P[n].at < 8 /\ P[n].loaded = Bytes(s))]
<1> DEFINE last == n
           T == Reading
           F == [i \in 1 .. last |-> [x \in T |-> ReadStep(s, x)]]
           Is(p) == p = [i \in 0 .. last |-> IF i = 0 THEN [at |-> 0, loaded |-> 0, freqs |-> <<>>, ok |-> TRUE] ELSE ReadStep(s, p[i - 1])]
           Q == CHOOSE p : Is(p)
<1>1. last \in Nat /\ [at |-> 0, loaded |-> 0, freqs |-> <<>>, ok |-> TRUE] \in T
  BY DEF Reading
<1>2. ASSUME NEW i \in 1 .. last, NEW x \in T PROVE ReadStep(s, x) \in T
  <2>1. x.at \in Nat /\ x.loaded \in Nat /\ x.freqs \in Seq(Nat) /\ x.ok \in BOOLEAN
    BY DEF Reading
  <2>2. DecodedFreq(Accum(s, x.at)).nbits \in Nat /\ DecodedFreq(Accum(s, x.at)).value \in Nat
    <3>1. Accum(s, x.at) \in Window
      BY <2>1, AccumIs
    <3>2. 2 .. 14 \subseteq Nat
      OBVIOUS
    <3> QED
      BY <3>1, <3>2, DecodedType
  <2>3. ReadAhead(x.at, Bytes(s)) \in Nat
    BY <2>1, WholeIs, ReadAheadIs
  <2> DEFINE a == x.at + DecodedFreq(Accum(s, x.at)).nbits
             l == ReadAhead(x.at, Bytes(s))
             f == Append(x.freqs, DecodedFreq(Accum(s, x.at)).value)
             o == (x.ok /\ a <= 8 * l)
  <2>4. a \in Nat /\ l \in Nat /\ f \in Seq(Nat)
    BY <2>1, <2>2, <2>3
  <2>5. o \in BOOLEAN
    OBVIOUS
  <2>6. ReadStep(s, x) = [at |-> a, loaded |-> l, freqs |-> f, ok |-> o]
    BY DEF ReadStep
  <2> HIDE DEF a, l, f, o
  <2> QED
    BY <2>4, <2>5, <2>6 DEF Reading
<1>3. \A i \in 1 .. last : \A x \in T : F[i][x] = ReadStep(s, x) /\ F[i][x] \in T
  BY <1>2
<1>4. \E p : Is(p)
  <2> HIDE DEF F
  <2>1. PICK p \in [0 .. last -> T] : Iterates(p, [at |-> 0, loaded |-> 0, freqs |-> <<>>, ok |-> TRUE], last, F)
    <3> HIDE DEF last, T
    <3> QED
      BY <1>1, <1>3, RecursiveFunction
  <2>2. ASSUME NEW i \in 0 .. last, i # 0 PROVE F[i][p[i - 1]] = ReadStep(s, p[i - 1])
    <3> HIDE DEF last, T
    <3>1. i \in 1 .. last /\ i - 1 \in 0 .. last
      BY <1>1, <2>2
    <3>2. p[i - 1] \in T
      BY <3>1
    <3> QED
      BY <1>3, <3>1, <3>2
  <2>3. p = [i \in 0 .. last |-> IF i = 0 THEN [at |-> 0, loaded |-> 0, freqs |-> <<>>, ok |-> TRUE] ELSE ReadStep(s, p[i - 1])]
    <3> HIDE DEF last, T
    <3> QED
      BY <2>1, <2>2 DEF Iterates
  <2> QED
    BY <2>3
<1>5. Is(Q)
  BY <1>4
<1>6. ReadFreqTable(s, n) = [Q[n] EXCEPT !.ok = @ /\ (8 * Q[n].loaded - Q[n].at < 8 /\ Q[n].loaded = Bytes(s))]
  BY DEF ReadFreqTable, ReadStep, Accum, ReadAhead
<1>7. Q = [i \in 0 .. last |-> IF i = 0 THEN [at |-> 0, loaded |-> 0, freqs |-> <<>>, ok |-> TRUE] ELSE ReadStep(s, Q[i - 1])]
  BY <1>5
<1> HIDE DEF Q, F
<1>8. Q[0] = [at |-> 0, loaded |-> 0, freqs |-> <<>>, ok |-> TRUE] /\ \A i \in 1 .. last : Q[i] = ReadStep(s, Q[i - 1])
  <2> HIDE DEF last
  <2>1. ASSUME NEW i \in 0 .. last PROVE Q[i] = IF i = 0 THEN [at |-> 0, loaded |-> 0, freqs |-> <<>>, ok |-> TRUE] ELSE ReadStep(s, Q[i - 1])
    BY <1>7
  <2>2. 0 \in 0 .. last
    BY <1>1
  <2>3. Q[0] = [at |-> 0, loaded |-> 0, freqs |-> <<>>, ok |-> TRUE]
    BY <2>1, <2>2
  <2>4. ASSUME NEW i \in 1 .. last PROVE Q[i] = ReadStep(s, Q[i - 1])
    <3>1. i \in 0 .. last /\ i # 0
      BY <1>1
    <3> QED
      BY <2>1, <3>1
  <2> QED
    BY <2>3, <2>4
<1>9. \A i \in 1 .. last : Q[i - 1] \in T => Q[i] \in T
  <2> HIDE DEF last, T
  <2> QED
    BY <1>2, <1>8
<1>10. \A i \in 0 .. last : Q[i] \in T
  <2> HIDE DEF last, T
  <2> QED
    BY <1>1, <1>8, <1>9, HandedOn
<1> QED
  BY <1>6, <1>8, <1>10

\* Frequencies that have a code are numbers.
LEMMA CodableIs == Codable \subseteq Nat
BY DEF Codable

IsRead(P, s, n) ==
  /\ P[0] = [at |-> 0, loaded |-> 0, freqs |-> <<>>, ok |-> TRUE]
  /\ \A i \in 1 .. n : P[i] = ReadStep(s, P[i - 1])
  /\ \A i \in 0 .. n : P[i] \in Reading

\* The bytes of s hold the codes of t, as far as they go.
Carries(s, C, t) ==
  /\ s \in Whole /\ t \in Seq(Codable) /\ IsCodes(C, t)
  /\ \A p \in 1 .. Len(C[Len(t)]) : p <= 8 * Bytes(s) => s[p] = C[Len(t)][p]

\* The decoder has the first i frequencies and stands behind their codes.
Follows(r, i, C, t) ==
  /\ r.at = Len(C[i]) /\ r.freqs \in Seq(Nat) /\ Len(r.freqs) = i
  /\ \A j \in 1 .. i : r.freqs[j] = t[j]
  /\ r.ok

\* The decoder sees the next code, as far as it is loaded.
LEMMA SeesCode ==
  ASSUME NEW s, NEW C, NEW t, Carries(s, C, t), NEW i \in 1 .. Len(t), NEW k \in 1 .. Len(FreqCode(t[i])),
         Len(C[i - 1]) + k <= 8 * ReadAhead(Len(C[i - 1]), Bytes(s))
  PROVE  Accum(s, Len(C[i - 1]))[k] = FreqCode(t[i])[k]
<1> DEFINE at == Len(C[i - 1])
           m == Bytes(s)
           l == Len(FreqCode(t[i]))
           all == Len(C[Len(t)])
           R == ReadAhead(at, m)
<1>1. s \in Whole /\ t \in Seq(Codable) /\ IsCodes(C, t)
  BY DEF Carries
<1>2. i \in 0 .. Len(t) /\ i - 1 \in 0 .. Len(t)
  OBVIOUS
<1>3. at \in Nat /\ Len(C[i]) \in Nat /\ Len(C[i]) <= all /\ all \in Nat
  <2>1. Len(t) \in 0 .. Len(t)
    BY <1>1
  <2> QED
    BY <1>1, <1>2, <2>1, CodesGrow
<1>4. Len(C[i]) = at + l /\ C[Len(t)][at + k] = FreqCode(t[i])[k]
  BY <1>1, CodesGrow
<1>5. l \in 2 .. 14
  BY <1>1, CodesGrow DEF Coded
<1>6. m \in Nat
  BY <1>1, WholeIs
<1>7. R \in Nat /\ R <= m
  BY <1>3, <1>6, ReadAheadIs
<1>8. at + k <= 8 * R
  OBVIOUS
<1>9. k \in 1 .. l
  OBVIOUS
<1>10. Accum(s, at)[k] = s[at + k]
  <2>1. k \in 1 .. 14
    <3> HIDE DEF l
    <3> QED
      BY <1>5, <1>9
  <2> HIDE DEF at
  <2> QED
    BY <1>1, <1>3, <1>8, <2>1, AccumIs
<1>11. at + k \in 1 .. all /\ at + k <= 8 * m
  <2> HIDE DEF at, l, all, R, m
  <2> QED
    BY <1>3, <1>4, <1>5, <1>6, <1>7, <1>8, <1>9
<1>12. s[at + k] = C[Len(t)][at + k]
  <2> HIDE DEF at
  <2> QED
    BY <1>11 DEF Carries
<1> QED
  BY <1>4, <1>10, <1>12

\* A code that is there as a whole is read.
LEMMA ReadsCode ==
  ASSUME NEW s, NEW C, NEW t, Carries(s, C, t), NEW i \in 1 .. Len(t),
         NEW r \in Reading, Follows(r, i - 1, C, t), Len(C[i]) <= 8 * Bytes(s)
  PROVE  Follows(ReadStep(s, r), i, C, t) /\ ReadStep(s, r).loaded = ReadAhead(Len(C[i - 1]), Bytes(s))
<1> DEFINE at == Len(C[i - 1])
           m == Bytes(s)
           c == FreqCode(t[i])
           l == Len(c)
           a == Accum(s, at)
           R == ReadAhead(at, m)
           d == DecodedFreq(a)
           q == ReadStep(s, r)
<1>1. s \in Whole /\ t \in Seq(Codable) /\ IsCodes(C, t)
  BY DEF Carries
<1>2. at \in Nat /\ m \in Nat
  <2>1. i - 1 \in 0 .. Len(t)
    OBVIOUS
  <2> QED
    BY <1>1, <2>1, CodesGrow, WholeIs
<1>3. Len(C[i]) = at + l /\ Coded(c, t[i])
  BY <1>1, CodesGrow
<1>4. l \in 2 .. 14
  BY <1>3 DEF Coded
<1>5. R \in Nat /\ (R = m \/ at + 14 <= 8 * R)
  BY <1>2, ReadAheadIs
<1>6. at + l <= 8 * R
  <2>1. at + l <= 8 * m
    BY <1>3
  <2> HIDE DEF at, l, R, m
  <2> QED
    BY <1>2, <1>4, <1>5, <2>1
<1>7. a \in Window
  BY <1>1, <1>2, AccumIs
<1>8. ASSUME NEW k \in 1 .. l PROVE a[k] = c[k]
  <2>1. at + k <= 8 * R
    <3> HIDE DEF at, l, R
    <3> QED
      BY <1>2, <1>4, <1>5, <1>6
  <2> QED
    BY <2>1, SeesCode
<1>9. d = [nbits |-> l, value |-> t[i]]
  <2> HIDE DEF a, c
  <2> QED
    BY <1>3, <1>7, <1>8 DEF Coded
<1>10. r.at = at
  BY DEF Follows
<1>11. q = [at |-> at + d.nbits, loaded |-> R, freqs |-> Append(r.freqs, d.value),
            ok |-> r.ok /\ at + d.nbits <= 8 * R]
  BY <1>10 DEF ReadStep
<1> HIDE DEF d, q
<1>12. q.at = at + l /\ q.loaded = R /\ q.freqs = Append(r.freqs, t[i]) /\ q.ok = (r.ok /\ at + l <= 8 * R)
  <2> HIDE DEF at, l, R
  <2> QED
    BY <1>9, <1>11
<1>13. q.ok
  <2>1. r.ok
    BY DEF Follows
  <2> HIDE DEF at, l, R
  <2> QED
    BY <1>6, <1>12, <2>1
<1>14. q.freqs \in Seq(Nat) /\ Len(q.freqs) = i /\ \A j \in 1 .. i : q.freqs[j] = t[j]
  <2> DEFINE f == r.freqs
  <2>1. f \in Seq(Nat) /\ Len(f) = i - 1 /\ \A j \in 1 .. i - 1 : f[j] = t[j]
    BY DEF Follows
  <2>2. t[i] \in Nat
    <3>1. t[i] \in Codable
      BY <1>1, ElementIs
    <3> QED
      BY <3>1, CodableIs
  <2>3. i \in Nat /\ q.freqs = Append(f, t[i])
    BY <1>1, <1>12
  <2> HIDE DEF f
  <2>4. Append(f, t[i]) \in Seq(Nat) /\ Len(Append(f, t[i])) = i
    BY <2>1, <2>2, <2>3
  <2>5. ASSUME NEW j \in 1 .. i PROVE Append(f, t[i])[j] = t[j]
    <3>1. CASE j = i
      BY <2>1, <2>2, <2>3, <3>1
    <3>2. CASE j # i
      <4>1. j \in 1 .. i - 1
        BY <2>3, <3>2
      <4> QED
        BY <2>1, <2>2, <2>3, <3>2, <4>1
    <3> QED
      BY <3>1, <3>2
  <2> QED
    BY <2>3, <2>4, <2>5
<1>15. q.at = Len(C[i])
  BY <1>3, <1>12
<1> QED
  BY <1>12, <1>13, <1>14, <1>15 DEF Follows, q

\* A code whose end is missing is noticed.
LEMMA MissesCode ==
  ASSUME NEW s, NEW C, NEW t, Carries(s, C, t), NEW i \in 1 .. Len(t),
         NEW r \in Reading, Follows(r, i - 1, C, t), Len(C[i]) > 8 * Bytes(s)
  PROVE  ~ReadStep(s, r).ok
<1> DEFINE at == Len(C[i - 1])
           m == Bytes(s)
           c == FreqCode(t[i])
           l == Len(c)
           a == Accum(s, at)
           b == [k \in 1 .. 14 |-> IF k <= l THEN c[k] ELSE 0]
           R == ReadAhead(at, m)
           d == DecodedFreq(a).nbits
<1>1. s \in Whole /\ t \in Seq(Codable) /\ IsCodes(C, t)
  BY DEF Carries
<1>2. at \in Nat /\ m \in Nat
  <2>1. i - 1 \in 0 .. Len(t)
    OBVIOUS
  <2> QED
    BY <1>1, <2>1, CodesGrow, WholeIs
<1>3. Len(C[i]) = at + l /\ Coded(c, t[i])
  BY <1>1, CodesGrow
<1>4. c \in Seq({0, 1}) /\ l \in 2 .. 14
  BY <1>3 DEF Coded
<1>5. R \in Nat /\ R <= m
  BY <1>2, ReadAheadIs
<1>6. a \in Window
  BY <1>1, <1>2, AccumIs
<1>7. b \in Window /\ \A k \in 1 .. l : b[k] = c[k]
  <2> HIDE DEF c
  <2>1. ASSUME NEW k \in 1 .. 14 PROVE (IF k <= l THEN c[k] ELSE 0) \in {0, 1}
    <3>1. CASE k <= l
      <4>1. k \in 1 .. Len(c)
        BY <1>4, <3>1
      <4>2. c[k] \in {0, 1}
        BY <1>4, <4>1, ElementIs
      <4> QED
        BY <3>1, <4>2
    <3>2. CASE ~(k <= l)
      BY <3>2
    <3> QED
      BY <3>1, <3>2
  <2>2. b \in [1 .. 14 -> {0, 1}]
    BY <2>1
  <2>3. ASSUME NEW k \in 1 .. l PROVE b[k] = c[k]
    <3>1. k \in 1 .. 14 /\ k <= l
      <4> HIDE DEF l
      <4> QED
        BY <1>4
    <3> QED
      BY <3>1
  <2>4. b \in Seq({0, 1}) /\ Len(b) = 14
    <3>1. 14 \in Nat
      OBVIOUS
    <3> HIDE DEF b
    <3> QED
      BY <2>2, <3>1, SeqIs
  <2> QED
    BY <2>3, <2>4 DEF Window
<1>8. DecodedFreq(b).nbits = l
  <2> HIDE DEF b, c
  <2> QED
    BY <1>3, <1>7 DEF Coded
<1>9. d \in 2 .. 14
  <2> HIDE DEF a
  <2> QED
    BY <1>6, DecodedType
<1> SUFFICES ASSUME ReadStep(s, r).ok PROVE FALSE
  OBVIOUS
<1>10. at + d <= 8 * R
  <2>1. r.at = at
    BY DEF Follows
  <2> QED
    BY <2>1 DEF ReadStep
<1>11. d < l
  <2>1. at + l > 8 * m
    BY <1>3
  <2> HIDE DEF at, l, m, d, R
  <2> QED
    BY <1>2, <1>4, <1>5, <1>9, <1>10, <2>1
<1>12. ASSUME NEW k \in 1 .. d PROVE b[k] = a[k]
  <2>1. at + k <= 8 * R /\ k \in 1 .. l
    <3> HIDE DEF at, l, m, d, R
    <3> QED
      BY <1>2, <1>4, <1>5, <1>9, <1>10, <1>11
  <2>2. a[k] = c[k]
    BY <2>1, SeesCode
  <2> QED
    BY <1>7, <2>1, <2>2
<1>13. DecodedFreq(b).nbits = d
  <2> HIDE DEF a, b
  <2> QED
    BY <1>6, <1>7, <1>12, PrefixFree
<1> QED
  BY <1>4, <1>8, <1>9, <1>11, <1>13

\* The codes are read one after the other, as far as they are there.
LEMMA ReadsOn ==
  ASSUME NEW s, NEW C, NEW t, Carries(s, C, t), NEW P, IsRead(P, s, Len(t))
  PROVE  \A i \in 0 .. Len(t) : Len(C[i]) <= 8 * Bytes(s) => Follows(P[i], i, C, t)
<1> DEFINE n == Len(t)
           S == {i \in Nat : Len(C[i]) <= 8 * Bytes(s) => Follows(P[i], i, C, t)}
<1>1. t \in Seq(Codable) /\ IsCodes(C, t) /\ s \in Whole
  BY DEF Carries
<1>2. n \in Nat
  BY <1>1
<1>3. 0 \in S
  <2>1. P[0] = [at |-> 0, loaded |-> 0, freqs |-> <<>>, ok |-> TRUE] /\ C[0] = <<>>
    BY <1>1 DEF IsRead, IsCodes
  <2>2. P[0].at = 0 /\ P[0].freqs = <<>> /\ P[0].ok /\ Len(C[0]) = 0
    BY <2>1
  <2>3. P[0].at = Len(C[0]) /\ P[0].freqs \in Seq(Nat) /\ Len(P[0].freqs) = 0
    BY <2>2
  <2>4. \A j \in 1 .. 0 : P[0].freqs[j] = t[j]
    OBVIOUS
  <2>5. Follows(P[0], 0, C, t)
    BY <2>2, <2>3, <2>4 DEF Follows
  <2> QED
    BY <2>5
<1>4. ASSUME NEW k \in 0 .. n - 1, k \in S PROVE k + 1 \in S
  <2> SUFFICES ASSUME Len(C[k + 1]) <= 8 * Bytes(s) PROVE Follows(P[k + 1], k + 1, C, t)
    OBVIOUS
  <2>1. k + 1 \in 1 .. Len(t) /\ k + 1 - 1 = k /\ k \in 0 .. Len(t) /\ k + 1 \in 0 .. Len(t)
    BY <1>2
  <2>2. Len(C[k]) <= Len(C[k + 1]) /\ Len(C[k]) \in Nat /\ Len(C[k + 1]) \in Nat
    <3>1. Len(C[k + 1]) = Len(C[k]) + Len(FreqCode(t[k + 1])) /\ Coded(FreqCode(t[k + 1]), t[k + 1])
      <4>1. \A i \in 1 .. Len(t) : /\ Coded(FreqCode(t[i]), t[i])
                                   /\ Len(C[i]) = Len(C[i - 1]) + Len(FreqCode(t[i]))
        BY <1>1, CodesGrow
      <4> DEFINE i == k + 1
      <4>2. i \in 1 .. Len(t) /\ i - 1 = k
        BY <2>1
      <4> HIDE DEF i
      <4>3. Len(C[i]) = Len(C[k]) + Len(FreqCode(t[i])) /\ Coded(FreqCode(t[i]), t[i])
        BY <4>1, <4>2
      <4> QED
        BY <4>3 DEF i
    <3>2. Len(FreqCode(t[k + 1])) \in 2 .. 14
      BY <3>1 DEF Coded
    <3>3. Len(C[k]) \in Nat
      BY <1>1, <2>1, CodesGrow
    <3> DEFINE x == Len(C[k])
               y == Len(FreqCode(t[k + 1]))
               z == Len(C[k + 1])
    <3>4. x \in Nat /\ y \in 2 .. 14 /\ z = x + y
      BY <3>1, <3>2, <3>3
    <3> HIDE DEF x, y, z
    <3>5. x <= z /\ z \in Nat
      BY <3>4
    <3> QED
      BY <3>4, <3>5 DEF x, z
  <2>3. Len(C[k]) <= 8 * Bytes(s)
    <3>1. Bytes(s) \in Nat
      BY <1>1, WholeIs
    <3> QED
      BY <2>2, <3>1
  <2>4. Follows(P[k], k + 1 - 1, C, t)
    BY <1>4, <2>1, <2>3
  <2>5. P[k] \in Reading /\ P[k + 1] = ReadStep(s, P[k])
    BY <2>1 DEF IsRead
  <2>6. Follows(ReadStep(s, P[k]), k + 1, C, t)
    BY <2>1, <2>4, <2>5, ReadsCode
  <2> QED
    BY <2>5, <2>6
<1>5. 0 .. n \subseteq S
  <2> HIDE DEF S
  <2> QED
    BY <1>2, <1>3, <1>4, BoundedInductionSet
<1> QED
  BY <1>5

\* A refusal is not taken back.
LEMMA StaysRefused ==
  ASSUME NEW s, NEW n \in Nat, NEW P, IsRead(P, s, n), NEW i \in 0 .. n, ~P[i].ok
  PROVE  ~P[n].ok
<1> DEFINE S == {k \in Nat : i + k <= n => ~P[i + k].ok}
<1>1. 0 \in S
  <2>1. i + 0 = i
    OBVIOUS
  <2> QED
    BY <2>1
<1>2. ASSUME NEW k \in Nat, k \in S PROVE k + 1 \in S
  <2> SUFFICES ASSUME i + (k + 1) <= n PROVE ~P[i + (k + 1)].ok
    OBVIOUS
  <2> DEFINE j == i + (k + 1)
  <2>1. j \in 1 .. n /\ j - 1 = i + k /\ i + k <= n
    OBVIOUS
  <2>2. ~P[j - 1].ok
    BY <1>2, <2>1
  <2> HIDE DEF j
  <2>3. P[j] = ReadStep(s, P[j - 1])
    BY <2>1 DEF IsRead
  <2>4. ~P[j].ok
    <3> DEFINE r == P[j - 1]
    <3>1. ~r.ok /\ P[j] = ReadStep(s, r)
      BY <2>2, <2>3
    <3> HIDE DEF r
    <3>2. ~ReadStep(s, r).ok
      BY <3>1 DEF ReadStep
    <3> QED
      BY <3>1, <3>2
  <2> QED
    BY <2>4 DEF j
<1>3. n - i \in S /\ n - i \in Nat /\ i + (n - i) = n
  <2>1. n - i \in Nat /\ i + (n - i) = n
    OBVIOUS
  <2> HIDE DEF S
  <2>2. Nat \subseteq S
    BY <1>1, <1>2, NatInductionSet
  <2> QED
    BY <2>1, <2>2
<1> QED
  BY <1>3

\* What is written are the codes, filled up to a whole number of bytes.
LEMMA StreamIs ==
  ASSUME NEW t \in Seq(Codable)
  PROVE  \E C : /\ IsCodes(C, t)
                /\ FreqTableBits(t) \in Whole
                /\ Len(C[Len(t)]) <= 8 * Bytes(FreqTableBits(t))
                /\ 8 * Bytes(FreqTableBits(t)) < Len(C[Len(t)]) + 8
                /\ \A p \in 1 .. Len(C[Len(t)]) : FreqTableBits(t)[p] = C[Len(t)][p]
<1>1. PICK C : /\ C[0] = <<>>
               /\ \A i \in 1 .. Len(t) : C[i] = C[i - 1] \o FreqCode(t[i])
               /\ \A i \in 0 .. Len(t) : C[i] \in Seq({0, 1})
               /\ FreqTableBits(t) = C[Len(t)] \o [k \in 1 .. 8 * Bytes(C[Len(t)]) - Len(C[Len(t)]) |-> 0]
  BY CodesAre
<1>2. IsCodes(C, t)
  BY <1>1 DEF IsCodes
<1> DEFINE c == C[Len(t)]
           L == Len(c)
           m == Bytes(c)
           f == [k \in 1 .. 8 * m - L |-> 0]
           s == FreqTableBits(t)
<1>3. c \in Seq({0, 1}) /\ s = c \o f
  <2>1. Len(t) \in 0 .. Len(t)
    OBVIOUS
  <2> QED
    BY <1>1, <2>1
<1> HIDE DEF c, s
<1>4. L \in Nat /\ m = (L + 7) \div 8
  BY <1>3 DEF Bytes
<1> HIDE DEF L, m
<1>5. m \in Nat /\ L <= 8 * m /\ 8 * m < L + 8 /\ 8 * m - L \in Nat
  <2>1. (L + 7) \div 8 \in Int /\ 8 * ((L + 7) \div 8) <= L + 7 /\ L + 7 < 8 * ((L + 7) \div 8) + 8
    BY <1>4
  <2> QED
    BY <1>4, <2>1
<1>6. f \in Seq({0, 1}) /\ Len(f) = 8 * m - L
  <2> DEFINE d == 8 * m - L
  <2>1. d \in Nat /\ f = [k \in 1 .. d |-> 0]
    BY <1>5
  <2> HIDE DEF d, f
  <2>2. f \in [1 .. d -> {0, 1}]
    BY <2>1
  <2>3. f \in Seq({0, 1}) /\ Len(f) = d
    BY <2>1, <2>2, SeqIs
  <2> QED
    BY <2>3 DEF d
<1> HIDE DEF f
<1>7. s \in Seq({0, 1}) /\ Len(s) = L + (8 * m - L) /\ \A p \in 1 .. L : s[p] = c[p]
  <2>1. Len(c) = L
    BY DEF L
  <2>2. Len(s) = Len(c) + Len(f) /\ s \in Seq({0, 1}) /\ \A p \in 1 .. Len(c) : s[p] = c[p]
    BY <1>3, <1>6, ConcatIs
  <2> QED
    BY <1>6, <2>1, <2>2
<1>8. Len(s) = 8 * m
  BY <1>4, <1>5, <1>7
<1>9. Bytes(s) = m
  <2>1. (8 * m + 7) \div 8 = m
    BY <1>5
  <2> QED
    BY <1>8, <2>1 DEF Bytes
<1>10. s \in Whole
  BY <1>7, <1>8, <1>9 DEF Whole
<1>11. L <= 8 * Bytes(s) /\ 8 * Bytes(s) < L + 8
  BY <1>5, <1>9
<1> QED
  BY <1>2, <1>7, <1>10, <1>11 DEF L, c, s

\* What the end of a table says.
LEMMA Verdict ==
  ASSUME NEW s \in Whole, s # <<>>, NEW n \in Nat
  PROVE  \E P : /\ IsRead(P, s, n)
                /\ ReadFreqTable(s, n).freqs = P[n].freqs
                /\ ReadFreqTable(s, n).ok = (P[n].ok /\ 8 * P[n].loaded - P[n].at < 8 /\ P[n].loaded = Bytes(s))
<1>1. PICK P :
        /\ P[0] = [at |-> 0, loaded |-> 0, freqs |-> <<>>, ok |-> TRUE]
        /\ \A i \in 1 .. n : P[i] = ReadStep(s, P[i - 1])
        /\ \A i \in 0 .. n : P[i] \in Reading
        /\ ReadFreqTable(s, n) = [P[n] EXCEPT !.ok = @ /\ (8 * P[n].loaded - P[n].at < 8 /\ P[n].loaded = Bytes(s))]
  BY ReadingIs
<1>2. IsRead(P, s, n)
  BY <1>1 DEF IsRead
<1> DEFINE r == P[n]
           e == (8 * r.loaded - r.at < 8 /\ r.loaded = Bytes(s))
<1>3. r \in Reading /\ ReadFreqTable(s, n) = [r EXCEPT !.ok = @ /\ e]
  <2>1. n \in 0 .. n
    OBVIOUS
  <2> QED
    BY <1>1, <2>1
<1> HIDE DEF r, e
<1>4. ReadFreqTable(s, n).freqs = r.freqs /\ ReadFreqTable(s, n).ok = (r.ok /\ e)
  BY <1>3 DEF Reading
<1> QED
  BY <1>2, <1>4 DEF r, e

\* If the last code is there, the end is where it must be exactly when the last byte
\* is one with a bit of it.
LEMMA EndOfTable ==
  ASSUME NEW s, NEW C, NEW t, Carries(s, C, t), Len(t) > 0, Len(C[Len(t)]) <= 8 * Bytes(s)
  PROVE  /\ ReadFreqTable(s, Len(t)).ok <=> 8 * Bytes(s) - Len(C[Len(t)]) < 8
         /\ ReadFreqTable(s, Len(t)).freqs = t
<1> DEFINE n == Len(t)
           L == Len(C[n])
           m == Bytes(s)
           before == Len(C[n - 1])
           l == Len(FreqCode(t[n]))
<1>1. s \in Whole /\ t \in Seq(Codable) /\ IsCodes(C, t) /\ n \in Nat
  BY DEF Carries
<1>2. n \in 1 .. n /\ n \in 0 .. n /\ n - 1 \in 0 .. n
  BY <1>1
<1>3. L = before + l /\ l \in 2 .. 14 /\ before \in Nat
  <2>1. L = before + l /\ Coded(FreqCode(t[n]), t[n]) /\ before \in Nat
    BY <1>1, <1>2, CodesGrow
  <2> QED
    BY <2>1 DEF Coded
<1>4. m \in Nat /\ Len(s) = 8 * m /\ L <= 8 * m
  BY <1>1, WholeIs
<1>5. s # <<>>
  <2> HIDE DEF L, m, before, l
  <2>1. L >= 2
    BY <1>3
  <2>2. Len(s) # 0
    BY <1>3, <1>4, <2>1
  <2> QED
    BY <2>2
<1>6. PICK P : /\ IsRead(P, s, n)
               /\ ReadFreqTable(s, n).freqs = P[n].freqs
               /\ ReadFreqTable(s, n).ok = (P[n].ok /\ 8 * P[n].loaded - P[n].at < 8 /\ P[n].loaded = Bytes(s))
  BY <1>1, <1>5, Verdict
<1>7. before <= 8 * m
  <2> HIDE DEF L, m, before, l
  <2> QED
    BY <1>3, <1>4
<1>8. Follows(P[n - 1], n - 1, C, t)
  BY <1>2, <1>6, <1>7, ReadsOn
<1>9. P[n - 1] \in Reading /\ P[n] = ReadStep(s, P[n - 1])
  BY <1>2, <1>6 DEF IsRead
<1>10. Follows(P[n], n, C, t) /\ P[n].loaded = ReadAhead(before, m)
  BY <1>2, <1>4, <1>8, <1>9, ReadsCode
<1>11. P[n].at = L /\ P[n].ok /\ P[n].freqs \in Seq(Nat) /\ Len(P[n].freqs) = n /\ \A j \in 1 .. n : P[n].freqs[j] = t[j]
  BY <1>10 DEF Follows
<1>12. P[n].freqs = t
  <2> DEFINE f == P[n].freqs
  <2>1. f \in Seq(Nat) /\ Len(f) = n /\ \A j \in 1 .. n : f[j] = t[j]
    BY <1>11
  <2> HIDE DEF f
  <2>2. f = [j \in 1 .. n |-> f[j]] /\ t = [j \in 1 .. n |-> t[j]]
    BY <1>1, <2>1
  <2>3. f = t
    BY <2>1, <2>2
  <2> QED
    BY <2>3 DEF f
<1>13. ReadFreqTable(s, n).ok <=> 8 * P[n].loaded - L < 8 /\ P[n].loaded = m
  BY <1>6, <1>11
<1>14. 8 * m - L < 8 => P[n].loaded = m
  <2> DEFINE R == ReadAhead(before, m)
  <2>1. before + 14 > 8 * m - 8 => R = m
    BY <1>3, <1>4, ReadAheadIs
  <2>2. P[n].loaded = R
    BY <1>10
  <2> HIDE DEF L, m, before, l, R
  <2>3. 8 * m - L < 8 => before + 14 > 8 * m - 8
    BY <1>3, <1>4
  <2> QED
    BY <2>1, <2>2, <2>3
<1>15. ReadFreqTable(s, n).ok <=> 8 * m - L < 8
  <2> HIDE DEF L, m
  <2> QED
    BY <1>13, <1>14
<1> QED
  BY <1>6, <1>12, <1>15

\* The frequencies that were written are read.
LEMMA TableReadBack ==
  ASSUME NEW t \in Seq(Codable), Len(t) > 0
  PROVE  LET read == ReadFreqTable(FreqTableBits(t), Len(t)) IN read.ok /\ read.freqs = t
<1> DEFINE s == FreqTableBits(t)
<1>1. PICK C : /\ IsCodes(C, t) /\ s \in Whole
               /\ Len(C[Len(t)]) <= 8 * Bytes(s) /\ 8 * Bytes(s) < Len(C[Len(t)]) + 8
               /\ \A p \in 1 .. Len(C[Len(t)]) : s[p] = C[Len(t)][p]
  BY StreamIs
<1> HIDE DEF s
<1>2. Carries(s, C, t)
  BY <1>1 DEF Carries
<1>3. 8 * Bytes(s) - Len(C[Len(t)]) < 8
  <2>1. Bytes(s) \in Nat /\ Len(C[Len(t)]) \in Nat
    <3>1. Len(t) \in 0 .. Len(t)
      OBVIOUS
    <3> QED
      BY <1>1, <3>1, WholeIs, CodesGrow
  <2> QED
    BY <1>1, <2>1
<1>4. ReadFreqTable(s, Len(t)).ok /\ ReadFreqTable(s, Len(t)).freqs = t
  BY <1>1, <1>2, <1>3, EndOfTable
<1> QED
  BY <1>4 DEF s

\* A byte too many is noticed.
LEMMA LongerRefused ==
  ASSUME NEW t \in Seq(Codable), Len(t) > 0
  PROVE  ~ReadFreqTable(FreqTableBits(t) \o Bits(255, 8), Len(t)).ok
<1> DEFINE s == FreqTableBits(t)
           b == Bits(255, 8)
           x == s \o b
           L(C) == Len(C[Len(t)])
<1>1. PICK C : /\ IsCodes(C, t) /\ s \in Whole
               /\ L(C) <= 8 * Bytes(s) /\ 8 * Bytes(s) < L(C) + 8
               /\ \A p \in 1 .. L(C) : s[p] = C[Len(t)][p]
  BY StreamIs
<1>2. b \in Seq({0, 1}) /\ Len(b) = 8
  <2>1. \A y, k \in Nat : Bits(y, k) \in Seq({0, 1}) /\ Len(Bits(y, k)) = k
    BY BitsAre
  <2>2. 255 \in Nat /\ 8 \in Nat
    OBVIOUS
  <2> QED
    BY <2>1, <2>2
<1> HIDE DEF s, b
<1>3. s \in Seq({0, 1}) /\ Bytes(s) \in Nat /\ Len(s) = 8 * Bytes(s) /\ L(C) \in Nat
  <2>1. Len(t) \in 0 .. Len(t)
    OBVIOUS
  <2> QED
    BY <1>1, <2>1, WholeIs, CodesGrow
<1>4. x \in Seq({0, 1}) /\ Len(x) = 8 * (Bytes(s) + 1) /\ \A p \in 1 .. Len(s) : x[p] = s[p]
  <2> DEFINE m == Bytes(s)
  <2>1. x \in Seq({0, 1}) /\ Len(x) = Len(s) + Len(b) /\ \A p \in 1 .. Len(s) : x[p] = s[p]
    <3>1. s \in Seq({0, 1}) /\ b \in Seq({0, 1})
      BY <1>2, <1>3
    <3>2. \A S : \A y, z \in Seq(S) :
            /\ y \o z \in Seq(S) /\ Len(y \o z) = Len(y) + Len(z)
            /\ \A i \in 1 .. Len(y) : (y \o z)[i] = y[i]
      BY ConcatIs
    <3>3. s \o b \in Seq({0, 1}) /\ Len(s \o b) = Len(s) + Len(b) /\ \A p \in 1 .. Len(s) : (s \o b)[p] = s[p]
      BY <3>1, <3>2
    <3> QED
      BY <3>3
  <2>2. m \in Nat /\ Len(s) = 8 * m /\ Len(b) = 8
    BY <1>2, <1>3
  <2> HIDE DEF m, x
  <2>3. Len(x) = 8 * (m + 1)
    BY <2>1, <2>2
  <2> QED
    BY <2>1, <2>3 DEF m
<1> HIDE DEF x
<1>5. Bytes(x) = Bytes(s) + 1
  <2> DEFINE m == Bytes(s)
  <2>1. m \in Nat /\ Len(x) = 8 * (m + 1)
    BY <1>3, <1>4
  <2> HIDE DEF m
  <2>2. (8 * (m + 1) + 7) \div 8 = m + 1
    BY <2>1
  <2>3. Bytes(x) = (Len(x) + 7) \div 8
    BY DEF Bytes
  <2> QED
    BY <2>1, <2>2, <2>3 DEF m
<1>6. Carries(x, C, t)
  <2>1. x \in Whole
    BY <1>4, <1>5 DEF Whole
  <2>2. ASSUME NEW p \in 1 .. L(C) PROVE x[p] = C[Len(t)][p]
    <3>1. p \in 1 .. Len(s)
      BY <1>1, <1>3
    <3> QED
      BY <1>1, <1>4, <3>1
  <2> QED
    BY <1>1, <2>1, <2>2 DEF Carries
<1>7. L(C) <= 8 * Bytes(x) /\ ~(8 * Bytes(x) - L(C) < 8)
  <2> DEFINE m == Bytes(s)
             k == L(C)
  <2>1. m \in Nat /\ k \in Nat /\ k <= 8 * m /\ Bytes(x) = m + 1
    BY <1>1, <1>3, <1>5
  <2> HIDE DEF m, k
  <2>2. k <= 8 * (m + 1) /\ ~(8 * (m + 1) - k < 8)
    BY <2>1
  <2> QED
    BY <2>1, <2>2 DEF k
<1>8. ~ReadFreqTable(x, Len(t)).ok
  BY <1>6, <1>7, EndOfTable
<1> QED
  BY <1>8 DEF x, s, b

\* A byte too few is noticed.
LEMMA ShorterRefused ==
  ASSUME NEW t \in Seq(Codable), Len(t) > 0, Len(FreqTableBits(t)) > 8
  PROVE  ~ReadFreqTable(SubSeq(FreqTableBits(t), 1, Len(FreqTableBits(t)) - 8), Len(t)).ok
<1> DEFINE s == FreqTableBits(t)
           n == Len(t)
           x == SubSeq(s, 1, Len(s) - 8)
           L(C) == Len(C[Len(t)])
<1>1. PICK C : /\ IsCodes(C, t) /\ s \in Whole
               /\ L(C) <= 8 * Bytes(s) /\ 8 * Bytes(s) < L(C) + 8
               /\ \A p \in 1 .. L(C) : s[p] = C[Len(t)][p]
  BY StreamIs
<1>2. Len(s) > 8
  OBVIOUS
<1> HIDE DEF s
<1>3. s \in Seq({0, 1}) /\ Bytes(s) \in Nat /\ Len(s) = 8 * Bytes(s) /\ L(C) \in Nat
  <2>1. Len(t) \in 0 .. Len(t)
    OBVIOUS
  <2> QED
    BY <1>1, <2>1, WholeIs, CodesGrow
<1>4. x \in Seq({0, 1}) /\ Len(x) = Len(s) - 8 /\ \A p \in 1 .. Len(s) - 8 : x[p] = s[p]
  <2> DEFINE k == Len(s) - 8
  <2>1. k \in 1 .. Len(s) /\ 1 \in 1 .. Len(s) /\ k - 1 + 1 = k
    BY <1>2, <1>3
  <2>2. SubSeq(s, 1, k) \in Seq({0, 1}) /\ Len(SubSeq(s, 1, k)) = k - 1 + 1
        /\ \A p \in 1 .. k - 1 + 1 : SubSeq(s, 1, k)[p] = s[1 + p - 1]
    <3>1. k \in 1 .. Len(s) /\ 1 \in 1 .. Len(s)
      BY <2>1
    <3> HIDE DEF k
    <3> QED
      BY <1>3, <3>1, PartIs
  <2>3. \A p \in 1 .. k : 1 + p - 1 = p
    OBVIOUS
  <2> QED
    BY <2>1, <2>2, <2>3
<1> HIDE DEF x
<1> DEFINE m == Bytes(s)
<1>5. m \in Nat /\ m >= 2 /\ Len(x) = 8 * (m - 1) /\ L(C) <= 8 * m /\ 8 * m < L(C) + 8
  BY <1>1, <1>2, <1>3, <1>4
<1>6. Bytes(x) = m - 1
  <2> HIDE DEF m
  <2>1. (8 * (m - 1) + 7) \div 8 = m - 1
    BY <1>5
  <2>2. Bytes(x) = (Len(x) + 7) \div 8
    BY DEF Bytes
  <2> QED
    BY <1>5, <2>1, <2>2
<1>7. x \in Whole /\ x # <<>>
  <2> HIDE DEF m
  <2>1. Len(x) # 0
    BY <1>5
  <2> QED
    BY <1>4, <1>5, <1>6, <2>1 DEF Whole
<1>8. Carries(x, C, t)
  <2>1. ASSUME NEW p \in 1 .. L(C), p <= 8 * Bytes(x) PROVE x[p] = C[Len(t)][p]
    <3>1. p \in 1 .. Len(s) - 8
      BY <1>3, <1>4, <1>5, <1>6, <2>1
    <3> QED
      BY <1>1, <1>4, <3>1
  <2> QED
    BY <1>1, <1>7, <2>1 DEF Carries
<1>9. L(C) > 8 * Bytes(x)
  <2> DEFINE k == L(C)
  <2>1. k \in Nat
    BY <1>3
  <2> HIDE DEF m, k
  <2>2. k > 8 * (m - 1)
    BY <1>5, <2>1 DEF k
  <2> QED
    BY <1>6, <2>2 DEF k
<1>10. PICK i \in 1 .. n : Len(C[i]) > 8 * Bytes(x) /\ Len(C[i - 1]) <= 8 * Bytes(x)
  <2> DEFINE G == {j \in Nat : j <= n /\ Len(C[j]) > 8 * Bytes(x)}
  <2>1. n \in G
    BY <1>9
  <2>2. PICK j \in G : \A k \in G : j <= k
    <3>1. G \subseteq Nat /\ G # {}
      BY <2>1
    <3> HIDE DEF G
    <3> QED
      BY <3>1, LeastNumber
  <2>3. j \in Nat /\ j <= n /\ Len(C[j]) > 8 * Bytes(x)
    BY <2>2
  <2>4. j # 0
    <3>1. Len(C[0]) = 0
      BY <1>1 DEF IsCodes
    <3>2. 8 * Bytes(x) \in Nat
      BY <1>5, <1>6
    <3> QED
      BY <2>3, <3>1, <3>2
  <2>5. j \in 1 .. n /\ j - 1 \in Nat /\ j - 1 <= n /\ j - 1 \in 0 .. n
    BY <2>3, <2>4
  <2>6. j - 1 \notin G
    BY <2>2, <2>5
  <2>7. Len(C[j - 1]) <= 8 * Bytes(x)
    <3>1. Len(C[j - 1]) \in Nat
      BY <1>1, <2>5, CodesGrow
    <3>2. 8 * Bytes(x) \in Nat
      BY <1>5, <1>6
    <3> QED
      BY <2>5, <2>6, <3>1, <3>2
  <2> QED
    BY <2>3, <2>5, <2>7
<1>11. PICK P : /\ IsRead(P, x, n)
                /\ ReadFreqTable(x, n).ok = (P[n].ok /\ 8 * P[n].loaded - P[n].at < 8 /\ P[n].loaded = Bytes(x))
  <2>1. n \in Nat
    OBVIOUS
  <2> QED
    BY <1>7, <2>1, Verdict
<1>12. i - 1 \in 0 .. n /\ i \in 0 .. n /\ n \in Nat
  OBVIOUS
<1>13. Follows(P[i - 1], i - 1, C, t)
  BY <1>8, <1>10, <1>11, <1>12, ReadsOn
<1>14. P[i - 1] \in Reading /\ P[i] = ReadStep(x, P[i - 1])
  BY <1>11, <1>12 DEF IsRead
<1>15. ~P[i].ok
  BY <1>8, <1>10, <1>13, <1>14, MissesCode
<1>16. ~P[n].ok
  BY <1>11, <1>12, <1>15, StaysRefused
<1>17. ~ReadFreqTable(x, n).ok
  BY <1>11, <1>16
<1> QED
  BY <1>17 DEF x, s

\* The codes of a table fill more than a byte: five symbols need two bits each, and
\* one of four that share eight states has at least two, for which it needs three.
LEMMA TableLength ==
  ASSUME NEW t \in Seq(Codable), Len(t) >= 4, Total(t) >= 8
  PROVE  Len(FreqTableBits(t)) > 8
<1> DEFINE n == Len(t)
           s == FreqTableBits(t)
<1>1. PICK C : /\ IsCodes(C, t)
               /\ s \in Whole
               /\ Len(C[n]) <= 8 * Bytes(s)
  BY StreamIs
<1>2. /\ \A i \in 0 .. n : Len(C[i]) \in Nat
      /\ \A i \in 1 .. n : Len(C[i]) = Len(C[i - 1]) + Len(FreqCode(t[i])) /\ Coded(FreqCode(t[i]), t[i])
  BY <1>1, CodesGrow
<1>3. Len(C[0]) = 0
  BY <1>1 DEF IsCodes
<1>4. ASSUME NEW i \in 1 .. n PROVE Len(FreqCode(t[i])) \in Nat /\ Len(FreqCode(t[i])) >= 2
  <2>1. Coded(FreqCode(t[i]), t[i])
    BY <1>2
  <2>2. Len(FreqCode(t[i])) \in 2 .. 14
    BY <2>1 DEF Coded
  <2> DEFINE x == Len(FreqCode(t[i]))
  <2>3. x \in 2 .. 14
    BY <2>2
  <2> HIDE DEF x
  <2>4. x \in Nat /\ x >= 2
    BY <2>3
  <2> QED
    BY <2>4 DEF x
<1>5. n \in Nat /\ n >= 4
  OBVIOUS
<1>6. n > 4 \/ \E i \in 1 .. n : t[i] >= 2
  <2> SUFFICES ASSUME n = 4, \A i \in 1 .. n : ~(t[i] >= 2) PROVE FALSE
    <3> HIDE DEF n
    <3> QED
      BY <1>5
  <2>1. t \in Seq(Nat)
    BY CodableIs, WiderSeq
  <2>2. \A i \in 1 .. Len(t) : t[i] <= 1
    <3>1. \A i \in 1 .. n : t[i] \in Nat
      BY <2>1, ElementIs
    <3> QED
      BY <3>1
  <2>3. Total(t) <= 4
    BY <2>1, <2>2, SmallSum
  <2>4. Total(t) \in Nat
    BY <2>1, OffsetSteps
  <2> QED
    BY <2>3, <2>4
<1>7. PICK i \in 1 .. n : n > 4 \/ t[i] >= 2
  BY <1>5, <1>6
<1>8. n > 4 \/ Len(FreqCode(t[i])) >= 3
  <2>1. t[i] \in Codable
    BY ElementIs
  <2> QED
    BY <1>7, <2>1, LongCode
<1> DEFINE l(k) == Len(C[k])
           c(k) == Len(FreqCode(t[k]))
           S == {k \in Nat : l(k) >= 2 * k /\ (n > 4 \/ k < i \/ l(k) >= 2 * k + 1)}
<1>9. 0 \in S
  BY <1>3, <1>7
<1>10. ASSUME NEW k \in 0 .. n - 1, k \in S PROVE k + 1 \in S
  <2>1. k + 1 \in 1 .. n /\ k \in 0 .. n /\ k + 1 - 1 = k /\ k + 1 \in 0 .. n
    BY <1>5
  <2>2. l(k + 1) = l(k) + c(k + 1) /\ l(k) \in Nat /\ c(k + 1) \in Nat /\ c(k + 1) >= 2 /\ l(k + 1) \in Nat
    <3>1. l(k) \in Nat /\ l(k + 1) \in Nat
      BY <1>2, <2>1
    <3>2. l(k + 1) = l(k) + c(k + 1)
      <4>1. PICK m \in 1 .. n : m = k + 1
        BY <2>1
      <4>2. Len(C[m]) = Len(C[m - 1]) + Len(FreqCode(t[m]))
        BY <1>2
      <4>3. m - 1 = k
        BY <4>1
      <4> QED
        BY <4>1, <4>2, <4>3
    <3>3. c(k + 1) \in Nat /\ c(k + 1) >= 2
      BY <1>4, <2>1
    <3> QED
      BY <3>1, <3>2, <3>3
  <2>3. n > 4 \/ k + 1 # i \/ c(k + 1) >= 3
    BY <1>8
  <2>4. l(k) >= 2 * k /\ (n > 4 \/ k < i \/ l(k) >= 2 * k + 1)
    BY <1>10
  <2> HIDE DEF l, c, n
  <2>5. l(k + 1) >= 2 * (k + 1)
    BY <2>2, <2>4
  <2>6. n > 4 \/ k + 1 < i \/ l(k + 1) >= 2 * (k + 1) + 1
    BY <1>7, <2>2, <2>3, <2>4
  <2> QED
    BY <2>5, <2>6
<1>11. n \in S
  <2> HIDE DEF S, n
  <2>1. 0 .. n \subseteq S
    BY <1>5, <1>9, <1>10, BoundedInductionSet
  <2> QED
    BY <1>5, <2>1
<1>12. l(n) > 8
  <2>1. l(n) >= 2 * n /\ (n > 4 \/ n < i \/ l(n) >= 2 * n + 1)
    BY <1>11
  <2>2. l(n) \in Nat
    BY <1>2, <1>5
  <2> HIDE DEF l, n
  <2> QED
    BY <1>5, <1>7, <2>1, <2>2
<1>13. Len(s) = 8 * Bytes(s) /\ Bytes(s) \in Nat
  BY <1>1, WholeIs
<1>14. l(n) \in Nat
  BY <1>2, <1>5
<1> HIDE DEF s
<1>15. Len(s) > 8
  <2> HIDE DEF l
  <2>1. l(n) <= 8 * Bytes(s)
    BY <1>1 DEF l
  <2> QED
    BY <1>12, <1>13, <1>14, <2>1
<1> QED
  BY <1>15 DEF s

-----------------------------------------------------------------------------
(* The tables.                                                              *)

EntrySet(t, N) == {DecoderEntry(N, p[1], t[p[1]], p[2]) : p \in (1 .. Len(t)) \X Nat}

\* The entries of the symbol i.
EntriesOf(t, N, i) == [j \in 1 .. t[i] |-> DecoderEntry(N, i, t[i], j - 1)]

PutTogether(P, t, N) ==
  /\ P[0] = <<>>
  /\ \A i \in 1 .. Len(t) : P[i] = P[i - 1] \o EntriesOf(t, N, i)
  /\ \A i \in 0 .. Len(t) : P[i] \in Seq(EntrySet(t, N))
  /\ DecoderTable(N, t) = [s \in 0 .. N - 1 |-> IF s < Len(P[Len(t)]) THEN P[Len(t)][s + 1] ELSE ZeroEntry]

\* The table of the decoder is put together symbol by symbol.
LEMMA EntriesAre ==
  ASSUME NEW t \in Seq(Nat), NEW N
  PROVE  \E P : PutTogether(P, t, N)
<1> DEFINE last == Len(t)
           T == Seq({DecoderEntry(N, p[1], t[p[1]], p[2]) : p \in (1 .. Len(t)) \X Nat})
           F == [i \in 1 .. last |-> [x \in T |-> x \o [j \in 1 .. t[i] |-> DecoderEntry(N, i, t[i], j - 1)]]]
           Is(p) == p = [i \in 0 .. last |-> IF i = 0 THEN <<>> ELSE p[i - 1] \o [j \in 1 .. t[i] |-> DecoderEntry(N, i, t[i], j - 1)]]
           Q == CHOOSE p : Is(p)
<1>1. last \in Nat /\ <<>> \in T
  OBVIOUS
<1>2. ASSUME NEW i \in 1 .. last, NEW x \in T PROVE x \o [j \in 1 .. t[i] |-> DecoderEntry(N, i, t[i], j - 1)] \in T
  <2> DEFINE E == {DecoderEntry(N, p[1], t[p[1]], p[2]) : p \in (1 .. Len(t)) \X Nat}
             m == t[i]
             f == [j \in 1 .. m |-> DecoderEntry(N, i, m, j - 1)]
  <2>1. m \in Nat
    BY <1>2
  <2>2. ASSUME NEW j \in 1 .. m PROVE DecoderEntry(N, i, m, j - 1) \in E
    <3> DEFINE p == <<i, j - 1>>
    <3>1. p \in (1 .. Len(t)) \X Nat /\ p[1] = i /\ p[2] = j - 1
      BY <2>1
    <3> HIDE DEF p
    <3>2. DecoderEntry(N, p[1], t[p[1]], p[2]) \in E
      BY <3>1
    <3> QED
      BY <3>1, <3>2
  <2> HIDE DEF E, m
  <2>3. f \in [1 .. m -> E]
    BY <2>2
  <2> HIDE DEF f
  <2>4. f \in Seq(E)
    BY <2>1, <2>3, SeqIs
  <2>5. x \in Seq(E)
    BY DEF E
  <2>6. x \o f \in Seq(E)
    BY <2>4, <2>5
  <2> QED
    BY <2>6 DEF f, E, m

<1>3. \A i \in 1 .. last : \A x \in T : F[i][x] = x \o [j \in 1 .. t[i] |-> DecoderEntry(N, i, t[i], j - 1)] /\ F[i][x] \in T
  BY <1>2
<1>4. \E p : Is(p)
  <2> HIDE DEF F
  <2>1. PICK p \in [0 .. last -> T] : Iterates(p, <<>>, last, F)
    <3> HIDE DEF last, T
    <3> QED
      BY <1>1, <1>3, RecursiveFunction
  <2>2. ASSUME NEW i \in 0 .. last, i # 0 PROVE F[i][p[i - 1]] = p[i - 1] \o [j \in 1 .. t[i] |-> DecoderEntry(N, i, t[i], j - 1)]
    <3> HIDE DEF last, T
    <3>1. i \in 1 .. last /\ i - 1 \in 0 .. last
      BY <1>1, <2>2
    <3>2. p[i - 1] \in T
      BY <3>1
    <3> QED
      BY <1>3, <3>1, <3>2
  <2>3. p = [i \in 0 .. last |-> IF i = 0 THEN <<>> ELSE p[i - 1] \o [j \in 1 .. t[i] |-> DecoderEntry(N, i, t[i], j - 1)]]
    <3> HIDE DEF last, T
    <3> QED
      BY <2>1, <2>2 DEF Iterates
  <2> QED
    BY <2>3
<1>5. Is(Q)
  BY <1>4
<1>6. DecoderTable(N, t) = [s \in 0 .. N - 1 |-> IF s < Len(Q[Len(t)]) THEN Q[Len(t)][s + 1] ELSE ZeroEntry]
  BY DEF DecoderTable
<1>7. Q = [i \in 0 .. last |-> IF i = 0 THEN <<>> ELSE Q[i - 1] \o [j \in 1 .. t[i] |-> DecoderEntry(N, i, t[i], j - 1)]]
  BY <1>5
<1> HIDE DEF Q, F
<1>8. Q[0] = <<>> /\ \A i \in 1 .. last : Q[i] = Q[i - 1] \o [j \in 1 .. t[i] |-> DecoderEntry(N, i, t[i], j - 1)]
  <2> HIDE DEF last
  <2>1. ASSUME NEW i \in 0 .. last PROVE Q[i] = IF i = 0 THEN <<>> ELSE Q[i - 1] \o [j \in 1 .. t[i] |-> DecoderEntry(N, i, t[i], j - 1)]
    BY <1>7
  <2>2. 0 \in 0 .. last
    BY <1>1
  <2>3. Q[0] = <<>>
    BY <2>1, <2>2
  <2>4. ASSUME NEW i \in 1 .. last PROVE Q[i] = Q[i - 1] \o [j \in 1 .. t[i] |-> DecoderEntry(N, i, t[i], j - 1)]
    <3>1. i \in 0 .. last /\ i # 0
      BY <1>1
    <3> QED
      BY <2>1, <3>1
  <2> QED
    BY <2>3, <2>4
<1>9. \A i \in 1 .. last : Q[i - 1] \in T => Q[i] \in T
  <2> HIDE DEF last, T
  <2> QED
    BY <1>2, <1>8
<1>10. \A i \in 0 .. last : Q[i] \in T
  <2> HIDE DEF last, T
  <2> QED
    BY <1>1, <1>8, <1>9, HandedOn
<1> QED
  BY <1>6, <1>8, <1>10 DEF PutTogether, EntriesOf, EntrySet

\* The states of a symbol hold its entries.
LEMMA DecoderTableIs ==
  ASSUME NEW t \in Seq(Nat), NEW N \in Nat, Total(t) = N,
         NEW c \in 1 .. Len(t), NEW r \in 0 .. t[c] - 1
  PROVE  /\ Offset(t, c) + r \in 0 .. N - 1
         /\ DecoderTable(N, t)[Offset(t, c) + r] = DecoderEntry(N, c, t[c], r)
<1> DEFINE n == Len(t)
           E == EntrySet(t, N)
           Part(k) == EntriesOf(t, N, k)
           O(k) == Offset(t, k)
           D == DecoderTable(N, t)
           e == DecoderEntry(N, c, t[c], r)
<1>1. PICK P : /\ P[0] = <<>>
               /\ \A k \in 1 .. n : P[k] = P[k - 1] \o Part(k)
               /\ \A k \in 0 .. n : P[k] \in Seq(E)
               /\ D = [s \in 0 .. N - 1 |-> IF s < Len(P[n]) THEN P[n][s + 1] ELSE ZeroEntry]
  <2>1. PICK P : PutTogether(P, t, N)
    BY EntriesAre
  <2> QED
    BY <2>1 DEF PutTogether
<1>2. /\ O(1) = 0 /\ N = O(n + 1) /\ n \in Nat
      /\ \A k \in 1 .. n : O(k) \in Nat /\ O(k + 1) = O(k) + t[k] /\ t[k] \in Nat
  <2>1. \A k \in 1 .. Len(t) : t[k] \in Nat
    BY ElementIs
  <2> QED
    BY <2>1, OffsetSteps
<1>3. \A k \in 1 .. n + 1 : O(k) \in Nat
  BY OffsetsGrow
<1>4. ASSUME NEW k \in 1 .. n
      PROVE  Part(k) \in Seq(E) /\ Len(Part(k)) = t[k]
  <2>1. t[k] \in Nat
    BY <1>2
  <2>2. ASSUME NEW q \in 1 .. t[k] PROVE DecoderEntry(N, k, t[k], q - 1) \in E
    <3> DEFINE p == <<k, q - 1>>
    <3>1. p \in (1 .. Len(t)) \X Nat /\ p[1] = k /\ p[2] = q - 1
      BY <2>1
    <3> HIDE DEF p
    <3>2. DecoderEntry(N, p[1], t[p[1]], p[2]) \in E
      BY <3>1 DEF EntrySet
    <3> QED
      BY <3>1, <3>2
  <2> HIDE DEF E
  <2>3. Part(k) \in [1 .. t[k] -> E]
    BY <2>2 DEF EntriesOf
  <2> HIDE DEF Part
  <2> QED
    BY <2>1, <2>3, SeqIs
<1> HIDE DEF E, O, D
<1>5. ASSUME NEW k \in 1 .. n
      PROVE  /\ P[k] = P[k - 1] \o Part(k) /\ P[k - 1] \in Seq(E) /\ P[k] \in Seq(E)
             /\ Len(P[k]) = Len(P[k - 1]) + t[k]
             /\ \A q \in 1 .. Len(P[k - 1]) : P[k][q] = P[k - 1][q]
             /\ \A q \in 1 .. t[k] : P[k][Len(P[k - 1]) + q] = Part(k)[q]
  <2>1. k - 1 \in 0 .. n /\ k \in 0 .. n
    BY <1>2
  <2> HIDE DEF n, Part
  <2>2. P[k] = P[k - 1] \o Part(k) /\ P[k - 1] \in Seq(E) /\ P[k] \in Seq(E)
    BY <1>1, <2>1
  <2>3. Part(k) \in Seq(E) /\ Len(Part(k)) = t[k]
    BY <1>4
  <2> DEFINE a == P[k - 1]
             b == Part(k)
  <2>4. a \in Seq(E) /\ b \in Seq(E)
    BY <2>2, <2>3
  <2> HIDE DEF a, b
  <2>5. /\ Len(a \o b) = Len(a) + Len(b)
        /\ \A q \in 1 .. Len(a) : (a \o b)[q] = a[q]
        /\ \A q \in 1 .. Len(b) : (a \o b)[Len(a) + q] = b[q]
    BY <2>4, ConcatIs
  <2> QED
    BY <2>2, <2>3, <2>5 DEF a, b
<1>6. \A k \in 0 .. n : Len(P[k]) = O(k + 1)
  <2> DEFINE S == {k \in Nat : Len(P[k]) = O(k + 1)}
  <2>1. 0 \in S
    <3>1. Len(P[0]) = 0
      BY <1>1
    <3>2. O(0 + 1) = 0
      BY <1>2
    <3> QED
      BY <3>1, <3>2
  <2>2. ASSUME NEW k \in 0 .. n - 1, k \in S PROVE k + 1 \in S
    <3>1. PICK m \in 1 .. n : m = k + 1
      BY <1>2
    <3>2. Len(P[m]) = Len(P[m - 1]) + t[m]
      BY <1>5
    <3>3. O(m + 1) = O(m) + t[m]
      BY <1>2
    <3>4. m - 1 = k /\ k + 1 + 1 = m + 1
      BY <3>1
    <3>5. Len(P[k]) = O(k + 1)
      BY <2>2
    <3> QED
      BY <3>1, <3>2, <3>3, <3>4, <3>5
  <2>3. 0 .. n \subseteq S
    <3> HIDE DEF S, n
    <3> QED
      BY <1>2, <2>1, <2>2, BoundedInductionSet
  <2> QED
    BY <2>3
<1> DEFINE x == O(c) + r
<1>7. O(c) \in Nat /\ O(c + 1) = O(c) + t[c] /\ t[c] \in Nat /\ r < t[c] /\ r \in Nat
  BY <1>2
<1>8. x \in Nat /\ x < O(c + 1)
  BY <1>7
<1>9. O(c + 1) <= N
  <2>1. c + 1 \in 1 .. Len(t) + 1 /\ n + 1 \in c + 1 .. Len(t) + 1
    BY <1>2
  <2> QED
    BY <1>2, <2>1, OffsetsGrow DEF O
<1>10. x \in 0 .. N - 1
  <2> HIDE DEF x
  <2>1. O(c + 1) \in Nat
    BY <1>2, <1>3
  <2> QED
    BY <1>8, <1>9, <2>1
<1>11. P[c][x + 1] = e /\ x + 1 <= Len(P[c])
  <2>1. Len(P[c - 1]) = O(c) /\ Len(P[c]) = O(c + 1)
    <3>1. PICK m \in 0 .. n : m = c - 1
      BY <1>2
    <3>2. m + 1 = c /\ c \in 0 .. n
      BY <1>2, <3>1
    <3>3. Len(P[m]) = O(m + 1) /\ Len(P[c]) = O(c + 1)
      BY <1>6, <3>2
    <3> QED
      BY <3>1, <3>2, <3>3
  <2>2. PICK q \in 1 .. t[c] : q = r + 1
    BY <1>7
  <2>3. P[c][Len(P[c - 1]) + q] = Part(c)[q]
    BY <1>5
  <2>4. Part(c)[q] = DecoderEntry(N, c, t[c], q - 1)
    BY DEF EntriesOf
  <2>5. q - 1 = r /\ O(c) + q = x + 1
    BY <1>7, <2>2
  <2>6. Part(c)[q] = e
    BY <2>4, <2>5
  <2> HIDE DEF x, e, Part
  <2>7. P[c][x + 1] = e
    BY <2>1, <2>3, <2>5, <2>6
  <2>8. x + 1 <= Len(P[c])
    BY <1>7, <1>8, <2>1
  <2> QED
    BY <2>7, <2>8
<1> HIDE DEF x, e, Part
<1>12. P[n][x + 1] = e /\ x + 1 <= Len(P[n])
  <2> DEFINE S == {k \in Nat : k < c \/ (P[k][x + 1] = e /\ x + 1 <= Len(P[k]))}
  <2>1. 0 \in S
    OBVIOUS
  <2>2. ASSUME NEW k \in 0 .. n - 1, k \in S PROVE k + 1 \in S
    <3>1. PICK m \in 1 .. n : m = k + 1
      BY <1>2
    <3>2. m - 1 = k /\ m \in Nat /\ k \in Nat
      BY <3>1
    <3>3. CASE m < c
      BY <3>1, <3>2, <3>3
    <3>4. CASE m = c
      BY <1>11, <3>1, <3>2, <3>4
    <3>5. CASE m > c
      <4>1. ~(k < c)
        BY <3>1, <3>5
      <4>2. P[k][x + 1] = e /\ x + 1 <= Len(P[k])
        BY <2>2, <4>1
      <4>3. /\ P[m - 1] \in Seq(E) /\ Len(P[m]) = Len(P[m - 1]) + t[m]
            /\ \A q \in 1 .. Len(P[m - 1]) : P[m][q] = P[m - 1][q]
        BY <1>5
      <4>4. Len(P[k]) \in Nat /\ t[m] \in Nat
        BY <1>2, <3>2, <4>3
      <4>5. x + 1 \in 1 .. Len(P[k])
        BY <1>8, <4>2, <4>4
      <4>6. P[m][x + 1] = e
        BY <3>2, <4>2, <4>3, <4>5
      <4>7. x + 1 <= Len(P[m])
        BY <1>8, <3>2, <4>2, <4>3, <4>4
      <4> QED
        BY <3>1, <3>2, <4>6, <4>7
    <3> QED
      BY <3>2, <3>3, <3>4, <3>5
  <2>3. 0 .. n \subseteq S
    <3> HIDE DEF S, n
    <3> QED
      BY <1>2, <2>1, <2>2, BoundedInductionSet
  <2>4. n \in S /\ ~(n < c)
    <3> HIDE DEF S
    <3>1. n \in 0 .. n /\ ~(n < c)
      BY <1>2
    <3> QED
      BY <2>3, <3>1
  <2> QED
    BY <2>4
<1>13. D[x] = e
  <2>1. Len(P[n]) \in Nat
    <3>1. n \in 0 .. n /\ n + 1 \in 1 .. n + 1
      BY <1>2
    <3> QED
      BY <1>3, <1>6, <3>1
  <2>2. x < Len(P[n])
    BY <1>8, <1>12, <2>1
  <2>3. D[x] = IF x < Len(P[n]) THEN P[n][x + 1] ELSE ZeroEntry
    BY <1>1, <1>10
  <2> QED
    BY <1>12, <2>2, <2>3
<1> QED
  BY <1>10, <1>13 DEF x, e, D, O

\* Every state belongs to a symbol.
LEMMA StateHasSymbol ==
  ASSUME NEW t \in Seq(Nat), NEW s \in 0 .. Total(t) - 1
  PROVE  \E i \in 1 .. Len(t) : \E j \in 0 .. t[i] - 1 : s = Offset(t, i) + j
<1> DEFINE n == Len(t)
           O(k) == Offset(t, k)
           G == {i \in Nat : 1 <= i /\ i <= n /\ s < O(i + 1)}
<1>1. /\ O(1) = 0 /\ Total(t) = O(n + 1) /\ n \in Nat /\ Total(t) \in Nat
      /\ \A k \in 1 .. n : O(k) \in Nat /\ O(k + 1) = O(k) + t[k]
  BY OffsetSteps
<1>2. \A k \in 1 .. n : t[k] \in Nat
  BY ElementIs
<1>3. s \in Nat /\ s < O(n + 1)
  BY <1>1
<1> HIDE DEF O, n
<1>4. n # 0
  BY <1>1, <1>3
<1>5. n \in G
  BY <1>1, <1>3, <1>4
<1>6. PICK i \in G : \A k \in G : i <= k
  <2>1. G \subseteq Nat /\ G # {}
    BY <1>5
  <2> HIDE DEF G
  <2> QED
    BY <2>1, LeastNumber
<1>7. i \in 1 .. n /\ s < O(i + 1)
  BY <1>1, <1>6
<1>8. O(i) \in Nat /\ O(i + 1) = O(i) + t[i] /\ t[i] \in Nat
  BY <1>1, <1>2, <1>7
<1>9. O(i) <= s
  <2>1. CASE i = 1
    BY <1>1, <1>3, <2>1
  <2>2. CASE i > 1
    <3>1. PICK k \in Nat : k = i - 1 /\ k + 1 = i /\ 1 <= k /\ k <= n /\ k < i
      BY <1>1, <1>7, <2>2
    <3>2. k \notin G
      BY <1>6, <3>1
    <3>3. ~(s < O(k + 1))
      BY <3>1, <3>2
    <3> QED
      BY <1>3, <1>8, <3>1, <3>3
  <2> QED
    BY <1>1, <1>7, <2>1, <2>2
<1>10. s - O(i) \in 0 .. t[i] - 1 /\ s = O(i) + (s - O(i))
  BY <1>3, <1>7, <1>8, <1>9
<1> QED
  BY <1>7, <1>10 DEF O, n

\* Multiples are ordered as what they are multiples of.
LEMMA TimesOrder ==
  ASSUME NEW p \in Nat, p > 0
  PROVE  /\ \A x, y \in Int : x < y => x * p + p <= y * p
         /\ \A x, y \in Int : x * p < y * p => x < y
         /\ \A x, y \in Int : x <= y => x * p <= y * p
<1>1. ASSUME NEW x \in Int, NEW y \in Int, x <= y PROVE x * p <= y * p
  <2> DEFINE d == y - x
  <2>1. d \in Nat /\ y = x + d
    BY <1>1
  <2> HIDE DEF d
  <2>2. d * p \in Nat
    BY <2>1
  <2>3. y * p = x * p + d * p
    BY <2>1
  <2>4. x * p \in Int /\ y * p \in Int
    OBVIOUS
  <2> QED
    BY <2>2, <2>3, <2>4
<1>2. ASSUME NEW x \in Int, NEW y \in Int, x < y PROVE x * p + p <= y * p
  <2>1. x + 1 \in Int /\ x + 1 <= y
    BY <1>2
  <2>2. (x + 1) * p <= y * p
    BY <1>1, <2>1
  <2>3. (x + 1) * p = x * p + p
    OBVIOUS
  <2> QED
    BY <2>2, <2>3
<1>3. ASSUME NEW x \in Int, NEW y \in Int, x * p < y * p PROVE x < y
  <2> SUFFICES ASSUME y <= x PROVE FALSE
    OBVIOUS
  <2>1. y * p <= x * p
    BY <1>1
  <2>2. x * p \in Int /\ y * p \in Int
    OBVIOUS
  <2> QED
    BY <1>3, <2>1, <2>2
<1> QED
  BY <1>1, <1>2, <1>3

\* The power of two below a frequency, how many states of N it has for each of its
\* own, and half of that.
Low(f) == Pow2(Log2(f))
Wide(N, f) == Pow2(ShiftOf(N, f))
Narrow(N, f) == Pow2(ShiftOf(N, f) - 1)

\* How they are related.  The shift is 0 only when the symbol has all states.
LEMMA ShiftIs ==
  ASSUME NEW N \in Nat, N = Pow2(Log2(N)), NEW f \in 1 .. N
  PROVE  /\ Low(f) \in Nat /\ Wide(N, f) \in Nat /\ ShiftOf(N, f) \in Nat
         /\ Low(f) > 0 /\ Wide(N, f) > 0 /\ Low(f) <= f /\ f < 2 * Low(f) /\ N = Low(f) * Wide(N, f)
         /\ ShiftOf(N, f) = 0 => Wide(N, f) = 1 /\ f = Low(f) /\ N = Low(f)
         /\ ShiftOf(N, f) > 0 => Narrow(N, f) \in Nat /\ Narrow(N, f) > 0 /\ Wide(N, f) = 2 * Narrow(N, f)
<1> DEFINE n == Log2(N)
           m == Log2(f)
           M == Pow2(m)
           k == n - m
           P == Pow2(k)
<1>1. f \in Nat /\ f > 0 /\ f <= N /\ N > 0
  OBVIOUS
<1>2. n \in Nat /\ \A i \in Nat : Pow2(i) <= N => i <= n
  BY <1>1, Log2Is
<1>3. m \in Nat /\ M <= f /\ f < 2 * M
  BY <1>1, Log2Is
<1>4. M \in Nat /\ M > 0
  BY <1>3, Pow2Steps
<1>5. m <= n
  <2>1. M <= N
    <3> HIDE DEF M
    <3> QED
      BY <1>1, <1>3, <1>4
  <2> QED
    BY <1>2, <1>3, <2>1
<1>6. k \in Nat /\ n = m + k
  <2> HIDE DEF n, m
  <2> QED
    BY <1>2, <1>3, <1>5
<1>7. P \in Nat /\ P > 0
  <2> HIDE DEF k
  <2> QED
    BY <1>6, Pow2Steps
<1>8. N = M * P
  <2>1. Pow2(n) = Pow2(m) * Pow2(k)
    <3> HIDE DEF n, m, k
    <3> QED
      BY <1>3, <1>6, Pow2Sum
  <2> QED
    BY <2>1
<1>9. ShiftOf(N, f) = k
  BY DEF ShiftOf
<1>10. k = 0 => P = 1 /\ f = M /\ N = M
  <2> SUFFICES ASSUME k = 0 PROVE P = 1 /\ f = M /\ N = M
    OBVIOUS
  <2>1. P = 1
    <3> HIDE DEF k
    <3> QED
      BY Pow2Steps
  <2> HIDE DEF P, M, k
  <2>2. N = M
    BY <1>4, <1>8, <2>1
  <2> QED
    BY <1>1, <1>3, <1>4, <2>1, <2>2
<1>11. k > 0 => Pow2(k - 1) \in Nat /\ Pow2(k - 1) > 0 /\ P = 2 * Pow2(k - 1)
  <2> SUFFICES ASSUME k > 0 PROVE Pow2(k - 1) \in Nat /\ Pow2(k - 1) > 0 /\ P = 2 * Pow2(k - 1)
    OBVIOUS
  <2> HIDE DEF k
  <2>1. k - 1 \in Nat /\ k - 1 + 1 = k
    BY <1>6
  <2>2. Pow2(k - 1) \in Nat /\ Pow2(k - 1) > 0 /\ Pow2(k - 1 + 1) = 2 * Pow2(k - 1)
    BY <2>1, Pow2Steps
  <2> QED
    BY <2>1, <2>2
<1>12. Low(f) = M /\ Wide(N, f) = P /\ Narrow(N, f) = Pow2(k - 1)
  BY <1>9 DEF Low, Wide, Narrow
<1> HIDE DEF M, P, k
<1> QED
  BY <1>3, <1>4, <1>6, <1>7, <1>8, <1>9, <1>10, <1>11, <1>12

\* The entry of the encoder.
LEMMA EncoderEntryIs ==
  ASSUME NEW N \in Nat, N = Pow2(Log2(N)), NEW f \in 1 .. N, NEW O \in Int, NEW junk
  PROVE  /\ EncoderEntry(N, O, f, junk).s0 = f * Wide(N, f) - N
         /\ EncoderEntry(N, O, f, junk).k = ShiftOf(N, f)
         /\ EncoderEntry(N, O, f, junk).delta0 = O - f + Low(f)
         /\ ShiftOf(N, f) > 0 => EncoderEntry(N, O, f, junk).delta1 = O - f + 2 * Low(f)
<1> DEFINE k == ShiftOf(N, f)
           M == Low(f)
           P == Wide(N, f)
           Q == Narrow(N, f)
<1>0. /\ M \in Nat /\ P \in Nat /\ k \in Nat
      /\ M > 0 /\ P > 0 /\ M <= f /\ f < 2 * M /\ N = M * P
      /\ k > 0 => Q \in Nat /\ Q > 0 /\ P = 2 * Q
  BY ShiftIs
<1>1. P = Pow2(k) /\ Q = Pow2(k - 1)
  BY DEF Wide, Narrow
<1> HIDE DEF k, M, P, Q
<1>2. N \div P = M
  <2>1. N \in Int /\ 0 \in 0 .. P - 1 /\ N = P * M + 0 /\ M \in Int
    BY <1>0
  <2> QED
    BY <1>0, <2>1, DivModUnique
<1>3. k > 0 => N \div Q = 2 * M
  <2> SUFFICES ASSUME k > 0 PROVE N \div Q = 2 * M
    OBVIOUS
  <2>1. Q \in Nat /\ Q > 0 /\ P = 2 * Q
    BY <1>0
  <2>2. N \in Int /\ 0 \in 0 .. Q - 1 /\ 2 * M \in Int /\ N = Q * (2 * M) + 0
    <3>1. N = M * (2 * Q)
      BY <1>0, <2>1
    <3>2. M * (2 * Q) = Q * (2 * M) + 0
      BY <1>0, <2>1
    <3> QED
      BY <1>0, <2>1, <3>1, <3>2
  <2> QED
    BY <2>1, <2>2, DivModUnique
<1> DEFINE e == EncoderEntry(N, O, f, junk)
<1>4. e = [s0 |-> f * P - N, k |-> k, delta0 |-> O - f + M,
           delta1 |-> IF k = 0 THEN junk ELSE O - f + N \div Q]
  BY <1>1, <1>2 DEF EncoderEntry, k
<1> HIDE DEF e
<1>5. e.s0 = f * P - N /\ e.k = k /\ e.delta0 = O - f + M
  BY <1>4
<1>6. k > 0 => e.delta1 = O - f + 2 * M
  BY <1>0, <1>3, <1>4
<1> QED
  BY <1>5, <1>6 DEF e, k, M, P

\* The entry of the decoder.
LEMMA DecoderEntryIs ==
  ASSUME NEW N \in Nat, N = Pow2(Log2(N)), NEW f \in 1 .. N, NEW i, NEW j \in Int
  PROVE  /\ DecoderEntry(N, i, f, j).symbol = i
         /\ j < 2 * Low(f) - f =>
              /\ DecoderEntry(N, i, f, j).k = ShiftOf(N, f)
              /\ DecoderEntry(N, i, f, j).delta = (f + j) * Wide(N, f) - N
         /\ ~(j < 2 * Low(f) - f) =>
              /\ DecoderEntry(N, i, f, j).k = ShiftOf(N, f) - 1
              /\ DecoderEntry(N, i, f, j).delta = (j - (2 * Low(f) - f)) * Narrow(N, f)
<1> DEFINE k == ShiftOf(N, f)
           M == Low(f)
           P == Wide(N, f)
           Q == Narrow(N, f)
<1>0. M \in Nat /\ P \in Nat /\ P > 0 /\ N = M * P
  BY ShiftIs
<1>1. P = Pow2(k) /\ Q = Pow2(k - 1)
  BY DEF Wide, Narrow
<1> HIDE DEF k, M, P, Q
<1>2. (2 * N) \div P = 2 * M
  <2>1. 2 * N \in Int /\ 0 \in 0 .. P - 1 /\ 2 * M \in Int /\ 2 * N = P * (2 * M) + 0
    <3>1. 2 * N = 2 * (M * P)
      BY <1>0
    <3>2. 2 * (M * P) = P * (2 * M) + 0
      BY <1>0
    <3> QED
      BY <1>0, <3>1, <3>2
  <2> QED
    BY <1>0, <2>1, DivModUnique
<1> DEFINE d == DecoderEntry(N, i, f, j)
<1>3. d = IF j < 2 * M - f
          THEN [symbol |-> i, k |-> k, delta |-> (f + j) * P - N]
          ELSE [symbol |-> i, k |-> k - 1, delta |-> (j - (2 * M - f)) * Q]
  BY <1>1, <1>2 DEF DecoderEntry, k
<1> HIDE DEF d
<1>4. d.symbol = i
  BY <1>3
<1>5. j < 2 * M - f => d.k = k /\ d.delta = (f + j) * P - N
  BY <1>3
<1>6. ~(j < 2 * M - f) => d.k = k - 1 /\ d.delta = (j - (2 * M - f)) * Q
  BY <1>3
<1> QED
  BY <1>4, <1>5, <1>6 DEF d, k, M, P, Q

\* What coding gave leads to a state of the symbol i, which has f of them from O on, and
\* the decoder's entry for it leads back to s.
Undone(c, N, i, f, O, s) ==
  \E j \in 0 .. f - 1 :
    LET d == DecoderEntry(N, i, f, j)
    IN c.state = O + j /\ d.symbol = i /\ d.k = c.nbits /\ d.delta + c.bits = s

\* Coding a symbol in any state is undone.
LEMMA CodedBack ==
  ASSUME NEW N \in Nat, N = Pow2(Log2(N)), NEW f \in 1 .. N, NEW O \in Int, NEW junk,
         NEW T, NEW i, T[i] = EncoderEntry(N, O, f, junk), NEW s \in 0 .. N - 1
  PROVE  Undone(Encoded(T, s, i), N, i, f, O, s)
<1> DEFINE k == ShiftOf(N, f)
           M == Low(f)
           P == Wide(N, f)
           Q == Narrow(N, f)
<1>1. /\ M \in Nat /\ P \in Nat /\ k \in Nat
      /\ M > 0 /\ P > 0 /\ M <= f /\ f < 2 * M /\ N = M * P
      /\ P = Pow2(k)
      /\ k = 0 => P = 1 /\ f = M /\ N = M
      /\ k > 0 => Q \in Nat /\ Q > 0 /\ P = 2 * Q
      /\ Q = Pow2(k - 1)
  BY ShiftIs DEF Wide, Narrow
<1> DEFINE e == EncoderEntry(N, O, f, junk)
           D(j) == DecoderEntry(N, i, f, j)
           c == Encoded(T, s, i)
<1>2. /\ e.s0 = f * P - N /\ e.k = k
      /\ e.delta0 = O - f + M
      /\ k > 0 => e.delta1 = O - f + 2 * M
  BY EncoderEntryIs
<1>3. \A j \in Int :
        /\ D(j).symbol = i
        /\ j < 2 * M - f => D(j).k = k /\ D(j).delta = (f + j) * P - N
        /\ ~(j < 2 * M - f) => D(j).k = k - 1 /\ D(j).delta = (j - (2 * M - f)) * Q
  BY DecoderEntryIs
<1>4. f \in Nat /\ f > 0 /\ s \in Nat /\ s < N /\ s \in Int
  OBVIOUS
<1>5. c = LET hi == s >= e.s0
              nbits == IF hi THEN e.k ELSE e.k - 1
          IN [nbits |-> nbits, bits |-> s % Pow2(nbits),
              state |-> (IF hi THEN e.delta0 ELSE e.delta1) + s \div Pow2(nbits)]
  BY DEF Encoded, LowBits
<1> HIDE DEF k, M, P, Q, e, D, c
<1>6. CASE s >= f * P - N
  <2> DEFINE q == s \div P
             r == s % P
             j == q + M - f
  <2>1. c.nbits = k /\ c.bits = r /\ c.state = O - f + M + q
    BY <1>1, <1>2, <1>5, <1>6
  <2>2. q \in Int /\ P * q <= s /\ s < P * q + P /\ s = P * q + r
    BY <1>1, <1>4, DivBounds, DivMod
  <2>3. r \in 0 .. P - 1
    BY <1>1, <1>4, ModRange
  <2> HIDE DEF q, r
  <2>4. q >= f - M
    <3>1. f * P - N = (f - M) * P
      BY <1>1, <1>4
    <3>2. (q + 1) * P = P * q + P
      BY <1>1, <2>2
    <3>3. (f - M) * P < (q + 1) * P
      <4> DEFINE a == (f - M) * P
                 b == (q + 1) * P
      <4>1. a \in Int /\ b \in Int /\ a <= s /\ s < b
        BY <1>1, <1>4, <1>6, <2>2, <3>1, <3>2
      <4> HIDE DEF a, b
      <4>2. a < b
        BY <1>4, <4>1
      <4> QED
        BY <4>2 DEF a, b
    <3>4. f - M \in Int /\ q + 1 \in Int
      BY <1>1, <1>4, <2>2
    <3>5. f - M < q + 1
      BY <1>1, <3>3, <3>4, TimesOrder
    <3> QED
      BY <1>1, <1>4, <2>2, <3>5
  <2>5. q < M
    <3>1. q * P < M * P
      <4>1. q * P = P * q
        BY <1>1, <2>2
      <4> DEFINE a == P * q
      <4>2. a \in Int /\ a <= s
        BY <1>1, <2>2
      <4> HIDE DEF a
      <4>3. a < N
        BY <1>4, <4>2
      <4> QED
        BY <1>1, <4>1, <4>3 DEF a
    <3> QED
      BY <1>1, <2>2, <3>1, TimesOrder
  <2>6. j \in 0 .. f - 1 /\ j \in Int /\ j < 2 * M - f /\ c.state = O + j
    BY <1>1, <1>4, <2>1, <2>2, <2>4, <2>5
  <2>7. D(j).symbol = i /\ D(j).k = k /\ D(j).delta = (f + j) * P - N
    <3> HIDE DEF j
    <3> QED
      BY <1>3, <2>6
  <2>8. (f + j) * P - N = P * q
    <3>1. f + j = q + M
      BY <1>1, <1>4, <2>2
    <3>2. (q + M) * P = P * q + M * P
      BY <1>1, <2>2
    <3> HIDE DEF j
    <3>3. P * q \in Int /\ M * P \in Int
      BY <1>1, <2>2
    <3> QED
      BY <1>1, <3>1, <3>2, <3>3
  <2>9. D(j).delta + c.bits = s
    <3> HIDE DEF j
    <3> QED
      BY <2>1, <2>2, <2>7, <2>8
  <2> HIDE DEF j
  <2>10. c.state = O + j /\ D(j).symbol = i /\ D(j).k = c.nbits /\ D(j).delta + c.bits = s
    BY <2>1, <2>6, <2>7, <2>9
  <2> QED
    BY <2>6, <2>10 DEF c, D, Undone
<1>7. CASE ~(s >= f * P - N)
  <2>1. f * P - N = (f - M) * P
    BY <1>1, <1>4
  <2>2. k > 0
    <3> SUFFICES ASSUME k = 0 PROVE FALSE
      BY <1>1
    <3>1. f - M = 0 /\ P = 1
      BY <1>1, <1>4
    <3>2. f * P - N = 0
      BY <2>1, <3>1
    <3> QED
      BY <1>4, <1>7, <3>2
  <2>3. Q \in Nat /\ Q > 0 /\ P = 2 * Q /\ Q = Pow2(k - 1)
    BY <1>1, <2>2
  <2> DEFINE q == s \div Q
             r == s % Q
             j0 == 2 * M - f
             j == j0 + q
  <2>4. c.nbits = k - 1 /\ c.bits = r /\ c.state = O - f + 2 * M + q
    <3>1. ~(s >= e.s0)
      BY <1>2, <1>7
    <3>2. e.delta1 = O - f + 2 * M /\ e.k = k
      BY <1>2, <2>2
    <3>3. c = [nbits |-> k - 1, bits |-> s % Q, state |-> e.delta1 + s \div Q]
      BY <1>5, <2>3, <3>1, <3>2
    <3> QED
      BY <3>2, <3>3
  <2>5. q \in Int /\ Q * q <= s /\ s = Q * q + r
    BY <1>4, <2>3, DivBounds, DivMod
  <2>6. q \in Nat
    <3>1. s < Q * q + Q
      BY <1>4, <2>3, DivBounds
    <3> HIDE DEF q, r
    <3>2. (-1) * Q < q * Q
      <4> DEFINE a == Q * q
      <4>1. a \in Int /\ q * Q = a /\ (-1) * Q = -Q
        BY <2>3, <2>5
      <4> HIDE DEF a
      <4>2. s < a + Q
        BY <3>1 DEF a
      <4>3. -Q < a
        BY <1>4, <2>3, <4>1, <4>2
      <4> QED
        BY <4>1, <4>3
    <3>3. -1 \in Int
      OBVIOUS
    <3>4. -1 < q
      BY <2>3, <2>5, <3>2, <3>3, TimesOrder
    <3> QED
      BY <2>5, <3>4
  <2>7. r \in Int
    BY <1>4, <2>3, ModRange
  <2> HIDE DEF q, r
  <2>8. q < 2 * (f - M)
    <3>1. (f - M) * P = (2 * (f - M)) * Q
      BY <1>1, <1>4, <2>3
    <3>2. q * Q < (2 * (f - M)) * Q
      <4> DEFINE a == Q * q
                 b == (2 * (f - M)) * Q
      <4>1. a \in Int /\ b \in Int /\ q * Q = a
        BY <1>1, <1>4, <2>3, <2>5
      <4>2. a <= s /\ s < b
        <5>1. (f - M) * P \in Int
          BY <1>1, <1>4
        <5>2. f * P - N = b
          BY <2>1, <3>1
        <5> HIDE DEF b
        <5> QED
          BY <1>4, <1>7, <2>5, <4>1, <5>2
      <4> HIDE DEF a, b
      <4>3. a < b
        BY <1>4, <4>1, <4>2
      <4> QED
        BY <4>1, <4>3 DEF b
    <3>3. 2 * (f - M) \in Int
      BY <1>1, <1>4
    <3> QED
      BY <2>3, <2>5, <3>2, <3>3, TimesOrder
  <2>9. j \in 0 .. f - 1 /\ j \in Int /\ ~(j < j0) /\ j - j0 = q /\ c.state = O + j
    <3>1. j0 \in Int /\ j0 > 0
      BY <1>1, <1>4
    <3>2. j \in Int /\ j >= j0 /\ j - j0 = q
      BY <2>6, <3>1
    <3>3. j < f
      BY <1>1, <1>4, <2>6, <2>8
    <3>4. c.state = O + j
      BY <1>1, <1>4, <2>4, <2>6
    <3> HIDE DEF j, j0
    <3> QED
      BY <1>4, <3>1, <3>2, <3>3, <3>4
  <2>10. D(j).symbol = i /\ D(j).k = k - 1 /\ D(j).delta = (j - j0) * Q
    <3>1. j \in Int /\ ~(j < 2 * M - f)
      BY <2>9
    <3> HIDE DEF j
    <3> QED
      BY <1>3, <3>1
  <2>11. D(j).delta = Q * q
    <3>1. D(j).delta = q * Q
      BY <2>3, <2>9, <2>10
    <3>2. q * Q = Q * q
      BY <2>3, <2>5
    <3> HIDE DEF j
    <3> QED
      BY <3>1, <3>2
  <2> HIDE DEF j
  <2>12. c.state = O + j /\ D(j).symbol = i /\ D(j).k = c.nbits /\ D(j).delta + c.bits = s
    BY <2>4, <2>5, <2>9, <2>10, <2>11
  <2> QED
    BY <2>9, <2>12 DEF c, D, Undone
<1> QED
  BY <1>6, <1>7

\* No bits lead out of the table.
LEMMA EntryWithin ==
  ASSUME NEW N \in Nat, N = Pow2(Log2(N)), NEW f \in 1 .. N, NEW i, NEW j \in 0 .. f - 1
  PROVE  LET d == DecoderEntry(N, i, f, j)
         IN d.delta >= 0 /\ d.delta + Pow2(d.k) - 1 \in 0 .. N - 1
<1> DEFINE k == ShiftOf(N, f)
           M == Low(f)
           P == Wide(N, f)
           Q == Narrow(N, f)
           d == DecoderEntry(N, i, f, j)
<1>1. /\ M \in Nat /\ P \in Nat /\ k \in Nat
      /\ M > 0 /\ P > 0 /\ M <= f /\ f < 2 * M /\ N = M * P
      /\ P = Pow2(k)
      /\ k = 0 => P = 1 /\ f = M /\ N = M
      /\ k > 0 => Q \in Nat /\ Q > 0 /\ P = 2 * Q
      /\ Q = Pow2(k - 1)
  BY ShiftIs DEF Wide, Narrow
<1>2. f \in Nat /\ f > 0 /\ j \in Nat /\ j < f /\ j \in Int
  OBVIOUS
<1>3. /\ j < 2 * M - f => d.k = k /\ d.delta = (f + j) * P - N
      /\ ~(j < 2 * M - f) => d.k = k - 1 /\ d.delta = (j - (2 * M - f)) * Q
  BY <1>2, DecoderEntryIs
<1> HIDE DEF k, M, P, Q, d
<1>4. CASE j < 2 * M - f
  <2> DEFINE a == f + j - M
             b == a * P
  <2>1. a \in Nat /\ a + 1 <= M
    BY <1>1, <1>2, <1>4
  <2>2. (f + j) * P - N = b
    <3>1. (f + j) * P - M * P = (f + j - M) * P
      BY <1>1, <1>2
    <3> QED
      BY <1>1, <3>1
  <2> HIDE DEF a
  <2>3. b \in Nat
    BY <1>1, <2>1
  <2>4. b + P <= N
    <3>1. a < M /\ a \in Int /\ M \in Int
      BY <1>1, <2>1
    <3> QED
      BY <1>1, <3>1, TimesOrder
  <2>5. d.delta = b /\ Pow2(d.k) = P
    BY <1>1, <1>3, <1>4, <2>2
  <2> HIDE DEF b
  <2>6. b >= 0 /\ b + P - 1 \in 0 .. N - 1
    BY <1>1, <2>3, <2>4
  <2> QED
    BY <2>5, <2>6 DEF d
<1>5. CASE ~(j < 2 * M - f)
  <2>1. k > 0
    <3> SUFFICES ASSUME k = 0 PROVE FALSE
      BY <1>1
    <3> QED
      BY <1>1, <1>2, <1>5
  <2>2. Q \in Nat /\ Q > 0 /\ P = 2 * Q /\ Q = Pow2(k - 1)
    BY <1>1, <2>1
  <2> DEFINE a == j - (2 * M - f)
             b == a * Q
  <2>3. a \in Nat /\ a + 1 <= 2 * M
    BY <1>1, <1>2, <1>5
  <2> HIDE DEF a
  <2>4. b \in Nat
    BY <2>2, <2>3
  <2>5. b + Q <= N
    <3>1. a < 2 * M /\ a \in Int /\ 2 * M \in Int
      BY <1>1, <2>3
    <3>2. b + Q <= (2 * M) * Q
      BY <2>2, <3>1, TimesOrder
    <3>3. (2 * M) * Q = M * (2 * Q)
      BY <1>1, <2>2
    <3> HIDE DEF b
    <3> QED
      BY <1>1, <2>2, <3>2, <3>3
  <2>6. d.delta = b /\ Pow2(d.k) = Q
    BY <1>3, <1>5, <2>2 DEF a
  <2> HIDE DEF b
  <2>7. b >= 0 /\ b + Q - 1 \in 0 .. N - 1
    <3>1. N \in Nat
      OBVIOUS
    <3> QED
      BY <2>2, <2>4, <2>5, <3>1
  <2> QED
    BY <2>6, <2>7 DEF d
<1> QED
  BY <1>4, <1>5

\* What the table of the encoder does to a state that of the decoder undoes.
LEMMA TablesInverse ==
  ASSUME NEW N \in Nat, N = Pow2(Log2(N)), NEW t \in Seq(Nat), Total(t) = N, NEW junk,
         NEW i \in 1 .. Len(t), t[i] > 0, NEW s \in 0 .. N - 1
  PROVE  LET e == Encoded(EncoderTable(N, t, junk), s, i)
             d == DecoderTable(N, t)[e.state]
         IN e.state \in 0 .. N - 1 /\ d.symbol = i /\ d.k = e.nbits /\ d.delta + e.bits = s
<1> DEFINE T == EncoderTable(N, t, junk)
           O == Offset(t, i)
           f == t[i]
           e == Encoded(T, s, i)
<1>1. f \in Nat
  BY ElementIs
<1>2. O \in Nat /\ O + f <= N
  BY OffsetSteps, SummandBound
<1>3. f \in 1 .. N
  <2> HIDE DEF O, f
  <2> QED
    BY <1>1, <1>2 DEF f
<1>4. T[i] = EncoderEntry(N, O, f, junk)
  BY <1>1 DEF EncoderTable
<1> HIDE DEF T, O, f
<1>5. PICK j \in 0 .. f - 1 :
        /\ e.state = O + j /\ DecoderEntry(N, i, f, j).symbol = i
        /\ DecoderEntry(N, i, f, j).k = e.nbits /\ DecoderEntry(N, i, f, j).delta + e.bits = s
  <2>1. O \in Int
    BY <1>2
  <2> HIDE DEF e
  <2>2. Undone(e, N, i, f, O, s)
    BY <1>3, <1>4, <2>1, CodedBack DEF e
  <2> QED
    BY <2>2 DEF Undone
<1>6. O + j \in 0 .. N - 1 /\ DecoderTable(N, t)[O + j] = DecoderEntry(N, i, f, j)
  BY DecoderTableIs DEF O, f
<1> HIDE DEF e
<1>7. /\ e.state \in 0 .. N - 1
      /\ DecoderTable(N, t)[e.state].symbol = i /\ DecoderTable(N, t)[e.state].k = e.nbits
      /\ DecoderTable(N, t)[e.state].delta + e.bits = s
  BY <1>5, <1>6
<1> QED
  BY <1>7 DEF e, T

\* No entry of the decoder's table leads out of it.
LEMMA TableWithin ==
  ASSUME NEW N \in Nat, N = Pow2(Log2(N)), NEW t \in Seq(Nat), Total(t) = N, NEW s \in 0 .. N - 1
  PROVE  LET d == DecoderTable(N, t)[s]
         IN d.delta >= 0 /\ d.delta + Pow2(d.k) - 1 \in 0 .. N - 1
<1>1. PICK i \in 1 .. Len(t) : \E j \in 0 .. t[i] - 1 : s = Offset(t, i) + j
  BY StateHasSymbol
<1>2. PICK j \in 0 .. t[i] - 1 : s = Offset(t, i) + j
  BY <1>1
<1>3. DecoderTable(N, t)[s] = DecoderEntry(N, i, t[i], j)
  BY <1>2, DecoderTableIs
<1>4. t[i] \in 1 .. N
  <2>1. t[i] \in Nat /\ t[i] <= N
    BY ElementIs, SummandBound
  <2> DEFINE f == t[i]
  <2>2. j \in 0 .. f - 1 /\ f \in Nat /\ f <= N
    BY <2>1
  <2> HIDE DEF f
  <2>3. f \in 1 .. N
    BY <2>2
  <2> QED
    BY <2>3 DEF f
<1> DEFINE d == DecoderEntry(N, i, t[i], j)
<1>5. d.delta >= 0 /\ d.delta + Pow2(d.k) - 1 \in 0 .. N - 1
  BY <1>4, EntryWithin
<1> QED
  BY <1>3, <1>5

-----------------------------------------------------------------------------
(* Values.                                                                  *)

\* The powers of two that bits of values are counted with.
LEMMA Powers ==
  /\ Pow2(0) = 1 /\ Pow2(1) = 2 /\ Pow2(2) = 4 /\ Pow2(3) = 8
  /\ Pow2(4) = 16 /\ Pow2(5) = 32 /\ Pow2(6) = 64 /\ Pow2(7) = 128
  /\ Pow2(8) = 256 /\ Pow2(9) = 512 /\ Pow2(10) = 1024 /\ Pow2(11) = 2048
  /\ Pow2(12) = 4096 /\ Pow2(13) = 8192 /\ Pow2(14) = 16384 /\ Pow2(15) = 32768
<1>1. \A n \in Nat : Pow2(n + 1) = 2 * Pow2(n)
  BY Pow2Steps
<1>2. Pow2(0) = 1
  BY Pow2Steps
<1>3. Pow2(1) = 2
  <2>1. 0 \in Nat /\ 0 + 1 = 1
    OBVIOUS
  <2> QED
    BY <1>1, <1>2, <2>1
<1>4. Pow2(2) = 4
  <2>1. 1 \in Nat /\ 1 + 1 = 2
    OBVIOUS
  <2> QED
    BY <1>1, <1>3, <2>1
<1>5. Pow2(3) = 8
  <2>1. 2 \in Nat /\ 2 + 1 = 3
    OBVIOUS
  <2> QED
    BY <1>1, <1>4, <2>1
<1>6. Pow2(4) = 16
  <2>1. 3 \in Nat /\ 3 + 1 = 4
    OBVIOUS
  <2> QED
    BY <1>1, <1>5, <2>1
<1>7. Pow2(5) = 32
  <2>1. 4 \in Nat /\ 4 + 1 = 5
    OBVIOUS
  <2> QED
    BY <1>1, <1>6, <2>1
<1>8. Pow2(6) = 64
  <2>1. 5 \in Nat /\ 5 + 1 = 6
    OBVIOUS
  <2> QED
    BY <1>1, <1>7, <2>1
<1>9. Pow2(7) = 128
  <2>1. 6 \in Nat /\ 6 + 1 = 7
    OBVIOUS
  <2> QED
    BY <1>1, <1>8, <2>1
<1>10. Pow2(8) = 256
  <2>1. 7 \in Nat /\ 7 + 1 = 8
    OBVIOUS
  <2> QED
    BY <1>1, <1>9, <2>1
<1>11. Pow2(9) = 512
  <2>1. 8 \in Nat /\ 8 + 1 = 9
    OBVIOUS
  <2> QED
    BY <1>1, <1>10, <2>1
<1>12. Pow2(10) = 1024
  <2>1. 9 \in Nat /\ 9 + 1 = 10
    OBVIOUS
  <2> QED
    BY <1>1, <1>11, <2>1
<1>13. Pow2(11) = 2048
  <2>1. 10 \in Nat /\ 10 + 1 = 11
    OBVIOUS
  <2> QED
    BY <1>1, <1>12, <2>1
<1>14. Pow2(12) = 4096
  <2>1. 11 \in Nat /\ 11 + 1 = 12
    OBVIOUS
  <2> QED
    BY <1>1, <1>13, <2>1
<1>15. Pow2(13) = 8192
  <2>1. 12 \in Nat /\ 12 + 1 = 13
    OBVIOUS
  <2> QED
    BY <1>1, <1>14, <2>1
<1>16. Pow2(14) = 16384
  <2>1. 13 \in Nat /\ 13 + 1 = 14
    OBVIOUS
  <2> QED
    BY <1>1, <1>15, <2>1
<1>17. Pow2(15) = 32768
  <2>1. 14 \in Nat /\ 14 + 1 = 15
    OBVIOUS
  <2> QED
    BY <1>1, <1>16, <2>1
<1> QED
  BY <1>2, <1>3, <1>4, <1>5, <1>6, <1>7, <1>8, <1>9, <1>10, <1>11, <1>12, <1>13, <1>14, <1>15, <1>16, <1>17

\* What starts at 0 and grows by the lengths of the runs is where they start.
Starts(b, t) == b[1] = 0 /\ \A i \in 1 .. Len(t) : i < Len(t) => b[i + 1] = b[i] + t[i]

\* The offsets of a table of runs are the bases, if those start so.
LEMMA OffsetIs ==
  ASSUME NEW t \in Seq(Nat), NEW b, Starts(b, t)
  PROVE  \A i \in 1 .. Len(t) : Offset(t, i) = b[i]
<1> DEFINE n == Len(t)
           O(i) == Offset(t, i)
           S == {k \in Nat : k < n => O(k + 1) = b[k + 1]}
<1>1. O(1) = 0 /\ n \in Nat /\ \A i \in 1 .. n : O(i) \in Nat /\ O(i + 1) = O(i) + t[i]
  BY OffsetSteps
<1>0. b[1] = 0 /\ \A i \in 1 .. n : i < n => b[i + 1] = b[i] + t[i]
  BY DEF Starts
<1> HIDE DEF O
<1>2. 0 \in S
  BY <1>0, <1>1
<1>3. ASSUME NEW k \in Nat, k \in S PROVE k + 1 \in S
  <2> SUFFICES ASSUME k + 1 < n PROVE O(k + 1 + 1) = b[k + 1 + 1]
    OBVIOUS
  <2>1. PICK i \in 1 .. n : i = k + 1 /\ i < n /\ k < n
    BY <1>1
  <2>2. O(i + 1) = O(i) + t[i] /\ b[i + 1] = b[i] + t[i] /\ O(i) = b[i]
    BY <1>0, <1>1, <1>3, <2>1
  <2> QED
    BY <2>1, <2>2
<1>4. Nat \subseteq S
  <2> HIDE DEF S
  <2> QED
    BY <1>2, <1>3, NatInductionSet
<1>5. ASSUME NEW i \in 1 .. n PROVE O(i) = b[i]
  <2>1. PICK k \in Nat : i = k + 1 /\ k < n
    <3>1. i - 1 \in Nat /\ i = i - 1 + 1 /\ i - 1 < n
      BY <1>1
    <3> QED
      BY <3>1
  <2>2. k \in S
    BY <1>4
  <2> QED
    BY <2>1, <2>2
<1> QED
  BY <1>5 DEF O

\* A sum is what is before the last summand and that.
LEMMA LastSummand ==
  ASSUME NEW t \in Seq(Nat), Len(t) > 0
  PROVE  Total(t) = Offset(t, Len(t)) + t[Len(t)]
<1>1. PICK i \in 1 .. Len(t) : i = Len(t)
  OBVIOUS
<1>2. Total(t) = Offset(t, i + 1) /\ Offset(t, i + 1) = Offset(t, i) + t[i]
  BY <1>1, OffsetSteps
<1> QED
  BY <1>1, <1>2

\* The symbol at an index of a table is the one in whose run the index is.
LEMMA EntryAtIs ==
  ASSUME NEW t \in Seq(Nat), NEW x \in 0 .. Total(t) - 1
  PROVE  LET s == EntryAt(t, x)
         IN s \in 1 .. Len(t) /\ Offset(t, s) <= x /\ x < Offset(t, s) + t[s]
<1>1. PICK i \in 1 .. Len(t) : \E j \in 0 .. t[i] - 1 : x = Offset(t, i) + j
  BY StateHasSymbol
<1>2. PICK j \in 0 .. t[i] - 1 : x = Offset(t, i) + j
  BY <1>1
<1>3. Offset(t, i) \in Nat /\ t[i] \in Nat
  BY OffsetSteps, ElementIs
<1> DEFINE O == Offset(t, i)
           f == t[i]
<1>4. O \in Nat /\ f \in Nat /\ j \in 0 .. f - 1 /\ x = O + j
  BY <1>2, <1>3
<1>5. O <= x /\ x < O + f
  <2> HIDE DEF O, f
  <2> QED
    BY <1>4
<1>6. i \in DOMAIN t /\ DOMAIN t = 1 .. Len(t)
  OBVIOUS
<1> DEFINE In(s) == Offset(t, s) <= x /\ x < Offset(t, s) + t[s]
<1>7. \E s \in DOMAIN t : In(s)
  BY <1>5, <1>6
<1>8. EntryAt(t, x) = CHOOSE s \in DOMAIN t : In(s)
  BY DEF EntryAt
<1> HIDE DEF In
<1>9. EntryAt(t, x) \in DOMAIN t /\ In(EntryAt(t, x))
  BY <1>7, <1>8
<1> QED
  BY <1>6, <1>9 DEF In

\* Values of L.
LEMMA LValue ==
  ASSUME NEW v \in Nat, v <= 315
  PROVE  v - LBase[SymbolOf("L", v)] \in 0 .. Pow2(LExtra[SymbolOf("L", v)]) - 1
<1>1. LRuns \in Seq(Nat) /\ Len(LRuns) = 20
  BY SMT DEF LRuns
<1>2. LBase[1] = 0 /\ \A i \in 1 .. 20 : i < 20 => LBase[i + 1] = LBase[i] + LRuns[i]
  BY SMT DEF LRuns, LBase
<1>3. \A i \in 1 .. Len(LRuns) : Offset(LRuns, i) = LBase[i]
  <2>1. Starts(LBase, LRuns)
    BY <1>1, <1>2, SMT DEF Starts
  <2>2. LRuns \in Seq(Nat)
    BY <1>1, SMT
  <2> QED
    BY <2>1, <2>2, OffsetIs, SMT
<1>4. Total(LRuns) = 316
  <2>1. LRuns \in Seq(Nat) /\ Len(LRuns) > 0
    BY <1>1, SMT
  <2>2. Total(LRuns) = Offset(LRuns, Len(LRuns)) + LRuns[Len(LRuns)]
    BY <2>1, LastSummand, SMT
  <2>3. Len(LRuns) \in 1 .. Len(LRuns)
    BY <2>1, SMT
  <2>4. Total(LRuns) = LBase[Len(LRuns)] + LRuns[Len(LRuns)]
    BY <1>3, <2>2, <2>3, SMT
  <2>5. LBase[20] + LRuns[20] = 316
    BY SMT DEF LRuns, LBase
  <2> QED
    BY <1>1, <2>4, <2>5, SMT
<1> DEFINE s == EntryAt(LRuns, v)
<1>5. s \in 1 .. 20 /\ LBase[s] <= v /\ v < LBase[s] + LRuns[s]
  <2>1. v \in 0 .. Total(LRuns) - 1
    BY <1>4, SMT
  <2>2. s \in 1 .. Len(LRuns) /\ Offset(LRuns, s) <= v /\ v < Offset(LRuns, s) + LRuns[s]
    <3>1. LRuns \in Seq(Nat)
      BY <1>1, SMT
    <3> QED
      BY <2>1, <3>1, EntryAtIs, SMT
  <2> HIDE DEF s
  <2>3. Offset(LRuns, s) = LBase[s]
    BY <1>3, <2>2, SMT
  <2>4. s \in 1 .. 20
    BY <1>1, <2>2, SMT
  <2> QED
    BY <2>2, <2>3, <2>4, SMT
<1> HIDE DEF s
<1>6. Pow2(LExtra[s]) = LRuns[s] /\ LBase[s] \in Nat /\ LRuns[s] \in Nat
  BY <1>5, Powers, SMT DEF LRuns, LBase, LExtra
<1>7. v - LBase[s] \in 0 .. Pow2(LExtra[s]) - 1
  <2> DEFINE b == LBase[s]
             r == LRuns[s]
  <2>1. b \in Nat /\ r \in Nat /\ b <= v /\ v < b + r /\ Pow2(LExtra[s]) = r
    BY <1>5, <1>6, SMT
  <2> HIDE DEF b, r
  <2>2. v - b \in 0 .. r - 1
    BY <2>1, SMT
  <2> QED
    BY <2>1, <2>2, SMT DEF b
<1>8. SymbolOf("L", v) = s
  BY SMT DEF SymbolOf, s
<1> QED
  BY <1>7, <1>8, SMT

\* Values of M.
LEMMA MValue ==
  ASSUME NEW v \in Nat, v <= 2359
  PROVE  v - MBase[SymbolOf("M", v)] \in 0 .. Pow2(MExtra[SymbolOf("M", v)]) - 1
<1>1. MRuns \in Seq(Nat) /\ Len(MRuns) = 20
  BY SMT DEF MRuns
<1>2. MBase[1] = 0 /\ \A i \in 1 .. 20 : i < 20 => MBase[i + 1] = MBase[i] + MRuns[i]
  BY SMT DEF MRuns, MBase
<1>3. \A i \in 1 .. Len(MRuns) : Offset(MRuns, i) = MBase[i]
  <2>1. Starts(MBase, MRuns)
    BY <1>1, <1>2, SMT DEF Starts
  <2>2. MRuns \in Seq(Nat)
    BY <1>1, SMT
  <2> QED
    BY <2>1, <2>2, OffsetIs, SMT
<1>4. Total(MRuns) = 2360
  <2>1. MRuns \in Seq(Nat) /\ Len(MRuns) > 0
    BY <1>1, SMT
  <2>2. Total(MRuns) = Offset(MRuns, Len(MRuns)) + MRuns[Len(MRuns)]
    BY <2>1, LastSummand, SMT
  <2>3. Len(MRuns) \in 1 .. Len(MRuns)
    BY <2>1, SMT
  <2>4. Total(MRuns) = MBase[Len(MRuns)] + MRuns[Len(MRuns)]
    BY <1>3, <2>2, <2>3, SMT
  <2>5. MBase[20] + MRuns[20] = 2360
    BY SMT DEF MRuns, MBase
  <2> QED
    BY <1>1, <2>4, <2>5, SMT
<1> DEFINE s == EntryAt(MRuns, v)
<1>5. s \in 1 .. 20 /\ MBase[s] <= v /\ v < MBase[s] + MRuns[s]
  <2>1. v \in 0 .. Total(MRuns) - 1
    BY <1>4, SMT
  <2>2. s \in 1 .. Len(MRuns) /\ Offset(MRuns, s) <= v /\ v < Offset(MRuns, s) + MRuns[s]
    <3>1. MRuns \in Seq(Nat)
      BY <1>1, SMT
    <3> QED
      BY <2>1, <3>1, EntryAtIs, SMT
  <2> HIDE DEF s
  <2>3. Offset(MRuns, s) = MBase[s]
    BY <1>3, <2>2, SMT
  <2>4. s \in 1 .. 20
    BY <1>1, <2>2, SMT
  <2> QED
    BY <2>2, <2>3, <2>4, SMT
<1> HIDE DEF s
<1>6. Pow2(MExtra[s]) = MRuns[s] /\ MBase[s] \in Nat /\ MRuns[s] \in Nat
  BY <1>5, Powers, SMT DEF MRuns, MBase, MExtra
<1>7. v - MBase[s] \in 0 .. Pow2(MExtra[s]) - 1
  <2> DEFINE b == MBase[s]
             r == MRuns[s]
  <2>1. b \in Nat /\ r \in Nat /\ b <= v /\ v < b + r /\ Pow2(MExtra[s]) = r
    BY <1>5, <1>6, SMT
  <2> HIDE DEF b, r
  <2>2. v - b \in 0 .. r - 1
    BY <2>1, SMT
  <2> QED
    BY <2>1, <2>2, SMT DEF b
<1>8. SymbolOf("M", v) = s
  BY SMT DEF SymbolOf, s
<1> QED
  BY <1>7, <1>8, SMT

\* Where the runs of the table for D start, and how many values a symbol of it stands
\* for.
DStart ==
  <<0, 1, 2, 3, 4, 6, 8, 10, 12, 16, 20, 24, 28, 36, 44, 52,
    60, 65, 66, 67, 68, 70, 72, 74, 76, 80, 84, 88, 92, 100, 108, 116,
    124, 129, 130, 131, 132, 134, 136, 138, 140, 144, 148, 152, 156, 164, 172, 180,
    188, 193, 194, 195, 196, 198, 200, 202, 204, 208, 212, 216, 220, 228, 236, 244>>

DWidth ==
  <<1, 1, 1, 1, 2, 2, 2, 2, 4, 4, 4, 4, 8, 8, 8, 8,
    16, 16, 16, 16, 32, 32, 32, 32, 64, 64, 64, 64, 128, 128, 128, 128,
    256, 256, 256, 256, 512, 512, 512, 512, 1024, 1024, 1024, 1024, 2048, 2048, 2048, 2048,
    4096, 4096, 4096, 4096, 8192, 8192, 8192, 8192, 16384, 16384, 16384, 16384, 32768, 32768, 32768, 32768>>

\* Values of D: in each of the four ranges the table is coarser.
LEMMA DValue ==
  ASSUME NEW v \in Nat, v <= 262139
  PROVE  v - DBase[SymbolOf("D", v)] \in 0 .. Pow2(DExtra[SymbolOf("D", v)]) - 1
<1>1. DRuns \in Seq(Nat) /\ Len(DRuns) = 64
  BY SMT DEF DRuns
<1>2. DStart[1] = 0 /\ \A i \in 1 .. 64 : i < 64 => DStart[i + 1] = DStart[i] + DRuns[i]
  BY SMT DEF DRuns, DStart
<1>3. \A i \in 1 .. Len(DRuns) : Offset(DRuns, i) = DStart[i]
  <2>1. Starts(DStart, DRuns)
    BY <1>1, <1>2, SMT DEF Starts
  <2>2. DRuns \in Seq(Nat)
    BY <1>1, SMT
  <2> QED
    BY <2>1, <2>2, OffsetIs, SMT
<1>4. Total(DRuns) = 252
  <2>1. DRuns \in Seq(Nat) /\ Len(DRuns) > 0
    BY <1>1, SMT
  <2>2. Total(DRuns) = Offset(DRuns, Len(DRuns)) + DRuns[Len(DRuns)]
    BY <2>1, LastSummand, SMT
  <2>3. Len(DRuns) \in 1 .. Len(DRuns)
    BY <2>1, SMT
  <2>4. Total(DRuns) = DStart[Len(DRuns)] + DRuns[Len(DRuns)]
    BY <1>3, <2>2, <2>3, SMT
  <2>5. DStart[64] + DRuns[64] = 252
    BY SMT DEF DRuns, DStart
  <2> QED
    BY <1>1, <2>4, <2>5, SMT
<1> DEFINE x == DIndex(v)
           s == EntryAt(DRuns, x)
           InFirst == v < 60 /\ x = v
           InRange(first, last, g, i) ==
             /\ first <= v /\ v < last /\ x \in Nat /\ i <= x /\ x < i + 60
             /\ g * (x - i) <= v - first /\ v - first < g * (x - i) + g
<1>5. \/ InFirst \/ InRange(60, 1020, 16, 64)
      \/ InRange(1020, 16380, 256, 128) \/ InRange(16380, 262140, 4096, 192)
  <2>1. CASE v < 60
    BY <2>1, SMT DEF DIndex
  <2>2. CASE 60 <= v /\ v < 1020
    <3> DEFINE y == (v - 60) \div 16
    <3>1. x = y + 64
      BY <2>2, SMT DEF DIndex
    <3>2. y \in Int /\ 16 * y <= v - 60 /\ v - 60 < 16 * y + 16
      BY <2>2, SMT
    <3> HIDE DEF y, x
    <3>3. y \in Nat /\ y < 60 /\ x - 64 = y
      BY <2>2, <3>1, <3>2, SMT
    <3>4. InRange(60, 1020, 16, 64)
      BY <2>2, <3>1, <3>2, <3>3, SMT
    <3> QED
      BY <3>4, SMT
  <2>3. CASE 1020 <= v /\ v < 16380
    <3> DEFINE y == (v - 1020) \div 256
    <3>1. x = y + 128
      BY <2>3, SMT DEF DIndex
    <3>2. y \in Int /\ 256 * y <= v - 1020 /\ v - 1020 < 256 * y + 256
      BY <2>3, SMT
    <3> HIDE DEF y, x
    <3>3. y \in Nat /\ y < 60 /\ x - 128 = y
      BY <2>3, <3>1, <3>2, SMT
    <3>4. InRange(1020, 16380, 256, 128)
      BY <2>3, <3>1, <3>2, <3>3, SMT
    <3> QED
      BY <3>4, SMT
  <2>4. CASE 16380 <= v /\ v < 262140
    <3> DEFINE y == (v - 16380) \div 4096
    <3>1. x = y + 192
      BY <2>4, SMT DEF DIndex
    <3>2. y \in Int /\ 4096 * y <= v - 16380 /\ v - 16380 < 4096 * y + 4096
      BY <2>4, SMT
    <3> HIDE DEF y, x
    <3>3. y \in Nat /\ y < 60 /\ x - 192 = y
      BY <2>4, <3>1, <3>2, SMT
    <3>4. InRange(16380, 262140, 4096, 192)
      BY <2>4, <3>1, <3>2, <3>3, SMT
    <3> QED
      BY <3>4, SMT
  <2> QED
    BY <2>1, <2>2, <2>3, <2>4, SMT
<1> HIDE DEF x
<1>6. x \in Nat /\ x < 252
  BY <1>5, SMT
<1>7. s \in 1 .. 64 /\ DStart[s] <= x /\ x < DStart[s] + DRuns[s]
  <2>1. x \in 0 .. Total(DRuns) - 1
    BY <1>4, <1>6, SMT
  <2>2. s \in 1 .. Len(DRuns) /\ Offset(DRuns, s) <= x /\ x < Offset(DRuns, s) + DRuns[s]
    <3>1. DRuns \in Seq(Nat)
      BY <1>1, SMT
    <3> QED
      BY <2>1, <3>1, EntryAtIs, SMT
  <2> HIDE DEF s
  <2>3. Offset(DRuns, s) = DStart[s]
    BY <1>3, <2>2, SMT
  <2>4. s \in 1 .. 64
    BY <1>1, <2>2, SMT
  <2> QED
    BY <2>2, <2>3, <2>4, SMT
<1> HIDE DEF s
<1>8. DBase[s] <= v /\ v < DBase[s] + DWidth[s]
  <2>1. CASE InFirst
    BY <1>7, <2>1, SMT DEF DRuns, DStart, DBase, DWidth
  <2>2. CASE InRange(60, 1020, 16, 64)
    BY <1>7, <2>2, SMT DEF DRuns, DStart, DBase, DWidth
  <2>3. CASE InRange(1020, 16380, 256, 128)
    BY <1>7, <2>3, SMT DEF DRuns, DStart, DBase, DWidth
  <2>4. CASE InRange(16380, 262140, 4096, 192)
    BY <1>7, <2>4, SMT DEF DRuns, DStart, DBase, DWidth
  <2> QED
    BY <1>5, <2>1, <2>2, <2>3, <2>4, SMT
<1>9. Pow2(DExtra[s]) = DWidth[s]
  <2>1. DExtra[s] = (s - 1) \div 4
    BY <1>7, SMT DEF DExtra
  <2> DEFINE e == (s - 1) \div 4
  <2>2. e \in Int /\ 4 * e <= s - 1 /\ s - 1 < 4 * e + 4
    BY <1>7, SMT
  <2> HIDE DEF e
  <2>3. e \in 0 .. 15 /\ (s = 4 * e + 1 \/ s = 4 * e + 2 \/ s = 4 * e + 3 \/ s = 4 * e + 4)
    BY <1>7, <2>2, SMT
  <2>4. Pow2(e) = DWidth[s]
    BY <2>3, Powers, SMT DEF DWidth
  <2> QED
    BY <2>1, <2>4, SMT DEF e
<1>10. v - DBase[s] \in 0 .. Pow2(DExtra[s]) - 1
  <2> DEFINE b == DBase[s]
             r == DWidth[s]
  <2>1. b \in Nat /\ r \in Nat
    BY <1>7, SMT DEF DBase, DWidth
  <2>2. b <= v /\ v < b + r /\ Pow2(DExtra[s]) = r
    BY <1>8, <1>9, SMT
  <2> HIDE DEF b, r
  <2>3. v - b \in 0 .. r - 1
    BY <2>1, <2>2, SMT
  <2> QED
    BY <2>2, <2>3, SMT DEF b
<1>11. SymbolOf("D", v) = s
  BY SMT DEF SymbolOf, s, x
<1> QED
  BY <1>10, <1>11, SMT

\* Values of each kind.
LEMMA ValueIs ==
  ASSUME NEW kind \in {"L", "M", "D"}, NEW v \in Nat, v <= Kinds[kind].max
  PROVE  LET s == SymbolOf(kind, v) IN v - Kinds[kind].base[s] \in 0 .. Pow2(Kinds[kind].extra[s]) - 1
<1>1. CASE kind = "L"
  <2>1. Kinds[kind].max = 315 /\ Kinds[kind].base = LBase /\ Kinds[kind].extra = LExtra
    BY <1>1, SMT DEF Kinds
  <2>2. v <= 315
    BY <2>1, SMT
  <2> QED
    BY <1>1, <2>1, <2>2, LValue, SMT
<1>2. CASE kind = "M"
  <2>1. Kinds[kind].max = 2359 /\ Kinds[kind].base = MBase /\ Kinds[kind].extra = MExtra
    BY <1>2, SMT DEF Kinds
  <2>2. v <= 2359
    BY <2>1, SMT
  <2> QED
    BY <1>2, <2>1, <2>2, MValue, SMT
<1>3. CASE kind = "D"
  <2>1. Kinds[kind].max = 262139 /\ Kinds[kind].base = DBase /\ Kinds[kind].extra = DExtra
    BY <1>3, SMT DEF Kinds
  <2>2. v <= 262139
    BY <2>1, SMT
  <2> QED
    BY <1>3, <2>1, <2>2, DValue, SMT
<1> QED
  BY <1>1, <1>2, <1>3, SMT

-----------------------------------------------------------------------------
(* The life of a table.                                                     *)

Damages(bits) == {SubSeq(bits, 1, Len(bits) - 8), bits \o Bits(255, 8)}

\* The inductive invariant: where each piece of the state comes from.
CodingInv ==
  /\ phase \in {"counted", "normalized", "written", "read", "refused", "built", "value", "coded"}
  /\ input \in IF phase \in {"value", "coded"} THEN Probes ELSE Histograms
  /\ Tables => freq = Normalized(input.nstates, input.occ).freq
  /\ phase \in {"counted", "normalized"} => ~damaged
  /\ phase = "written" =>
       IF damaged THEN stream \in Damages(FreqTableBits(freq)) ELSE stream = FreqTableBits(freq)
  /\ TableSurvives
  /\ DOMAIN tables = {"encoder", "decoder", "symbol"}
  /\ phase = "built" =>
       /\ tables.decoder = DecoderTable(input.nstates, freq)
       /\ \E junk \in Junk : tables.encoder = EncoderTable(input.nstates, freq, junk)
  /\ phase = "coded" => tables.symbol = SymbolOf(input.kind, input.value)

\* What is known of a histogram's frequencies.
LEMMA HistogramFacts ==
  ASSUME NEW h \in Histograms, NEW f, f = Normalized(h.nstates, h.occ).freq
  PROVE  /\ f \in Seq(Nat) /\ f \in Seq(Codable) /\ Len(f) = Len(h.occ) /\ Len(f) > 0
         /\ Total(f) = h.nstates /\ h.nstates \in Nat /\ h.nstates = Pow2(Log2(h.nstates))
         /\ \A i \in 1 .. Len(f) : f[i] \in Codable /\ (h.occ[i] > 0 => f[i] > 0)
         /\ Len(FreqTableBits(f)) > 8
<1> DEFINE N == h.nstates
           occ == h.occ
<1>1. /\ N \in 8 .. 1024 /\ N = Pow2(Log2(N)) /\ Log2(N) < Precision
      /\ occ \in Seq(Nat) /\ Len(occ) \in 4 .. N
  BY HistogramsAssumption
<1> HIDE DEF N, occ
<1>2. N \in Nat /\ N > 0 /\ N >= 8 /\ N <= 1024
  BY <1>1
<1>3. Len(occ) \in 1 .. N /\ Len(occ) >= 4 /\ Len(occ) \in Nat
  BY <1>1, <1>2
<1>4. f \in Seq(Nat) /\ Len(f) = Len(occ) /\ Total(f) = N /\ \A i \in 1 .. Len(occ) : occ[i] > 0 => f[i] > 0
  <2>1. f = Normalized(N, occ).freq
    BY DEF N, occ
  <2> QED
    BY <1>1, <1>2, <1>3, <2>1, NormalizedSound
<1>5. ASSUME NEW i \in 1 .. Len(f) PROVE f[i] \in Codable
  <2>1. f[i] \in Nat /\ f[i] <= N
    BY <1>4, ElementIs, SummandBound
  <2> DEFINE x == f[i]
  <2> HIDE DEF x
  <2>2. x \in Nat /\ x <= 1024
    BY <1>2, <2>1 DEF x
  <2>3. x \in Codable
    BY <2>2 DEF Codable
  <2> QED
    BY <2>3 DEF x
<1>6. f \in Seq(Codable)
  <2> DEFINE n == Len(f)
  <2>1. n \in Nat /\ f = [i \in 1 .. n |-> f[i]]
    BY <1>4
  <2>2. \A i \in 1 .. n : f[i] \in Codable
    BY <1>5
  <2> HIDE DEF n
  <2>3. f \in [1 .. n -> Codable]
    BY <2>1, <2>2
  <2> QED
    BY <2>1, <2>3, SeqIs
<1>7. Len(FreqTableBits(f)) > 8
  <2>1. Len(f) >= 4 /\ Total(f) >= 8
    BY <1>2, <1>3, <1>4
  <2> QED
    BY <1>6, <2>1, TableLength
<1>8. Len(f) > 0
  BY <1>3, <1>4
<1> QED
  BY <1>1, <1>2, <1>4, <1>5, <1>6, <1>7, <1>8 DEF N, occ

\* The invariant starts.
LEMMA CodingInit == Init => CodingInv
<1> SUFFICES ASSUME Init PROVE CodingInv
  OBVIOUS
<1>1. phase \in {"counted", "value"} /\ damaged = FALSE
      /\ tables = [encoder |-> <<>>, decoder |-> <<>>, symbol |-> 0]
      /\ (phase = "value" => input \in Probes) /\ (phase = "counted" => input \in Histograms)
  BY DEF Init
<1>2. DOMAIN tables = {"encoder", "decoder", "symbol"}
  BY <1>1
<1> QED
  BY <1>1, <1>2 DEF CodingInv, Tables, TableSurvives

\* The frequencies come from the histogram.
LEMMA NormalizeKeeps == CodingInv /\ Normalize => CodingInv'
<1> SUFFICES ASSUME CodingInv, Normalize PROVE CodingInv'
  OBVIOUS
<1>1. /\ phase = "counted" /\ phase' = "normalized" /\ freq' = Normalized(input.nstates, input.occ).freq
      /\ input' = input /\ damaged' = damaged /\ tables' = tables
  BY DEF Normalize
<1>2. input \in Histograms /\ ~damaged /\ DOMAIN tables = {"encoder", "decoder", "symbol"}
  BY <1>1 DEF CodingInv
<1> QED
  BY <1>1, <1>2 DEF CodingInv, Tables, TableSurvives

\* The header says the frequencies.
LEMMA WriteTableKeeps == CodingInv /\ WriteTable => CodingInv'
<1> SUFFICES ASSUME CodingInv, WriteTable PROVE CodingInv'
  OBVIOUS
<1>1. /\ phase = "normalized" /\ phase' = "written" /\ stream' = FreqTableBits(freq)
      /\ input' = input /\ freq' = freq /\ damaged' = damaged /\ tables' = tables
  BY DEF WriteTable
<1>2. /\ input \in Histograms /\ ~damaged /\ DOMAIN tables = {"encoder", "decoder", "symbol"}
      /\ freq = Normalized(input.nstates, input.occ).freq
  BY <1>1 DEF CodingInv, Tables
<1> QED
  BY <1>1, <1>2 DEF CodingInv, Tables, TableSurvives

\* A header a byte shorter or longer is one of two.
LEMMA DamageKeeps == CodingInv /\ Damage => CodingInv'
<1> SUFFICES ASSUME CodingInv, Damage PROVE CodingInv'
  OBVIOUS
<1>1. /\ phase = "written" /\ phase' = phase /\ ~damaged /\ damaged' = TRUE
      /\ stream' \in Damages(stream)
      /\ input' = input /\ freq' = freq /\ tables' = tables
  BY DEF Damage, Damages
<1>2. /\ input \in Histograms /\ DOMAIN tables = {"encoder", "decoder", "symbol"}
      /\ freq = Normalized(input.nstates, input.occ).freq
      /\ stream = FreqTableBits(freq)
  BY <1>1 DEF CodingInv, Tables
<1> QED
  BY <1>1, <1>2 DEF CodingInv, Tables, TableSurvives

\* The decoder reads what was written, or notices that the header was changed.
LEMMA ReadTableKeeps == CodingInv /\ ReadTable => CodingInv'
<1> SUFFICES ASSUME CodingInv, ReadTable PROVE CodingInv'
  OBVIOUS
<1> DEFINE read == ReadFreqTable(stream, Len(freq))
<1>1. /\ phase = "written" /\ phase' = (IF read.ok THEN "read" ELSE "refused") /\ back' = read.freqs
      /\ input' = input /\ freq' = freq /\ damaged' = damaged /\ tables' = tables
  BY DEF ReadTable
<1>2. /\ input \in Histograms /\ DOMAIN tables = {"encoder", "decoder", "symbol"}
      /\ freq = Normalized(input.nstates, input.occ).freq
      /\ IF damaged THEN stream \in Damages(FreqTableBits(freq)) ELSE stream = FreqTableBits(freq)
  BY <1>1 DEF CodingInv, Tables
<1>3. freq \in Seq(Codable) /\ Len(freq) > 0 /\ Len(FreqTableBits(freq)) > 8
  BY <1>2, HistogramFacts
<1>4. ~damaged => read.ok /\ read.freqs = freq
  BY <1>2, <1>3, TableReadBack
<1>5. damaged => ~read.ok
  <2>1. stream = SubSeq(FreqTableBits(freq), 1, Len(FreqTableBits(freq)) - 8) => ~read.ok
    BY <1>3, ShorterRefused
  <2>2. stream = FreqTableBits(freq) \o Bits(255, 8) => ~read.ok
    BY <1>3, LongerRefused
  <2> QED
    BY <1>2, <2>1, <2>2 DEF Damages
<1> HIDE DEF read
<1>6. TableSurvives'
  BY <1>1, <1>4, <1>5 DEF TableSurvives
<1>7. phase' \in {"read", "refused"} /\ input' = input /\ freq' = freq /\ tables' = tables
  BY <1>1
<1>8. CASE phase' = "read"
  BY <1>2, <1>6, <1>7, <1>8 DEF CodingInv, Tables
<1>9. CASE phase' = "refused"
  BY <1>2, <1>6, <1>7, <1>9 DEF CodingInv, Tables
<1> QED
  <2>1. phase' = "read" \/ phase' = "refused"
    BY <1>7
  <2> QED
    BY <1>8, <1>9, <2>1, Zenon

\* Each side builds its table from frequencies that are the same.
LEMMA BuildTablesKeeps == CodingInv /\ BuildTables => CodingInv'
<1> SUFFICES ASSUME CodingInv, BuildTables PROVE CodingInv'
  OBVIOUS
<1>1. /\ phase = "read" /\ phase' = "built"
      /\ input' = input /\ freq' = freq /\ damaged' = damaged /\ back' = back
  BY DEF BuildTables
<1>2. PICK junk \in Junk :
        tables' = [tables EXCEPT !.encoder = EncoderTable(input.nstates, freq, junk),
                                 !.decoder = DecoderTable(input.nstates, back)]
  BY DEF BuildTables
<1>3. /\ input \in Histograms /\ DOMAIN tables = {"encoder", "decoder", "symbol"}
      /\ freq = Normalized(input.nstates, input.occ).freq
      /\ back = freq /\ ~damaged
  BY <1>1 DEF CodingInv, Tables, TableSurvives
<1>4. /\ tables'.encoder = EncoderTable(input.nstates, freq, junk)
      /\ tables'.decoder = DecoderTable(input.nstates, freq)
      /\ DOMAIN tables' = {"encoder", "decoder", "symbol"}
  BY <1>2, <1>3
<1> QED
  BY <1>1, <1>3, <1>4 DEF CodingInv, Tables, TableSurvives

\* A value gets its symbol.
LEMMA CodeValueKeeps == CodingInv /\ CodeValue => CodingInv'
<1> SUFFICES ASSUME CodingInv, CodeValue PROVE CodingInv'
  OBVIOUS
<1>1. /\ phase = "value" /\ phase' = "coded"
      /\ tables' = [tables EXCEPT !.symbol = SymbolOf(input.kind, input.value)]
      /\ input' = input
  BY DEF CodeValue
<1>2. input \in Probes /\ DOMAIN tables = {"encoder", "decoder", "symbol"}
  BY <1>1 DEF CodingInv
<1>3. tables'.symbol = SymbolOf(input.kind, input.value) /\ DOMAIN tables' = {"encoder", "decoder", "symbol"}
  BY <1>1, <1>2
<1> QED
  BY <1>1, <1>2, <1>3 DEF CodingInv, Tables, TableSurvives

\* Every step keeps it.
LEMMA CodingStep == CodingInv /\ [Next]_vars => CodingInv'
<1> SUFFICES ASSUME CodingInv, [Next]_vars PROVE CodingInv'
  OBVIOUS
<1>1. CASE UNCHANGED vars
  BY <1>1 DEF vars, CodingInv, Tables, TableSurvives
<1> QED
  BY <1>1, NormalizeKeeps, WriteTableKeeps, DamageKeeps, ReadTableKeeps, BuildTablesKeeps, CodeValueKeeps DEF Next

\* Where each piece of the state comes from, always.
THEOREM CodingAlways == Spec => []CodingInv
  BY CodingInit, CodingStep, PTL DEF Spec

\* What normalizing gives stays as it is.
LEMMA FrequenciesFollow == CodingInv => FrequenciesSound
<1> SUFFICES ASSUME CodingInv, Tables
             PROVE  /\ Total(freq) = input.nstates
                    /\ \A i \in DOMAIN freq : freq[i] \in 0 .. 1047
                    /\ \A i \in Used : freq[i] > 0
  BY DEF FrequenciesSound
<1>1. input \in Histograms /\ freq = Normalized(input.nstates, input.occ).freq
  BY DEF CodingInv, Tables
<1>2. /\ freq \in Seq(Nat) /\ Total(freq) = input.nstates
      /\ \A i \in 1 .. Len(freq) : freq[i] \in Codable /\ (input.occ[i] > 0 => freq[i] > 0)
  BY <1>1, HistogramFacts
<1>3. DOMAIN freq = 1 .. Len(freq)
  BY <1>2
<1>4. \A i \in DOMAIN freq : freq[i] \in 0 .. 1047
  <2>1. \A i \in DOMAIN freq : freq[i] \in Codable
    BY <1>2, <1>3
  <2> QED
    BY <2>1 DEF Codable
<1>5. \A i \in Used : freq[i] > 0
  BY <1>2, <1>3 DEF Used
<1> QED
  BY <1>2, <1>4, <1>5

\* Whatever is counted, fse_normalize_freq hands out exactly all states, forgets no
\* symbol that occurs, and makes no frequency that has no code.
THEOREM FrequenciesAlways == Spec => []FrequenciesSound
<1>1. CodingInv => FrequenciesSound
  BY FrequenciesFollow
<1> QED
  BY <1>1, CodingAlways, PTL

\* The frequencies survive the header of a compressed block: lzfse_decode_v1 reads what
\* lzfse_encode_v1_freq_table wrote, and refuses a header of another length.
THEOREM SurvivesAlways == Spec => []TableSurvives
<1>1. CodingInv => TableSurvives
  BY DEF CodingInv
<1> QED
  BY <1>1, CodingAlways, PTL

\* Tables built from the same frequencies undo each other.
LEMMA InverseFollows == CodingInv => CodingInverse
<1> SUFFICES ASSUME CodingInv PROVE CodingInverse
  OBVIOUS
<1>1. ASSUME phase = "built"
      PROVE  LET states == 0 .. input.nstates - 1
             IN /\ \A s \in states, i \in Used :
                     LET e == Encoded(tables.encoder, s, i)
                     IN /\ e.state \in states
                        /\ tables.decoder[e.state].symbol = i
                        /\ tables.decoder[e.state].k = e.nbits
                        /\ tables.decoder[e.state].delta + e.bits = s
                /\ \A s \in states :
                     LET d == tables.decoder[s]
                     IN d.delta >= 0 /\ d.delta + Pow2(d.k) - 1 \in states
  <2> DEFINE N == input.nstates
  <2>1. input \in Histograms /\ freq = Normalized(input.nstates, input.occ).freq
    BY <1>1 DEF CodingInv, Tables
  <2>2. PICK junk \in Junk :
          tables.encoder = EncoderTable(N, freq, junk) /\ tables.decoder = DecoderTable(N, freq)
    BY <1>1 DEF CodingInv
  <2>3. /\ freq \in Seq(Nat) /\ Total(freq) = N /\ N \in Nat /\ N = Pow2(Log2(N))
        /\ \A i \in 1 .. Len(freq) : input.occ[i] > 0 => freq[i] > 0
    BY <2>1, HistogramFacts
  <2> HIDE DEF N
  <2>4. ASSUME NEW s \in 0 .. N - 1, NEW i \in Used
        PROVE  LET e == Encoded(tables.encoder, s, i)
               IN /\ e.state \in 0 .. N - 1
                  /\ tables.decoder[e.state].symbol = i
                  /\ tables.decoder[e.state].k = e.nbits
                  /\ tables.decoder[e.state].delta + e.bits = s
    <3>1. i \in 1 .. Len(freq) /\ freq[i] > 0
      BY <2>3 DEF Used
    <3>2. LET e == Encoded(EncoderTable(N, freq, junk), s, i)
              d == DecoderTable(N, freq)[e.state]
          IN e.state \in 0 .. N - 1 /\ d.symbol = i /\ d.k = e.nbits /\ d.delta + e.bits = s
      BY <2>3, <3>1, TablesInverse
    <3> QED
      BY <2>2, <3>2
  <2>5. ASSUME NEW s \in 0 .. N - 1
        PROVE  LET d == tables.decoder[s]
               IN d.delta >= 0 /\ d.delta + Pow2(d.k) - 1 \in 0 .. N - 1
    BY <2>2, <2>3, TableWithin
  <2> QED
    BY <2>4, <2>5 DEF N
<1>2. ASSUME phase = "coded"
      PROVE  LET kind == Kinds[input.kind]
                 s == tables.symbol
             IN input.value - kind.base[s] \in 0 .. Pow2(kind.extra[s]) - 1
  <2>1. input \in Probes /\ tables.symbol = SymbolOf(input.kind, input.value)
    BY <1>2 DEF CodingInv
  <2>2. input.kind \in {"L", "M", "D"} /\ input.value \in Nat /\ input.value <= Kinds[input.kind].max
    BY <2>1, ProbesAssumption
  <2> QED
    BY <2>1, <2>2, ValueIs
<1> QED
  BY <1>1, <1>2 DEF CodingInverse

\* The tables of encoder and decoder undo each other, and a value is one that its
\* symbol and extra bits can say.
THEOREM InverseAlways == Spec => []CodingInverse
<1>1. CodingInv => CodingInverse
  BY InverseFollows
<1> QED
  BY <1>1, CodingAlways, PTL
=============================================================================

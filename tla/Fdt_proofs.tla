----------------------------- MODULE Fdt_proofs -----------------------------
(***************************************************************************)
(* Theorems about FdtBlob and FdtSequential, for every blob a file may     *)
(* hold, every argument of a call, every size of the buffer and however    *)
(* many calls are made: the header describes the blob, a writable blob     *)
(* stays writable, an edit moves nothing in front of its node, no string   *)
(* is put into the blob twice, and a blob that is written sequentially     *)
(* keeps its two ends apart.                                               *)
(*                                                                         *)
(* All of it rests on what a splice does to a sum of lengths.  The         *)
(* sections hold tags, strings and entries; the header counts bytes.  An   *)
(* edit is right if the bytes it adds to the header are those by which the *)
(* sum of the lengths grows, and if the checks it made first leave room.   *)
(***************************************************************************)
EXTENDS FdtSequential, SequenceTheorems, FiniteSetTheorems, DataLemmas

-----------------------------------------------------------------------------
(***************************************************************************)
(* Sums of lengths, and what a splice does to a sequence and to its sum.   *)
(***************************************************************************)
\* The sums over lengths exist and go up by one length after the other.
LEMMA BeforeIs ==
  ASSUME NEW lens \in Seq(Nat)
  PROVE  /\ Before(lens) \in [0 .. Len(lens) -> Nat]
         /\ Before(lens)[0] = 0
         /\ \A k \in 1 .. Len(lens) : Before(lens)[k] = Before(lens)[k - 1] + lens[k]
<1> DEFINE n == Len(lens)
           F == [i \in 1 .. n |-> [x \in Nat |-> x + lens[i]]]
           IsSum(s) == s = [k \in 0 .. n |-> IF k = 0 THEN 0 ELSE s[k - 1] + lens[k]]
<1>0. n \in Nat /\ \A i \in 1 .. n : lens[i] \in Nat
  OBVIOUS
<1>1. \A i \in 1 .. n : \A x \in Nat : F[i][x] \in Nat
  BY <1>0
<1>2. PICK f \in [0 .. n -> Nat] : Iterates(f, 0, n, F)
  <2> HIDE DEF F, n
  <2> QED
    BY <1>0, <1>1, RecursiveFunction
<1>3. f = [i \in 0 .. n |-> IF i = 0 THEN 0 ELSE F[i][f[i - 1]]]
  BY <1>2 DEF Iterates
<1>4. ASSUME NEW i \in 0 .. n
      PROVE (IF i = 0 THEN 0 ELSE F[i][f[i - 1]]) = (IF i = 0 THEN 0 ELSE f[i - 1] + lens[i])
  <2>1. CASE i # 0
    <3>1. i \in 1 .. n /\ i - 1 \in 0 .. n
      BY <1>0, <2>1
    <3>2. f[i - 1] \in Nat
      BY <1>2, <3>1
    <3>3. F[i][f[i - 1]] = f[i - 1] + lens[i]
      BY <3>1, <3>2
    <3> QED
      BY <2>1, <3>3
  <2> QED
    BY <2>1
<1>5. IsSum(f)
  BY <1>3, <1>4
<1>6. Before(lens) = CHOOSE s : IsSum(s)
  BY DEF Before
<1>7. IsSum(Before(lens))
  <2> HIDE DEF IsSum
  <2> QED
    BY <1>5, <1>6
<1> DEFINE g == Before(lens)
<1>8. ASSUME NEW X, NEW s, IsSum(s) PROVE DOMAIN s = 0 .. n /\ s[0] = 0 /\ \A k \in 1 .. n : s[k] = s[k - 1] + lens[k]
  BY <1>0, <1>8
<1>9. DOMAIN g = 0 .. n /\ g[0] = 0 /\ \A k \in 1 .. n : g[k] = g[k - 1] + lens[k]
  <2> HIDE DEF IsSum, g, n
  <2> QED
    BY <1>7, <1>8 DEF g
<1>10. g = [k \in 0 .. n |-> g[k]]
  <2> HIDE DEF IsSum, g, n
  <2>1. IsSum(g)
    BY <1>7 DEF g
  <2>2. g = [k \in 0 .. n |-> IF k = 0 THEN 0 ELSE g[k - 1] + lens[k]]
    BY <2>1 DEF IsSum
  <2> QED
    BY <2>2
<1>11. \A k \in 0 .. n : g[k] \in Nat
  <2> HIDE DEF IsSum, g, n
  <2>1. ASSUME NEW i \in 1 .. n, g[i - 1] \in Nat PROVE g[i] \in Nat
    <3>1. g[i] = g[i - 1] + lens[i] /\ lens[i] \in Nat
      BY <1>0, <1>9
    <3> QED
      BY <2>1, <3>1
  <2>2. g[0] \in Nat
    BY <1>9
  <2>3. n \in Nat
    BY <1>0
  <2> QED
    BY <2>1, <2>2, <2>3, HandedOn
<1> HIDE DEF IsSum
<1>12. g \in [0 .. n -> Nat]
  <2> HIDE DEF g, n
  <2> QED
    BY <1>10, <1>11
<1> QED
  BY <1>9, <1>12

\* The c parts of one section behind the m-th are as long as those of another one
\* behind its p-th.
Alike(lens, more, m, p, c) == \A i \in 1 .. c : lens[m + i] = more[p + i]

\* Two stretches with the same lengths take the same number of bytes.
LEMMA SameStretch ==
  ASSUME NEW lens \in Seq(Nat), NEW more \in Seq(Nat), NEW m \in Nat, NEW p \in Nat, NEW c \in Nat,
         m + c <= Len(lens), p + c <= Len(more),
         Alike(lens, more, m, p, c)
  PROVE  Before(lens)[m + c] - Before(lens)[m] = Before(more)[p + c] - Before(more)[p]
<1> DEFINE a == Before(lens)
           b == Before(more)
           S == {k \in Nat : a[m + k] - a[m] = b[p + k] - b[p]}
<1>1. /\ a \in [0 .. Len(lens) -> Nat]
      /\ \A k \in 1 .. Len(lens) : a[k] = a[k - 1] + lens[k]
  BY BeforeIs
<1>2. /\ b \in [0 .. Len(more) -> Nat]
      /\ \A k \in 1 .. Len(more) : b[k] = b[k - 1] + more[k]
  BY BeforeIs
<1>3. Len(lens) \in Nat /\ Len(more) \in Nat
  OBVIOUS
<1>3a. /\ \A i \in 1 .. Len(lens) : lens[i] \in Nat
       /\ \A i \in 1 .. Len(more) : more[i] \in Nat
  OBVIOUS
<1> DEFINE la == Len(lens) lb == Len(more)
<1> HIDE DEF a, b, la, lb
<1>4. 0 \in S
  <2>1. a[m + 0] = a[m] /\ b[p + 0] = b[p] /\ a[m] \in Int /\ b[p] \in Int
    <3>1. m \in 0 .. Len(lens) /\ p \in 0 .. Len(more) /\ m + 0 = m /\ p + 0 = p
      BY <1>3
    <3>2. a[m] \in Nat /\ b[p] \in Nat
      BY <1>1, <1>2, <3>1
    <3> QED
      BY <3>1, <3>2
  <2> QED
    BY <2>1
<1>5. ASSUME NEW k \in 0 .. c - 1, k \in S PROVE k + 1 \in S
  <2>1. m + (k + 1) \in 1 .. Len(lens) /\ p + (k + 1) \in 1 .. Len(more) /\ k + 1 \in 1 .. c
    BY <1>3
  <2>2. m + (k + 1) - 1 = m + k /\ p + (k + 1) - 1 = p + k
    OBVIOUS
  <2>3. a[m + (k + 1)] = a[m + k] + lens[m + (k + 1)]
    BY <1>1, <2>1, <2>2
  <2>4. b[p + (k + 1)] = b[p + k] + more[p + (k + 1)]
    BY <1>2, <2>1, <2>2
  <2>5. lens[m + (k + 1)] = more[p + (k + 1)] /\ lens[m + (k + 1)] \in Nat
    BY <1>3a, <2>1 DEF Alike
  <2>6. m + k \in 0 .. Len(lens) /\ p + k \in 0 .. Len(more) /\ m \in 0 .. Len(lens) /\ p \in 0 .. Len(more)
    BY <1>3
  <2>7. a[m + k] \in Nat /\ a[m] \in Nat /\ b[p + k] \in Nat /\ b[p] \in Nat
    BY <1>1, <1>2, <2>6
  <2>8. a[m + k] - a[m] = b[p + k] - b[p]
    BY <1>5
  <2>9. a[m + (k + 1)] - a[m] = b[p + (k + 1)] - b[p]
    <3> DEFINE x == a[m + (k + 1)]
               y == b[p + (k + 1)]
               u == a[m + k]
               v == b[p + k]
               l == lens[m + (k + 1)]
               w == a[m]
               z == b[p]
    <3>1. x = u + l /\ y = v + l /\ l \in Nat /\ u \in Nat /\ v \in Nat
      BY <2>3, <2>4, <2>5, <2>7
    <3>2. u - w = v - z /\ w \in Nat /\ z \in Nat
      BY <2>7, <2>8
    <3> HIDE DEF x, y, u, v, l, w, z
    <3>3. x - w = y - z
      BY <3>1, <3>2
    <3> QED
      BY <3>3 DEF x, y, w, z
  <2> QED
    BY <2>9
<1>6. 0 .. c \subseteq S
  <2> HIDE DEF S
  <2> QED
    BY <1>4, <1>5, BoundedInductionSet
<1>7. c \in S
  BY <1>6
<1> QED
  BY <1>7 DEF a, b

\* What is in front of a part does not end behind what is in front of a later one.
LEMMA BeforeGrows ==
  ASSUME NEW lens \in Seq(Nat), NEW m \in 0 .. Len(lens), NEW n \in m .. Len(lens)
  PROVE  Before(lens)[m] <= Before(lens)[n]
<1> DEFINE a == Before(lens)
           f == [k \in 0 .. n - m |-> m + k]
           X == {j \in 0 .. Len(lens) : a[m] <= a[j]}
<1>1. /\ a \in [0 .. Len(lens) -> Nat]
      /\ \A k \in 1 .. Len(lens) : a[k] = a[k - 1] + lens[k]
  BY BeforeIs
<1>2. Len(lens) \in Nat /\ \A i \in 1 .. Len(lens) : lens[i] \in Nat
  OBVIOUS
<1> HIDE DEF a
<1>3. m \in X
  <2>1. m \in 0 .. Len(lens)
    OBVIOUS
  <2>2. a[m] \in Nat
    BY <1>1, <2>1
  <2> QED
    BY <2>1, <2>2
<1>4. ASSUME NEW i \in 1 .. n - m, f[i - 1] \in X PROVE f[i] \in X
  <2>1. f[i - 1] = m + i - 1 /\ f[i] = m + i /\ m + i \in 1 .. Len(lens) /\ m + i - 1 \in 0 .. Len(lens)
    BY <1>2
  <2>2. a[m + i] = a[m + i - 1] + lens[m + i] /\ lens[m + i] \in Nat
    BY <1>1, <1>2, <2>1
  <2>3. a[m] \in Nat /\ a[m + i] \in Nat /\ a[m + i - 1] \in Nat /\ a[m] <= a[m + i - 1]
    <3>1. m \in 0 .. Len(lens) /\ m + i \in 0 .. Len(lens) /\ m + i - 1 \in 0 .. Len(lens)
      BY <1>2, <2>1
    <3>2. a[m] <= a[m + i - 1]
      BY <1>4, <2>1
    <3> QED
      BY <1>1, <3>1, <3>2
  <2> QED
    BY <1>2, <2>1, <2>2, <2>3
<1>5. \A i \in 0 .. n - m : f[i] \in X
  <2>1. f[0] = m /\ n - m \in Nat
    BY <1>2
  <2> HIDE DEF f, X
  <2> QED
    BY <1>3, <1>4, <2>1, HandedOn
<1>6. f[n - m] = n /\ n - m \in 0 .. n - m
  BY <1>2
<1>7. n \in X
  BY <1>5, <1>6
<1> QED
  BY <1>7 DEF a

\* ts with the elements m + 1 .. r replaced by those of mid.
Spliced(ts, m, mid, r) == SubSeq(ts, 1, m) \o mid \o SubSeq(ts, r + 1, Len(ts))

\* us is ts with c elements in the place of the elements m + 1 .. r.
Stretches(ts, us, m, r, c) ==
  /\ Len(us) = m + c + (Len(ts) - r)
  /\ \A i \in 1 .. m : us[i] = ts[i]
  /\ \A i \in 1 .. Len(ts) - r : us[m + c + i] = ts[r + i]

\* What is where in a spliced sequence.
LEMMA SplicedIs ==
  ASSUME NEW T, NEW ts \in Seq(T), NEW mid \in Seq(T), NEW m \in 0 .. Len(ts), NEW r \in m .. Len(ts)
  PROVE  /\ Spliced(ts, m, mid, r) \in Seq(T)
         /\ Stretches(ts, Spliced(ts, m, mid, r), m, r, Len(mid))
         /\ \A i \in 1 .. Len(mid) : Spliced(ts, m, mid, r)[m + i] = mid[i]
<1> DEFINE n == Len(ts)
           a == SubSeq(ts, 1, m)
           b == SubSeq(ts, r + 1, n)
           c == Len(mid)
           us == a \o mid \o b
<1>0. n \in Nat /\ c \in Nat /\ m \in Nat /\ r \in Nat /\ m <= r /\ r <= n /\ \A i \in 1 .. n : ts[i] \in T
  OBVIOUS
<1>1. a \in Seq(T) /\ Len(a) = m /\ \A i \in 1 .. m : a[i] = ts[i]
  <2>1. \A i \in 1 .. m : ts[i] \in T
    BY <1>0
  <2>2. a \in Seq(T) /\ Len(a) = (IF 1 <= m THEN m - 1 + 1 ELSE 0) /\ \A i \in 1 .. m - 1 + 1 : a[i] = ts[1 + i - 1]
    BY <1>0, <2>1, SubSeqProperties
  <2> HIDE DEF a
  <2> QED
    BY <1>0, <2>2
<1>2. b \in Seq(T) /\ Len(b) = n - r /\ \A i \in 1 .. n - r : b[i] = ts[r + i]
  <2>1. \A i \in r + 1 .. n : ts[i] \in T
    BY <1>0
  <2>2. b \in Seq(T) /\ Len(b) = (IF r + 1 <= n THEN n - (r + 1) + 1 ELSE 0)
        /\ \A i \in 1 .. n - (r + 1) + 1 : b[i] = ts[r + 1 + i - 1]
    BY <1>0, <2>1, SubSeqProperties
  <2>3. n - (r + 1) + 1 = n - r
    BY <1>0
  <2> HIDE DEF b, n
  <2>4. ASSUME NEW i \in 1 .. n - r PROVE b[i] = ts[r + i]
    <3>1. b[i] = ts[r + 1 + i - 1]
      BY <2>2, <2>3
    <3>2. r + 1 + i - 1 = r + i
      BY <1>0
    <3> QED
      BY <3>1, <3>2
  <2>5. Len(b) = n - r
    BY <1>0, <2>2
  <2> QED
    BY <2>2, <2>4, <2>5
<1>3. /\ a \o mid \in Seq(T) /\ Len(a \o mid) = m + c
      /\ \A i \in 1 .. m + c : (a \o mid)[i] = IF i <= m THEN a[i] ELSE mid[i - m]
  <2> HIDE DEF a
  <2> QED
    BY <1>1, ConcatProperties
<1>4. /\ us \in Seq(T) /\ Len(us) = m + c + (n - r)
      /\ \A i \in 1 .. m + c + (n - r) : us[i] = IF i <= m + c THEN (a \o mid)[i] ELSE b[i - (m + c)]
  <2> DEFINE am == a \o mid
  <2>1. am \in Seq(T) /\ Len(am) = m + c
    BY <1>3
  <2> HIDE DEF am, b
  <2>2. /\ am \o b \in Seq(T) /\ Len(am \o b) = Len(am) + Len(b)
        /\ \A i \in 1 .. Len(am) + Len(b) : (am \o b)[i] = IF i <= Len(am) THEN am[i] ELSE b[i - Len(am)]
    <3>1. am \in Seq(T) /\ b \in Seq(T)
      BY <1>2, <2>1
    <3> QED
      BY <3>1, ConcatProperties
  <2> HIDE DEF n, c
  <2>3. Len(b) = n - r
    BY <1>2
  <2>4. /\ am \o b \in Seq(T) /\ Len(am \o b) = m + c + (n - r)
        /\ \A i \in 1 .. m + c + (n - r) : (am \o b)[i] = IF i <= m + c THEN am[i] ELSE b[i - (m + c)]
    BY <2>1, <2>2, <2>3
  <2> QED
    BY <2>4 DEF am
<1> DEFINE ab == a \o mid
<1> HIDE DEF a, b, c, us, n, ab
<1>3a. \A i \in 1 .. m + c : ab[i] = IF i <= m THEN a[i] ELSE mid[i - m]
  BY <1>3 DEF ab
<1>4a. \A i \in 1 .. m + c + (n - r) : us[i] = IF i <= m + c THEN ab[i] ELSE b[i - (m + c)]
  BY <1>4 DEF ab
<1>5. ASSUME NEW i \in 1 .. m PROVE us[i] = ts[i]
  <2>1. i \in 1 .. m + c + (n - r) /\ i \in 1 .. m + c /\ i <= m /\ i <= m + c
    BY <1>0
  <2>2. us[i] = ab[i] /\ ab[i] = a[i] /\ a[i] = ts[i]
    BY <1>1, <1>3a, <1>4a, <2>1
  <2> QED
    BY <2>2
<1>6. ASSUME NEW i \in 1 .. c PROVE us[m + i] = mid[i]
  <2>1. m + i \in 1 .. m + c + (n - r) /\ m + i \in 1 .. m + c /\ ~(m + i <= m) /\ m + i <= m + c /\ m + i - m = i
    BY <1>0
  <2>2. us[m + i] = ab[m + i] /\ ab[m + i] = mid[i]
    BY <1>3a, <1>4a, <2>1
  <2> QED
    BY <2>2
<1>7. ASSUME NEW i \in 1 .. n - r PROVE us[m + c + i] = ts[r + i]
  <2>1. m + c + i \in 1 .. m + c + (n - r) /\ ~(m + c + i <= m + c) /\ m + c + i - (m + c) = i
    BY <1>0
  <2>2. us[m + c + i] = b[i]
    <3> DEFINE q == m + c + i
    <3> HIDE DEF q
    <3>1. q \in 1 .. m + c + (n - r) /\ ~(q <= m + c)
      BY <2>1 DEF q
    <3>2. us[q] = b[q - (m + c)]
      BY <1>4a, <3>1
    <3>3. q - (m + c) = i
      BY <1>0 DEF q
    <3>4. us[q] = b[i]
      BY <3>2, <3>3
    <3> QED
      BY <3>4 DEF q
  <2>3. b[i] = ts[r + i]
    BY <1>2
  <2> QED
    BY <2>1, <2>2, <2>3
<1>8. us = Spliced(ts, m, mid, r)
  BY DEF us, a, b, n, Spliced
<1> QED
  BY <1>4, <1>5, <1>6, <1>7, <1>8 DEF Stretches, c, n

\* Insertion is a splice.
LEMMA InsertIsSplice ==
  ASSUME NEW T, NEW ts \in Seq(T), NEW e \in T, NEW i \in 1 .. Len(ts) + 1
  PROVE  /\ InsertAt(ts, i, e) \in Seq(T)
         /\ Stretches(ts, InsertAt(ts, i, e), i - 1, i - 1, 1)
         /\ InsertAt(ts, i, e)[i] = e
<1>1. i - 1 \in 0 .. Len(ts) /\ i - 1 \in i - 1 .. Len(ts) /\ i - 1 + 1 = i /\ i \in Int
  OBVIOUS
<1>2. <<e>> \in Seq(T) /\ Len(<<e>>) = 1 /\ <<e>>[1] = e
  OBVIOUS
<1>3. InsertAt(ts, i, e) = Spliced(ts, i - 1, <<e>>, i - 1)
  BY <1>1 DEF InsertAt, Spliced
<1> DEFINE us == Spliced(ts, i - 1, <<e>>, i - 1)
<1>4. us \in Seq(T) /\ Stretches(ts, us, i - 1, i - 1, Len(<<e>>))
      /\ \A k \in 1 .. Len(<<e>>) : us[i - 1 + k] = <<e>>[k]
  <2> DEFINE k == i - 1
             mid == <<e>>
  <2>1. k \in 0 .. Len(ts) /\ k \in k .. Len(ts) /\ mid \in Seq(T)
    BY <1>1, <1>2
  <2> HIDE DEF k, mid
  <2>2. /\ Spliced(ts, k, mid, k) \in Seq(T)
        /\ Stretches(ts, Spliced(ts, k, mid, k), k, k, Len(mid))
        /\ \A j \in 1 .. Len(mid) : Spliced(ts, k, mid, k)[k + j] = mid[j]
    BY <2>1, SplicedIs
  <2> QED
    BY <2>2 DEF k, mid
<1> HIDE DEF us
<1>5. us[i] = e
  <2>1. 1 \in 1 .. Len(<<e>>)
    BY <1>2
  <2> QED
    BY <1>1, <1>2, <1>4, <2>1
<1>6. Stretches(ts, us, i - 1, i - 1, 1)
  BY <1>2, <1>4
<1> QED
  BY <1>3, <1>4, <1>5, <1>6 DEF us

\* Leaving out a stretch is a splice.
LEMMA CutIsSplice ==
  ASSUME NEW T, NEW ts \in Seq(T), NEW m \in 0 .. Len(ts), NEW r \in m .. Len(ts)
  PROVE  /\ SubSeq(ts, 1, m) \o SubSeq(ts, r + 1, Len(ts)) \in Seq(T)
         /\ Stretches(ts, SubSeq(ts, 1, m) \o SubSeq(ts, r + 1, Len(ts)), m, r, 0)
<1>1. << >> \in Seq(T) /\ Len(<< >>) = 0
  OBVIOUS
<1>2. SubSeq(ts, 1, m) \in Seq(T)
  <2>1. \A i \in 1 .. m : ts[i] \in T
    OBVIOUS
  <2> QED
    BY <2>1, SubSeqProperties
<1>3. SubSeq(ts, 1, m) \o << >> = SubSeq(ts, 1, m)
  BY <1>2, ConcatEmptySeq
<1>4. SubSeq(ts, 1, m) \o SubSeq(ts, r + 1, Len(ts)) = Spliced(ts, m, << >>, r)
  BY <1>3 DEF Spliced
<1>5. Spliced(ts, m, << >>, r) \in Seq(T) /\ Stretches(ts, Spliced(ts, m, << >>, r), m, r, Len(<< >>))
  BY <1>1, SplicedIs
<1> QED
  BY <1>1, <1>4, <1>5

\* A splice of lengths changes their sum by what goes out and comes in.
LEMMA SumSpliced ==
  ASSUME NEW ls \in Seq(Nat), NEW ms \in Seq(Nat), NEW m \in 0 .. Len(ls), NEW r \in m .. Len(ls),
         NEW c \in Nat, Stretches(ls, ms, m, r, c)
  PROVE  /\ Before(ms)[m] = Before(ls)[m]
         /\ Before(ms)[Len(ms)] =
              Before(ls)[Len(ls)] - (Before(ls)[r] - Before(ls)[m]) + (Before(ms)[m + c] - Before(ms)[m])
<1> DEFINE n == Len(ls)
           d == n - r
<1>0. n \in Nat /\ m \in Nat /\ r \in Nat /\ m <= r /\ r <= n /\ d \in Nat /\ r + d = n /\ 0 + m = m
  OBVIOUS
<1>1. Len(ms) = m + c + d /\ Len(ms) \in Nat
  BY DEF Stretches
<1>2. Before(ls)[0] = 0 /\ Before(ms)[0] = 0 /\ Before(ls) \in [0 .. n -> Nat] /\ Before(ms) \in [0 .. Len(ms) -> Nat]
  BY BeforeIs
<1> DEFINE a == Before(ls)
           b == Before(ms)
<1>3. a[0 + m] - a[0] = b[0 + m] - b[0]
  <2>1. Alike(ls, ms, 0, 0, m)
    BY DEF Stretches, Alike
  <2>2. 0 + m <= Len(ls) /\ 0 + m <= Len(ms)
    BY <1>0, <1>1
  <2> HIDE DEF n, d
  <2> QED
    BY <1>0, <2>1, <2>2, SameStretch
<1>4. a[r + d] - a[r] = b[m + c + d] - b[m + c]
  <2>1. Alike(ls, ms, r, m + c, d)
    BY DEF Stretches, Alike
  <2>2. r + d <= Len(ls) /\ m + c + d <= Len(ms) /\ m + c \in Nat
    BY <1>0, <1>1
  <2> HIDE DEF n, d
  <2> QED
    BY <1>0, <2>1, <2>2, SameStretch
<1> DEFINE am == a[m] ar == a[r] an == a[n] bm == b[m] bc == b[m + c] be == b[m + c + d]
<1>5. am \in Nat /\ ar \in Nat /\ an \in Nat /\ bm \in Nat /\ bc \in Nat /\ be \in Nat
  <2>1. m \in 0 .. n /\ r \in 0 .. n /\ n \in 0 .. n /\ m \in 0 .. Len(ms)
        /\ m + c \in 0 .. Len(ms) /\ m + c + d \in 0 .. Len(ms)
    BY <1>0, <1>1
  <2> HIDE DEF n, d, a, b
  <2> QED
    BY <1>2, <2>1 DEF a, b
<1>6. am - 0 = bm - 0 /\ an - ar = be - bc
  BY <1>0, <1>2, <1>3, <1>4
<1>7. bm = am /\ be = an - (ar - am) + (bc - bm)
  <2> HIDE DEF am, ar, an, bm, bc, be
  <2> QED
    BY <1>5, <1>6
<1> QED
  BY <1>1, <1>7

-----------------------------------------------------------------------------
(***************************************************************************)
(* Offsets in the structure section and in the strings section.            *)
(***************************************************************************)
\* Bytes in front of the tag behind the k-th.
Bytes(ts) == Before(TagLens(ts))

\* A length rounded up is a number of words.
LEMMA TagAlignIs ==
  ASSUME NEW n \in Nat
  PROVE  TagAlign(n) \in Nat /\ \E q \in Nat : TagAlign(n) = 4 * q
<1>1. (n + 3) \div 4 \in Nat
  BY DivBounds
<1> DEFINE q == (n + 3) \div 4
<1>2. TagAlign(n) = q * 4
  BY DEF TagAlign
<1> HIDE DEF q
<1>3. q \in Nat
  BY <1>1 DEF q
<1>4. q * 4 = 4 * q /\ 4 * q \in Nat
  BY <1>3
<1> QED
  BY <1>2, <1>3, <1>4

\* The fields of a tag.
LEMMA TagFields ==
  ASSUME NEW t \in TagSet
  PROVE  /\ t.tag \in {"begin", "prop", "end_node", "nop", "end", "bad"}
         /\ t.tag = "begin" => t.name \in Seq(Chars) /\ Len(t.name) \in Nat
         /\ t.tag = "prop" => t.nameoff \in Int /\ t.data \in Seq(Chars) /\ Len(t.data) \in Nat
BY DEF TagSet

\* A tag takes a number of words, one at least.
LEMMA TagLenIs ==
  ASSUME NEW t \in TagSet
  PROVE  TagLen(t) \in Nat /\ TagLen(t) >= 4 /\ \E q \in Nat : TagLen(t) = 4 * q
<1>1. CASE t.tag = "begin"
  <2>1. Len(t.name) + 1 \in Nat
    BY <1>1, TagFields
  <2>2. PICK q \in Nat : TagAlign(Len(t.name) + 1) = 4 * q
    BY <2>1, TagAlignIs
  <2>3. TagLen(t) = 4 + 4 * q
    BY <1>1, <2>2 DEF TagLen
  <2>4. 4 + 4 * q = 4 * (q + 1) /\ q + 1 \in Nat
    OBVIOUS
  <2> QED
    BY <2>3, <2>4
<1>2. CASE t.tag = "prop"
  <2>1. Len(t.data) \in Nat
    BY <1>2, TagFields
  <2>2. PICK q \in Nat : TagAlign(Len(t.data)) = 4 * q
    BY <2>1, TagAlignIs
  <2>3. TagLen(t) = 12 + 4 * q
    BY <1>2, <2>2 DEF TagLen
  <2>4. 12 + 4 * q = 4 * (q + 3) /\ q + 3 \in Nat
    OBVIOUS
  <2> QED
    BY <2>3, <2>4
<1>3. CASE t.tag # "begin" /\ t.tag # "prop"
  <2>1. TagLen(t) = 4 /\ 4 = 4 * 1
    BY <1>3 DEF TagLen
  <2> QED
    BY <2>1
<1> QED
  BY <1>1, <1>2, <1>3

\* The lengths of a sequence of tags.
LEMMA TagLensIs ==
  ASSUME NEW ts \in Seq(TagSet)
  PROVE  /\ TagLens(ts) \in Seq(Nat) /\ Len(TagLens(ts)) = Len(ts)
         /\ \A i \in 1 .. Len(ts) : TagLens(ts)[i] = TagLen(ts[i])
<1>1. \A i \in 1 .. Len(ts) : TagLen(ts[i]) \in Nat
  <2> SUFFICES ASSUME NEW i \in 1 .. Len(ts) PROVE TagLen(ts[i]) \in Nat
    OBVIOUS
  <2>1. ts[i] \in TagSet
    OBVIOUS
  <2> QED
    BY <2>1, TagLenIs
<1>2. Len(ts) \in Nat
  OBVIOUS
<1> QED
  BY <1>1, <1>2 DEF TagLens

\* The lengths of a sequence of strings.
LEMMA StringLensIs ==
  ASSUME NEW ss \in Seq(Seq(Chars))
  PROVE  /\ StringLens(ss) \in Seq(Nat) /\ Len(StringLens(ss)) = Len(ss)
         /\ \A i \in 1 .. Len(ss) : StringLens(ss)[i] = Len(ss[i]) + 1
<1>1. \A i \in 1 .. Len(ss) : Len(ss[i]) + 1 \in Nat
  <2> SUFFICES ASSUME NEW i \in 1 .. Len(ss) PROVE Len(ss[i]) + 1 \in Nat
    OBVIOUS
  <2>1. ss[i] \in Seq(Chars)
    OBVIOUS
  <2>2. Len(ss[i]) \in Nat
    BY <2>1
  <2> QED
    BY <2>2
<1>2. Len(ss) \in Nat
  OBVIOUS
<1> QED
  BY <1>1, <1>2 DEF StringLens

\* Offsets in a structure section.
LEMMA BytesIs ==
  ASSUME NEW ts \in Seq(TagSet)
  PROVE  /\ Bytes(ts) \in [0 .. Len(ts) -> Nat] /\ Bytes(ts)[0] = 0
         /\ \A k \in 1 .. Len(ts) : Bytes(ts)[k] = Bytes(ts)[k - 1] + TagLen(ts[k])
         /\ SizeOf(ts) = Bytes(ts)[Len(ts)] /\ SizeOf(ts) \in Nat
<1>1. TagLens(ts) \in Seq(Nat) /\ Len(TagLens(ts)) = Len(ts)
  BY TagLensIs
<1>2. \A i \in 1 .. Len(ts) : TagLens(ts)[i] = TagLen(ts[i])
  BY TagLensIs
<1>3. Bytes(ts) \in [0 .. Len(ts) -> Nat] /\ Bytes(ts)[0] = 0
  BY <1>1, BeforeIs DEF Bytes
<1>4. \A k \in 1 .. Len(ts) : Bytes(ts)[k] = Bytes(ts)[k - 1] + TagLens(ts)[k]
  BY <1>1, BeforeIs DEF Bytes
<1>5. SizeOf(ts) = Bytes(ts)[Len(ts)]
  BY DEF SizeOf, Bytes
<1>6. Len(ts) \in 0 .. Len(ts)
  OBVIOUS
<1>7. SizeOf(ts) \in Nat
  BY <1>3, <1>5, <1>6
<1> QED
  BY <1>2, <1>3, <1>4, <1>5, <1>7

\* The offset behind a tag.
LEMMA BytesStep ==
  ASSUME NEW ts \in Seq(TagSet), NEW k \in Nat, NEW n, n = k + 1, n \in 1 .. Len(ts)
  PROVE  Bytes(ts)[n] = Bytes(ts)[k] + TagLen(ts[n])
<1>1. Bytes(ts)[n] = Bytes(ts)[n - 1] + TagLen(ts[n])
  BY BytesIs
<1>2. n - 1 = k
  OBVIOUS
<1> QED
  BY <1>1, <1>2

\* Offsets grow, and all of them are those of words.
LEMMA BytesGrow ==
  ASSUME NEW ts \in Seq(TagSet), NEW m \in 0 .. Len(ts), NEW n \in m .. Len(ts)
  PROVE  Bytes(ts)[m] <= Bytes(ts)[n]
BY TagLensIs, BeforeGrows DEF Bytes

\* The numbers of bytes in front of tags are those of words.
LEMMA BytesAreWords ==
  ASSUME NEW ts \in Seq(TagSet), NEW m \in 0 .. Len(ts)
  PROVE  \E q \in Nat : Bytes(ts)[m] = 4 * q
<1> DEFINE n == Len(ts)
           f == Bytes(ts)
           X == {4 * q : q \in Nat}
<1>1. n \in Nat /\ m \in 0 .. n
  OBVIOUS
<1>2. f[0] \in X
  BY BytesIs
<1>3. ASSUME NEW i \in 1 .. n, f[i - 1] \in X PROVE f[i] \in X
  <2>1. f[i] = f[i - 1] + TagLen(ts[i])
    BY BytesIs
  <2>2. PICK q \in Nat : f[i - 1] = 4 * q
    BY <1>3
  <2>3. ts[i] \in TagSet
    OBVIOUS
  <2>4. PICK p \in Nat : TagLen(ts[i]) = 4 * p
    BY <2>3, TagLenIs
  <2>5. 4 * q + 4 * p = 4 * (q + p) /\ q + p \in Nat
    OBVIOUS
  <2>6. f[i] = 4 * (q + p)
    BY <2>1, <2>2, <2>4, <2>5
  <2> QED
    BY <2>5, <2>6
<1>4. \A i \in 0 .. n : f[i] \in X
  <2> HIDE DEF f, X, n
  <2> QED
    BY <1>1, <1>2, <1>3, HandedOn
<1> QED
  BY <1>1, <1>4

\* A splice of tags is one of their lengths.
LEMMA SizeSpliced ==
  ASSUME NEW ts \in Seq(TagSet), NEW us \in Seq(TagSet), NEW m \in 0 .. Len(ts),
         NEW r \in m .. Len(ts), NEW c \in Nat, Stretches(ts, us, m, r, c)
  PROVE  /\ Bytes(us)[m] = Bytes(ts)[m]
         /\ SizeOf(us) = SizeOf(ts) - (Bytes(ts)[r] - Bytes(ts)[m]) + (Bytes(us)[m + c] - Bytes(us)[m])
<1> DEFINE ls == TagLens(ts)
           ms == TagLens(us)
<1>0. Len(ts) \in Nat /\ Len(us) \in Nat /\ Len(us) = m + c + (Len(ts) - r)
  BY DEF Stretches
<1>1. ls \in Seq(Nat) /\ Len(ls) = Len(ts) /\ \A i \in 1 .. Len(ts) : ls[i] = TagLen(ts[i])
  BY TagLensIs
<1>2. ms \in Seq(Nat) /\ Len(ms) = Len(us) /\ \A i \in 1 .. Len(us) : ms[i] = TagLen(us[i])
  BY TagLensIs
<1>3. Stretches(ls, ms, m, r, c)
  <2>1. ASSUME NEW i \in 1 .. m PROVE ms[i] = ls[i]
    <3>1. i \in 1 .. Len(ts) /\ i \in 1 .. Len(us)
      BY <1>0
    <3>2. us[i] = ts[i]
      BY DEF Stretches
    <3>3. ms[i] = TagLen(us[i]) /\ ls[i] = TagLen(ts[i])
      BY <1>1, <1>2, <3>1
    <3> QED
      BY <3>2, <3>3
  <2>2. ASSUME NEW i \in 1 .. Len(ls) - r PROVE ms[m + c + i] = ls[r + i]
    <3>1. i \in 1 .. Len(ts) - r
      BY <1>1
    <3>2. r + i \in 1 .. Len(ts) /\ m + c + i \in 1 .. Len(us)
      BY <1>0, <3>1
    <3>3. us[m + c + i] = ts[r + i]
      BY <3>1 DEF Stretches
    <3>4. ls[r + i] = TagLen(ts[r + i])
      BY <1>1, <3>2
    <3>5. ms[m + c + i] = TagLen(us[m + c + i])
      BY <1>2, <3>2
    <3> QED
      BY <3>3, <3>4, <3>5
  <2>3. Len(ms) = m + c + (Len(ls) - r)
    BY <1>0, <1>1, <1>2
  <2> HIDE DEF ls, ms
  <2> QED
    BY <2>1, <2>2, <2>3 DEF Stretches
<1>4. m \in 0 .. Len(ls) /\ r \in m .. Len(ls)
  BY <1>1
<1> HIDE DEF ls, ms
<1>5. /\ Before(ms)[m] = Before(ls)[m]
      /\ Before(ms)[Len(ms)] =
              Before(ls)[Len(ls)] - (Before(ls)[r] - Before(ls)[m]) + (Before(ms)[m + c] - Before(ms)[m])
  BY <1>1, <1>2, <1>3, <1>4, SumSpliced
<1> QED
  BY <1>1, <1>2, <1>5 DEF ls, ms, Bytes, SizeOf

\* A tag more.
LEMMA SizeInserted ==
  ASSUME NEW ts \in Seq(TagSet), NEW t \in TagSet, NEW i \in 1 .. Len(ts) + 1
  PROVE  /\ InsertAt(ts, i, t) \in Seq(TagSet)
         /\ SizeOf(InsertAt(ts, i, t)) = SizeOf(ts) + TagLen(t)
<1> DEFINE us == InsertAt(ts, i, t)
           m == i - 1
<1>1. us \in Seq(TagSet) /\ Stretches(ts, us, m, m, 1) /\ us[i] = t
  BY InsertIsSplice
<1>2. Len(ts) \in Nat /\ m \in 0 .. Len(ts) /\ m \in m .. Len(ts) /\ m + 1 = i
  OBVIOUS
<1> HIDE DEF us, m
<1>3. SizeOf(us) = SizeOf(ts) - (Bytes(ts)[m] - Bytes(ts)[m]) + (Bytes(us)[m + 1] - Bytes(us)[m])
  BY <1>1, <1>2, SizeSpliced
<1>4. Bytes(us)[i] = Bytes(us)[m] + TagLen(t)
  <2>1. i \in 1 .. Len(us) /\ i - 1 = m
    BY <1>1, <1>2 DEF Stretches
  <2> QED
    BY <1>1, <2>1, BytesIs
<1> DEFINE a == Bytes(ts)[m] b == Bytes(us)[m] c == Bytes(us)[i] l == TagLen(t) s == SizeOf(ts)
<1>5. a \in Nat /\ b \in Nat /\ l \in Nat /\ s \in Nat
  <2>1. m \in 0 .. Len(us)
    BY <1>1, <1>2 DEF Stretches
  <2> QED
    BY <1>1, <1>2, <2>1, BytesIs, TagLenIs
<1>6. SizeOf(us) = s - (a - a) + (c - b) /\ c = b + l
  BY <1>2, <1>3, <1>4
<1> HIDE DEF a, b, c, l, s
<1>7. SizeOf(us) = s + l
  BY <1>5, <1>6
<1> QED
  BY <1>1, <1>7 DEF us, l, s

\* A stretch less.
LEMMA SizeCut ==
  ASSUME NEW ts \in Seq(TagSet), NEW m \in 0 .. Len(ts), NEW r \in m .. Len(ts)
  PROVE  /\ SubSeq(ts, 1, m) \o SubSeq(ts, r + 1, Len(ts)) \in Seq(TagSet)
         /\ SizeOf(SubSeq(ts, 1, m) \o SubSeq(ts, r + 1, Len(ts)))
              = SizeOf(ts) - (Bytes(ts)[r] - Bytes(ts)[m])
<1> DEFINE us == SubSeq(ts, 1, m) \o SubSeq(ts, r + 1, Len(ts))
<1>1. us \in Seq(TagSet) /\ Stretches(ts, us, m, r, 0)
  BY CutIsSplice
<1> HIDE DEF us
<1>2. SizeOf(us) = SizeOf(ts) - (Bytes(ts)[r] - Bytes(ts)[m]) + (Bytes(us)[m + 0] - Bytes(us)[m])
  BY <1>1, SizeSpliced
<1>3. m + 0 = m /\ m \in 0 .. Len(us) /\ r \in 0 .. Len(ts)
  BY <1>1 DEF Stretches
<1> DEFINE a == Bytes(ts)[m] b == Bytes(us)[m] d == Bytes(ts)[r] s == SizeOf(ts)
<1>4. a \in Nat /\ b \in Nat /\ d \in Nat /\ s \in Nat
  BY <1>1, <1>3, BytesIs
<1>5. SizeOf(us) = s - (d - a) + (b - b)
  BY <1>2, <1>3
<1> HIDE DEF a, b, d, s
<1>6. SizeOf(us) = s - (d - a)
  BY <1>4, <1>5
<1> QED
  BY <1>1, <1>6 DEF us, a, d, s

\* A tag less.
LEMMA SizeRemoved ==
  ASSUME NEW ts \in Seq(TagSet), NEW i \in 1 .. Len(ts)
  PROVE  /\ RemoveAt(ts, i) \in Seq(TagSet)
         /\ SizeOf(RemoveAt(ts, i)) = SizeOf(ts) - TagLen(ts[i])
<1> DEFINE m == i - 1
<1>1. m \in 0 .. Len(ts) /\ i \in m .. Len(ts) /\ i \in 0 .. Len(ts)
  OBVIOUS
<1>2. RemoveAt(ts, i) = SubSeq(ts, 1, m) \o SubSeq(ts, i + 1, Len(ts))
  BY DEF RemoveAt
<1>3. Bytes(ts)[i] = Bytes(ts)[m] + TagLen(ts[i]) /\ ts[i] \in TagSet
  BY BytesIs
<1> HIDE DEF m
<1>4. /\ RemoveAt(ts, i) \in Seq(TagSet)
      /\ SizeOf(RemoveAt(ts, i)) = SizeOf(ts) - (Bytes(ts)[i] - Bytes(ts)[m])
  BY <1>1, <1>2, SizeCut
<1> DEFINE a == Bytes(ts)[m] d == Bytes(ts)[i] l == TagLen(ts[i]) s == SizeOf(ts)
<1>5. a \in Nat /\ d \in Nat /\ l \in Nat /\ s \in Nat
  BY <1>1, <1>3, BytesIs, TagLenIs
<1>6. SizeOf(RemoveAt(ts, i)) = s - (d - a) /\ d = a + l
  BY <1>3, <1>4
<1> HIDE DEF a, d, l, s
<1>7. SizeOf(RemoveAt(ts, i)) = s - l
  BY <1>5, <1>6
<1> QED
  BY <1>4, <1>7 DEF l, s

\* Another tag in the place of one.
LEMMA SizeReplaced ==
  ASSUME NEW ts \in Seq(TagSet), NEW i \in 1 .. Len(ts), NEW t \in TagSet
  PROVE  /\ [ts EXCEPT ![i] = t] \in Seq(TagSet)
         /\ SizeOf([ts EXCEPT ![i] = t]) = SizeOf(ts) - TagLen(ts[i]) + TagLen(t)
<1> DEFINE m == i - 1
           us == [ts EXCEPT ![i] = t]
<1>0. Len(ts) \in Nat
  OBVIOUS
<1>1. m \in 0 .. Len(ts) /\ i \in m .. Len(ts) /\ i \in 0 .. Len(ts) /\ m + 1 = i /\ i \in Nat
  OBVIOUS
<1>2. us \in Seq(TagSet) /\ Len(us) = Len(ts) /\ \A j \in 1 .. Len(ts) : us[j] = IF j = i THEN t ELSE ts[j]
  BY ExceptSeq
<1> HIDE DEF us
<1>3. Stretches(ts, us, m, i, 1)
  <2>1. Len(us) = m + 1 + (Len(ts) - i)
    BY <1>0, <1>2
  <2>2. ASSUME NEW k \in 1 .. m PROVE us[k] = ts[k]
    <3>1. k \in 1 .. Len(ts) /\ k # i
      BY <1>0
    <3> QED
      BY <1>2, <3>1
  <2>3. ASSUME NEW k \in 1 .. Len(ts) - i PROVE us[m + 1 + k] = ts[i + k]
    <3>1. i + k \in 1 .. Len(ts) /\ i + k # i /\ m + 1 + k = i + k
      BY <1>0
    <3>2. us[i + k] = ts[i + k]
      BY <1>2, <3>1
    <3> QED
      BY <3>1, <3>2
  <2> QED
    BY <2>1, <2>2, <2>3 DEF Stretches
<1> HIDE DEF m
<1>4. /\ Bytes(us)[m] = Bytes(ts)[m]
      /\ SizeOf(us) = SizeOf(ts) - (Bytes(ts)[i] - Bytes(ts)[m]) + (Bytes(us)[m + 1] - Bytes(us)[m])
  BY <1>1, <1>2, <1>3, SizeSpliced
<1>5. Bytes(ts)[i] = Bytes(ts)[m] + TagLen(ts[i]) /\ ts[i] \in TagSet
  BY BytesIs DEF m
<1>6. Bytes(us)[i] = Bytes(us)[m] + TagLen(t)
  <2>1. i \in 1 .. Len(us) /\ us[i] = t
    BY <1>2
  <2> QED
    BY <1>2, <2>1, BytesIs DEF m
<1> DEFINE a == Bytes(ts)[m] d == Bytes(ts)[i] l == TagLen(ts[i]) s == SizeOf(ts) k == TagLen(t)
           b == Bytes(us)[i] z == SizeOf(us)
<1>7. a \in Nat /\ d \in Nat /\ l \in Nat /\ s \in Nat /\ k \in Nat /\ b \in Nat
  <2>1. i \in 0 .. Len(us)
    BY <1>2
  <2> QED
    BY <1>1, <1>2, <1>5, <2>1, BytesIs, TagLenIs
<1>8. z = s - (d - a) + (b - a) /\ d = a + l /\ b = a + k
  BY <1>1, <1>4, <1>5, <1>6
<1> HIDE DEF a, d, l, s, k, b, z
<1>9. z = s - l + k
  BY <1>7, <1>8
<1> QED
  BY <1>2, <1>9 DEF us, l, s, k, z

\* Two tags in the place of none.
LEMMA SizeTwoMore ==
  ASSUME NEW ts \in Seq(TagSet), NEW i \in 1 .. Len(ts) + 1, NEW t \in TagSet, NEW u \in TagSet
  PROVE  /\ SubSeq(ts, 1, i - 1) \o <<t, u>> \o SubSeq(ts, i, Len(ts)) \in Seq(TagSet)
         /\ SizeOf(SubSeq(ts, 1, i - 1) \o <<t, u>> \o SubSeq(ts, i, Len(ts)))
              = SizeOf(ts) + (TagLen(t) + TagLen(u))
<1> DEFINE m == i - 1
           mid == <<t, u>>
           us == Spliced(ts, m, mid, m)
<1>0. Len(ts) \in Nat /\ i \in Nat /\ m \in Nat
  OBVIOUS
<1>1. m \in 0 .. Len(ts) /\ m \in m .. Len(ts) /\ m + 1 = i /\ m + 1 + 1 = m + 2
  OBVIOUS
<1>2. mid \in Seq(TagSet) /\ Len(mid) = 2 /\ mid[1] = t /\ mid[2] = u
  OBVIOUS
<1>3. us = SubSeq(ts, 1, i - 1) \o <<t, u>> \o SubSeq(ts, i, Len(ts))
  BY <1>1 DEF Spliced
<1> HIDE DEF m, mid
<1>4. us \in Seq(TagSet) /\ Stretches(ts, us, m, m, Len(mid)) /\ \A k \in 1 .. Len(mid) : us[m + k] = mid[k]
  <2>1. m \in 0 .. Len(ts) /\ m \in m .. Len(ts) /\ mid \in Seq(TagSet)
    BY <1>1, <1>2
  <2> QED
    BY <2>1, SplicedIs
<1> HIDE DEF us
<1>5. SizeOf(us) = SizeOf(ts) - (Bytes(ts)[m] - Bytes(ts)[m]) + (Bytes(us)[m + Len(mid)] - Bytes(us)[m])
  <2>1. Len(mid) \in Nat
    BY <1>2
  <2> QED
    BY <1>1, <1>4, <2>1, SizeSpliced
<1>6. Len(us) = m + 2 + (Len(ts) - m) /\ us[m + 1] = t /\ us[m + 2] = u
  <2>1. 1 \in 1 .. Len(mid) /\ 2 \in 1 .. Len(mid)
    BY <1>2
  <2> QED
    BY <1>2, <1>4, <2>1 DEF Stretches
<1>7. /\ Bytes(us)[m + 1] = Bytes(us)[m] + TagLen(t)
      /\ Bytes(us)[m + 2] = Bytes(us)[m + 1] + TagLen(u)
  <2>1. m + 1 \in 1 .. Len(us) /\ m + 2 \in 1 .. Len(us) /\ m + 1 - 1 = m /\ m + 2 - 1 = m + 1
    BY <1>0, <1>1, <1>6
  <2>2. us \in Seq(TagSet) /\ m \in Nat /\ m + 1 \in Nat /\ m + 2 = m + 1 + 1
    BY <1>0, <1>1, <1>4 DEF m
  <2>3. Bytes(us)[m + 1] = Bytes(us)[m] + TagLen(us[m + 1])
    BY <2>1, <2>2, BytesStep
  <2>4. Bytes(us)[m + 2] = Bytes(us)[m + 1] + TagLen(us[m + 2])
    BY <2>1, <2>2, BytesStep
  <2> QED
    BY <1>6, <2>3, <2>4
<1> DEFINE a == Bytes(ts)[m] b == Bytes(us)[m] c == Bytes(us)[m + 2] l == TagLen(t) k == TagLen(u) s == SizeOf(ts)
           e == Bytes(us)[m + 1] z == SizeOf(us)
<1>8. a \in Nat /\ b \in Nat /\ l \in Nat /\ s \in Nat /\ k \in Nat
  <2>1. m \in 0 .. Len(us)
    BY <1>0, <1>1, <1>6
  <2> QED
    BY <1>1, <1>4, <2>1, BytesIs, TagLenIs
<1>9. z = s - (a - a) + (c - b) /\ c = e + k /\ e = b + l
  BY <1>2, <1>5, <1>7
<1> HIDE DEF a, b, c, l, k, s, e, z
<1>10. z = s + (l + k)
  BY <1>8, <1>9
<1> QED
  BY <1>3, <1>4, <1>10 DEF z, s, l, k

\* NOPs of a number of words.
LEMMA SizeOfNops ==
  ASSUME NEW ts \in Seq(TagSet), NEW m \in 0 .. Len(ts), NEW n \in Nat, m + n <= Len(ts),
         \A i \in 1 .. n : ts[m + i] = Nop
  PROVE  Bytes(ts)[m + n] = Bytes(ts)[m] + 4 * n
<1> DEFINE b == Bytes(ts)
           S == {k \in Nat : b[m + k] = b[m] + 4 * k}
<1>0. Len(ts) \in Nat /\ b \in [0 .. Len(ts) -> Nat] /\ \A k \in 1 .. Len(ts) : b[k] = b[k - 1] + TagLen(ts[k])
  BY BytesIs
<1>1. 0 \in S
  <2>1. b[m] \in Nat /\ m + 0 = m
    BY <1>0
  <2> HIDE DEF b
  <2>2. b[m + 0] = b[m] + 4 * 0
    BY <2>1
  <2> QED
    BY <2>2
<1>2. ASSUME NEW k \in 0 .. n - 1, k \in S PROVE k + 1 \in S
  <2>1. m + (k + 1) \in 1 .. Len(ts) /\ m + (k + 1) - 1 = m + k /\ k + 1 \in 1 .. n
    BY <1>0
  <2>2. ts[m + (k + 1)] = Nop
    BY <2>1
  <2>3. TagLen(ts[m + (k + 1)]) = 4
    BY <2>2 DEF TagLen, Nop
  <2>4. b[m + (k + 1)] = b[m + k] + 4
    BY <1>0, <2>1, <2>3
  <2>5. b[m + k] = b[m] + 4 * k /\ b[m] \in Nat
    BY <1>0, <1>2
  <2> DEFINE x == b[m + (k + 1)] y == b[m + k] z == b[m]
  <2> HIDE DEF x, y, z
  <2>6. x = z + 4 * (k + 1)
    <3>1. x = y + 4 /\ y = z + 4 * k /\ z \in Nat /\ k \in Nat
      BY <2>4, <2>5 DEF x, y, z
    <3> QED
      BY <3>1
  <2> QED
    BY <2>6 DEF x, z
<1>3. 0 .. n \subseteq S
  <2> HIDE DEF S
  <2> QED
    BY <1>1, <1>2, BoundedInductionSet
<1>4. n \in S
  BY <1>3
<1> QED
  BY <1>4

\* A string more at the end of the strings section.
LEMMA StringAppended ==
  ASSUME NEW ss \in Seq(Seq(Chars)), NEW s \in Seq(Chars)
  PROVE  /\ StringBytes(ss) \in Nat /\ Append(ss, s) \in Seq(Seq(Chars))
         /\ StringBytes(Append(ss, s)) = StringBytes(ss) + Len(s) + 1
<1> DEFINE us == Append(ss, s)
           ls == StringLens(ss)
           ms == StringLens(us)
           n == Len(ss)
<1>0. n \in Nat /\ Len(s) \in Nat
  OBVIOUS
<1>1. us \in Seq(Seq(Chars)) /\ Len(us) = n + 1 /\ us[n + 1] = s /\ \A i \in 1 .. n : us[i] = ss[i]
  OBVIOUS
<1> HIDE DEF us
<1>2. ls \in Seq(Nat) /\ Len(ls) = n /\ \A i \in 1 .. n : ls[i] = Len(ss[i]) + 1
  BY StringLensIs
<1>3. ms \in Seq(Nat) /\ Len(ms) = n + 1 /\ \A i \in 1 .. n + 1 : ms[i] = Len(us[i]) + 1
  BY <1>1, StringLensIs
<1> HIDE DEF ls, ms, n
<1>4. Stretches(ls, ms, n, n, 1)
  <2>1. ASSUME NEW i \in 1 .. n PROVE ms[i] = ls[i]
    <3>1. i \in 1 .. n + 1
      BY <1>0
    <3> QED
      BY <1>1, <1>2, <1>3, <3>1
  <2>2. Len(ms) = n + 1 + (Len(ls) - n)
    BY <1>0, <1>2, <1>3
  <2>3. 1 .. Len(ls) - n = {}
    BY <1>0, <1>2
  <2> QED
    BY <2>1, <2>2, <2>3 DEF Stretches
<1>5. n \in 0 .. Len(ls) /\ n \in n .. Len(ls)
  BY <1>0, <1>2
<1>6. Before(ms)[n] = Before(ls)[n]
  BY <1>2, <1>3, <1>4, <1>5, SumSpliced
<1>7. Before(ms)[n + 1] = Before(ms)[n] + (Len(s) + 1)
  <2>1. n + 1 \in 1 .. Len(ms) /\ n + 1 - 1 = n
    BY <1>0, <1>3
  <2>2. ms[n + 1] = Len(s) + 1
    BY <1>1, <1>3, <2>1
  <2>3. \A k \in 1 .. Len(ms) : Before(ms)[k] = Before(ms)[k - 1] + ms[k]
    BY <1>3, BeforeIs
  <2> DEFINE k == n + 1
  <2>4. k \in 1 .. Len(ms) /\ k - 1 = n
    BY <1>0, <2>1
  <2> HIDE DEF k
  <2>5. Before(ms)[k] = Before(ms)[n] + ms[k]
    BY <2>3, <2>4
  <2> QED
    BY <2>2, <2>5 DEF k
<1>8. Before(ls)[n] \in Nat
  BY <1>2, <1>5, BeforeIs
<1>9. StringBytes(ss) = Before(ls)[n] /\ StringBytes(us) = Before(ms)[n + 1]
  BY <1>1 DEF StringBytes, ls, ms, n
<1> DEFINE a == Before(ls)[n] b == Before(ms)[n + 1] l == Len(s)
<1>10. b = a + (l + 1) /\ a \in Nat /\ l \in Nat
  BY <1>0, <1>6, <1>7, <1>8
<1> HIDE DEF a, b, l
<1>11. b = a + l + 1 /\ a \in Nat
  BY <1>10
<1>12. StringBytes(ss) = a /\ StringBytes(us) = b
  BY <1>9 DEF a, b
<1> QED
  BY <1>1, <1>11, <1>12 DEF us, l

\* A string more in front of the others.
LEMMA StringPutFirst ==
  ASSUME NEW ss \in Seq(Seq(Chars)), NEW s \in Seq(Chars)
  PROVE  /\ <<s>> \o ss \in Seq(Seq(Chars))
         /\ StringBytes(<<s>> \o ss) = StringBytes(ss) + Len(s) + 1
<1> DEFINE us == <<s>> \o ss
           ls == StringLens(ss)
           ms == StringLens(us)
           n == Len(ss)
<1>0. n \in Nat /\ Len(s) \in Nat
  OBVIOUS
<1>1. us \in Seq(Seq(Chars)) /\ Len(us) = n + 1 /\ us[1] = s /\ \A i \in 1 .. n : us[1 + i] = ss[i]
  <2> DEFINE f == <<s>>
  <2>1. f \in Seq(Seq(Chars)) /\ Len(f) = 1 /\ f[1] = s
    OBVIOUS
  <2> HIDE DEF f
  <2>2. /\ f \o ss \in Seq(Seq(Chars)) /\ Len(f \o ss) = Len(f) + Len(ss)
        /\ \A i \in 1 .. Len(f) + Len(ss) : (f \o ss)[i] = IF i <= Len(f) THEN f[i] ELSE ss[i - Len(f)]
    BY <2>1, ConcatProperties
  <2>3. ASSUME NEW i \in 1 .. n PROVE (f \o ss)[1 + i] = ss[i]
    <3>1. 1 + i \in 1 .. Len(f) + Len(ss) /\ ~(1 + i <= Len(f)) /\ 1 + i - Len(f) = i
      BY <1>0, <2>1
    <3> DEFINE k == 1 + i
    <3>2. k \in 1 .. Len(f) + Len(ss) /\ ~(k <= Len(f)) /\ k - Len(f) = i
      BY <3>1
    <3> HIDE DEF k
    <3>3. (f \o ss)[k] = ss[i]
      BY <2>2, <3>2
    <3> QED
      BY <3>3 DEF k
  <2>4. (f \o ss)[1] = s
    BY <1>0, <2>1, <2>2
  <2> QED
    BY <2>1, <2>2, <2>3, <2>4 DEF f
<1> HIDE DEF us
<1>2. ls \in Seq(Nat) /\ Len(ls) = n /\ \A i \in 1 .. n : ls[i] = Len(ss[i]) + 1
  BY StringLensIs
<1>3. ms \in Seq(Nat) /\ Len(ms) = n + 1 /\ \A i \in 1 .. n + 1 : ms[i] = Len(us[i]) + 1
  BY <1>1, StringLensIs
<1> HIDE DEF ls, ms, n
<1>4. Stretches(ls, ms, 0, 0, 1)
  <2>1. ASSUME NEW i \in 1 .. n PROVE ms[0 + 1 + i] = ls[0 + i]
    <3>1. i \in 1 .. n /\ 1 + i \in 1 .. n + 1 /\ 0 + 1 + i = 1 + i /\ 0 + i = i
      BY <1>0
    <3>2. ms[1 + i] = Len(us[1 + i]) + 1 /\ us[1 + i] = ss[i] /\ ls[i] = Len(ss[i]) + 1
      BY <1>1, <1>2, <1>3, <3>1
    <3> QED
      BY <3>1, <3>2
  <2>2. Len(ms) = 0 + 1 + (Len(ls) - 0) /\ Len(ls) - 0 = n
    BY <1>0, <1>2, <1>3
  <2>3. 1 .. 0 = {}
    OBVIOUS
  <2> QED
    BY <2>1, <2>2, <2>3 DEF Stretches
<1>5. 0 \in 0 .. Len(ls)
  BY <1>0, <1>2
<1>6. Before(ms)[Len(ms)] = Before(ls)[Len(ls)] - (Before(ls)[0] - Before(ls)[0]) + (Before(ms)[0 + 1] - Before(ms)[0])
  BY <1>2, <1>3, <1>4, <1>5, SumSpliced
<1>7. Before(ms)[1] = Before(ms)[0] + (Len(s) + 1)
  <2>1. 1 \in 1 .. Len(ms)
    BY <1>0, <1>3
  <2>2. ms[1] = Len(s) + 1
    BY <1>1, <1>3, <2>1
  <2>3. Before(ms)[1] = Before(ms)[1 - 1] + ms[1]
    BY <1>3, <2>1, BeforeIs
  <2> QED
    BY <2>2, <2>3
<1>8. Before(ls)[n] \in Nat /\ Before(ls)[0] = 0 /\ Before(ms)[0] = 0
  <2>1. n \in 0 .. Len(ls)
    BY <1>0, <1>2
  <2>2. Before(ls) \in [0 .. Len(ls) -> Nat] /\ Before(ls)[0] = 0
    BY <1>2, BeforeIs
  <2>3. Before(ms)[0] = 0
    BY <1>3, BeforeIs
  <2> QED
    BY <2>1, <2>2, <2>3
<1>9. StringBytes(ss) = Before(ls)[n] /\ StringBytes(us) = Before(ms)[n + 1]
  BY <1>1 DEF StringBytes, ls, ms, n
<1> DEFINE a == Before(ls)[n] b == Before(ms)[n + 1] l == Len(s)
<1>10. b = a - (0 - 0) + (0 + (l + 1) - 0) /\ a \in Nat /\ l \in Nat
  <2>1. 0 + 1 = 1
    OBVIOUS
  <2> QED
    BY <1>0, <1>2, <1>3, <1>6, <1>7, <1>8, <2>1
<1> HIDE DEF a, b, l
<1>11. b = a + l + 1
  BY <1>10
<1> QED
  BY <1>1, <1>9, <1>11 DEF us, a, b, l

-----------------------------------------------------------------------------
(***************************************************************************)
(* Walks: where the searches of fdt_ro.c and fdt.c end.                    *)
(***************************************************************************)
\* The least number of a set.
LEMMA MinIs ==
  ASSUME NEW S, S \subseteq Nat, S # {}
  PROVE  Min(S) \in S /\ \A k \in S : Min(S) <= k
<1>1. PICK m \in S : \A k \in S : m <= k
  BY LeastNumber
<1> QED
  BY <1>1 DEF Min

\* The node at an offset.
LEMMA NodeAtIs ==
  ASSUME tags \in Seq(TagSet), NEW offset
  PROVE  /\ NodeAt(offset) \in 0 .. Len(tags)
         /\ NodeAt(offset) > 0 =>
              tags[NodeAt(offset)].tag = "begin" /\ Bytes(tags)[NodeAt(offset) - 1] = offset
<1> DEFINE I == {i \in 1 .. Past : OffsetOf(i) = offset}
           a == TagAt(offset)
<1>0. Len(tags) \in Nat /\ Past = Len(tags) + 1
  BY DEF Past
<1>1. a = 0 \/ (a \in 1 .. Past /\ OffsetOf(a) = offset)
  <2>1. CASE I = {}
    BY <2>1 DEF TagAt
  <2>2. CASE I # {}
    <3>1. I \subseteq Nat
      BY <1>0
    <3>2. Min(I) \in I
      BY <2>2, <3>1, MinIs
    <3>3. a = Min(I)
      BY <2>2 DEF TagAt
    <3> QED
      BY <3>2, <3>3
  <2> QED
    BY <2>1, <2>2
<1> HIDE DEF a, I
<1>2. NodeAt(offset) = IF a > 0 /\ Is(a, {"begin"}) THEN a ELSE 0
  BY DEF NodeAt, a
<1>3. CASE a > 0 /\ Is(a, {"begin"})
  <2>1. NodeAt(offset) = a /\ a \in 1 .. Len(tags) /\ tags[a].tag = "begin"
    BY <1>0, <1>1, <1>2, <1>3 DEF Is
  <2>2. Bytes(tags)[a - 1] = offset
    BY <1>1, <2>1 DEF OffsetOf, Bytes
  <2> QED
    BY <1>0, <2>1, <2>2
<1>4. CASE ~(a > 0 /\ Is(a, {"begin"}))
  BY <1>0, <1>2, <1>4
<1> QED
  BY <1>3, <1>4

\* The properties of a node end behind its tag.
LEMMA AfterPropsIs ==
  ASSUME tags \in Seq(TagSet), NEW i \in 1 .. Len(tags)
  PROVE  AfterProps(i) \in i + 1 .. Len(tags) + 1
<1> DEFINE S == {j \in i + 1 .. Past : ~Is(j, {"prop", "nop"})}
<1>1. Past = Len(tags) + 1 /\ Len(tags) \in Nat
  BY DEF Past
<1>2. Past \in S /\ S \subseteq Nat
  BY <1>1 DEF Is
<1>3. Min(S) \in S
  <2> HIDE DEF S
  <2> QED
    BY <1>2, MinIs
<1>4. AfterProps(i) = Min(S)
  BY DEF AfterProps
<1> QED
  BY <1>1, <1>3, <1>4

\* A property that is found is a property behind its node.
LEMMA PropertyIs ==
  ASSUME tags \in Seq(TagSet), NEW i \in 0 .. Len(tags), NEW name, NEW p, p = GetProperty(i, name)
  PROVE  /\ p.err = "ok" => i > 0 /\ p.at \in i + 1 .. Len(tags) /\ tags[p.at].tag = "prop"
         /\ p.err = "NOTFOUND" => i > 0
<1>1. CASE i = 0
  BY <1>1 DEF GetProperty, Missing
<1>2. CASE i > 0 /\ PropsNamed(i, name) = {}
  <2>1. p.err # "ok"
    BY <1>2 DEF GetProperty, Missing
  <2> QED
    BY <1>2, <2>1
<1>3. CASE i > 0 /\ PropsNamed(i, name) # {}
  <2> DEFINE S == PropsNamed(i, name)
  <2>1. p = Found(Min(S))
    BY <1>3 DEF GetProperty
  <2>2. Len(tags) \in Nat /\ i \in 1 .. Len(tags)
    BY <1>3
  <2>3. AfterProps(i) \in i + 1 .. Len(tags) + 1
    BY <2>2, AfterPropsIs
  <2>4. ASSUME NEW j \in S PROVE j \in i + 1 .. Len(tags) /\ tags[j].tag = "prop"
    BY <2>2, <2>3, <2>4 DEF PropsNamed, Is, Past
  <2>5. S \subseteq Nat
    BY <2>2, <2>4
  <2> HIDE DEF S
  <2>6. Min(S) \in S
    BY <1>3, <2>5, MinIs DEF S
  <2>7. p.at = Min(S) /\ p.err = "ok"
    BY <2>1 DEF Found
  <2> QED
    BY <2>2, <2>4, <2>6, <2>7
<1> QED
  BY <1>1, <1>2, <1>3

\* Where a walk stops, and that it does not pass an END or a damaged tag.
LEMMA StopIs ==
  ASSUME tags \in Seq(TagSet), NEW i \in 1 .. Len(tags)
  PROVE  /\ Stop(i) \in i + 1 .. Len(tags) + 1
         /\ \A j \in i + 1 .. Stop(i) - 1 : tags[j].tag \notin {"end", "bad"}
<1> DEFINE S == {j \in i + 1 .. Past :
                   \/ j = Past \/ Is(j, {"end", "bad"})
                   \/ Is(j, {"end_node"}) /\ Deeper(i, j) = 0}
<1>1. Past = Len(tags) + 1 /\ Len(tags) \in Nat
  BY DEF Past
<1>2. Past \in S /\ S \subseteq Nat
  BY <1>1
<1>3. Min(S) \in S /\ \A k \in S : Min(S) <= k
  <2> HIDE DEF S
  <2> QED
    BY <1>2, MinIs
<1>4. Stop(i) = Min(S)
  BY DEF Stop
<1>5. Stop(i) \in i + 1 .. Len(tags) + 1
  BY <1>1, <1>3, <1>4
<1>6. ASSUME NEW j \in i + 1 .. Stop(i) - 1 PROVE tags[j].tag \notin {"end", "bad"}
  <2>1. j \in i + 1 .. Past /\ j < Past
    BY <1>1, <1>5
  <2>2. j \notin S
    BY <1>3, <1>4, <1>5
  <2> QED
    BY <2>1, <2>2 DEF Is
<1> QED
  BY <1>5, <1>6

\* The end of a node lies behind it, and no END between.
LEMMA NodeEndIs ==
  ASSUME tags \in Seq(TagSet), NEW i \in 0 .. Len(tags), NEW e, e = NodeEnd(i), e.err = "ok",
         i > 0 => tags[i].tag = "begin"
  PROVE  /\ i > 0 /\ e.at \in i + 1 .. Len(tags) + 1
         /\ \A j \in i .. e.at - 1 : tags[j].tag \notin {"end", "bad"}
<1>1. i > 0 /\ StopError(Stop(i)) = "ok" /\ e = Found(Stop(i) + 1)
  BY DEF NodeEnd, Missing
<1>2. e.at = Stop(i) + 1
  BY <1>1 DEF Found
<1>3. Len(tags) \in Nat /\ i \in 1 .. Len(tags)
  BY <1>1
<1>4. Stop(i) \in i + 1 .. Len(tags) + 1 /\ \A j \in i + 1 .. Stop(i) - 1 : tags[j].tag \notin {"end", "bad"}
  BY <1>3, StopIs
<1>5. Is(Stop(i), {"end_node"})
  BY <1>1 DEF StopError
<1>6. Stop(i) <= Len(tags) /\ tags[Stop(i)].tag = "end_node"
  BY <1>3, <1>4, <1>5 DEF Is, Past
<1>7. ASSUME NEW j \in i .. Stop(i) PROVE tags[j].tag \notin {"end", "bad"}
  <2>1. j = i \/ j = Stop(i) \/ j \in i + 1 .. Stop(i) - 1
    BY <1>3, <1>4
  <2> QED
    BY <1>1, <1>4, <1>6, <2>1
<1>8. e.at - 1 = Stop(i)
  BY <1>2, <1>4
<1> QED
  BY <1>1, <1>2, <1>3, <1>4, <1>6, <1>7, <1>8

\* Words made NOPs take the place they took, and what is in front of them and
\* behind them stays.
LEMMA NopsIs ==
  ASSUME tags \in Seq(TagSet), NEW first \in 1 .. Len(tags), NEW last \in first + 1 .. Len(tags) + 1
  PROVE  /\ Nops(first, last) \in Seq(TagSet) /\ SizeOf(Nops(first, last)) = SizeOf(tags)
         /\ \E w \in Nat : /\ Stretches(tags, Nops(first, last), first - 1, last - 1, w)
                           /\ \A i \in 1 .. w : Nops(first, last)[first - 1 + i] = Nop
<1> DEFINE m == first - 1
           r == last - 1
           b == Bytes(tags)
           w == (OffsetOf(last) - OffsetOf(first)) \div 4
           mid == [k \in 1 .. w |-> Nop]
           us == Nops(first, last)
<1>0. /\ Len(tags) \in Nat /\ m \in 0 .. Len(tags) /\ r \in m .. Len(tags) /\ r \in 0 .. Len(tags)
      /\ r + 1 = last /\ m \in Nat /\ r \in Nat
  OBVIOUS
<1>1. OffsetOf(last) = b[r] /\ OffsetOf(first) = b[m]
  BY DEF OffsetOf, Bytes
<1>2. PICK p \in Nat : b[m] = 4 * p
  BY <1>0, BytesAreWords
<1>3. PICK q \in Nat : b[r] = 4 * q
  BY <1>0, BytesAreWords
<1>4. b[m] <= b[r]
  BY <1>0, BytesGrow
<1>5. w \in Nat /\ b[r] - b[m] = 4 * w
  <2> DEFINE x == b[m] y == b[r]
  <2>1. x = 4 * p /\ y = 4 * q /\ x <= y
    BY <1>2, <1>3, <1>4
  <2>2. w = (y - x) \div 4
    BY <1>1
  <2> HIDE DEF x, y, w
  <2>3. q - p \in Nat /\ y - x = 4 * (q - p) + 0
    BY <2>1
  <2>4. w = q - p
    BY <2>2, <2>3
  <2>5. w \in Nat /\ y - x = 4 * w
    BY <2>3, <2>4
  <2> QED
    BY <2>5 DEF x, y
<1>6. Nop \in TagSet
  BY DEF Nop, TagSet
<1>7. mid \in Seq(TagSet) /\ Len(mid) = w /\ \A k \in 1 .. w : mid[k] = Nop
  <2> HIDE DEF w
  <2> QED
    BY <1>5, <1>6
<1>8. us = Spliced(tags, m, mid, r)
  BY <1>0 DEF Nops, Spliced
<1> HIDE DEF m, r, mid, us, w
<1>9. us \in Seq(TagSet) /\ Stretches(tags, us, m, r, w) /\ \A i \in 1 .. w : us[m + i] = Nop
  <2>1. /\ Spliced(tags, m, mid, r) \in Seq(TagSet)
        /\ Stretches(tags, Spliced(tags, m, mid, r), m, r, Len(mid))
        /\ \A i \in 1 .. Len(mid) : Spliced(tags, m, mid, r)[m + i] = mid[i]
    <3>1. mid \in Seq(TagSet) /\ m \in 0 .. Len(tags) /\ r \in m .. Len(tags)
      BY <1>0, <1>7
    <3> QED
      BY <3>1, SplicedIs
  <2> QED
    BY <1>7, <1>8, <2>1
<1>10. SizeOf(us) = SizeOf(tags) - (b[r] - b[m]) + (Bytes(us)[m + w] - Bytes(us)[m])
  BY <1>0, <1>5, <1>9, SizeSpliced
<1>11. m \in 0 .. Len(us) /\ m + w <= Len(us)
  BY <1>0, <1>5, <1>9 DEF Stretches
<1>12. Bytes(us)[m + w] = Bytes(us)[m] + 4 * w
  BY <1>5, <1>9, <1>11, SizeOfNops
<1> DEFINE x == Bytes(us)[m] y == Bytes(us)[m + w] s == SizeOf(tags) d == b[r] - b[m] z == SizeOf(us)
<1>13. x \in Nat /\ s \in Nat
  BY <1>9, <1>11, BytesIs
<1>14. z = s - d + (y - x) /\ y = x + 4 * w /\ d = 4 * w
  BY <1>5, <1>10, <1>12
<1> HIDE DEF x, y, s, d, z
<1>15. z = s
  BY <1>5, <1>13, <1>14
<1> QED
  BY <1>5, <1>9, <1>15 DEF z, s, us, m, r

\* A string that is not found is no tail of one that is there.
LEMMA FindStringIs ==
  ASSUME names \in Seq(Seq(Chars)), NEW s \in Seq(Chars)
  PROVE  /\ FindString(s) \in Int
         /\ FindString(s) < 0 => \A k \in 1 .. Len(names) : ~IsSuffix(s, names[k])
<1> DEFINE K == {k \in DOMAIN names : IsSuffix(s, names[k])}
           places == {StringStart(k) + Len(names[k]) - Len(s) : k \in K}
<1>1. FindString(s) = IF places = {} THEN -1 ELSE Min(places)
  BY DEF FindString
<1>2. ASSUME NEW k \in K PROVE StringStart(k) + Len(names[k]) - Len(s) \in Nat
  <2>1. k \in 1 .. Len(names) /\ names[k] \in Seq(Chars) /\ Len(names) \in Nat /\ IsSuffix(s, names[k])
    OBVIOUS
  <2>2. Len(s) \in Nat /\ Len(names[k]) \in Nat
    BY <2>1
  <2>3. Len(Reverse(s)) = Len(s) /\ Len(Reverse(names[k])) = Len(names[k])
    BY <2>2 DEF Reverse
  <2>4. Len(s) <= Len(names[k])
    BY <2>1, <2>3 DEF IsSuffix, IsPrefix
  <2>5. StringStart(k) \in Nat
    <3>1. StringLens(names) \in Seq(Nat) /\ Len(StringLens(names)) = Len(names)
      BY StringLensIs
    <3>2. Before(StringLens(names)) \in [0 .. Len(names) -> Nat]
      BY <3>1, BeforeIs
    <3>3. k - 1 \in 0 .. Len(names)
      BY <2>1
    <3> QED
      BY <3>2, <3>3 DEF StringStart
  <2> QED
    BY <2>2, <2>4, <2>5
<1>3. places \subseteq Nat
  BY <1>2
<1>4. places # {} => Min(places) \in Nat
  <2> HIDE DEF places
  <2> QED
    BY <1>3, MinIs
<1>5. FindString(s) \in Int
  BY <1>1, <1>4
<1>6. FindString(s) < 0 => places = {}
  <2> HIDE DEF places
  <2> QED
    BY <1>1, <1>4
<1>7. places = {} => K = {}
  <2> HIDE DEF K
  <2> QED
    OBVIOUS
<1> QED
  BY <1>5, <1>6, <1>7

-----------------------------------------------------------------------------
(***************************************************************************)
(* The reserve map.                                                        *)
(***************************************************************************)
\* Entries of a reserve map that has an end.
EndedMap(rs) ==
  /\ rs \in Seq(Entries \cup {"empty"})
  /\ \E i \in 1 .. Len(rs) : rs[i] = "empty"

\* What comes before the first entry of size 0 is counted.
LEMMA NumMemRsvIs ==
  ASSUME EndedMap(rsv)
  PROVE  /\ NumMemRsv \in 0 .. Len(rsv) - 1 /\ rsv[NumMemRsv + 1] = "empty"
         /\ \A i \in 1 .. NumMemRsv : rsv[i] # "empty"
<1> DEFINE I == {i \in 1 .. Len(rsv) : rsv[i] = "empty"}
<1>0. Len(rsv) \in Nat
  BY DEF EndedMap
<1>1. I # {} /\ I \subseteq Nat
  BY <1>0 DEF EndedMap
<1>2. Min(I) \in I /\ \A k \in I : Min(I) <= k
  <2> HIDE DEF I
  <2> QED
    BY <1>1, MinIs
<1>3. NumMemRsv = Min(I) - 1
  BY <1>1 DEF NumMemRsv, SelectInSeq
<1>4. Min(I) \in 1 .. Len(rsv) /\ rsv[Min(I)] = "empty"
  BY <1>2
<1> DEFINE n == Min(I)
<1>5. ASSUME NEW i \in 1 .. n - 1 PROVE rsv[i] # "empty"
  <2>1. i \in 1 .. Len(rsv) /\ ~(n <= i)
    BY <1>0, <1>4
  <2> QED
    BY <1>2, <2>1
<1> HIDE DEF I, n
<1>6. n \in 1 .. Len(rsv) /\ rsv[n] = "empty" /\ NumMemRsv = n - 1
  BY <1>3, <1>4 DEF n
<1>7. NumMemRsv \in 0 .. Len(rsv) - 1 /\ NumMemRsv + 1 = n
  BY <1>0, <1>6
<1> QED
  BY <1>5, <1>6, <1>7

\* A map with an entry more has an end.
LEMMA RangeInserted ==
  ASSUME NEW rs, EndedMap(rs), NEW e \in Entries, NEW i \in 1 .. Len(rs) + 1
  PROVE  EndedMap(InsertAt(rs, i, e)) /\ Len(InsertAt(rs, i, e)) = Len(rs) + 1
<1> DEFINE us == InsertAt(rs, i, e)
           m == i - 1
           T == Entries \cup {"empty"}
<1>0. rs \in Seq(T) /\ e \in T /\ Len(rs) \in Nat
  BY DEF EndedMap
<1>1. us \in Seq(T) /\ Stretches(rs, us, m, m, 1)
  BY <1>0, InsertIsSplice
<1>2. m \in Nat /\ m <= Len(rs)
  BY <1>0
<1>3. PICK k \in 1 .. Len(rs) : rs[k] = "empty"
  BY DEF EndedMap
<1> HIDE DEF us, m
<1>4. Len(us) = Len(rs) + 1
  BY <1>0, <1>1, <1>2 DEF Stretches
<1>5. \E j \in 1 .. Len(us) : us[j] = "empty"
  <2>1. CASE k <= m
    <3>1. k \in 1 .. m /\ k \in 1 .. Len(us)
      BY <1>0, <1>2, <1>4, <2>1
    <3>2. us[k] = rs[k]
      BY <1>1, <3>1 DEF Stretches
    <3> QED
      BY <1>3, <3>1, <3>2
  <2>2. CASE k > m
    <3>1. k - m \in 1 .. Len(rs) - m /\ m + (k - m) = k /\ m + 1 + (k - m) = k + 1 /\ k + 1 \in 1 .. Len(us)
      BY <1>0, <1>2, <1>4, <2>2
    <3> DEFINE j == k - m
    <3>2. j \in 1 .. Len(rs) - m
      BY <3>1
    <3> HIDE DEF j
    <3>3. us[m + 1 + j] = rs[m + j]
      BY <1>1, <3>2 DEF Stretches
    <3>4. us[k + 1] = rs[k]
      BY <3>1, <3>3 DEF j
    <3> QED
      BY <1>3, <3>1, <3>4
  <2> QED
    BY <1>2, <2>1, <2>2
<1> QED
  BY <1>1, <1>4, <1>5 DEF EndedMap, us

\* So has one with an entry less, if that is not its end.
LEMMA RangeRemoved ==
  ASSUME NEW rs, EndedMap(rs), NEW i \in 1 .. Len(rs), rs[i] # "empty"
  PROVE  EndedMap(RemoveAt(rs, i)) /\ Len(RemoveAt(rs, i)) = Len(rs) - 1
<1> DEFINE us == RemoveAt(rs, i)
           m == i - 1
           T == Entries \cup {"empty"}
<1>0. rs \in Seq(T) /\ Len(rs) \in Nat
  BY DEF EndedMap
<1>1. m \in 0 .. Len(rs) /\ i \in m .. Len(rs) /\ m \in Nat
  BY <1>0
<1>2. us = SubSeq(rs, 1, m) \o SubSeq(rs, i + 1, Len(rs))
  BY DEF RemoveAt
<1> HIDE DEF us, m
<1>3. us \in Seq(T) /\ Stretches(rs, us, m, i, 0)
  <2>1. /\ SubSeq(rs, 1, m) \o SubSeq(rs, i + 1, Len(rs)) \in Seq(T)
        /\ Stretches(rs, SubSeq(rs, 1, m) \o SubSeq(rs, i + 1, Len(rs)), m, i, 0)
    BY <1>0, <1>1, CutIsSplice
  <2> QED
    BY <1>2, <2>1
<1>4. PICK k \in 1 .. Len(rs) : rs[k] = "empty"
  BY DEF EndedMap
<1>5. Len(us) = Len(rs) - 1 /\ i = m + 1
  BY <1>0, <1>1, <1>3 DEF Stretches, m
<1>6. \E j \in 1 .. Len(us) : us[j] = "empty"
  <2>1. CASE k < i
    <3>1. k \in 1 .. m /\ k \in 1 .. Len(us)
      BY <1>0, <1>1, <1>5, <2>1
    <3>2. us[k] = rs[k]
      BY <1>3, <3>1 DEF Stretches
    <3> QED
      BY <1>4, <3>1, <3>2
  <2>2. CASE k > i
    <3> DEFINE j == k - i
    <3>1. j \in 1 .. Len(rs) - i /\ i + j = k /\ m + 0 + j = k - 1 /\ k - 1 \in 1 .. Len(us)
      BY <1>0, <1>1, <1>5, <2>2
    <3> HIDE DEF j
    <3>2. us[m + 0 + j] = rs[i + j]
      BY <1>3, <3>1 DEF Stretches
    <3>3. us[k - 1] = rs[k]
      BY <3>1, <3>2
    <3> QED
      BY <1>4, <3>1, <3>3
  <2>3. k # i
    BY <1>4
  <2> QED
    BY <2>1, <2>2, <2>3
<1> QED
  BY <1>3, <1>5, <1>6 DEF EndedMap, us

\* What fdt_pack and fdt_open_into copy has an end.
LEMMA RangesCopied ==
  ASSUME EndedMap(rsv)
  PROVE  EndedMap(SubSeq(rsv, 1, NumMemRsv + 1)) /\ Len(SubSeq(rsv, 1, NumMemRsv + 1)) = NumMemRsv + 1
<1> DEFINE n == NumMemRsv + 1
           us == SubSeq(rsv, 1, n)
           T == Entries \cup {"empty"}
<1>0. rsv \in Seq(T) /\ Len(rsv) \in Nat
  BY DEF EndedMap
<1>1. n \in 1 .. Len(rsv) /\ rsv[n] = "empty"
  BY <1>0, NumMemRsvIs
<1> HIDE DEF n
<1>2. \A i \in 1 .. n : rsv[i] \in T
  BY <1>0, <1>1
<1>3. us \in Seq(T) /\ Len(us) = (IF 1 <= n THEN n - 1 + 1 ELSE 0) /\ \A i \in 1 .. n - 1 + 1 : us[i] = rsv[1 + i - 1]
  BY <1>1, <1>2, SubSeqProperties
<1>4. Len(us) = n /\ us[n] = "empty" /\ n \in 1 .. n
  <2>1. n \in Nat /\ n \in 1 .. n - 1 + 1 /\ 1 + n - 1 = n
    BY <1>1
  <2> HIDE DEF us
  <2>2. us[n] = rsv[1 + n - 1]
    BY <1>3, <2>1
  <2> QED
    BY <1>1, <1>3, <2>1, <2>2
<1> QED
  BY <1>3, <1>4 DEF EndedMap, n

-----------------------------------------------------------------------------
(***************************************************************************)
(* Writable blobs, and the three splices of fdt_rw.c.  The header is       *)
(* adjusted before the bytes move: what it says must be true afterwards.   *)
(***************************************************************************)
\* A header that fdt_open_into has been over: sections in order inside the blob.
GoodHeader(h) ==
  /\ h \in Headers /\ h.version >= 17 /\ h.lastComp <= LastVersion
  /\ ~Misordered(h, EntrySize, h.sizeStruct)

\* What the header says of the sections is true.
Describes(h, rs, ts, ss) ==
  /\ EndedMap(rs) /\ ts \in Seq(TagSet) /\ ss \in Seq(Seq(Chars))
  /\ h.sizeStruct = SizeOf(ts) /\ h.sizeStrings = StringBytes(ss)
  /\ h.offRsv + Len(rs) * EntrySize <= h.offStruct

\* A blob that the calls of fdt_rw.c may edit.
WritableBlob(h, rs, ts, ss) == GoodHeader(h) /\ Describes(h, rs, ts, ss)

\* The words of a header.
LEMMA HeaderFields ==
  ASSUME NEW h \in Headers
  PROVE  /\ h.version \in Nat /\ h.lastComp \in Nat /\ h.cpu \in Int /\ h.offRsv \in Nat
         /\ h.offStruct \in Nat /\ h.sizeStruct \in Nat /\ h.offStrings \in Nat
         /\ h.sizeStrings \in Nat /\ h.total \in Nat
BY DEF Headers

\* The order of the sections, in words.
LEMMA InOrderIs ==
  ASSUME NEW h \in Headers, NEW rsvSize \in Nat, NEW structSize \in Nat
  PROVE  ~Misordered(h, rsvSize, structSize) <=>
           /\ 40 <= h.offRsv /\ h.offRsv + rsvSize <= h.offStruct
           /\ h.offStruct + structSize <= h.offStrings /\ h.offStrings + h.sizeStrings <= h.total
BY HeaderFields DEF Misordered, HeaderSize

\* FDT_RW_CHECK_HEADER lets exactly such headers pass.
LEMMA WritableIs ==
  ASSUME hdr \in Headers
  PROVE  Writable <=> GoodHeader(hdr)
BY HeaderFields DEF Writable, RwError, HeaderError, GoodHeader, FirstVersion, LastVersion

\* The check leaves a blob as good as it was.
LEMMA CheckedIs ==
  ASSUME NEW rs, NEW ts, NEW ss, WritableBlob(hdr, rs, ts, ss)
  PROVE  WritableBlob(Checked, rs, ts, ss)
<1>1. hdr \in Headers
  BY DEF WritableBlob, GoodHeader
<1>2. /\ Checked \in Headers /\ Checked.version = 17 /\ Checked.lastComp = hdr.lastComp
      /\ Checked.offRsv = hdr.offRsv /\ Checked.offStruct = hdr.offStruct
      /\ Checked.sizeStruct = hdr.sizeStruct /\ Checked.offStrings = hdr.offStrings
      /\ Checked.sizeStrings = hdr.sizeStrings /\ Checked.total = hdr.total
  BY <1>1 DEF Checked, Headers
<1>3. GoodHeader(Checked)
  BY <1>1, <1>2, HeaderFields DEF WritableBlob, GoodHeader, Misordered
<1>4. Describes(Checked, rs, ts, ss)
  BY <1>2 DEF WritableBlob, Describes
<1> QED
  BY <1>3, <1>4 DEF WritableBlob

\* The number of entries of a map with an end.
LEMMA EndedLen ==
  ASSUME NEW rs, EndedMap(rs)
  PROVE  Len(rs) \in Nat /\ Len(rs) >= 1
BY DEF EndedMap

\* A splice of the structure section.
LEMMA StructMovedIs ==
  ASSUME NEW h, NEW rs, NEW ts, NEW ss, WritableBlob(h, rs, ts, ss), NEW us \in Seq(TagSet),
         NEW old \in Nat, NEW new \in Nat, NEW at, SpliceError(h, at, old, new) = "ok",
         SizeOf(us) = SizeOf(ts) - old + new
  PROVE  WritableBlob(StructMoved(h, new - old), rs, us, ss)
<1> DEFINE g == StructMoved(h, new - old)
           ver == h.version lc == h.lastComp r == h.offRsv s == h.offStruct n == h.sizeStruct
           t == h.offStrings m == h.sizeStrings
           all == h.total z == SizeOf(us) e == Len(rs)
<1>1. h \in Headers /\ h.version >= 17 /\ h.lastComp <= LastVersion /\ ~Misordered(h, EntrySize, h.sizeStruct)
  BY DEF WritableBlob, GoodHeader
<1>2. r \in Nat /\ s \in Nat /\ n \in Nat /\ t \in Nat /\ m \in Nat /\ all \in Nat
  BY <1>1, HeaderFields
<1>3. 40 <= r /\ r + 16 <= s /\ s + n <= t /\ t + m <= all
  BY <1>1, <1>2, InOrderIs DEF EntrySize
<1>4. n = SizeOf(ts) /\ m = StringBytes(ss) /\ EndedMap(rs) /\ ss \in Seq(Seq(Chars)) /\ r + Len(rs) * EntrySize <= s
  BY DEF WritableBlob, Describes
<1>5. z \in Nat /\ z = n - old + new
  BY <1>4, BytesIs
<1>6. t + m - old + new <= all
  BY <1>2 DEF SpliceError, DataSize
<1> DEFINE t2 == t + (new - old)
           n2 == n + (new - old)
<1>7. n2 = z /\ t2 \in Nat /\ s + z <= t2 /\ t2 + m <= all
  <2> HIDE DEF r, s, n, t, m, all, z
  <2> QED
    BY <1>2, <1>3, <1>5, <1>6
<1>8. g = [h EXCEPT !.sizeStruct = n2, !.offStrings = t2]
  BY DEF StructMoved
<1>9. /\ g \in Headers /\ g.version = h.version /\ g.lastComp = h.lastComp /\ g.offRsv = r /\ g.offStruct = s
      /\ g.sizeStruct = z /\ g.offStrings = t2 /\ g.sizeStrings = m /\ g.total = all
  <2> HIDE DEF g, n2, t2
  <2> QED
    BY <1>1, <1>5, <1>7, <1>8 DEF Headers, n2
<1> HIDE DEF g, t2, n2
<1>10. GoodHeader(g)
  <2>1. ~Misordered(g, EntrySize, g.sizeStruct)
    <3> HIDE DEF r, s, n, t, m, all, z
    <3>1. 40 <= g.offRsv /\ g.offRsv + 16 <= g.offStruct
           /\ g.offStruct + z <= g.offStrings /\ g.offStrings + g.sizeStrings <= g.total
      BY <1>3, <1>7, <1>9
    <3> QED
      BY <1>5, <1>9, <3>1, InOrderIs DEF EntrySize
  <2> QED
    BY <1>1, <1>9, <2>1 DEF GoodHeader
<1>11. Describes(g, rs, us, ss)
  BY <1>4, <1>9 DEF Describes
<1> QED
  BY <1>10, <1>11 DEF WritableBlob, g

\* A string more.
LEMMA StringsMovedIs ==
  ASSUME NEW h, NEW rs, NEW ts, NEW ss, WritableBlob(h, rs, ts, ss), NEW s \in Seq(Chars),
         SpliceError(h, DataSize(h), 0, Len(s) + 1) = "ok"
  PROVE  WritableBlob([h EXCEPT !.sizeStrings = @ + (Len(s) + 1)], rs, ts, Append(ss, s))
<1> DEFINE g == [h EXCEPT !.sizeStrings = @ + (Len(s) + 1)]
           l == Len(s) + 1
           m == h.sizeStrings
           m2 == m + l
<1>1. h \in Headers /\ h.version >= 17 /\ h.lastComp <= LastVersion /\ ~Misordered(h, EntrySize, h.sizeStruct)
  BY DEF WritableBlob, GoodHeader
<1>2. ss \in Seq(Seq(Chars)) /\ m = StringBytes(ss)
  BY DEF WritableBlob, Describes
<1>3. m \in Nat /\ l \in Nat /\ m2 \in Nat /\ h.offStrings \in Nat /\ h.total \in Nat
  BY <1>1, HeaderFields
<1>4. Append(ss, s) \in Seq(Seq(Chars)) /\ StringBytes(Append(ss, s)) = m2
  BY <1>2, <1>3, StringAppended
<1>5. h.offStrings + m2 <= h.total
  BY <1>3 DEF SpliceError, DataSize
<1>6. g = [h EXCEPT !.sizeStrings = m2]
  OBVIOUS
<1>7. /\ g \in Headers /\ g.version = h.version /\ g.lastComp = h.lastComp /\ g.offRsv = h.offRsv
      /\ g.offStruct = h.offStruct /\ g.sizeStruct = h.sizeStruct /\ g.offStrings = h.offStrings
      /\ g.sizeStrings = m2 /\ g.total = h.total
  <2> HIDE DEF g, m2
  <2> QED
    BY <1>1, <1>3, <1>6 DEF Headers
<1> HIDE DEF g, m2
<1>8. ~Misordered(g, EntrySize, g.sizeStruct)
  BY <1>1, <1>5, <1>7, HeaderFields DEF Misordered
<1>9. GoodHeader(g)
  BY <1>1, <1>7, <1>8 DEF GoodHeader
<1>10. Describes(g, rs, ts, Append(ss, s))
  BY <1>4, <1>7 DEF WritableBlob, Describes
<1> QED
  BY <1>9, <1>10 DEF WritableBlob, g

\* A splice of the reserve map.
LEMMA RsvMovedIs ==
  ASSUME NEW h, NEW rs, NEW ts, NEW ss, WritableBlob(h, rs, ts, ss), NEW us, EndedMap(us),
         NEW oldn \in Nat, NEW newn \in Nat, Len(us) = Len(rs) - oldn + newn, NEW at,
         SpliceError(h, at, oldn * EntrySize, newn * EntrySize) = "ok"
  PROVE  WritableBlob(RsvMoved(h, (newn - oldn) * EntrySize), us, ts, ss)
<1> DEFINE g == RsvMoved(h, (newn - oldn) * EntrySize)
           r == h.offRsv s == h.offStruct n == h.sizeStruct t == h.offStrings m == h.sizeStrings
           all == h.total d == (newn - oldn) * EntrySize e == Len(rs) f == Len(us)
<1>1. h \in Headers /\ h.version >= 17 /\ h.lastComp <= LastVersion /\ ~Misordered(h, EntrySize, h.sizeStruct)
  BY DEF WritableBlob, GoodHeader
<1>2. r \in Nat /\ s \in Nat /\ n \in Nat /\ t \in Nat /\ m \in Nat /\ all \in Nat
  BY <1>1, HeaderFields
<1>3. 40 <= r /\ r + 16 <= s /\ s + n <= t /\ t + m <= all
  BY <1>1, <1>2, InOrderIs DEF EntrySize
<1>4. EndedMap(rs) /\ r + e * 16 <= s
  BY DEF WritableBlob, Describes, EntrySize
<1>5. e \in Nat /\ f \in Nat /\ f >= 1 /\ f = e - oldn + newn
  BY <1>4, EndedLen
<1>6. d = newn * 16 - oldn * 16
  BY DEF EntrySize
<1>7. t + m - oldn * 16 + newn * 16 <= all
  BY <1>2 DEF SpliceError, DataSize, EntrySize
<1> DEFINE t2 == t + d
           s2 == s + d
<1>8. r + f * 16 <= s2 /\ r + 16 <= s2 /\ s2 + n <= t2 /\ t2 + m <= all /\ s2 \in Nat /\ t2 \in Nat
  <2> HIDE DEF r, s, n, t, m, all, d, e, f
  <2>1. r + f * 16 <= s2 /\ d \in Int
    BY <1>2, <1>4, <1>5, <1>6
  <2>2. r + 16 <= s2
    BY <1>2, <1>5, <1>6, <2>1
  <2>3. s2 \in Nat
    BY <1>2, <2>1, <2>2
  <2>4. s2 + n <= t2
    BY <1>2, <1>3, <2>1
  <2>5. t2 \in Nat
    BY <1>2, <2>1, <2>3, <2>4
  <2>6. t2 + m <= all
    BY <1>2, <1>6, <1>7, <2>1
  <2> QED
    BY <2>1, <2>2, <2>3, <2>4, <2>5, <2>6
<1>9. g = [h EXCEPT !.offStruct = s2, !.offStrings = t2]
  BY DEF RsvMoved
<1>10. /\ g \in Headers /\ g.version = h.version /\ g.lastComp = h.lastComp /\ g.offRsv = r /\ g.offStruct = s2
      /\ g.sizeStruct = n /\ g.offStrings = t2 /\ g.sizeStrings = m /\ g.total = all
  <2> HIDE DEF g, s2, t2
  <2> QED
    BY <1>1, <1>8, <1>9 DEF Headers
<1> HIDE DEF g, t2, s2
<1>11. GoodHeader(g)
  <2>1. ~Misordered(g, EntrySize, g.sizeStruct)
    <3> HIDE DEF r, s, n, t, m, all
    <3>1. 40 <= g.offRsv /\ g.offRsv + 16 <= g.offStruct
           /\ g.offStruct + n <= g.offStrings /\ g.offStrings + g.sizeStrings <= g.total
      BY <1>3, <1>8, <1>10
    <3> QED
      BY <1>2, <1>10, <3>1, InOrderIs DEF EntrySize
  <2> QED
    BY <1>1, <1>10, <2>1 DEF GoodHeader
<1>12. Describes(g, us, ts, ss)
  <2>1. g.offRsv + Len(us) * EntrySize <= g.offStruct
    BY <1>8, <1>10 DEF EntrySize
  <2> QED
    BY <1>10, <2>1 DEF Describes, WritableBlob
<1> QED
  BY <1>11, <1>12 DEF WritableBlob, g

-----------------------------------------------------------------------------
(***************************************************************************)
(* The calls of fdt_rw.c, each on a writable blob.                         *)
(***************************************************************************)
\* The arguments of a call are those a caller may give.
CallOK(c) ==
  /\ c.op \in {"setprop", "appendprop", "setprop_inplace"} => c.name \in PropNames /\ c.val \in Values
  /\ c.op \in {"set_name", "add_subnode"} => c.name \in NodeNames
  /\ c.op = "add_mem_rsv" => c.range \in Entries
  /\ c.op = "del_mem_rsv" => c.n \in 0 .. 1
  /\ c.op = "open_into" => c.size \in BufSizes

\* After a step the blob is writable, and the next call one that may be made.
Kept == WritableBlob(hdr', rsv', tags', names') /\ CallOK(call')

\* No call, no arguments.
LEMMA IdleOK == CallOK([op |-> "idle"])
BY DEF CallOK

\* A call that is refused leaves the blob.
LEMMA RefuseKeeps ==
  ASSUME WritableBlob(hdr, rsv, tags, names), NEW e, RwRefuse(e) \/ Refuse(e)
  PROVE  Kept
<1>1. CASE RwRefuse(e)
  <2>1. hdr' = Checked /\ rsv' = rsv /\ tags' = tags /\ names' = names /\ call' = [op |-> "idle"]
    BY <1>1 DEF RwRefuse, Return
  <2>2. WritableBlob(Checked, rsv, tags, names)
    BY CheckedIs
  <2> QED
    BY <2>1, <2>2, IdleOK DEF Kept
<1>2. CASE Refuse(e)
  <2>1. hdr' = hdr /\ rsv' = rsv /\ tags' = tags /\ names' = names /\ call' = [op |-> "idle"]
    BY <1>2 DEF Refuse, Return, Unchanged
  <2> QED
    BY <2>1, IdleOK DEF Kept
<1> QED
  BY <1>1, <1>2

\* A splice of the structure section that changes its length as it says.
LEMMA SpliceStructKeeps ==
  ASSUME NEW h, NEW ss, WritableBlob(h, rsv, tags, ss), NEW offset, NEW old \in Nat, NEW new \in Nat,
         NEW us \in Seq(TagSet), SizeOf(us) = SizeOf(tags) - old + new,
         SpliceStruct(h, offset, old, new, us), names' = ss
  PROVE  Kept
<1> DEFINE e == SpliceError(h, h.offStruct + offset, old, new)
<1>1. /\ hdr' = IF e = "ok" THEN StructMoved(h, new - old) ELSE h
      /\ tags' = IF e = "ok" THEN us ELSE tags
      /\ rsv' = rsv /\ call' = [op |-> "idle"]
  BY DEF SpliceStruct, Return
<1>2. CASE e = "ok"
  <2>1. WritableBlob(StructMoved(h, new - old), rsv, us, ss)
    BY <1>2, StructMovedIs
  <2> QED
    BY <1>1, <1>2, <2>1, IdleOK DEF Kept
<1>3. CASE e # "ok"
  BY <1>1, <1>3, IdleOK DEF Kept
<1> QED
  BY <1>2, <1>3

\* A property with other data is another property of its length.
LEMMA WithDataIs ==
  ASSUME tags \in Seq(TagSet), NEW i \in 1 .. Len(tags), tags[i].tag = "prop", NEW data \in Seq(Chars)
  PROVE  /\ WithData(i, data) \in Seq(TagSet) /\ Len(WithData(i, data)) = Len(tags)
         /\ WithData(i, data)[i].tag = "prop"
         /\ \A j \in 1 .. Len(tags) : j # i => WithData(i, data)[j] = tags[j]
         /\ TagAlign(Len(tags[i].data)) \in Nat /\ TagAlign(Len(data)) \in Nat
         /\ SizeOf(WithData(i, data)) = SizeOf(tags) - TagAlign(Len(tags[i].data)) + TagAlign(Len(data))
<1> DEFINE t == [tags[i] EXCEPT !.data = data]
           us == [tags EXCEPT ![i] = t]
<1>1. tags[i] \in TagSet
  OBVIOUS
<1>2. tags[i] \in [tag : {"prop"}, nameoff : Int, data : Seq(Chars)]
  BY <1>1 DEF TagSet
<1>3. t \in TagSet /\ t.tag = "prop" /\ t.data = data
  BY <1>2 DEF TagSet
<1>4. WithData(i, data) = us
  BY DEF WithData
<1>5. Len(tags[i].data) \in Nat /\ Len(data) \in Nat
  BY <1>2
<1>6. TagAlign(Len(tags[i].data)) \in Nat /\ TagAlign(Len(data)) \in Nat
  BY <1>5, TagAlignIs
<1>7. TagLen(tags[i]) = 12 + TagAlign(Len(tags[i].data)) /\ TagLen(t) = 12 + TagAlign(Len(data))
  BY <1>3 DEF TagLen
<1> HIDE DEF t
<1>8. us \in Seq(TagSet) /\ Len(us) = Len(tags) /\ \A j \in 1 .. Len(tags) : us[j] = IF j = i THEN t ELSE tags[j]
  BY <1>3, ExceptSeq
<1>9. SizeOf(us) = SizeOf(tags) - TagLen(tags[i]) + TagLen(t) /\ SizeOf(tags) \in Nat
  BY <1>3, SizeReplaced, BytesIs
<1> DEFINE a == TagAlign(Len(tags[i].data)) b == TagAlign(Len(data)) s == SizeOf(tags) z == SizeOf(us)
<1>10. z = s - (12 + a) + (12 + b) /\ a \in Nat /\ b \in Nat /\ s \in Nat
  BY <1>6, <1>7, <1>9
<1> HIDE DEF a, b, s, z
<1>11. z = s - a + b
  BY <1>10
<1>12. SizeOf(WithData(i, data)) = SizeOf(tags) - TagAlign(Len(tags[i].data)) + TagAlign(Len(data))
  BY <1>4, <1>11 DEF a, b, s, z
<1> HIDE DEF us
<1>13. us[i] = t
  BY <1>8
<1> QED
  BY <1>3, <1>4, <1>6, <1>8, <1>12, <1>13

\* _fdt_resize_property
LEMMA ResizeKeeps ==
  ASSUME WritableBlob(hdr, rsv, tags, names), NEW i \in 1 .. Len(tags), tags[i].tag = "prop",
         NEW data \in Seq(Chars), ResizeProperty(i, data), names' = names
  PROVE  Kept
<1>1. WritableBlob(Checked, rsv, tags, names) /\ tags \in Seq(TagSet)
  BY CheckedIs DEF WritableBlob, Describes
<1>2. /\ WithData(i, data) \in Seq(TagSet)
      /\ TagAlign(Len(tags[i].data)) \in Nat /\ TagAlign(Len(data)) \in Nat
      /\ SizeOf(WithData(i, data)) = SizeOf(tags) - TagAlign(Len(tags[i].data)) + TagAlign(Len(data))
  BY <1>1, WithDataIs
<1>3. SpliceStruct(Checked, OffsetOf(i) + 12, TagAlign(Len(tags[i].data)), TagAlign(Len(data)), WithData(i, data))
  BY DEF ResizeProperty
<1> QED
  BY <1>1, <1>2, <1>3, SpliceStructKeeps

\* _fdt_add_property
LEMMA AddPropertyKeeps ==
  ASSUME WritableBlob(hdr, rsv, tags, names), NEW i \in 0 .. Len(tags), NEW name \in Seq(Chars),
         NEW data \in Seq(Chars), AddProperty(i, name, data)
  PROVE  Kept
<1> DEFINE place == FindString(name)
           len == Len(name) + 1
           nameoff == IF place >= 0 THEN place ELSE hdr.sizeStrings
           e == IF place >= 0 THEN "ok" ELSE SpliceError(Checked, DataSize(hdr), 0, len)
           h == IF place >= 0 THEN Checked ELSE [Checked EXCEPT !.sizeStrings = @ + len]
           new == Prop(nameoff, data)
           us == InsertAt(tags, i + 1, new)
           ss == IF place >= 0 THEN names ELSE Append(names, name)
<1>1. CASE i = 0
  <2>1. RwRefuse("BADOFFSET")
    BY <1>1 DEF AddProperty
  <2> QED
    BY <2>1, RefuseKeeps
<1>2. CASE i > 0 /\ e # "ok"
  <2>1. RwRefuse(e)
    BY <1>2 DEF AddProperty
  <2> HIDE DEF e
  <2> QED
    BY <2>1, RefuseKeeps
<1>3. CASE i > 0 /\ e = "ok"
  <2>1. names' = ss /\ SpliceStruct(h, OffsetOf(i + 1), 0, TagLen(new), us)
    BY <1>3 DEF AddProperty
  <2>2. WritableBlob(Checked, rsv, tags, names)
    BY CheckedIs
  <2>3. hdr \in Headers /\ tags \in Seq(TagSet) /\ names \in Seq(Seq(Chars))
    BY DEF WritableBlob, GoodHeader, Describes
  <2>4. place \in Int
    BY <2>3, FindStringIs
  <2>5. DataSize(Checked) = DataSize(hdr)
    BY <2>3 DEF DataSize, Checked, Headers
  <2>6. WritableBlob(h, rsv, tags, ss)
    <3>1. CASE place >= 0
      BY <2>2, <3>1
    <3>2. CASE ~(place >= 0)
      <4>1. SpliceError(Checked, DataSize(Checked), 0, Len(name) + 1) = "ok"
        BY <1>3, <2>5, <3>2
      <4> QED
        BY <2>2, <3>2, <4>1, StringsMovedIs
    <3> QED
      BY <3>1, <3>2
  <2>7. nameoff \in Int
    BY <2>3, <2>4, HeaderFields
  <2>8. new \in TagSet
    <3> HIDE DEF nameoff
    <3> QED
      BY <2>7 DEF Prop, TagSet
  <2>9. i + 1 \in 1 .. Len(tags) + 1
    BY <1>3, <2>3
  <2> HIDE DEF new
  <2>10. us \in Seq(TagSet) /\ SizeOf(us) = SizeOf(tags) + TagLen(new)
    BY <2>3, <2>8, <2>9, SizeInserted
  <2>11. TagLen(new) \in Nat /\ SizeOf(tags) \in Nat
    BY <2>3, <2>8, TagLenIs, BytesIs
  <2>12. SizeOf(us) = SizeOf(tags) - 0 + TagLen(new)
    BY <2>10, <2>11
  <2> HIDE DEF us, h, ss
  <2> QED
    BY <2>1, <2>6, <2>10, <2>11, <2>12, SpliceStructKeeps
<1> QED
  BY <1>1, <1>2, <1>3

\* A writable blob, and a call of a caller on it.
Given == WritableBlob(hdr, rsv, tags, names) /\ CallOK(call)

\* The parts of it, and what node and property a call is about.
LEMMA GivenIs ==
  ASSUME Given
  PROVE  /\ hdr \in Headers /\ tags \in Seq(TagSet) /\ names \in Seq(Seq(Chars)) /\ EndedMap(rsv)
         /\ WritableBlob(hdr, rsv, tags, names) /\ Len(tags) \in Nat
         /\ Node \in 0 .. Len(tags)
         /\ Node > 0 => tags[Node].tag = "begin" /\ Bytes(tags)[Node - 1] = call.offset
         /\ Property.err = "ok" =>
              Node > 0 /\ Property.at \in Node + 1 .. Len(tags) /\ tags[Property.at].tag = "prop"
<1>1. hdr \in Headers /\ tags \in Seq(TagSet) /\ names \in Seq(Seq(Chars)) /\ EndedMap(rsv)
  BY DEF Given, WritableBlob, GoodHeader, Describes
<1>2. Node \in 0 .. Len(tags) /\ (Node > 0 => tags[Node].tag = "begin" /\ Bytes(tags)[Node - 1] = call.offset)
  BY <1>1, NodeAtIs DEF Node
<1>3. Property.err = "ok" =>
        Node > 0 /\ Property.at \in Node + 1 .. Len(tags) /\ tags[Property.at].tag = "prop"
  <2>1. Property = GetProperty(Node, call.name)
    BY DEF Property
  <2> HIDE DEF Property, Node
  <2> QED
    BY <1>1, <1>2, <2>1, PropertyIs
<1>4. Len(tags) \in Nat
  BY <1>1
<1> QED
  BY <1>1, <1>2, <1>3, <1>4 DEF Given

\* The arguments of the call that is made.
LEMMA ArgumentsAre ==
  ASSUME Given
  PROVE  /\ call.op \in {"setprop", "appendprop", "setprop_inplace"} =>
              call.name \in Seq(Chars) /\ call.val \in Seq(Chars)
         /\ call.op \in {"set_name", "add_subnode"} => call.name \in Seq(Chars)
         /\ call.op = "add_mem_rsv" => call.range \in Entries
         /\ call.op = "del_mem_rsv" => call.n \in Nat
         /\ call.op = "open_into" => call.size \in Nat
<1>1. ASSUME call.op \in {"setprop", "appendprop", "setprop_inplace"}
      PROVE  call.name \in Seq(Chars) /\ call.val \in Seq(Chars)
  <2>1. call.name \in PropNames /\ call.val \in Values
    BY <1>1 DEF Given, CallOK
  <2> QED
    BY <2>1, ArgumentsAssumption DEF ArgumentsAssumption
<1>2. ASSUME call.op \in {"set_name", "add_subnode"} PROVE call.name \in Seq(Chars)
  <2>1. call.name \in NodeNames
    BY <1>2 DEF Given, CallOK
  <2> QED
    BY <2>1, ArgumentsAssumption DEF ArgumentsAssumption
<1>3. call.op = "add_mem_rsv" => call.range \in Entries
  BY DEF Given, CallOK
<1>4. call.op = "del_mem_rsv" => call.n \in Nat
  BY DEF Given, CallOK
<1>5. call.op = "open_into" => call.size \in Nat
  BY ArgumentsAssumption DEF Given, CallOK, ArgumentsAssumption
<1> QED
  BY <1>1, <1>2, <1>3, <1>4, <1>5

\* fdt_setprop
LEMMA SetPropKeeps == ASSUME Given, SetProp PROVE Kept
<1>1. call.name \in Seq(Chars) /\ call.val \in Seq(Chars)
  <2>1. call.op = "setprop"
    BY DEF SetProp, Making
  <2> QED
    BY <2>1, ArgumentsAre
<1>2. CASE Property.err = "ok"
  <2>1. ResizeProperty(Property.at, call.val) /\ names' = names
    BY <1>2 DEF SetProp
  <2>2. Property.at \in 1 .. Len(tags) /\ tags[Property.at].tag = "prop"
    BY <1>2, GivenIs
  <2> QED
    BY <1>1, <2>1, <2>2, GivenIs, ResizeKeeps
<1>3. CASE Property.err = "NOTFOUND"
  <2>1. AddProperty(Node, call.name, call.val)
    BY <1>3 DEF SetProp
  <2> QED
    BY <1>1, <2>1, GivenIs, AddPropertyKeeps
<1>4. CASE Property.err \notin {"ok", "NOTFOUND"}
  <2>1. RwRefuse(Property.err)
    BY <1>4 DEF SetProp
  <2> QED
    BY <2>1, GivenIs, RefuseKeeps
<1> QED
  BY <1>2, <1>3, <1>4

\* fdt_appendprop
LEMMA AppendPropKeeps == ASSUME Given, AppendProp PROVE Kept
<1>1. call.name \in Seq(Chars) /\ call.val \in Seq(Chars)
  <2>1. call.op = "appendprop"
    BY DEF AppendProp, Making
  <2> QED
    BY <2>1, ArgumentsAre
<1>2. CASE Property.err = "ok"
  <2>1. ResizeProperty(Property.at, tags[Property.at].data \o call.val) /\ names' = names
    BY <1>2 DEF AppendProp
  <2>2. Property.at \in 1 .. Len(tags) /\ tags[Property.at].tag = "prop"
    BY <1>2, GivenIs
  <2>3. tags[Property.at] \in TagSet
    BY <2>2, GivenIs
  <2>4. tags[Property.at].data \in Seq(Chars)
    BY <2>2, <2>3, TagFields
  <2>5. tags[Property.at].data \o call.val \in Seq(Chars)
    BY <1>1, <2>4, ConcatProperties
  <2> QED
    BY <2>1, <2>2, <2>5, GivenIs, ResizeKeeps
<1>3. CASE Property.err # "ok"
  <2>1. AddProperty(Node, call.name, call.val)
    BY <1>3 DEF AppendProp
  <2> QED
    BY <1>1, <2>1, GivenIs, AddPropertyKeeps
<1> QED
  BY <1>2, <1>3

\* fdt_delprop
LEMMA DelPropKeeps == ASSUME Given, DelProp PROVE Kept
<1>1. CASE Property.err = "ok"
  <2> DEFINE i == Property.at
             us == RemoveAt(tags, i)
             l == TagLen(tags[i])
  <2>1. SpliceStruct(Checked, OffsetOf(i), l, 0, us) /\ names' = names
    BY <1>1 DEF DelProp
  <2>2. i \in 1 .. Len(tags) /\ tags \in Seq(TagSet) /\ tags[i] \in TagSet
    BY <1>1, GivenIs
  <2> HIDE DEF i
  <2>3. us \in Seq(TagSet) /\ SizeOf(us) = SizeOf(tags) - l
    BY <2>2, SizeRemoved
  <2>4. l \in Nat /\ SizeOf(tags) \in Nat
    BY <2>2, TagLenIs, BytesIs
  <2> HIDE DEF us, l
  <2>5. SizeOf(us) = SizeOf(tags) - l + 0
    BY <2>3, <2>4
  <2>6. WritableBlob(Checked, rsv, tags, names)
    BY GivenIs, CheckedIs
  <2> QED
    BY <2>1, <2>3, <2>4, <2>5, <2>6, SpliceStructKeeps
<1>2. CASE Property.err # "ok"
  <2>1. RwRefuse(Property.err)
    BY <1>2 DEF DelProp
  <2> QED
    BY <2>1, GivenIs, RefuseKeeps
<1> QED
  BY <1>1, <1>2

\* fdt_set_name
LEMMA SetNameKeeps == ASSUME Given, SetName PROVE Kept
<1>1. call.name \in Seq(Chars)
  <2>1. call.op = "set_name"
    BY DEF SetName, Making
  <2> QED
    BY <2>1, ArgumentsAre
<1>2. CASE Node = 0
  <2>1. RwRefuse("BADOFFSET")
    BY <1>2 DEF SetName
  <2> QED
    BY <2>1, GivenIs, RefuseKeeps
<1>3. CASE Node > 0
  <2> DEFINE i == Node
             t == [tags[i] EXCEPT !.name = call.name]
             us == [tags EXCEPT ![i] = t]
             old == TagAlign(Len(tags[i].name) + 1)
             new == TagAlign(Len(call.name) + 1)
  <2>1. SpliceStruct(Checked, call.offset + 4, old, new, us) /\ names' = names
    BY <1>3 DEF SetName
  <2>2. i \in 1 .. Len(tags) /\ tags \in Seq(TagSet) /\ tags[i] \in TagSet /\ tags[i].tag = "begin"
    BY <1>3, GivenIs
  <2> HIDE DEF i
  <2>3. tags[i] \in [tag : {"begin"}, name : Seq(Chars)]
    BY <2>2 DEF TagSet
  <2>4. t \in TagSet /\ t.tag = "begin" /\ t.name = call.name
    BY <1>1, <2>3 DEF TagSet
  <2>5. Len(tags[i].name) + 1 \in Nat /\ Len(call.name) + 1 \in Nat
    BY <1>1, <2>3
  <2>6. old \in Nat /\ new \in Nat
    BY <2>5, TagAlignIs
  <2>7. TagLen(tags[i]) = 4 + old /\ TagLen(t) = 4 + new
    BY <2>2, <2>4 DEF TagLen
  <2> HIDE DEF t
  <2>8. us \in Seq(TagSet) /\ SizeOf(us) = SizeOf(tags) - TagLen(tags[i]) + TagLen(t) /\ SizeOf(tags) \in Nat
    BY <2>2, <2>4, SizeReplaced, BytesIs
  <2> HIDE DEF us, old, new
  <2>9. SizeOf(us) = SizeOf(tags) - old + new
    BY <2>6, <2>7, <2>8
  <2>10. WritableBlob(Checked, rsv, tags, names)
    BY GivenIs, CheckedIs
  <2> QED
    BY <2>1, <2>6, <2>8, <2>9, <2>10, SpliceStructKeeps
<1> QED
  BY <1>2, <1>3, GivenIs

\* fdt_add_subnode
LEMMA AddSubnodeKeeps == ASSUME Given, AddSubnode PROVE Kept
<1> DEFINE twin == Subnode(Node, call.name)
           i == AfterProps(Node)
           len == 4 + TagAlign(Len(call.name) + 1) + 4
           t == Begin(call.name)
           us == SubSeq(tags, 1, i - 1) \o <<t, EndNode>> \o SubSeq(tags, i, Len(tags))
<1>1. call.name \in Seq(Chars)
  <2>1. call.op = "add_subnode"
    BY DEF AddSubnode, Making
  <2> QED
    BY <2>1, ArgumentsAre
<1>2. CASE twin.err = "NOTFOUND"
  <2>1. SpliceStruct(Checked, OffsetOf(i), 0, len, us) /\ names' = names
    BY <1>2 DEF AddSubnode
  <2>2. Node # 0
    BY <1>2 DEF Subnode, Missing, HeaderError
  <2>3. tags \in Seq(TagSet) /\ Node \in 1 .. Len(tags) /\ Len(tags) \in Nat
    BY <2>2, GivenIs
  <2>4. i \in Node + 1 .. Len(tags) + 1
    BY <2>3, AfterPropsIs
  <2>5. i \in 1 .. Len(tags) + 1
    BY <2>3, <2>4
  <2> HIDE DEF i
  <2>6. t \in TagSet /\ EndNode \in TagSet
    BY <1>1 DEF Begin, EndNode, TagSet
  <2>7. TagLen(t) = 4 + TagAlign(Len(call.name) + 1) /\ TagLen(EndNode) = 4
    BY DEF TagLen, Begin, EndNode
  <2> HIDE DEF t
  <2>8. us \in Seq(TagSet) /\ SizeOf(us) = SizeOf(tags) + (TagLen(t) + TagLen(EndNode)) /\ SizeOf(tags) \in Nat
    BY <2>3, <2>5, <2>6, SizeTwoMore, BytesIs
  <2>9. TagAlign(Len(call.name) + 1) \in Nat
    <3>1. Len(call.name) + 1 \in Nat
      BY <1>1
    <3> QED
      BY <3>1, TagAlignIs
  <2>10. len \in Nat
    BY <2>9
  <2> HIDE DEF us
  <2>11. SizeOf(us) = SizeOf(tags) - 0 + len
    BY <2>7, <2>8, <2>9
  <2>12. WritableBlob(Checked, rsv, tags, names)
    BY GivenIs, CheckedIs
  <2> HIDE DEF len
  <2> QED
    BY <2>1, <2>8, <2>10, <2>11, <2>12, SpliceStructKeeps
<1>3. CASE twin.err # "NOTFOUND"
  <2>1. RwRefuse("EXISTS") \/ RwRefuse(twin.err)
    BY <1>3 DEF AddSubnode
  <2> HIDE DEF twin
  <2> QED
    BY <2>1, GivenIs, RefuseKeeps
<1> QED
  BY <1>2, <1>3

\* fdt_del_node
LEMMA DelNodeKeeps == ASSUME Given, DelNode PROVE Kept
<1> DEFINE end == NodeEnd(Node)
           us == Cut(Node, end.at)
           old == OffsetOf(end.at) - call.offset
<1>1. CASE end.err = "ok"
  <2>1. SpliceStruct(Checked, call.offset, old, 0, us) /\ names' = names
    BY <1>1 DEF DelNode
  <2>2. tags \in Seq(TagSet) /\ Node \in 0 .. Len(tags) /\ Len(tags) \in Nat /\ (Node > 0 => tags[Node].tag = "begin")
    BY GivenIs
  <2> DEFINE n == Node
             m == n - 1
             r == end.at - 1
  <2>3. n > 0 /\ end.at \in n + 1 .. Len(tags) + 1
    <3>1. n = Node
      OBVIOUS
    <3> DEFINE e == end
    <3>2. e = NodeEnd(n)
      OBVIOUS
    <3> HIDE DEF n, e
    <3>3. n \in 0 .. Len(tags) /\ (n > 0 => tags[n].tag = "begin") /\ e.err = "ok"
      BY <1>1, <2>2, <3>1 DEF e
    <3>4. n > 0 /\ e.at \in n + 1 .. Len(tags) + 1
      BY <2>2, <3>2, <3>3, NodeEndIs
    <3> QED
      BY <3>4 DEF e
  <2>4. Bytes(tags)[n - 1] = call.offset
    BY <2>3, GivenIs
  <2> HIDE DEF end, n
  <2>5. m \in 0 .. Len(tags) /\ r \in m .. Len(tags) /\ r \in 0 .. Len(tags) /\ r + 1 = end.at
    BY <2>2, <2>3 DEF n
  <2>6. us = SubSeq(tags, 1, m) \o SubSeq(tags, r + 1, Len(tags))
    BY <2>5 DEF Cut, n
  <2>7. old = Bytes(tags)[r] - Bytes(tags)[m]
    BY <2>4 DEF OffsetOf, Bytes
  <2> HIDE DEF us, old, m, r
  <2>8. us \in Seq(TagSet) /\ SizeOf(us) = SizeOf(tags) - (Bytes(tags)[r] - Bytes(tags)[m]) /\ SizeOf(tags) \in Nat
    BY <2>2, <2>5, <2>6, SizeCut, BytesIs
  <2>9. Bytes(tags)[m] <= Bytes(tags)[r] /\ Bytes(tags)[m] \in Nat /\ Bytes(tags)[r] \in Nat
    BY <2>2, <2>5, BytesGrow, BytesIs
  <2>10. old \in Nat
    BY <2>7, <2>9
  <2>11. SizeOf(us) = SizeOf(tags) - old + 0
    BY <2>7, <2>8, <2>10
  <2>12. WritableBlob(Checked, rsv, tags, names)
    BY GivenIs, CheckedIs
  <2> QED
    BY <2>1, <2>8, <2>10, <2>11, <2>12, SpliceStructKeeps
<1>2. CASE end.err # "ok"
  <2>1. RwRefuse(end.err)
    BY <1>2 DEF DelNode
  <2> HIDE DEF end
  <2> QED
    BY <2>1, GivenIs, RefuseKeeps
<1> QED
  BY <1>1, <1>2

\* A splice of the reserve map.
LEMMA SpliceRsvKeeps ==
  ASSUME Given, NEW n, NEW oldn \in Nat, NEW newn \in Nat, NEW es, EndedMap(es),
         Len(es) = Len(rsv) - oldn + newn, SpliceRsv(n, oldn, newn, es)
  PROVE  Kept
<1> DEFINE at == hdr.offRsv + n * EntrySize
           e == SpliceError(Checked, at, oldn * EntrySize, newn * EntrySize)
<1>1. /\ hdr' = IF e = "ok" THEN RsvMoved(Checked, (newn - oldn) * EntrySize) ELSE Checked
      /\ rsv' = IF e = "ok" THEN es ELSE rsv
      /\ tags' = tags /\ names' = names /\ call' = [op |-> "idle"]
  BY DEF SpliceRsv, Return
<1>2. WritableBlob(Checked, rsv, tags, names)
  BY GivenIs, CheckedIs
<1>3. CASE e = "ok"
  <2> HIDE DEF at
  <2>1. WritableBlob(RsvMoved(Checked, (newn - oldn) * EntrySize), es, tags, names)
    BY <1>2, <1>3, RsvMovedIs
  <2> QED
    BY <1>1, <1>3, <2>1, IdleOK DEF Kept
<1>4. CASE e # "ok"
  <2> HIDE DEF at, e
  <2>1. hdr' = Checked /\ rsv' = rsv /\ tags' = tags /\ names' = names /\ call' = [op |-> "idle"]
    BY <1>1, <1>4
  <2> QED
    BY <1>2, <2>1, IdleOK DEF Kept
<1> QED
  BY <1>3, <1>4

\* fdt_add_mem_rsv
LEMMA AddMemRsvKeeps == ASSUME Given, AddMemRsv PROVE Kept
<1> DEFINE i == NumMemRsv + 1
           es == InsertAt(rsv, i, call.range)
<1>1. SpliceRsv(NumMemRsv, 0, 1, es)
  BY DEF AddMemRsv
<1>2. call.range \in Entries
  <2>1. call.op = "add_mem_rsv"
    BY DEF AddMemRsv, Making
  <2> QED
    BY <2>1, ArgumentsAre
<1>3. EndedMap(rsv) /\ NumMemRsv \in 0 .. Len(rsv) - 1 /\ Len(rsv) \in Nat
  BY GivenIs, NumMemRsvIs, EndedLen
<1>4. i \in 1 .. Len(rsv) + 1
  BY <1>3
<1> HIDE DEF i
<1>5. EndedMap(es) /\ Len(es) = Len(rsv) + 1
  BY <1>2, <1>3, <1>4, RangeInserted
<1> HIDE DEF es
<1>6. Len(es) = Len(rsv) - 0 + 1
  BY <1>3, <1>5
<1> QED
  BY <1>1, <1>5, <1>6, SpliceRsvKeeps

\* fdt_del_mem_rsv
LEMMA DelMemRsvKeeps == ASSUME Given, DelMemRsv PROVE Kept
<1> DEFINE i == call.n + 1
           es == RemoveAt(rsv, i)
<1>1. CASE call.n >= NumMemRsv
  <2>1. RwRefuse("NOTFOUND")
    BY <1>1 DEF DelMemRsv
  <2> QED
    BY <2>1, GivenIs, RefuseKeeps
<1>2. CASE ~(call.n >= NumMemRsv)
  <2>1. SpliceRsv(call.n, 1, 0, es)
    BY <1>2 DEF DelMemRsv
  <2>2. call.n \in Nat
    <3>1. call.op = "del_mem_rsv"
      BY DEF DelMemRsv, Making
    <3> QED
      BY <3>1, ArgumentsAre
  <2>3. EndedMap(rsv) /\ NumMemRsv \in 0 .. Len(rsv) - 1 /\ Len(rsv) \in Nat
    BY GivenIs, NumMemRsvIs, EndedLen
  <2>4. i \in 1 .. NumMemRsv /\ i \in 1 .. Len(rsv)
    BY <1>2, <2>2, <2>3
  <2> HIDE DEF i
  <2>5. rsv[i] # "empty"
    BY <2>3, <2>4, NumMemRsvIs
  <2>6. EndedMap(es) /\ Len(es) = Len(rsv) - 1
    BY <2>3, <2>4, <2>5, RangeRemoved
  <2> HIDE DEF es
  <2>7. Len(es) = Len(rsv) - 1 + 0
    BY <2>3, <2>6
  <2> QED
    BY <2>1, <2>6, <2>7, SpliceRsvKeeps
<1> QED
  BY <1>1, <1>2

-----------------------------------------------------------------------------
(***************************************************************************)
(* Edits in place (fdt_wip.c), of any blob.                                *)
(***************************************************************************)
\* A structure section that ends with its first END, or with what is no tag.
EndsOnce(ts) ==
  /\ Len(ts) > 0
  /\ \A i \in 1 .. Len(ts) : ts[i].tag \in {"end", "bad"} <=> i = Len(ts)

\* ts was edited in place into us.
SameLayout(ts, us) ==
  /\ us \in Seq(TagSet) /\ SizeOf(us) = SizeOf(ts)
  /\ EndsOnce(ts) => EndsOnce(us)

\* NOPs in the place of tags without an END.
LEMMA NopsSameLayout ==
  ASSUME tags \in Seq(TagSet), NEW first \in 1 .. Len(tags), NEW last \in first + 1 .. Len(tags) + 1,
         \A j \in first .. last - 1 : tags[j].tag \notin {"end", "bad"}
  PROVE  SameLayout(tags, Nops(first, last))
<1> DEFINE us == Nops(first, last)
           m == first - 1
           r == last - 1
           n == Len(tags)
<1>0. n \in Nat /\ m \in Nat /\ r \in Nat /\ m < r /\ r <= n /\ m + 1 = first
  OBVIOUS
<1>1. us \in Seq(TagSet) /\ SizeOf(us) = SizeOf(tags)
  BY NopsIs
<1>2. PICK w \in Nat : Stretches(tags, us, m, r, w) /\ \A i \in 1 .. w : us[m + i] = Nop
  BY NopsIs
<1>3. \A j \in first .. r : tags[j].tag \notin {"end", "bad"}
  OBVIOUS
<1> HIDE DEF us, m, r, n
<1>4. /\ Len(us) = m + w + (n - r)
      /\ \A i \in 1 .. m : us[i] = tags[i]
      /\ \A i \in 1 .. n - r : us[m + w + i] = tags[r + i]
  BY <1>2 DEF Stretches, n
<1>5. ASSUME EndsOnce(tags) PROVE EndsOnce(us)
  <2>1. /\ n > 0
        /\ \A i \in 1 .. n : tags[i].tag \in {"end", "bad"} <=> i = n
    BY <1>5 DEF EndsOnce, n
  <2>2. r < n
    <3> SUFFICES ASSUME r = n PROVE FALSE
      BY <1>0
    <3>1. n \in first .. r /\ n \in 1 .. n
      BY <1>0
    <3> QED
      BY <1>3, <2>1, <3>1
  <2>3. Len(us) > 0
    BY <1>0, <1>4, <2>2
  <2>4. ASSUME NEW i \in 1 .. Len(us) PROVE us[i].tag \in {"end", "bad"} <=> i = Len(us)
    <3>1. CASE i <= m
      <4>1. i \in 1 .. m /\ i \in 1 .. n /\ i # n /\ i # Len(us)
        BY <1>0, <1>4, <2>2, <3>1
      <4>2. us[i] = tags[i]
        BY <1>4, <4>1
      <4> QED
        BY <2>1, <4>1, <4>2
    <3>2. CASE m < i /\ i <= m + w
      <4> DEFINE k == i - m
      <4>1. k \in 1 .. w /\ m + k = i /\ i # Len(us)
        BY <1>0, <1>4, <2>2, <3>2
      <4> HIDE DEF k
      <4>2. us[m + k] = Nop
        BY <1>2, <4>1
      <4>3. us[i].tag = "nop"
        BY <4>1, <4>2 DEF Nop
      <4> QED
        BY <4>1, <4>3
    <3>3. CASE m + w < i
      <4> DEFINE k == i - (m + w)
      <4>1. k \in 1 .. n - r /\ m + w + k = i /\ r + k \in 1 .. n /\ (i = Len(us) <=> r + k = n)
        BY <1>0, <1>4, <2>2, <3>3
      <4> HIDE DEF k
      <4>2. us[m + w + k] = tags[r + k]
        BY <1>4, <4>1
      <4>3. us[i] = tags[r + k]
        BY <4>1, <4>2
      <4> DEFINE q == r + k
      <4>4. q \in 1 .. n /\ (i = Len(us) <=> q = n) /\ us[i] = tags[q]
        BY <4>1, <4>3
      <4> HIDE DEF q
      <4> QED
        BY <2>1, <4>4
    <3> QED
      BY <1>0, <1>2, <3>1, <3>2, <3>3
  <2> QED
    BY <2>3, <2>4 DEF EndsOnce
<1> QED
  BY <1>1, <1>5 DEF SameLayout, us

\* A value of the same length in the place of another.
LEMMA WithDataSameLayout ==
  ASSUME tags \in Seq(TagSet), NEW i \in 1 .. Len(tags), tags[i].tag = "prop", NEW data \in Seq(Chars),
         Len(tags[i].data) = Len(data)
  PROVE  SameLayout(tags, WithData(i, data))
<1> DEFINE us == WithData(i, data)
<1>1. /\ us \in Seq(TagSet) /\ Len(us) = Len(tags) /\ us[i].tag = "prop"
      /\ \A j \in 1 .. Len(tags) : j # i => us[j] = tags[j]
      /\ TagAlign(Len(tags[i].data)) \in Nat /\ TagAlign(Len(data)) \in Nat
      /\ SizeOf(us) = SizeOf(tags) - TagAlign(Len(tags[i].data)) + TagAlign(Len(data))
  BY WithDataIs
<1>2. SizeOf(us) = SizeOf(tags)
  BY <1>1, BytesIs
<1> HIDE DEF us
<1>3. ASSUME EndsOnce(tags) PROVE EndsOnce(us)
  <2>1. ASSUME NEW j \in 1 .. Len(tags) PROVE us[j].tag \in {"end", "bad"} <=> tags[j].tag \in {"end", "bad"}
    <3>1. CASE j = i
      BY <1>1, <3>1
    <3>2. CASE j # i
      BY <1>1, <3>2
    <3> QED
      BY <3>1, <3>2
  <2> QED
    BY <1>1, <1>3, <2>1 DEF EndsOnce
<1> QED
  BY <1>1, <1>2, <1>3 DEF SameLayout, us

\* The blob but for the tags stays, and these keep their layout.
InPlace ==
  /\ hdr' = hdr /\ rsv' = rsv /\ names' = names /\ call' = [op |-> "idle"]
  /\ SameLayout(tags, tags')

\* Any sequence has the layout of itself.
LEMMA SameIsSame == ASSUME NEW ts \in Seq(TagSet) PROVE SameLayout(ts, ts)
BY DEF SameLayout

\* fdt_setprop_inplace, fdt_nop_property and fdt_nop_node
LEMMA InPlaceIs ==
  ASSUME tags \in Seq(TagSet), CallOK(call), SetPropInPlace \/ NopProperty \/ NopNode
  PROVE  InPlace
<1>0. Len(tags) \in Nat /\ Node \in 0 .. Len(tags) /\ (Node > 0 => tags[Node].tag = "begin")
  BY NodeAtIs DEF Node
<1>1. Property.err = "ok" =>
        Node > 0 /\ Property.at \in Node + 1 .. Len(tags) /\ tags[Property.at].tag = "prop"
  <2>1. Property = GetProperty(Node, call.name)
    BY DEF Property
  <2> HIDE DEF Property, Node
  <2> QED
    BY <1>0, <2>1, PropertyIs
<1>2. ASSUME NEW e, Refuse(e) PROVE InPlace
  <2>1. hdr' = hdr /\ rsv' = rsv /\ names' = names /\ tags' = tags /\ call' = [op |-> "idle"]
    BY <1>2 DEF Refuse, Return, Unchanged
  <2> QED
    BY <2>1, SameIsSame DEF InPlace
<1>3. CASE SetPropInPlace
  <2>1. CASE Property.err # "ok" \/ Len(tags[Property.at].data) # Len(call.val)
    <3>1. Refuse(Property.err) \/ Refuse("NOSPACE")
      BY <1>3, <2>1 DEF SetPropInPlace
    <3> QED
      BY <1>2, <3>1
  <2>2. CASE Property.err = "ok" /\ Len(tags[Property.at].data) = Len(call.val)
    <3>1. /\ tags' = WithData(Property.at, call.val) /\ hdr' = hdr /\ rsv' = rsv /\ names' = names
          /\ call' = [op |-> "idle"]
      BY <1>3, <2>2 DEF SetPropInPlace, Return
    <3>2. call.val \in Seq(Chars)
      <4>1. call.op = "setprop_inplace"
        BY <1>3 DEF SetPropInPlace, Making
      <4>2. call.val \in Values
        BY <4>1 DEF CallOK
      <4> QED
        BY <4>2, ArgumentsAssumption DEF ArgumentsAssumption
    <3>3. Property.at \in 1 .. Len(tags) /\ tags[Property.at].tag = "prop"
      BY <1>0, <1>1, <2>2
    <3>4. SameLayout(tags, WithData(Property.at, call.val))
      BY <2>2, <3>2, <3>3, WithDataSameLayout
    <3> QED
      BY <3>1, <3>4 DEF InPlace
  <2> QED
    BY <2>1, <2>2
<1>4. CASE NopProperty
  <2>1. CASE Property.err # "ok"
    <3>1. Refuse(Property.err)
      BY <1>4, <2>1 DEF NopProperty
    <3> QED
      BY <1>2, <3>1
  <2>2. CASE Property.err = "ok"
    <3> DEFINE i == Property.at
    <3>1. /\ tags' = Nops(i, i + 1) /\ hdr' = hdr /\ rsv' = rsv /\ names' = names
          /\ call' = [op |-> "idle"]
      BY <1>4, <2>2 DEF NopProperty, Return
    <3>2. i \in 1 .. Len(tags) /\ tags[i].tag = "prop"
      BY <1>0, <1>1, <2>2
    <3> HIDE DEF i
    <3>3. i + 1 \in i + 1 .. Len(tags) + 1
      BY <1>0, <3>2
    <3>4. \A j \in i .. i + 1 - 1 : tags[j].tag \notin {"end", "bad"}
      <4> SUFFICES ASSUME NEW j \in i .. i + 1 - 1 PROVE tags[j].tag \notin {"end", "bad"}
        OBVIOUS
      <4>1. j = i
        BY <3>2
      <4> QED
        BY <3>2, <4>1
    <3>5. SameLayout(tags, Nops(i, i + 1))
      BY <3>2, <3>3, <3>4, NopsSameLayout
    <3> QED
      BY <3>1, <3>5 DEF InPlace
  <2> QED
    BY <2>1, <2>2
<1>5. CASE NopNode
  <2> DEFINE end == NodeEnd(Node)
  <2>1. CASE end.err # "ok"
    <3>1. Refuse(end.err)
      BY <1>5, <2>1 DEF NopNode
    <3> QED
      BY <1>2, <3>1
  <2>2. CASE end.err = "ok"
    <3> DEFINE n == Node
    <3>1. /\ tags' = Nops(n, end.at) /\ hdr' = hdr /\ rsv' = rsv /\ names' = names
          /\ call' = [op |-> "idle"]
      BY <1>5, <2>2 DEF NopNode, Return
    <3>2. end = NodeEnd(n)
      OBVIOUS
    <3>3. n \in 0 .. Len(tags) /\ (n > 0 => tags[n].tag = "begin")
      BY <1>0
    <3> HIDE DEF n, end
    <3>4. n > 0 /\ end.at \in n + 1 .. Len(tags) + 1 /\ \A j \in n .. end.at - 1 : tags[j].tag \notin {"end", "bad"}
      BY <2>2, <3>2, <3>3, NodeEndIs
    <3>5. n \in 1 .. Len(tags)
      BY <1>0, <3>3, <3>4
    <3>6. SameLayout(tags, Nops(n, end.at))
      BY <3>4, <3>5, NopsSameLayout
    <3> QED
      BY <3>1, <3>6 DEF InPlace
  <2> QED
    BY <2>1, <2>2
<1> QED
  BY <1>3, <1>4, <1>5

\* A writable blob edited in place is one.
LEMMA InPlaceKeeps == ASSUME Given, InPlace PROVE Kept
<1>1. WritableBlob(hdr, rsv, tags', names)
  BY DEF Given, InPlace, SameLayout, WritableBlob, Describes
<1> QED
  BY <1>1, IdleOK DEF InPlace, Kept

-----------------------------------------------------------------------------
(***************************************************************************)
(* fdt_pack and fdt_open_into, which move whole sections.                  *)
(***************************************************************************)
\* What is known of a blob that no call has opened yet.
FileBlob(h, rs, ts, ss) ==
  /\ h \in Headers /\ ts \in Seq(TagSet) /\ ss \in Seq(Seq(Chars)) /\ EndedMap(rs)
  /\ h.version >= 17 => h.sizeStruct = SizeOf(ts)
  /\ h.version < 17 => EndsOnce(ts)
  /\ h.sizeStrings = StringBytes(ss)
  /\ h.offStruct + SizeOf(ts) <= h.total
  /\ h.offStrings + h.sizeStrings <= h.total
  /\ \A i \in 1 .. Len(rs) : rs[i] = "empty" <=> i = Len(rs)

\* The header after a blob has been packed, or opened into a buffer.
LEMMA PutTogether ==
  ASSUME NEW h \in Headers, NEW g, NEW rs, EndedMap(rs), NEW ts \in Seq(TagSet),
         NEW ss \in Seq(Seq(Chars)), NEW n, n = SizeOf(ts), h.sizeStrings = StringBytes(ss),
         NEW r \in Nat, NEW s \in Nat, NEW t \in Nat, NEW all \in Nat, NEW last \in Nat, last <= 17,
         NEW cpu \in Int,
         g = [version |-> 17, lastComp |-> last, cpu |-> cpu, offRsv |-> r, offStruct |-> s,
              sizeStruct |-> n, offStrings |-> t, sizeStrings |-> h.sizeStrings, total |-> all],
         40 <= r, r + Len(rs) * 16 <= s, s + n <= t, t + h.sizeStrings <= all
  PROVE  WritableBlob(g, rs, ts, ss)
<1>1. n \in Nat /\ h.sizeStrings \in Nat
  BY BytesIs, HeaderFields
<1>2. g \in Headers
  BY <1>1 DEF Headers
<1>3. Len(rs) \in Nat /\ Len(rs) >= 1
  BY EndedLen
<1>4. r + 16 <= s
  BY <1>3
<1>5. ~Misordered(g, EntrySize, g.sizeStruct)
  <2>1. g.offRsv = r /\ g.offStruct = s /\ g.sizeStruct = n /\ g.offStrings = t /\ g.total = all
        /\ g.sizeStrings = h.sizeStrings
    OBVIOUS
  <2> QED
    BY <1>1, <1>4, <2>1 DEF Misordered, EntrySize, HeaderSize
<1>6. GoodHeader(g)
  BY <1>2, <1>5 DEF GoodHeader, LastVersion
<1>7. Describes(g, rs, ts, ss)
  BY DEF Describes, EntrySize
<1> QED
  BY <1>6, <1>7 DEF WritableBlob

\* fdt_pack: no section is moved over another.
LEMMA PackKeeps == ASSUME Given, Pack PROVE Kept
<1> DEFINE rsvSize == (NumMemRsv + 1) * EntrySize
           packed == PackBlocks(Checked, 0, rsvSize, hdr.sizeStruct)
           us == SubSeq(rsv, 1, NumMemRsv + 1)
           r == hdr.offRsv s == hdr.offStruct n == hdr.sizeStruct t == hdr.offStrings
           m == hdr.sizeStrings all == hdr.total e == NumMemRsv + 1
<1>1. /\ hdr' = [packed.hdr EXCEPT !.total = DataSize(packed.hdr)]
      /\ rsv' = us /\ tags' = packed.tags /\ names' = packed.names /\ call' = [op |-> "idle"]
  BY DEF Pack, Return
<1>2. GoodHeader(hdr) /\ Describes(hdr, rsv, tags, names)
  BY DEF Given, WritableBlob
<1>3. hdr \in Headers /\ ~Misordered(hdr, EntrySize, hdr.sizeStruct) /\ hdr.lastComp <= 17
  BY <1>2 DEF GoodHeader, LastVersion
<1>4. r \in Nat /\ s \in Nat /\ n \in Nat /\ t \in Nat /\ m \in Nat /\ all \in Nat /\ hdr.lastComp \in Nat
      /\ hdr.cpu \in Int
  BY <1>3, HeaderFields
<1>5. 40 <= r /\ s + n <= t /\ t + m <= all
  BY <1>3, <1>4, InOrderIs DEF EntrySize
<1>6. EndedMap(rsv) /\ tags \in Seq(TagSet) /\ names \in Seq(Seq(Chars)) /\ n = SizeOf(tags)
      /\ m = StringBytes(names) /\ r + Len(rsv) * 16 <= s
  BY <1>2 DEF Describes, EntrySize
<1>7. EndedMap(us) /\ Len(us) = e /\ e \in Nat /\ e <= Len(rsv) /\ Len(rsv) \in Nat
  BY <1>6, RangesCopied, NumMemRsvIs, EndedLen
<1>8. rsvSize = e * 16 /\ rsvSize \in Nat /\ r + rsvSize <= s
  <2>1. rsvSize = e * 16
    BY DEF EntrySize
  <2>2. e * 16 \in Nat /\ r + e * 16 <= s
    <3> HIDE DEF e, r, s
    <3> QED
      BY <1>4, <1>6, <1>7
  <2> HIDE DEF e, rsvSize
  <2> QED
    BY <2>1, <2>2
<1> HIDE DEF rsvSize
<1>9. /\ Checked.offStruct = s /\ Checked.offStrings = t /\ Checked.sizeStrings = m
      /\ Checked = [hdr EXCEPT !.version = 17]
  BY <1>3 DEF Checked, Headers
<1>10. ~Overlap(s, n, 40, rsvSize) /\ ~Overlap(t, m, 40, rsvSize) /\ ~Overlap(t, m, 40 + rsvSize, n)
  <2> HIDE DEF r, s, n, t, m, all
  <2> QED
    BY <1>4, <1>5, <1>8 DEF Overlap
<1> DEFINE h2 == [Checked EXCEPT !.offRsv = 40, !.offStruct = 40 + rsvSize, !.sizeStruct = n,
                                 !.offStrings = 40 + rsvSize + n]
<1>11. packed.hdr = h2 /\ packed.tags = tags /\ packed.names = names
  <2>1. 0 + 40 = 40 /\ 0 + (40 + rsvSize) = 40 + rsvSize
    BY <1>8
  <2> QED
    BY <1>9, <1>10, <2>1 DEF PackBlocks, HeaderSize
<1> DEFINE z == 40 + rsvSize + n + m
           s2 == 40 + rsvSize
           t2 == 40 + rsvSize + n
<1>12. DataSize(h2) = z
  BY <1>3, <1>9 DEF DataSize, Headers
<1> HIDE DEF packed
<1>13. hdr' = [version |-> 17, lastComp |-> hdr.lastComp, cpu |-> hdr.cpu, offRsv |-> 40, offStruct |-> s2,
              sizeStruct |-> n, offStrings |-> t2, sizeStrings |-> m, total |-> z]
  <2>1. hdr' = [h2 EXCEPT !.total = z]
    BY <1>1, <1>11, <1>12
  <2> HIDE DEF z
  <2>2. h2 = [hdr EXCEPT !.version = 17, !.offRsv = 40, !.offStruct = s2, !.sizeStruct = n, !.offStrings = t2]
    BY <1>3, <1>9 DEF Headers
  <2> HIDE DEF h2, s2, t2
  <2> QED
    BY <1>3, <2>1, <2>2 DEF Headers
<1>14. s2 \in Nat /\ t2 \in Nat /\ z \in Nat /\ 40 + Len(us) * 16 <= s2 /\ s2 + n <= t2 /\ t2 + m <= z
  <2> HIDE DEF us
  <2>1. Len(us) = e /\ e \in Nat /\ rsvSize = e * 16 /\ rsvSize \in Nat
    BY <1>7, <1>8
  <2> HIDE DEF r, s, n, t, m, all, e
  <2> QED
    BY <1>4, <2>1
<1>15. WritableBlob(hdr', us, tags, names)
  <2> DEFINE last == hdr.lastComp cpu == hdr.cpu
  <2>1. 40 \in Nat /\ 40 <= 40
    OBVIOUS
  <2>2. last \in Nat /\ last <= 17 /\ cpu \in Int
    BY <1>3, <1>4
  <2>3. hdr.sizeStrings = StringBytes(names) /\ t2 + hdr.sizeStrings <= z
    BY <1>6, <1>14
  <2>4. hdr' = [version |-> 17, lastComp |-> last, cpu |-> cpu, offRsv |-> 40, offStruct |-> s2,
                sizeStruct |-> n, offStrings |-> t2, sizeStrings |-> hdr.sizeStrings, total |-> z]
    BY <1>13
  <2> HIDE DEF s2, t2, z, us, last, cpu, n, r, s, t, all, m
  <2> QED
    BY <1>3, <1>6, <1>7, <1>14, <2>1, <2>2, <2>3, <2>4, PutTogether
<1> QED
  BY <1>1, <1>11, <1>15, IdleOK DEF Kept

\* The length that is found for the structure section is its length.
LEMMA StructSizeIs ==
  ASSUME FileBlob(hdr, rsv, tags, names)
  PROVE  StructSize = -1 \/ StructSize = SizeOf(tags)
<1> DEFINE I == {i \in 1 .. Len(tags) : tags[i].tag \in {"end", "bad"}}
           e == IF I # {} THEN Min(I) ELSE 0
           n == Len(tags)
<1>1. StructSize = IF hdr.version >= 17 THEN hdr.sizeStruct
                   ELSE IF Is(e, {"bad"}) THEN -1 ELSE OffsetOf(e + 1)
  BY DEF StructSize, SelectInSeq
<1>2. hdr \in Headers /\ tags \in Seq(TagSet)
      /\ (hdr.version >= 17 => hdr.sizeStruct = SizeOf(tags)) /\ (hdr.version < 17 => EndsOnce(tags))
  BY DEF FileBlob
<1>3. CASE hdr.version >= 17
  BY <1>1, <1>2, <1>3
<1>4. CASE hdr.version < 17
  <2>1. n > 0 /\ n \in Nat /\ \A i \in 1 .. n : tags[i].tag \in {"end", "bad"} <=> i = n
    BY <1>2, <1>4 DEF EndsOnce
  <2>2. I = {n}
    BY <2>1
  <2>3. I \subseteq Nat /\ I # {}
    BY <2>1, <2>2
  <2>4. Min(I) \in I
    BY <2>3, MinIs
  <2>5. e = n
    BY <2>2, <2>3, <2>4
  <2> HIDE DEF e
  <2>6. OffsetOf(e + 1) = Bytes(tags)[n]
    <3> DEFINE f == e + 1
    <3>1. f - 1 = n
      BY <2>1, <2>5
    <3> HIDE DEF f, n
    <3>2. OffsetOf(f) = Bytes(tags)[f - 1]
      BY DEF OffsetOf, Bytes
    <3>3. OffsetOf(f) = Bytes(tags)[n]
      BY <3>1, <3>2
    <3> QED
      BY <3>3 DEF f
  <2>7. OffsetOf(e + 1) = SizeOf(tags)
    BY <1>2, <2>6, BytesIs
  <2>8. ~(hdr.version >= 17)
    BY <1>2, <1>4, HeaderFields
  <2> QED
    BY <1>1, <2>7, <2>8
<1> QED
  BY <1>2, <1>3, <1>4, HeaderFields

\* The first entry of size 0 of such a map is its last.
LEMMA AllCounted ==
  ASSUME EndedMap(rsv), \A i \in 1 .. Len(rsv) : rsv[i] = "empty" <=> i = Len(rsv)
  PROVE  NumMemRsv + 1 = Len(rsv)
<1> DEFINE e == NumMemRsv + 1
<1>1. e \in 1 .. Len(rsv) /\ rsv[e] = "empty"
  BY NumMemRsvIs, EndedLen
<1> HIDE DEF e
<1>2. e = Len(rsv)
  BY <1>1
<1> QED
  BY <1>2 DEF e

\* What fdt_open_into does of which blob.
Reheaded(size, n) ==
  /\ hdr' = [hdr EXCEPT !.version = 17, !.sizeStruct = n, !.total = size]
  /\ UNCHANGED <<rsv, tags, names>> /\ call' = [op |-> "idle"]
\* fdt_open_into has refused.
Refused == UNCHANGED <<hdr, rsv, tags, names>> /\ call' = [op |-> "idle"]

\* An opened blob whose sections were in order.
LEMMA ReheadedKeeps ==
  ASSUME hdr \in Headers, tags \in Seq(TagSet), names \in Seq(Seq(Chars)), EndedMap(rsv),
         hdr.lastComp <= 17, hdr.sizeStrings = StringBytes(names), NEW size \in Nat, hdr.total <= size,
         NEW n, n = SizeOf(tags), 40 <= hdr.offRsv, hdr.offRsv + Len(rsv) * 16 <= hdr.offStruct,
         hdr.offStruct + n <= hdr.offStrings, hdr.offStrings + hdr.sizeStrings <= hdr.total,
         Reheaded(size, n)
  PROVE  Kept
<1> DEFINE last == hdr.lastComp cpu == hdr.cpu r == hdr.offRsv s == hdr.offStruct t == hdr.offStrings
           m == hdr.sizeStrings all == hdr.total
<1>1. r \in Nat /\ s \in Nat /\ t \in Nat /\ last \in Nat /\ cpu \in Int /\ m \in Nat /\ all \in Nat /\ n \in Nat
  BY HeaderFields, BytesIs
<1>2. t + hdr.sizeStrings <= size
  <2> HIDE DEF t, all
  <2>1. hdr.total = all /\ hdr.sizeStrings = m
    BY DEF all
  <2> HIDE DEF m
  <2> QED
    BY <1>1, <2>1 DEF t
<1>3. hdr' = [version |-> 17, lastComp |-> last, cpu |-> cpu, offRsv |-> r, offStruct |-> s,
              sizeStruct |-> n, offStrings |-> t, sizeStrings |-> hdr.sizeStrings, total |-> size]
  BY DEF Reheaded, Headers
<1>4. 40 <= r /\ r + Len(rsv) * 16 <= s /\ s + n <= t /\ last <= 17
  OBVIOUS
<1>5. WritableBlob(hdr', rsv, tags, names)
  <2> HIDE DEF last, cpu, r, s, t
  <2> QED
    BY <1>1, <1>2, <1>3, <1>4, PutTogether
<1> QED
  BY <1>5, IdleOK DEF Kept, Reheaded

\* fdt_open_into of a writable blob.
LEMMA OpenIntoKeeps == ASSUME Given, OpenInto PROVE Kept
<1> DEFINE rsvSize == (NumMemRsv + 1) * EntrySize
           e == NumMemRsv + 1
           r == hdr.offRsv s == hdr.offStruct n == hdr.sizeStruct t == hdr.offStrings
           m == hdr.sizeStrings all == hdr.total
<1>1. GoodHeader(hdr) /\ Describes(hdr, rsv, tags, names)
  BY DEF Given, WritableBlob
<1>2. hdr \in Headers /\ ~Misordered(hdr, EntrySize, hdr.sizeStruct) /\ hdr.lastComp <= 17 /\ hdr.version >= 17
  BY <1>1 DEF GoodHeader, LastVersion
<1>3. r \in Nat /\ s \in Nat /\ n \in Nat /\ t \in Nat /\ m \in Nat /\ all \in Nat /\ hdr.lastComp \in Nat
      /\ hdr.version \in Nat
  BY <1>2, HeaderFields
<1>4. 40 <= r /\ s + n <= t /\ t + m <= all
  BY <1>2, <1>3, InOrderIs DEF EntrySize
<1>5. EndedMap(rsv) /\ tags \in Seq(TagSet) /\ names \in Seq(Seq(Chars)) /\ n = SizeOf(tags)
      /\ m = StringBytes(names) /\ r + Len(rsv) * 16 <= s
  BY <1>1 DEF Describes, EntrySize
<1>6. StructSize = n /\ StructSize >= 0
  BY <1>2, <1>3 DEF StructSize
<1>7. e \in Nat /\ e <= Len(rsv) /\ Len(rsv) \in Nat
  BY <1>5, NumMemRsvIs, EndedLen
<1>8. rsvSize \in Nat /\ r + rsvSize <= s
  <2>1. rsvSize = e * 16
    BY DEF EntrySize
  <2>2. e * 16 \in Nat /\ r + e * 16 <= s
    <3> HIDE DEF e, r, s
    <3> QED
      BY <1>3, <1>5, <1>7
  <2> QED
    BY <2>1, <2>2
<1>9. ~Misordered(hdr, rsvSize, StructSize)
  <2> HIDE DEF rsvSize
  <2> QED
    BY <1>2, <1>3, <1>4, <1>6, <1>8, InOrderIs
<1>10. HeaderError = "ok"
  BY <1>2, <1>3 DEF HeaderError, FirstVersion, LastVersion
<1>11. Refuse("NOSPACE") \/ (all <= call.size /\ Reheaded(call.size, n))
  <2>1. IF all > call.size THEN Refuse("NOSPACE")
        ELSE /\ hdr' = [hdr EXCEPT !.version = 17, !.sizeStruct = StructSize, !.total = call.size]
             /\ UNCHANGED <<rsv, tags, names>> /\ Return("ok")
    <3> HIDE DEF rsvSize, all
    <3> QED
      BY <1>6, <1>9, <1>10 DEF OpenInto, rsvSize, all
  <2>2. call.size \in Nat
    <3>1. call.op = "open_into"
      BY DEF OpenInto, Making
    <3> QED
      BY <3>1, ArgumentsAre
  <2> QED
    BY <1>3, <1>6, <2>1, <2>2 DEF Reheaded, Return
<1>12. call.size \in Nat
  <2>1. call.op = "open_into"
    BY DEF OpenInto, Making
  <2> QED
    BY <2>1, ArgumentsAre
<1>13. CASE Refuse("NOSPACE")
  <2>1. Given
    OBVIOUS
  <2> QED
    BY <1>13, RefuseKeeps DEF Given
<1>14. CASE all <= call.size /\ Reheaded(call.size, n)
  <2> DEFINE size == call.size
  <2>1. size \in Nat /\ hdr.total <= size /\ Reheaded(size, n)
    BY <1>12, <1>14
  <2> HIDE DEF size
  <2> QED
    BY <1>2, <1>4, <1>5, <2>1, ReheadedKeeps
<1> QED
  BY <1>11, <1>13, <1>14

\* fdt_open_into of a blob as it is read from a file: what is not refused is put together
\* from sections of which none is lost, since it is put together behind the blob.
LEMMA OpenFileKeeps ==
  ASSUME FileBlob(hdr, rsv, tags, names), CallOK(call), OpenInto
  PROVE  Kept \/ Refused
<1> DEFINE rsvSize == (NumMemRsv + 1) * EntrySize
           us == SubSeq(rsv, 1, NumMemRsv + 1)
           k == Len(rsv)
           r == hdr.offRsv s == hdr.offStruct n == StructSize t == hdr.offStrings
           m == hdr.sizeStrings all == hdr.total size == call.size
           packed == PackBlocks(hdr, all, rsvSize, n)
<1>1. /\ hdr \in Headers /\ tags \in Seq(TagSet) /\ names \in Seq(Seq(Chars)) /\ EndedMap(rsv)
      /\ m = StringBytes(names) /\ s + SizeOf(tags) <= all /\ t + m <= all
      /\ \A i \in 1 .. Len(rsv) : rsv[i] = "empty" <=> i = Len(rsv)
  BY DEF FileBlob
<1>2. r \in Nat /\ s \in Nat /\ t \in Nat /\ m \in Nat /\ all \in Nat /\ hdr.lastComp \in Nat
      /\ hdr.version \in Nat /\ hdr.cpu \in Int /\ SizeOf(tags) \in Nat
  BY <1>1, HeaderFields, BytesIs
<1>3. n = -1 \/ n = SizeOf(tags)
  BY StructSizeIs
<1>4. NumMemRsv + 1 = k /\ EndedMap(us) /\ Len(us) = k /\ k \in Nat
  BY <1>1, AllCounted, RangesCopied, EndedLen
<1>5. rsvSize = k * 16 /\ rsvSize \in Nat
  <2>1. rsvSize = k * 16
    BY <1>4 DEF EntrySize
  <2> QED
    BY <1>4, <2>1
<1>6. size \in Nat
  <2>1. call.op = "open_into"
    BY DEF OpenInto, Making
  <2>2. call.size \in BufSizes
    BY <2>1 DEF CallOK
  <2> QED
    BY <2>2, ArgumentsAssumption DEF ArgumentsAssumption
<1> DEFINE newSize == 40 + rsvSize + n + m
<1>7. \/ Refuse(HeaderError) \/ Refuse("BADSTRUCTURE") \/ Refuse("NOSPACE")
      \/ /\ HeaderError = "ok" /\ n >= 0 /\ ~Misordered(hdr, rsvSize, n) /\ ~(all > size)
         /\ hdr' = [hdr EXCEPT !.version = 17, !.sizeStruct = n, !.total = size]
         /\ UNCHANGED <<rsv, tags, names>> /\ call' = [op |-> "idle"]
      \/ /\ HeaderError = "ok" /\ n >= 0 /\ ~(size < (IF call.inPlace THEN all ELSE 0) + newSize)
         /\ hdr' = [packed.hdr EXCEPT !.total = size, !.version = 17,
                       !.lastComp = 16, !.cpu = CpuAfter(call.inPlace)]
         /\ rsv' = us /\ tags' = packed.tags /\ names' = packed.names /\ call' = [op |-> "idle"]
  <2> HIDE DEF packed, us
  <2>1. n >= 0 \/ n < 0
    BY <1>2, <1>3
  <2>2. CASE HeaderError # "ok"
    <3>1. Refuse(HeaderError)
      BY <2>2 DEF OpenInto
    <3> QED
      BY <3>1
  <2>3. CASE HeaderError = "ok" /\ n < 0
    <3>0. ~(n >= 0)
      BY <1>2, <1>3, <2>3
    <3>1. Refuse("BADSTRUCTURE")
      BY <2>3, <3>0 DEF OpenInto
    <3> QED
      BY <3>1
  <2>4. CASE HeaderError = "ok" /\ n >= 0 /\ ~(n < 0) /\ ~Misordered(hdr, rsvSize, n)
    <3>1. IF all > size THEN Refuse("NOSPACE")
          ELSE /\ hdr' = [hdr EXCEPT !.version = 17, !.sizeStruct = StructSize, !.total = size]
               /\ UNCHANGED <<rsv, tags, names>> /\ Return("ok")
      BY <2>4 DEF OpenInto
    <3> QED
      BY <2>4, <3>1 DEF Return
  <2>5. CASE HeaderError = "ok" /\ n >= 0 /\ ~(n < 0) /\ Misordered(hdr, rsvSize, n)
    <3>1. IF size < (IF call.inPlace THEN Scratch ELSE 0) + (HeaderSize + rsvSize + StructSize + hdr.sizeStrings)
          THEN Refuse("NOSPACE")
          ELSE /\ hdr' = [PackBlocks(hdr, Scratch, rsvSize, StructSize).hdr EXCEPT !.total = size, !.version = 17,
                                 !.lastComp = 16, !.cpu = CpuAfter(call.inPlace)]
               /\ rsv' = SubSeq(rsv, 1, NumMemRsv + 1)
               /\ tags' = PackBlocks(hdr, Scratch, rsvSize, StructSize).tags
               /\ names' = PackBlocks(hdr, Scratch, rsvSize, StructSize).names
               /\ Return("ok")
      BY <2>5 DEF OpenInto
    <3>2. Scratch = all /\ HeaderSize = 40
      BY DEF Scratch, HeaderSize
    <3> QED
      BY <2>5, <3>1, <3>2 DEF Return, packed, us
  <2> HIDE DEF n
  <2>6. ~(n >= 0 /\ n < 0)
    BY <1>2, <1>3
  <2> QED
    BY <2>1, <2>2, <2>3, <2>4, <2>5, <2>6 DEF n
<1>8. CASE \E e : Refuse(e)
  BY <1>8 DEF Refuse, Return, Unchanged, Refused
<1>9. HeaderError = "ok" => hdr.lastComp <= 17
  BY <1>2 DEF HeaderError, FirstVersion, LastVersion
<1>10. CASE /\ HeaderError = "ok" /\ n >= 0 /\ ~Misordered(hdr, rsvSize, n) /\ ~(all > size)
            /\ hdr' = [hdr EXCEPT !.version = 17, !.sizeStruct = n, !.total = size]
            /\ UNCHANGED <<rsv, tags, names>> /\ call' = [op |-> "idle"]
  <2> HIDE DEF n, rsvSize, size, packed, us, newSize
  <2>1. n = SizeOf(tags) /\ n \in Nat
    BY <1>2, <1>3, <1>10
  <2>2. Reheaded(size, n) /\ all <= size
    BY <1>2, <1>6, <1>10 DEF Reheaded
  <2>3. 40 <= r /\ r + rsvSize <= s /\ s + n <= t /\ t + m <= all
    BY <1>1, <1>5, <1>10, <2>1, InOrderIs
  <2>4. r + Len(rsv) * 16 <= s
    BY <1>5, <2>3
  <2> QED
    BY <1>1, <1>6, <1>9, <1>10, <2>1, <2>2, <2>3, <2>4, ReheadedKeeps
<1>11. CASE /\ HeaderError = "ok" /\ n >= 0 /\ ~(size < (IF call.inPlace THEN all ELSE 0) + newSize)
            /\ hdr' = [packed.hdr EXCEPT !.total = size, !.version = 17,
                          !.lastComp = 16, !.cpu = CpuAfter(call.inPlace)]
            /\ rsv' = us /\ tags' = packed.tags /\ names' = packed.names /\ call' = [op |-> "idle"]
  <2> DEFINE cpu == CpuAfter(call.inPlace)
             s2 == 40 + rsvSize
             t2 == s2 + n
  <2> HIDE DEF n, size, rsvSize, us
  <2>1. n = SizeOf(tags) /\ n \in Nat
    BY <1>2, <1>3, <1>11
  <2>2. ~Overlap(s, n, all + 40, rsvSize) /\ ~Overlap(t, m, all + 40, rsvSize)
        /\ ~Overlap(t, m, all + (40 + rsvSize), n)
    <3>1. s + n <= all /\ t + m <= all
      BY <1>1, <2>1
    <3> HIDE DEF s, t, m, all
    <3> QED
      BY <1>2, <1>5, <2>1, <3>1 DEF Overlap
  <2> DEFINE h2 == [hdr EXCEPT !.offRsv = 40, !.offStruct = s2, !.sizeStruct = n, !.offStrings = t2]
  <2>3. packed.hdr = h2 /\ packed.tags = tags /\ packed.names = names
    BY <2>2 DEF PackBlocks, HeaderSize
  <2>4. size >= t2 + m /\ s2 \in Nat /\ t2 \in Nat
    <3> DEFINE base == IF call.inPlace THEN all ELSE 0
    <3>1. base \in Nat
      BY <1>2
    <3>2. ~(size < base + newSize)
      BY <1>11
    <3>3. rsvSize \in Nat /\ m \in Nat /\ size \in Nat /\ n \in Nat
      BY <1>2, <1>5, <1>6, <2>1
    <3> HIDE DEF base, m
    <3> QED
      BY <3>1, <3>2, <3>3 DEF newSize
  <2>5. cpu \in Int
    BY <1>2 DEF CpuAfter
  <2> HIDE DEF packed, cpu
  <2>6. hdr' = [version |-> 17, lastComp |-> 16, cpu |-> cpu, offRsv |-> 40, offStruct |-> s2,
                sizeStruct |-> n, offStrings |-> t2, sizeStrings |-> hdr.sizeStrings, total |-> size]
    <3>1. hdr' = [h2 EXCEPT !.total = size, !.version = 17, !.lastComp = 16, !.cpu = cpu]
      BY <1>11, <2>3 DEF cpu
    <3> HIDE DEF s2, t2
    <3> QED
      BY <1>1, <3>1 DEF Headers
  <2>7. 40 + Len(us) * 16 <= s2 /\ s2 + n <= t2 /\ t2 + hdr.sizeStrings <= size
    <3>1. s2 = 40 + k * 16 /\ Len(us) = k
      BY <1>4, <1>5
    <3> HIDE DEF k
    <3> QED
      BY <1>4, <1>5, <1>2, <1>6, <2>1, <2>4, <3>1
  <2> HIDE DEF s2, t2
  <2>8. WritableBlob(hdr', us, tags, names)
    <3>1. 16 \in Nat /\ 40 \in Nat /\ 16 <= 17 /\ 40 <= 40
      OBVIOUS
    <3>2. hdr \in Headers /\ tags \in Seq(TagSet) /\ names \in Seq(Seq(Chars))
          /\ hdr.sizeStrings = StringBytes(names) /\ EndedMap(us) /\ size \in Nat
      BY <1>1, <1>4, <1>6
    <3> QED
      BY <2>1, <2>4, <2>5, <2>6, <2>7, <3>1, <3>2, PutTogether
  <2> QED
    BY <1>11, <2>3, <2>8, IdleOK DEF Kept
<1> HIDE DEF packed, us, n, size, rsvSize, newSize
<1> QED
  BY <1>7, <1>8, <1>10, <1>11

-----------------------------------------------------------------------------
(***************************************************************************)
(* The invariant of FdtBlob and its theorems.                              *)
(***************************************************************************)
\* A blob is writable, or as it is in its file.
BlobInv ==
  /\ CallOK(call)
  /\ IF Writable THEN WritableBlob(hdr, rsv, tags, names) ELSE FileBlob(hdr, rsv, tags, names)

\* FDT_RW_CHECK_HEADER after a step.
LEMMA WritableAfter ==
  ASSUME hdr' \in Headers
  PROVE  Writable' <=> GoodHeader(hdr')
BY HeaderFields DEF Writable, RwError, HeaderError, GoodHeader, FirstVersion, LastVersion

\* A blob that is kept writable satisfies the invariant.
LEMMA KeptIs == ASSUME Kept PROVE BlobInv' /\ Writable'
<1>1. WritableBlob(hdr', rsv', tags', names') /\ CallOK(call')
  BY DEF Kept
<1>2. GoodHeader(hdr') /\ hdr' \in Headers
  BY <1>1 DEF WritableBlob, GoodHeader
<1>3. Writable'
  BY <1>2, WritableAfter
<1> QED
  BY <1>1, <1>3 DEF BlobInv

\* The header alone says if a blob is writable.
LEMMA SameHeader == ASSUME hdr' = hdr PROVE Writable' <=> Writable
BY DEF Writable, RwError, HeaderError, Misordered

\* The arguments of a call that a caller asks for.
LEMMA AskOK == ASSUME NEW c \in Calls PROVE CallOK(c)
<1>1. CASE c \in [op : {"setprop", "appendprop", "setprop_inplace"},
                  offset : Offsets, name : PropNames, val : Values]
  BY <1>1 DEF CallOK
<1>2. CASE c \in [op : {"delprop", "nop_property"}, offset : Offsets, name : PropNames]
  BY <1>2 DEF CallOK
<1>3. CASE c \in [op : {"set_name", "add_subnode"}, offset : Offsets, name : NodeNames]
  BY <1>3 DEF CallOK
<1>4. CASE c \in [op : {"del_node", "nop_node"}, offset : Offsets]
  BY <1>4 DEF CallOK
<1>5. CASE c \in [op : {"add_mem_rsv"}, range : Entries]
  BY <1>5 DEF CallOK
<1>6. CASE c \in [op : {"del_mem_rsv"}, n : 0 .. 1]
  BY <1>6 DEF CallOK
<1>7. CASE c \in [op : {"open_into"}, size : BufSizes, inPlace : BOOLEAN]
  BY <1>7 DEF CallOK
<1>8. CASE c \in [op : {"pack"}]
  BY <1>8 DEF CallOK
<1> QED
  BY <1>1, <1>2, <1>3, <1>4, <1>5, <1>6, <1>7, <1>8 DEF Calls

\* A step that leaves the blob alone.
LEMMA LeftAlone ==
  ASSUME BlobInv, hdr' = hdr, rsv' = rsv, tags' = tags, names' = names, CallOK(call')
  PROVE  BlobInv' /\ (Writable => Writable')
<1>1. Writable' <=> Writable
  BY SameHeader
<1> HIDE DEF Writable
<1> QED
  BY <1>1 DEF BlobInv

\* A blob as it is read from a file.
LEMMA FilesAre == Init => BlobInv
<1> SUFFICES ASSUME Init PROVE BlobInv
  OBVIOUS
<1>1. PICK f \in Files : hdr = f.hdr /\ rsv = f.rsv /\ tags = f.tags /\ names = f.names
  BY DEF Init
<1>2. IsFile(f)
  BY FilesAssumption DEF FilesAssumption
<1> DEFINE n == SizeOf(tags)
<1>3. /\ hdr \in Headers /\ tags \in Seq(TagSet) /\ names \in Seq(Seq(Chars))
      /\ rsv \in Seq(Entries \cup {"empty"})
      /\ hdr.version >= 17 => hdr.sizeStruct = n
      /\ hdr.version < 17 => EndsOnce(tags)
      /\ hdr.sizeStrings = StringBytes(names)
      /\ hdr.offStruct + n <= hdr.total
      /\ hdr.offStrings + hdr.sizeStrings <= hdr.total
      /\ rsv # <<>>
      /\ \A i \in 1 .. Len(rsv) : rsv[i] = "empty" <=> i = Len(rsv)
      /\ \/ hdr.offRsv + Len(rsv) * 16 <= hdr.offStruct
         \/ hdr.offStruct + n <= hdr.offRsv
  <2>1. /\ hdr \in Headers /\ tags \in Seq(TagSet) /\ names \in Seq(Seq(Chars))
        /\ rsv \in Seq(Entries \cup {"empty"}) /\ rsv # <<>>
        /\ \A i \in 1 .. Len(rsv) : rsv[i] = "empty" <=> i = Len(rsv)
    BY <1>1, <1>2 DEF IsFile
  <2>2. /\ hdr.version >= 17 => hdr.sizeStruct = n
        /\ hdr.sizeStrings = StringBytes(names)
        /\ hdr.offStruct + n <= hdr.total
        /\ hdr.offStrings + hdr.sizeStrings <= hdr.total
        /\ \/ hdr.offRsv + Len(rsv) * 16 <= hdr.offStruct
           \/ hdr.offStruct + n <= hdr.offRsv
    BY <1>1, <1>2 DEF IsFile, EntrySize
  <2>3. ASSUME hdr.version < 17 PROVE EndsOnce(tags)
    <3>1. tags # <<>> /\ \A i \in 1 .. Len(tags) : tags[i].tag \in {"end", "bad"} <=> i = Len(tags)
      BY <1>1, <1>2, <2>3 DEF IsFile
    <3>2. Len(tags) > 0
      BY <2>1, <3>1
    <3> QED
      BY <3>1, <3>2 DEF EndsOnce
  <2> QED
    BY <2>1, <2>2, <2>3
<1>4. EndedMap(rsv)
  <2>1. Len(rsv) \in 1 .. Len(rsv)
    BY <1>3
  <2>2. rsv[Len(rsv)] = "empty"
    BY <1>3, <2>1
  <2> QED
    BY <1>3, <2>1, <2>2 DEF EndedMap
<1>5. CallOK(call)
  BY IdleOK DEF Init
<1>6. CASE Writable
  <2>1. GoodHeader(hdr)
    BY <1>3, <1>6, WritableIs
  <2>2. hdr.version >= 17 /\ ~Misordered(hdr, EntrySize, hdr.sizeStruct)
    BY <2>1 DEF GoodHeader
  <2>3. hdr.sizeStruct = n /\ n \in Nat /\ hdr.offRsv \in Nat /\ hdr.offStruct \in Nat
    BY <1>3, <2>2, BytesIs, HeaderFields
  <2>4. hdr.offRsv + 16 <= hdr.offStruct
    BY <1>3, <2>2, <2>3, InOrderIs DEF EntrySize
  <2>5. hdr.offRsv + Len(rsv) * 16 <= hdr.offStruct
    <3> DEFINE r == hdr.offRsv s == hdr.offStruct
    <3>1. (r + Len(rsv) * 16 <= s \/ s + n <= r) /\ r + 16 <= s /\ n \in Nat /\ r \in Nat /\ s \in Nat
      BY <1>3, <2>3, <2>4
    <3> HIDE DEF r, s, n
    <3>2. ~(s + n <= r)
      BY <3>1
    <3> QED
      BY <3>1, <3>2 DEF r, s
  <2>6. Describes(hdr, rsv, tags, names)
    BY <1>3, <1>4, <2>3, <2>5 DEF Describes, EntrySize
  <2> QED
    BY <1>5, <1>6, <2>1, <2>6 DEF BlobInv, WritableBlob
<1>7. CASE ~Writable
  <2>1. FileBlob(hdr, rsv, tags, names)
    BY <1>3, <1>4 DEF FileBlob
  <2> QED
    BY <1>5, <1>7, <2>1 DEF BlobInv
<1> QED
  BY <1>6, <1>7

\* The calls on a writable blob.
LEMMA WritableStep ==
  ASSUME BlobInv, Writable, Next, ~Ask
  PROVE  Kept
<1>1. Given
  BY DEF BlobInv, Given
<1>2. ~NotWritable
  BY DEF NotWritable
<1>3. CASE SetProp BY <1>1, <1>3, SetPropKeeps
<1>4. CASE AppendProp BY <1>1, <1>4, AppendPropKeeps
<1>5. CASE DelProp BY <1>1, <1>5, DelPropKeeps
<1>6. CASE SetName BY <1>1, <1>6, SetNameKeeps
<1>7. CASE AddSubnode BY <1>1, <1>7, AddSubnodeKeeps
<1>8. CASE DelNode BY <1>1, <1>8, DelNodeKeeps
<1>9. CASE SetPropInPlace \/ NopProperty \/ NopNode
  <2>1. tags \in Seq(TagSet) /\ CallOK(call)
    BY <1>1, GivenIs DEF Given
  <2>2. InPlace
    BY <1>9, <2>1, InPlaceIs
  <2> QED
    BY <1>1, <2>2, InPlaceKeeps
<1>10. CASE AddMemRsv BY <1>1, <1>10, AddMemRsvKeeps
<1>11. CASE DelMemRsv BY <1>1, <1>11, DelMemRsvKeeps
<1>12. CASE Pack BY <1>1, <1>12, PackKeeps
<1>13. CASE OpenInto BY <1>1, <1>13, OpenIntoKeeps
<1> QED
  BY <1>2, <1>3, <1>4, <1>5, <1>6, <1>7, <1>8, <1>9, <1>10, <1>11, <1>12, <1>13 DEF Next

\* A call that needs a writable blob is not made of another.
LEMMA NeedsWritable ==
  ASSUME SetProp \/ AppendProp \/ DelProp \/ SetName \/ AddSubnode \/ DelNode \/ AddMemRsv
           \/ DelMemRsv \/ Pack
  PROVE  Writable
<1>1. \E op \in RwOps : Making(op)
  BY DEF SetProp, AppendProp, DelProp, SetName, AddSubnode, DelNode, AddMemRsv, DelMemRsv, Pack, RwOps
<1> QED
  BY <1>1 DEF Making

\* The calls on a blob that is not.
LEMMA FileStep ==
  ASSUME BlobInv, ~Writable, Next, ~Ask
  PROVE  BlobInv'
<1>1. FileBlob(hdr, rsv, tags, names) /\ CallOK(call)
  BY DEF BlobInv
<1>2. CASE NotWritable
  <2>1. hdr' = hdr /\ rsv' = rsv /\ tags' = tags /\ names' = names /\ call' = [op |-> "idle"]
    BY <1>2 DEF NotWritable, Refuse, Return, Unchanged
  <2> QED
    BY <2>1, LeftAlone, IdleOK
<1>3. CASE SetPropInPlace \/ NopProperty \/ NopNode
  <2>1. tags \in Seq(TagSet)
    BY <1>1 DEF FileBlob
  <2>2. InPlace
    BY <1>1, <1>3, <2>1, InPlaceIs
  <2>3. hdr' = hdr /\ rsv' = rsv /\ names' = names /\ call' = [op |-> "idle"] /\ SameLayout(tags, tags')
    BY <2>2 DEF InPlace
  <2>4. FileBlob(hdr, rsv, tags', names)
    BY <1>1, <2>3 DEF FileBlob, SameLayout
  <2>5. ~Writable'
    BY <2>3, SameHeader
  <2> QED
    BY <2>3, <2>4, <2>5, IdleOK DEF BlobInv
<1>4. CASE OpenInto
  <2>1. Kept \/ Refused
    BY <1>1, <1>4, OpenFileKeeps
  <2>2. CASE Kept
    BY <2>2, KeptIs
  <2>3. CASE Refused
    <3>1. hdr' = hdr /\ rsv' = rsv /\ tags' = tags /\ names' = names /\ call' = [op |-> "idle"]
      BY <2>3 DEF Refused
    <3> QED
      BY <3>1, LeftAlone, IdleOK
  <2> QED
    BY <2>1, <2>2, <2>3
<1> QED
  BY <1>2, <1>3, <1>4, NeedsWritable DEF Next

\* The invariant is inductive, and no call makes a writable blob another.
LEMMA BlobStep ==
  ASSUME BlobInv, [Next]_vars
  PROVE  BlobInv' /\ (Writable => Writable')
<1>1. CASE Ask
  <2>1. hdr' = hdr /\ rsv' = rsv /\ tags' = tags /\ names' = names /\ call' \in Calls
    BY <1>1 DEF Ask
  <2> QED
    BY <2>1, AskOK, LeftAlone
<1>2. CASE Next /\ ~Ask
  <2>1. CASE Writable
    BY <1>2, <2>1, WritableStep, KeptIs
  <2>2. CASE ~Writable
    BY <1>2, <2>2, FileStep
  <2> QED
    BY <2>1, <2>2
<1>3. CASE UNCHANGED vars
  <2>1. hdr' = hdr /\ rsv' = rsv /\ tags' = tags /\ names' = names /\ call' = call
    BY <1>3 DEF vars
  <2>2. CallOK(call')
    BY <2>1 DEF BlobInv
  <2> QED
    BY <2>1, <2>2, LeftAlone
<1> QED
  BY <1>1, <1>2, <1>3

\* Every blob is as the invariant says, whatever calls are made.
THEOREM BlobAlways == Spec => []BlobInv
<1>1. BlobInv /\ [Next]_vars => BlobInv'
  BY BlobStep
<1> QED
  BY <1>1, FilesAre, PTL DEF Spec

\* A writable blob is as LayoutSound says.
LEMMA WritableIsSound ==
  ASSUME WritableBlob(hdr, rsv, tags, names)
  PROVE  Writable /\ LayoutSound
<1>1. Describes(hdr, rsv, tags, names) /\ hdr \in Headers /\ GoodHeader(hdr)
  BY DEF WritableBlob, GoodHeader
<1>2. hdr.offStruct \in Nat /\ hdr.offRsv \in Nat /\ Len(rsv) \in Nat
  BY <1>1, HeaderFields, EndedLen DEF Describes
<1>3. hdr.offStruct >= hdr.offRsv + Len(rsv) * EntrySize
  BY <1>1, <1>2 DEF Describes, EntrySize
<1> QED
  BY <1>1, <1>3, WritableIs DEF LayoutSound, Describes

\* The header of a writable blob describes it (LayoutSound): for every blob, every
\* argument, every size of buffer and however many calls.
THEOREM LayoutAlways == Spec => []LayoutSound
<1>1. BlobInv => LayoutSound
  BY WritableIsSound DEF BlobInv, LayoutSound
<1> QED
  BY <1>1, BlobAlways, PTL

\* A blob that was writable once stays so (StaysWritable).
THEOREM WritableForever == Spec => StaysWritable
<1>1. BlobInv /\ [Next]_vars => [Writable => Writable']_vars
  BY BlobStep
<1> QED
  BY <1>1, BlobAlways, PTL DEF Spec, StaysWritable

-----------------------------------------------------------------------------
(***************************************************************************)
(* What an edit leaves where it is (OffsetStays).                          *)
(***************************************************************************)
\* us is as tags is in front of index n, where a node is.
SameTo(us, n) ==
  /\ us \in Seq(TagSet) /\ n <= Len(us) /\ us[n].tag = "begin"
  /\ \A i \in 1 .. n - 1 : us[i] = tags[i]

\* Sequences that are the same up to an index begin with the same.
LEMMA FrontIs ==
  ASSUME tags \in Seq(TagSet), NEW n \in 1 .. Len(tags), NEW us, SameTo(us, n)
  PROVE  SubSeq(us, 1, n - 1) = SubSeq(tags, 1, n - 1) /\ us[n].tag = "begin"
<1> DEFINE m == n - 1
           a == SubSeq(us, 1, m)
           b == SubSeq(tags, 1, m)
<1>1. m \in Nat /\ m <= Len(tags) /\ us \in Seq(TagSet) /\ m <= Len(us) /\ 1 \in Int /\ m \in Int
      /\ Len(us) \in Nat
  BY DEF SameTo
<1>2. \A i \in 1 .. m : us[i] = tags[i] /\ us[i] \in TagSet /\ tags[i] \in TagSet
  <2> SUFFICES ASSUME NEW i \in 1 .. m PROVE us[i] = tags[i] /\ us[i] \in TagSet /\ tags[i] \in TagSet
    OBVIOUS
  <2>1. i \in 1 .. Len(tags) /\ i \in 1 .. Len(us) /\ i \in 1 .. n - 1
    BY <1>1
  <2> QED
    BY <1>1, <2>1 DEF SameTo
<1> HIDE DEF m
<1>3. /\ a \in Seq(TagSet) /\ Len(a) = (IF 1 <= m THEN m - 1 + 1 ELSE 0)
      /\ \A i \in 1 .. m - 1 + 1 : a[i] = us[1 + i - 1]
  BY <1>1, <1>2, SubSeqProperties
<1>4. /\ b \in Seq(TagSet) /\ Len(b) = (IF 1 <= m THEN m - 1 + 1 ELSE 0)
      /\ \A i \in 1 .. m - 1 + 1 : b[i] = tags[1 + i - 1]
  BY <1>1, <1>2, SubSeqProperties
<1> HIDE DEF a, b
<1>5. Len(a) = m /\ Len(b) = m
  BY <1>1, <1>3, <1>4
<1>6. ASSUME NEW i \in 1 .. m PROVE a[i] = b[i]
  <2>1. i \in 1 .. m - 1 + 1 /\ 1 + i - 1 = i
    BY <1>1
  <2> QED
    BY <1>2, <1>3, <1>4, <2>1
<1>7. a = b
  BY <1>3, <1>4, <1>5, <1>6, SeqEqual
<1> QED
  BY <1>7 DEF SameTo, a, b, m

\* What is put behind the first n tags of a splice does not change these.
LEMMA StretchFront ==
  ASSUME tags \in Seq(TagSet), NEW n \in 1 .. Len(tags), tags[n].tag = "begin", NEW us \in Seq(TagSet),
         NEW m \in n .. Len(tags), NEW r \in m .. Len(tags), NEW c \in Nat, Stretches(tags, us, m, r, c)
  PROVE  SameTo(us, n)
<1>1. Len(us) = m + c + (Len(tags) - r) /\ \A i \in 1 .. m : us[i] = tags[i]
  BY DEF Stretches
<1>2. n <= Len(us) /\ n \in 1 .. m
  BY <1>1
<1>3. \A i \in 1 .. n - 1 : us[i] = tags[i]
  BY <1>1, <1>2
<1>4. us[n].tag = "begin"
  BY <1>1, <1>2
<1> QED
  BY <1>2, <1>3, <1>4 DEF SameTo

\* The same tags, or the same but for those behind the node.
LEMMA SameFront ==
  ASSUME tags \in Seq(TagSet), NEW n \in 1 .. Len(tags), tags[n].tag = "begin"
  PROVE  SameTo(tags, n)
BY DEF SameTo

\* A splice leaves the tags or makes them what it is given.
LEMMA SpliceTags ==
  ASSUME NEW h, NEW offset, NEW old, NEW new, NEW us, SpliceStruct(h, offset, old, new, us)
  PROVE  tags' = tags \/ tags' = us
BY DEF SpliceStruct

\* A property that is resized is behind its node, and one is added there.
LEMMA PropertyFront ==
  ASSUME Given, Node > 0, NEW data \in Seq(Chars)
  PROVE  /\ Property.err = "ok" /\ ResizeProperty(Property.at, data) => SameTo(tags', Node)
         /\ \A name \in Seq(Chars) : AddProperty(Node, name, data) => SameTo(tags', Node)
<1> DEFINE n == Node
           i == Property.at
<1>1. tags \in Seq(TagSet) /\ n \in 1 .. Len(tags) /\ tags[n].tag = "begin" /\ Len(tags) \in Nat
  BY GivenIs
<1>2. SameTo(tags, n)
  BY <1>1, SameFront
<1>3. ASSUME Property.err = "ok", ResizeProperty(i, data) PROVE SameTo(tags', n)
  <2>1. i \in n + 1 .. Len(tags) /\ tags[i].tag = "prop"
    BY <1>3, GivenIs
  <2>2. tags' = tags \/ tags' = WithData(i, data)
    BY <1>3, SpliceTags DEF ResizeProperty
  <2> DEFINE us == WithData(i, data)
  <2>3. i \in 1 .. Len(tags)
    BY <1>1, <2>1
  <2>4. us \in Seq(TagSet) /\ Len(us) = Len(tags) /\ \A j \in 1 .. Len(tags) : j # i => us[j] = tags[j]
    BY <1>1, <2>1, <2>3, WithDataIs
  <2> HIDE DEF n, i, us
  <2>5. n # i /\ n \in 1 .. Len(tags) /\ \A j \in 1 .. n - 1 : j # i /\ j \in 1 .. Len(tags)
    BY <1>1, <2>1
  <2>6. SameTo(us, n)
    BY <1>1, <2>4, <2>5 DEF SameTo
  <2> QED
    BY <1>2, <2>2, <2>6 DEF us
<1>4. ASSUME NEW name \in Seq(Chars), AddProperty(n, name, data) PROVE SameTo(tags', n)
  <2> DEFINE place == FindString(name)
             new == Prop(IF place >= 0 THEN place ELSE hdr.sizeStrings, data)
             us == InsertAt(tags, n + 1, new)
  <2>1. tags' = tags \/ tags' = us
    <3>1. n # 0
      BY <1>1
    <3>2. CASE RwRefuse("BADOFFSET") \/ \E e : RwRefuse(e)
      BY <3>2 DEF RwRefuse
    <3>3. CASE \E h, o, l : SpliceStruct(h, o, 0, l, us)
      <4> HIDE DEF us
      <4> QED
        BY <3>3, SpliceTags
    <3> HIDE DEF us
    <3> QED
      BY <1>4, <3>1, <3>2, <3>3 DEF AddProperty, us
  <2>2. CASE tags' = tags
    BY <1>2, <2>2
  <2>3. CASE tags' = us
    <3>1. hdr \in Headers /\ names \in Seq(Seq(Chars))
      BY GivenIs
    <3>2. place \in Int /\ hdr.sizeStrings \in Int
      BY <3>1, FindStringIs, HeaderFields
    <3> HIDE DEF place
    <3>3. new \in TagSet
      BY <3>2 DEF Prop, TagSet
    <3> HIDE DEF new, n
    <3>4. n + 1 \in 1 .. Len(tags) + 1 /\ n + 1 - 1 = n /\ n \in n .. Len(tags)
      BY <1>1
    <3>5. us \in Seq(TagSet) /\ Stretches(tags, us, n, n, 1)
      BY <1>1, <3>3, <3>4, InsertIsSplice
    <3> HIDE DEF us
    <3>6. SameTo(us, n)
      BY <1>1, <3>4, <3>5, StretchFront
    <3> QED
      BY <2>3, <3>6
  <2> QED
    BY <2>1, <2>2, <2>3
<1> QED
  BY <1>3, <1>4

\* The calls through the offset of a node, and the properties of the node before the call.
LEMMA EditsFront ==
  ASSUME Given, Node > 0, SetProp \/ AppendProp
  PROVE  SameTo(tags', Node)
<1> DEFINE n == Node
<1>1. tags \in Seq(TagSet) /\ n \in 1 .. Len(tags) /\ tags[n].tag = "begin"
  BY GivenIs
<1>2. SameTo(tags, n)
  BY <1>1, SameFront
<1>3. call.name \in Seq(Chars) /\ call.val \in Seq(Chars)
  <2>1. call.op \in {"setprop", "appendprop"}
    BY DEF SetProp, AppendProp, Making
  <2> QED
    BY <2>1, ArgumentsAre
<1>4. CASE \E e : RwRefuse(e)
  <2>1. tags' = tags
    BY <1>4 DEF RwRefuse
  <2> QED
    BY <1>2, <2>1
<1>5. CASE AddProperty(n, call.name, call.val)
  BY <1>3, <1>5, PropertyFront
<1>6. CASE Property.err = "ok" /\ ResizeProperty(Property.at, call.val)
  BY <1>3, <1>6, PropertyFront
<1>7. CASE Property.err = "ok" /\ ResizeProperty(Property.at, tags[Property.at].data \o call.val)
  <2>1. Property.at \in 1 .. Len(tags) /\ tags[Property.at].tag = "prop"
    BY <1>7, GivenIs
  <2>2. tags[Property.at] \in TagSet
    BY <1>1, <2>1
  <2>3. tags[Property.at].data \in Seq(Chars)
    BY <2>1, <2>2, TagFields
  <2>4. tags[Property.at].data \o call.val \in Seq(Chars)
    BY <1>3, <2>3, ConcatProperties
  <2> QED
    BY <1>7, <2>4, PropertyFront
<1>8. CASE SetProp
  <2>1. CASE Property.err = "ok"
    BY <1>6, <1>8, <2>1 DEF SetProp
  <2>2. CASE Property.err = "NOTFOUND"
    BY <1>5, <1>8, <2>2 DEF SetProp
  <2>3. CASE Property.err \notin {"ok", "NOTFOUND"}
    <3>1. RwRefuse(Property.err)
      BY <1>8, <2>3 DEF SetProp
    <3> QED
      BY <1>4, <3>1
  <2> QED
    BY <2>1, <2>2, <2>3
<1>9. CASE AppendProp
  <2>1. CASE Property.err = "ok"
    BY <1>7, <1>9, <2>1 DEF AppendProp
  <2>2. CASE Property.err # "ok"
    BY <1>5, <1>9, <2>2 DEF AppendProp
  <2> QED
    BY <2>1, <2>2
<1> QED
  BY <1>8, <1>9

\* fdt_delprop cuts a property behind its node's tag.
LEMMA DelPropFront ==
  ASSUME Given, Node > 0, DelProp
  PROVE  SameTo(tags', Node)
<1> DEFINE n == Node
           i == Property.at
           us == RemoveAt(tags, i)
<1>1. tags \in Seq(TagSet) /\ n \in 1 .. Len(tags) /\ tags[n].tag = "begin" /\ Len(tags) \in Nat
  BY GivenIs
<1>2. SameTo(tags, n)
  BY <1>1, SameFront
<1>3. CASE Property.err # "ok"
  <2>1. tags' = tags
    BY <1>3 DEF DelProp, RwRefuse
  <2> QED
    BY <1>2, <2>1
<1>4. CASE Property.err = "ok"
  <2>1. tags' = tags \/ tags' = us
    BY <1>4, SpliceTags DEF DelProp
  <2>2. i \in n + 1 .. Len(tags)
    BY <1>4, GivenIs
  <2> HIDE DEF i, n
  <2> DEFINE m == i - 1
  <2>3. m \in n .. Len(tags) /\ m \in 0 .. Len(tags) /\ i \in m .. Len(tags)
    BY <1>1, <2>2
  <2>4. us = SubSeq(tags, 1, m) \o SubSeq(tags, i + 1, Len(tags))
    BY DEF RemoveAt
  <2> HIDE DEF m, us
  <2>5. us \in Seq(TagSet) /\ Stretches(tags, us, m, i, 0)
    BY <1>1, <2>3, <2>4, CutIsSplice
  <2>6. SameTo(us, n)
    BY <1>1, <2>3, <2>5, StretchFront
  <2> QED
    BY <1>2, <2>1, <2>6 DEF n
<1> QED
  BY <1>3, <1>4

\* fdt_set_name gives the tag another name.
LEMMA SetNameFront ==
  ASSUME Given, Node > 0, SetName
  PROVE  SameTo(tags', Node)
<1> DEFINE n == Node
           us == [tags EXCEPT ![n].name = call.name]
<1>1. tags \in Seq(TagSet) /\ n \in 1 .. Len(tags) /\ tags[n].tag = "begin" /\ Len(tags) \in Nat
  BY GivenIs
<1>2. SameTo(tags, n)
  BY <1>1, SameFront
<1>3. call.name \in Seq(Chars)
  <2>1. call.op = "set_name"
    BY DEF SetName, Making
  <2> QED
    BY <2>1, ArgumentsAre
<1>4. tags' = tags \/ tags' = us
  <2>1. n # 0
    BY <1>1
  <2> QED
    BY <2>1, SpliceTags DEF SetName
<1> HIDE DEF n
<1>5. tags[n] \in [tag : {"begin"}, name : Seq(Chars)]
  <2>1. tags[n] \in TagSet
    BY <1>1
  <2> QED
    BY <1>1, <2>1 DEF TagSet
<1> DEFINE t == [tags[n] EXCEPT !.name = call.name]
<1>6. t \in TagSet /\ t.tag = "begin"
  BY <1>3, <1>5 DEF TagSet
<1> HIDE DEF t
<1>7. us = [tags EXCEPT ![n] = t]
  BY DEF t
<1>8. us \in Seq(TagSet) /\ Len(us) = Len(tags) /\ \A j \in 1 .. Len(tags) : us[j] = IF j = n THEN t ELSE tags[j]
  BY <1>1, <1>6, <1>7, ExceptSeq
<1> HIDE DEF us
<1>9. us[n].tag = "begin" /\ n <= Len(us)
  BY <1>1, <1>6, <1>8
<1>10. \A j \in 1 .. n - 1 : us[j] = tags[j]
  BY <1>1, <1>8
<1>11. SameTo(us, n)
  BY <1>8, <1>9, <1>10 DEF SameTo
<1> QED
  BY <1>2, <1>4, <1>11 DEF n

\* fdt_add_subnode puts the node behind the properties of its parent.
LEMMA AddSubnodeFront ==
  ASSUME Given, Node > 0, AddSubnode
  PROVE  SameTo(tags', Node)
<1> DEFINE n == Node
           i == AfterProps(n)
           t == Begin(call.name)
           mid == <<t, EndNode>>
           us == SubSeq(tags, 1, i - 1) \o mid \o SubSeq(tags, i, Len(tags))
<1>1. tags \in Seq(TagSet) /\ n \in 1 .. Len(tags) /\ tags[n].tag = "begin" /\ Len(tags) \in Nat
  BY GivenIs
<1>2. SameTo(tags, n)
  BY <1>1, SameFront
<1>3. call.name \in Seq(Chars)
  <2>1. call.op = "add_subnode"
    BY DEF AddSubnode, Making
  <2> QED
    BY <2>1, ArgumentsAre
<1>4. tags' = tags \/ tags' = us
  <2> DEFINE twin == Subnode(n, call.name)
  <2>1. CASE twin.err = "NOTFOUND"
    <3>1. \E o, l : SpliceStruct(Checked, o, 0, l, us)
      BY <2>1 DEF AddSubnode
    <3> HIDE DEF us
    <3> QED
      BY <3>1, SpliceTags
  <2>2. CASE twin.err # "NOTFOUND"
    <3>1. RwRefuse("EXISTS") \/ RwRefuse(twin.err)
      BY <2>2 DEF AddSubnode
    <3> QED
      BY <3>1 DEF RwRefuse
  <2> QED
    BY <2>1, <2>2
<1>5. i \in n + 1 .. Len(tags) + 1
  BY <1>1, AfterPropsIs
<1>6. t \in TagSet /\ EndNode \in TagSet
  BY <1>3 DEF Begin, EndNode, TagSet
<1>7. mid \in Seq(TagSet) /\ Len(mid) \in Nat
  BY <1>6
<1> HIDE DEF i, n, t, mid
<1> DEFINE m == i - 1
<1>8. m \in n .. Len(tags) /\ m \in 0 .. Len(tags) /\ m \in m .. Len(tags) /\ m + 1 = i
  BY <1>1, <1>5
<1>9. us = Spliced(tags, m, mid, m)
  BY <1>8 DEF Spliced
<1> HIDE DEF us, m
<1>10. us \in Seq(TagSet) /\ Stretches(tags, us, m, m, Len(mid))
  BY <1>1, <1>7, <1>8, <1>9, SplicedIs
<1>11. SameTo(us, n)
  BY <1>1, <1>7, <1>8, <1>10, StretchFront
<1> QED
  BY <1>2, <1>4, <1>11 DEF n

\* A call that needs a writable blob and is made of one that is not.
LEMMA RefusedFront ==
  ASSUME BlobInv, Node > 0, NotWritable
  PROVE  SameTo(tags', Node)
<1>1. tags \in Seq(TagSet)
  BY DEF BlobInv, NotWritable, FileBlob
<1>2. Node \in 1 .. Len(tags) /\ tags[Node].tag = "begin"
  <2>1. Len(tags) \in Nat /\ Node \in 0 .. Len(tags) /\ (Node > 0 => tags[Node].tag = "begin")
    BY <1>1, NodeAtIs DEF Node
  <2> HIDE DEF Node
  <2> QED
    BY <2>1
<1>3. tags' = tags
  BY DEF NotWritable, Refuse, Unchanged
<1> QED
  BY <1>1, <1>2, <1>3, SameFront

\* The steps that end a call through the offset of a node.
LEMMA FrontStep ==
  ASSUME BlobInv, [Next]_vars, call'.op = "idle", Node > 0,
         call.op \in {"setprop", "appendprop", "delprop", "set_name", "add_subnode"}
  PROVE  SameTo(tags', Node)
<1>1. CASE NotWritable
  BY <1>1, RefusedFront
<1>2. ASSUME SetProp \/ AppendProp \/ DelProp \/ SetName \/ AddSubnode PROVE Given
  <2>1. Writable
    BY <1>2, NeedsWritable
  <2> QED
    BY <2>1 DEF BlobInv, Given
<1>3. CASE SetProp \/ AppendProp
  BY <1>2, <1>3, EditsFront
<1>4. CASE DelProp
  BY <1>2, <1>4, DelPropFront
<1>5. CASE SetName
  BY <1>2, <1>5, SetNameFront
<1>6. CASE AddSubnode
  BY <1>2, <1>6, AddSubnodeFront
<1>7. ~Ask /\ ~DelNode /\ ~SetPropInPlace /\ ~NopProperty /\ ~NopNode /\ ~AddMemRsv /\ ~DelMemRsv
      /\ ~Pack /\ ~OpenInto
  BY DEF Ask, DelNode, SetPropInPlace, NopProperty, NopNode, AddMemRsv, DelMemRsv, Pack, OpenInto, Making
<1>8. ~UNCHANGED vars
  BY DEF vars
<1> QED
  BY <1>1, <1>3, <1>4, <1>5, <1>6, <1>7, <1>8 DEF Next

\* A call moves nothing that is in front of the node it is about (OffsetStays).
THEOREM OffsetsStay == Spec => OffsetStays
<1>1. BlobInv /\ [Next]_vars =>
        [/\ call.op \in {"setprop", "appendprop", "delprop", "set_name", "add_subnode"}
         /\ call'.op = "idle" /\ Node > 0
         => /\ SubSeq(tags', 1, Node - 1) = SubSeq(tags, 1, Node - 1)
            /\ tags'[Node].tag = "begin"]_vars
  <2> SUFFICES ASSUME BlobInv, [Next]_vars, call'.op = "idle", Node > 0,
                      call.op \in {"setprop", "appendprop", "delprop", "set_name", "add_subnode"}
               PROVE  /\ SubSeq(tags', 1, Node - 1) = SubSeq(tags, 1, Node - 1)
                      /\ tags'[Node].tag = "begin"
    OBVIOUS
  <2>1. SameTo(tags', Node)
    BY FrontStep
  <2>2. tags \in Seq(TagSet)
    BY DEF BlobInv, WritableBlob, Describes, FileBlob
  <2>3. Node \in 1 .. Len(tags)
    <3>1. Len(tags) \in Nat /\ Node \in 0 .. Len(tags)
      BY <2>2, NodeAtIs DEF Node
    <3> HIDE DEF Node
    <3> QED
      BY <3>1
  <2> HIDE DEF Node
  <2> QED
    BY <2>1, <2>2, <2>3, FrontIs
<1> QED
  BY <1>1, BlobAlways, PTL DEF Spec, OffsetStays

-----------------------------------------------------------------------------
(***************************************************************************)
(* The strings section (NoStringTwice).                                    *)
(***************************************************************************)
\* What a call may do to the strings section: leave it, lose it, or put a string behind
\* it that is found nowhere in it.
NamesStep ==
  \/ names' = names \/ names' = <<>>
  \/ \E s \in Seq(Chars) : FindString(s) < 0 /\ names' = Append(names, s)

\* _fdt_find_add_string, inlined in _fdt_add_property
LEMMA AddPropertyNames ==
  ASSUME names \in Seq(Seq(Chars)), NEW i, NEW name \in Seq(Chars), NEW data, AddProperty(i, name, data)
  PROVE  NamesStep
<1>1. CASE names' = names
  BY <1>1 DEF NamesStep
<1>2. CASE names' = IF FindString(name) >= 0 THEN names ELSE Append(names, name)
  <2>1. FindString(name) \in Int
    BY FindStringIs
  <2>2. CASE FindString(name) >= 0
    BY <1>2, <2>2 DEF NamesStep
  <2>3. CASE ~(FindString(name) >= 0)
    <3>1. FindString(name) < 0 /\ names' = Append(names, name)
      BY <1>2, <2>1, <2>3
    <3> QED
      BY <3>1 DEF NamesStep
  <2> QED
    BY <2>2, <2>3
<1>3. \A e : RwRefuse(e) => names' = names
  BY DEF RwRefuse
<1> QED
  BY <1>1, <1>2, <1>3 DEF AddProperty

\* The strings of a blob that is put together.
LEMMA PackNames ==
  ASSUME NEW h, NEW base, NEW r, NEW s, names' = PackBlocks(h, base, r, s).names
  PROVE  NamesStep
BY DEF PackBlocks, NamesStep

\* Every call.
LEMMA NamesSteps ==
  ASSUME names \in Seq(Seq(Chars)), CallOK(call), [Next]_vars
  PROVE  NamesStep
<1>1. CASE names' = names
  BY <1>1 DEF NamesStep
<1>2. \A e : RwRefuse(e) \/ Refuse(e) => names' = names
  BY DEF RwRefuse, Refuse, Unchanged
<1>3. CASE SetProp \/ AppendProp
  <2>1. call.op \in {"setprop", "appendprop"}
    BY <1>3 DEF SetProp, AppendProp, Making
  <2>2. call.name \in Seq(Chars)
    <3>1. call.name \in PropNames
      BY <2>1 DEF CallOK
    <3> QED
      BY <3>1, ArgumentsAssumption DEF ArgumentsAssumption
  <2>3. CASE AddProperty(Node, call.name, call.val)
    BY <2>2, <2>3, AddPropertyNames
  <2>4. CASE SetProp
    BY <1>1, <1>2, <2>3, <2>4 DEF SetProp
  <2>5. CASE AppendProp
    BY <1>1, <2>3, <2>5 DEF AppendProp
  <2> QED
    BY <1>3, <2>4, <2>5
<1>4. CASE DelProp
  BY <1>1, <1>2, <1>4 DEF DelProp
<1>5. CASE SetName
  BY <1>1, <1>2, <1>5 DEF SetName
<1>6. CASE AddSubnode
  <2> DEFINE twin == Subnode(Node, call.name)
  <2>1. CASE twin.err = "NOTFOUND"
    BY <1>1, <1>6, <2>1 DEF AddSubnode
  <2>2. CASE twin.err # "NOTFOUND"
    <3>1. RwRefuse("EXISTS") \/ RwRefuse(twin.err)
      BY <1>6, <2>2 DEF AddSubnode
    <3> QED
      BY <1>1, <1>2, <3>1
  <2> QED
    BY <2>1, <2>2
<1>7. CASE DelNode
  BY <1>1, <1>2, <1>7 DEF DelNode
<1>8. CASE SetPropInPlace \/ NopProperty \/ NopNode
  <2>1. names' = names
    BY <1>2, <1>8 DEF SetPropInPlace, NopProperty, NopNode
  <2> QED
    BY <1>1, <2>1
<1>9. CASE AddMemRsv \/ DelMemRsv
  <2>1. names' = names
    BY <1>2, <1>9 DEF AddMemRsv, DelMemRsv, SpliceRsv
  <2> QED
    BY <1>1, <2>1
<1>10. CASE Pack
  <2>1. \E r : names' = PackBlocks(Checked, 0, r, hdr.sizeStruct).names
    BY <1>10 DEF Pack
  <2> QED
    BY <2>1, PackNames
<1>11. CASE OpenInto
  <2>1. names' = names \/ \E r : names' = PackBlocks(hdr, Scratch, r, StructSize).names
    BY <1>2, <1>11 DEF OpenInto
  <2> QED
    BY <1>1, <2>1, PackNames
<1>12. CASE Ask \/ NotWritable \/ UNCHANGED vars
  <2>1. names' = names
    BY <1>12 DEF Ask, NotWritable, Refuse, Unchanged, vars
  <2> QED
    BY <1>1, <2>1
<1> QED
  BY <1>3, <1>4, <1>5, <1>6, <1>7, <1>8, <1>9, <1>10, <1>11, <1>12 DEF Next

\* Strings none of which is the tail of an earlier one.
NoTails(ss) == \A k \in 1 .. Len(ss) : \A j \in 1 .. k - 1 : ~IsSuffix(ss[k], ss[j])

\* One that is the tail of none can be put behind them.
LEMMA NoTailsMore ==
  ASSUME NEW ss \in Seq(Seq(Chars)), NoTails(ss), NEW s \in Seq(Chars),
         \A k \in 1 .. Len(ss) : ~IsSuffix(s, ss[k])
  PROVE  NoTails(Append(ss, s))
<1> DEFINE us == Append(ss, s)
           n == Len(ss)
<1>1. n \in Nat /\ Len(us) = n + 1 /\ us[n + 1] = s
  OBVIOUS
<1>2. \A k \in 1 .. n : us[k] = ss[k]
  OBVIOUS
<1> HIDE DEF us
<1>3. ASSUME NEW k \in 1 .. n + 1, NEW j \in 1 .. k - 1 PROVE ~IsSuffix(us[k], us[j])
  <2>1. j \in 1 .. n /\ us[j] = ss[j]
    <3>1. j \in 1 .. n
      BY <1>1 DEF n
    <3> QED
      BY <1>2, <3>1
  <2>2. CASE k = n + 1
    <3>1. us[k] = s
      BY <1>1, <2>2
    <3>2. ~IsSuffix(s, ss[j])
      BY <2>1
    <3> QED
      BY <2>1, <3>1, <3>2
  <2>3. CASE k # n + 1
    <3>1. k \in 1 .. n
      BY <1>1, <2>3
    <3>2. us[k] = ss[k]
      BY <1>2, <3>1
    <3>3. ~IsSuffix(ss[k], ss[j])
      BY <3>1 DEF NoTails
    <3> QED
      BY <2>1, <3>2, <3>3
  <2> QED
    BY <2>2, <2>3
<1>4. NoTails(us)
  BY <1>1, <1>3 DEF NoTails
<1> QED
  BY <1>4 DEF us

\* No string is put twice into a blob that has none twice (NoStringTwice), and none
\* that is the tail of another: whatever calls fail, and whatever properties are deleted.
THEOREM NoStringEver == Spec /\ NoStringTwice => []NoStringTwice
<1>1. BlobInv => names \in Seq(Seq(Chars)) /\ CallOK(call)
  BY DEF BlobInv, WritableBlob, Describes, FileBlob
<1>2. ASSUME names \in Seq(Seq(Chars)) PROVE NoStringTwice <=> NoTails(names)
  <2>1. DOMAIN names = 1 .. Len(names)
    BY <1>2
  <2>2. NoStringTwice <=> \A k \in 1 .. Len(names) : \A j \in 1 .. k - 1 : ~IsSuffix(names[k], names[j])
    BY <2>1, Zenon DEF NoStringTwice
  <2> QED
    BY <2>2, Zenon DEF NoTails
<1>3. BlobInv /\ BlobInv' /\ NoStringTwice /\ [Next]_vars => NoStringTwice'
  <2> SUFFICES ASSUME BlobInv, BlobInv', NoStringTwice, [Next]_vars PROVE NoStringTwice'
    OBVIOUS
  <2>1. names \in Seq(Seq(Chars)) /\ NoTails(names) /\ NamesStep
    BY <1>1, <1>2, NamesSteps
  <2>2. names' \in Seq(Seq(Chars))
    BY DEF BlobInv, WritableBlob, Describes, FileBlob
  <2>3. NoTails(names')
    <3>1. CASE names' = names
      BY <2>1, <3>1
    <3>2. CASE names' = <<>>
      BY <3>2 DEF NoTails
    <3>3. ASSUME NEW s \in Seq(Chars), FindString(s) < 0, names' = Append(names, s) PROVE NoTails(names')
      <4>1. \A k \in 1 .. Len(names) : ~IsSuffix(s, names[k])
        BY <2>1, <3>3, FindStringIs
      <4> QED
        BY <2>1, <3>3, <4>1, NoTailsMore
    <3> QED
      BY <2>1, <3>1, <3>2, <3>3 DEF NamesStep
  <2> QED
    BY <2>2, <2>3 DEF NoStringTwice, NoTails
<1> QED
  BY <1>3, BlobAlways, PTL DEF Spec

-----------------------------------------------------------------------------
(***************************************************************************)
(* The sequential interface: a blob that grows from both ends.             *)
(***************************************************************************)
\* Tags of the same lengths take the same space.
LEMMA SameLens ==
  ASSUME NEW ts \in Seq(TagSet), NEW us \in Seq(TagSet), Len(ts) = Len(us),
         \A i \in 1 .. Len(ts) : TagLen(us[i]) = TagLen(ts[i])
  PROVE  SizeOf(us) = SizeOf(ts)
<1>1. TagLens(us) = TagLens(ts)
  BY DEF TagLens
<1> QED
  BY <1>1 DEF SizeOf

\* A tag at the end takes its length more.
LEMMA SizeAppended ==
  ASSUME NEW ts \in Seq(TagSet), NEW t \in TagSet
  PROVE  /\ Append(ts, t) \in Seq(TagSet) /\ Len(Append(ts, t)) = Len(ts) + 1
         /\ SizeOf(Append(ts, t)) = SizeOf(ts) + TagLen(t)
<1> DEFINE us == Append(ts, t)
           n == Len(ts)
<1>1. n \in Nat /\ us \in Seq(TagSet) /\ Len(us) = n + 1 /\ us[n + 1] = t /\ \A i \in 1 .. n : us[i] = ts[i]
  OBVIOUS
<1> HIDE DEF us
<1>2. n \in 0 .. Len(ts) /\ n \in n .. Len(ts) /\ 1 \in Nat
  BY <1>1
<1>3. Stretches(ts, us, n, n, 1)
  <2>1. Len(us) = n + 1 + (Len(ts) - n)
    BY <1>1
  <2>2. 1 .. Len(ts) - n = {}
    BY <1>1
  <2> QED
    BY <1>1, <2>1, <2>2 DEF Stretches
<1> HIDE DEF n
<1>4. SizeOf(us) = SizeOf(ts) - (Bytes(ts)[n] - Bytes(ts)[n]) + (Bytes(us)[n + 1] - Bytes(us)[n])
  BY <1>1, <1>2, <1>3, SizeSpliced
<1>5. Bytes(us)[n + 1] = Bytes(us)[n] + TagLen(us[n + 1])
  <2> DEFINE k == n + 1
  <2>1. k = n + 1 /\ k \in 1 .. Len(us)
    BY <1>1
  <2> HIDE DEF k
  <2>2. Bytes(us)[k] = Bytes(us)[n] + TagLen(us[k])
    BY <1>1, <2>1, BytesStep
  <2> QED
    BY <2>1, <2>2
<1> DEFINE a == Bytes(ts)[n] b == Bytes(us)[n] c == Bytes(us)[n + 1] l == TagLen(t) s == SizeOf(ts) z == SizeOf(us)
<1>6. a \in Nat /\ b \in Nat /\ l \in Nat /\ s \in Nat
  <2>1. n \in 0 .. Len(us)
    BY <1>1
  <2> QED
    BY <1>1, <1>2, <2>1, BytesIs, TagLenIs
<1>7. z = s - (a - a) + (c - b) /\ c = b + l
  BY <1>1, <1>4, <1>5
<1> HIDE DEF a, b, c, l, s, z
<1>8. z = s + l
  BY <1>6, <1>7
<1> QED
  BY <1>1, <1>8 DEF us, n, z, s, l

\* A structure section with a tag in it is not empty.
LEMMA SomeBytes ==
  ASSUME NEW ts \in Seq(TagSet), Len(ts) > 0
  PROVE  SizeOf(ts) > 0
<1> DEFINE n == Len(ts)
           m == n - 1
<1>1. n \in 1 .. Len(ts) /\ m \in Nat /\ n = m + 1 /\ m \in 0 .. Len(ts)
  OBVIOUS
<1> HIDE DEF m
<1>2. Bytes(ts)[n] = Bytes(ts)[m] + TagLen(ts[n]) /\ ts[n] \in TagSet
  BY <1>1, BytesStep
<1>3. Bytes(ts)[m] \in Nat /\ TagLen(ts[n]) \in Nat /\ TagLen(ts[n]) >= 4 /\ SizeOf(ts) = Bytes(ts)[n]
  BY <1>1, <1>2, BytesIs, TagLenIs
<1> QED
  BY <1>2, <1>3

\* A blob while it is being written: its strings have been counted down from its end.
Growing(h, rs, ts, ss) ==
  /\ h \in Headers /\ rs \in Seq(Entries \cup {"empty"}) /\ ts \in Seq(TagSet) /\ ss \in Seq(Seq(Chars))
  /\ h.version = 17 /\ h.lastComp = 16 /\ h.offRsv = 48 /\ h.offStruct = 48 + Len(rs) * 16
  /\ h.sizeStruct = SizeOf(ts) /\ h.sizeStrings = StringBytes(ss)
  /\ Len(rs) > 0 => h.offStruct + h.sizeStruct + h.sizeStrings <= h.total
  /\ Len(ts) > 0 => EndedMap(rs)
  /\ Len(ss) > 0 => Len(ts) > 0

\* What is known of a call of the sequential interface when it is made.
SwCallOK(c) ==
  /\ CallOK(c)
  /\ c.op = "create" => c.size \in BufSizes
  /\ c.op = "add_reservemap_entry" => c.range \in Entries \cup {"empty"}
  /\ c.op = "begin_node" => c.name \in Seq(Chars)
  /\ c.op = "property" => c.name \in PropNames /\ c.val \in Values
\* What a caller has seen to when the call is made: a node only behind the end of the
\* reserve map, a property only in a node.
Ready(c, rs, ts) ==
  /\ c.op \in {"begin_node", "property", "end_node", "finish"} => EndedMap(rs)
  /\ c.op = "property" => Len(ts) > 0

\* The room that is found is there.
LEMMA RoomIs ==
  ASSUME NEW h \in Headers, NEW len \in Nat, ~GrabFails(h, len),
         h.offStruct + h.sizeStruct + h.sizeStrings <= h.total
  PROVE  h.offStruct + (h.sizeStruct + len) + h.sizeStrings <= h.total
<1> DEFINE s == h.offStruct n == h.sizeStruct m == h.sizeStrings all == h.total
<1>1. s \in Nat /\ n \in Nat /\ m \in Nat /\ all \in Nat
  BY HeaderFields
<1>2. ~(all - s - m >= 0 /\ n + len > all - s - m) /\ s + n + m <= all
  BY DEF GrabFails, SpaceLeft
<1> HIDE DEF s, n, m, all
<1>3. s + (n + len) + m <= all
  BY <1>1, <1>2
<1> QED
  BY <1>3 DEF s, n, m, all

\* A tag that is written, or not, leaves a growing blob.
LEMMA WriteGrows ==
  ASSUME NEW h, NEW ss, NEW t \in TagSet, EndedMap(rsv), Write(h, t),
         Growing(h, rsv, tags, ss), names' = ss, Len(ss) > 0 => Len(tags) > 0
  PROVE  Growing(hdr', rsv', tags', names') /\ rsv' = rsv /\ call' = [op |-> "idle"]
         /\ magic' = magic /\ script' = script
<1>1. Len(rsv) \in Nat /\ Len(rsv) >= 1
  BY EndedLen
<1>2. rsv' = rsv /\ call' = [op |-> "idle"] /\ magic' = magic /\ script' = script
  BY DEF Write, Return
<1>3. CASE GrabFails(h, TagLen(t))
  <2>1. hdr' = h /\ tags' = tags
    BY <1>3 DEF Write
  <2> QED
    BY <1>2, <2>1
<1>4. CASE ~GrabFails(h, TagLen(t))
  <2> DEFINE l == TagLen(t)
             n2 == h.sizeStruct + l
             g == [h EXCEPT !.sizeStruct = n2]
             us == Append(tags, t)
  <2>1. hdr' = g /\ tags' = us
    BY <1>4 DEF Write
  <2>2. h \in Headers /\ tags \in Seq(TagSet) /\ h.sizeStruct = SizeOf(tags) /\ l \in Nat
        /\ h.sizeStruct \in Nat
    BY TagLenIs, HeaderFields DEF Growing
  <2>3. h.offStruct + h.sizeStruct + h.sizeStrings <= h.total
    BY <1>1 DEF Growing
  <2>4. h.offStruct + n2 + h.sizeStrings <= h.total
    BY <1>4, <2>2, <2>3, RoomIs
  <2>5. us \in Seq(TagSet) /\ Len(us) = Len(tags) + 1 /\ SizeOf(us) = n2 /\ n2 \in Nat
    BY <2>2, SizeAppended
  <2> HIDE DEF us, n2
  <2>6. /\ g \in Headers /\ g.version = h.version /\ g.lastComp = h.lastComp /\ g.offRsv = h.offRsv
        /\ g.offStruct = h.offStruct /\ g.sizeStruct = n2 /\ g.sizeStrings = h.sizeStrings /\ g.total = h.total
    BY <2>2, <2>5 DEF Headers
  <2> HIDE DEF g
  <2>7. g.offStruct + g.sizeStruct + g.sizeStrings <= g.total
    BY <2>4, <2>6
  <2>8. Len(us) > 0
    BY <2>2, <2>5
  <2>9. Growing(g, rsv, us, ss)
    BY <2>5, <2>6, <2>7, <2>8 DEF Growing
  <2> QED
    BY <1>2, <2>1, <2>9
<1> QED
  BY <1>3, <1>4

\* What is left of the script of fdt_create_empty_tree after each of its calls.
BeginRoot == [op |-> "begin_node", name |-> <<>>]
OpenIt(size) == [op |-> "open_into", size |-> size, inPlace |-> TRUE]
AfterCreate(size) == <<FinishReservemap, BeginRoot, [op |-> "end_node"], [op |-> "finish"], OpenIt(size)>>
AfterMap(size) == <<BeginRoot, [op |-> "end_node"], [op |-> "finish"], OpenIt(size)>>
AfterBegin(size) == <<[op |-> "end_node"], [op |-> "finish"], OpenIt(size)>>
AfterEnd(size) == <<[op |-> "finish"], OpenIt(size)>>
AfterFinish(size) == <<OpenIt(size)>>

\* The reserve map of a blob that is being written has its end.
Mapped == magic = "sw" => EndedMap(rsv)

\* When the script goes on, what its calls need is there.
ScriptInv ==
  \/ script = <<>>
  \/ \E size \in BufSizes :
       \/ script = AfterCreate(size) /\ call.op \in {"create", "idle"}
       \/ /\ script = AfterMap(size)
          /\ call = FinishReservemap \/ (call.op = "idle" /\ (ret = "ok" => Mapped))
       \/ /\ script \in {AfterBegin(size), AfterEnd(size), AfterFinish(size)}
          /\ call.op \in {"idle", "begin_node", "end_node", "finish"} /\ Mapped

\* A blob that grows, a finished one, or none.
SwInv ==
  /\ SwCallOK(call) /\ ScriptInv
  /\ magic = "sw" => Growing(hdr, rsv, tags, names) /\ Ready(call, rsv, tags)
  /\ magic = "fdt" => WritableBlob(hdr, rsv, tags, names)

\* The calls of the script, one after the other.
LEMMA ScriptParts ==
  ASSUME NEW size
  PROVE  /\ Head(AfterCreate(size)) = FinishReservemap /\ Tail(AfterCreate(size)) = AfterMap(size)
         /\ Head(AfterMap(size)) = BeginRoot /\ Tail(AfterMap(size)) = AfterBegin(size)
         /\ Head(AfterBegin(size)) = [op |-> "end_node"] /\ Tail(AfterBegin(size)) = AfterEnd(size)
         /\ Head(AfterEnd(size)) = [op |-> "finish"] /\ Tail(AfterEnd(size)) = AfterFinish(size)
         /\ Head(AfterFinish(size)) = OpenIt(size) /\ Tail(AfterFinish(size)) = <<>>
BY DEF AfterCreate, AfterMap, AfterBegin, AfterEnd, AfterFinish

\* No call.
LEMMA SwIdleOK == SwCallOK([op |-> "idle"]) /\ \A rs, ts : Ready([op |-> "idle"], rs, ts)
BY IdleOK DEF SwCallOK, Ready

\* The script while a call ends.
LEMMA ScriptKept ==
  ASSUME ScriptInv, call' = [op |-> "idle"], script' = script, Mapped => Mapped',
         call = FinishReservemap /\ ret' = "ok" => Mapped', call.op # "idle"
  PROVE  ScriptInv'
<1>1. CASE script = <<>>
  BY <1>1 DEF ScriptInv
<1>2. ASSUME NEW size \in BufSizes, script = AfterCreate(size) PROVE ScriptInv'
  BY <1>2 DEF ScriptInv
<1>3. ASSUME NEW size \in BufSizes, script = AfterMap(size),
             call = FinishReservemap \/ (call.op = "idle" /\ (ret = "ok" => Mapped))
      PROVE  ScriptInv'
  <2>1. call = FinishReservemap
    BY <1>3
  <2> QED
    BY <1>3, <2>1 DEF ScriptInv
<1>4. ASSUME NEW size \in BufSizes, script \in {AfterBegin(size), AfterEnd(size), AfterFinish(size)}, Mapped
      PROVE  ScriptInv'
  BY <1>4 DEF ScriptInv
<1> QED
  BY <1>1, <1>2, <1>3, <1>4 DEF ScriptInv

\* The end of a call that leaves the blob growing.
LEMMA StillGrowing ==
  ASSUME SwInv, magic = "sw", magic' = "sw", Growing(hdr', rsv', tags', names'),
         call' = [op |-> "idle"], script' = script, rsv' = rsv, call.op \notin {"idle", "add_reservemap_entry"}
  PROVE  SwInv'
<1>1. call # FinishReservemap
  BY DEF FinishReservemap
<1>2. Mapped => Mapped'
  BY DEF Mapped
<1>3. ScriptInv'
  BY <1>1, <1>2, ScriptKept DEF SwInv
<1> QED
  BY <1>3, SwIdleOK DEF SwInv

\* A call that is refused.
LEMMA SwRefused ==
  ASSUME SwInv, NEW e, e # "ok", SwRefuse(e), call.op # "idle"
  PROVE  SwInv'
<1>1. /\ hdr' = hdr /\ rsv' = rsv /\ tags' = tags /\ names' = names /\ call' = [op |-> "idle"]
      /\ ret' = e /\ magic' = magic /\ script' = script
  BY DEF SwRefuse, Refuse, Return, Unchanged
<1>2. Mapped => Mapped'
  BY <1>1 DEF Mapped
<1>3. ScriptInv'
  BY <1>1, <1>2, ScriptKept DEF SwInv
<1> QED
  BY <1>1, <1>3, SwIdleOK DEF SwInv

\* fdt_create
LEMMA CreateIs == ASSUME SwInv, Create PROVE SwInv'
<1> DEFINE size == call.size
           first == ((HeaderSize + EntrySize - 1) \div EntrySize) * EntrySize
<1>1. call.op = "create"
  BY DEF Create
<1>2. size \in Nat
  <2>1. size \in BufSizes
    BY <1>1 DEF SwInv, SwCallOK
  <2> QED
    BY <2>1, ArgumentsAssumption DEF ArgumentsAssumption
<1>3. CASE size < HeaderSize
  BY <1>1, <1>3, SwRefused DEF Create
<1>4. CASE ~(size < HeaderSize)
  <2>1. first = 48
    BY DEF HeaderSize, EntrySize
  <2>2. /\ hdr' = [NoHeader EXCEPT !.version = LastVersion, !.lastComp = FirstVersion,
                     !.total = size, !.offRsv = first, !.offStruct = first, !.offStrings = size]
        /\ rsv' = <<>> /\ tags' = <<>> /\ names' = <<>>
        /\ magic' = "sw" /\ script' = script /\ call' = [op |-> "idle"]
    BY <1>4 DEF Create, Return
  <2> HIDE DEF first, size
  <2>3. hdr' = [version |-> 17, lastComp |-> 16, cpu |-> 0, offRsv |-> 48, offStruct |-> 48, sizeStruct |-> 0,
                offStrings |-> size, sizeStrings |-> 0, total |-> size]
    BY <2>1, <2>2 DEF NoHeader, LastVersion, FirstVersion
  <2>4. hdr' \in Headers
    BY <1>2, <2>3 DEF Headers
  <2>5. /\ <<>> \in Seq(TagSet) /\ <<>> \in Seq(Seq(Chars)) /\ <<>> \in Seq(Entries \cup {"empty"})
        /\ Len(<<>>) = 0
    OBVIOUS
  <2>6. SizeOf(<<>>) = 0
    <3>1. SizeOf(<<>>) = Bytes(<<>>)[Len(<<>>)]
      BY <2>5, BytesIs
    <3>2. Bytes(<<>>)[0] = 0
      BY <2>5, BytesIs
    <3> QED
      BY <2>5, <3>1, <3>2
  <2>7. StringBytes(<<>>) = 0
    <3>1. StringLens(<<>>) \in Seq(Nat) /\ Len(StringLens(<<>>)) = 0
      BY <2>5, StringLensIs
    <3>2. Before(StringLens(<<>>))[0] = 0
      BY <3>1, BeforeIs
    <3> QED
      BY <2>5, <3>2 DEF StringBytes
  <2>8. Growing(hdr', rsv', tags', names')
    <3> DEFINE g == hdr' none == <<>>
    <3>1. /\ g.version = 17 /\ g.lastComp = 16 /\ g.offRsv = 48 /\ g.offStruct = 48 + 0 * 16
          /\ g.sizeStruct = 0 /\ g.sizeStrings = 0
      BY <2>3
    <3>2. none \in Seq(TagSet) /\ none \in Seq(Seq(Chars)) /\ none \in Seq(Entries \cup {"empty"})
          /\ Len(none) = 0 /\ SizeOf(none) = 0 /\ StringBytes(none) = 0
      BY <2>5, <2>6, <2>7
    <3>3. g \in Headers /\ rsv' = none /\ tags' = none /\ names' = none
      BY <2>2, <2>4
    <3> HIDE DEF none, g
    <3>4. Growing(g, none, none, none)
      BY <3>1, <3>2, <3>3 DEF Growing
    <3> QED
      BY <3>3, <3>4 DEF g
  <2>9. ScriptInv'
    <3>1. CASE script = <<>>
      BY <2>2, <3>1 DEF ScriptInv
    <3>2. ASSUME NEW z \in BufSizes, script = AfterCreate(z) PROVE ScriptInv'
      BY <2>2, <3>2 DEF ScriptInv
    <3>3. call # FinishReservemap
      BY <1>1 DEF FinishReservemap
    <3>4. script = <<>> \/ \E z \in BufSizes : script = AfterCreate(z)
      <4>1. ScriptInv
        BY DEF SwInv
      <4> QED
        BY <1>1, <3>3, <4>1 DEF ScriptInv
    <3> QED
      BY <3>1, <3>2, <3>4
  <2> QED
    BY <2>2, <2>8, <2>9, SwIdleOK DEF SwInv
<1> QED
  BY <1>3, <1>4

\* A map with an end has one when an entry is added, and one with the entry that ends it, too.
LEMMA RangeAppended ==
  ASSUME NEW rs \in Seq(Entries \cup {"empty"}), NEW e \in Entries \cup {"empty"}, EndedMap(rs) \/ e = "empty"
  PROVE  EndedMap(Append(rs, e))
<1> DEFINE us == Append(rs, e)
           n == Len(rs)
<1>1. n \in Nat /\ us \in Seq(Entries \cup {"empty"}) /\ Len(us) = n + 1 /\ us[n + 1] = e
      /\ \A i \in 1 .. n : us[i] = rs[i]
  OBVIOUS
<1> HIDE DEF us
<1>2. CASE e = "empty"
  <2>1. n + 1 \in 1 .. Len(us) /\ us[n + 1] = "empty"
    BY <1>1, <1>2
  <2> QED
    BY <1>1, <2>1 DEF EndedMap, us
<1>3. CASE EndedMap(rs)
  <2>1. PICK i \in 1 .. n : rs[i] = "empty"
    BY <1>3 DEF EndedMap
  <2>2. i \in 1 .. Len(us) /\ us[i] = "empty"
    BY <1>1, <2>1
  <2> QED
    BY <1>1, <2>2 DEF EndedMap, us
<1> QED
  BY <1>2, <1>3

\* fdt_add_reservemap_entry, fdt_finish_reservemap
LEMMA AddEntryIs == ASSUME SwInv, AddReservemapEntry PROVE SwInv'
<1>1. call.op = "add_reservemap_entry" /\ magic = "sw" /\ call.op # "idle"
  BY DEF AddReservemapEntry, Writing
<1>2. Growing(hdr, rsv, tags, names)
  BY <1>1 DEF SwInv
<1>3. hdr \in Headers /\ hdr.sizeStruct \in Nat /\ tags \in Seq(TagSet)
  BY <1>2, HeaderFields DEF Growing
<1>4. call.range \in Entries \cup {"empty"}
  BY <1>1 DEF SwInv, SwCallOK
<1>5. CASE SwRefuse("BADSTATE") \/ SwRefuse("NOSPACE")
  BY <1>1, <1>5, SwRefused
<1> DEFINE s2 == hdr.offStruct + 16
           g == [hdr EXCEPT !.offStruct = s2]
           us == Append(rsv, call.range)
<1>6. CASE /\ hdr.sizeStruct = 0 /\ ~(hdr.offStruct + EntrySize > hdr.total) /\ hdr' = g /\ rsv' = us
           /\ UNCHANGED <<tags, names, magic, script>> /\ call' = [op |-> "idle"]
  <2>1. Len(tags) = 0
    <3> SUFFICES ASSUME Len(tags) # 0 PROVE FALSE
      OBVIOUS
    <3>1. Len(tags) > 0
      BY <1>3
    <3>2. SizeOf(tags) > 0
      BY <1>3, <3>1, SomeBytes
    <3> QED
      BY <1>2, <1>6, <3>2 DEF Growing
  <2>2. Len(names) = 0 /\ names \in Seq(Seq(Chars))
    BY <1>2, <2>1 DEF Growing
  <2>3. hdr.sizeStrings = 0
    <3>1. names = <<>>
      BY <2>2
    <3>2. StringLens(names) \in Seq(Nat) /\ Len(StringLens(names)) = 0
      BY <2>2, StringLensIs
    <3>3. Before(StringLens(names))[0] = 0
      BY <3>2, BeforeIs
    <3>4. StringBytes(names) = 0
      BY <2>2, <3>3 DEF StringBytes
    <3> QED
      BY <1>2, <3>4 DEF Growing
  <2>4. rsv \in Seq(Entries \cup {"empty"}) /\ hdr.offStruct = 48 + Len(rsv) * 16 /\ hdr.total \in Nat
    BY <1>2, <1>3, HeaderFields DEF Growing
  <2>5. us \in Seq(Entries \cup {"empty"}) /\ Len(us) = Len(rsv) + 1 /\ Len(rsv) \in Nat
    BY <1>4, <2>4
  <2>6. s2 = 48 + Len(us) * 16 /\ s2 \in Nat /\ s2 <= hdr.total
    <3>1. ~(hdr.offStruct + 16 > hdr.total)
      BY <1>6 DEF EntrySize
    <3> DEFINE n == Len(rsv) all == hdr.total
    <3>2. s2 = 48 + n * 16 + 16 /\ n \in Nat /\ all \in Nat /\ Len(us) = n + 1
      BY <2>4, <2>5
    <3> HIDE DEF n, s2, us
    <3> QED
      BY <3>1, <3>2 DEF s2
  <2> HIDE DEF s2
  <2>7. /\ g \in Headers /\ g.version = hdr.version /\ g.lastComp = hdr.lastComp /\ g.offRsv = hdr.offRsv
        /\ g.offStruct = s2 /\ g.sizeStruct = hdr.sizeStruct /\ g.sizeStrings = hdr.sizeStrings
        /\ g.total = hdr.total
    BY <1>3, <2>6 DEF Headers
  <2> HIDE DEF g, us
  <2>8. g.offStruct + g.sizeStruct + g.sizeStrings <= g.total
    BY <1>6, <2>3, <2>6, <2>7
  <2>9. Growing(g, us, tags, names)
    <3>1. ~(Len(tags) > 0) /\ ~(Len(names) > 0)
      BY <2>1, <2>2
    <3> QED
      BY <1>2, <2>5, <2>6, <2>7, <2>8, <3>1 DEF Growing
  <2>10. EndedMap(rsv) => EndedMap(us)
    BY <1>4, <2>4, RangeAppended DEF us
  <2>11. call = FinishReservemap => EndedMap(us)
    <3> SUFFICES ASSUME call = FinishReservemap PROVE EndedMap(us)
      OBVIOUS
    <3>1. call.range = "empty"
      BY DEF FinishReservemap
    <3> QED
      BY <1>4, <2>4, <3>1, RangeAppended DEF us
  <2>12. magic' = magic /\ rsv' = us /\ hdr' = g /\ tags' = tags /\ names' = names /\ script' = script
         /\ call' = [op |-> "idle"]
    BY <1>6
  <2>13. ScriptInv'
    <3>1. Mapped => Mapped'
      BY <1>1, <2>10, <2>12 DEF Mapped
    <3>2. call = FinishReservemap => Mapped'
      BY <1>1, <2>11, <2>12 DEF Mapped
    <3>3. ScriptInv
      BY DEF SwInv
    <3> QED
      BY <1>1, <2>12, <3>1, <3>2, <3>3, ScriptKept
  <2> QED
    BY <1>1, <2>9, <2>12, <2>13, SwIdleOK DEF SwInv
<1> QED
  <2>1. EntrySize = 16
    BY DEF EntrySize
  <2>2. CASE hdr.sizeStruct > 0
    <3>1. SwRefuse("BADSTATE")
      BY <2>2, <1>3 DEF AddReservemapEntry
    <3> QED
      BY <1>5, <3>1
  <2>3. CASE hdr.sizeStruct = 0 /\ hdr.offStruct + EntrySize > hdr.total
    <3>1. ~(hdr.sizeStruct > 0)
      BY <2>3
    <3>2. SwRefuse("NOSPACE")
      BY <2>3, <3>1 DEF AddReservemapEntry
    <3> QED
      BY <1>5, <3>2
  <2>4. CASE hdr.sizeStruct = 0 /\ ~(hdr.offStruct + EntrySize > hdr.total)
    <3>1. ~(hdr.sizeStruct > 0)
      BY <2>4
    <3>2. /\ hdr' = [hdr EXCEPT !.offStruct = @ + EntrySize]
          /\ rsv' = Append(rsv, call.range)
          /\ UNCHANGED <<tags, names, magic, script>>
          /\ Return("ok")
      BY <2>4, <3>1 DEF AddReservemapEntry
    <3> QED
      BY <1>6, <2>1, <2>4, <3>2 DEF Return
  <2>5. hdr.sizeStruct > 0 \/ hdr.sizeStruct = 0
    BY <1>3
  <2> QED
    BY <2>2, <2>3, <2>4, <2>5

\* fdt_begin_node and fdt_end_node
LEMMA NodeTagIs == ASSUME SwInv, BeginNode \/ CloseNode PROVE SwInv'
<1>1. call.op \in {"begin_node", "end_node"} /\ magic = "sw"
  BY DEF BeginNode, CloseNode, Writing
<1>2. Growing(hdr, rsv, tags, names) /\ EndedMap(rsv)
  BY <1>1 DEF SwInv, Ready
<1>3. PICK t \in TagSet : Write(hdr, t) /\ names' = names
  <2>1. CASE BeginNode
    <3>1. call.name \in Seq(Chars)
      <4>1. call.op = "begin_node"
        BY <2>1 DEF BeginNode, Writing
      <4> QED
        BY <4>1 DEF SwInv, SwCallOK
    <3>2. Begin(call.name) \in TagSet
      BY <3>1 DEF Begin, TagSet
    <3> QED
      BY <2>1, <3>2 DEF BeginNode
  <2>2. CASE CloseNode
    <3>1. EndNode \in TagSet
      BY DEF EndNode, TagSet
    <3> QED
      BY <2>2, <3>1 DEF CloseNode
  <2> QED
    BY <2>1, <2>2
<1>4. Len(names) > 0 => Len(tags) > 0
  BY <1>2 DEF Growing
<1>5. Growing(hdr', rsv', tags', names') /\ rsv' = rsv /\ call' = [op |-> "idle"]
      /\ magic' = magic /\ script' = script
  BY <1>2, <1>3, <1>4, WriteGrows
<1> QED
  BY <1>1, <1>5, StillGrowing

\* Names of properties are shorter than what is in front of the first node.
NamesFit == \A name \in PropNames : Len(name) < 64

\* _fdt_find_add_string: a name in front of the others.
LEMMA NameGrows ==
  ASSUME NEW h, NEW rs, NEW ts, NEW ss, Growing(h, rs, ts, ss), Len(ts) > 0, NEW s \in Seq(Chars), Len(s) < 64,
         h.total - (h.sizeStrings + (Len(s) + 1)) \notin 0 .. (h.offStruct + h.sizeStruct) - 1
  PROVE  Growing([h EXCEPT !.sizeStrings = @ + (Len(s) + 1)], rs, ts, <<s>> \o ss)
<1> DEFINE m2 == h.sizeStrings + (Len(s) + 1)
           g == [h EXCEPT !.sizeStrings = m2]
           us == <<s>> \o ss
           r == h.offStruct n == h.sizeStruct m == h.sizeStrings all == h.total l == Len(s) k == Len(rs)
<1>1. h \in Headers /\ EndedMap(rs) /\ ss \in Seq(Seq(Chars)) /\ m = StringBytes(ss) /\ r = 48 + k * 16
  BY DEF Growing
<1>2. r \in Nat /\ n \in Nat /\ m \in Nat /\ all \in Nat /\ l \in Nat /\ k \in Nat /\ k >= 1
  BY <1>1, HeaderFields, EndedLen
<1>3. r + n + m <= all
  BY <1>2 DEF Growing
<1>4. all - m2 \notin 0 .. (r + n) - 1
  OBVIOUS
<1>5. m2 = m + (l + 1) /\ l < 64
  OBVIOUS
<1>6. m2 \in Nat /\ r + n + m2 <= all
  <2> HIDE DEF r, n, m, all, l, k, m2
  <2>1. r >= 64 /\ all - m >= 64
    BY <1>1, <1>2, <1>3
  <2>2. all - m2 >= 0 /\ all - m2 \in Int
    BY <1>2, <1>5, <2>1
  <2>3. ~(all - m2 <= (r + n) - 1)
    BY <1>2, <1>4, <2>2
  <2> QED
    BY <1>2, <1>5, <2>3
<1>7. us \in Seq(Seq(Chars)) /\ StringBytes(us) = m2
  <2>1. us \in Seq(Seq(Chars)) /\ StringBytes(us) = StringBytes(ss) + l + 1
    BY <1>1, StringPutFirst
  <2> HIDE DEF us
  <2> QED
    BY <1>1, <1>2, <1>5, <2>1
<1> HIDE DEF m2
<1>8. /\ g \in Headers /\ g.version = h.version /\ g.lastComp = h.lastComp /\ g.offRsv = h.offRsv
      /\ g.offStruct = r /\ g.sizeStruct = n /\ g.sizeStrings = m2 /\ g.total = all
  BY <1>1, <1>6 DEF Headers
<1> HIDE DEF g, us
<1>9. g.offStruct + g.sizeStruct + g.sizeStrings <= g.total
  BY <1>6, <1>8
<1>10. Growing(g, rs, ts, us)
  BY <1>7, <1>8, <1>9 DEF Growing
<1> QED
  BY <1>10 DEF g, m2, us

\* fdt_property
LEMMA PutPropertyIs == ASSUME NamesFit, SwInv, PutProperty PROVE SwInv'
<1> DEFINE name == call.name
           place == FindString(name)
           len == Len(name) + 1
           h == IF place >= 0 THEN hdr ELSE [hdr EXCEPT !.sizeStrings = @ + len]
           nameoff == (IF place >= 0 THEN place ELSE 0) - h.sizeStrings
           top == hdr.offStruct + hdr.sizeStruct
           ss == IF place >= 0 THEN names ELSE <<name>> \o names
           t == Prop(nameoff, call.val)
           left == hdr.total - h.sizeStrings
           wanted == 0 .. top - 1
           full == place < 0 /\ left \in wanted
<1>1. call.op = "property" /\ magic = "sw"
  BY DEF PutProperty, Writing
<1>2. Growing(hdr, rsv, tags, names) /\ EndedMap(rsv) /\ Len(tags) > 0
  BY <1>1 DEF SwInv, Ready
<1>3. name \in Seq(Chars) /\ Len(name) < 64 /\ call.val \in Seq(Chars)
  <2>1. name \in PropNames /\ call.val \in Values
    BY <1>1 DEF SwInv, SwCallOK
  <2> HIDE DEF name
  <2> QED
    BY <2>1, ArgumentsAssumption DEF NamesFit, ArgumentsAssumption
<1>4. hdr \in Headers /\ names \in Seq(Seq(Chars))
  BY <1>2 DEF Growing
<1>5. place \in Int
  BY <1>3, <1>4, FindStringIs
<1>6. IF full THEN SwRefuse("NOSPACE") ELSE names' = ss /\ Write(h, t)
  BY DEF PutProperty
<1> HIDE DEF place, name
<1>7. CASE full
  BY <1>1, <1>6, <1>7, SwRefused
<1>8. CASE ~full
  <2>1. Growing(h, rsv, tags, ss)
    <3>1. CASE place >= 0
      BY <1>2, <3>1
    <3>2. CASE ~(place >= 0)
      <4>1. place < 0
        BY <1>5, <3>2
      <4>2. h = [hdr EXCEPT !.sizeStrings = @ + (Len(name) + 1)] /\ ss = <<name>> \o names
        BY <3>2
      <4>3. h.sizeStrings = hdr.sizeStrings + (Len(name) + 1)
        BY <1>4, <4>2 DEF Headers
      <4>4. hdr.total - (hdr.sizeStrings + (Len(name) + 1)) \notin 0 .. (hdr.offStruct + hdr.sizeStruct) - 1
        <5> HIDE DEF h
        <5>0. left \notin wanted
          <6> HIDE DEF left, wanted
          <6> QED
            BY <1>8, <4>1
        <5>1. hdr.total - h.sizeStrings \notin 0 .. (hdr.offStruct + hdr.sizeStruct) - 1
          BY <5>0
        <5> DEFINE a == h.sizeStrings b == hdr.sizeStrings + (Len(name) + 1) all == hdr.total
                   u == (hdr.offStruct + hdr.sizeStruct) - 1
        <5>2. a = b /\ all - a \notin 0 .. u
          BY <4>3, <5>1
        <5> HIDE DEF a, b, all, u
        <5>3. all - b \notin 0 .. u
          BY <5>2
        <5> QED
          BY <5>3 DEF b, all, u
      <4> HIDE DEF h, ss
      <4> QED
        BY <1>2, <1>3, <4>2, <4>4, NameGrows
    <3> QED
      BY <3>1, <3>2
  <2> HIDE DEF h
  <2>2. h.sizeStrings \in Nat
    BY <2>1, HeaderFields DEF Growing
  <2>3. nameoff \in Int
    BY <1>5, <2>2
  <2> HIDE DEF nameoff
  <2>4. t \in TagSet
    BY <1>3, <2>3 DEF Prop, TagSet
  <2> HIDE DEF t, ss
  <2>5. names' = ss /\ Write(h, t)
    <3> HIDE DEF full
    <3> QED
      BY <1>6, <1>8 DEF ss, t, h
  <2>6. Growing(hdr', rsv', tags', names') /\ rsv' = rsv /\ call' = [op |-> "idle"]
        /\ magic' = magic /\ script' = script
    BY <1>2, <2>1, <2>4, <2>5, WriteGrows
  <2> QED
    BY <1>1, <2>6, StillGrowing
<1> QED
  BY <1>7, <1>8

\* fdt_finish
LEMMA FinishIs == ASSUME SwInv, Finish PROVE SwInv'
<1> DEFINE n2 == hdr.sizeStruct + TagLen(End)
           h == [hdr EXCEPT !.sizeStruct = n2]
           end == hdr.offStruct + n2
           m == hdr.sizeStrings
           ts == Append(tags, End)
           us == [i \in 1 .. Len(tags) + 1 |-> IF i > Len(tags) THEN End ELSE Corrected(tags[i], hdr)]
<1>1. call.op = "finish" /\ magic = "sw"
  BY DEF Finish, Writing
<1>2. Growing(hdr, rsv, tags, names) /\ EndedMap(rsv)
  BY <1>1 DEF SwInv, Ready
<1>3. hdr \in Headers /\ tags \in Seq(TagSet) /\ names \in Seq(Seq(Chars)) /\ m = StringBytes(names)
      /\ hdr.sizeStruct = SizeOf(tags) /\ hdr.offRsv = 48 /\ hdr.offStruct = 48 + Len(rsv) * 16
      /\ hdr.version = 17 /\ hdr.lastComp = 16
  BY <1>2 DEF Growing
<1>4. hdr.offStruct \in Nat /\ hdr.sizeStruct \in Nat /\ m \in Nat /\ hdr.total \in Nat /\ hdr.cpu \in Int
  BY <1>3, HeaderFields
<1>5. CASE GrabFails(hdr, TagLen(End))
  BY <1>1, <1>5, SwRefused DEF Finish
<1>6. CASE ~GrabFails(hdr, TagLen(End))
  <2>1. End \in TagSet
    BY DEF End, TagSet
  <2>2. TagLen(End) \in Nat
    BY <2>1, TagLenIs
  <2>3. ts \in Seq(TagSet) /\ Len(ts) = Len(tags) + 1 /\ SizeOf(ts) = n2
    BY <1>3, <2>1, SizeAppended
  <2>4. n2 \in Nat /\ end \in Nat
    BY <1>4, <2>2
  <2>5. Len(tags) \in Nat /\ \A i \in 1 .. Len(tags) + 1 : ts[i] = IF i > Len(tags) THEN End ELSE tags[i]
    BY <1>3
  <2>6. ASSUME NEW t \in TagSet PROVE Corrected(t, hdr) \in TagSet /\ TagLen(Corrected(t, hdr)) = TagLen(t)
    <3>1. CASE t.tag # "prop"
      BY <3>1 DEF Corrected
    <3>2. CASE t.tag = "prop"
      <4>1. t \in [tag : {"prop"}, nameoff : Int, data : Seq(Chars)]
        BY <3>2 DEF TagSet
      <4> DEFINE o == t.nameoff + m
                 u == [t EXCEPT !.nameoff = o]
      <4>2. Corrected(t, hdr) = u
        BY <3>2 DEF Corrected
      <4>3. o \in Int
        BY <1>4, <4>1
      <4> HIDE DEF o, m
      <4>4. u \in TagSet /\ u.tag = "prop" /\ u.data = t.data
        BY <4>1, <4>3 DEF TagSet
      <4> HIDE DEF u
      <4>5. TagLen(u) = 12 + TagAlign(Len(u.data)) /\ TagLen(t) = 12 + TagAlign(Len(t.data))
        BY <3>2, <4>4 DEF TagLen
      <4> QED
        BY <4>2, <4>4, <4>5
    <3> QED
      BY <3>1, <3>2
  <2>7. \A i \in 1 .. Len(tags) + 1 : us[i] \in TagSet /\ TagLen(us[i]) = TagLen(ts[i])
    <3> SUFFICES ASSUME NEW i \in 1 .. Len(tags) + 1 PROVE us[i] \in TagSet /\ TagLen(us[i]) = TagLen(ts[i])
      OBVIOUS
    <3>1. us[i] = (IF i > Len(tags) THEN End ELSE Corrected(tags[i], hdr))
          /\ ts[i] = IF i > Len(tags) THEN End ELSE tags[i]
      BY <2>5
    <3>2. CASE i > Len(tags)
      BY <2>1, <3>1, <3>2
    <3>3. CASE ~(i > Len(tags))
      <4>1. i \in 1 .. Len(tags)
        BY <2>5, <3>3
      <4>2. tags[i] \in TagSet
        BY <1>3, <4>1
      <4> HIDE DEF us, ts
      <4> QED
        BY <2>6, <3>1, <3>3, <4>2
    <3> QED
      BY <3>2, <3>3
  <2>8. us \in Seq(TagSet) /\ Len(us) = Len(tags) + 1
    <3>1. Len(tags) + 1 \in Nat
      BY <2>5
    <3>2. us \in [1 .. Len(tags) + 1 -> TagSet]
      BY <2>7
    <3> HIDE DEF us
    <3> QED
      BY <3>1, <3>2, LenProperties
  <2> HIDE DEF us, ts
  <2>9. SizeOf(us) = n2
    BY <2>3, <2>7, <2>8, SameLens
  <2> DEFINE g == [h EXCEPT !.offStrings = end, !.total = end + m]
  <2>10. hdr' = g /\ tags' = us /\ magic' = "fdt" /\ rsv' = rsv /\ names' = names /\ script' = script
         /\ call' = [op |-> "idle"]
    <3>1. h.offStruct + h.sizeStruct = end /\ h.sizeStrings = m
      BY <1>3 DEF Headers
    <3>2. LET h0 == [hdr EXCEPT !.sizeStruct = @ + TagLen(End)]
              end0 == h0.offStruct + h0.sizeStruct
          IN /\ hdr' = [h0 EXCEPT !.offStrings = end0, !.total = end0 + h0.sizeStrings]
             /\ tags' = us /\ magic' = "fdt" /\ UNCHANGED <<rsv, names, script>> /\ Return("ok")
      BY <1>6 DEF Finish, us
    <3>3. h = [hdr EXCEPT !.sizeStruct = @ + TagLen(End)]
      OBVIOUS
    <3> HIDE DEF h, end, m
    <3> QED
      BY <3>1, <3>2, <3>3 DEF Return
  <2> DEFINE all == end + m s == hdr.offStruct cpu == hdr.cpu
  <2>11. hdr' = [version |-> 17, lastComp |-> 16, cpu |-> cpu, offRsv |-> 48, offStruct |-> s, sizeStruct |-> n2,
                 offStrings |-> end, sizeStrings |-> hdr.sizeStrings, total |-> all]
    <3>1. hdr' = g
      BY <2>10
    <3> HIDE DEF n2, end, all
    <3> QED
      BY <1>3, <3>1 DEF Headers, all
  <2>12. /\ 48 \in Nat /\ 16 \in Nat /\ 16 <= 17 /\ 40 <= 48 /\ 48 + Len(rsv) * 16 <= s /\ s + n2 <= end
         /\ end + hdr.sizeStrings <= all /\ all \in Nat /\ s \in Nat /\ cpu \in Int
    <3>1. s = 48 + Len(rsv) * 16 /\ end = s + n2 /\ all = end + m /\ m = hdr.sizeStrings
      BY <1>3
    <3>2. s \in Nat /\ end \in Nat /\ m \in Nat /\ n2 \in Nat /\ Len(rsv) \in Nat /\ cpu \in Int
      BY <1>2, <1>4, <2>4, EndedLen
    <3> HIDE DEF s, end, m, n2, all, cpu
    <3> QED
      BY <3>1, <3>2
  <2>13. WritableBlob(hdr', rsv, us, names)
    <3> HIDE DEF s, end, m, n2, all, cpu
    <3>1. hdr.sizeStrings = StringBytes(names)
      BY <1>3 DEF m
    <3> QED
      BY <1>2, <1>3, <2>4, <2>8, <2>9, <2>11, <2>12, <3>1, PutTogether
  <2>14. ScriptInv'
    <3>1. Mapped' /\ ScriptInv /\ call.op # "idle"
      BY <1>1, <2>10 DEF Mapped, SwInv
    <3> QED
      BY <2>10, <3>1, ScriptKept
  <2> QED
    BY <2>10, <2>13, <2>14, SwIdleOK DEF SwInv
<1> QED
  BY <1>5, <1>6

\* A call of the sequential interface that a caller makes.
LEMMA SwAskIs == ASSUME SwInv, SwAsk PROVE SwInv'
<1>1. /\ hdr' = hdr /\ rsv' = rsv /\ tags' = tags /\ names' = names /\ magic' = magic /\ script' = script
      /\ script = <<>> /\ call' \in SwCalls /\ (magic = "sw" => InOrder(call'))
  BY DEF SwAsk
<1>2. ScriptInv'
  BY <1>1 DEF ScriptInv
<1>3. SwCallOK(call')
  <2> DEFINE c == call'
  <2>1. CASE c \in [op : {"create"}, size : BufSizes]
    BY <2>1 DEF SwCallOK, CallOK
  <2>2. CASE c \in [op : {"add_reservemap_entry"}, range : Entries]
    BY <2>2 DEF SwCallOK, CallOK
  <2>3. CASE c \in [op : {"begin_node"}, name : NodeNames]
    BY <2>3, ArgumentsAssumption DEF SwCallOK, CallOK, ArgumentsAssumption
  <2>4. CASE c \in [op : {"property"}, name : PropNames, val : Values]
    BY <2>4 DEF SwCallOK, CallOK
  <2>5. CASE c \in [op : {"end_node", "finish"}]
    BY <2>5 DEF SwCallOK, CallOK
  <2> QED
    BY <1>1, <2>1, <2>2, <2>3, <2>4, <2>5 DEF SwCalls
<1>4. ASSUME magic = "sw" PROVE Ready(call', rsv, tags)
  <2> DEFINE c == call'
  <2>1. InOrder(c) /\ Growing(hdr, rsv, tags, names)
    BY <1>1, <1>4 DEF SwInv
  <2>2. rsv \in Seq(Entries \cup {"empty"}) /\ tags \in Seq(TagSet) /\ (Len(tags) > 0 => EndedMap(rsv))
    BY <2>1 DEF Growing
  <2>3. tags # <<>> => Len(tags) > 0
    BY <2>2
  <2>4. Open > 0 => tags # <<>>
    <3> SUFFICES ASSUME tags = <<>> PROVE ~(Open > 0)
      OBVIOUS
    <3>1. {i \in DOMAIN tags : tags[i].tag = "begin"} = {} /\ {i \in DOMAIN tags : tags[i].tag = "end_node"} = {}
      OBVIOUS
    <3>2. Open = Cardinality({}) - Cardinality({})
      BY <3>1 DEF Open
    <3> QED
      BY <3>2, FS_EmptySet
  <2>5. Contains(rsv, "empty") => EndedMap(rsv)
    BY <2>2 DEF Contains, EndedMap
  <2> HIDE DEF c
  <2>6. ASSUME c.op = "begin_node" PROVE EndedMap(rsv)
    <3>1. Contains(rsv, "empty")
      BY <2>1, <2>6 DEF InOrder
    <3> QED
      BY <2>5, <3>1
  <2>7. ASSUME c.op = "property" PROVE Len(tags) > 0
    <3>1. tags # <<>>
      BY <2>1, <2>7 DEF InOrder
    <3> QED
      BY <2>3, <3>1
  <2>8. ASSUME c.op \in {"end_node", "finish"} PROVE Len(tags) > 0
    <3>1. Open > 0 \/ tags # <<>>
      BY <2>1, <2>8 DEF InOrder
    <3> QED
      BY <2>3, <2>4, <3>1
  <2>9. Ready(c, rsv, tags)
    BY <2>2, <2>6, <2>7, <2>8 DEF Ready
  <2> QED
    BY <2>9 DEF c
<1> QED
  BY <1>1, <1>2, <1>3, <1>4 DEF SwInv

\* fdt_create_empty_tree begins.
LEMMA EmptyTreeIs == ASSUME SwInv, CreateEmptyTree PROVE SwInv'
<1>1. PICK size \in BufSizes :
        /\ call' = [op |-> "create", size |-> size]
        /\ script' = AfterCreate(size)
  BY DEF CreateEmptyTree, AfterCreate, BeginRoot, OpenIt
<1>2. hdr' = hdr /\ rsv' = rsv /\ tags' = tags /\ names' = names /\ magic' = magic /\ magic = "none"
  BY DEF CreateEmptyTree
<1>3. SwCallOK(call')
  BY <1>1 DEF SwCallOK, CallOK
<1>4. ScriptInv'
  BY <1>1 DEF ScriptInv
<1> QED
  BY <1>2, <1>3, <1>4 DEF SwInv

\* It goes on with its next call.
LEMMA FollowScriptIs == ASSUME SwInv, FollowScript PROVE SwInv'
<1>1. /\ call.op = "idle" /\ script # <<>>
      /\ hdr' = hdr /\ rsv' = rsv /\ tags' = tags /\ names' = names /\ magic' = magic
  BY DEF FollowScript
<1>2. CASE ret # "ok"
  <2>1. script' = <<>> /\ call' = call
    BY <1>2 DEF FollowScript
  <2>2. ScriptInv'
    BY <2>1 DEF ScriptInv
  <2> QED
    BY <1>1, <2>1, <2>2 DEF SwInv
<1>3. CASE ret = "ok"
  <2>1. call' = Head(script) /\ script' = Tail(script)
    BY <1>3 DEF FollowScript
  <2>2. ASSUME ScriptInv', SwCallOK(call'), magic = "sw" => Ready(call', rsv, tags) PROVE SwInv'
    BY <1>1, <2>2 DEF SwInv
  <2>3. PICK size \in BufSizes :
          \/ script = AfterCreate(size)
          \/ script = AfterMap(size) /\ Mapped
          \/ script \in {AfterBegin(size), AfterEnd(size), AfterFinish(size)} /\ Mapped
    <3>1. ScriptInv /\ call # FinishReservemap
      BY <1>1 DEF SwInv, FinishReservemap
    <3> QED
      BY <1>1, <1>3, <3>1 DEF ScriptInv
  <2>4. Mapped => Mapped' /\ (magic = "sw" => EndedMap(rsv))
    BY <1>1 DEF Mapped
  <2>5. CASE script = AfterCreate(size)
    <3>1. call' = FinishReservemap /\ script' = AfterMap(size)
      BY <2>1, <2>5, ScriptParts
    <3>2. ScriptInv'
      BY <3>1 DEF ScriptInv
    <3>3. SwCallOK(call') /\ Ready(call', rsv, tags)
      BY <3>1 DEF SwCallOK, CallOK, Ready, FinishReservemap
    <3> QED
      BY <2>2, <3>2, <3>3
  <2>6. CASE script = AfterMap(size) /\ Mapped
    <3>1. call' = BeginRoot /\ script' = AfterBegin(size)
      BY <2>1, <2>6, ScriptParts
    <3>2. ScriptInv'
      BY <2>4, <2>6, <3>1 DEF ScriptInv, BeginRoot
    <3>3. SwCallOK(call') /\ (magic = "sw" => Ready(call', rsv, tags))
      BY <2>4, <2>6, <3>1 DEF SwCallOK, CallOK, Ready, BeginRoot
    <3> QED
      BY <2>2, <3>2, <3>3
  <2>7. CASE script \in {AfterBegin(size), AfterEnd(size)} /\ Mapped
    <3>1. call' \in {[op |-> "end_node"], [op |-> "finish"]} /\ script' \in {AfterEnd(size), AfterFinish(size)}
      BY <2>1, <2>7, ScriptParts
    <3>2. ScriptInv'
      BY <2>4, <2>7, <3>1 DEF ScriptInv
    <3>3. SwCallOK(call') /\ (magic = "sw" => Ready(call', rsv, tags))
      BY <2>4, <2>7, <3>1 DEF SwCallOK, CallOK, Ready
    <3> QED
      BY <2>2, <3>2, <3>3
  <2>8. CASE script = AfterFinish(size)
    <3>1. call' = OpenIt(size) /\ script' = <<>>
      BY <2>1, <2>8, ScriptParts
    <3>2. ScriptInv'
      BY <3>1 DEF ScriptInv
    <3>3. SwCallOK(call') /\ Ready(call', rsv, tags)
      BY <3>1 DEF SwCallOK, CallOK, Ready, OpenIt
    <3> QED
      BY <2>2, <3>2, <3>3
  <2> QED
    BY <2>3, <2>5, <2>6, <2>7, <2>8
<1> QED
  BY <1>2, <1>3

\* The calls of FdtBlob.
BlobOps == {"setprop", "appendprop", "delprop", "set_name", "add_subnode", "del_node", "setprop_inplace",
            "nop_property", "nop_node", "add_mem_rsv", "del_mem_rsv", "pack", "open_into"}
\* Each call of FdtBlob is among them and ends.
LEMMA NextIs ==
  ASSUME Next
  PROVE  \/ Ask
         \/ call.op \in BlobOps /\ ~Ask /\ call' = [op |-> "idle"]
<1>1. \A e : (RwRefuse(e) => call' = [op |-> "idle"]) /\ (Refuse(e) => call' = [op |-> "idle"])
              /\ (Return(e) => call' = [op |-> "idle"])
  BY DEF RwRefuse, Refuse, Return
<1>2. \A h, o, old, new, us : SpliceStruct(h, o, old, new, us) => call' = [op |-> "idle"]
  BY DEF SpliceStruct, Return
<1>3. \A i, name, data : AddProperty(i, name, data) => call' = [op |-> "idle"]
  BY <1>1, <1>2 DEF AddProperty
<1>4. \A n, oldn, newn, es : SpliceRsv(n, oldn, newn, es) => call' = [op |-> "idle"]
  BY <1>1 DEF SpliceRsv
<1>5. \A i, data : ResizeProperty(i, data) => call' = [op |-> "idle"]
  BY <1>2 DEF ResizeProperty
<1>6. call.op # "idle" => ~Ask
  BY DEF Ask
<1>7. CASE NotWritable
  BY <1>1, <1>6, <1>7 DEF NotWritable, RwOps, BlobOps
<1>8. CASE SetProp
  BY <1>1, <1>3, <1>5, <1>6, <1>8 DEF SetProp, Making, BlobOps
<1>9. CASE AppendProp
  BY <1>3, <1>5, <1>6, <1>9 DEF AppendProp, Making, BlobOps
<1>10. CASE DelProp
  BY <1>1, <1>2, <1>6, <1>10 DEF DelProp, Making, BlobOps
<1>11. CASE SetName
  BY <1>1, <1>2, <1>6, <1>11 DEF SetName, Making, BlobOps
<1>12. CASE AddSubnode
  <2>1. call.op = "add_subnode"
    BY <1>12 DEF AddSubnode, Making
  <2> DEFINE twin == Subnode(Node, call.name)
  <2>2. call' = [op |-> "idle"]
    <3>1. CASE twin.err = "NOTFOUND"
      BY <1>2, <1>12, <3>1 DEF AddSubnode
    <3>2. CASE twin.err # "NOTFOUND"
      <4>1. RwRefuse("EXISTS") \/ RwRefuse(twin.err)
        BY <1>12, <3>2 DEF AddSubnode
      <4> QED
        BY <1>1, <4>1
    <3> QED
      BY <3>1, <3>2
  <2> QED
    BY <1>6, <2>1, <2>2 DEF BlobOps
<1>13. CASE DelNode
  BY <1>1, <1>2, <1>6, <1>13 DEF DelNode, Making, BlobOps
<1>14. CASE SetPropInPlace
  BY <1>1, <1>6, <1>14 DEF SetPropInPlace, Making, BlobOps
<1>15. CASE NopProperty
  BY <1>1, <1>6, <1>15 DEF NopProperty, Making, BlobOps
<1>16. CASE NopNode
  BY <1>1, <1>6, <1>16 DEF NopNode, Making, BlobOps
<1>17. CASE AddMemRsv
  BY <1>4, <1>6, <1>17 DEF AddMemRsv, Making, BlobOps
<1>18. CASE DelMemRsv
  BY <1>1, <1>4, <1>6, <1>18 DEF DelMemRsv, Making, BlobOps
<1>19. CASE Pack
  BY <1>1, <1>6, <1>19 DEF Pack, Making, BlobOps
<1>20. CASE OpenInto
  <2>1. call.op = "open_into"
    BY <1>20 DEF OpenInto, Making
  <2>2. call' = [op |-> "idle"]
    BY <1>1, <1>20 DEF OpenInto
  <2> QED
    BY <1>6, <2>1, <2>2 DEF BlobOps
<1> QED
  BY <1>7, <1>8, <1>9, <1>10, <1>11, <1>12, <1>13, <1>14, <1>15, <1>16, <1>17, <1>18, <1>19, <1>20 DEF Next

\* A finished blob and the calls of FdtBlob.
LEMMA EditIs == ASSUME SwInv, Edit PROVE SwInv'
<1>1. magic = "fdt" /\ (call.op = "idle" => script = <<>>) /\ Next /\ magic' = magic /\ script' = script
  BY DEF Edit
<1>2. WritableBlob(hdr, rsv, tags, names) /\ CallOK(call)
  BY <1>1 DEF SwInv, SwCallOK
<1>3. BlobInv /\ Writable
  <2>1. GoodHeader(hdr) /\ hdr \in Headers
    BY <1>2 DEF WritableBlob, GoodHeader
  <2>2. Writable
    BY <2>1, WritableIs
  <2> QED
    BY <1>2, <2>2 DEF BlobInv
<1>4. WritableBlob(hdr', rsv', tags', names')
  <2>1. BlobInv' /\ Writable'
    BY <1>1, <1>3, BlobStep
  <2> QED
    BY <2>1 DEF BlobInv
<1>5. script = <<>>
  <2>1. call.op = "idle" \/ call.op \in BlobOps
    BY <1>1, NextIs DEF Ask
  <2>2. CASE call.op \in BlobOps
    <3>1. call # FinishReservemap /\ call.op \notin {"create", "idle", "begin_node", "end_node", "finish"}
      BY <2>2 DEF BlobOps, FinishReservemap
    <3>2. ScriptInv
      BY DEF SwInv
    <3> QED
      BY <3>1, <3>2 DEF ScriptInv
  <2> QED
    BY <1>1, <2>1, <2>2
<1>6. SwCallOK(call')
  <2>1. CASE Ask
    <3>1. call' \in Calls
      BY <2>1 DEF Ask
    <3> DEFINE c == call'
    <3>2. CallOK(c)
      BY <3>1, AskOK
    <3>3. c.op \in BlobOps
      <4>1. CASE c \in [op : {"setprop", "appendprop", "setprop_inplace"},
                        offset : Offsets, name : PropNames, val : Values]
        BY <4>1 DEF BlobOps
      <4>2. CASE c \in [op : {"delprop", "nop_property"}, offset : Offsets, name : PropNames]
        BY <4>2 DEF BlobOps
      <4>3. CASE c \in [op : {"set_name", "add_subnode"}, offset : Offsets, name : NodeNames]
        BY <4>3 DEF BlobOps
      <4>4. CASE c \in [op : {"del_node", "nop_node"}, offset : Offsets]
        BY <4>4 DEF BlobOps
      <4>5. CASE c \in [op : {"add_mem_rsv"}, range : Entries]
        BY <4>5 DEF BlobOps
      <4>6. CASE c \in [op : {"del_mem_rsv"}, n : 0 .. 1]
        BY <4>6 DEF BlobOps
      <4>7. CASE c \in [op : {"open_into"}, size : BufSizes, inPlace : BOOLEAN]
        BY <4>7 DEF BlobOps
      <4>8. CASE c \in [op : {"pack"}]
        BY <4>8 DEF BlobOps
      <4> QED
        BY <3>1, <4>1, <4>2, <4>3, <4>4, <4>5, <4>6, <4>7, <4>8 DEF Calls
    <3> HIDE DEF c
    <3>4. SwCallOK(c)
      BY <3>2, <3>3 DEF SwCallOK, BlobOps
    <3> QED
      BY <3>4 DEF c
  <2>2. CASE ~Ask
    <3>1. call' = [op |-> "idle"]
      BY <1>1, <2>2, NextIs
    <3> QED
      BY <3>1, SwIdleOK
  <2> QED
    BY <2>1, <2>2
<1>7. ScriptInv'
  BY <1>1, <1>5 DEF ScriptInv
<1> QED
  BY <1>1, <1>4, <1>6, <1>7 DEF SwInv

\* Nothing is there at first.
LEMMA SwStarts == SwInit => SwInv
<1> SUFFICES ASSUME SwInit PROVE SwInv
  OBVIOUS
<1>1. call = [op |-> "idle"] /\ script = <<>> /\ magic = "none"
  BY DEF SwInit
<1>2. ScriptInv
  BY <1>1 DEF ScriptInv
<1> QED
  BY <1>1, <1>2, SwIdleOK DEF SwInv

\* The invariant is inductive.
LEMMA SwStep == ASSUME NamesFit, SwInv, [SwNext]_swVars PROVE SwInv'
<1>1. CASE SwAsk BY <1>1, SwAskIs
<1>2. CASE CreateEmptyTree BY <1>2, EmptyTreeIs
<1>3. CASE FollowScript BY <1>3, FollowScriptIs
<1>4. CASE NotWriting
  <2>1. call.op # "idle" /\ SwRefuse("BADMAGIC")
    <3>1. call.op \in {c.op : c \in SwCalls}
      BY <1>4 DEF NotWriting
    <3>2. PICK c \in SwCalls : call.op = c.op
      BY <3>1
    <3>3. c.op # "idle"
      BY <3>2 DEF SwCalls
    <3> QED
      BY <1>4, <3>2, <3>3 DEF NotWriting
  <2> QED
    BY <2>1, SwRefused
<1>5. CASE Create BY <1>5, CreateIs
<1>6. CASE AddReservemapEntry BY <1>6, AddEntryIs
<1>7. CASE BeginNode \/ CloseNode BY <1>7, NodeTagIs
<1>8. CASE PutProperty BY <1>8, PutPropertyIs
<1>9. CASE Finish BY <1>9, FinishIs
<1>10. CASE Edit BY <1>10, EditIs
<1>11. CASE UNCHANGED swVars
  <2>1. /\ hdr' = hdr /\ rsv' = rsv /\ tags' = tags /\ names' = names /\ magic' = magic /\ script' = script
        /\ call' = call /\ ret' = ret
    BY <1>11 DEF swVars, vars
  <2>2. ScriptInv'
    <3>1. Mapped' <=> Mapped
      BY <2>1 DEF Mapped
    <3>2. ScriptInv
      BY DEF SwInv
    <3> QED
      BY <2>1, <3>1, <3>2 DEF ScriptInv
  <2> QED
    BY <2>1, <2>2 DEF SwInv
<1> QED
  BY <1>1, <1>2, <1>3, <1>4, <1>5, <1>6, <1>7, <1>8, <1>9, <1>10, <1>11 DEF SwNext

\* The two ends of a growing blob do not meet, and the blob that is finished is one for
\* the calls of FdtBlob (SectionsSound).
THEOREM SectionsAlways ==
  ASSUME NamesFit
  PROVE  SwSpec => []SectionsSound
<1>1. SwInv /\ [SwNext]_swVars => SwInv'
  BY SwStep
<1>2. SwInv => SectionsSound
  <2> SUFFICES ASSUME SwInv PROVE SectionsSound
    OBVIOUS
  <2>1. ASSUME magic = "sw", rsv # <<>>
        PROVE  /\ hdr.offStruct = hdr.offRsv + Len(rsv) * EntrySize
               /\ hdr.sizeStruct = SizeOf(tags) /\ hdr.sizeStrings = StringBytes(names)
               /\ hdr.offStruct + hdr.sizeStruct <= StringsStart
    <3>1. Growing(hdr, rsv, tags, names)
      BY <2>1 DEF SwInv
    <3>2. hdr \in Headers /\ Len(rsv) > 0 /\ hdr.offStruct = hdr.offRsv + Len(rsv) * EntrySize
          /\ hdr.sizeStruct = SizeOf(tags) /\ hdr.sizeStrings = StringBytes(names)
      BY <2>1, <3>1 DEF Growing, EntrySize
    <3>3. hdr.offStruct + hdr.sizeStruct + hdr.sizeStrings <= hdr.total
      BY <3>1, <3>2 DEF Growing
    <3>4. StringsStart = hdr.total - hdr.sizeStrings
      BY <2>1 DEF StringsStart
    <3> QED
      BY <3>2, <3>3, <3>4, HeaderFields
  <2>2. ASSUME magic = "fdt" PROVE Writable /\ LayoutSound
    <3>1. WritableBlob(hdr, rsv, tags, names)
      BY <2>2 DEF SwInv
    <3> QED
      BY <3>1, WritableIsSound
  <2> QED
    BY <2>1, <2>2 DEF SectionsSound
<1> QED
  BY <1>1, <1>2, SwStarts, PTL DEF SwSpec

=============================================================================

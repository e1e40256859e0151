------------------------ MODULE LzfseEncoder_proofs ------------------------
(***************************************************************************)
(* Theorems about LzfseEncoder.                                            *)
(***************************************************************************)
EXTENDS LzfseEncoder, LzBlocks_proofs

\* A triple in the buffer: its distance is not yet replaced.
Trip == [l : 0 .. MaxL, m : 0 .. MaxM, d : 1 .. MaxD]

\* The triple x, whose literals are in ys behind its first q, leads in s from
\* behind the first p bytes to behind the first p1.
OneStep(s, x, ys, p, q, p1, q1) ==
  /\ p1 = p + x.l + x.m /\ q1 = q + x.l /\ p1 <= Len(s) /\ q1 <= Len(ys)
  /\ \A k \in 1 .. x.l : ys[q + k] = s[p + k]
  /\ Recurs(s, p + x.l, x.m, x.d)
  /\ x.d \in 1 .. p + x.l

\* The places in s, and in the literals ys, that the triples xs come by.
Leads(s, xs, ys, place, used) ==
  /\ place \in [0 .. Len(xs) -> Nat] /\ used \in [0 .. Len(xs) -> Nat]
  /\ \A j \in 1 .. Len(xs) :
       OneStep(s, xs[j], ys, place[j - 1], used[j - 1], place[j], used[j])

\* Triples and literals tell what is in s from p0 to p.
Tells(s, p0, xs, ys, p) ==
  \E place, used :
    /\ Leads(s, xs, ys, place, used)
    /\ place[0] = p0 /\ used[0] = 0 /\ place[Len(xs)] = p /\ used[Len(xs)] = Len(ys)

-----------------------------------------------------------------------------
(* Triples.                                                                 *)

\* No triples and no literals tell nothing.
LEMMA NothingTold ==
  ASSUME NEW s, NEW p \in Nat
  PROVE  Tells(s, p, <<>>, <<>>, p)
<1> DEFINE place == [j \in 0 .. 0 |-> p]
           used == [j \in 0 .. 0 |-> 0]
<1>1. Len(<<>>) = 0
  OBVIOUS
<1>2. place \in [0 .. 0 -> Nat] /\ used \in [0 .. 0 -> Nat] /\ place[0] = p /\ used[0] = 0
  OBVIOUS
<1> HIDE DEF place, used
<1>3. Leads(s, <<>>, <<>>, place, used)
  BY <1>1, <1>2 DEF Leads
<1> QED
  BY <1>1, <1>2, <1>3 DEF Tells

\* A step is one in whatever the literals are the beginning of, too.
LEMMA OneStepLonger ==
  ASSUME NEW A, NEW s \in Seq(A), NEW x \in Trip, NEW ys \in Seq(A), NEW zs \in Seq(A),
         NEW p \in Nat, NEW q \in Nat, NEW p1, NEW q1,
         OneStep(s, x, ys, p, q, p1, q1), Begins(ys, zs)
  PROVE  OneStep(s, x, zs, p, q, p1, q1)
<1>1. x.l \in Nat /\ Len(ys) \in Nat /\ Len(zs) \in Nat /\ Len(ys) <= Len(zs)
  BY LimitAssumption DEF Trip, Begins
<1>2. q1 = q + x.l /\ q1 <= Len(ys) /\ \A k \in 1 .. x.l : ys[q + k] = s[p + k]
  BY DEF OneStep
<1>3. ASSUME NEW k \in 1 .. x.l PROVE zs[q + k] = s[p + k]
  <2>1. q + k \in 1 .. Len(ys)
    BY <1>1, <1>2
  <2> QED
    BY <1>2, <2>1 DEF Begins
<1>4. q1 <= Len(zs)
  BY <1>1, <1>2
<1> QED
  BY <1>3, <1>4 DEF OneStep

\* One more triple, with its literals.
LEMMA TellsMore ==
  ASSUME NEW A, NEW s \in Seq(A), NEW p0 \in Nat, NEW xs \in Seq(Trip), NEW ys \in Seq(A), NEW p \in Nat,
         Tells(s, p0, xs, ys, p), NEW x \in Trip, NEW zs \in Seq(A), Len(zs) = x.l,
         \A k \in 1 .. x.l : zs[k] = s[p + k],
         Recurs(s, p + x.l, x.m, x.d), x.d \in 1 .. p + x.l, p + x.l + x.m <= Len(s)
  PROVE  Tells(s, p0, Append(xs, x), Join(ys, zs), p + x.l + x.m)
<1> DEFINE n == Len(xs)
           us == Append(xs, x)
           ws == Join(ys, zs)
<1>1. PICK place, used :
        /\ Leads(s, xs, ys, place, used)
        /\ place[0] = p0 /\ used[0] = 0 /\ place[n] = p /\ used[n] = Len(ys)
  BY DEF Tells
<1>2. n \in Nat /\ Len(us) = n + 1 /\ us[n + 1] = x /\ \A j \in 1 .. n : us[j] = xs[j] /\ xs[j] \in Trip
  OBVIOUS
<1>3. /\ Begins(ys, ws) /\ ws \in Seq(A) /\ Len(ws) = Len(ys) + x.l
      /\ \A k \in 1 .. x.l : ws[Len(ys) + k] = zs[k]
  <2>1. Begins(ys, ws) /\ ws \in Seq(A) /\ Len(ws) = Len(ys) + Len(zs) /\ Follows(ws, Len(ys), zs)
    BY BeginsJoined
  <2> HIDE DEF ws
  <2> QED
    BY <2>1 DEF Follows
<1>4. x.l \in Nat /\ x.m \in Nat /\ Len(ys) \in Nat
  BY LimitAssumption DEF Trip
<1> DEFINE place1 == [j \in 0 .. n + 1 |-> IF j <= n THEN place[j] ELSE p + x.l + x.m]
           used1 == [j \in 0 .. n + 1 |-> IF j <= n THEN used[j] ELSE Len(ys) + x.l]
<1> HIDE DEF n, us, ws
<1>5. /\ place \in [0 .. n -> Nat] /\ used \in [0 .. n -> Nat]
      /\ \A j \in 1 .. n : OneStep(s, xs[j], ys, place[j - 1], used[j - 1], place[j], used[j])
  BY <1>1 DEF Leads, n
<1>6. /\ place1 \in [0 .. n + 1 -> Nat] /\ used1 \in [0 .. n + 1 -> Nat]
      /\ \A j \in 0 .. n : place1[j] = place[j] /\ used1[j] = used[j]
      /\ place1[n + 1] = p + x.l + x.m /\ used1[n + 1] = Len(ys) + x.l
  <2>1. ASSUME NEW j \in 0 .. n + 1, j <= n PROVE place[j] \in Nat /\ used[j] \in Nat
    <3>1. j \in 0 .. n
      BY <1>2, <2>1
    <3> QED
      BY <1>5, <3>1
  <2>2. p + x.l + x.m \in Nat /\ Len(ys) + x.l \in Nat
    BY <1>4
  <2>3. place1 \in [0 .. n + 1 -> Nat] /\ used1 \in [0 .. n + 1 -> Nat]
    BY <2>1, <2>2
  <2>4. n + 1 \in 0 .. n + 1 /\ ~(n + 1 <= n) /\ \A j \in 0 .. n : j \in 0 .. n + 1 /\ j <= n
    BY <1>2
  <2> QED
    BY <2>3, <2>4
<1> HIDE DEF place1, used1
<1>7. ASSUME NEW j \in 1 .. n + 1
      PROVE  OneStep(s, us[j], ws, place1[j - 1], used1[j - 1], place1[j], used1[j])
  <2>1. CASE j \in 1 .. n
    <3>1. j - 1 \in 0 .. n /\ j \in 0 .. n
      BY <1>2, <2>1
    <3>2. place[j - 1] \in Nat /\ used[j - 1] \in Nat
      BY <1>5, <3>1
    <3>3. OneStep(s, xs[j], ws, place[j - 1], used[j - 1], place[j], used[j])
      BY <1>2, <1>3, <1>5, <2>1, <3>2, OneStepLonger
    <3> QED
      BY <1>2, <1>6, <2>1, <3>1, <3>3
  <2>2. CASE j = n + 1
    <3>1. j - 1 = n /\ n \in 0 .. n
      BY <1>2, <2>2
    <3>2. place1[j - 1] = p /\ used1[j - 1] = Len(ys) /\ us[j] = x
      BY <1>1, <1>2, <1>6, <2>2, <3>1 DEF n
    <3>3. \A k \in 1 .. x.l : ws[Len(ys) + k] = s[p + k]
      BY <1>3
    <3>4. Len(ys) + x.l <= Len(ws)
      BY <1>3, <1>4
    <3>5. OneStep(s, x, ws, p, Len(ys), p + x.l + x.m, Len(ys) + x.l)
      BY <3>3, <3>4 DEF OneStep
    <3> QED
      BY <1>6, <2>2, <3>2, <3>5
  <2> QED
    BY <1>2, <2>1, <2>2
<1>8. Leads(s, us, ws, place1, used1)
  BY <1>2, <1>6, <1>7 DEF Leads
<1>9. place1[0] = p0 /\ used1[0] = 0
  BY <1>1, <1>2, <1>6
<1>10. place1[Len(us)] = p + x.l + x.m /\ used1[Len(us)] = Len(ws)
  BY <1>2, <1>3, <1>6
<1>11. Tells(s, p0, us, ws, p + x.l + x.m)
  BY <1>8, <1>9, <1>10 DEF Tells
<1> QED
  BY <1>11 DEF us, ws

-----------------------------------------------------------------------------
(* The parts of a long match.                                               *)

\* What is left of a length after its splits is positive and within the limit.
LEMMA SplitsBounds ==
  ASSUME NEW n \in Nat, NEW limit \in Nat \ {0}, NEW k, k = Splits(n, limit)
  PROVE  /\ k \in Nat /\ (n = 0 => k = 0)
         /\ n > 0 => limit * k < n /\ n <= limit * k + limit
<1>1. CASE n = 0
  BY <1>1 DEF Splits
<1>2. CASE n > 0
  <2>1. k = (n - 1) \div limit /\ n - 1 \in Nat /\ limit \in Nat /\ limit > 0
    BY <1>2 DEF Splits
  <2>2. k \in Int /\ limit * k <= n - 1 /\ n - 1 < limit * k + limit
    BY <2>1, DivBounds
  <2>3. k >= 0
    <3>1. SUFFICES ASSUME k <= -1 PROVE FALSE
      BY <2>2
    <3>2. limit * k <= -limit
      BY <2>1, <2>2, <3>1
    <3>3. limit * k \in Int
      BY <2>1, <2>2
    <3> QED
      BY <2>1, <2>2, <3>2, <3>3
  <2>4. limit * k \in Int
    BY <2>1, <2>2
  <2> QED
    BY <1>2, <2>2, <2>3, <2>4
<1> QED
  BY <1>1, <1>2

\* The literals in front of the match, and the last part of the match.
Rest(L) == L - MaxL * Splits(L, MaxL)
LastPart(M) == M - MaxM * Splits(M, MaxM)

PartsShape(parts, L, M, D, sl, sm) ==
  /\ \A i \in 1 .. sl : parts[i] = Triple(MaxL, 0, 1)
  /\ \A i \in 1 .. sm : parts[sl + i] = Triple(IF i = 1 THEN Rest(L) ELSE 0, MaxM, D)
  /\ ~(L = 0 /\ M = 0) =>
       parts[sl + sm + 1] = Triple(IF sm = 0 THEN Rest(L) ELSE 0, LastPart(M), D)

\* The parts of a match are triples, as many as its splits ask for.
LEMMA PartsAre ==
  ASSUME NEW L \in Nat, NEW M \in Nat, NEW D \in 1 .. MaxD, NEW parts, parts = Parts(L, M, D),
         NEW sl, sl = Splits(L, MaxL), NEW sm, sm = Splits(M, MaxM)
  PROVE  /\ sl \in Nat /\ sm \in Nat /\ Rest(L) \in 0 .. MaxL /\ LastPart(M) \in 0 .. MaxM
         /\ (L > 0 => Rest(L) > 0) /\ (L = 0 => sl = 0) /\ (M = 0 => sm = 0)
         /\ parts \in Seq(Trip)
         /\ Len(parts) = sl + sm + (IF L = 0 /\ M = 0 THEN 0 ELSE 1)
         /\ PartsShape(parts, L, M, D, sl, sm)
<1> DEFINE a == [i \in 1 .. sl |-> Triple(MaxL, 0, 1)]
           b == [i \in 1 .. sm |-> Triple(IF i = 1 THEN Rest(L) ELSE 0, MaxM, D)]
           c == IF L = 0 /\ M = 0 THEN <<>>
                ELSE <<Triple(IF sm = 0 THEN Rest(L) ELSE 0, LastPart(M), D)>>
<1>1. MaxL \in Nat \ {0} /\ MaxM \in Nat \ {0} /\ MaxD \in Nat \ {0}
  BY LimitAssumption
<1>2. /\ sl \in Nat /\ (L = 0 => sl = 0)
      /\ L > 0 => MaxL * sl < L /\ L <= MaxL * sl + MaxL
  BY <1>1, SplitsBounds
<1>3. /\ sm \in Nat /\ (M = 0 => sm = 0)
      /\ M > 0 => MaxM * sm < M /\ M <= MaxM * sm + MaxM
  BY <1>1, SplitsBounds
<1>4. Rest(L) \in 0 .. MaxL /\ (L > 0 => Rest(L) > 0)
  <2> DEFINE t == MaxL * sl
  <2>1. t \in Int /\ (sl = 0 => t = 0) /\ Rest(L) = L - t
    BY <1>1, <1>2 DEF Rest
  <2>2. L > 0 => t < L /\ L <= t + MaxL
    BY <1>2
  <2> HIDE DEF t
  <2> QED
    BY <1>1, <1>2, <2>1, <2>2
<1>5. LastPart(M) \in 0 .. MaxM
  <2> DEFINE t == MaxM * sm
  <2>1. t \in Int /\ (sm = 0 => t = 0) /\ LastPart(M) = M - t
    BY <1>1, <1>3 DEF LastPart
  <2>2. M > 0 => t < M /\ M <= t + MaxM
    BY <1>3
  <2> HIDE DEF t
  <2> QED
    BY <1>1, <1>3, <2>1, <2>2
<1>6. Parts(L, M, D) = Join(Join(a, b), c)
  BY DEF Parts, Rest, LastPart, Join
<1>7. Triple(MaxL, 0, 1) \in Trip
  BY <1>1 DEF Trip, Triple
<1>8. \A i : Triple(IF i = 1 THEN Rest(L) ELSE 0, MaxM, D) \in Trip
  BY <1>1, <1>4 DEF Trip, Triple
<1>9. Triple(IF sm = 0 THEN Rest(L) ELSE 0, LastPart(M), D) \in Trip
  BY <1>1, <1>4, <1>5 DEF Trip, Triple
<1>10. a \in Seq(Trip) /\ Len(a) = sl /\ \A i \in 1 .. sl : a[i] = Triple(MaxL, 0, 1)
  BY <1>2, <1>7
<1>11. /\ b \in Seq(Trip) /\ Len(b) = sm
       /\ \A i \in 1 .. sm : b[i] = Triple(IF i = 1 THEN Rest(L) ELSE 0, MaxM, D)
  <2> DEFINE T(i) == Triple(IF i = 1 THEN Rest(L) ELSE 0, MaxM, D)
  <2>1. b = [i \in 1 .. sm |-> T(i)] /\ \A i : T(i) \in Trip
    BY <1>8
  <2> HIDE DEF T, b
  <2>2. b \in Seq(Trip) /\ Len(b) = sm /\ \A i \in 1 .. sm : b[i] = T(i)
    BY <1>3, <2>1
  <2> QED
    BY <2>2 DEF T
<1>12. /\ c \in Seq(Trip) /\ Len(c) = (IF L = 0 /\ M = 0 THEN 0 ELSE 1)
       /\ ~(L = 0 /\ M = 0) => c[1] = Triple(IF sm = 0 THEN Rest(L) ELSE 0, LastPart(M), D)
  BY <1>9
<1> HIDE DEF a, b, c
<1> DEFINE ab == Join(a, b)
           p == Join(ab, c)
<1>13. Begins(a, ab) /\ ab \in Seq(Trip) /\ Len(ab) = sl + sm /\ Follows(ab, sl, b)
  <2>1. a \in Seq(Trip) /\ b \in Seq(Trip)
    BY <1>10, <1>11
  <2>2. Begins(a, ab) /\ ab \in Seq(Trip) /\ Len(ab) = Len(a) + Len(b) /\ Follows(ab, Len(a), b)
    BY <2>1, BeginsJoined
  <2> HIDE DEF ab
  <2> QED
    BY <1>10, <1>11, <2>2
<1> HIDE DEF ab
<1>14. Begins(ab, p) /\ p \in Seq(Trip) /\ Len(p) = sl + sm + Len(c) /\ Follows(p, sl + sm, c)
  BY <1>12, <1>13, BeginsJoined
<1>15. parts = p
  BY <1>6 DEF ab
<1> HIDE DEF p
<1>16. ASSUME NEW i \in 1 .. sl PROVE p[i] = Triple(MaxL, 0, 1)
  <2>1. i \in 1 .. Len(a) /\ i \in 1 .. Len(ab)
    BY <1>2, <1>3, <1>10, <1>13
  <2> QED
    BY <1>10, <1>13, <1>14, <2>1 DEF Begins
<1>17. ASSUME NEW i \in 1 .. sm PROVE p[sl + i] = Triple(IF i = 1 THEN Rest(L) ELSE 0, MaxM, D)
  <2>1. i \in 1 .. Len(b) /\ sl + i \in 1 .. Len(ab)
    BY <1>2, <1>3, <1>11, <1>13
  <2> QED
    BY <1>11, <1>13, <1>14, <2>1 DEF Begins, Follows
<1>18. ASSUME ~(L = 0 /\ M = 0)
       PROVE  p[sl + sm + 1] = Triple(IF sm = 0 THEN Rest(L) ELSE 0, LastPart(M), D)
  <2>1. 1 \in 1 .. Len(c)
    BY <1>12, <1>18
  <2> QED
    BY <1>12, <1>14, <1>18, <2>1 DEF Follows
<1>19. PartsShape(p, L, M, D, sl, sm)
  BY <1>16, <1>17, <1>18, Zenon DEF PartsShape
<1> QED
  BY <1>2, <1>3, <1>4, <1>5, <1>12, <1>14, <1>15, <1>19

\* What the provers need to know of the parts: g counts the literals, h the bytes
\* of the match; no literal comes behind a byte of the match.
Divided(parts, L, M, D, g, h) ==
  /\ g \in [0 .. Len(parts) -> 0 .. L] /\ h \in [0 .. Len(parts) -> 0 .. M]
  /\ g[0] = 0 /\ h[0] = 0 /\ g[Len(parts)] = L /\ h[Len(parts)] = M
  /\ \A i \in 1 .. Len(parts) :
       /\ g[i] = g[i - 1] + parts[i].l /\ h[i] = h[i - 1] + parts[i].m
       /\ parts[i].l = 0 \/ h[i - 1] = 0
       /\ \/ parts[i].d = D /\ g[i] = L
          \/ parts[i].d = 1 /\ parts[i].m = 0 /\ parts[i].l > 0

\* Multiplication by a natural number is monotone.
LEMMA TimesMonotone ==
  ASSUME NEW a \in Nat, NEW i \in Nat, NEW j \in Nat, i <= j
  PROVE  a * i \in Nat /\ a * i <= a * j
<1>1. j - i \in Nat /\ a * j = a * i + a * (j - i)
  OBVIOUS
<1>2. a * (j - i) \in Nat /\ a * i \in Nat
  BY <1>1
<1> QED
  BY <1>1, <1>2

\* The lengths of the parts add up to those of the match.
LEMMA PartsDivide ==
  ASSUME NEW L \in Nat, NEW M \in Nat, NEW D \in 1 .. MaxD, NEW parts, parts = Parts(L, M, D)
  PROVE  \E g, h : Divided(parts, L, M, D, g, h)
<1> DEFINE sl == Splits(L, MaxL)
           sm == Splits(M, MaxM)
           n == Len(parts)
           rest == Rest(L)
           last == LastPart(M)
           one == IF L = 0 /\ M = 0 THEN 0 ELSE 1
<1>1. MaxL \in Nat \ {0} /\ MaxM \in Nat \ {0}
  BY LimitAssumption
<1>2. /\ sl \in Nat /\ sm \in Nat /\ rest \in 0 .. MaxL /\ last \in 0 .. MaxM
      /\ (L = 0 => sl = 0) /\ (M = 0 => sm = 0)
      /\ parts \in Seq(Trip) /\ n = sl + sm + one
      /\ \A i \in 1 .. sl : parts[i] = Triple(MaxL, 0, 1)
      /\ \A i \in 1 .. sm : parts[sl + i] = Triple(IF i = 1 THEN rest ELSE 0, MaxM, D)
      /\ ~(L = 0 /\ M = 0) => parts[sl + sm + 1] = Triple(IF sm = 0 THEN rest ELSE 0, last, D)
  <2>1. sl = Splits(L, MaxL) /\ sm = Splits(M, MaxM)
    OBVIOUS
  <2> HIDE DEF sl, sm
  <2>2. /\ sl \in Nat /\ sm \in Nat /\ Rest(L) \in 0 .. MaxL /\ LastPart(M) \in 0 .. MaxM
        /\ (L = 0 => sl = 0) /\ (M = 0 => sm = 0)
        /\ parts \in Seq(Trip) /\ Len(parts) = sl + sm + (IF L = 0 /\ M = 0 THEN 0 ELSE 1)
        /\ PartsShape(parts, L, M, D, sl, sm)
    BY <2>1, PartsAre
  <2>3. /\ \A i \in 1 .. sl : parts[i] = Triple(MaxL, 0, 1)
        /\ \A i \in 1 .. sm : parts[sl + i] = Triple(IF i = 1 THEN Rest(L) ELSE 0, MaxM, D)
        /\ ~(L = 0 /\ M = 0) =>
             parts[sl + sm + 1] = Triple(IF sm = 0 THEN Rest(L) ELSE 0, LastPart(M), D)
    BY <2>2, Zenon DEF PartsShape
  <2> QED
    BY <2>2, <2>3
<1>3. MaxL * sl \in Nat /\ L = MaxL * sl + rest
  BY <1>1, <1>2 DEF Rest
<1>4. MaxM * sm \in Nat /\ M = MaxM * sm + last
  BY <1>1, <1>2 DEF LastPart
<1> DEFINE lg == [i \in 0 .. sl |-> MaxL * i]
           mg == [i \in 0 .. sm |-> MaxM * i]
<1>5. /\ lg[0] = 0 /\ lg[sl] = L - rest
      /\ \A i \in 0 .. sl : lg[i] \in 0 .. L
      /\ \A i \in 1 .. sl : lg[i] = lg[i - 1] + MaxL
  <2>1. ASSUME NEW i \in 0 .. sl PROVE MaxL * i \in Nat /\ MaxL * i <= MaxL * sl
    <3>1. i \in Nat /\ sl \in Nat /\ i <= sl /\ MaxL \in Nat
      BY <1>1, <1>2
    <3> QED
      BY <3>1, TimesMonotone
  <2>2. ASSUME NEW i \in 1 .. sl PROVE MaxL * i = MaxL * (i - 1) + MaxL
    BY <1>1, <1>2
  <2>3. MaxL * 0 = 0 /\ 0 \in 0 .. sl /\ sl \in 0 .. sl /\ rest \in Nat
    BY <1>1, <1>2
  <2>4. \A i \in 1 .. sl : i \in 0 .. sl /\ i - 1 \in 0 .. sl
    BY <1>2
  <2>5. \A i \in 0 .. sl : lg[i] = MaxL * i
    OBVIOUS
  <2> HIDE DEF lg
  <2>6. ASSUME NEW i \in 0 .. sl PROVE lg[i] \in 0 .. L
    BY <1>3, <2>1, <2>3, <2>5
  <2>7. ASSUME NEW i \in 1 .. sl PROVE lg[i] = lg[i - 1] + MaxL
    BY <2>2, <2>4, <2>5
  <2>8. lg[0] = 0 /\ lg[sl] = L - rest
    BY <1>3, <2>3, <2>5
  <2> QED
    BY <2>6, <2>7, <2>8
<1>6. /\ mg[0] = 0 /\ mg[sm] = M - last
      /\ \A i \in 0 .. sm : mg[i] \in 0 .. M
      /\ \A i \in 1 .. sm : mg[i] = mg[i - 1] + MaxM
  <2>1. ASSUME NEW i \in 0 .. sm PROVE MaxM * i \in Nat /\ MaxM * i <= MaxM * sm
    <3>1. i \in Nat /\ sm \in Nat /\ i <= sm /\ MaxM \in Nat
      BY <1>1, <1>2
    <3> QED
      BY <3>1, TimesMonotone
  <2>2. ASSUME NEW i \in 1 .. sm PROVE MaxM * i = MaxM * (i - 1) + MaxM
    BY <1>1, <1>2
  <2>3. MaxM * 0 = 0 /\ 0 \in 0 .. sm /\ sm \in 0 .. sm /\ last \in Nat
    BY <1>1, <1>2
  <2>4. \A i \in 1 .. sm : i \in 0 .. sm /\ i - 1 \in 0 .. sm
    BY <1>2
  <2>5. \A i \in 0 .. sm : mg[i] = MaxM * i
    OBVIOUS
  <2> HIDE DEF mg
  <2>6. ASSUME NEW i \in 0 .. sm PROVE mg[i] \in 0 .. M
    BY <1>4, <2>1, <2>3, <2>5
  <2>7. ASSUME NEW i \in 1 .. sm PROVE mg[i] = mg[i - 1] + MaxM
    BY <2>2, <2>4, <2>5
  <2>8. mg[0] = 0 /\ mg[sm] = M - last
    BY <1>4, <2>3, <2>5
  <2> QED
    BY <2>6, <2>7, <2>8
<1> DEFINE g == [i \in 0 .. n |-> IF i <= sl THEN lg[i] ELSE L]
           h == [i \in 0 .. n |-> IF i <= sl THEN 0 ELSE IF i <= sl + sm THEN mg[i - sl] ELSE M]
<1> HIDE DEF sl, sm, n, rest, last, lg, mg
<1>7. n \in Nat /\ n >= sl + sm /\ n <= sl + sm + 1 /\ (n = sl + sm <=> L = 0 /\ M = 0)
  BY <1>2
<1>8. ASSUME NEW i \in 0 .. n
      PROVE  /\ (i <= sl => g[i] = lg[i] /\ h[i] = 0) /\ (i > sl => g[i] = L)
             /\ (i >= sl /\ i <= sl + sm => h[i] = mg[i - sl])
             /\ (i > sl + sm => h[i] = M)
             /\ g[i] \in 0 .. L /\ h[i] \in 0 .. M
  <2>1. i <= sl => i \in 0 .. sl
    BY <1>2
  <2>2. i >= sl /\ i <= sl + sm => i - sl \in 0 .. sm
    BY <1>2
  <2>3. i = sl => i - sl = 0
    BY <1>2
  <2>4. sl + sm >= sl
    BY <1>2
  <2> QED
    BY <1>2, <1>5, <1>6, <2>1, <2>2, <2>3, <2>4
<1>9. g \in [0 .. n -> 0 .. L] /\ h \in [0 .. n -> 0 .. M]
  <2>1. g = [i \in 0 .. n |-> g[i]] /\ h = [i \in 0 .. n |-> h[i]]
    OBVIOUS
  <2> HIDE DEF g, h
  <2> QED
    BY <1>8, <2>1
<1> HIDE DEF g, h
<1>10. g[0] = 0 /\ h[0] = 0
  <2>1. 0 \in 0 .. n /\ 0 <= sl
    BY <1>2, <1>7
  <2> QED
    BY <1>5, <1>8, <2>1
<1>11. g[n] = L /\ h[n] = M
  <2>1. n \in 0 .. n
    BY <1>7
  <2>2. CASE L = 0 /\ M = 0
    <3>1. g[n] \in 0 .. L /\ h[n] \in 0 .. M
      BY <1>8, <2>1
    <3> QED
      BY <2>2, <3>1
  <2>3. CASE ~(L = 0 /\ M = 0)
    <3>1. n > sl + sm /\ n > sl
      BY <1>2, <1>7, <2>3
    <3> QED
      BY <1>8, <2>1, <3>1
  <2> QED
    BY <2>2, <2>3
<1>12. ASSUME NEW i \in 1 .. n
       PROVE  /\ g[i] = g[i - 1] + parts[i].l /\ h[i] = h[i - 1] + parts[i].m
              /\ parts[i].l = 0 \/ h[i - 1] = 0
              /\ \/ parts[i].d = D /\ g[i] = L
                 \/ parts[i].d = 1 /\ parts[i].m = 0 /\ parts[i].l > 0
  <2>1. i \in 0 .. n /\ i - 1 \in 0 .. n /\ i \in Nat /\ i > 0
    BY <1>7
  <2>2. CASE i <= sl
    <3>1. i \in 1 .. sl /\ i - 1 <= sl
      BY <1>2, <2>1, <2>2
    <3>2. parts[i] = Triple(MaxL, 0, 1) /\ lg[i] = lg[i - 1] + MaxL
      BY <1>2, <1>5, <3>1
    <3>3. parts[i].l = MaxL /\ parts[i].m = 0 /\ parts[i].d = 1
      BY <3>2 DEF Triple
    <3>4. g[i] = lg[i] /\ h[i] = 0 /\ g[i - 1] = lg[i - 1] /\ h[i - 1] = 0
      BY <1>8, <2>1, <2>2, <3>1
    <3> QED
      BY <1>1, <3>2, <3>3, <3>4
  <2>3. CASE i > sl /\ i <= sl + sm
    <3> DEFINE j == i - sl
    <3>1. j \in 1 .. sm /\ sl + j = i /\ i - 1 >= sl /\ i - 1 <= sl + sm /\ i - 1 - sl = j - 1
      BY <1>2, <2>1, <2>3
    <3>2. h[i] = mg[j] /\ h[i - 1] = mg[j - 1] /\ g[i] = L
      <4>1. h[i] = mg[j] /\ g[i] = L
        BY <1>2, <1>8, <2>1, <2>3
      <4>2. h[i - 1] = mg[i - 1 - sl]
        BY <1>8, <2>1, <3>1
      <4> QED
        BY <3>1, <4>1, <4>2
    <3>3. parts[i] = Triple(IF j = 1 THEN rest ELSE 0, MaxM, D) /\ mg[j] = mg[j - 1] + MaxM
      <4> HIDE DEF j
      <4> QED
        BY <1>2, <1>6, <3>1
    <3>4. parts[i].l = (IF j = 1 THEN rest ELSE 0) /\ parts[i].m = MaxM /\ parts[i].d = D
      BY <3>3 DEF Triple
    <3>5. CASE j = 1
      <4>1. i - 1 = sl
        BY <2>1, <1>2, <3>5
      <4>2. g[i - 1] = L - rest /\ h[i - 1] = 0
        BY <1>2, <1>5, <1>8, <2>1, <4>1
      <4>3. rest \in Int
        BY <1>2
      <4> QED
        BY <3>2, <3>3, <3>4, <3>5, <4>2, <4>3
    <3>6. CASE j # 1
      <4>1. i - 1 > sl
        BY <1>2, <2>1, <2>3, <3>1, <3>6
      <4>2. g[i - 1] = L
        BY <1>8, <2>1, <4>1
      <4> QED
        BY <3>2, <3>3, <3>4, <3>6, <4>2
    <3> QED
      BY <3>5, <3>6
  <2>4. CASE i > sl + sm
    <3>1. i = sl + sm + 1 /\ ~(L = 0 /\ M = 0) /\ i > sl /\ i - 1 = sl + sm /\ i - 1 >= sl
      BY <1>2, <1>7, <2>1, <2>4
    <3>2. parts[i] = Triple(IF sm = 0 THEN rest ELSE 0, last, D)
      BY <1>2, <3>1
    <3>3. parts[i].l = (IF sm = 0 THEN rest ELSE 0) /\ parts[i].m = last /\ parts[i].d = D
      BY <3>2 DEF Triple
    <3>4. g[i] = L /\ h[i] = M
      BY <1>8, <2>1, <2>4, <3>1
    <3>5. i - 1 - sl = sm
      BY <1>2, <3>1
    <3>6. h[i - 1] = M - last
      BY <1>6, <1>8, <2>1, <3>1, <3>5
    <3>7. CASE sm = 0
      <4>1. i - 1 = sl
        BY <1>2, <3>1, <3>7
      <4>2. g[i - 1] = L - rest /\ h[i - 1] = 0
        BY <1>2, <1>5, <1>8, <2>1, <4>1
      <4>3. rest \in Int /\ last \in Int
        BY <1>2
      <4> QED
        BY <3>3, <3>4, <3>6, <3>7, <4>2, <4>3
    <3>8. CASE sm # 0
      <4>1. i - 1 > sl
        BY <1>2, <3>1, <3>8
      <4>2. g[i - 1] = L
        BY <1>8, <2>1, <4>1
      <4>3. last \in Int
        BY <1>2
      <4> QED
        BY <3>3, <3>4, <3>6, <3>8, <4>2, <4>3
    <3> QED
      BY <3>7, <3>8
  <2> QED
    BY <1>2, <2>1, <2>2, <2>3, <2>4
<1>13. Divided(parts, L, M, D, g, h)
  BY <1>9, <1>10, <1>11, <1>12 DEF Divided, n
<1> QED
  BY <1>13

-----------------------------------------------------------------------------
(* What a block of told triples decodes to.                                 *)

\* Sequences of the same length and elements are the same.
LEMMA SameSequence ==
  ASSUME NEW A, NEW s \in Seq(A), NEW t \in Seq(A), Len(s) = Len(t),
         \A i \in 1 .. Len(s) : s[i] = t[i]
  PROVE  s = t
OBVIOUS

\* The first n elements of t are those of s.
Alike(t, s, n) == \A i \in 1 .. n : t[i] = s[i]

\* Where the first p elements are the same and the others repeat what is d before
\* them, all are the same.
LEMMA RecursDetermines ==
  ASSUME NEW A, NEW s \in Seq(A), NEW t \in Seq(A), NEW p \in Nat, NEW m \in Nat, NEW d \in 1 .. p,
         p + m <= Len(s), Len(t) = p + m, Alike(t, s, p),
         Recurs(s, p, m, d), Recurs(t, p, m, d)
  PROVE  t = FirstOf(s, p + m)
<1> DEFINE S == {k \in Nat : k <= m => \A i \in 1 .. p + k : t[i] = s[i]}
<1>1. 0 \in S
  BY DEF Alike
<1>2. ASSUME NEW k \in Nat, k \in S PROVE k + 1 \in S
  <2> SUFFICES ASSUME k + 1 <= m, NEW i \in 1 .. p + (k + 1) PROVE t[i] = s[i]
    OBVIOUS
  <2>1. k <= m /\ \A j \in 1 .. p + k : t[j] = s[j]
    BY <1>2
  <2>2. CASE i \in 1 .. p + k
    BY <2>1, <2>2
  <2>3. CASE i = p + (k + 1)
    <3>1. k + 1 \in 1 .. m /\ p + (k + 1) - d \in 1 .. p + k
      OBVIOUS
    <3>2. t[p + (k + 1)] = t[p + (k + 1) - d] /\ s[p + (k + 1)] = s[p + (k + 1) - d]
      BY <3>1 DEF Recurs
    <3> QED
      BY <2>1, <2>3, <3>1, <3>2
  <2> QED
    BY <2>2, <2>3
<1>3. m \in S
  <2> HIDE DEF S
  <2>1. Nat \subseteq S
    BY <1>1, <1>2, NatInductionSet
  <2> QED
    BY <2>1
<1>4. \A i \in 1 .. p + m : t[i] = s[i]
  BY <1>3
<1>5. /\ FirstOf(s, p + m) \in Seq(A) /\ Len(FirstOf(s, p + m)) = p + m
      /\ \A i \in 1 .. p + m : FirstOf(s, p + m)[i] = s[i]
  BY FrontBehind
<1>6. \A i \in 1 .. Len(t) : t[i] = FirstOf(s, p + m)[i]
  BY <1>4, <1>5
<1> QED
  BY <1>5, <1>6, SameSequence

\* A stretch of literals joined to the bytes before it.
LEMMA LiteralsJoined ==
  ASSUME NEW A, NEW s \in Seq(A), NEW p \in Nat, NEW l \in Nat, p + l <= Len(s),
         NEW ls \in Seq(A), l <= Len(ls), Takes(s, p, ls, l)
  PROVE  Join(FirstOf(s, p), FirstOf(ls, l)) = FirstOf(s, p + l)
<1> DEFINE a == FirstOf(s, p)
           b == FirstOf(ls, l)
           w == Join(a, b)
           c == FirstOf(s, p + l)
<1>1. Len(s) \in Nat /\ Len(ls) \in Nat /\ p \in 0 .. Len(s) /\ l \in 0 .. Len(ls) /\ p + l \in 0 .. Len(s)
  OBVIOUS
<1>2. a \in Seq(A) /\ Len(a) = p /\ \A i \in 1 .. p : a[i] = s[i]
  BY <1>1, FrontBehind
<1>3. b \in Seq(A) /\ Len(b) = l /\ \A i \in 1 .. l : b[i] = ls[i]
  BY <1>1, FrontBehind
<1>4. c \in Seq(A) /\ Len(c) = p + l /\ \A i \in 1 .. p + l : c[i] = s[i]
  BY <1>1, FrontBehind
<1> HIDE DEF a, b, c
<1>5. w \in Seq(A) /\ Len(w) = p + l /\ Begins(a, w) /\ Follows(w, p, b)
  BY <1>2, <1>3, BeginsJoined
<1> HIDE DEF w
<1>6. ASSUME NEW i \in 1 .. p + l PROVE w[i] = c[i]
  <2>1. CASE i <= p
    BY <1>2, <1>4, <1>5, <2>1 DEF Begins
  <2>2. CASE i > p
    <3> DEFINE k == i - p
    <3>1. k \in 1 .. l /\ p + k = i
      BY <2>2
    <3> HIDE DEF k
    <3>2. w[p + k] = b[k]
      BY <1>3, <1>5, <3>1 DEF Follows
    <3>3. b[k] = s[p + k]
      BY <1>3, <3>1 DEF Takes
    <3> QED
      BY <1>4, <3>1, <3>2, <3>3
  <2> QED
    BY <2>1, <2>2
<1>7. w = c
  BY <1>4, <1>5, <1>6, SameSequence
<1> QED
  BY <1>7 DEF w, a, b, c

\* What is behind k elements of what is behind n.
LEMMA BehindTwice ==
  ASSUME NEW A, NEW s \in Seq(A), NEW n \in Nat, NEW k \in Nat, n + k <= Len(s)
  PROVE  Behind(Behind(s, n), k) = Behind(s, n + k)
<1> DEFINE a == Behind(s, n)
           b == Behind(a, k)
           c == Behind(s, n + k)
<1>1. n \in 0 .. Len(s) /\ n + k \in 0 .. Len(s) /\ Len(s) \in Nat
  OBVIOUS
<1>2. a \in Seq(A) /\ Len(a) = Len(s) - n /\ Follows(s, n, a)
  BY <1>1, FrontBehind
<1>3. c \in Seq(A) /\ Len(c) = Len(s) - (n + k) /\ Follows(s, n + k, c)
  BY <1>1, FrontBehind
<1> HIDE DEF a, c
<1>k. k \in 0 .. Len(a)
  BY <1>1, <1>2
<1>4. b \in Seq(A) /\ Len(b) = Len(a) - k /\ Follows(a, k, b)
  BY <1>2, <1>k, FrontBehind
<1> HIDE DEF b
<1>5. Len(b) = Len(c)
  BY <1>1, <1>2, <1>3, <1>4
<1>6. ASSUME NEW i \in 1 .. Len(b) PROVE b[i] = c[i]
  <2>1. a[k + i] = b[i]
    BY <1>4 DEF Follows
  <2>2. k + i \in 1 .. Len(a)
    BY <1>1, <1>2, <1>4
  <2>3. s[n + (k + i)] = a[k + i]
    BY <1>2, <2>2 DEF Follows
  <2>4. s[n + k + i] = c[i]
    BY <1>3, <1>5 DEF Follows
  <2>5. n + (k + i) = n + k + i
    BY <1>1
  <2> QED
    BY <2>1, <2>3, <2>4, <2>5
<1>7. b = c
  BY <1>3, <1>4, <1>5, <1>6, SameSequence
<1> QED
  BY <1>7 DEF a, b, c

\* What the decoder has when it is behind the first p bytes of s and the first q
\* literals.
Between(s, ls, p, q, d) ==
  [bytes |-> FirstOf(s, p), lits |-> Behind(ls, q), d |-> d, sound |-> TRUE]

\* y is x as it is stored: with 0 for a distance that is the one before.
LEMMA OneStepDecoded ==
  ASSUME NEW A, NEW s \in Seq(A), NEW x \in Trip, NEW ys \in Seq(A), NEW ls \in Seq(A), Begins(ys, ls),
         NEW p \in Nat, NEW q \in Nat, NEW p1, NEW q1, OneStep(s, x, ys, p, q, p1, q1),
         NEW d \in Nat, NEW y \in LMD, y.l = x.l, y.m = x.m,
         x.d = (IF y.d = 0 THEN d ELSE y.d)
  PROVE  Executed(Between(s, ls, p, q, d), y) = Between(s, ls, p1, q1, x.d)
<1> DEFINE l == x.l
           m == x.m
           e == x.d
           acc == Between(s, ls, p, q, d)
           bs == FirstOf(s, p)
           rest == Behind(ls, q)
<1>1. /\ p1 = p + l + m /\ q1 = q + l /\ p1 <= Len(s) /\ q1 <= Len(ys)
      /\ \A k \in 1 .. l : ys[q + k] = s[p + k]
      /\ Recurs(s, p + l, m, e) /\ e \in 1 .. p + l
  BY DEF OneStep
<1>2. l \in Nat /\ m \in Nat /\ e \in Nat
  BY LimitAssumption DEF Trip
<1>3. acc.bytes = bs /\ acc.lits = rest /\ acc.d = d /\ acc.sound = TRUE
  BY DEF Between
<1>4. y.l = l /\ y.m = m /\ DistanceOf(acc, y) = e
  BY <1>3 DEF DistanceOf
<1> HIDE DEF l, m, e, acc
<1>5. Len(s) \in Nat /\ Len(ys) \in Nat /\ Len(ls) \in Nat /\ Len(ys) <= Len(ls)
  BY DEF Begins
<1>6. p \in 0 .. Len(s) /\ p + l \in 0 .. Len(s) /\ q \in 0 .. Len(ls) /\ q + l <= Len(ls)
  BY <1>1, <1>2, <1>5
<1>7. rest \in Seq(A) /\ Len(rest) = Len(ls) - q /\ Follows(ls, q, rest)
  BY <1>6, FrontBehind
<1>8. Behind(rest, l) = Behind(ls, q1)
  BY <1>1, <1>2, <1>6, BehindTwice
<1> HIDE DEF rest
<1>9. Takes(s, p, rest, l)
  <2> SUFFICES ASSUME NEW k \in 1 .. l PROVE s[p + k] = rest[k]
    BY DEF Takes
  <2>1. k \in 1 .. Len(rest) /\ q + k \in 1 .. Len(ys)
    <3> DEFINE a == Len(rest)
               b == Len(ls)
               c == Len(ys)
    <3>1. a = b - q /\ q + l <= b /\ q + l <= c /\ b \in Nat /\ c \in Nat
      BY <1>1, <1>5, <1>6, <1>7
    <3> HIDE DEF a, b, c
    <3>2. k \in 1 .. a /\ q + k \in 1 .. c
      BY <1>2, <3>1
    <3> QED
      BY <3>2 DEF a, c
  <2>2. ls[q + k] = rest[k] /\ ls[q + k] = ys[q + k]
    BY <1>7, <2>1 DEF Follows, Begins
  <2> QED
    BY <1>1, <2>2
<1>10. l <= Len(rest)
  BY <1>2, <1>5, <1>6, <1>7
<1>11. LiteralsOf(acc, y) = l
  <2>1. Len(rest) \in Int /\ l \in Int
    BY <1>2, <1>7
  <2>2. Min({l, Len(rest)}) = l
    BY <1>10, <2>1, MinOfTwo
  <2> QED
    BY <1>3, <1>4, <2>2 DEF LiteralsOf
<1> DEFINE w == FirstOf(s, p + l)
<1>12. WithLiterals(acc, y) = w
  <2>1. Join(bs, FirstOf(rest, l)) = w
    BY <1>1, <1>2, <1>6, <1>7, <1>9, <1>10, LiteralsJoined
  <2> QED
    BY <1>3, <1>11, <2>1 DEF WithLiterals
<1>13. w \in Seq(A) /\ Len(w) = p + l /\ \A i \in 1 .. p + l : w[i] = s[i]
  BY <1>6, FrontBehind
<1> HIDE DEF w
<1>14. SoundAfter(acc, y)
  <2>1. e \in 1 .. Len(w)
    BY <1>1, <1>13
  <2> QED
    BY <1>3, <1>4, <1>11, <1>12, <2>1 DEF SoundAfter
<1>15. Copied(w, m, e) = FirstOf(s, p1)
  <2> DEFINE u == Copied(w, m, e)
  <2>1. e \in 1 .. Len(w)
    BY <1>1, <1>13
  <2>2. u \in Seq(A) /\ Begins(w, u) /\ Len(u) = Len(w) + m /\ Recurs(u, Len(w), m, e)
    BY <1>2, <1>13, <2>1, CopiedAdds
  <2> HIDE DEF u
  <2>3. Len(u) = p + l + m /\ Recurs(u, p + l, m, e)
    BY <1>13, <2>2
  <2> DEFINE z == p + l
  <2>4. Alike(u, s, z)
    BY <1>13, <2>2 DEF Begins, Alike
  <2>5. z \in Nat /\ e \in 1 .. z /\ z + m <= Len(s) /\ Recurs(s, z, m, e)
        /\ Len(u) = z + m /\ Recurs(u, z, m, e)
    BY <1>1, <1>2, <2>3
  <2> HIDE DEF z
  <2>f. u = FirstOf(s, z + m)
    BY <1>2, <2>2, <2>4, <2>5, RecursDetermines
  <2>6. u = FirstOf(s, p + l + m)
    BY <2>f DEF z
  <2> QED
    BY <1>1, <2>6 DEF u
<1>16. Executed(acc, y) =
         [bytes |-> Copied(w, m, e), lits |-> Behind(rest, l), d |-> e, sound |-> TRUE]
  <2>1. Executed(acc, y) =
           [bytes |-> IF SoundAfter(acc, y)
                      THEN Copied(WithLiterals(acc, y), y.m, DistanceOf(acc, y))
                      ELSE WithLiterals(acc, y),
            lits |-> Behind(acc.lits, LiteralsOf(acc, y)),
            d |-> DistanceOf(acc, y),
            sound |-> SoundAfter(acc, y)]
    BY ExecutedParts
  <2>2. SoundAfter(acc, y) = TRUE
    BY <1>14 DEF SoundAfter
  <2> QED
    BY <1>3, <1>4, <1>11, <1>12, <2>1, <2>2
<1> QED
  BY <1>8, <1>15, <1>16 DEF Between, acc, e

\* A triple as a block stores it, and a block.
StoredTrip == [l : 0 .. MaxL, m : 0 .. MaxM, d : 0 .. MaxD]
StoredBlock == [lmds : Seq(StoredTrip), lits : Seq(Byte)]

StoredLmds(xs) == WithDistances(xs, PrevEncoded(Distances(xs)))

\* A distance is stored as 0 where it is the one before.
DistancesStored(ws, xs) ==
  \A j \in 1 .. Len(xs) :
    /\ ws[j].l = xs[j].l /\ ws[j].m = xs[j].m
    /\ ws[j].d = (IF j > 1 /\ xs[j].d = xs[j - 1].d THEN 0 ELSE xs[j].d)

\* The triples of a block are in range, their distances 0 where they repeat.
LEMMA StoredTriples ==
  ASSUME NEW xs \in Seq(Trip), NEW ws, ws = StoredLmds(xs)
  PROVE  ws \in Seq(StoredTrip) /\ Len(ws) = Len(xs) /\ DistancesStored(ws, xs)
<1> DEFINE n == Len(xs)
           ds == Distances(xs)
           es == PrevEncoded(ds)
<1>1. n \in Nat /\ DOMAIN xs = 1 .. n /\ \A i \in 1 .. n : xs[i] \in Trip
  OBVIOUS
<1>2. DOMAIN ds = 1 .. n /\ \A i \in 1 .. n : ds[i] = xs[i].d
  BY <1>1 DEF Distances
<1> HIDE DEF ds
<1>3. \A i \in 1 .. n : es[i] = IF ds[i] = (IF i = 1 THEN 0 ELSE ds[i - 1]) THEN 0 ELSE ds[i]
  BY <1>2 DEF PrevEncoded
<1> HIDE DEF es
<1>4. ws = [i \in 1 .. n |-> [xs[i] EXCEPT !.d = es[i]]]
  BY <1>1 DEF StoredLmds, WithDistances, ds, es
<1>5. MaxD \in Nat \ {0} /\ MaxL \in Nat /\ MaxM \in Nat
  BY LimitAssumption
<1>6. ASSUME NEW i \in 1 .. n
      PROVE  /\ ws[i].l = xs[i].l /\ ws[i].m = xs[i].m
             /\ ws[i].d = (IF i > 1 /\ xs[i].d = xs[i - 1].d THEN 0 ELSE xs[i].d)
             /\ ws[i] \in StoredTrip
  <2>1. xs[i] \in Trip
    BY <1>1
  <2>2. xs[i].d \in 1 .. MaxD /\ xs[i].l \in 0 .. MaxL /\ xs[i].m \in 0 .. MaxM
    BY <2>1 DEF Trip
  <2>3. ws[i] = [xs[i] EXCEPT !.d = es[i]]
    BY <1>4
  <2>4. ws[i] = [l |-> xs[i].l, m |-> xs[i].m, d |-> es[i]]
    BY <2>1, <2>3 DEF Trip
  <2>5. i > 1 => i - 1 \in 1 .. n
    BY <1>1
  <2>6. es[i] = (IF i > 1 /\ xs[i].d = xs[i - 1].d THEN 0 ELSE xs[i].d)
    <3>1. CASE i = 1
      BY <1>2, <1>3, <2>2, <3>1
    <3>2. CASE i > 1
      BY <1>2, <1>3, <2>2, <2>5, <3>2
    <3> QED
      BY <1>1, <3>1, <3>2
  <2>7. es[i] \in 0 .. MaxD
    BY <1>5, <2>2, <2>6
  <2>8. ws[i] \in StoredTrip
    BY <2>2, <2>4, <2>7 DEF StoredTrip
  <2> QED
    BY <2>4, <2>6, <2>8
<1>7. ws \in Seq(StoredTrip) /\ Len(ws) = n
  <2>1. \A i \in 1 .. n : [xs[i] EXCEPT !.d = es[i]] \in StoredTrip
    BY <1>4, <1>6
  <2> QED
    BY <1>1, <1>4, <2>1
<1>8. DistancesStored(ws, xs)
  BY <1>6 DEF DistancesStored
<1> QED
  BY <1>7, <1>8

\* Behind no elements is the whole sequence.
LEMMA BehindNothing ==
  ASSUME NEW A, NEW s \in Seq(A)
  PROVE  Behind(s, 0) = s
<1>1. 0 \in 0 .. Len(s)
  OBVIOUS
<1>2. Behind(s, 0) \in Seq(A) /\ Len(Behind(s, 0)) = Len(s) - 0 /\ Follows(s, 0, Behind(s, 0))
  BY <1>1, FrontBehind
<1>3. Len(Behind(s, 0)) = Len(s)
  BY <1>2
<1>4. ASSUME NEW i \in 1 .. Len(s) PROVE Behind(s, 0)[i] = s[i]
  <2>1. s[0 + i] = Behind(s, 0)[i]
    BY <1>2, <1>3 DEF Follows
  <2> QED
    BY <2>1
<1> QED
  BY <1>2, <1>3, <1>4, SameSequence

\* A block decodes, behind the first p0 bytes of s, to what its triples tell.
LEMMA TellsDecoded ==
  ASSUME NEW s \in Seq(Byte), NEW p0 \in 0 .. Len(s), NEW xs \in Seq(Trip), NEW ys \in Seq(Byte), NEW p,
         Tells(s, p0, xs, ys, p),
         NEW b \in StoredBlock, b.lmds = StoredLmds(xs), Begins(ys, b.lits)
  PROVE  DecodedBlock([bytes |-> FirstOf(s, p0), sound |-> TRUE], b) =
           [bytes |-> FirstOf(s, p), sound |-> TRUE]
<1> DEFINE n == Len(xs)
           ws == b.lmds
           ls == b.lits
           start == Start(FirstOf(s, p0), TRUE, b)
           P == Progress(start, ws)
           D(j) == IF j = 0 THEN 0 ELSE xs[j].d
<1>1. n \in Nat /\ \A j \in 1 .. n : xs[j] \in Trip
  OBVIOUS
<1>2. ws \in Seq(StoredTrip) /\ ls \in Seq(Byte) /\ Len(ws) = n /\ DistancesStored(ws, xs)
  BY StoredTriples DEF StoredBlock
<1>3. StoredTrip \subseteq LMD
  BY LimitAssumption DEF StoredTrip, LMD
<1>4. ws \in Seq(LMD)
  BY <1>2, <1>3
<1>5. FirstOf(s, p0) \in Seq(Byte)
  BY FrontBehind
<1>6. start \in Acc(Byte) /\ start = Between(s, ls, p0, 0, 0)
  <2>1. Behind(ls, 0) = ls
    BY <1>2, BehindNothing
  <2>2. start = [bytes |-> FirstOf(s, p0), lits |-> ls, d |-> 0, sound |-> TRUE]
    BY DEF Start
  <2> HIDE DEF start
  <2> QED
    BY <1>2, <1>5, <2>1, <2>2 DEF Acc, Between
<1> HIDE DEF start, ws, ls
<1>7. P[0] = start /\ \A i \in 1 .. n : P[i] = Executed(P[i - 1], ws[i])
  BY <1>2, <1>4, <1>6, ProgressIs
<1>8. PICK place, used :
        /\ Leads(s, xs, ys, place, used)
        /\ place[0] = p0 /\ used[0] = 0 /\ place[n] = p /\ used[n] = Len(ys)
  BY DEF Tells
<1>9. /\ place \in [0 .. n -> Nat] /\ used \in [0 .. n -> Nat]
      /\ \A j \in 1 .. n : OneStep(s, xs[j], ys, place[j - 1], used[j - 1], place[j], used[j])
  BY <1>8 DEF Leads
<1> HIDE DEF n, P
<1> DEFINE S == {k \in Nat : k <= n => P[k] = Between(s, ls, place[k], used[k], D(k))}
<1>10. 0 \in S
  BY <1>6, <1>7, <1>8
<1>11. ASSUME NEW k \in Nat, k \in S PROVE k + 1 \in S
  <2> SUFFICES ASSUME k + 1 <= n
               PROVE  P[k + 1] = Between(s, ls, place[k + 1], used[k + 1], D(k + 1))
    OBVIOUS
  <2> DEFINE j == k + 1
  <2>1. j \in 1 .. n /\ j - 1 = k /\ k \in 0 .. n
    BY <1>1
  <2>2. P[k] = Between(s, ls, place[k], used[k], D(k))
    BY <1>1, <1>11
  <2> HIDE DEF j
  <2>3. P[j] = Executed(P[k], ws[j]) /\ OneStep(s, xs[j], ys, place[k], used[k], place[j], used[j])
    BY <1>7, <1>9, <2>1
  <2>4. xs[j] \in Trip /\ ws[j] \in LMD /\ place[k] \in Nat /\ used[k] \in Nat
    BY <1>1, <1>2, <1>4, <1>9, <2>1
  <2>5. ws[j].l = xs[j].l /\ ws[j].m = xs[j].m
        /\ ws[j].d = (IF j > 1 /\ xs[j].d = xs[j - 1].d THEN 0 ELSE xs[j].d)
    BY <1>2, <2>1 DEF DistancesStored, n
  <2>6. xs[j].d \in 1 .. MaxD /\ MaxD \in Nat
    BY <2>4, LimitAssumption DEF Trip
  <2>7. D(k) \in Nat /\ xs[j].d = (IF ws[j].d = 0 THEN D(k) ELSE ws[j].d)
    <3>1. CASE k = 0
      BY <2>1, <2>5, <2>6, <3>1
    <3>2. CASE k > 0
      <4>1. D(k) = xs[k].d /\ xs[k] \in Trip /\ j > 1
        BY <1>1, <2>1, <3>2
      <4>2. xs[k].d \in 1 .. MaxD
        BY <4>1 DEF Trip
      <4> QED
        BY <2>1, <2>5, <2>6, <4>1, <4>2
    <3> QED
      BY <3>1, <3>2
  <2>8. D(j) = xs[j].d
    BY <2>1
  <2> HIDE DEF D
  <2>9. Executed(Between(s, ls, place[k], used[k], D(k)), ws[j]) =
          Between(s, ls, place[j], used[j], xs[j].d)
    <3>1. Begins(ys, ls)
      BY DEF ls
    <3> DEFINE x == xs[j]
               y == ws[j]
               d == D(k)
               pk == place[k]
               uk == used[k]
               pj == place[j]
               uj == used[j]
    <3>2. /\ x \in Trip /\ y \in LMD /\ d \in Nat /\ pk \in Nat /\ uk \in Nat
          /\ OneStep(s, x, ys, pk, uk, pj, uj) /\ y.l = x.l /\ y.m = x.m
          /\ x.d = (IF y.d = 0 THEN d ELSE y.d)
      BY <2>3, <2>4, <2>5, <2>7
    <3> HIDE DEF x, y, d, pk, uk, pj, uj
    <3>3. Executed(Between(s, ls, pk, uk, d), y) = Between(s, ls, pj, uj, x.d)
      BY <1>2, <3>1, <3>2, OneStepDecoded
    <3> QED
      BY <3>3 DEF x, y, d, pk, uk, pj, uj
  <2> QED
    BY <2>2, <2>3, <2>8, <2>9 DEF j
<1>12. n \in S
  <2> HIDE DEF S
  <2>1. Nat \subseteq S
    BY <1>10, <1>11, NatInductionSet
  <2> QED
    BY <1>1, <2>1
<1>13. P[n] = Between(s, ls, p, used[n], D(n))
  BY <1>1, <1>8, <1>12
<1>14. DecodedBlock([bytes |-> FirstOf(s, p0), sound |-> TRUE], b) =
         [bytes |-> P[n].bytes, sound |-> P[n].sound]
  BY <1>2 DEF DecodedBlock, P, start, ws
<1> QED
  BY <1>13, <1>14 DEF Between

-----------------------------------------------------------------------------
(* One more block.                                                          *)

\* No blocks decode to nothing.
LEMMA DecodedNothing ==
  Decoded(<<>>) = [bytes |-> <<>>, sound |-> TRUE]
<1>1. <<>> \in Seq(Blk(Byte)) /\ Len(<<>>) = 0
  OBVIOUS
<1> QED
  BY <1>1, StagesIs DEF Decoded

\* One more block is decoded behind the others.
LEMMA DecodedMore ==
  ASSUME NEW A, NEW bs \in Seq(Blk(A)), NEW b \in Blk(A)
  PROVE  Decoded(Append(bs, b)) = DecodedBlock(Decoded(bs), b)
<1> DEFINE n == Len(bs)
           cs == Append(bs, b)
           P == Stages(bs)
           Q == Stages(cs)
<1>1. /\ n \in Nat /\ cs \in Seq(Blk(A)) /\ Len(cs) = n + 1 /\ cs[n + 1] = b
      /\ \A i \in 1 .. n : cs[i] = bs[i]
  OBVIOUS
<1> HIDE DEF cs
<1>2. P[0] = [bytes |-> <<>>, sound |-> TRUE] /\ \A i \in 1 .. n : P[i] = DecodedBlock(P[i - 1], bs[i])
  BY StagesIs
<1>3. Q[0] = [bytes |-> <<>>, sound |-> TRUE] /\ \A i \in 1 .. n + 1 : Q[i] = DecodedBlock(Q[i - 1], cs[i])
  BY <1>1, StagesIs
<1>4. Decoded(bs) = P[n] /\ Decoded(cs) = Q[n + 1]
  BY <1>1 DEF Decoded
<1> HIDE DEF P, Q, n
<1> DEFINE S == {k \in Nat : k <= n => P[k] = Q[k]}
<1>5. 0 \in S
  BY <1>2, <1>3
<1>6. ASSUME NEW k \in Nat, k \in S PROVE k + 1 \in S
  <2> SUFFICES ASSUME k + 1 <= n PROVE P[k + 1] = Q[k + 1]
    OBVIOUS
  <2>1. k + 1 \in 1 .. n /\ k + 1 \in 1 .. n + 1 /\ k + 1 - 1 = k /\ P[k] = Q[k]
    BY <1>1, <1>6
  <2> QED
    BY <1>1, <1>2, <1>3, <2>1
<1>7. P[n] = Q[n]
  <2> HIDE DEF S
  <2>1. Nat \subseteq S
    BY <1>5, <1>6, NatInductionSet
  <2> QED
    BY <1>1, <2>1 DEF S
<1>8. Q[n + 1] = DecodedBlock(Q[n], b)
  BY <1>1, <1>3
<1> QED
  BY <1>4, <1>7, <1>8 DEF cs

-----------------------------------------------------------------------------
(* Rolling a block back.                                                    *)

\* A distance that is not 0 is the last one itself.
LEMMA LastNonZeroHere ==
  ASSUME NEW es, NEW i \in Nat, i > 0, es[i] # 0
  PROVE  LastNonZero(es, i) = es[i]
<1> DEFINE before == {j \in 1 .. i : es[j] # 0}
           last == CHOOSE j \in before : \A k \in before : k <= j
<1>1. i \in before /\ \A k \in before : k <= i
  OBVIOUS
<1>2. last \in before /\ \A k \in before : k <= last
  BY <1>1
<1>3. last = i
  BY <1>1, <1>2
<1> QED
  BY <1>1, <1>3 DEF LastNonZero

\* At a distance that is 0 the last one is that of the triple before.
LEMMA LastNonZeroBefore ==
  ASSUME NEW es, NEW i \in Nat, i > 0, es[i] = 0
  PROVE  LastNonZero(es, i) = LastNonZero(es, i - 1)
<1> DEFINE b == {j \in 1 .. i : es[j] # 0}
           c == {j \in 1 .. i - 1 : es[j] # 0}
           Value(set) == IF set = {} THEN 0 ELSE es[CHOOSE j \in set : \A k \in set : k <= j]
<1>1. b = c
  OBVIOUS
<1>2. LastNonZero(es, i) = Value(b) /\ LastNonZero(es, i - 1) = Value(c)
  BY Zenon DEF LastNonZero
<1> HIDE DEF b, c, Value
<1> QED
  BY <1>1, <1>2

\* Replacing repeated distances by 0 and putting them back changes nothing.
LEMMA RolledSame ==
  ASSUME NEW xs \in Seq(Trip)
  PROVE  WithDistances(xs, Reverted(PrevEncoded(Distances(xs)))) = xs
<1> DEFINE n == Len(xs)
           ds == Distances(xs)
           es == PrevEncoded(ds)
           rs == Reverted(es)
<1>1. n \in Nat /\ DOMAIN xs = 1 .. n /\ \A i \in 1 .. n : xs[i] \in Trip
  OBVIOUS
<1>2. DOMAIN ds = 1 .. n /\ \A i \in 1 .. n : ds[i] = xs[i].d
  BY <1>1 DEF Distances
<1>3. \A i \in 1 .. n : ds[i] \in Nat /\ ds[i] # 0
  <2>1. ASSUME NEW i \in 1 .. n PROVE xs[i].d \in 1 .. MaxD
    BY <1>1 DEF Trip
  <2> QED
    BY <1>2, <2>1, LimitAssumption
<1> HIDE DEF ds
<1>4. /\ DOMAIN es = 1 .. n
      /\ \A i \in 1 .. n : es[i] = IF ds[i] = (IF i = 1 THEN 0 ELSE ds[i - 1]) THEN 0 ELSE ds[i]
  BY <1>2 DEF PrevEncoded
<1> HIDE DEF es
<1>5. \A i \in 1 .. n : rs[i] = LastNonZero(es, i)
  BY <1>4 DEF Reverted
<1> HIDE DEF rs, n
<1> DEFINE S == {k \in Nat : k + 1 <= n => LastNonZero(es, k + 1) = ds[k + 1]}
<1>6. 0 \in S
  <2> SUFFICES ASSUME 1 <= n PROVE LastNonZero(es, 1) = ds[1]
    OBVIOUS
  <2>1. 1 \in 1 .. n
    BY <1>1
  <2>2. es[1] = ds[1] /\ es[1] # 0
    BY <1>3, <1>4, <2>1
  <2> QED
    BY <2>2, LastNonZeroHere
<1>7. ASSUME NEW k \in Nat, k \in S PROVE k + 1 \in S
  <2> SUFFICES ASSUME k + 1 + 1 <= n PROVE LastNonZero(es, k + 1 + 1) = ds[k + 1 + 1]
    OBVIOUS
  <2> DEFINE i == k + 1 + 1
  <2>1. i \in 1 .. n /\ i - 1 = k + 1 /\ i # 1 /\ i \in Nat /\ i > 0 /\ i - 1 \in 1 .. n
    BY <1>1
  <2>2. LastNonZero(es, i - 1) = ds[i - 1]
    BY <1>1, <1>7
  <2> HIDE DEF i
  <2>3. es[i] = IF ds[i] = ds[i - 1] THEN 0 ELSE ds[i]
    BY <1>4, <2>1
  <2>4. CASE ds[i] = ds[i - 1]
    <3>1. es[i] = 0
      BY <2>3, <2>4
    <3> QED
      BY <2>1, <2>2, <2>4, <3>1, LastNonZeroBefore DEF i
  <2>5. CASE ds[i] # ds[i - 1]
    <3>1. es[i] = ds[i] /\ es[i] # 0
      BY <1>3, <2>1, <2>3, <2>5
    <3> QED
      BY <2>1, <3>1, LastNonZeroHere DEF i
  <2> QED
    BY <2>4, <2>5
<1>8. ASSUME NEW i \in 1 .. n PROVE rs[i] = xs[i].d
  <2>1. Nat \subseteq S
    <3> HIDE DEF S
    <3> QED
      BY <1>6, <1>7, NatInductionSet
  <2>2. i - 1 \in Nat /\ i - 1 + 1 = i /\ i <= n
    BY <1>1
  <2>3. i - 1 \in S
    <3> HIDE DEF S
    <3> QED
      BY <2>1, <2>2
  <2>4. LastNonZero(es, i) = ds[i]
    BY <2>2, <2>3
  <2> QED
    BY <1>2, <1>5, <2>4
<1>9. ASSUME NEW i \in 1 .. n PROVE [xs[i] EXCEPT !.d = rs[i]] = xs[i]
  <2>1. xs[i] \in Trip
    BY <1>1
  <2> QED
    BY <1>8, <2>1 DEF Trip
<1>10. WithDistances(xs, rs) = [i \in 1 .. n |-> xs[i]]
  BY <1>1, <1>9 DEF WithDistances
<1>11. [i \in 1 .. n |-> xs[i]] = xs
  BY <1>1 DEF n
<1> QED
  BY <1>10, <1>11 DEF rs, es, ds

-----------------------------------------------------------------------------
(* What is stored.                                                          *)

\* The padding is bytes, fewer than there are streams.
LEMMA PaddingIs ==
  ASSUME NEW n \in Nat
  PROVE  /\ Padding(n) \in Seq(Byte) /\ Len(Padding(n)) = (-n) % Streams
         /\ (-n) % Streams \in 0 .. Streams - 1
<1> DEFINE k == (-n) % Streams
<1>1. k \in 0 .. Streams - 1 /\ k \in Nat
  <2>1. -n \in Int /\ Streams \in Nat /\ Streams > 0
    BY LimitAssumption
  <2> QED
    BY <2>1, ModRange
<1>2. Padding(n) = [j \in 1 .. k |-> 0]
  BY DEF Padding
<1> HIDE DEF k
<1>3. Padding(n) \in Seq(Byte) /\ Len(Padding(n)) = k
  BY <1>1, <1>2, WordAssumption
<1> QED
  BY <1>1, <1>3 DEF k

\* The padded length is the next multiple of the number of streams.
LEMMA PaddedLength ==
  ASSUME NEW n \in Nat, NEW k, k = (-n) % Streams
  PROVE  /\ (n + k) % Streams = 0
         /\ n + LiteralMargin <= LiteralsPerBlock => n + k <= LiteralsPerBlock
<1> DEFINE d == Streams
           q == (-n) \div d
           c == LiteralsPerBlock
           e == c \div d
<1>1. d \in Nat /\ d > 0 /\ c \in Nat /\ c % d = 0 /\ LiteralMargin \in Nat /\ -n \in Int
  BY LimitAssumption
<1>2. k \in 0 .. d - 1 /\ q \in Int /\ -n = d * q + k
  <2>1. k \in 0 .. d - 1
    BY <1>1, ModRange
  <2>2. q \in Int
    BY <1>1, DivBounds
  <2>3. -n = d * q + k
    BY <1>1, DivMod
  <2> QED
    BY <2>1, <2>2, <2>3
<1>3. e \in Int /\ c = d * e
  <2>1. e \in Int
    BY <1>1, DivBounds
  <2>2. c = d * e + (c % d)
    BY <1>1, DivMod
  <2>3. d * e \in Int
    BY <1>1, <2>1
  <2> HIDE DEF c, d, e
  <2> QED
    BY <1>1, <2>1, <2>2, <2>3
<1> HIDE DEF q, c, d, e
<1>4. n + k = d * (-q)
  <2> DEFINE t == d * q
  <2>1. t \in Int /\ d * (-q) = -t
    BY <1>1, <1>2
  <2>2. -n = t + k
    BY <1>2
  <2> DEFINE w == d * (-q)
  <2>3. t \in Int /\ w = -t
    BY <2>1
  <2> HIDE DEF t, w
  <2>4. n + k = w
    BY <1>2, <2>2, <2>3
  <2> QED
    BY <2>4 DEF w
<1>5. (n + k) % d = 0
  <2>1. n + k \in Int /\ -q \in Int /\ 0 \in 0 .. d - 1 /\ n + k = d * (-q) + 0
    <3> DEFINE t == d * (-q)
    <3>1. t \in Int /\ n + k = t
      BY <1>1, <1>2, <1>4
    <3> HIDE DEF t
    <3>2. n + k = t + 0
      BY <3>1
    <3> QED
      BY <1>1, <1>2, <3>1, <3>2 DEF t
  <2> QED
    BY <1>1, <2>1, DivModUnique
<1>6. ASSUME n + LiteralMargin <= c PROVE n + k <= c
  <2>1. n <= c
    BY <1>1, <1>6
  <2>2. SUFFICES ASSUME e + q <= -1 PROVE FALSE
    <3>1. CASE e + q >= 0
      <4>1. d * (e + q) \in Nat
        BY <1>1, <1>2, <1>3, <3>1
      <4>2. d * (e + q) = d * e + d * q /\ d * e \in Int /\ d * q \in Int /\ d * (-q) = -(d * q)
        BY <1>1, <1>2, <1>3
      <4> DEFINE t == d * q
                 u == d * e
                 v == d * (e + q)
                 w == d * (-q)
      <4>3. v \in Nat /\ v = u + t /\ u \in Int /\ t \in Int /\ w = -t /\ n + k = w /\ c = u
        BY <1>3, <1>4, <4>1, <4>2
      <4> HIDE DEF t, u, v, w
      <4> QED
        BY <4>3
    <3>2. CASE ~(e + q >= 0)
      BY <1>2, <1>3, <3>2
    <3> QED
      BY <3>1, <3>2
  <2>3. -(e + q) - 1 \in Nat /\ d * (-(e + q) - 1) \in Nat
    BY <1>1, <1>2, <1>3, <2>2
  <2>4. d * (-(e + q) - 1) = -(d * e) - (d * q) - d /\ d * e \in Int /\ d * q \in Int
    BY <1>1, <1>2, <1>3
  <2> DEFINE t == d * q
             u == d * e
             v == d * (-(e + q) - 1)
  <2>5. v \in Nat /\ v = -u - t - d /\ u \in Int /\ t \in Int /\ c = u /\ -n = t + k
    BY <1>2, <1>3, <2>3, <2>4
  <2> HIDE DEF t, u, v
  <2> QED
    BY <1>1, <1>2, <2>1, <2>5
<1> QED
  BY <1>5, <1>6 DEF c, d

\* What one block holds of the buffers.
LEMMA BlockStored ==
  ASSUME NEW b, b.lmds \in Seq(Trip), b.lits \in Seq(Byte)
  PROVE  /\ BlockOf(b) \in StoredBlock /\ BlockOf(b).lmds = StoredLmds(b.lmds)
         /\ Begins(b.lits, BlockOf(b).lits) /\ Len(BlockOf(b).lits) % Streams = 0
         /\ Len(b.lits) + LiteralMargin <= LiteralsPerBlock =>
              Len(BlockOf(b).lits) <= LiteralsPerBlock
<1> DEFINE ws == StoredLmds(b.lmds)
           xs == b.lmds
           ys == b.lits
           n == Len(ys)
           k == (-n) % Streams
           zs == Join(ys, Padding(n))
<1>1. n \in Nat
  OBVIOUS
<1>2. BlockOf(b) = [lmds |-> ws, lits |-> zs]
  BY DEF BlockOf, StoredLmds, Join
<1>3. ws \in Seq(StoredTrip)
  <2>1. xs \in Seq(Trip)
    OBVIOUS
  <2> HIDE DEF xs
  <2> QED
    BY <2>1, StoredTriples DEF xs
<1> HIDE DEF n
<1>4. Padding(n) \in Seq(Byte) /\ Len(Padding(n)) = k /\ k \in 0 .. Streams - 1
  BY <1>1, PaddingIs
<1>5. zs \in Seq(Byte) /\ Begins(ys, zs) /\ Len(zs) = n + k
  <2>1. zs \in Seq(Byte) /\ Begins(ys, zs) /\ Len(zs) = Len(ys) + Len(Padding(n))
    BY <1>4, BeginsJoined
  <2> HIDE DEF zs
  <2> QED
    BY <1>4, <2>1 DEF n
<1> HIDE DEF zs, ws
<1>6. (n + k) % Streams = 0 /\ (n + LiteralMargin <= LiteralsPerBlock => n + k <= LiteralsPerBlock)
  BY <1>1, PaddedLength
<1>7. BlockOf(b) \in StoredBlock
  BY <1>2, <1>3, <1>5 DEF StoredBlock
<1> QED
  BY <1>2, <1>5, <1>6, <1>7 DEF n, ws

-----------------------------------------------------------------------------
(* The back end.                                                            *)

Read == Byte \cup {Src(i) : i \in Int}

BufferSet == [lmds : Seq(Trip), lits : Seq(Read), literal : Int, full : BOOLEAN]

\* The fields of a triple are numbers.
LEMMA TripTypes ==
  ASSUME NEW x \in Trip
  PROVE  x.l \in Nat /\ x.m \in Nat /\ x.d \in Nat
<1>1. MaxL \in Nat /\ MaxM \in Nat /\ MaxD \in Nat
  BY LimitAssumption
<1> QED
  BY <1>1 DEF Trip

\* Within the limits of a buffer, triples and literals tell what is in s from n0 to
\* p, in the source from n0 to the first byte that is in no triple.
Held(s, n0, xs, ys, p) ==
  /\ xs \in Seq(Trip) /\ ys \in Seq(Byte) /\ p \in Nat
  /\ Len(xs) + MatchMargin <= MatchesPerBlock /\ Len(ys) + LiteralMargin <= LiteralsPerBlock
  /\ Tells(s, n0, xs, ys, p)

Told(n0, xs, ys, first) == first \in Int /\ Held(src, n0, xs, ys, shift + first)

\* The bytes of the literals of a triple.
Run(first, l) == [k \in 1 .. l |-> Src(first + k - 1)]

\* What lzfse_push_lmd does to a buffer that is not full.
LEMMA WithLmdIs ==
  ASSUME NEW c, NEW x, NEW e, e = WithLmd(c, x)
  PROVE  /\ (c.full \/ ~LmdFits(c, x.l)) => e = [c EXCEPT !.full = TRUE]
         /\ ~(c.full \/ ~LmdFits(c, x.l)) =>
              e = [lmds |-> Append(c.lmds, x), lits |-> Join(c.lits, Run(c.literal, x.l)),
                   literal |-> c.literal + x.l + x.m, full |-> FALSE]
BY DEF WithLmd, Join, Run

\* lzfse_push_lmd leaves a buffer.
LEMMA WithLmdTypes ==
  ASSUME NEW c \in BufferSet, NEW x \in Trip
  PROVE  WithLmd(c, x) \in BufferSet
<1> DEFINE e == WithLmd(c, x)
           zs == Run(c.literal, x.l)
<1>1. /\ c.lmds \in Seq(Trip) /\ c.lits \in Seq(Read) /\ c.literal \in Int /\ c.full \in BOOLEAN
      /\ c = [lmds |-> c.lmds, lits |-> c.lits, literal |-> c.literal, full |-> c.full]
  BY DEF BufferSet
<1>2. x.l \in Nat /\ x.m \in Nat
  BY LimitAssumption DEF Trip
<1>3. CASE c.full \/ ~LmdFits(c, x.l)
  <2>1. e = [c EXCEPT !.full = TRUE]
    BY <1>3, WithLmdIs
  <2> HIDE DEF e
  <2>2. e \in BufferSet
    BY <2>1 DEF BufferSet
  <2> QED
    BY <2>2 DEF e
<1>4. CASE ~(c.full \/ ~LmdFits(c, x.l))
  <2>1. e = [lmds |-> Append(c.lmds, x), lits |-> Join(c.lits, zs),
             literal |-> c.literal + x.l + x.m, full |-> FALSE]
    BY <1>4, WithLmdIs
  <2> HIDE DEF e
  <2>2. zs \in Seq(Read)
    <3>1. \A k \in 1 .. x.l : Src(c.literal + k - 1) \in Read
      <4> SUFFICES ASSUME NEW k \in 1 .. x.l PROVE Src(c.literal + k - 1) \in Read
        OBVIOUS
      <4>1. c.literal + k - 1 \in Int
        BY <1>1, <1>2
      <4> QED
        BY <4>1 DEF Read
    <3> QED
      BY <1>2, <3>1 DEF Run
  <2> HIDE DEF zs
  <2>3. Join(c.lits, zs) \in Seq(Read)
    BY <1>1, <2>2, BeginsJoined
  <2>4. Append(c.lmds, x) \in Seq(Trip) /\ c.literal + x.l + x.m \in Int
    BY <1>1, <1>2
  <2>5. e \in BufferSet
    BY <2>1, <2>3, <2>4 DEF BufferSet
  <2> QED
    BY <2>5 DEF e
<1> QED
  BY <1>3, <1>4

\* Pushes obeys its recursive equation.
LEMMA PushesIs ==
  ASSUME NEW b \in BufferSet, NEW parts \in Seq(Trip), NEW P, P = Pushes(b, parts)
  PROVE  /\ P[0] = b
         /\ \A i \in 1 .. Len(parts) : P[i] = WithLmd(P[i - 1], parts[i])
         /\ \A i \in 0 .. Len(parts) : P[i] \in BufferSet
<1> DEFINE n == Len(parts)
           F == [i \in 1 .. n |-> [a \in BufferSet |-> WithLmd(a, parts[i])]]
           Is(p) == p = [i \in 0 .. n |-> IF i = 0 THEN b ELSE WithLmd(p[i - 1], parts[i])]
           Q == CHOOSE p : Is(p)
<1>1. n \in Nat /\ \A i \in 1 .. n : parts[i] \in Trip
  OBVIOUS
<1>2. \A i \in 1 .. n : \A a \in BufferSet : F[i][a] = WithLmd(a, parts[i]) /\ F[i][a] \in BufferSet
  BY <1>1, WithLmdTypes
<1>3. \E p : Is(p)
  <2> HIDE DEF F
  <2>1. PICK p \in [0 .. n -> BufferSet] : Iterates(p, b, n, F)
    <3> HIDE DEF n
    <3> QED
      BY <1>1, <1>2, RecursiveFunction
  <2>2. ASSUME NEW i \in 0 .. n, i # 0 PROVE F[i][p[i - 1]] = WithLmd(p[i - 1], parts[i])
    <3>1. i \in 1 .. n /\ i - 1 \in 0 .. n
      BY <2>2
    <3>2. p[i - 1] \in BufferSet
      BY <3>1
    <3> QED
      BY <1>2, <3>1, <3>2
  <2>3. p = [i \in 0 .. n |-> IF i = 0 THEN b ELSE WithLmd(p[i - 1], parts[i])]
    BY <2>1, <2>2 DEF Iterates
  <2> QED
    BY <2>3
<1>4. Is(Q)
  BY <1>3
<1>5. P = Q
  BY DEF Pushes
<1>6. Q = [i \in 0 .. n |-> IF i = 0 THEN b ELSE WithLmd(Q[i - 1], parts[i])]
  BY <1>4
<1> HIDE DEF Q, n
<1>7. Q[0] = b /\ \A i \in 1 .. n : Q[i] = WithLmd(Q[i - 1], parts[i])
  BY <1>1, <1>6
<1>8. \A i \in 1 .. n : Q[i - 1] \in BufferSet => Q[i] \in BufferSet
  BY <1>1, <1>7, WithLmdTypes
<1>9. \A i \in 0 .. n : Q[i] \in BufferSet
  BY <1>1, <1>7, <1>8, HandedOn
<1> QED
  BY <1>5, <1>7, <1>9 DEF n

\* Where a triple leads to, whose literals begin at first.
StepsTo(first, x) ==
  LET p == shift + first
  IN /\ p + x.l + x.m <= Len(src) /\ Recurs(src, p + x.l, x.m, x.d) /\ x.d \in 1 .. p + x.l

\* One triple more in the buffer.
Grown(e, c, x, n0) ==
  ~e.full =>
    /\ e.literal = c.literal + x.l + x.m
    /\ Len(e.lmds) = Len(c.lmds) + 1 /\ Len(e.lits) = Len(c.lits) + x.l
    /\ Told(n0, e.lmds, e.lits, e.literal)

\* One triple pushed to a buffer.
LEMMA LmdTold ==
  ASSUME src \in Seq(Byte), shift \in Nat, NEW n0 \in Nat,
         NEW c \in BufferSet, ~c.full, Told(n0, c.lmds, c.lits, c.literal),
         NEW x \in Trip, StepsTo(c.literal, x), NEW e, e = WithLmd(c, x)
  PROVE  /\ LmdFits(c, x.l) => ~e.full
         /\ Grown(e, c, x, n0)
<1> DEFINE p == shift + c.literal
           zs == Run(c.literal, x.l)
           xs == c.lmds
           ys == c.lits
<1>1. /\ xs \in Seq(Trip) /\ ys \in Seq(Byte) /\ c.literal \in Int /\ p \in Nat
      /\ Len(xs) + MatchMargin <= MatchesPerBlock /\ Len(ys) + LiteralMargin <= LiteralsPerBlock
      /\ Tells(src, n0, xs, ys, p)
  BY DEF Told, Held
<1>2. x.l \in Nat /\ x.m \in Nat
  BY LimitAssumption DEF Trip
<1>3. p + x.l + x.m <= Len(src) /\ Recurs(src, p + x.l, x.m, x.d) /\ x.d \in 1 .. p + x.l
  BY DEF StepsTo
<1>4. CASE c.full \/ ~LmdFits(c, x.l)
  <2>1. e = [c EXCEPT !.full = TRUE]
    BY <1>4, WithLmdIs
  <2>2. e.full
    BY <2>1 DEF BufferSet
  <2> QED
    BY <1>4, <2>2 DEF Grown
<1>5. CASE ~(c.full \/ ~LmdFits(c, x.l))
  <2>1. e = [lmds |-> Append(xs, x), lits |-> Join(ys, zs),
             literal |-> c.literal + x.l + x.m, full |-> FALSE]
    BY <1>5, WithLmdIs
  <2>2. Len(xs) + 1 + MatchMargin <= MatchesPerBlock /\ Len(ys) + x.l + LiteralMargin <= LiteralsPerBlock
    BY <1>5 DEF LmdFits
  <2> HIDE DEF p, xs, ys
  <2>3. \A k \in 1 .. x.l : Src(c.literal + k - 1) = src[p + k] /\ src[p + k] \in Byte
    <3> SUFFICES ASSUME NEW k \in 1 .. x.l
                 PROVE  Src(c.literal + k - 1) = src[p + k] /\ src[p + k] \in Byte
      OBVIOUS
    <3>1. shift + (c.literal + k - 1) + 1 = p + k
      BY <1>1, <1>2 DEF p
    <3> DEFINE N == Len(src)
    <3>2. N \in Nat /\ p + x.l + x.m <= N
      BY <1>3
    <3> HIDE DEF N
    <3>3. p + k \in 1 .. N
      BY <1>1, <1>2, <3>2
    <3> QED
      BY <3>1, <3>3 DEF Src, N
  <2>4. zs \in Seq(Byte) /\ Len(zs) = x.l /\ \A k \in 1 .. x.l : zs[k] = src[p + k]
    <3>1. zs = [k \in 1 .. x.l |-> src[p + k]]
      BY <2>3 DEF Run
    <3> DEFINE l == x.l
    <3>2. l \in Nat /\ zs = [k \in 1 .. l |-> src[p + k]] /\ \A k \in 1 .. l : src[p + k] \in Byte
      BY <1>2, <2>3, <3>1
    <3> HIDE DEF zs, l
    <3>3. zs \in Seq(Byte) /\ Len(zs) = l /\ \A k \in 1 .. l : zs[k] = src[p + k]
      BY <3>2
    <3> QED
      BY <3>3 DEF l
  <2> HIDE DEF zs
  <2>5. Join(ys, zs) \in Seq(Byte) /\ Len(Join(ys, zs)) = Len(ys) + x.l
    <3>1. Join(ys, zs) \in Seq(Byte) /\ Len(Join(ys, zs)) = Len(ys) + Len(zs)
      BY <1>1, <2>4, BeginsJoined
    <3> QED
      BY <2>4, <3>1
  <2>6. Tells(src, n0, Append(xs, x), Join(ys, zs), p + x.l + x.m)
    BY <1>1, <1>2, <1>3, <2>4, TellsMore
  <2>7. shift + (c.literal + x.l + x.m) = p + x.l + x.m /\ p + x.l + x.m \in Nat
        /\ c.literal + x.l + x.m \in Int
    <3> DEFINE f == c.literal
               l == x.l
               m == x.m
    <3>1. f \in Int /\ l \in Nat /\ m \in Nat /\ p = shift + f /\ p \in Nat
      BY <1>1, <1>2 DEF p
    <3> HIDE DEF f, l, m
    <3>2. shift + (f + l + m) = p + l + m /\ p + l + m \in Nat /\ f + l + m \in Int
      BY <3>1
    <3> QED
      BY <3>2 DEF f, l, m
  <2>8. Append(xs, x) \in Seq(Trip) /\ Len(Append(xs, x)) = Len(xs) + 1
    BY <1>1
  <2>9. e.lmds = Append(xs, x) /\ e.lits = Join(ys, zs) /\ e.literal = c.literal + x.l + x.m /\ e.full = FALSE
    BY <2>1
  <2>10. Told(n0, e.lmds, e.lits, e.literal)
    <3>1. Tells(src, n0, e.lmds, e.lits, shift + e.literal)
      BY <2>6, <2>7, <2>9
    <3>2. Len(e.lmds) + MatchMargin <= MatchesPerBlock /\ Len(e.lits) + LiteralMargin <= LiteralsPerBlock
      BY <2>2, <2>5, <2>8, <2>9
    <3> QED
      BY <2>5, <2>7, <2>8, <2>9, <3>1, <3>2 DEF Told, Held
  <2> QED
    BY <2>5, <2>8, <2>9, <2>10 DEF xs, ys, Grown
<1> QED
  BY <1>4, <1>5

\* Where a whole match leads to, behind L literals that begin at first.
LeadsOn(first, L, M, D) ==
  LET p == shift + first
  IN /\ p + L + M <= Len(src) /\ Recurs(src, p + L, M, D) /\ D \in 1 .. MaxD /\ D <= p + L

\* What a buffer has become that began as b, when k parts with l literals and m
\* bytes of the match have been pushed.
Reached(c, b, n0, k, l, m) ==
  ~c.full =>
    /\ c.literal = b.literal + l + m
    /\ Len(c.lmds) = Len(b.lmds) + k /\ Len(c.lits) = Len(b.lits) + l
    /\ Told(n0, c.lmds, c.lits, c.literal)

\* There is room for k parts with l literals.
Room(b, k, l) ==
  /\ Len(b.lmds) + k + MatchMargin <= MatchesPerBlock
  /\ Len(b.lits) + l + LiteralMargin <= LiteralsPerBlock

\* The i-th part leads on from where those before it have led to.
LEMMA PartSteps ==
  ASSUME src \in Seq(Byte), shift \in Nat, NEW first \in Int, shift + first \in Nat,
         NEW L \in Nat, NEW M \in Nat, NEW D \in Int, LeadsOn(first, L, M, D),
         NEW x \in Trip, NEW g \in 0 .. L, NEW h \in 0 .. M, NEW g1 \in 0 .. L, NEW h1 \in 0 .. M,
         g1 = g + x.l, h1 = h + x.m,
         (x.d = D /\ g1 = L) \/ (x.d = 1 /\ x.m = 0 /\ x.l > 0)
  PROVE  StepsTo(first + g + h, x)
<1> DEFINE l == x.l
           m == x.m
           d == x.d
           p == shift + first
           q == shift + (first + g + h)
           N == Len(src)
<1>1. l \in Nat /\ m \in Nat /\ d \in Nat
  BY TripTypes
<1>2. /\ p + L + M <= N /\ Recurs(src, p + L, M, D) /\ D \in 1 .. MaxD /\ D <= p + L
      /\ p \in Nat /\ N \in Nat /\ MaxD \in Nat
  BY LimitAssumption DEF LeadsOn
<1>3. q = p + g + h /\ q \in Nat
  BY <1>2
<1>4. g1 = g + l /\ h1 = h + m /\ ((d = D /\ g1 = L) \/ (d = 1 /\ m = 0 /\ l > 0))
  OBVIOUS
<1> SUFFICES q + l + m <= N /\ Recurs(src, q + l, m, d) /\ d \in 1 .. q + l
  BY DEF StepsTo
<1> HIDE DEF l, m, d, p, q, N
<1>5. q + l + m <= N
  BY <1>1, <1>2, <1>3, <1>4
<1>6. CASE d = D /\ g1 = L
  <2>1. q + l = p + L + h
    BY <1>1, <1>2, <1>3, <1>4, <1>6
  <2>2. Recurs(src, q + l, m, d)
    <3> SUFFICES ASSUME NEW k \in 1 .. m PROVE src[q + l + k] = src[q + l + k - d]
      BY DEF Recurs
    <3>1. h + k \in 1 .. M /\ p + L + (h + k) = q + l + k /\ p + L + (h + k) - D = q + l + k - d
      BY <1>1, <1>2, <1>3, <1>4, <1>6, <2>1
    <3>2. src[p + L + (h + k)] = src[p + L + (h + k) - D]
      BY <1>2, <3>1 DEF Recurs
    <3> QED
      BY <3>1, <3>2
  <2>3. d \in 1 .. q + l
    BY <1>1, <1>2, <1>3, <1>6, <2>1
  <2> QED
    BY <1>5, <2>2, <2>3
<1>7. CASE d = 1 /\ m = 0 /\ l > 0
  <2>1. Recurs(src, q + l, m, d)
    BY <1>7 DEF Recurs
  <2>2. d \in 1 .. q + l
    BY <1>1, <1>3, <1>7
  <2> QED
    BY <1>5, <2>1, <2>2
<1> QED
  BY <1>4, <1>6, <1>7

\* A match pushed to a buffer that is not full, when it can be pushed at all.
LEMMA PartsTold ==
  ASSUME src \in Seq(Byte), shift \in Nat, NEW n0 \in Nat,
         NEW b \in BufferSet, ~b.full, Told(n0, b.lmds, b.lits, b.literal),
         NEW L \in Nat, NEW M \in Nat, NEW D \in 1 .. MaxD, LeadsOn(b.literal, L, M, D),
         NEW parts, parts = Parts(L, M, D), NEW c, c = Pushes(b, parts)[Len(parts)]
  PROVE  /\ c \in BufferSet /\ Reached(c, b, n0, Len(parts), L, M)
         /\ Room(b, Len(parts), L) => ~c.full
<1> DEFINE n == Len(parts)
           P == Pushes(b, parts)
<1>1. parts \in Seq(Trip)
  <2> DEFINE sl == Splits(L, MaxL)
             sm == Splits(M, MaxM)
  <2>1. sl = Splits(L, MaxL) /\ sm = Splits(M, MaxM)
    OBVIOUS
  <2> HIDE DEF sl, sm
  <2> QED
    BY <2>1, PartsAre
<1>2. n \in Nat /\ \A i \in 1 .. n : parts[i] \in Trip
  BY <1>1
<1>D. D \in Int
  OBVIOUS
<1>3. /\ P[0] = b /\ \A i \in 1 .. n : P[i] = WithLmd(P[i - 1], parts[i])
      /\ \A i \in 0 .. n : P[i] \in BufferSet
  BY <1>1, PushesIs
<1>4. PICK g, h : Divided(parts, L, M, D, g, h)
  BY PartsDivide
<1>5. /\ g \in [0 .. n -> 0 .. L] /\ h \in [0 .. n -> 0 .. M]
      /\ g[0] = 0 /\ h[0] = 0 /\ g[n] = L /\ h[n] = M
      /\ \A i \in 1 .. n :
           /\ g[i] = g[i - 1] + parts[i].l /\ h[i] = h[i - 1] + parts[i].m
           /\ \/ parts[i].d = D /\ g[i] = L
              \/ parts[i].d = 1 /\ parts[i].m = 0 /\ parts[i].l > 0
  BY <1>4 DEF Divided
<1>6. /\ b.literal \in Int /\ shift + b.literal \in Nat
      /\ Len(b.lmds) \in Nat /\ Len(b.lits) \in Nat
      /\ Len(b.lmds) + MatchMargin <= MatchesPerBlock
      /\ Len(b.lits) + LiteralMargin <= LiteralsPerBlock
  <2>1. b.lmds \in Seq(Trip) /\ b.lits \in Seq(Byte)
    BY DEF Told, Held
  <2>2. Len(b.lmds) \in Nat /\ Len(b.lits) \in Nat
    BY <2>1
  <2> QED
    BY <2>2 DEF Told, Held
<1>7. c = P[n]
  OBVIOUS
<1> HIDE DEF n, P
<1> DEFINE S == {k \in Nat : k <= n =>
                   /\ Reached(P[k], b, n0, k, g[k], h[k])
                   /\ Room(b, n, L) => ~P[k].full}
<1>8. 0 \in S
  <2>1. Reached(b, b, n0, 0, 0, 0)
    <3> DEFINE f == b.literal
               x == Len(b.lmds)
               y == Len(b.lits)
    <3>1. f = f + 0 + 0 /\ x = x + 0 /\ y = y + 0
      <4> HIDE DEF f, x, y
      <4> QED
        BY <1>6 DEF f, x, y
    <3> QED
      BY <3>1 DEF Reached
  <2> QED
    BY <1>3, <1>5, <2>1
<1>9. ASSUME NEW k \in Nat, k \in S PROVE k + 1 \in S
  <2> SUFFICES ASSUME k + 1 <= n
               PROVE  /\ Reached(P[k + 1], b, n0, k + 1, g[k + 1], h[k + 1])
                      /\ Room(b, n, L) => ~P[k + 1].full
    OBVIOUS
  <2> DEFINE j == k + 1
             e == P[j]
             a == P[k]
             x == parts[j]
             gk == g[k]
             hk == h[k]
             gj == g[j]
             hj == h[j]
  <2>1. j \in 1 .. n /\ j - 1 = k /\ k \in 0 .. n /\ j \in 0 .. n /\ k <= n
    BY <1>2
  <2>2. Reached(a, b, n0, k, gk, hk) /\ (Room(b, n, L) => ~a.full)
    BY <1>9, <2>1
  <2>3. e = WithLmd(a, x) /\ a \in BufferSet /\ x \in Trip
    <3> HIDE DEF j
    <3> QED
      BY <1>2, <1>3, <2>1
  <2>4. /\ gk \in 0 .. L /\ hk \in 0 .. M /\ gj \in 0 .. L /\ hj \in 0 .. M
        /\ gj = gk + x.l /\ hj = hk + x.m
        /\ (x.d = D /\ gj = L) \/ (x.d = 1 /\ x.m = 0 /\ x.l > 0)
    <3> HIDE DEF j
    <3> QED
      BY <1>5, <2>1
  <2> SUFFICES Reached(e, b, n0, j, gj, hj) /\ (Room(b, n, L) => ~e.full)
    OBVIOUS
  <2> HIDE DEF j, e, a, x, gk, hk, gj, hj, S
  <2>5. CASE a.full
    <3>1. e = [a EXCEPT !.full = TRUE]
      BY <2>3, <2>5, WithLmdIs
    <3>2. e.full
      BY <2>3, <3>1 DEF BufferSet
    <3> QED
      BY <2>2, <2>5, <3>2 DEF Reached
  <2>6. CASE ~a.full
    <3>1. /\ a.literal = b.literal + gk + hk
          /\ Len(a.lmds) = Len(b.lmds) + k /\ Len(a.lits) = Len(b.lits) + gk
          /\ Told(n0, a.lmds, a.lits, a.literal)
      BY <2>2, <2>6 DEF Reached
    <3>2. StepsTo(a.literal, x)
      <4> DEFINE f == b.literal
      <4>1. f \in Int /\ shift + f \in Nat /\ LeadsOn(f, L, M, D) /\ a.literal = f + gk + hk
        BY <1>6, <3>1
      <4> HIDE DEF f
      <4>2. StepsTo(f + gk + hk, x)
        BY <1>D, <2>3, <2>4, <4>1, PartSteps
      <4> QED
        BY <4>1, <4>2
    <3>3. (LmdFits(a, x.l) => ~e.full) /\ Grown(e, a, x, n0)
      BY <2>3, <2>6, <3>1, <3>2, LmdTold
    <3>4. x.l \in Nat /\ x.m \in Nat
      BY <2>3, TripTypes
    <3>5. Reached(e, b, n0, j, gj, hj)
      <4> SUFFICES ASSUME ~e.full PROVE Reached(e, b, n0, j, gj, hj)
        BY DEF Reached
      <4> DEFINE f == b.literal
                 u == Len(b.lmds)
                 v == Len(b.lits)
                 l == x.l
                 m == x.m
      <4>1. /\ f \in Int /\ u \in Nat /\ v \in Nat /\ l \in Nat /\ m \in Nat
            /\ e.literal = f + gk + hk + l + m
            /\ Len(e.lmds) = u + k + 1 /\ Len(e.lits) = v + gk + l
            /\ gj = gk + l /\ hj = hk + m
        BY <1>6, <2>4, <3>1, <3>3, <3>4 DEF Grown
      <4> HIDE DEF f, u, v, l, m
      <4>i. gk \in Int /\ hk \in Int
        BY <2>4
      <4>2. f + gk + hk + l + m = f + gj + hj /\ u + k + 1 = u + j /\ v + gk + l = v + gj
        <5>1. f + gk + hk + l + m = f + gj + hj
          BY <4>i, <4>1
        <5>2. u + k + 1 = u + j
          BY <4>1 DEF j
        <5>3. v + gk + l = v + gj
          BY <4>i, <4>1
        <5> QED
          BY <5>1, <5>2, <5>3
      <4>3. e.literal = b.literal + gj + hj /\ Len(e.lmds) = Len(b.lmds) + j
            /\ Len(e.lits) = Len(b.lits) + gj
        BY <4>1, <4>2 DEF f, u, v
      <4> QED
        BY <3>3, <4>3 DEF Reached, Grown
    <3>6. ASSUME Room(b, n, L) PROVE ~e.full
      <4> DEFINE u == Len(b.lmds)
                 v == Len(b.lits)
                 l == x.l
      <4>1. /\ u \in Nat /\ v \in Nat /\ l \in Nat /\ gj = gk + l
            /\ u + n + MatchMargin <= MatchesPerBlock /\ v + L + LiteralMargin <= LiteralsPerBlock
            /\ Len(a.lmds) = u + k /\ Len(a.lits) = v + gk
        BY <1>6, <2>4, <3>1, <3>4, <3>6 DEF Room
      <4>2. MatchMargin \in Nat /\ MatchesPerBlock \in Int /\ LiteralMargin \in Nat /\ LiteralsPerBlock \in Nat
        BY LimitAssumption, BlockAssumption
      <4> HIDE DEF u, v, l
      <4>3. u + k + 1 + MatchMargin <= MatchesPerBlock
        BY <1>2, <2>1, <4>1, <4>2
      <4>4. v + gk + l + LiteralMargin <= LiteralsPerBlock
        <5>1. gk \in Int /\ gj \in Int /\ gj <= L
          BY <2>4
        <5> QED
          BY <4>1, <4>2, <5>1
      <4>5. LmdFits(a, x.l)
        BY <4>1, <4>3, <4>4 DEF LmdFits, l
      <4> QED
        BY <3>3, <4>5
    <3> QED
      BY <3>5, <3>6
  <2> QED
    BY <2>5, <2>6
<1>10. n \in S
  <2> HIDE DEF S
  <2>1. Nat \subseteq S
    BY <1>8, <1>9, NatInductionSet
  <2> QED
    BY <1>2, <2>1
<1>11. Reached(c, b, n0, n, L, M) /\ (Room(b, n, L) => ~c.full)
  BY <1>2, <1>5, <1>7, <1>10
<1>12. c \in BufferSet
  <2>1. n \in 0 .. n
    BY <1>2
  <2> QED
    BY <1>3, <1>7, <2>1
<1> QED
  BY <1>11, <1>12 DEF n

\* A shorter length is not split more often.
LEMMA SplitsFew ==
  ASSUME NEW n \in Nat, NEW c \in Nat, n <= c, NEW limit \in Nat \ {0}
  PROVE  Splits(n, limit) <= c \div limit /\ Splits(n, limit) \in Nat /\ c \div limit \in Nat
<1> DEFINE k == Splits(n, limit)
           e == c \div limit
<1>1. /\ k \in Nat /\ (n = 0 => k = 0)
      /\ n > 0 => limit * k < n /\ n <= limit * k + limit
  <2>1. k = Splits(n, limit)
    OBVIOUS
  <2> HIDE DEF k
  <2> QED
    BY <2>1, SplitsBounds
<1>2. e \in Int /\ limit * e <= c /\ c < limit * e + limit
  <2>1. c \in Int /\ limit \in Nat /\ limit > 0
    OBVIOUS
  <2> QED
    BY <2>1, DivBounds
<1> HIDE DEF k, e
<1>3. e \in Nat
  <2> SUFFICES ASSUME e <= -1 PROVE FALSE
    BY <1>2
  <2>1. -e - 1 \in Nat /\ limit * (-e - 1) \in Nat
    BY <1>2
  <2>2. limit * (-e - 1) = -(limit * e) - limit /\ limit * e \in Int
    BY <1>2
  <2> DEFINE t == limit * e
             u == limit * (-e - 1)
  <2>3. u \in Nat /\ u = -t - limit /\ t \in Int /\ c < t + limit
    BY <1>2, <2>1, <2>2
  <2> HIDE DEF t, u
  <2> QED
    BY <2>3
<1>4. k <= e
  <2> SUFFICES ASSUME e + 1 <= k PROVE FALSE
    BY <1>1, <1>3
  <2>1. limit * (e + 1) <= limit * k
    <3>1. limit \in Nat /\ e + 1 \in Nat /\ k \in Nat
      BY <1>1, <1>3
    <3> QED
      BY <3>1, TimesMonotone
  <2>2. limit * (e + 1) = limit * e + limit /\ limit * e \in Int /\ limit * k \in Int
    BY <1>1, <1>3
  <2> DEFINE t == limit * e
             u == limit * k
             v == limit * (e + 1)
  <2>3. n > 0 /\ u < n /\ c < t + limit /\ t \in Int /\ u \in Int /\ v = t + limit /\ v <= u
    BY <1>1, <1>2, <1>3, <2>1, <2>2
  <2> HIDE DEF t, u, v
  <2> QED
    BY <2>3
<1> QED
  BY <1>1, <1>3, <1>4 DEF k, e

\* What the search may hand to the back end fits in empty buffers.
LEMMA PartsFew ==
  ASSUME NEW L \in Nat, NEW M \in Nat, NEW D \in 1 .. MaxD,
         L <= MaxLag + 2 + Stride, M <= MaxMatch + MaxLag + 2
  PROVE  /\ Len(Parts(L, M, D)) + MatchMargin <= MatchesPerBlock
         /\ L + LiteralMargin <= LiteralsPerBlock
<1> DEFINE parts == Parts(L, M, D)
           sl == Splits(L, MaxL)
           sm == Splits(M, MaxM)
           a == (MaxLag + 2 + Stride) \div MaxL
           b == (MaxMatch + MaxLag + 2) \div MaxM
<1>1. sl \in Nat /\ sm \in Nat /\ Len(parts) = sl + sm + (IF L = 0 /\ M = 0 THEN 0 ELSE 1)
  <2>1. parts = Parts(L, M, D) /\ sl = Splits(L, MaxL) /\ sm = Splits(M, MaxM)
    OBVIOUS
  <2> HIDE DEF parts, sl, sm
  <2> QED
    BY <2>1, PartsAre
<1>2. /\ MaxL \in Nat \ {0} /\ MaxM \in Nat \ {0} /\ MaxLag \in Nat /\ MaxMatch \in Nat /\ Stride \in Nat
      /\ MatchMargin \in Nat /\ MatchesPerBlock \in Nat /\ LiteralMargin \in Nat /\ LiteralsPerBlock \in Nat
  BY LimitAssumption, WordAssumption
<1>3. MaxLag + 2 + Stride \in Nat /\ MaxMatch + MaxLag + 2 \in Nat
  BY <1>2
<1>4. sl <= a /\ a \in Nat
  BY <1>2, <1>3, SplitsFew
<1>5. sm <= b /\ b \in Nat
  BY <1>2, <1>3, SplitsFew
<1>6. MatchesPerBlock >= a + b + 2 + MatchMargin /\ LiteralsPerBlock >= MaxLag + 2 + Stride + LiteralMargin
  BY BlockAssumption
<1> HIDE DEF sl, sm, a, b, parts
<1>7. Len(parts) <= sl + sm + 1 /\ Len(parts) \in Nat
  BY <1>1
<1>8. Len(parts) + MatchMargin <= MatchesPerBlock
  BY <1>1, <1>2, <1>4, <1>5, <1>6, <1>7
<1>9. L + LiteralMargin <= LiteralsPerBlock
  BY <1>2, <1>6
<1> QED
  BY <1>8, <1>9 DEF parts

-----------------------------------------------------------------------------
(* What has been stored and what is held back in the buffers.               *)

\* Blocks within the limits of the decoder.
AllStored(o) ==
  /\ o \in Seq(StoredBlock)
  /\ \A i \in 1 .. Len(o) :
       /\ Len(o[i].lmds) <= MatchesPerBlock
       /\ Len(o[i].lits) <= LiteralsPerBlock /\ Len(o[i].lits) % Streams = 0

\* The blocks tell what is in s up to some place, the buffers from there to p.
BackSound(s, o, xs, ys, p) ==
  /\ AllStored(o)
  /\ \E n0 \in 0 .. Len(s) :
       /\ Decoded(o) = [bytes |-> FirstOf(s, n0), sound |-> TRUE]
       /\ Held(s, n0, xs, ys, p)

\* The margins themselves fit in a block.
LEMMA RoomForNothing ==
  /\ MatchMargin <= MatchesPerBlock /\ LiteralMargin <= LiteralsPerBlock
  /\ MatchMargin \in Nat /\ MatchesPerBlock \in Nat /\ LiteralMargin \in Nat /\ LiteralsPerBlock \in Nat
<1>1. /\ MatchMargin \in Nat /\ MatchesPerBlock \in Nat /\ LiteralMargin \in Nat /\ LiteralsPerBlock \in Nat
      /\ MaxLag \in Nat /\ MaxMatch \in Nat /\ Stride \in Nat /\ MaxD \in Nat \ {0}
  BY LimitAssumption, WordAssumption
<1>2. /\ Len(Parts(0, 0, 1)) + MatchMargin <= MatchesPerBlock
      /\ 0 + LiteralMargin <= LiteralsPerBlock
  <2>1. 0 <= MaxLag + 2 + Stride /\ 0 <= MaxMatch + MaxLag + 2 /\ 1 \in 1 .. MaxD
    BY <1>1
  <2> QED
    BY <2>1, PartsFew
<1>3. Len(Parts(0, 0, 1)) \in Nat
  <2> DEFINE parts == Parts(0, 0, 1)
             z == Splits(0, MaxL)
             y == Splits(0, MaxM)
  <2>1. parts = Parts(0, 0, 1) /\ z = Splits(0, MaxL) /\ y = Splits(0, MaxM) /\ 1 \in 1 .. MaxD
    BY <1>1
  <2> HIDE DEF parts, z, y
  <2>2. parts \in Seq(Trip)
    BY <2>1, PartsAre
  <2> QED
    BY <2>2 DEF parts
<1> QED
  BY <1>1, <1>2, <1>3

\* Empty buffers hold nothing.
LEMMA HeldNothing ==
  ASSUME NEW s \in Seq(Byte), NEW p \in Nat
  PROVE  Held(s, p, <<>>, <<>>, p)
<1>1. <<>> \in Seq(Trip) /\ <<>> \in Seq(Byte) /\ Len(<<>>) = 0
  OBVIOUS
<1>2. Tells(s, p, <<>>, <<>>, p)
  BY NothingTold
<1>3. 0 + MatchMargin <= MatchesPerBlock /\ 0 + LiteralMargin <= LiteralsPerBlock
  BY RoomForNothing
<1> QED
  BY <1>1, <1>2, <1>3 DEF Held

\* At first nothing is stored and nothing is held.
LEMMA NothingStored ==
  ASSUME NEW s \in Seq(Byte)
  PROVE  BackSound(s, <<>>, <<>>, <<>>, 0)
<1>1. AllStored(<<>>)
  BY DEF AllStored
<1>2. Decoded(<<>>) = [bytes |-> FirstOf(s, 0), sound |-> TRUE]
  <2>1. FirstOf(s, 0) = <<>>
    <3>1. 0 \in 0 .. Len(s)
      OBVIOUS
    <3>2. FirstOf(s, 0) \in Seq(Byte) /\ Len(FirstOf(s, 0)) = 0
      BY <3>1, FrontBehind
    <3> QED
      BY <3>2
  <2> QED
    BY <2>1, DecodedNothing
<1>3. Held(s, 0, <<>>, <<>>, 0)
  BY HeldNothing
<1>4. 0 \in 0 .. Len(s)
  OBVIOUS
<1> QED
  BY <1>1, <1>2, <1>3, <1>4 DEF BackSound

\* Storing what is in the buffers.
LEMMA BlockTold ==
  ASSUME NEW s \in Seq(Byte), NEW o, NEW xs, NEW ys, NEW p \in 0 .. Len(s),
         BackSound(s, o, xs, ys, p), NEW b, b.lmds = xs, b.lits = ys
  PROVE  /\ BackSound(s, o \o Blocks(b), <<>>, <<>>, p)
         /\ Decoded(o \o Blocks(b)) = [bytes |-> FirstOf(s, p), sound |-> TRUE]
<1>1. PICK n0 \in 0 .. Len(s) :
        /\ Decoded(o) = [bytes |-> FirstOf(s, n0), sound |-> TRUE]
        /\ Held(s, n0, xs, ys, p)
  BY DEF BackSound
<1>2. /\ o \in Seq(StoredBlock)
      /\ \A i \in 1 .. Len(o) :
           /\ Len(o[i].lmds) <= MatchesPerBlock
           /\ Len(o[i].lits) <= LiteralsPerBlock /\ Len(o[i].lits) % Streams = 0
  BY DEF BackSound, AllStored
<1>3. /\ xs \in Seq(Trip) /\ ys \in Seq(Byte) /\ p \in Nat
      /\ Len(xs) + MatchMargin <= MatchesPerBlock /\ Len(ys) + LiteralMargin <= LiteralsPerBlock
      /\ Tells(s, n0, xs, ys, p)
  BY <1>1 DEF Held
<1>4. CASE Blocks(b) = <<>>
  <2>1. xs = <<>> /\ ys = <<>>
    BY <1>4 DEF Blocks
  <2>2. o \o Blocks(b) = o
    BY <1>2, <1>4
  <2>3. n0 = p
    <3>1. PICK place, used :
            /\ Leads(s, xs, ys, place, used)
            /\ place[0] = n0 /\ used[0] = 0 /\ place[Len(xs)] = p /\ used[Len(xs)] = Len(ys)
      BY <1>3 DEF Tells
    <3>2. Len(xs) = 0
      BY <2>1
    <3> QED
      BY <3>1, <3>2
  <2> QED
    BY <1>1, <2>1, <2>2, <2>3
<1>5. CASE Blocks(b) # <<>>
  <2> DEFINE c == BlockOf(b)
             q == Append(o, c)
  <2>1. Blocks(b) = <<c>>
    BY <1>5 DEF Blocks
  <2>2. o \o Blocks(b) = q
    BY <1>2, <2>1
  <2>3. /\ c \in StoredBlock /\ c.lmds = StoredLmds(xs) /\ Begins(ys, c.lits)
        /\ Len(c.lits) % Streams = 0 /\ Len(c.lits) <= LiteralsPerBlock
    BY <1>3, BlockStored
  <2> HIDE DEF c
  <2>4. StoredBlock \subseteq Blk(Byte)
    <3>1. StoredTrip \subseteq LMD
      BY LimitAssumption DEF StoredTrip, LMD
    <3> QED
      BY <3>1 DEF StoredBlock, Blk
  <2>5. o \in Seq(Blk(Byte)) /\ c \in Blk(Byte)
    BY <1>2, <2>3, <2>4
  <2>6. Decoded(q) = DecodedBlock(Decoded(o), c)
    BY <2>5, DecodedMore
  <2>7. Decoded(q) = [bytes |-> FirstOf(s, p), sound |-> TRUE]
    <3>1. DecodedBlock([bytes |-> FirstOf(s, n0), sound |-> TRUE], c) = [bytes |-> FirstOf(s, p), sound |-> TRUE]
      BY <1>3, <2>3, TellsDecoded
    <3> QED
      BY <1>1, <2>6, <3>1
  <2>8. q \in Seq(StoredBlock) /\ Len(q) = Len(o) + 1 /\ q[Len(o) + 1] = c
        /\ \A i \in 1 .. Len(o) : q[i] = o[i]
    BY <1>2, <2>3
  <2> HIDE DEF q
  <2>9. Len(c.lmds) <= MatchesPerBlock
    <3> DEFINE ws == c.lmds
    <3>1. ws = StoredLmds(xs)
      BY <2>3
    <3> HIDE DEF ws
    <3>2. Len(ws) = Len(xs)
      BY <1>3, <3>1, StoredTriples
    <3>3. Len(xs) \in Nat
      BY <1>3
    <3> QED
      BY <1>3, <3>2, <3>3, RoomForNothing DEF ws
  <2>10. AllStored(q)
    <3> SUFFICES ASSUME NEW i \in 1 .. Len(q)
                 PROVE  /\ Len(q[i].lmds) <= MatchesPerBlock
                        /\ Len(q[i].lits) <= LiteralsPerBlock /\ Len(q[i].lits) % Streams = 0
      BY <2>8 DEF AllStored
    <3>1. CASE i = Len(o) + 1
      BY <2>3, <2>8, <2>9, <3>1
    <3>2. CASE i # Len(o) + 1
      <4>1. i \in 1 .. Len(o)
        BY <1>2, <2>8, <3>2
      <4> QED
        BY <1>2, <2>8, <4>1
    <3> QED
      BY <3>1, <3>2
  <2>11. Held(s, p, <<>>, <<>>, p)
    BY <1>3, HeldNothing
  <2>12. BackSound(s, q, <<>>, <<>>, p)
    BY <2>7, <2>10, <2>11 DEF BackSound
  <2> QED
    BY <2>2, <2>7, <2>12
<1> QED
  BY <1>4, <1>5

-----------------------------------------------------------------------------
(* The invariant.                                                           *)

Entries == [pos : [1 .. HashWidth -> Int], value : [1 .. HashWidth -> Words]]

TypeInv ==
  /\ pc \in {"encode", "pending", "literals", "end", "done", "failed"}
  /\ phase \in {"first", "middle", "last"}
  /\ src \in Seq(Byte)
  /\ shift \in Nat /\ left \in Nat /\ srcEnd \in Nat /\ at \in Nat /\ literal \in Int
  /\ pending \in Match
  /\ table \in [Lines -> Entries]

\* The chunks are consecutive, and every offset is inside its chunk.
ChunkInv ==
  /\ shift + srcEnd <= Len(src) /\ srcEnd <= 2 * Half + Stride
  /\ phase = "first" => shift = 0 /\ left = Len(src) /\ left >= Huge /\ srcEnd = Chunk
  /\ phase = "middle" => left >= Chunk /\ srcEnd = 2 * Chunk /\ shift + Chunk + left = Len(src)
  /\ phase = "last" => shift + srcEnd = Len(src)
  /\ at = 0 \/ at + Stride <= srcEnd
  /\ shift + literal >= 0 /\ literal <= srcEnd

\* The k-th position of a line is invalid, or holds the word it says it holds and
\* is older than those in front of it, or has wrapped around.
EntryHonest(line, k, s, sh, i) ==
  LET p == line.pos[k]
  IN \/ p = InvalidPos
     \/ /\ p >= InvalidPos /\ p < i /\ sh + p >= 0
        /\ \A j \in 1 .. Word : line.value[k][j] = s[sh + p + j]
        /\ i <= Half => \A e \in 1 .. k - 1 : line.pos[e] > p
     \/ i > Half /\ p < 0

LineHonest(line, s, sh, i) == \A k \in 1 .. HashWidth : EntryHonest(line, k, s, sh, i)

HistoryInv == \A l \in Lines : LineHonest(table[l], src, shift, at)

\* A match found at i or before: it lies behind first and before end, and repeats
\* bytes of s.
Honest(m, s, sh, first, i, end) ==
  /\ m \in Match
  /\ first <= m.pos /\ m.pos <= i /\ m.pos + m.length <= end
  /\ m.length >= Word /\ m.length <= MaxMatch + MaxLag + 2
  /\ m.pos - m.ref \in 1 .. MaxD /\ sh + m.ref >= 0
  /\ \A k \in 1 .. m.length : s[sh + m.pos + k] = s[sh + m.ref + k]

PendingInv == pending.length > 0 => Honest(pending, src, shift, literal, at, srcEnd)

\* Literals do not build up.
LagInv ==
  pc \in {"encode", "pending", "literals"} =>
    \/ at - literal <= MaxLag + 1
    \/ pending.length > 0 /\ at - literal <= MaxLag + 2

EndInv ==
  /\ pc \in {"pending", "literals"} => at >= srcEnd - Stride
  /\ pc \in {"pending", "literals", "end", "done"} => phase = "last"
  /\ pc \in {"literals", "end", "done"} => pending.length = 0
  /\ pc \in {"end", "done"} => literal = srcEnd
  /\ pc = "done" => lmds = <<>> /\ lits = <<>>
  /\ why = IF pc = "failed" THEN "dst" ELSE "none"

BackInv == BackSound(src, out, lmds, lits, shift + literal)

Inv == TypeInv /\ ChunkInv /\ HistoryInv /\ PendingInv /\ LagInv /\ EndInv /\ BackInv

\* What the back end may be handed.
Offered(m) ==
  /\ m \in Match /\ literal <= m.pos /\ m.pos + m.length <= srcEnd
  /\ LeadsOn(literal, m.pos - literal, m.length, m.pos - m.ref)
  /\ m.pos - literal <= MaxLag + 2 + Stride /\ m.length <= MaxMatch + MaxLag + 2

\* The fields of a match are numbers.
LEMMA MatchTypes ==
  ASSUME NEW m \in Match
  PROVE  m.pos \in Int /\ m.ref \in Int /\ m.length \in Nat
BY DEF Match

\* The assumptions about the constants, in one place.
LEMMA SmallConstants ==
  /\ Word \in Nat /\ Word > 1 /\ Stride \in Nat /\ Word <= Stride /\ MaxL \in Nat \ {0} /\ MaxD \in Nat \ {0}
  /\ MaxLag \in Nat /\ MaxLag >= MaxL /\ MaxMatch \in Nat /\ MaxMatch >= Word
  /\ Half \in Nat /\ Half > 4 * MaxD /\ HashWidth \in Nat \ {0}
  /\ Chunk \in Nat /\ Chunk > Stride /\ 2 * Chunk <= Half + Stride /\ Huge \in Nat /\ Huge >= 2 * Chunk
  /\ Huge <= 2 * Half /\ 0 \in Byte /\ InvalidPos = -4 * MaxD
BY LimitAssumption, WordAssumption, HashAssumption DEF InvalidPos

\* src_literal is in the source.
LEMMA PlaceIs ==
  ASSUME TypeInv, ChunkInv
  PROVE  shift + literal \in 0 .. Len(src)
<1> DEFINE N == Len(src)
<1>1. N \in Nat /\ shift \in Nat /\ literal \in Int /\ srcEnd \in Nat
  BY DEF TypeInv
<1>2. shift + srcEnd <= N /\ shift + literal >= 0 /\ literal <= srcEnd
  BY DEF ChunkInv
<1> HIDE DEF N
<1>3. shift + literal \in 0 .. N
  BY <1>1, <1>2
<1> QED
  BY <1>3 DEF N

\* A match found by the search may be handed to the back end.
LEMMA HonestOffered ==
  ASSUME TypeInv, ChunkInv, LagInv, pc \in {"encode", "pending", "literals"},
         NEW m, Honest(m, src, shift, literal, at, srcEnd)
  PROVE  Offered(m)
<1> DEFINE N == Len(src)
           pos == m.pos
           ref == m.ref
           len == m.length
           L == pos - literal
           D == pos - ref
           p == shift + literal
<1>1. /\ m \in Match /\ literal <= pos /\ pos <= at /\ pos + len <= srcEnd
      /\ len >= Word /\ len <= MaxMatch + MaxLag + 2 /\ D \in 1 .. MaxD /\ shift + ref >= 0
      /\ \A k \in 1 .. len : src[shift + pos + k] = src[shift + ref + k]
  BY DEF Honest
<1>2. pos \in Int /\ ref \in Int /\ len \in Nat
  BY <1>1, MatchTypes
<1>3. shift \in Nat /\ literal \in Int /\ at \in Nat /\ srcEnd \in Nat /\ N \in Nat
  BY DEF TypeInv
<1>4. shift + srcEnd <= N
  BY DEF ChunkInv
<1>5. at - literal <= MaxLag + 2
  BY <1>3, SmallConstants DEF LagInv
<1> HIDE DEF N, pos, ref, len
<1>6. p + L = shift + pos /\ p + L + len <= N /\ D <= p + L
  BY <1>1, <1>2, <1>3, <1>4
<1>7. Recurs(src, p + L, len, D)
  <2> SUFFICES ASSUME NEW k \in 1 .. len PROVE src[p + L + k] = src[p + L + k - D]
    BY DEF Recurs
  <2>1. p + L + k = shift + pos + k /\ p + L + k - D = shift + ref + k
    BY <1>2, <1>3
  <2> QED
    BY <1>1, <2>1
<1>8. LeadsOn(literal, L, len, D)
  BY <1>1, <1>6, <1>7 DEF LeadsOn, N
<1>9. L <= MaxLag + 2 + Stride
  BY <1>1, <1>2, <1>3, <1>5, SmallConstants
<1> QED
  BY <1>1, <1>8, <1>9 DEF Offered, pos, ref, len

\* And so may a run of literals.
LEMMA RunOffered ==
  ASSUME TypeInv, ChunkInv, NEW n \in Nat, n > 0, literal + n <= srcEnd, n <= MaxLag + 2 + Stride
  PROVE  /\ Offered(LiteralRun(n)) /\ LiteralRun(n).length = 0 /\ LiteralRun(n).pos = literal + n
         /\ LiteralRun(n).ref = literal + n - 1
<1> DEFINE m == LiteralRun(n)
           N == Len(src)
           p == shift + literal
<1>1. shift \in Nat /\ literal \in Int /\ at \in Nat /\ srcEnd \in Nat /\ N \in Nat
  BY DEF TypeInv
<1>2. shift + srcEnd <= N /\ shift + literal >= 0
  BY DEF ChunkInv
<1>3. m = [pos |-> literal + n, ref |-> literal + n - 1, length |-> 0]
  BY DEF LiteralRun
<1>4. m \in Match /\ m.pos = literal + n /\ m.ref = literal + n - 1 /\ m.length = 0
  <2>1. literal + n \in Int /\ literal + n - 1 \in Int /\ 0 \in Nat
    BY <1>1
  <2> HIDE DEF m
  <2> QED
    BY <1>3, <2>1 DEF Match
<1> HIDE DEF m, N
<1>5. m.pos - literal = n /\ m.pos - m.ref = 1
  BY <1>1, <1>4
<1>6. LeadsOn(literal, n, 0, 1)
  <2>1. Recurs(src, p + n, 0, 1)
    BY DEF Recurs
  <2>2. p + n + 0 <= N /\ 1 <= p + n
    BY <1>1, <1>2
  <2>3. 1 \in 1 .. MaxD
    BY SmallConstants
  <2> QED
    BY <2>1, <2>2, <2>3 DEF LeadsOn, N
<1>7. m.pos + m.length <= srcEnd /\ literal <= m.pos
  BY <1>1, <1>4
<1>8. m.length <= MaxMatch + MaxLag + 2
  BY <1>4, SmallConstants
<1>9. Offered(m)
  BY <1>4, <1>5, <1>6, <1>7, <1>8 DEF Offered
<1> QED
  BY <1>4, <1>9 DEF m

-----------------------------------------------------------------------------
(* Handing a match to the back end.                                         *)

\* A match pushed to triples xs and literals ys that are held.
LEMMA PushedIs ==
  ASSUME TypeInv, ChunkInv, NEW m, Offered(m), NEW n0 \in Nat, NEW xs, NEW ys,
         Held(src, n0, xs, ys, shift + literal),
         NEW b, b = [lmds |-> xs, lits |-> ys, literal |-> literal, full |-> FALSE],
         NEW c, c = Pushed(b, m)
  PROVE  /\ c.full \in BOOLEAN
         /\ ~c.full => c.literal = m.pos + m.length /\ Held(src, n0, c.lmds, c.lits, shift + c.literal)
         /\ xs = <<>> /\ ys = <<>> => ~c.full
<1> DEFINE L == m.pos - literal
           M == m.length
           D == m.pos - m.ref
           parts == Parts(L, M, D)
           n == Len(parts)
<1>1. /\ m.pos \in Int /\ m.ref \in Int /\ M \in Nat /\ literal \in Int /\ src \in Seq(Byte) /\ shift \in Nat
  BY MatchTypes DEF Offered, TypeInv
<1>2. /\ L \in Nat /\ LeadsOn(literal, L, M, D)
      /\ L <= MaxLag + 2 + Stride /\ M <= MaxMatch + MaxLag + 2
  <2>1. /\ literal <= m.pos /\ LeadsOn(literal, L, M, D)
        /\ L <= MaxLag + 2 + Stride /\ M <= MaxMatch + MaxLag + 2
    BY DEF Offered
  <2> QED
    BY <1>1, <2>1
<1>3. D \in 1 .. MaxD
  BY <1>2 DEF LeadsOn
<1>4. b.lmds = xs /\ b.lits = ys /\ b.literal = literal /\ b.full = FALSE
  OBVIOUS
<1>5. xs \in Seq(Trip) /\ ys \in Seq(Byte)
  BY DEF Held
<1>6. b \in BufferSet
  <2>1. ys \in Seq(Read)
    BY <1>5 DEF Read
  <2> QED
    BY <1>1, <1>5, <2>1 DEF BufferSet
<1>7. Told(n0, b.lmds, b.lits, b.literal)
  BY <1>1, <1>4 DEF Told
<1>8. c = Pushes(b, parts)[n]
  BY <1>4 DEF Pushed
<1>p. parts = Parts(L, M, D)
  OBVIOUS
<1>l. LeadsOn(b.literal, L, M, D) /\ ~b.full
  BY <1>2, <1>4
<1> HIDE DEF L, M, D, parts
<1>9. /\ c \in BufferSet /\ Reached(c, b, n0, n, L, M)
      /\ Room(b, n, L) => ~c.full
  BY <1>1, <1>2, <1>3, <1>6, <1>7, <1>8, <1>p, <1>l, PartsTold
<1>10. c.full \in BOOLEAN
  BY <1>9 DEF BufferSet
<1>11. ASSUME ~c.full PROVE c.literal = m.pos + m.length /\ Held(src, n0, c.lmds, c.lits, shift + c.literal)
  <2>1. c.literal = b.literal + L + M /\ Told(n0, c.lmds, c.lits, c.literal)
    BY <1>9, <1>11 DEF Reached
  <2>2. literal + L + M = m.pos + m.length
    BY <1>1 DEF L, M
  <2> QED
    BY <1>4, <2>1, <2>2 DEF Told
<1>12. ASSUME xs = <<>>, ys = <<>> PROVE ~c.full
  <2>1. Len(b.lmds) = 0 /\ Len(b.lits) = 0
    BY <1>4, <1>12
  <2>2. n + MatchMargin <= MatchesPerBlock /\ L + LiteralMargin <= LiteralsPerBlock
    BY <1>1, <1>2, <1>3, <1>p, PartsFew
  <2>3. n \in Nat
    <3> DEFINE sl == Splits(L, MaxL)
               sm == Splits(M, MaxM)
    <3>1. sl = Splits(L, MaxL) /\ sm = Splits(M, MaxM)
      OBVIOUS
    <3> HIDE DEF sl, sm
    <3>2. parts \in Seq(Trip)
      BY <1>1, <1>2, <1>3, <1>p, <3>1, PartsAre
    <3> QED
      BY <3>2
  <2>4. 0 + n = n /\ 0 + L = L
    BY <1>2, <2>3
  <2>5. Room(b, n, L)
    BY <2>1, <2>2, <2>4 DEF Room
  <2> QED
    BY <1>9, <2>5
<1> QED
  BY <1>10, <1>11, <1>12

\* The block stored, what is held.
LEMMA BufferStored ==
  ASSUME TypeInv, ChunkInv, BackInv
  PROVE  /\ BackSound(src, out \o Blocks(Buffer), <<>>, <<>>, shift + literal)
         /\ Decoded(out \o Blocks(Buffer)) = [bytes |-> FirstOf(src, shift + literal), sound |-> TRUE]
<1>1. Buffer.lmds = lmds /\ Buffer.lits = lits
  BY DEF Buffer
<1>2. shift + literal \in 0 .. Len(src) /\ src \in Seq(Byte)
  BY PlaceIs DEF TypeInv
<1> QED
  BY <1>1, <1>2, BlockTold DEF BackInv

\* A match that may be handed to the back end fits in emptied buffers.
LEMMA FitsEmptied ==
  ASSUME TypeInv, ChunkInv, NEW m, Offered(m)
  PROVE  FitsEmpty(m)
<1>1. src \in Seq(Byte) /\ shift + literal \in Nat
  BY PlaceIs DEF TypeInv
<1>2. Held(src, shift + literal, <<>>, <<>>, shift + literal)
  BY <1>1, HeldNothing
<1> QED
  BY <1>1, <1>2, PushedIs DEF FitsEmpty, Emptied

\* A match taken.
LEMMA TakenKeeps ==
  ASSUME TypeInv, ChunkInv, BackInv, NEW m, Offered(m), Taken(m), src' = src
  PROVE  /\ literal' = m.pos + m.length /\ literal' \in Int
         /\ BackSound(src, out', lmds', lits', shift + literal')
<1>1. m.pos \in Int /\ m.length \in Nat
  BY MatchTypes DEF Offered
<1>2. m.pos + m.length \in Int
  BY <1>1
<1>3. CASE Fits(m) /\ Keep(Pushed(Buffer, m)) /\ out' = out
  <2>1. PICK n0 \in 0 .. Len(src) :
          /\ Decoded(out) = [bytes |-> FirstOf(src, n0), sound |-> TRUE]
          /\ Held(src, n0, lmds, lits, shift + literal)
    BY DEF BackInv, BackSound
  <2> DEFINE c == Pushed(Buffer, m)
  <2>2. n0 \in Nat
    BY <2>1
  <2>3. ~c.full
    BY <1>3 DEF Fits
  <2>4. c.literal = m.pos + m.length /\ Held(src, n0, c.lmds, c.lits, shift + c.literal)
    BY <2>1, <2>2, <2>3, PushedIs DEF Buffer
  <2>5. lmds' = c.lmds /\ lits' = c.lits /\ literal' = c.literal
    BY <1>3 DEF Keep
  <2> HIDE DEF c
  <2>6. BackSound(src, out', lmds', lits', shift + literal')
    BY <1>3, <2>1, <2>4, <2>5 DEF BackSound, BackInv
  <2> QED
    BY <1>2, <2>4, <2>5, <2>6
<1>4. CASE FitsEmpty(m) /\ Keep(Pushed(Emptied, m)) /\ out' = out \o Blocks(Buffer)
  <2> DEFINE o == out \o Blocks(Buffer)
             c == Pushed(Emptied, m)
             p == shift + literal
  <2>1. BackSound(src, o, <<>>, <<>>, p) /\ Decoded(o) = [bytes |-> FirstOf(src, p), sound |-> TRUE]
    BY BufferStored
  <2>2. p \in 0 .. Len(src) /\ p \in Nat /\ src \in Seq(Byte)
    BY PlaceIs DEF TypeInv
  <2>3. Held(src, p, <<>>, <<>>, p)
    BY <2>2, HeldNothing
  <2>4. ~c.full
    BY <1>4 DEF FitsEmpty
  <2>5. c.literal = m.pos + m.length /\ Held(src, p, c.lmds, c.lits, shift + c.literal)
    BY <2>2, <2>3, <2>4, PushedIs DEF Emptied
  <2>6. lmds' = c.lmds /\ lits' = c.lits /\ literal' = c.literal /\ out' = o
    BY <1>4 DEF Keep
  <2> HIDE DEF c, o, p
  <2>7. BackSound(src, out', lmds', lits', shift + literal')
    BY <2>1, <2>2, <2>5, <2>6 DEF BackSound
  <2> QED
    BY <1>2, <2>5, <2>6, <2>7
<1> QED
  BY <1>3, <1>4 DEF Taken

\* A block that did not fit in dst.
LEMMA RolledBack ==
  ASSUME TypeInv, BackInv
  PROVE  Rolled(Buffer) = lmds
<1>1. lmds \in Seq(Trip)
  BY DEF BackInv, BackSound, Held
<1>2. Buffer.lmds = lmds
  BY DEF Buffer
<1> QED
  BY <1>1, <1>2, RolledSame DEF Rolled

\* A match not taken: it would have fitted in empty buffers.
LEMMA NotTakenKeeps ==
  ASSUME TypeInv, ChunkInv, BackInv, NEW m, Offered(m), NotTaken(m)
  PROVE  /\ pc' = "failed" /\ why' = "dst"
         /\ lmds' = lmds /\ lits' = lits /\ literal' = literal /\ out' = out
<1>1. FitsEmpty(m)
  BY FitsEmptied
<1>2. lmds' = Rolled(Buffer) /\ UNCHANGED <<lits, literal, out>> /\ GiveUp("dst")
  BY <1>1 DEF NotTaken
<1> QED
  BY <1>2, RolledBack DEF GiveUp

-----------------------------------------------------------------------------
(* The search.                                                              *)

\* A position that is searched is at least a stride before the end of the chunk.
LEMMA SearchPlace ==
  ASSUME TypeInv, ChunkInv, Searching
  PROVE  /\ at \in Nat /\ shift \in Nat /\ srcEnd \in Nat /\ Len(src) \in Nat /\ Stride \in Nat /\ Word \in Nat
         /\ Word > 1 /\ Word <= Stride /\ at + Stride < srcEnd /\ shift + srcEnd <= Len(src)
<1>1. at \in Nat /\ shift \in Nat /\ srcEnd \in Nat /\ Len(src) \in Nat
  BY DEF TypeInv
<1>2. at < srcEnd - Stride
  BY DEF Searching
<1>3. at + Stride < srcEnd
  BY <1>1, <1>2, SmallConstants
<1> QED
  BY <1>1, <1>3, SmallConstants DEF ChunkInv

\* The word at a position is that of the source.
LEMMA WordIs ==
  ASSUME TypeInv, ChunkInv, Searching, NEW p \in Int, p <= at, shift + p >= 0
  PROVE  WordAt(p) \in Words /\ \A j \in 1 .. Word : WordAt(p)[j] = src[shift + p + j]
<1>1. ASSUME NEW j \in 1 .. Word PROVE Src(p + j - 1) = src[shift + p + j] /\ src[shift + p + j] \in Byte
  <2> DEFINE N == Len(src)
  <2>1. shift + (p + j - 1) + 1 = shift + p + j
    BY SearchPlace
  <2>2. N \in Nat /\ shift + srcEnd <= N
    BY SearchPlace
  <2>3. src \in Seq(Byte)
    BY DEF TypeInv
  <2> HIDE DEF N
  <2>4. shift + p + j \in 1 .. N
    BY <2>2, SearchPlace
  <2> QED
    BY <2>1, <2>3, <2>4 DEF Src, N
<1>2. WordAt(p) = [k \in 1 .. Word |-> Src(p + k - 1)]
  BY DEF WordAt
<1> QED
  BY <1>1, <1>2 DEF Words

\* The line of a position is a line of the table and is honest.
LEMMA LineIs ==
  ASSUME TypeInv, ChunkInv, HistoryInv, Searching
  PROVE  /\ WordAt(at) \in Words /\ HashOf[WordAt(at)] \in Lines
         /\ \A j \in 1 .. Word : WordAt(at)[j] = src[shift + at + j]
         /\ Line \in Entries /\ LineHonest(Line, src, shift, at)
<1>1. at \in Int /\ at <= at /\ shift + at >= 0
  BY SearchPlace
<1>2. WordAt(at) \in Words /\ \A j \in 1 .. Word : WordAt(at)[j] = src[shift + at + j]
  BY <1>1, WordIs
<1>3. HashOf[WordAt(at)] \in Lines
  BY <1>2 DEF Lines
<1>4. table \in [Lines -> Entries]
  BY DEF TypeInv
<1> QED
  BY <1>2, <1>3, <1>4 DEF Line, HistoryInv

\* A candidate holds the word at the position, at a distance that can be stored.
LEMMA CandidateIs ==
  ASSUME TypeInv, ChunkInv, HistoryInv, Searching, NEW k \in Candidates, NEW r, r = Line.pos[k]
  PROVE  /\ r \in Int /\ r < at /\ at - r \in 1 .. MaxD /\ shift + r >= 0
         /\ \A j \in 1 .. Word : src[shift + r + j] = src[shift + at + j]
<1>1. k \in 1 .. HashWidth /\ Line.value[k] = WordAt(at) /\ r + MaxD >= at
  BY DEF Candidates
<1>2. Line \in Entries /\ EntryHonest(Line, k, src, shift, at)
        /\ \A j \in 1 .. Word : WordAt(at)[j] = src[shift + at + j]
  BY <1>1, LineIs DEF LineHonest
<1>3. r \in Int
  BY <1>1, <1>2 DEF Entries
<1>4. at \in Nat /\ MaxD \in Nat /\ MaxD > 0 /\ InvalidPos = -4 * MaxD /\ Half > 4 * MaxD /\ Half \in Nat
  BY SearchPlace, SmallConstants
<1>5. /\ r >= InvalidPos /\ r < at /\ shift + r >= 0
      /\ \A j \in 1 .. Word : Line.value[k][j] = src[shift + r + j]
  <2>1. r # InvalidPos
    BY <1>1, <1>3, <1>4
  <2>2. ~(at > Half /\ r < 0)
    BY <1>1, <1>3, <1>4
  <2> QED
    BY <1>2, <2>1, <2>2 DEF EntryHonest
<1>6. ASSUME NEW j \in 1 .. Word PROVE src[shift + r + j] = src[shift + at + j]
  BY <1>1, <1>2, <1>5
<1>7. at - r \in 1 .. MaxD
  BY <1>1, <1>3, <1>4, <1>5
<1> QED
  BY <1>3, <1>5, <1>6, <1>7

\* The comparison ends before the end of the chunk does.
LEMMA CompareLimitIs ==
  ASSUME TypeInv, ChunkInv, Searching
  PROVE  CompareLimit \in Nat /\ CompareLimit >= Word /\ at + CompareLimit < srcEnd
<1> DEFINE max == srcEnd - at - Stride
           i == max - Word + Stride - 1
           q == i \div Stride
<1>1. max \in Nat /\ max >= 1 /\ i \in Int /\ Stride \in Nat /\ Stride > 0
  BY SearchPlace
<1>2. CASE max <= Word
  <2>1. CompareLimit = Word
    BY <1>2 DEF CompareLimit
  <2> QED
    BY <2>1, SearchPlace
<1>3. CASE ~(max <= Word)
  <2> DEFINE t == Stride * q
  <2>1. CompareLimit = Word + t
    BY <1>3 DEF CompareLimit
  <2>2. q \in Int /\ Stride * q <= i /\ i < Stride * q + Stride
    BY <1>1, DivBounds
  <2>3. t \in Int /\ t <= i /\ i < t + Stride
    BY <1>1, <2>2
  <2> HIDE DEF t, q
  <2>e. /\ i = max - Word + Stride - 1 /\ max = srcEnd - at - Stride /\ max > Word
        /\ max \in Int /\ i \in Int /\ at \in Nat /\ srcEnd \in Nat /\ Word \in Nat /\ Stride \in Nat
    BY <1>1, <1>3, SearchPlace
  <2> HIDE DEF i, max
  <2>4. t > 0 /\ at + Word + t < srcEnd
    <3>1. t > 0
      BY <2>3, <2>e
    <3>2. at + Word + t < srcEnd
      BY <2>3, <2>e
    <3> QED
      BY <3>1, <3>2
  <2>5. Word + t \in Nat /\ Word + t >= Word /\ at + (Word + t) < srcEnd
    BY <2>3, <2>4, SearchPlace
  <2> QED
    BY <2>1, <2>5
<1> QED
  BY <1>2, <1>3

\* As far as a match reaches the bytes are the same.
LEMMA MatchLengthIs ==
  ASSUME TypeInv, ChunkInv, Searching, NEW r, NEW n, n = MatchLength(r)
  PROVE  n \in Word .. CompareLimit /\ \A e \in Word .. n - 1 : Src(r + e) = Src(at + e)
<1> DEFINE differ == {e \in Word .. CompareLimit - 1 : Src(r + e) # Src(at + e)}
           S == differ \cup {CompareLimit}
<1>1. CompareLimit \in Nat /\ CompareLimit >= Word /\ Word \in Nat
  BY CompareLimitIs, SearchPlace
<1>2. S \subseteq Nat /\ S # {}
  BY <1>1
<1>3. n = CHOOSE e \in S : \A f \in S : e <= f
  BY DEF MatchLength
<1>4. n \in S /\ \A f \in S : n <= f
  <2>1. \E e \in S : \A f \in S : e <= f
    <3> HIDE DEF S
    <3> QED
      BY <1>2, LeastNumber
  <2> HIDE DEF S
  <2> QED
    BY <1>3, <2>1
<1>5. n \in Word .. CompareLimit
  BY <1>1, <1>4
<1>6. ASSUME NEW e \in Word .. n - 1 PROVE Src(r + e) = Src(at + e)
  <2>1. e \in Word .. CompareLimit - 1 /\ ~(n <= e)
    BY <1>1, <1>5
  <2>2. e \notin S
    BY <1>4, <2>1
  <2> QED
    BY <2>1, <2>2
<1> QED
  BY <1>5, <1>6

\* The best candidate exists.
LEMMA BestIs ==
  ASSUME TypeInv, ChunkInv, Searching, Candidates # {}
  PROVE  Best \in Candidates
<1> DEFINE C == Candidates
           ml == [k \in C |-> MatchLength(Line.pos[k])]
           S == {ml[k] : k \in C}
<1>1. C \subseteq Nat /\ C # {}
  BY SmallConstants DEF Candidates
<1>2. CompareLimit \in Nat /\ \A k \in C : ml[k] \in Nat /\ ml[k] <= CompareLimit
  <2>1. CompareLimit \in Nat /\ Word \in Nat
    BY CompareLimitIs, SearchPlace
  <2>2. ASSUME NEW k \in C PROVE ml[k] \in Word .. CompareLimit
    <3>1. ml[k] = MatchLength(Line.pos[k])
      OBVIOUS
    <3> HIDE DEF ml
    <3> QED
      BY <3>1, MatchLengthIs
  <2> QED
    BY <2>1, <2>2
<1>3. Best = CHOOSE k \in C : \A j \in C : \/ ml[j] < ml[k]
                                           \/ ml[j] = ml[k] /\ k <= j
  <2>1. Best = CHOOSE k \in C : \A j \in C :
                 \/ MatchLength(Line.pos[j]) < MatchLength(Line.pos[k])
                 \/ MatchLength(Line.pos[j]) = MatchLength(Line.pos[k]) /\ k <= j
    BY DEF Best
  <2> QED
    BY <2>1
<1> HIDE DEF C, ml
<1>4. S \subseteq Nat /\ S # {} /\ \A x \in S : x <= CompareLimit
  BY <1>1, <1>2
<1>5. PICK x \in S : \A y \in S : y <= x
  <2> HIDE DEF S
  <2> QED
    BY <1>2, <1>4, GreatestNumber
<1> DEFINE T == {k \in C : ml[k] = x}
<1>6. T \subseteq Nat /\ T # {}
  BY <1>1, <1>5
<1>7. PICK k \in T : \A j \in T : k <= j
  <2> HIDE DEF T
  <2> QED
    BY <1>6, LeastNumber
<1>8. \A j \in C : ml[j] < ml[k] \/ (ml[j] = ml[k] /\ k <= j)
  <2> SUFFICES ASSUME NEW j \in C PROVE ml[j] < ml[k] \/ (ml[j] = ml[k] /\ k <= j)
    OBVIOUS
  <2>1. ml[j] <= x /\ ml[k] = x /\ ml[j] \in Nat /\ x \in Nat
    BY <1>2, <1>5, <1>7
  <2>2. ml[j] = x => k <= j
    BY <1>7
  <2> QED
    BY <2>1, <2>2
<1>9. Best \in C
  BY <1>3, <1>7, <1>8
<1> QED
  BY <1>9 DEF C

\* A match is expanded over equal bytes, within the literals.
LEMMA ExpansionIs ==
  ASSUME TypeInv, at >= literal, NEW r \in Int, NEW n, n = Expansion(r)
  PROVE  /\ n \in Nat /\ n <= at - literal /\ (n = 0 \/ n <= r)
         /\ \A j \in 1 .. n : Src(r - j) = Src(at - j)
<1> DEFINE limit == Smaller(at - literal, r)
           steps == {m \in 1 .. limit : \A j \in 1 .. m : Src(r - j) = Src(at - j)}
<1>1. at \in Nat /\ literal \in Int /\ at - literal \in Nat
  BY DEF TypeInv
<1>2. limit \in Int /\ limit <= at - literal /\ limit <= r
  BY <1>1 DEF Smaller
<1>3. n = IF steps = {} THEN 0 ELSE CHOOSE j \in steps : \A m \in steps : m <= j
  BY DEF Expansion
<1> HIDE DEF limit
<1>4. CASE steps = {}
  <2>1. n = 0
    BY <1>3, <1>4
  <2> QED
    BY <1>1, <2>1
<1>5. CASE steps # {}
  <2>1. steps \subseteq Nat /\ \A m \in steps : m <= at - literal
    BY <1>1, <1>2
  <2>2. \E j \in steps : \A m \in steps : m <= j
    <3> DEFINE bound == at - literal
    <3>1. bound \in Nat /\ steps \subseteq Nat /\ \A m \in steps : m <= bound
      BY <1>1, <2>1
    <3> HIDE DEF steps, bound
    <3> QED
      BY <1>5, <3>1, GreatestNumber
  <2>3. n \in steps
    <3> HIDE DEF steps
    <3> QED
      BY <1>3, <1>5, <2>2
  <2>4. n \in 1 .. limit /\ \A j \in 1 .. n : Src(r - j) = Src(at - j)
    BY <2>3
  <2> QED
    BY <1>1, <1>2, <2>4
<1> QED
  BY <1>4, <1>5

\* What the search finds at a position that is not covered.
LEMMA IncomingHonest ==
  ASSUME TypeInv, ChunkInv, HistoryInv, LagInv, Found
  PROVE  Honest(Incoming, src, shift, literal, at, srcEnd)
<1> DEFINE r == Line.pos[Best]
           back == Expansion(r)
           n == MatchLength(r)
           len == Smaller(n, MaxMatch)
           pos == at - back
           ref == r - back
<1>1. Searching /\ at >= literal /\ Candidates # {} /\ pc = "encode"
  BY DEF Found, Uncovered, Searching
<1>2. at \in Nat /\ literal \in Int /\ shift \in Nat /\ srcEnd \in Nat /\ MaxMatch \in Nat /\ MaxMatch >= Word
      /\ Word \in Nat /\ Word > 1 /\ MaxLag \in Nat /\ MaxD \in Nat
  BY <1>1, SearchPlace, SmallConstants DEF TypeInv
<1>3. at - literal <= MaxLag + 2
  BY <1>1, <1>2 DEF LagInv
<1>r. r = Line.pos[Best] /\ Best \in Candidates
  BY <1>1, BestIs
<1>i. Incoming = [pos |-> pos, ref |-> ref, length |-> len + back]
  BY DEF Incoming
<1>b. back = Expansion(r) /\ n = MatchLength(r)
  OBVIOUS
<1> HIDE DEF r, back, n
<1>4. /\ r \in Int /\ r < at /\ at - r \in 1 .. MaxD /\ shift + r >= 0
      /\ \A j \in 1 .. Word : src[shift + r + j] = src[shift + at + j]
  BY <1>1, <1>r, CandidateIs
<1>5. n \in Word .. CompareLimit /\ \A e \in Word .. n - 1 : Src(r + e) = Src(at + e)
  BY <1>1, <1>b, MatchLengthIs
<1>6. CompareLimit \in Nat /\ at + CompareLimit < srcEnd
  BY <1>1, CompareLimitIs
<1>7. /\ back \in Nat /\ back <= at - literal /\ (back = 0 \/ back <= r)
      /\ \A j \in 1 .. back : Src(r - j) = Src(at - j)
  BY <1>1, <1>4, <1>b, ExpansionIs
<1>8. len \in Nat /\ len >= Word /\ len <= n /\ len <= MaxMatch
  BY <1>2, <1>5, <1>6 DEF Smaller
<1> HIDE DEF len
<1>9. /\ literal <= pos /\ pos <= at /\ pos + (len + back) <= srcEnd
      /\ len + back >= Word /\ len + back <= MaxMatch + MaxLag + 2
      /\ pos - ref \in 1 .. MaxD /\ shift + ref >= 0
      /\ pos \in Int /\ ref \in Int /\ len + back \in Nat
  <2>1. pos + (len + back) <= srcEnd
    BY <1>2, <1>5, <1>6, <1>7, <1>8
  <2>2. len + back >= Word /\ len + back <= MaxMatch + MaxLag + 2
    BY <1>2, <1>3, <1>7, <1>8
  <2>3. pos - ref = at - r
    BY <1>2, <1>4, <1>7
  <2>4. shift + ref >= 0
    BY <1>2, <1>4, <1>7
  <2>5. literal <= pos /\ pos <= at /\ pos \in Int /\ ref \in Int /\ len + back \in Nat
    BY <1>2, <1>4, <1>7, <1>8
  <2> QED
    BY <1>4, <2>1, <2>2, <2>3, <2>4, <2>5
<1>10. ASSUME NEW k \in 1 .. len + back PROVE src[shift + pos + k] = src[shift + ref + k]
  <2>1. CASE k <= back
    <3> DEFINE j == back - k + 1
    <3>1. j \in 1 .. back /\ shift + (r - j) + 1 = shift + ref + k /\ shift + (at - j) + 1 = shift + pos + k
      BY <1>2, <1>4, <1>7, <2>1
    <3> HIDE DEF j
    <3>2. Src(r - j) = Src(at - j)
      BY <1>7, <3>1
    <3> QED
      BY <3>1, <3>2 DEF Src
  <2>2. CASE k > back /\ k - back <= Word
    <3> DEFINE j == k - back
    <3>1. j \in 1 .. Word /\ shift + r + j = shift + ref + k /\ shift + at + j = shift + pos + k
      BY <1>2, <1>4, <1>7, <2>2
    <3> HIDE DEF j
    <3>2. src[shift + r + j] = src[shift + at + j]
      BY <1>4, <3>1
    <3> QED
      BY <3>1, <3>2
  <2>3. CASE k - back > Word
    <3> DEFINE e == k - back - 1
    <3>1. e \in Word .. n - 1 /\ shift + (r + e) + 1 = shift + ref + k /\ shift + (at + e) + 1 = shift + pos + k
      BY <1>2, <1>4, <1>5, <1>6, <1>7, <1>8, <2>3
    <3> HIDE DEF e
    <3>2. Src(r + e) = Src(at + e)
      BY <1>5, <3>1
    <3> QED
      BY <3>1, <3>2 DEF Src
  <2> QED
    BY <1>2, <1>7, <1>8, <2>1, <2>2, <2>3
<1> HIDE DEF pos, ref
<1>11. Incoming \in Match /\ Incoming.pos = pos /\ Incoming.ref = ref /\ Incoming.length = len + back
  BY <1>9, <1>i DEF Match
<1> QED
  BY <1>9, <1>10, <1>11 DEF Honest

-----------------------------------------------------------------------------
(* What is kept as the search goes on and the state is translated.          *)

\* A position and a word of a line.
LEMMA EntryTypes ==
  ASSUME NEW line \in Entries, NEW k \in 1 .. HashWidth
  PROVE  line.pos[k] \in Int /\ line.value[k] \in Words
BY DEF Entries

\* An honest line stays honest at the next position.
LEMMA LineLater ==
  ASSUME NEW line \in Entries, NEW s, NEW sh \in Nat, NEW i \in Nat, LineHonest(line, s, sh, i)
  PROVE  LineHonest(line, s, sh, i + 1)
<1> SUFFICES ASSUME NEW k \in 1 .. HashWidth PROVE EntryHonest(line, k, s, sh, i + 1)
  BY DEF LineHonest
<1> DEFINE p == line.pos[k]
<1>1. p \in Int /\ Half \in Nat
  BY EntryTypes, SmallConstants
<1>2. EntryHonest(line, k, s, sh, i)
  BY DEF LineHonest
<1>3. \/ p = InvalidPos
      \/ /\ p >= InvalidPos /\ p < i /\ sh + p >= 0
         /\ \A j \in 1 .. Word : line.value[k][j] = s[sh + p + j]
         /\ i <= Half => \A e \in 1 .. k - 1 : line.pos[e] > p
      \/ i > Half /\ p < 0
  BY <1>2 DEF EntryHonest
<1> HIDE DEF p
<1>4. (i > Half => i + 1 > Half) /\ (p < i => p < i + 1) /\ (i + 1 <= Half => i <= Half)
  BY <1>1
<1>5. \/ p = InvalidPos
      \/ /\ p >= InvalidPos /\ p < i + 1 /\ sh + p >= 0
         /\ \A j \in 1 .. Word : line.value[k][j] = s[sh + p + j]
         /\ i + 1 <= Half => \A e \in 1 .. k - 1 : line.pos[e] > p
      \/ i + 1 > Half /\ p < 0
  BY <1>3, <1>4
<1> QED
  BY <1>5 DEF EntryHonest, p

\* The line the search has put its position in front of.
LEMMA NewLineHonest ==
  ASSUME TypeInv, ChunkInv, HistoryInv, Searching
  PROVE  NewLine \in Entries /\ LineHonest(NewLine, src, shift, at + 1)
<1> DEFINE new == NewLine
           old == Line
           x == WordAt(at)
<1>1. /\ x \in Words /\ \A j \in 1 .. Word : x[j] = src[shift + at + j]
      /\ old \in Entries /\ LineHonest(old, src, shift, at)
  BY LineIs
<1>2. new = [pos |-> [k \in 1 .. HashWidth |-> IF k = 1 THEN Stored(at) ELSE old.pos[k - 1]],
             value |-> [k \in 1 .. HashWidth |-> IF k = 1 THEN x ELSE old.value[k - 1]]]
  BY DEF NewLine
<1>3. /\ at \in Nat /\ shift \in Nat /\ Half \in Nat /\ HashWidth \in Nat \ {0} /\ MaxD \in Nat
      /\ InvalidPos = -4 * MaxD /\ at < 2 * Half
  <2>1. srcEnd <= 2 * Half + Stride
    BY DEF ChunkInv
  <2>2. at + Stride < srcEnd /\ at \in Nat /\ srcEnd \in Nat /\ shift \in Nat
    BY SearchPlace
  <2> QED
    BY <2>1, <2>2, SmallConstants
<1>4. Stored(at) \in Int /\ (at < Half => Stored(at) = at) /\ (at >= Half => Stored(at) < 0)
  BY <1>3 DEF Stored
<1> HIDE DEF old, x
<1>5. ASSUME NEW k \in 1 .. HashWidth
      PROVE  /\ k = 1 => new.pos[k] = Stored(at) /\ new.value[k] = x
             /\ k # 1 => /\ k - 1 \in 1 .. HashWidth
                         /\ new.pos[k] = old.pos[k - 1] /\ new.value[k] = old.value[k - 1]
             /\ new.pos[k] \in Int /\ new.value[k] \in Words
  <2>1. k # 1 => k - 1 \in 1 .. HashWidth
    BY <1>3
  <2>2. k # 1 => old.pos[k - 1] \in Int /\ old.value[k - 1] \in Words
    BY <1>1, <2>1, EntryTypes
  <2>3. new.pos[k] = (IF k = 1 THEN Stored(at) ELSE old.pos[k - 1])
        /\ new.value[k] = (IF k = 1 THEN x ELSE old.value[k - 1])
    BY <1>2
  <2> QED
    BY <1>1, <1>4, <2>1, <2>2, <2>3
<1>6. new \in Entries
  <2>1. \A k \in 1 .. HashWidth :
          /\ (IF k = 1 THEN Stored(at) ELSE old.pos[k - 1]) \in Int
          /\ (IF k = 1 THEN x ELSE old.value[k - 1]) \in Words
    BY <1>2, <1>5
  <2> HIDE DEF new
  <2> QED
    BY <1>2, <2>1 DEF Entries
<1> HIDE DEF new
<1>7. ASSUME NEW k \in 1 .. HashWidth PROVE EntryHonest(new, k, src, shift, at + 1)
  <2>1. CASE k = 1
    <3>1. new.pos[k] = Stored(at) /\ new.value[k] = x
      BY <1>5, <2>1
    <3>2. CASE at < Half
      <4>1. new.pos[k] = at
        BY <1>4, <3>1, <3>2
      <4>2. at >= InvalidPos /\ at < at + 1 /\ shift + at >= 0
        BY <1>3
      <4>3. \A j \in 1 .. Word : new.value[k][j] = src[shift + at + j]
        BY <1>1, <3>1
      <4>4. \A e \in 1 .. k - 1 : new.pos[e] > at
        BY <2>1
      <4> QED
        BY <4>1, <4>2, <4>3, <4>4 DEF EntryHonest
    <3>3. CASE at >= Half
      <4>1. at + 1 > Half /\ new.pos[k] < 0
        BY <1>3, <1>4, <3>1, <3>3
      <4> QED
        BY <4>1 DEF EntryHonest
    <3> QED
      BY <1>3, <3>2, <3>3
  <2>2. CASE k # 1
    <3> DEFINE h == k - 1
               p == old.pos[h]
    <3>1. h \in 1 .. HashWidth /\ new.pos[k] = p /\ new.value[k] = old.value[h]
      BY <1>5, <2>2
    <3>2. p \in Int
      BY <1>1, <3>1, EntryTypes
    <3>3. EntryHonest(old, h, src, shift, at)
      BY <1>1, <3>1 DEF LineHonest
    <3>4. CASE p = InvalidPos
      BY <3>1, <3>4 DEF EntryHonest
    <3>5. CASE at > Half /\ p < 0
      <4>1. at + 1 > Half
        BY <1>3, <3>5
      <4> QED
        BY <3>1, <3>5, <4>1 DEF EntryHonest
    <3>6. CASE /\ p >= InvalidPos /\ p < at /\ shift + p >= 0
               /\ \A j \in 1 .. Word : old.value[h][j] = src[shift + p + j]
               /\ at <= Half => \A e \in 1 .. h - 1 : old.pos[e] > p
      <4>1. p < at + 1
        BY <1>3, <3>2, <3>6
      <4>2. ASSUME at + 1 <= Half, NEW e \in 1 .. k - 1 PROVE new.pos[e] > p
        <5>1. e \in 1 .. HashWidth /\ at < Half
          BY <1>3, <4>2
        <5>2. CASE e = 1
          <6>1. new.pos[e] = at
            BY <1>4, <1>5, <5>1, <5>2
          <6> QED
            BY <1>3, <3>2, <3>6, <6>1
        <5>3. CASE e # 1
          <6>1. e - 1 \in 1 .. h - 1 /\ new.pos[e] = old.pos[e - 1]
            BY <1>5, <4>2, <5>1, <5>3
          <6> QED
            BY <1>3, <3>6, <5>1, <6>1
        <5> QED
          BY <5>2, <5>3
      <4>3. /\ new.pos[k] >= InvalidPos /\ new.pos[k] < at + 1 /\ shift + new.pos[k] >= 0
            /\ \A j \in 1 .. Word : new.value[k][j] = src[shift + new.pos[k] + j]
            /\ at + 1 <= Half => \A e \in 1 .. k - 1 : new.pos[e] > new.pos[k]
        <5> HIDE DEF p, h
        <5> QED
          BY <3>1, <3>6, <4>1, <4>2
      <4> QED
        BY <4>3 DEF EntryHonest
    <3> QED
      BY <3>3, <3>4, <3>5, <3>6 DEF EntryHonest
  <2> QED
    BY <2>1, <2>2
<1> QED
  BY <1>6, <1>7 DEF LineHonest, new

\* lzfse_encode_translate, of a line.
LEMMA LineTranslated ==
  ASSUME NEW line \in Entries, NEW s, NEW sh \in Nat, NEW i \in Nat, LineHonest(line, s, sh, i),
         i <= Half, NEW new,
         new = [line EXCEPT !.pos = [k \in 1 .. HashWidth |-> TranslatedPos(@[k])]]
  PROVE  new \in Entries /\ LineHonest(new, s, sh + Chunk, i - Chunk)
<1>1. Chunk \in Nat /\ Chunk > 0 /\ InvalidPos \in Int /\ Half \in Nat /\ HashWidth \in Nat
  <2>1. MaxD \in Nat /\ InvalidPos = -4 * MaxD /\ Half \in Nat /\ HashWidth \in Nat
    BY SmallConstants
  <2>2. Chunk \in Nat /\ Chunk > Stride /\ Stride \in Nat
    BY SmallConstants
  <2> QED
    BY <2>1, <2>2
<1>2. line = [pos |-> line.pos, value |-> line.value]
  BY DEF Entries
<1>3. new = [pos |-> [k \in 1 .. HashWidth |-> TranslatedPos(line.pos[k])], value |-> line.value]
  BY <1>2
<1>4. ASSUME NEW k \in 1 .. HashWidth
      PROVE  /\ line.pos[k] \in Int /\ TranslatedPos(line.pos[k]) \in Int
             /\ new.pos[k] = TranslatedPos(line.pos[k]) /\ new.value[k] = line.value[k]
             /\ line.pos[k] >= InvalidPos + Chunk => new.pos[k] = line.pos[k] - Chunk
             /\ line.pos[k] < InvalidPos + Chunk => new.pos[k] = InvalidPos
  <2>1. line.pos[k] \in Int
    BY EntryTypes
  <2>2. new.pos[k] = TranslatedPos(line.pos[k]) /\ new.value[k] = line.value[k]
    BY <1>3
  <2> DEFINE p == line.pos[k]
  <2>3. /\ TranslatedPos(p) \in Int
        /\ p >= InvalidPos + Chunk => TranslatedPos(p) = p - Chunk
        /\ p < InvalidPos + Chunk => TranslatedPos(p) = InvalidPos
    <3>1. p \in Int
      BY <2>1
    <3> HIDE DEF p
    <3> QED
      BY <1>1, <3>1 DEF TranslatedPos
  <2> QED
    BY <2>1, <2>2, <2>3
<1>5. new \in Entries
  <2>1. line.value \in [1 .. HashWidth -> Words]
    BY DEF Entries
  <2>2. \A k \in 1 .. HashWidth : TranslatedPos(line.pos[k]) \in Int
    BY <1>4
  <2> QED
    BY <1>3, <2>1, <2>2 DEF Entries
<1>6. ASSUME NEW k \in 1 .. HashWidth PROVE EntryHonest(new, k, s, sh + Chunk, i - Chunk)
  <2> DEFINE p == line.pos[k]
             q == new.pos[k]
  <2>1. p \in Int /\ q \in Int
    BY <1>4
  <2>2. CASE p < InvalidPos + Chunk
    <3>1. q = InvalidPos
      BY <1>4, <2>2
    <3> QED
      BY <3>1 DEF EntryHonest
  <2>3. CASE p >= InvalidPos + Chunk
    <3>1. q = p - Chunk
      BY <1>4, <2>3
    <3>2. p # InvalidPos /\ ~(i > Half)
      BY <1>1, <2>1, <2>3
    <3>3. /\ p < i /\ sh + p >= 0
          /\ \A j \in 1 .. Word : line.value[k][j] = s[sh + p + j]
          /\ \A e \in 1 .. k - 1 : line.pos[e] > p
      BY <3>2 DEF LineHonest, EntryHonest
    <3> HIDE DEF p, q
    <3>4. q >= InvalidPos /\ q < i - Chunk /\ (sh + Chunk) + q >= 0
      <4>1. p >= InvalidPos + Chunk /\ p < i /\ sh + p >= 0 /\ q = p - Chunk
        BY <2>3, <3>1, <3>3 DEF p
      <4>2. q >= InvalidPos
        BY <1>1, <2>1, <4>1
      <4>3. q < i - Chunk
        BY <1>1, <2>1, <4>1
      <4>4. (sh + Chunk) + q >= 0
        BY <1>1, <2>1, <4>1
      <4> QED
        BY <4>2, <4>3, <4>4
    <3>5. ASSUME NEW j \in 1 .. Word PROVE new.value[k][j] = s[(sh + Chunk) + q + j]
      <4>1. (sh + Chunk) + q + j = sh + p + j
        BY <1>1, <2>1, <3>1
      <4> QED
        BY <1>4, <3>3, <4>1
    <3>6. ASSUME NEW e \in 1 .. k - 1 PROVE new.pos[e] > q
      <4> DEFINE u == line.pos[e]
                 v == new.pos[e]
      <4>1. e \in 1 .. HashWidth
        BY <1>1
      <4>2. /\ u \in Int /\ u > p
            /\ u >= InvalidPos + Chunk => v = u - Chunk
        BY <1>4, <3>3, <4>1
      <4>g. p >= InvalidPos + Chunk /\ q = p - Chunk
        BY <2>3, <3>1 DEF p
      <4> HIDE DEF u, v
      <4>3. v > q
        <5>1. u >= InvalidPos + Chunk
          BY <1>1, <2>1, <4>2, <4>g
        <5> QED
          BY <1>1, <2>1, <4>2, <4>g, <5>1
      <4> QED
        BY <4>3 DEF v
    <3> QED
      BY <3>4, <3>5, <3>6 DEF EntryHonest, q
  <2> QED
    BY <1>1, <2>1, <2>2, <2>3
<1> QED
  BY <1>5, <1>6 DEF LineHonest

\* A match found at i may be emitted at a later position, too.
LEMMA HonestLater ==
  ASSUME NEW m, NEW s, NEW sh \in Nat, NEW f \in Int, NEW i \in Int, NEW i1 \in Int, NEW e \in Int, NEW e1 \in Int,
         Honest(m, s, sh, f, i, e), i <= i1, e <= e1
  PROVE  Honest(m, s, sh, f, i1, e1)
<1>1. m \in Match /\ m.pos <= i /\ m.pos + m.length <= e
  BY DEF Honest
<1>2. m.pos \in Int /\ m.length \in Nat
  BY <1>1, MatchTypes
<1>3. m.pos <= i1 /\ m.pos + m.length <= e1
  <2> DEFINE p == m.pos
             t == m.pos + m.length
  <2>1. p \in Int /\ t \in Int /\ p <= i /\ t <= e
    BY <1>1, <1>2
  <2> HIDE DEF p, t
  <2>2. p <= i1 /\ t <= e1
    BY <2>1
  <2> QED
    BY <2>2 DEF p, t
<1> QED
  BY <1>3 DEF Honest

\* lzfse_encode_translate, of a match.
LEMMA HonestTranslated ==
  ASSUME NEW m, NEW s, NEW sh \in Nat, NEW f \in Int, NEW i \in Int, NEW e \in Int, Honest(m, s, sh, f, i, e)
  PROVE  Honest(TranslatedMatch(m), s, sh + Chunk, f - Chunk, i - Chunk, e - Chunk)
<1> DEFINE p == m.pos
           r == m.ref
           n == m.length
           t == TranslatedMatch(m)
<1>1. /\ m \in Match /\ f <= p /\ p <= i /\ p + n <= e /\ n >= Word /\ n <= MaxMatch + MaxLag + 2
      /\ p - r \in 1 .. MaxD /\ sh + r >= 0
      /\ \A k \in 1 .. n : s[sh + p + k] = s[sh + r + k]
  BY DEF Honest
<1>2. p \in Int /\ r \in Int /\ n \in Nat /\ Chunk \in Nat
  BY <1>1, MatchTypes, SmallConstants
<1>3. t = [pos |-> p - Chunk, ref |-> r - Chunk, length |-> n]
  <2>1. m = [pos |-> p, ref |-> r, length |-> n]
    BY <1>1 DEF Match
  <2>2. t = [m EXCEPT !.pos = @ - Chunk, !.ref = @ - Chunk]
    BY DEF TranslatedMatch
  <2> HIDE DEF p, r, n
  <2> QED
    BY <2>1, <2>2
<1> HIDE DEF p, r, n, t
<1>4. t \in Match /\ t.pos = p - Chunk /\ t.ref = r - Chunk /\ t.length = n
  BY <1>2, <1>3 DEF Match
<1>5. /\ f - Chunk <= p - Chunk /\ p - Chunk <= i - Chunk /\ (p - Chunk) + n <= e - Chunk
      /\ (p - Chunk) - (r - Chunk) = p - r /\ (sh + Chunk) + (r - Chunk) = sh + r
      /\ (sh + Chunk) + (p - Chunk) = sh + p
  BY <1>1, <1>2
<1>6. \A k \in 1 .. t.length : s[(sh + Chunk) + t.pos + k] = s[(sh + Chunk) + t.ref + k]
  BY <1>1, <1>4, <1>5
<1>7. Honest(t, s, sh + Chunk, f - Chunk, i - Chunk, e - Chunk)
  BY <1>1, <1>4, <1>5, <1>6 DEF Honest
<1> QED
  BY <1>7 DEF t

-----------------------------------------------------------------------------
(* The invariant is inductive.                                              *)

\* An empty line is honest, everywhere in every source.
LEMMA EmptyLineHonest ==
  ASSUME NEW s, NEW sh, NEW i
  PROVE  EmptyLine \in Entries /\ LineHonest(EmptyLine, s, sh, i)
<1> DEFINE line == EmptyLine
<1>1. line = [pos |-> [k \in 1 .. HashWidth |-> InvalidPos],
              value |-> [k \in 1 .. HashWidth |-> [j \in 1 .. Word |-> 0]]]
  BY DEF EmptyLine
<1>2. InvalidPos \in Int /\ [j \in 1 .. Word |-> 0] \in Words
  BY SmallConstants DEF Words
<1> HIDE DEF line
<1>3. line \in Entries
  BY <1>1, <1>2 DEF Entries
<1>4. ASSUME NEW k \in 1 .. HashWidth PROVE EntryHonest(line, k, s, sh, i)
  BY <1>1 DEF EntryHonest
<1> QED
  BY <1>3, <1>4 DEF LineHonest, line

\* The invariant holds at first.
LEMMA InitInv == Init => Inv
<1> SUFFICES ASSUME Init PROVE Inv
  OBVIOUS
<1> DEFINE N == Len(src)
<1>1. /\ pc = "encode" /\ shift = 0 /\ left = N /\ at = 0 /\ literal = 0 /\ pending = NoMatch
      /\ phase = (IF N >= Huge THEN "first" ELSE "last")
      /\ srcEnd = (IF N >= Huge THEN Chunk ELSE N)
      /\ lmds = <<>> /\ lits = <<>> /\ out = <<>> /\ why = "none"
      /\ table = [l \in Lines |-> EmptyLine] /\ src \in Seq(Byte)
  BY WordAssumption DEF Init
<1>2. /\ Chunk \in Nat /\ Huge \in Nat /\ Huge >= 2 * Chunk /\ Huge <= 2 * Half /\ Half \in Nat
      /\ 2 * Chunk <= Half + Stride /\ Stride \in Nat /\ MaxLag \in Nat
  BY SmallConstants
<1>3. N \in Nat
  BY <1>1
<1>4. pending \in Match /\ pending.length = 0
  BY <1>1 DEF NoMatch, Match
<1>5. table \in [Lines -> Entries] /\ HistoryInv
  BY <1>1, EmptyLineHonest DEF HistoryInv
<1> HIDE DEF N
<1>6. TypeInv
  <2>1. left \in Nat /\ srcEnd \in Nat /\ at \in Nat /\ literal \in Int /\ shift \in Nat
    BY <1>1, <1>2, <1>3
  <2>2. phase \in {"first", "middle", "last"}
    BY <1>1
  <2> QED
    BY <1>1, <1>4, <1>5, <2>1, <2>2 DEF TypeInv
<1>7. ChunkInv
  <2>1. CASE N >= Huge
    <3>1. phase = "first" /\ srcEnd = Chunk
      BY <1>1, <2>1
    <3>2. shift + srcEnd <= N /\ srcEnd <= 2 * Half + Stride /\ shift + literal >= 0 /\ literal <= srcEnd
      BY <1>1, <1>2, <1>3, <2>1, <3>1
    <3> QED
      BY <1>1, <2>1, <3>1, <3>2 DEF ChunkInv, N
  <2>2. CASE ~(N >= Huge)
    <3>1. phase = "last" /\ srcEnd = N
      BY <1>1, <2>2
    <3>2. shift + srcEnd = N /\ shift + srcEnd <= N /\ srcEnd <= 2 * Half + Stride
          /\ shift + literal >= 0 /\ literal <= srcEnd
      BY <1>1, <1>2, <1>3, <2>2, <3>1
    <3> QED
      BY <1>1, <3>1, <3>2 DEF ChunkInv, N
  <2> QED
    BY <2>1, <2>2
<1>8. PendingInv
  BY <1>4 DEF PendingInv
<1>9. LagInv
  BY <1>1, <1>2 DEF LagInv
<1>10. EndInv
  BY <1>1 DEF EndInv
<1>11. BackInv
  <2>1. shift + literal = 0
    BY <1>1
  <2>2. BackSound(src, <<>>, <<>>, <<>>, 0)
    BY <1>1, NothingStored
  <2> QED
    BY <1>1, <2>1, <2>2 DEF BackInv
<1> QED
  BY <1>5, <1>6, <1>7, <1>8, <1>9, <1>10, <1>11 DEF Inv

\* The next position of the search.
LEMMA Moved ==
  ASSUME Inv, Searching, NextPosition, pending' \in Match, literal' \in Int,
         literal <= literal', literal' <= srcEnd,
         BackSound(src, out', lmds', lits', shift + literal')
  PROVE  TypeInv' /\ ChunkInv' /\ HistoryInv' /\ EndInv' /\ BackInv'
<1>1. /\ pc' = pc /\ src' = src /\ shift' = shift /\ phase' = phase /\ left' = left /\ srcEnd' = srcEnd
      /\ why' = why /\ at' = at + 1 /\ table' = [table EXCEPT ![HashOf[WordAt(at)]] = NewLine]
  BY DEF NextPosition, chunkVars
<1>2. TypeInv /\ ChunkInv /\ HistoryInv /\ EndInv /\ BackInv
  BY DEF Inv
<1>3. HashOf[WordAt(at)] \in Lines /\ NewLine \in Entries /\ LineHonest(NewLine, src, shift, at + 1)
  BY <1>2, LineIs, NewLineHonest
<1>4. table \in [Lines -> Entries]
  BY <1>2 DEF TypeInv
<1>5. at \in Nat /\ shift \in Nat /\ srcEnd \in Nat /\ at + Stride < srcEnd /\ Stride \in Nat /\ literal \in Int
  BY <1>2, SearchPlace DEF TypeInv
<1>6. ASSUME NEW l \in Lines
      PROVE  table'[l] \in Entries /\ LineHonest(table'[l], src, shift, at + 1)
  <2>1. CASE l = HashOf[WordAt(at)]
    <3>1. table'[l] = NewLine
      BY <1>1, <1>4, <2>1
    <3> QED
      BY <1>3, <3>1
  <2>2. CASE l # HashOf[WordAt(at)]
    <3>1. table'[l] = table[l]
      BY <1>1, <1>4, <2>2
    <3>2. table[l] \in Entries /\ LineHonest(table[l], src, shift, at)
      BY <1>2, <1>4 DEF HistoryInv
    <3> QED
      BY <1>5, <3>1, <3>2, LineLater
  <2> QED
    BY <2>1, <2>2
<1>7. table' \in [Lines -> Entries]
  BY <1>1, <1>3, <1>4
<1>8. HistoryInv'
  BY <1>1, <1>6 DEF HistoryInv
<1>9. TypeInv'
  <2>1. at' \in Nat
    BY <1>1, <1>5
  <2> QED
    BY <1>1, <1>2, <1>7, <2>1 DEF TypeInv
<1>10. ChunkInv'
  <2>1. at' + Stride <= srcEnd
    BY <1>1, <1>5
  <2>2. shift + literal' >= 0
    <3> DEFINE n == literal'
    <3>1. shift + literal >= 0 /\ literal <= n /\ n \in Int
      BY <1>2 DEF ChunkInv
    <3> HIDE DEF n
    <3>2. shift + n >= 0
      BY <1>5, <3>1
    <3> QED
      BY <3>2 DEF n
  <2> QED
    BY <1>1, <1>2, <2>1, <2>2 DEF ChunkInv
<1>11. EndInv'
  <2>1. pc = "encode"
    BY DEF Searching
  <2> QED
    BY <1>1, <1>2, <2>1 DEF EndInv
<1>12. BackInv'
  BY <1>1 DEF BackInv
<1> QED
  BY <1>8, <1>9, <1>10, <1>11, <1>12

\* The values the arithmetic of the search is about.
LEMMA SearchValues ==
  ASSUME Inv, Uncovered
  PROVE  /\ at \in Nat /\ literal \in Int /\ srcEnd \in Nat /\ shift \in Nat /\ at + Stride < srcEnd /\ at >= literal
         /\ at - literal <= MaxLag + 2 /\ (pending.length = 0 => at - literal <= MaxLag + 1)
         /\ pc = "encode" /\ pending \in Match /\ pending.length \in Nat
<1>1. TypeInv /\ ChunkInv /\ LagInv /\ Searching /\ at >= literal /\ pc = "encode"
  BY DEF Inv, Uncovered, Searching
<1>2. /\ at \in Nat /\ literal \in Int /\ srcEnd \in Nat /\ shift \in Nat /\ at + Stride < srcEnd
      /\ pending \in Match /\ pending.length \in Nat
  BY <1>1, SearchPlace, MatchTypes DEF TypeInv
<1>3. at - literal <= MaxLag + 1 \/ (pending.length > 0 /\ at - literal <= MaxLag + 2)
  BY <1>1 DEF LagInv
<1> DEFINE n == pending.length
<1>4. n \in Nat /\ (at - literal <= MaxLag + 1 \/ (n > 0 /\ at - literal <= MaxLag + 2))
  BY <1>2, <1>3
<1> HIDE DEF n
<1>5. at - literal <= MaxLag + 2 /\ (n = 0 => at - literal <= MaxLag + 1)
  BY <1>2, <1>4, SmallConstants
<1> QED
  BY <1>1, <1>2, <1>5 DEF n

\* Taking a match the search found.
LEMMA MatchTaken ==
  ASSUME Inv, pc \in {"encode", "pending", "literals"}, NEW m, Honest(m, src, shift, literal, at, srcEnd),
         Taken(m), src' = src
  PROVE  /\ literal' = m.pos + m.length /\ literal' \in Int
         /\ literal + 2 <= literal' /\ literal' <= srcEnd
         /\ BackSound(src, out', lmds', lits', shift + literal')
<1>1. TypeInv /\ ChunkInv /\ LagInv /\ BackInv
  BY DEF Inv
<1>2. Offered(m)
  BY <1>1, HonestOffered
<1>3. literal' = m.pos + m.length /\ literal' \in Int /\ BackSound(src, out', lmds', lits', shift + literal')
  BY <1>1, <1>2, TakenKeeps
<1>4. m \in Match /\ literal <= m.pos /\ m.pos + m.length <= srcEnd /\ m.length >= Word
  BY DEF Honest
<1> DEFINE p == m.pos
           n == m.length
<1>5. p \in Int /\ n \in Nat /\ literal \in Int /\ literal <= p /\ n >= Word
  BY <1>1, <1>4, MatchTypes DEF TypeInv
<1> HIDE DEF p, n
<1>6. literal + 2 <= p + n
  BY <1>5, SmallConstants
<1> QED
  BY <1>3, <1>4, <1>6 DEF p, n

\* No match is a match of length 0.
LEMMA NoMatchIs == NoMatch \in Match /\ NoMatch.length = 0
BY DEF NoMatch, Match

\* One match taken, and the search goes on with nothing, or a match that lies
\* behind it, kept back.
LEMMA SearchTakes ==
  ASSUME Inv, Uncovered, NEW m, Honest(m, src, shift, literal, at, srcEnd), Taken(m), NextPosition,
         pending' \in Match,
         pending'.length > 0 => Honest(pending', src, shift, literal', at, srcEnd)
  PROVE  Inv'
<1>1. /\ src' = src /\ shift' = shift /\ srcEnd' = srcEnd /\ at' = at + 1
  BY DEF NextPosition, chunkVars
<1>2. /\ at \in Nat /\ literal \in Int /\ srcEnd \in Nat /\ shift \in Nat /\ at - literal <= MaxLag + 2
      /\ pc = "encode"
  BY SearchValues
<1>3. /\ literal' \in Int /\ literal + 2 <= literal' /\ literal' <= srcEnd
      /\ BackSound(src, out', lmds', lits', shift + literal')
  BY <1>1, <1>2, MatchTaken
<1>4. literal <= literal' /\ at + 1 - literal' <= MaxLag + 1
  <2> DEFINE n == literal'
  <2>1. n \in Int /\ literal + 2 <= n
    BY <1>3
  <2> HIDE DEF n
  <2>2. literal <= n /\ at + 1 - n <= MaxLag + 1
    BY <1>2, <2>1, SmallConstants
  <2> QED
    BY <2>2 DEF n
<1>5. TypeInv' /\ ChunkInv' /\ HistoryInv' /\ EndInv' /\ BackInv'
  BY <1>3, <1>4, Moved DEF Uncovered
<1>6. LagInv'
  <2> DEFINE n == literal'
             a == at'
  <2>1. a = at + 1 /\ at + 1 - n <= MaxLag + 1 /\ n \in Int
    BY <1>1, <1>3, <1>4
  <2> HIDE DEF n, a
  <2>2. a - n <= MaxLag + 1
    BY <1>2, <2>1, SmallConstants
  <2> QED
    BY <2>2 DEF LagInv, n, a
<1>7. PendingInv'
  <2> SUFFICES ASSUME pending'.length > 0 PROVE Honest(pending', src, shift, literal', at + 1, srcEnd)
    BY <1>1 DEF PendingInv
  <2>1. at + 1 \in Int /\ at <= at + 1 /\ srcEnd <= srcEnd
    BY <1>2
  <2> QED
    BY <1>2, <1>3, <2>1, HonestLater
<1> QED
  BY <1>5, <1>6, <1>7 DEF Inv

\* The search passes a position that is covered.
LEMMA CoveredInv ==
  ASSUME Inv, Covered
  PROVE  Inv'
<1>1. Searching /\ at < literal /\ NextPosition /\ UNCHANGED <<pending, backVars>>
  BY DEF Covered
<1>2. TypeInv /\ ChunkInv /\ PendingInv /\ BackInv
  BY DEF Inv
<1>3. /\ src' = src /\ shift' = shift /\ srcEnd' = srcEnd /\ at' = at + 1 /\ pending' = pending
      /\ literal' = literal /\ lmds' = lmds /\ lits' = lits /\ out' = out
  BY <1>1 DEF NextPosition, chunkVars, backVars
<1>4. at \in Nat /\ shift \in Nat /\ srcEnd \in Nat /\ literal \in Int /\ pending \in Match /\ literal <= srcEnd
  BY <1>2 DEF TypeInv, ChunkInv
<1>5. TypeInv' /\ ChunkInv' /\ HistoryInv' /\ EndInv' /\ BackInv'
  <2>1. literal <= literal' /\ literal' <= srcEnd /\ literal' \in Int /\ pending' \in Match
    BY <1>3, <1>4
  <2>2. BackSound(src, out', lmds', lits', shift + literal')
    BY <1>2, <1>3 DEF BackInv
  <2> QED
    BY <1>1, <2>1, <2>2, Moved
<1>6. LagInv'
  <2>1. at' - literal' <= MaxLag + 1
    BY <1>1, <1>3, <1>4, SmallConstants
  <2> QED
    BY <2>1 DEF LagInv
<1>7. PendingInv'
  <2> SUFFICES ASSUME pending.length > 0 PROVE Honest(pending, src, shift, literal, at + 1, srcEnd)
    BY <1>3 DEF PendingInv
  <2>1. at + 1 \in Int /\ at <= at + 1 /\ srcEnd <= srcEnd
    BY <1>4
  <2> QED
    BY <1>2, <1>4, <2>1, HonestLater DEF PendingInv
<1> QED
  BY <1>5, <1>6, <1>7 DEF Inv

\* The search passes a position where nothing matches.
LEMMA NoIncomingInv ==
  ASSUME Inv, NoIncoming
  PROVE  Inv'
<1>1. Uncovered /\ Searching /\ ~Lagging /\ NextPosition /\ UNCHANGED <<pending, backVars>>
  BY DEF NoIncoming, Uncovered
<1>2. TypeInv /\ ChunkInv /\ PendingInv /\ BackInv
  BY DEF Inv
<1>3. /\ src' = src /\ shift' = shift /\ srcEnd' = srcEnd /\ at' = at + 1 /\ pending' = pending
      /\ literal' = literal /\ lmds' = lmds /\ lits' = lits /\ out' = out
  BY <1>1 DEF NextPosition, chunkVars, backVars
<1>4. at \in Nat /\ shift \in Nat /\ srcEnd \in Nat /\ literal \in Int /\ pending \in Match /\ literal <= srcEnd
  BY <1>2 DEF TypeInv, ChunkInv
<1>5. TypeInv' /\ ChunkInv' /\ HistoryInv' /\ EndInv' /\ BackInv'
  <2>1. literal <= literal' /\ literal' <= srcEnd /\ literal' \in Int /\ pending' \in Match
    BY <1>3, <1>4
  <2>2. BackSound(src, out', lmds', lits', shift + literal')
    BY <1>2, <1>3 DEF BackInv
  <2> QED
    BY <1>1, <2>1, <2>2, Moved
<1>6. LagInv'
  <2>1. at - literal <= MaxLag
    BY <1>1, <1>4, SmallConstants DEF Lagging
  <2>2. at' - literal' <= MaxLag + 1
    BY <1>3, <1>4, <2>1, SmallConstants
  <2> QED
    BY <2>2 DEF LagInv
<1>7. PendingInv'
  <2> SUFFICES ASSUME pending.length > 0 PROVE Honest(pending, src, shift, literal, at + 1, srcEnd)
    BY <1>3 DEF PendingInv
  <2>1. at + 1 \in Int /\ at <= at + 1 /\ srcEnd <= srcEnd
    BY <1>4
  <2> QED
    BY <1>2, <1>4, <2>1, HonestLater DEF PendingInv
<1> QED
  BY <1>5, <1>6, <1>7 DEF Inv

\* The match kept back is emitted because literals build up.
LEMMA CatchUpPendingInv ==
  ASSUME Inv, CatchUpPending
  PROVE  Inv'
<1>1. Uncovered /\ pending.length > 0 /\ Taken(pending) /\ pending' = NoMatch /\ NextPosition
  BY DEF CatchUpPending, AfterPending
<1>2. Honest(pending, src, shift, literal, at, srcEnd)
  BY <1>1 DEF Inv, PendingInv
<1> QED
  BY <1>1, <1>2, SearchTakes, NoMatchIs

\* Literals are emitted because they build up.
LEMMA CatchUpLiteralsInv ==
  ASSUME Inv, CatchUpLiterals
  PROVE  Inv'
<1>1. Uncovered /\ Lagging /\ pending.length = 0 /\ Taken(LiteralRun(MaxL)) /\ pending' = pending /\ NextPosition
  BY DEF CatchUpLiterals
<1>2. TypeInv /\ ChunkInv /\ BackInv
  BY DEF Inv
<1>3. /\ src' = src /\ at' = at + 1
  BY <1>1 DEF NextPosition, chunkVars
<1>4. /\ at \in Nat /\ literal \in Int /\ srcEnd \in Nat /\ at + Stride < srcEnd /\ at - literal <= MaxLag + 1
      /\ pending \in Match
  BY <1>1, SearchValues
<1>5. MaxL \in Nat /\ MaxL > 0 /\ MaxL <= MaxLag /\ MaxLag \in Nat /\ Stride \in Nat
  BY SmallConstants
<1>6. literal + MaxL <= srcEnd /\ MaxL <= MaxLag + 2 + Stride /\ at + 1 - (literal + MaxL) <= MaxLag + 1
  BY <1>1, <1>4, <1>5 DEF Lagging
<1>7. Offered(LiteralRun(MaxL)) /\ LiteralRun(MaxL).length = 0 /\ LiteralRun(MaxL).pos = literal + MaxL
  BY <1>2, <1>5, <1>6, RunOffered
<1>8. /\ literal' = literal + MaxL + 0 /\ BackSound(src, out', lmds', lits', shift + literal')
  BY <1>1, <1>2, <1>3, <1>7, TakenKeeps
<1>9. literal' = literal + MaxL /\ literal' \in Int /\ literal <= literal'
  BY <1>4, <1>5, <1>8
<1>10. TypeInv' /\ ChunkInv' /\ HistoryInv' /\ EndInv' /\ BackInv'
  <2>1. literal' <= srcEnd /\ pending' \in Match
    BY <1>1, <1>4, <1>6, <1>9
  <2> QED
    BY <1>1, <1>8, <1>9, <2>1, Moved DEF Uncovered
<1>11. LagInv'
  <2> DEFINE n == literal'
             a == at'
  <2>1. a = at + 1 /\ n = literal + MaxL
    BY <1>3, <1>6, <1>9
  <2> HIDE DEF n, a
  <2>2. a - n <= MaxLag + 1
    BY <1>4, <1>5, <1>6, <2>1
  <2> QED
    BY <2>2 DEF LagInv, n, a
<1>12. PendingInv'
  <2>1. ~(pending'.length > 0)
    BY <1>1
  <2> QED
    BY <2>1 DEF PendingInv
<1> QED
  BY <1>10, <1>11, <1>12 DEF Inv

\* What was found may be emitted.
LEMMA FoundHonest ==
  ASSUME Inv, Found
  PROVE  Uncovered /\ Honest(Incoming, src, shift, literal, at, srcEnd) /\ Incoming \in Match
<1>1. Honest(Incoming, src, shift, literal, at, srcEnd)
  BY IncomingHonest DEF Inv
<1> QED
  BY <1>1 DEF Found, Honest

\* A good match is emitted at once; the one kept back is dropped.
LEMMA TakeGoodInv ==
  ASSUME Inv, TakeGood
  PROVE  Inv'
<1>1. Found /\ Taken(Incoming) /\ pending' = NoMatch /\ NextPosition
  BY DEF TakeGood
<1> QED
  BY <1>1, FoundHonest, SearchTakes, NoMatchIs

\* A match is kept back.
LEMMA KeepIncomingInv ==
  ASSUME Inv, KeepIncoming
  PROVE  Inv'
<1> DEFINE m == Incoming
<1>1. Found /\ Searching /\ pending.length = 0 /\ pending' = m /\ NextPosition /\ UNCHANGED backVars
  BY DEF KeepIncoming, Found, Uncovered
<1>2. TypeInv /\ ChunkInv /\ BackInv
  BY DEF Inv
<1>3. Uncovered /\ Honest(m, src, shift, literal, at, srcEnd) /\ m \in Match
  BY <1>1, FoundHonest
<1> HIDE DEF m
<1>4. /\ src' = src /\ shift' = shift /\ srcEnd' = srcEnd /\ at' = at + 1
      /\ literal' = literal /\ lmds' = lmds /\ lits' = lits /\ out' = out
  BY <1>1 DEF NextPosition, chunkVars, backVars
<1>5. at \in Nat /\ shift \in Nat /\ srcEnd \in Nat /\ literal \in Int /\ literal <= srcEnd
  BY <1>2 DEF TypeInv, ChunkInv
<1>6. TypeInv' /\ ChunkInv' /\ HistoryInv' /\ EndInv' /\ BackInv'
  <2>1. literal <= literal' /\ literal' <= srcEnd /\ literal' \in Int /\ pending' \in Match
    BY <1>1, <1>3, <1>4, <1>5
  <2>2. BackSound(src, out', lmds', lits', shift + literal')
    BY <1>2, <1>4 DEF BackInv
  <2> QED
    BY <1>1, <2>1, <2>2, Moved
<1>7. m.length > 0
  <2> DEFINE n == m.length
  <2>1. n \in Nat /\ n >= Word
    BY <1>3, MatchTypes DEF Honest
  <2> HIDE DEF n
  <2>2. n > 0
    BY <2>1, SmallConstants
  <2> QED
    BY <2>2 DEF n
<1>8. LagInv'
  <2>1. at - literal <= MaxLag + 1
    BY <1>1, <1>3, SearchValues
  <2>2. at + 1 - literal <= MaxLag + 2
    BY <1>5, <2>1, SmallConstants
  <2>3. pending'.length > 0
    BY <1>1, <1>7
  <2>4. at' - literal' <= MaxLag + 2
    <3> DEFINE n == literal'
               a == at'
    <3>1. a = at + 1 /\ n = literal
      BY <1>4
    <3> HIDE DEF n, a
    <3>2. a - n <= MaxLag + 2
      BY <1>5, <2>2, <3>1
    <3> QED
      BY <3>2 DEF n, a
  <2> QED
    BY <2>3, <2>4 DEF LagInv
<1>9. PendingInv'
  <2>1. at + 1 \in Int /\ at <= at + 1 /\ srcEnd <= srcEnd
    BY <1>5
  <2>2. Honest(m, src, shift, literal, at + 1, srcEnd)
    BY <1>3, <1>5, <2>1, HonestLater
  <2> QED
    BY <1>1, <1>4, <2>2 DEF PendingInv
<1> QED
  BY <1>6, <1>8, <1>9 DEF Inv

\* The match kept back is emitted, and the one behind it kept back.
LEMMA TakePendingInv ==
  ASSUME Inv, TakePending
  PROVE  Inv'
<1> DEFINE m == Incoming
<1>1. Found /\ pending.length > 0 /\ pending.pos + pending.length <= m.pos
      /\ Taken(pending) /\ pending' = m /\ NextPosition
  BY DEF TakePending, Apart
<1>2. Uncovered /\ Honest(m, src, shift, literal, at, srcEnd) /\ m \in Match
  BY <1>1, FoundHonest
<1> HIDE DEF m
<1>3. Honest(pending, src, shift, literal, at, srcEnd)
  BY <1>1 DEF Inv, PendingInv
<1>4. src' = src /\ pc = "encode"
  BY <1>1, <1>2, SearchValues DEF NextPosition, chunkVars
<1>5. literal' = pending.pos + pending.length
  BY <1>1, <1>3, <1>4, MatchTaken
<1>6. Honest(m, src, shift, literal', at, srcEnd)
  BY <1>1, <1>2, <1>5 DEF Honest
<1> QED
  BY <1>1, <1>2, <1>3, <1>6, SearchTakes

\* The longer of two matches that overlap is emitted.
LEMMA TakeLongerInv ==
  ASSUME Inv, TakeLonger
  PROVE  Inv'
<1>1. Found /\ pending.length > 0 /\ Taken(Longer) /\ pending' = NoMatch /\ NextPosition
  BY DEF TakeLonger
<1>2. Uncovered /\ Honest(Incoming, src, shift, literal, at, srcEnd)
  BY <1>1, FoundHonest
<1>3. Honest(pending, src, shift, literal, at, srcEnd)
  BY <1>1 DEF Inv, PendingInv
<1>4. Honest(Longer, src, shift, literal, at, srcEnd)
  BY <1>2, <1>3 DEF Longer
<1> QED
  BY <1>1, <1>2, <1>4, SearchTakes, NoMatchIs

-----------------------------------------------------------------------------
(* Giving up.                                                               *)

\* The encoder has given up; what is stored and held still tells what it told.
LEMMA GivenUp ==
  ASSUME Inv, UNCHANGED <<chunkVars, at, pending, table>>, pc' = "failed", why' = "dst", literal' = literal,
         BackSound(src, out', lmds', lits', shift + literal)
  PROVE  Inv'
<1>1. /\ src' = src /\ shift' = shift /\ phase' = phase /\ left' = left /\ srcEnd' = srcEnd
      /\ at' = at /\ pending' = pending /\ table' = table
  BY DEF chunkVars
<1>2. TypeInv /\ ChunkInv /\ HistoryInv /\ PendingInv /\ BackInv
  BY DEF Inv
<1>3. TypeInv'
  BY <1>1, <1>2 DEF TypeInv
<1>4. ChunkInv'
  BY <1>1, <1>2 DEF ChunkInv
<1>5. HistoryInv'
  BY <1>1, <1>2 DEF HistoryInv
<1>6. PendingInv'
  BY <1>1, <1>2 DEF PendingInv
<1>7. LagInv'
  BY DEF LagInv
<1>8. EndInv'
  BY DEF EndInv
<1>9. BackInv'
  BY <1>1 DEF BackInv
<1> QED
  BY <1>3, <1>4, <1>5, <1>6, <1>7, <1>8, <1>9 DEF Inv

\* The literals emitted because they build up may be handed to the back end.
LEMMA RunWanted ==
  ASSUME Inv, Uncovered, Lagging, pending.length = 0
  PROVE  Offered(LiteralRun(MaxL))
<1>1. TypeInv /\ ChunkInv
  BY DEF Inv
<1>2. /\ at \in Nat /\ literal \in Int /\ srcEnd \in Nat /\ at + Stride < srcEnd
  BY SearchValues
<1>3. MaxL \in Nat /\ MaxL > 0 /\ MaxL <= MaxLag /\ MaxLag \in Nat /\ Stride \in Nat
  BY SmallConstants
<1>4. literal + MaxL <= srcEnd /\ MaxL <= MaxLag + 2 + Stride
  BY <1>2, <1>3 DEF Lagging
<1> QED
  BY <1>1, <1>3, <1>4, RunOffered

\* Whatever the search wants to hand to the back end may be handed to it.
LEMMA WantedOffered ==
  ASSUME Inv, Uncovered, NEW m \in Wanted
  PROVE  Offered(m)
<1>1. TypeInv /\ ChunkInv /\ LagInv
  BY DEF Inv
<1>2. pc = "encode" /\ pending.length \in Nat
  BY SearchValues
<1>3. ASSUME Honest(m, src, shift, literal, at, srcEnd) PROVE Offered(m)
  BY <1>1, <1>2, <1>3, HonestOffered
<1>4. CASE m = pending /\ pending.length > 0
  <2>1. Honest(m, src, shift, literal, at, srcEnd)
    BY <1>4 DEF Inv, PendingInv
  <2> QED
    BY <1>3, <2>1
<1>5. CASE m = Incoming /\ Found
  BY <1>3, <1>5, FoundHonest
<1>6. CASE m = LiteralRun(MaxL) /\ Lagging /\ pending.length = 0
  BY <1>6, RunWanted
<1>7. \/ m = pending /\ pending.length > 0
      \/ m = Incoming /\ Found
      \/ m = LiteralRun(MaxL) /\ Lagging /\ pending.length = 0
  <2> DEFINE n == pending.length
             run == LiteralRun(MaxL)
             in == Incoming
  <2>1. m \in (IF Candidates = {}
               THEN IF ~Lagging THEN {} ELSE {IF n > 0 THEN pending ELSE run}
               ELSE IF Good THEN {in}
               ELSE IF n = 0 THEN {}
               ELSE {IF Apart THEN pending ELSE Longer})
    BY DEF Wanted
  <2>2. Longer = in \/ Longer = pending
    BY DEF Longer
  <2>3. Found <=> Candidates # {}
    BY DEF Found
  <2>4. n > 0 <=> n # 0
    <3>1. n \in Nat
      BY <1>2
    <3> HIDE DEF n
    <3> QED
      BY <3>1
  <2> HIDE DEF n, run, in
  <2>5. \/ m = pending /\ n > 0
        \/ m = in /\ Found
        \/ m = run /\ Lagging /\ n = 0
    BY <2>1, <2>2, <2>3, <2>4
  <2> QED
    BY <2>5 DEF n, run, in
<1> QED
  BY <1>4, <1>5, <1>6, <1>7

\* A match that was not taken.
LEMMA NotTakenInv ==
  ASSUME Inv, NEW m, Offered(m), NotTaken(m), UNCHANGED <<chunkVars, at, pending, table>>
  PROVE  Inv'
<1>1. TypeInv /\ ChunkInv /\ BackInv
  BY DEF Inv
<1>2. /\ pc' = "failed" /\ why' = "dst"
      /\ lmds' = lmds /\ lits' = lits /\ literal' = literal /\ out' = out
  BY <1>1, NotTakenKeeps
<1>3. BackSound(src, out', lmds', lits', shift + literal)
  BY <1>1, <1>2 DEF BackInv
<1> QED
  BY <1>2, <1>3, GivenUp

\* The search fails.
LEMMA SearchFailsInv ==
  ASSUME Inv, SearchFails
  PROVE  Inv'
<1>1. PICK m \in Wanted : NotTaken(m)
  BY DEF SearchFails
<1>2. Uncovered /\ UNCHANGED <<chunkVars, at, pending, table>>
  BY DEF SearchFails
<1>3. Offered(m)
  BY <1>2, WantedOffered
<1> QED
  BY <1>1, <1>2, <1>3, NotTakenInv

-----------------------------------------------------------------------------
(* The chunks.                                                              *)

\* The values the arithmetic of the chunks is about.
LEMMA ChunkValues ==
  ASSUME Inv, ChunkDone
  PROVE  /\ at \in Nat /\ literal \in Int /\ srcEnd \in Nat /\ shift \in Nat /\ left \in Nat /\ Len(src) \in Nat
         /\ at >= srcEnd - Stride /\ literal <= srcEnd /\ shift + literal >= 0
         /\ (at = 0 \/ at + Stride <= srcEnd) /\ pc = "encode" /\ pending \in Match /\ why = "none"
         /\ Chunk \in Nat /\ Stride \in Nat /\ Half \in Nat /\ Huge \in Nat /\ Chunk > Stride
         /\ 2 * Chunk <= Half + Stride /\ Huge >= 2 * Chunk
<1>1. TypeInv /\ ChunkInv /\ EndInv
  BY DEF Inv
<1>2. pc = "encode" /\ at >= srcEnd - Stride
  BY DEF ChunkDone
<1> QED
  BY <1>1, <1>2, SmallConstants DEF TypeInv, ChunkInv, EndInv

\* The second chunk follows the first, without a translation.
LEMMA FirstChunkDoneInv ==
  ASSUME Inv, FirstChunkDone
  PROVE  Inv'
<1> DEFINE N == Len(src)
           n == left - Chunk
<1>1. /\ ChunkDone /\ phase = "first" /\ left' = n /\ phase' = (IF n >= Chunk THEN "middle" ELSE "last")
      /\ srcEnd' = (IF n >= Chunk THEN 2 * Chunk ELSE Chunk + n)
      /\ pc' = pc /\ src' = src /\ shift' = shift /\ at' = at /\ pending' = pending /\ table' = table
      /\ literal' = literal /\ lmds' = lmds /\ lits' = lits /\ out' = out /\ why' = why
  BY DEF FirstChunkDone, NextChunk, ChunkEnd, backVars
<1>2. TypeInv /\ ChunkInv /\ HistoryInv /\ PendingInv /\ LagInv /\ EndInv /\ BackInv
  BY DEF Inv
<1>3. /\ at \in Nat /\ literal \in Int /\ srcEnd \in Nat /\ shift \in Nat /\ left \in Nat /\ N \in Nat
      /\ literal <= srcEnd /\ shift + literal >= 0
      /\ (at = 0 \/ at + Stride <= srcEnd) /\ pc = "encode"
      /\ Chunk \in Nat /\ Stride \in Nat /\ Half \in Nat /\ Huge \in Nat /\ Chunk > Stride
      /\ 2 * Chunk <= Half + Stride /\ Huge >= 2 * Chunk
  BY <1>1, ChunkValues
<1>4. shift = 0 /\ left = N /\ left >= Huge /\ srcEnd = Chunk
  BY <1>1, <1>2 DEF ChunkInv
<1> HIDE DEF N
<1>5. n \in Nat /\ n >= Chunk
  BY <1>3, <1>4
<1>6. phase' = "middle" /\ srcEnd' = 2 * Chunk /\ srcEnd' \in Nat /\ srcEnd <= srcEnd'
  <2>1. 2 * Chunk \in Nat /\ Chunk <= 2 * Chunk
    BY <1>3
  <2> QED
    BY <1>1, <1>4, <1>5, <2>1
<1>7. TypeInv'
  BY <1>1, <1>2, <1>5, <1>6 DEF TypeInv
<1>8. ChunkInv'
  <2>1. /\ shift + 2 * Chunk <= N /\ 2 * Chunk <= 2 * Half + Stride
        /\ (at = 0 \/ at + Stride <= 2 * Chunk) /\ literal <= 2 * Chunk
        /\ shift + Chunk + n = N
    BY <1>3, <1>4
  <2> HIDE DEF n
  <2> QED
    BY <1>1, <1>3, <1>5, <1>6, <2>1 DEF ChunkInv, N
<1>9. HistoryInv'
  BY <1>1, <1>2 DEF HistoryInv
<1>10. PendingInv'
  <2> SUFFICES ASSUME pending.length > 0 PROVE Honest(pending, src, shift, literal, at, srcEnd')
    BY <1>1 DEF PendingInv
  <2>1. Honest(pending, src, shift, literal, at, srcEnd)
    BY <1>2 DEF PendingInv
  <2>2. srcEnd' \in Int /\ at <= at
    BY <1>3, <1>6
  <2> QED
    BY <1>3, <1>6, <2>1, <2>2, HonestLater
<1>11. LagInv'
  BY <1>1, <1>2 DEF LagInv
<1>12. EndInv'
  BY <1>1, <1>2, <1>3 DEF EndInv
<1>13. BackInv'
  BY <1>1, <1>2 DEF BackInv
<1> QED
  BY <1>7, <1>8, <1>9, <1>10, <1>11, <1>12, <1>13 DEF Inv

\* The state is translated and the next chunk follows.
LEMMA MiddleChunkDoneInv ==
  ASSUME Inv, MiddleChunkDone
  PROVE  Inv'
<1> DEFINE N == Len(src)
           n == left - Chunk
           end == IF n >= Chunk THEN 2 * Chunk ELSE Chunk + n
           sh == shift + Chunk
           i == at - Chunk
           f == literal - Chunk
<1>1. /\ ChunkDone /\ phase = "middle" /\ left' = n /\ phase' = (IF n >= Chunk THEN "middle" ELSE "last")
      /\ srcEnd' = end /\ shift' = sh /\ at' = i /\ literal' = f /\ pending' = TranslatedMatch(pending)
      /\ table' = [l \in Lines |->
                     [table[l] EXCEPT !.pos = [k \in 1 .. HashWidth |-> TranslatedPos(@[k])]]]
      /\ pc' = pc /\ src' = src /\ lmds' = lmds /\ lits' = lits /\ out' = out /\ why' = why
  BY DEF MiddleChunkDone, NextChunk, ChunkEnd
<1>2. TypeInv /\ ChunkInv /\ HistoryInv /\ PendingInv /\ LagInv /\ EndInv /\ BackInv
  BY DEF Inv
<1>3. /\ at \in Nat /\ literal \in Int /\ srcEnd \in Nat /\ shift \in Nat /\ left \in Nat /\ N \in Nat
      /\ at >= srcEnd - Stride /\ literal <= srcEnd /\ shift + literal >= 0
      /\ (at = 0 \/ at + Stride <= srcEnd) /\ pc = "encode" /\ pending \in Match
      /\ Chunk \in Nat /\ Stride \in Nat /\ Half \in Nat /\ Huge \in Nat /\ Chunk > Stride
      /\ 2 * Chunk <= Half + Stride /\ Huge >= 2 * Chunk
  BY <1>1, ChunkValues
<1>4. left >= Chunk /\ srcEnd = 2 * Chunk /\ shift + Chunk + left = N
  BY <1>1, <1>2 DEF ChunkInv
<1> HIDE DEF N
<1>5. n \in Nat /\ left = n + Chunk
  BY <1>3, <1>4
<1> HIDE DEF n
<1>6. end \in Nat /\ Chunk <= end /\ end <= 2 * Chunk
  BY <1>3, <1>5
<1>7. i \in Nat /\ i + Stride <= Chunk /\ at <= Half
  BY <1>3, <1>4
<1>8. f \in Int /\ f <= Chunk /\ sh \in Nat /\ sh + f = shift + literal
  BY <1>3, <1>4
<1>9. /\ sh + end <= N /\ end <= 2 * Half + Stride
      /\ n >= Chunk => end = 2 * Chunk /\ sh + Chunk + n = N
      /\ ~(n >= Chunk) => sh + end = N
  BY <1>3, <1>4, <1>5
<1>10. pending' \in Match /\ pending'.length = pending.length
  <2> DEFINE p == pending.pos
             r == pending.ref
             len == pending.length
  <2>1. pending = [pos |-> p, ref |-> r, length |-> len] /\ p \in Int /\ r \in Int /\ len \in Nat
    BY <1>3 DEF Match
  <2>2. pending' = [pending EXCEPT !.pos = @ - Chunk, !.ref = @ - Chunk]
    BY <1>1 DEF TranslatedMatch
  <2> HIDE DEF p, r, len
  <2>3. pending' = [pos |-> p - Chunk, ref |-> r - Chunk, length |-> len]
    BY <2>1, <2>2
  <2>4. p - Chunk \in Int /\ r - Chunk \in Int
    BY <1>3, <2>1
  <2>5. pending' \in Match /\ pending'.length = len
    BY <2>1, <2>3, <2>4 DEF Match
  <2> QED
    BY <2>5 DEF len
<1>11. ASSUME NEW l \in Lines PROVE table'[l] \in Entries /\ LineHonest(table'[l], src, sh, i)
  <2>1. table'[l] = [table[l] EXCEPT !.pos = [k \in 1 .. HashWidth |-> TranslatedPos(@[k])]]
    BY <1>1
  <2>2. table[l] \in Entries /\ LineHonest(table[l], src, shift, at)
    BY <1>2 DEF TypeInv, HistoryInv
  <2> QED
    BY <1>3, <1>7, <2>1, <2>2, LineTranslated
<1>12. table' \in [Lines -> Entries]
  <2> DEFINE t == table'
  <2>1. t = [l \in Lines |-> t[l]] /\ \A l \in Lines : t[l] \in Entries
    BY <1>1, <1>11
  <2> HIDE DEF t
  <2>2. t \in [Lines -> Entries]
    BY <2>1
  <2> QED
    BY <2>2 DEF t
<1>p. PendingInv'
  <2> SUFFICES ASSUME pending.length > 0 PROVE Honest(TranslatedMatch(pending), src, sh, f, i, end)
    BY <1>1, <1>10 DEF PendingInv
  <2>1. Honest(pending, src, shift, literal, at, srcEnd)
    BY <1>2 DEF PendingInv
  <2>2. Honest(TranslatedMatch(pending), src, sh, f, i, srcEnd - Chunk)
    BY <1>3, <2>1, HonestTranslated
  <2>3. srcEnd - Chunk <= end /\ srcEnd - Chunk \in Int /\ end \in Int /\ i \in Int /\ i <= i
    BY <1>3, <1>4, <1>6, <1>7
  <2> HIDE DEF sh, f, i, end
  <2> QED
    BY <1>8, <2>2, <2>3, HonestLater
<1>l. LagInv'
  <2>1. i - f = at - literal
    BY <1>3
  <2> HIDE DEF i, f
  <2> QED
    BY <1>1, <1>2, <1>10, <2>1 DEF LagInv
<1> HIDE DEF sh, i, f, end
<1>t. TypeInv'
  <2>1. phase' \in {"first", "middle", "last"}
    BY <1>1
  <2> QED
    BY <1>1, <1>2, <1>5, <1>6, <1>7, <1>8, <1>10, <1>12, <2>1 DEF TypeInv
<1>c. ChunkInv'
  <2>1. i + Stride <= end /\ f <= end /\ sh + f >= 0
    <3>1. i + Stride <= end
      BY <1>3, <1>6, <1>7
    <3>2. f <= end
      BY <1>3, <1>6, <1>8
    <3> QED
      BY <1>3, <1>8, <3>1, <3>2
  <2>2. CASE n >= Chunk
    <3>1. phase' = "middle"
      BY <1>1, <2>2
    <3> QED
      BY <1>1, <1>9, <2>1, <2>2, <3>1 DEF ChunkInv, N
  <2>3. CASE ~(n >= Chunk)
    <3>1. phase' = "last"
      BY <1>1, <2>3
    <3> QED
      BY <1>1, <1>9, <2>1, <2>3, <3>1 DEF ChunkInv, N
  <2> QED
    BY <2>2, <2>3
<1>h. HistoryInv'
  BY <1>1, <1>11 DEF HistoryInv
<1>e. EndInv'
  BY <1>1, <1>2, <1>3 DEF EndInv
<1>b. BackInv'
  BY <1>1, <1>2, <1>8 DEF BackInv
<1> QED
  BY <1>t, <1>c, <1>h, <1>p, <1>l, <1>e, <1>b DEF Inv

\* The whole source has been searched.
LEMMA LastChunkDoneInv ==
  ASSUME Inv, LastChunkDone
  PROVE  Inv'
<1>1. /\ ChunkDone /\ phase = "last" /\ pc' = "pending"
      /\ src' = src /\ shift' = shift /\ phase' = phase /\ left' = left /\ srcEnd' = srcEnd
      /\ at' = at /\ pending' = pending /\ table' = table
      /\ literal' = literal /\ lmds' = lmds /\ lits' = lits /\ out' = out /\ why' = why
  BY DEF LastChunkDone, chunkVars, backVars
<1>2. TypeInv /\ ChunkInv /\ HistoryInv /\ PendingInv /\ LagInv /\ EndInv /\ BackInv
  BY DEF Inv
<1>3. pc = "encode" /\ at >= srcEnd - Stride
  BY <1>1 DEF ChunkDone
<1>4. TypeInv' /\ ChunkInv'
  BY <1>1, <1>2 DEF TypeInv, ChunkInv
<1>5. HistoryInv' /\ PendingInv'
  BY <1>1, <1>2 DEF HistoryInv, PendingInv
<1>6. LagInv' /\ BackInv'
  BY <1>1, <1>2, <1>3 DEF LagInv, BackInv
<1>7. EndInv'
  BY <1>1, <1>2, <1>3 DEF EndInv
<1> QED
  BY <1>4, <1>5, <1>6, <1>7 DEF Inv

-----------------------------------------------------------------------------
(* The end.                                                                 *)

\* A step of lzfse_encode_finish after which src_literal is p.
LEMMA FinishStep ==
  ASSUME Inv, pc \in {"pending", "literals"}, pc' \in {"literals", "end"}, src' = src, UNCHANGED <<chunkVars, at, table, why>>,
         pending' \in Match, pending'.length = 0, literal' \in Int, literal <= literal', literal' <= srcEnd,
         pc' = "literals" => at - literal' <= MaxLag + 1,
         pc' = "end" => literal' = srcEnd,
         BackSound(src, out', lmds', lits', shift + literal')
  PROVE  Inv'
<1>1. /\ src' = src /\ shift' = shift /\ phase' = phase /\ left' = left /\ srcEnd' = srcEnd
      /\ at' = at /\ table' = table /\ why' = why
  BY DEF chunkVars
<1>2. TypeInv /\ ChunkInv /\ HistoryInv /\ EndInv
  BY DEF Inv
<1>3. TypeInv'
  BY <1>1, <1>2 DEF TypeInv
<1>4. ChunkInv'
  <2> DEFINE f == literal'
  <2>1. shift + literal >= 0 /\ literal <= f /\ f \in Int /\ literal \in Int /\ shift \in Nat
    BY <1>2 DEF ChunkInv, TypeInv
  <2> HIDE DEF f
  <2>2. shift + f >= 0
    BY <2>1
  <2> QED
    BY <1>1, <1>2, <2>2 DEF ChunkInv, f
<1>5. HistoryInv'
  BY <1>1, <1>2 DEF HistoryInv
<1>6. PendingInv'
  <2>1. ~(pending'.length > 0)
    OBVIOUS
  <2> QED
    BY <2>1 DEF PendingInv
<1>7. LagInv'
  BY <1>1 DEF LagInv
<1>8. EndInv'
  BY <1>1, <1>2 DEF EndInv
<1>9. BackInv'
  BY <1>1 DEF BackInv
<1> QED
  BY <1>3, <1>4, <1>5, <1>6, <1>7, <1>8, <1>9 DEF Inv

\* lzfse_encode_finish emits the match kept back.
LEMMA FinishPendingInv ==
  ASSUME Inv, FinishPending
  PROVE  Inv'
<1>1. /\ pc = "pending" /\ pc' = "literals" /\ src' = src /\ UNCHANGED <<chunkVars, at, table, why>>
      /\ IF pending.length > 0 THEN Taken(pending) /\ pending' = NoMatch ELSE UNCHANGED <<pending, backVars>>
  BY DEF FinishPending, chunkVars
<1>2. TypeInv /\ ChunkInv /\ PendingInv /\ LagInv /\ EndInv /\ BackInv
  BY DEF Inv
<1>3. /\ at \in Nat /\ literal \in Int /\ srcEnd \in Nat /\ literal <= srcEnd /\ pending \in Match
      /\ MaxLag \in Nat /\ pending.length \in Nat
  BY <1>2, MatchTypes, SmallConstants DEF TypeInv, ChunkInv
<1>4. CASE pending.length > 0
  <2>1. Taken(pending) /\ pending' = NoMatch /\ Honest(pending, src, shift, literal, at, srcEnd)
    BY <1>1, <1>2, <1>4 DEF PendingInv
  <2>2. /\ literal' \in Int /\ literal + 2 <= literal' /\ literal' <= srcEnd
        /\ BackSound(src, out', lmds', lits', shift + literal')
    BY <1>1, <2>1, MatchTaken
  <2>3. at - literal <= MaxLag + 2
    <3>1. at - literal <= MaxLag + 1 \/ at - literal <= MaxLag + 2
      BY <1>1, <1>2 DEF LagInv
    <3> QED
      BY <1>3, <3>1
  <2>4. literal <= literal' /\ at - literal' <= MaxLag + 1
    <3> DEFINE f == literal'
    <3>1. f \in Int /\ literal + 2 <= f
      BY <2>2
    <3> HIDE DEF f
    <3>2. literal <= f /\ at - f <= MaxLag + 1
      BY <1>3, <2>3, <3>1
    <3> QED
      BY <3>2 DEF f
  <2>5. pending' \in Match /\ pending'.length = 0
    BY <2>1, NoMatchIs
  <2> QED
    BY <1>1, <2>2, <2>4, <2>5, FinishStep
<1>5. CASE ~(pending.length > 0)
  <2>1. pending' = pending /\ literal' = literal /\ lmds' = lmds /\ lits' = lits /\ out' = out
    BY <1>1, <1>5 DEF backVars
  <2>2. pending.length = 0
    <3> DEFINE n == pending.length
    <3>1. n \in Nat /\ ~(n > 0)
      BY <1>3, <1>5
    <3> HIDE DEF n
    <3>2. n = 0
      BY <3>1
    <3> QED
      BY <3>2 DEF n
  <2>3. at - literal <= MaxLag + 1
    BY <1>1, <1>2, <1>5 DEF LagInv
  <2>4. BackSound(src, out', lmds', lits', shift + literal')
    BY <1>2, <2>1 DEF BackInv
  <2>5. pending' \in Match /\ pending'.length = 0 /\ literal <= literal' /\ literal' <= srcEnd /\ literal' \in Int
        /\ at - literal' <= MaxLag + 1
    BY <1>3, <2>1, <2>2, <2>3
  <2> QED
    BY <1>1, <2>4, <2>5, FinishStep
<1> QED
  BY <1>4, <1>5

\* The literals that are left when the source has been searched.
LEMMA LastRunOffered ==
  ASSUME Inv, pc = "literals", srcEnd > literal
  PROVE  /\ Offered(LiteralRun(srcEnd - literal)) /\ LiteralRun(srcEnd - literal).length = 0
         /\ LiteralRun(srcEnd - literal).pos = srcEnd
<1> DEFINE n == srcEnd - literal
<1>1. TypeInv /\ ChunkInv /\ LagInv /\ EndInv
  BY DEF Inv
<1>2. /\ at \in Nat /\ literal \in Int /\ srcEnd \in Nat /\ at >= srcEnd - Stride /\ pending.length = 0
      /\ MaxLag \in Nat /\ Stride \in Nat
  BY <1>1, SmallConstants DEF TypeInv, EndInv
<1>3. at - literal <= MaxLag + 1
  BY <1>1, <1>2 DEF LagInv
<1>4. n \in Nat /\ n > 0 /\ literal + n <= srcEnd /\ literal + n = srcEnd /\ n <= MaxLag + 2 + Stride
  BY <1>2, <1>3
<1> HIDE DEF n
<1>5. Offered(LiteralRun(n)) /\ LiteralRun(n).length = 0 /\ LiteralRun(n).pos = srcEnd
  BY <1>1, <1>4, RunOffered
<1> QED
  BY <1>5 DEF n

\* lzfse_encode_finish emits the literals that are left.
LEMMA FinishLiteralsInv ==
  ASSUME Inv, FinishLiterals
  PROVE  Inv'
<1> DEFINE m == LiteralRun(srcEnd - literal)
<1>1. /\ pc = "literals" /\ pc' = "end" /\ src' = src /\ UNCHANGED <<chunkVars, at, table, why>> /\ pending' = pending
      /\ IF srcEnd > literal THEN Taken(m) ELSE UNCHANGED backVars
  BY DEF FinishLiterals, chunkVars
<1>2. TypeInv /\ ChunkInv /\ EndInv /\ BackInv
  BY DEF Inv
<1>3. /\ literal \in Int /\ srcEnd \in Nat /\ literal <= srcEnd /\ pending \in Match /\ pending.length = 0
  BY <1>1, <1>2 DEF TypeInv, ChunkInv, EndInv
<1>4. literal' = srcEnd /\ BackSound(src, out', lmds', lits', shift + literal')
  <2>1. CASE srcEnd > literal
    <3>1. Offered(m) /\ m.length = 0 /\ m.pos = srcEnd
      BY <1>1, <2>1, LastRunOffered
    <3>2. Taken(m)
      BY <1>1, <2>1
    <3> HIDE DEF m
    <3>3. literal' = srcEnd + 0 /\ BackSound(src, out', lmds', lits', shift + literal')
      BY <1>1, <1>2, <3>1, <3>2, TakenKeeps
    <3> QED
      BY <1>3, <3>3
  <2>2. CASE ~(srcEnd > literal)
    <3>1. literal' = literal /\ lmds' = lmds /\ lits' = lits /\ out' = out
      BY <1>1, <2>2 DEF backVars
    <3>2. literal = srcEnd
      BY <1>3, <2>2
    <3> QED
      BY <1>2, <3>1, <3>2 DEF BackInv
  <2> QED
    BY <2>1, <2>2
<1>5. literal' \in Int /\ literal <= literal' /\ literal' <= srcEnd
  BY <1>3, <1>4
<1>6. pending' \in Match /\ pending'.length = 0
  BY <1>1, <1>3
<1> HIDE DEF m
<1> QED
  BY <1>1, <1>4, <1>5, <1>6, FinishStep

\* Whatever lzfse_encode_finish wants to hand to the back end may be handed to it.
LEMMA FinishOffered ==
  ASSUME Inv, NEW m,
         \/ pc = "pending" /\ pending.length > 0 /\ m = pending
         \/ pc = "literals" /\ srcEnd > literal /\ m = LiteralRun(srcEnd - literal)
  PROVE  Offered(m)
<1>1. CASE pc = "pending" /\ pending.length > 0 /\ m = pending
  <2>1. TypeInv /\ ChunkInv /\ LagInv /\ Honest(m, src, shift, literal, at, srcEnd)
    BY <1>1 DEF Inv, PendingInv
  <2> QED
    BY <1>1, <2>1, HonestOffered
<1>2. CASE pc = "literals" /\ srcEnd > literal /\ m = LiteralRun(srcEnd - literal)
  BY <1>2, LastRunOffered
<1> QED
  BY <1>1, <1>2

\* lzfse_encode_finish fails.
LEMMA FinishFailsInv ==
  ASSUME Inv, FinishFails
  PROVE  Inv'
<1>1. \E m : /\ NotTaken(m)
             /\ \/ pc = "pending" /\ pending.length > 0 /\ m = pending
                \/ pc = "literals" /\ srcEnd > literal /\ m = LiteralRun(srcEnd - literal)
  BY DEF FinishFails
<1>2. PICK m : /\ NotTaken(m)
               /\ \/ pc = "pending" /\ pending.length > 0 /\ m = pending
                  \/ pc = "literals" /\ srcEnd > literal /\ m = LiteralRun(srcEnd - literal)
  BY <1>1
<1>3. UNCHANGED <<chunkVars, at, pending, table>>
  BY DEF FinishFails
<1>4. Offered(m)
  BY <1>2, FinishOffered
<1> QED
  BY <1>2, <1>3, <1>4, NotTakenInv

\* The last block and the end-of-stream magic, or neither, or the block alone.
LEMMA EndOfStreamInv ==
  ASSUME Inv, EndOfStream
  PROVE  Inv'
<1>1. pc = "end" /\ UNCHANGED <<chunkVars, at, pending, table>>
  BY DEF EndOfStream
<1>2. TypeInv /\ ChunkInv /\ HistoryInv /\ PendingInv /\ EndInv /\ BackInv
  BY DEF Inv
<1>3. BackSound(src, out \o Blocks(Buffer), <<>>, <<>>, shift + literal)
  BY <1>2, BufferStored
<1>4. CASE Keep(Emptied) /\ out' = out \o Blocks(Buffer) /\ pc' = "done" /\ why' = why
  <2>1. lmds' = <<>> /\ lits' = <<>> /\ literal' = literal
    BY <1>4 DEF Keep, Emptied
  <2>2. /\ src' = src /\ shift' = shift /\ phase' = phase /\ left' = left /\ srcEnd' = srcEnd
        /\ at' = at /\ pending' = pending /\ table' = table
    BY <1>1 DEF chunkVars
  <2>3. TypeInv' /\ ChunkInv'
    BY <1>2, <1>4, <2>1, <2>2 DEF TypeInv, ChunkInv
  <2>4. HistoryInv' /\ PendingInv'
    BY <1>2, <2>1, <2>2 DEF HistoryInv, PendingInv
  <2>5. LagInv'
    BY <1>4 DEF LagInv
  <2>6. EndInv'
    BY <1>1, <1>2, <1>4, <2>1, <2>2 DEF EndInv
  <2>7. BackInv'
    BY <1>3, <1>4, <2>1, <2>2 DEF BackInv
  <2> QED
    BY <2>3, <2>4, <2>5, <2>6, <2>7 DEF Inv
<1>5. CASE lmds' = Rolled(Buffer) /\ UNCHANGED <<lits, literal, out>> /\ GiveUp("dst")
  <2>1. lmds' = lmds
    BY <1>2, <1>5, RolledBack
  <2>2. BackSound(src, out', lmds', lits', shift + literal)
    BY <1>2, <1>5, <2>1 DEF BackInv
  <2> QED
    BY <1>1, <1>5, <2>2, GivenUp DEF GiveUp
<1>6. CASE Keep(Emptied) /\ out' = out \o Blocks(Buffer) /\ GiveUp("dst")
  <2>1. lmds' = <<>> /\ lits' = <<>> /\ literal' = literal
    BY <1>6 DEF Keep, Emptied
  <2>2. BackSound(src, out', lmds', lits', shift + literal)
    BY <1>3, <1>6, <2>1
  <2> QED
    BY <1>1, <1>6, <2>1, <2>2, GivenUp DEF GiveUp
<1> QED
  BY <1>4, <1>5, <1>6 DEF EndOfStream

\* A stuttering step keeps the invariant.
LEMMA StutterInv ==
  ASSUME Inv, UNCHANGED vars
  PROVE  Inv'
<1>1. /\ pc' = pc /\ src' = src /\ shift' = shift /\ phase' = phase /\ left' = left /\ srcEnd' = srcEnd
      /\ at' = at /\ pending' = pending /\ table' = table /\ why' = why
      /\ literal' = literal /\ lmds' = lmds /\ lits' = lits /\ out' = out
  BY DEF vars, chunkVars, backVars
<1>2. TypeInv /\ ChunkInv /\ HistoryInv /\ PendingInv /\ LagInv /\ EndInv /\ BackInv
  BY DEF Inv
<1>3. TypeInv' /\ ChunkInv'
  BY <1>1, <1>2 DEF TypeInv, ChunkInv
<1>4. HistoryInv' /\ PendingInv'
  BY <1>1, <1>2 DEF HistoryInv, PendingInv
<1>5. LagInv' /\ EndInv'
  BY <1>1, <1>2 DEF LagInv, EndInv
<1>6. BackInv'
  BY <1>1, <1>2 DEF BackInv
<1> QED
  BY <1>3, <1>4, <1>5, <1>6 DEF Inv

\* Every step keeps the invariant.
LEMMA NextInv == Inv /\ [Next]_vars => Inv'
<1> SUFFICES ASSUME Inv, [Next]_vars PROVE Inv'
  OBVIOUS
<1>1. CASE Covered BY <1>1, CoveredInv
<1>2. CASE NoIncoming BY <1>2, NoIncomingInv
<1>3. CASE CatchUpPending BY <1>3, CatchUpPendingInv
<1>4. CASE CatchUpLiterals BY <1>4, CatchUpLiteralsInv
<1>5. CASE TakeGood BY <1>5, TakeGoodInv
<1>6. CASE KeepIncoming BY <1>6, KeepIncomingInv
<1>7. CASE TakePending BY <1>7, TakePendingInv
<1>8. CASE TakeLonger BY <1>8, TakeLongerInv
<1>9. CASE SearchFails BY <1>9, SearchFailsInv
<1>10. CASE FirstChunkDone BY <1>10, FirstChunkDoneInv
<1>11. CASE MiddleChunkDone BY <1>11, MiddleChunkDoneInv
<1>12. CASE LastChunkDone BY <1>12, LastChunkDoneInv
<1>13. CASE FinishPending BY <1>13, FinishPendingInv
<1>14. CASE FinishLiterals BY <1>14, FinishLiteralsInv
<1>15. CASE FinishFails BY <1>15, FinishFailsInv
<1>16. CASE EndOfStream BY <1>16, EndOfStreamInv
<1>17. CASE UNCHANGED vars BY <1>17, StutterInv
<1> QED
  BY <1>1, <1>2, <1>3, <1>4, <1>5, <1>6, <1>7, <1>8, <1>9, <1>10, <1>11, <1>12, <1>13, <1>14, <1>15,
     <1>16, <1>17 DEF Next

\* The invariant holds in every reachable state.
THEOREM EncoderInvariant == Spec => []Inv
<1>1. Init => Inv
  BY InitInv
<1>2. Inv /\ [Next]_vars => Inv'
  BY NextInv
<1> QED
  BY <1>1, <1>2, PTL DEF Spec

-----------------------------------------------------------------------------
(* What the invariant says.                                                 *)

\* The invariant implies that the history is honest ...
LEMMA InvHistory == Inv => HistoryHonest
<1> SUFFICES ASSUME Inv, at < Half, NEW l \in Lines, NEW k \in 1 .. HashWidth
             PROVE  LET p == table[l].pos[k]
                    IN \/ p = InvalidPos
                       \/ /\ p >= InvalidPos /\ p < at /\ shift + p >= 0
                          /\ table[l].value[k] = [j \in 1 .. Word |-> Src(p + j - 1)]
                          /\ \A i \in 1 .. k - 1 : table[l].pos[i] > p
  BY DEF HistoryHonest, OffsetsFit
<1> DEFINE p == table[l].pos[k]
           v == table[l].value[k]
<1>1. /\ at \in Nat /\ shift \in Nat /\ Half \in Nat /\ table[l] \in Entries
      /\ EntryHonest(table[l], k, src, shift, at)
  BY SmallConstants DEF Inv, TypeInv, HistoryInv, LineHonest
<1>2. p \in Int /\ v \in Words
  BY <1>1, EntryTypes
<1>3. ~(at > Half) /\ at <= Half
  BY <1>1
<1>4. \/ p = InvalidPos
      \/ /\ p >= InvalidPos /\ p < at /\ shift + p >= 0
         /\ \A j \in 1 .. Word : v[j] = src[shift + p + j]
         /\ \A i \in 1 .. k - 1 : table[l].pos[i] > p
  BY <1>1, <1>3 DEF EntryHonest
<1>5. ASSUME \A j \in 1 .. Word : v[j] = src[shift + p + j]
      PROVE  v = [j \in 1 .. Word |-> Src(p + j - 1)]
  <2> HIDE DEF p, v
  <2>1. ASSUME NEW j \in 1 .. Word PROVE v[j] = Src(p + j - 1)
    <3>1. shift + (p + j - 1) + 1 = shift + p + j
      BY <1>1, <1>2
    <3> QED
      BY <1>5, <3>1 DEF Src
  <2>2. v = [j \in 1 .. Word |-> v[j]]
    BY <1>2 DEF Words
  <2> QED
    BY <2>1, <2>2
<1> QED
  BY <1>4, <1>5

\* ... that the match kept back is ...
LEMMA InvPending == Inv => PendingHonest
<1> SUFFICES ASSUME Inv, pending.length > 0
             PROVE  /\ literal <= pending.pos /\ pending.pos + pending.length <= srcEnd
                    /\ pending.pos - pending.ref \in 1 .. MaxD /\ shift + pending.ref >= 0
                    /\ \A k \in 0 .. pending.length - 1 : Src(pending.pos + k) = Src(pending.ref + k)
  BY DEF PendingHonest
<1> DEFINE p == pending.pos
           r == pending.ref
           n == pending.length
<1>1. /\ pending \in Match /\ literal <= p /\ p + n <= srcEnd
      /\ p - r \in 1 .. MaxD /\ shift + r >= 0
      /\ \A k \in 1 .. n : src[shift + p + k] = src[shift + r + k]
  BY DEF Inv, PendingInv, Honest
<1>2. p \in Int /\ r \in Int /\ n \in Nat /\ shift \in Nat
  BY <1>1, MatchTypes DEF Inv, TypeInv
<1> HIDE DEF p, r, n
<1>3. ASSUME NEW k \in 0 .. n - 1 PROVE Src(p + k) = Src(r + k)
  <2>1. k + 1 \in 1 .. n /\ shift + (p + k) + 1 = shift + p + (k + 1) /\ shift + (r + k) + 1 = shift + r + (k + 1)
    BY <1>2
  <2> QED
    BY <1>1, <2>1 DEF Src
<1> QED
  BY <1>1, <1>3 DEF p, r, n

\* ... that what was encoded decodes to the source ...
LEMMA InvRoundTrip == Inv => RoundTrip
<1> SUFFICES ASSUME Inv PROVE RoundTrip
  OBVIOUS
<1>1. TypeInv /\ ChunkInv /\ EndInv /\ BackInv
  BY DEF Inv
<1>2. Decoded(out \o Blocks(Buffer)) = [bytes |-> SubSeq(src, 1, shift + literal), sound |-> TRUE]
  BY <1>1, BufferStored DEF FirstOf
<1>3. ASSUME pc = "done" PROVE Decoded(out).bytes = src
  <2>1. lmds = <<>> /\ lits = <<>> /\ literal = srcEnd /\ shift + srcEnd = Len(src) /\ src \in Seq(Byte)
    BY <1>1, <1>3 DEF EndInv, ChunkInv, TypeInv
  <2>2. out \in Seq(StoredBlock)
    BY <1>1 DEF BackInv, BackSound, AllStored
  <2>3. Blocks(Buffer) = <<>>
    BY <2>1 DEF Blocks, Buffer
  <2>4. out \o Blocks(Buffer) = out
    BY <2>2, <2>3
  <2>5. SubSeq(src, 1, shift + literal) = src
    BY <2>1
  <2> DEFINE q == out \o Blocks(Buffer)
             bytes == SubSeq(src, 1, shift + literal)
  <2>6. Decoded(q) = [bytes |-> bytes, sound |-> TRUE] /\ q = out /\ bytes = src
    BY <1>2, <2>4, <2>5
  <2> HIDE DEF q, bytes
  <2>7. Decoded(out) = [bytes |-> src, sound |-> TRUE]
    BY <2>6
  <2> QED
    BY <2>7
<1> QED
  BY <1>2, <1>3 DEF RoundTrip

\* ... that every block is within the limits ...
LEMMA InvBlocks == Inv => BlocksAcceptable
<1> SUFFICES ASSUME Inv PROVE BlocksAcceptable
  OBVIOUS
<1>1. out \in Seq(StoredBlock)
  BY DEF Inv, BackInv, BackSound, AllStored
<1>2. \A i \in 1 .. Len(out) :
        /\ Len(out[i].lmds) <= MatchesPerBlock
        /\ Len(out[i].lits) <= LiteralsPerBlock /\ Len(out[i].lits) % Streams = 0
  BY DEF Inv, BackInv, BackSound, AllStored
<1>3. DOMAIN out = 1 .. Len(out)
  BY <1>1
<1>4. ASSUME NEW i \in DOMAIN out, NEW j \in DOMAIN out[i].lmds
      PROVE  /\ out[i].lmds[j].l <= MaxL /\ out[i].lmds[j].m <= MaxM
             /\ out[i].lmds[j].d <= MaxD
  <2>1. out[i].lmds \in Seq(StoredTrip)
    <3>1. out[i] \in StoredBlock
      BY <1>1, <1>3
    <3> QED
      BY <3>1 DEF StoredBlock
  <2> DEFINE x == out[i].lmds[j]
  <2>2. x \in StoredTrip
    BY <2>1
  <2> HIDE DEF x
  <2>3. x.l \in 0 .. MaxL /\ x.m \in 0 .. MaxM /\ x.d \in 0 .. MaxD
    BY <2>2 DEF StoredTrip
  <2>4. x.l <= MaxL /\ x.m <= MaxM /\ x.d <= MaxD
    BY <2>3
  <2> QED
    BY <2>4 DEF x
<1> QED
  BY <1>2, <1>3, <1>4 DEF BlocksAcceptable

\* ... and that a match always fits in emptied buffers.
LEMMA InvNeverStuck == Inv => NeverStuck
BY DEF Inv, EndInv, NeverStuck

\* The encoder gives up once, and leaves the buffers and dst alone, unless what
\* it could not store was the end-of-stream magic.
LEMMA StepRollback ==
  Inv /\ [Next]_vars => [why' = "dst" /\ out' = out => lmds' = lmds /\ lits' = lits /\ literal' = literal]_vars
<1> SUFFICES ASSUME Inv, Next, why' = "dst", out' = out
             PROVE  lmds' = lmds /\ lits' = lits /\ literal' = literal
  OBVIOUS
<1>1. TypeInv /\ ChunkInv /\ EndInv /\ BackInv
  BY DEF Inv
<1>2. \/ why' = why /\ pc # "failed"
      \/ SearchFails
      \/ FinishFails
      \/ EndOfStream
  BY DEF Next, Covered, NoIncoming, CatchUpPending, CatchUpLiterals, TakeGood, KeepIncoming, TakePending,
         TakeLonger, Found, Uncovered, Searching, NextPosition, FirstChunkDone, MiddleChunkDone,
         LastChunkDone, ChunkDone, FinishPending, FinishLiterals
<1>3. CASE why' = why /\ pc # "failed"
  <2>1. why = "none"
    BY <1>1, <1>3 DEF EndInv
  <2> QED
    BY <1>3, <2>1
<1>4. CASE SearchFails
  <2>1. PICK m \in Wanted : NotTaken(m)
    BY <1>4 DEF SearchFails
  <2>2. Offered(m)
    BY <1>4, WantedOffered DEF SearchFails
  <2> QED
    BY <1>1, <2>1, <2>2, NotTakenKeeps
<1>5. CASE FinishFails
  <2>1. \E m : /\ NotTaken(m)
               /\ \/ pc = "pending" /\ pending.length > 0 /\ m = pending
                  \/ pc = "literals" /\ srcEnd > literal /\ m = LiteralRun(srcEnd - literal)
    BY <1>5 DEF FinishFails
  <2>2. PICK m : /\ NotTaken(m)
                 /\ \/ pc = "pending" /\ pending.length > 0 /\ m = pending
                    \/ pc = "literals" /\ srcEnd > literal /\ m = LiteralRun(srcEnd - literal)
    BY <2>1
  <2>3. Offered(m)
    BY <2>2, FinishOffered
  <2> QED
    BY <1>1, <2>2, <2>3, NotTakenKeeps
<1>6. CASE EndOfStream
  <2>1. pc = "end" /\ why = "none"
    BY <1>1, <1>6 DEF EndOfStream, EndInv
  <2>2. CASE Keep(Emptied) /\ out' = out \o Blocks(Buffer) /\ pc' = "done" /\ why' = why
    BY <2>1, <2>2
  <2>3. CASE lmds' = Rolled(Buffer) /\ UNCHANGED <<lits, literal, out>> /\ GiveUp("dst")
    <3>1. lmds' = lmds
      BY <1>1, <2>3, RolledBack
    <3> QED
      BY <2>3, <3>1
  <2>4. CASE Keep(Emptied) /\ out' = out \o Blocks(Buffer) /\ GiveUp("dst")
    <3>1. lmds' = <<>> /\ lits' = <<>> /\ literal' = literal
      BY <2>4 DEF Keep, Emptied
    <3>2. out \in Seq(StoredBlock) /\ out \o Blocks(Buffer) = out
      BY <1>1, <2>4 DEF BackInv, BackSound, AllStored
    <3>3. lmds = <<>> /\ lits = <<>>
      <4> SUFFICES ASSUME ~(lmds = <<>> /\ lits = <<>>) PROVE FALSE
        OBVIOUS
      <4> DEFINE c == BlockOf(Buffer)
      <4>1. Blocks(Buffer) = <<c>>
        BY DEF Blocks, Buffer
      <4> HIDE DEF c
      <4>2. \A q \in Seq(StoredBlock) : q \o <<c>> # q
        <5> TAKE q \in Seq(StoredBlock)
        <5>1. q \in Seq(StoredBlock \cup {c}) /\ <<c>> \in Seq(StoredBlock \cup {c})
          OBVIOUS
        <5>2. Len(q \o <<c>>) = Len(q) + 1 /\ Len(q) \in Nat
          BY <5>1
        <5> QED
          BY <5>2
      <4> QED
        BY <3>2, <4>1, <4>2
    <3> QED
      BY <3>1, <3>3
  <2> QED
    BY <1>6, <2>2, <2>3, <2>4 DEF EndOfStream
<1> QED
  BY <1>2, <1>3, <1>4, <1>5, <1>6

-----------------------------------------------------------------------------
\* The history tells the truth about the source.
THEOREM EncoderHistory == Spec => []HistoryHonest
BY EncoderInvariant, InvHistory, PTL

\* The match kept back stays one that may be emitted.
THEOREM EncoderPending == Spec => []PendingHonest
BY EncoderInvariant, InvPending, PTL

\* The blocks stored and the buffers decode to the source up to src_literal, and a
\* finished stream to the whole source.
THEOREM EncoderRoundTrip == Spec => []RoundTrip
BY EncoderInvariant, InvRoundTrip, PTL

\* Every block passes the decoder's limits.
THEOREM EncoderBlocks == Spec => []BlocksAcceptable
BY EncoderInvariant, InvBlocks, PTL

\* The encoder gives up only when dst is full.
THEOREM EncoderNeverStuck == Spec => []NeverStuck
BY EncoderInvariant, InvNeverStuck, PTL

\* A block that does not fit in dst is rolled back exactly.
THEOREM EncoderRollback == Spec => RollbackExact
<1>1. Inv /\ [Next]_vars => [why' = "dst" /\ out' = out => lmds' = lmds /\ lits' = lits /\ literal' = literal]_vars
  BY StepRollback
<1> QED
  BY <1>1, EncoderInvariant, PTL DEF RollbackExact, Spec
=============================================================================

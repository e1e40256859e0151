--------------------------- MODULE LzBlocks_proofs ---------------------------
(***************************************************************************)
(* Theorems about LzBlocks: what one more triple, or one more block, adds   *)
(* to what was decoded before.  A is the set of the bytes.                 *)
(***************************************************************************)
EXTENDS LzBlocks, DataLemmas

LMD == [l : Nat, m : Nat, d : Nat]
Acc(A) == [bytes : Seq(A), lits : Seq(A), d : Nat, sound : BOOLEAN]
Blk(A) == [lits : Seq(A), lmds : Seq(LMD)]
StageRec(A) == [bytes : Seq(A), sound : BOOLEAN]

\* s is what t begins with.
Begins(s, t) == Len(s) <= Len(t) /\ \A i \in 1 .. Len(s) : t[i] = s[i]

\* t is in u behind its first n.
Follows(u, n, t) == \A i \in 1 .. Len(t) : u[n + i] = t[i]

\* The first l elements of t are in u behind its first n.
Takes(u, n, t, l) == \A k \in 1 .. l : u[n + k] = t[k]

\* Each of m elements behind the first n is that of d before.
Recurs(u, n, m, d) == \A k \in 1 .. m : u[n + k] = u[n + k - d]

\* A sequence begins itself.
LEMMA BeginsItself ==
  ASSUME NEW A, NEW s \in Seq(A)
  PROVE  Begins(s, s)
BY DEF Begins

\* Beginning is transitive.
LEMMA BeginsBeyond ==
  ASSUME NEW A, NEW s \in Seq(A), NEW t \in Seq(A), NEW u \in Seq(A), Begins(s, t), Begins(t, u)
  PROVE  Begins(s, u)
<1>1. Len(s) \in Nat /\ Len(t) \in Nat /\ Len(u) \in Nat
  OBVIOUS
<1> QED
  BY <1>1 DEF Begins

\* The operators on sequences, under names of which the provers see no more than
\* the lemmas say.
Join(s, t) == s \o t
FirstOf(s, n) == SubSeq(s, 1, n)
Behind(s, n) == SubSeq(s, n + 1, Len(s))

\* A sequence begins what it is joined to, the other follows it.
LEMMA BeginsJoined ==
  ASSUME NEW A, NEW s \in Seq(A), NEW t \in Seq(A)
  PROVE  /\ Begins(s, Join(s, t)) /\ Join(s, t) \in Seq(A) /\ Len(Join(s, t)) = Len(s) + Len(t)
         /\ Follows(Join(s, t), Len(s), t)
BY DEF Begins, Join, Follows

\* The first n elements of a sequence, and the rest.
LEMMA FrontBehind ==
  ASSUME NEW A, NEW s \in Seq(A), NEW n \in 0 .. Len(s)
  PROVE  /\ FirstOf(s, n) \in Seq(A) /\ Len(FirstOf(s, n)) = n
         /\ \A i \in 1 .. n : FirstOf(s, n)[i] = s[i]
         /\ Behind(s, n) \in Seq(A) /\ Len(Behind(s, n)) = Len(s) - n
         /\ Follows(s, n, Behind(s, n))
<1>1. Len(s) \in Nat
  OBVIOUS
<1>2. FirstOf(s, n) \in Seq(A) /\ Len(FirstOf(s, n)) = n /\ \A i \in 1 .. n : FirstOf(s, n)[i] = s[i]
  BY DEF FirstOf
<1>3. Behind(s, n) \in Seq(A) /\ Len(Behind(s, n)) = Len(s) - n
  BY DEF Behind
<1>4. \A i \in 1 .. Len(s) - n : Behind(s, n)[i] = s[n + i]
  BY <1>1 DEF Behind
<1> QED
  BY <1>2, <1>3, <1>4 DEF Follows

\* Min of the community modules, of two numbers.
LEMMA MinOfTwo ==
  ASSUME NEW a \in Int, NEW b \in Int
  PROVE  Min({a, b}) = IF a <= b THEN a ELSE b
<1>1. \E x \in {a, b} : \A y \in {a, b} : x <= y
  <2>1. CASE a <= b
    BY <2>1
  <2>2. CASE ~(a <= b)
    BY <2>2
  <2> QED
    BY <2>1, <2>2
<1>2. Min({a, b}) = CHOOSE x \in {a, b} : \A y \in {a, b} : x <= y
  BY DEF Min
<1>3. Min({a, b}) \in {a, b} /\ Min({a, b}) <= a /\ Min({a, b}) <= b
  BY <1>1, <1>2
<1> QED
  BY <1>3

-----------------------------------------------------------------------------
(* A triple.                                                                *)

\* A match of m bytes adds m bytes, which repeat at its distance.
LEMMA CopiedAdds ==
  ASSUME NEW A, NEW s \in Seq(A), NEW m \in Nat, NEW d \in 1 .. Len(s)
  PROVE  /\ Copied(s, m, d) \in Seq(A) /\ Begins(s, Copied(s, m, d))
         /\ Len(Copied(s, m, d)) = Len(s) + m /\ Recurs(Copied(s, m, d), Len(s), m, d)
<1> DEFINE u == Copied(s, m, d)
           t == [k \in 1 .. m |-> s[Len(s) - d + 1 + ((k - 1) % d)]]
<1>1. Len(s) \in Nat /\ d \in Nat /\ d > 0 /\ d <= Len(s)
  OBVIOUS
<1>2. ASSUME NEW k \in 1 .. m
      PROVE  /\ Len(s) - d + 1 + ((k - 1) % d) \in 1 .. Len(s)
             /\ s[Len(s) - d + 1 + ((k - 1) % d)] \in A
  <2>1. (k - 1) % d \in 0 .. d - 1
    BY <1>1, ModRange
  <2>2. Len(s) - d + 1 + ((k - 1) % d) \in 1 .. Len(s)
    BY <1>1, <2>1
  <2> QED
    BY <2>2
<1>3. t \in Seq(A) /\ Len(t) = m
  BY <1>2
<1>4. u = Join(s, t)
  BY DEF Copied, Join
<1>5. \A k \in 1 .. m : t[k] = s[Len(s) - d + 1 + ((k - 1) % d)]
  OBVIOUS
<1> HIDE DEF t, u
<1>6. /\ Begins(s, u) /\ u \in Seq(A) /\ Len(u) = Len(s) + m
      /\ \A k \in 1 .. m : u[Len(s) + k] = t[k]
  <2>1. Begins(s, u) /\ u \in Seq(A) /\ Len(u) = Len(s) + Len(t) /\ Follows(u, Len(s), t)
    BY <1>3, <1>4, BeginsJoined
  <2> QED
    BY <1>3, <2>1 DEF Follows
<1>7. ASSUME NEW k \in 1 .. m PROVE u[Len(s) + k] = u[Len(s) + k - d]
  <2>1. CASE k > d
    <3>1. k - d \in 1 .. m
      BY <1>1, <2>1
    <3>2. (k - 1 - d) % d = (k - 1) % d
      BY <1>1, ModPeriod
    <3>3. k - d - 1 = k - 1 - d
      BY <1>1
    <3>4. t[k - d] = t[k]
      BY <1>5, <3>1, <3>2, <3>3
    <3>5. Len(s) + (k - d) = Len(s) + k - d
      BY <1>1
    <3> QED
      BY <1>6, <3>1, <3>4, <3>5
  <2>2. CASE k <= d
    <3>1. (k - 1) % d = k - 1
      BY <1>1, <2>2, ModSmall
    <3>2. Len(s) + k - d \in 1 .. Len(s)
      BY <1>1, <2>2
    <3>3. t[k] = s[Len(s) - d + 1 + (k - 1)]
      BY <1>5, <3>1
    <3>4. Len(s) - d + 1 + (k - 1) = Len(s) + k - d
      BY <1>1
    <3>5. u[Len(s) + k - d] = s[Len(s) + k - d]
      BY <1>6, <3>2 DEF Begins
    <3> QED
      BY <1>6, <3>3, <3>4, <3>5
  <2> QED
    BY <1>1, <2>1, <2>2
<1> QED
  BY <1>6, <1>7 DEF Recurs, u

\* The parts of Executed.
DistanceOf(acc, x) == IF x.d = 0 THEN acc.d ELSE x.d
LiteralsOf(acc, x) == Min({x.l, Len(acc.lits)})
WithLiterals(acc, x) == Join(acc.bytes, FirstOf(acc.lits, LiteralsOf(acc, x)))
SoundAfter(acc, x) ==
  acc.sound /\ LiteralsOf(acc, x) = x.l /\ DistanceOf(acc, x) \in 1 .. Len(WithLiterals(acc, x))

\* What a triple makes of the output and the literals.
LEMMA ExecutedParts ==
  ASSUME NEW acc, NEW x
  PROVE  Executed(acc, x) =
           [bytes |-> IF SoundAfter(acc, x)
                      THEN Copied(WithLiterals(acc, x), x.m, DistanceOf(acc, x))
                      ELSE WithLiterals(acc, x),
            lits |-> Behind(acc.lits, LiteralsOf(acc, x)),
            d |-> DistanceOf(acc, x),
            sound |-> SoundAfter(acc, x)]
BY DEF Executed, DistanceOf, LiteralsOf, WithLiterals, SoundAfter, Join, FirstOf, Behind

\* A triple that leaves a sound state.
LEMMA ExecutedBySound ==
  ASSUME NEW acc, NEW x, Executed(acc, x).sound
  PROVE  /\ SoundAfter(acc, x)
         /\ Executed(acc, x) =
              [bytes |-> Copied(WithLiterals(acc, x), x.m, DistanceOf(acc, x)),
               lits |-> Behind(acc.lits, LiteralsOf(acc, x)),
               d |-> DistanceOf(acc, x),
               sound |-> SoundAfter(acc, x)]
<1>1. SoundAfter(acc, x)
  BY ExecutedParts
<1> QED
  BY <1>1, ExecutedParts

\* The literals of a triple follow the output.
LEMMA LiteralsTaken ==
  ASSUME NEW A, NEW acc \in Acc(A), NEW x \in LMD, NEW n, n = LiteralsOf(acc, x)
  PROVE  /\ n \in 0 .. Len(acc.lits) /\ n <= x.l
         /\ WithLiterals(acc, x) \in Seq(A) /\ Begins(acc.bytes, WithLiterals(acc, x))
         /\ Len(WithLiterals(acc, x)) = Len(acc.bytes) + n
         /\ \A k \in 1 .. n : WithLiterals(acc, x)[Len(acc.bytes) + k] = acc.lits[k]
<1>1. acc.bytes \in Seq(A) /\ acc.lits \in Seq(A) /\ x.l \in Nat /\ Len(acc.lits) \in Nat
  BY DEF Acc, LMD
<1>2. n = IF x.l <= Len(acc.lits) THEN x.l ELSE Len(acc.lits)
  BY <1>1, MinOfTwo DEF LiteralsOf
<1>3. n \in 0 .. Len(acc.lits) /\ n <= x.l
  BY <1>1, <1>2
<1> DEFINE t == FirstOf(acc.lits, n)
<1>4. t \in Seq(A) /\ Len(t) = n /\ \A k \in 1 .. n : t[k] = acc.lits[k]
  BY <1>1, <1>3, FrontBehind
<1> DEFINE b == acc.bytes
           w == WithLiterals(acc, x)
<1>5. w = Join(b, t)
  BY DEF WithLiterals
<1>6. b \in Seq(A)
  BY <1>1
<1> HIDE DEF t, b, w
<1>7. /\ Begins(b, w) /\ w \in Seq(A) /\ Len(w) = Len(b) + n
      /\ \A k \in 1 .. n : w[Len(b) + k] = t[k]
  <2>1. Begins(b, w) /\ w \in Seq(A) /\ Len(w) = Len(b) + Len(t) /\ Follows(w, Len(b), t)
    BY <1>4, <1>5, <1>6, BeginsJoined
  <2> QED
    BY <1>4, <2>1 DEF Follows
<1>8. \A k \in 1 .. n : w[Len(b) + k] = acc.lits[k]
  BY <1>4, <1>7
<1> QED
  BY <1>3, <1>7, <1>8 DEF b, w

\* A triple is executed on what has its types, only adds bytes, and is sound only
\* after sound ones.
LEMMA ExecutedExtends ==
  ASSUME NEW A, NEW acc \in Acc(A), NEW x \in LMD
  PROVE  /\ Executed(acc, x) \in Acc(A) /\ Begins(acc.bytes, Executed(acc, x).bytes)
         /\ Executed(acc, x).sound => acc.sound
<1> DEFINE e == Executed(acc, x)
           n == LiteralsOf(acc, x)
           w == WithLiterals(acc, x)
           d == DistanceOf(acc, x)
           sound == SoundAfter(acc, x)
<1>1. /\ n \in 0 .. Len(acc.lits) /\ w \in Seq(A) /\ Begins(acc.bytes, w)
  BY LiteralsTaken
<1>2. d \in Nat /\ x.m \in Nat /\ acc.lits \in Seq(A) /\ acc.bytes \in Seq(A)
      /\ acc.sound \in BOOLEAN
  BY DEF DistanceOf, Acc, LMD
<1>3. sound \in BOOLEAN /\ (sound => d \in 1 .. Len(w) /\ acc.sound)
  BY DEF SoundAfter
<1>4. Behind(acc.lits, n) \in Seq(A)
  BY <1>1, <1>2, FrontBehind
<1>5. sound => Copied(w, x.m, d) \in Seq(A) /\ Begins(w, Copied(w, x.m, d))
  BY <1>1, <1>2, <1>3, CopiedAdds
<1>6. e = [bytes |-> IF sound THEN Copied(w, x.m, d) ELSE w,
           lits |-> Behind(acc.lits, n), d |-> d, sound |-> sound]
  BY ExecutedParts
<1> HIDE DEF e, n, w, d, sound
<1>7. e.bytes \in Seq(A) /\ Begins(acc.bytes, e.bytes)
  <2>1. CASE sound
    BY <1>1, <1>2, <1>5, <1>6, <2>1, BeginsBeyond
  <2>2. CASE ~sound
    BY <1>1, <1>6, <2>2
  <2> QED
    BY <2>1, <2>2
<1>8. e \in Acc(A)
  BY <1>2, <1>3, <1>4, <1>6, <1>7 DEF Acc
<1> QED
  BY <1>3, <1>6, <1>7, <1>8 DEF e

\* What a sound triple adds.
LEMMA ExecutedSound ==
  ASSUME NEW A, NEW acc \in Acc(A), NEW x \in LMD, NEW e, e = Executed(acc, x), e.sound
  PROVE  /\ e.d = DistanceOf(acc, x) /\ e.d \in 1 .. Len(acc.bytes) + x.l
         /\ x.l + Len(e.lits) = Len(acc.lits)
         /\ Follows(acc.lits, x.l, e.lits)
         /\ Len(e.bytes) = Len(acc.bytes) + x.l + x.m
         /\ Takes(e.bytes, Len(acc.bytes), acc.lits, x.l)
         /\ Recurs(e.bytes, Len(acc.bytes) + x.l, x.m, e.d)
<1> DEFINE n == LiteralsOf(acc, x)
           w == WithLiterals(acc, x)
           d == DistanceOf(acc, x)
<1> HIDE DEF n, w, d
<1>1. e = [bytes |-> Copied(w, x.m, d),
           lits |-> Behind(acc.lits, n), d |-> d, sound |-> SoundAfter(acc, x)]
  BY ExecutedBySound DEF n, w, d
<1>2. SoundAfter(acc, x)
  BY ExecutedBySound
<1>3. n = x.l /\ d \in 1 .. Len(w)
  BY <1>2 DEF SoundAfter, n, w, d
<1>4. e.bytes = Copied(w, x.m, d) /\ e.lits = Behind(acc.lits, n) /\ e.d = d
  BY <1>1
<1>5. /\ n \in 0 .. Len(acc.lits) /\ w \in Seq(A) /\ Begins(acc.bytes, w)
      /\ Len(w) = Len(acc.bytes) + n /\ \A k \in 1 .. n : w[Len(acc.bytes) + k] = acc.lits[k]
  BY LiteralsTaken DEF n, w
<1>6. x.m \in Nat /\ x.l \in Nat /\ acc.lits \in Seq(A) /\ acc.bytes \in Seq(A)
      /\ Len(acc.bytes) \in Nat /\ Len(acc.lits) \in Nat
  BY DEF Acc, LMD
<1>7. /\ Begins(w, e.bytes) /\ Len(e.bytes) = Len(w) + x.m
      /\ Recurs(e.bytes, Len(w), x.m, d)
  <2>1. w \in Seq(A) /\ x.m \in Nat /\ d \in 1 .. Len(w)
    BY <1>3, <1>5, <1>6
  <2> DEFINE c == Copied(w, x.m, d)
  <2>2. Begins(w, c) /\ Len(c) = Len(w) + x.m /\ Recurs(c, Len(w), x.m, d)
    BY <2>1, CopiedAdds
  <2>3. e.bytes = c
    BY <1>4
  <2> HIDE DEF c
  <2> QED
    BY <2>2, <2>3
<1>8. x.l + Len(e.lits) = Len(acc.lits) /\ Follows(acc.lits, x.l, e.lits)
  <2> DEFINE s == acc.lits
             r == Behind(s, x.l)
  <2>1. s \in Seq(A) /\ x.l \in 0 .. Len(s)
    BY <1>3, <1>5, <1>6
  <2>2. e.lits = r
    BY <1>3, <1>4
  <2> HIDE DEF s
  <2>3. Len(r) = Len(s) - x.l /\ Follows(s, x.l, r)
    BY <2>1, FrontBehind
  <2>4. x.l + Len(r) = Len(s)
    BY <2>1, <2>3
  <2> QED
    BY <2>2, <2>3, <2>4 DEF s
<1>9. ASSUME NEW k \in 1 .. x.l PROVE e.bytes[Len(acc.bytes) + k] = acc.lits[k]
  <2>1. Len(acc.bytes) + k \in 1 .. Len(w)
    BY <1>3, <1>5, <1>6
  <2>2. e.bytes[Len(acc.bytes) + k] = w[Len(acc.bytes) + k]
    BY <1>4, <1>7, <2>1 DEF Begins
  <2> QED
    BY <1>3, <1>5, <2>2
<1>t. Takes(e.bytes, Len(acc.bytes), acc.lits, x.l)
  BY <1>9 DEF Takes
<1>10. Len(w) = Len(acc.bytes) + x.l
  BY <1>3, <1>5
<1>11. Recurs(e.bytes, Len(acc.bytes) + x.l, x.m, e.d)
  BY <1>4, <1>7, <1>10
<1>12. e.d = DistanceOf(acc, x) /\ e.d \in 1 .. Len(acc.bytes) + x.l
  BY <1>3, <1>4, <1>10 DEF d
<1>13. Len(e.bytes) = Len(acc.bytes) + x.l + x.m
  BY <1>4, <1>7, <1>10
<1> QED
  BY <1>8, <1>t, <1>11, <1>12, <1>13

-----------------------------------------------------------------------------
(* The triples of a block.                                                  *)

\* Progress obeys its recursive equation.
LEMMA ProgressIs ==
  ASSUME NEW A, NEW start \in Acc(A), NEW lmds \in Seq(LMD)
  PROVE  /\ Progress(start, lmds)[0] = start
         /\ \A i \in 1 .. Len(lmds) :
              Progress(start, lmds)[i] = Executed(Progress(start, lmds)[i - 1], lmds[i])
<1> DEFINE n == Len(lmds)
           F == [i \in 1 .. n |-> [a \in Acc(A) |-> Executed(a, lmds[i])]]
           Is(p) == p = [i \in 0 .. n |-> IF i = 0 THEN start ELSE Executed(p[i - 1], lmds[i])]
           P == CHOOSE p : Is(p)
<1>1. n \in Nat /\ \A i \in 1 .. n : lmds[i] \in LMD
  OBVIOUS
<1>2. \A i \in 1 .. n : \A a \in Acc(A) : F[i][a] = Executed(a, lmds[i]) /\ F[i][a] \in Acc(A)
  BY <1>1, ExecutedExtends
<1>3. \E p : Is(p)
  <2> HIDE DEF F
  <2>1. PICK p \in [0 .. n -> Acc(A)] : Iterates(p, start, n, F)
    <3> HIDE DEF n
    <3> QED
      BY <1>1, <1>2, RecursiveFunction
  <2>2. ASSUME NEW i \in 0 .. n, i # 0 PROVE F[i][p[i - 1]] = Executed(p[i - 1], lmds[i])
    <3>1. i \in 1 .. n /\ i - 1 \in 0 .. n
      BY <2>2
    <3>2. p[i - 1] \in Acc(A)
      BY <3>1
    <3> QED
      BY <1>2, <3>1, <3>2
  <2>3. p = [i \in 0 .. n |-> IF i = 0 THEN start ELSE Executed(p[i - 1], lmds[i])]
    BY <2>1, <2>2 DEF Iterates
  <2> QED
    BY <2>3
<1>4. Is(P)
  BY <1>3
<1>5. Progress(start, lmds) = P
  BY DEF Progress
<1>6. P = [i \in 0 .. n |-> IF i = 0 THEN start ELSE Executed(P[i - 1], lmds[i])]
  BY <1>4
<1> HIDE DEF P
<1>7. P[0] = start /\ \A i \in 1 .. n : P[i] = Executed(P[i - 1], lmds[i])
  BY <1>1, <1>6
<1> QED
  BY <1>5, <1>7

\* All of it has its types, begins with what was there before, and is sound only
\* where that was sound.
LEMMA ProgressExtends ==
  ASSUME NEW A, NEW start \in Acc(A), NEW lmds \in Seq(LMD), NEW j \in 0 .. Len(lmds),
         NEW P, P = Progress(start, lmds)
  PROVE  /\ P[j] \in Acc(A) /\ Begins(P[j].bytes, P[Len(lmds)].bytes)
         /\ P[Len(lmds)].sound => P[j].sound
<1> DEFINE n == Len(lmds)
           S == {k \in Nat : k <= n => /\ Begins(P[n - k].bytes, P[n].bytes)
                                       /\ P[n].sound => P[n - k].sound}
<1>1. n \in Nat /\ \A i \in 1 .. n : lmds[i] \in LMD
  OBVIOUS
<1>2. P[0] = start /\ \A i \in 1 .. n : P[i] = Executed(P[i - 1], lmds[i])
  BY ProgressIs
<1>3. \A i \in 0 .. n : P[i] \in Acc(A)
  <2>1. P[0] \in Acc(A)
    BY <1>2
  <2>2. \A i \in 1 .. n : P[i - 1] \in Acc(A) => P[i] \in Acc(A)
    BY <1>1, <1>2, ExecutedExtends
  <2> HIDE DEF n
  <2> QED
    BY <1>1, <2>1, <2>2, HandedOn
<1> HIDE DEF n
<1>4. 0 \in S
  <2>1. n - 0 = n /\ P[n] \in Acc(A)
    BY <1>1, <1>3
  <2>2. P[n].bytes \in Seq(A)
    BY <2>1 DEF Acc
  <2>3. Begins(P[n].bytes, P[n].bytes)
    BY <2>2, BeginsItself
  <2> QED
    BY <2>1, <2>3
<1>5. ASSUME NEW k \in Nat, k \in S PROVE k + 1 \in S
  <2> SUFFICES ASSUME k + 1 <= n
               PROVE  /\ Begins(P[n - (k + 1)].bytes, P[n].bytes)
                      /\ P[n].sound => P[n - (k + 1)].sound
    OBVIOUS
  <2> DEFINE i == n - k
  <2>1. i \in 1 .. n /\ i - 1 = n - (k + 1) /\ i - 1 \in 0 .. n /\ n \in 0 .. n /\ i \in 0 .. n
    BY <1>1
  <2>2. Begins(P[i].bytes, P[n].bytes) /\ (P[n].sound => P[i].sound)
    BY <1>1, <1>5
  <2> HIDE DEF i
  <2>3. P[i - 1] \in Acc(A) /\ P[i] \in Acc(A) /\ P[n] \in Acc(A) /\ P[i] = Executed(P[i - 1], lmds[i])
    BY <1>2, <1>3, <2>1
  <2>4. Begins(P[i - 1].bytes, P[i].bytes) /\ (P[i].sound => P[i - 1].sound)
    BY <1>1, <2>1, <2>3, ExecutedExtends
  <2>5. P[i - 1].bytes \in Seq(A) /\ P[i].bytes \in Seq(A) /\ P[n].bytes \in Seq(A)
    BY <2>3 DEF Acc
  <2>6. Begins(P[i - 1].bytes, P[n].bytes)
    BY <2>2, <2>4, <2>5, BeginsBeyond
  <2> QED
    BY <2>1, <2>2, <2>4, <2>6
<1>6. Nat \subseteq S
  <2> HIDE DEF S
  <2> QED
    BY <1>4, <1>5, NatInductionSet
<1>7. n - j \in S /\ n - j <= n /\ n - (n - j) = j /\ j \in 0 .. n
  <2>1. j \in 0 .. n
    BY DEF n
  <2>2. n - j \in Nat /\ n - j <= n /\ n - (n - j) = j
    BY <1>1, <2>1
  <2> HIDE DEF S
  <2> QED
    BY <1>6, <2>1, <2>2
<1> QED
  BY <1>3, <1>7 DEF n

-----------------------------------------------------------------------------
(* The blocks of a stream.                                                  *)

\* A block starts with its literals.
LEMMA StartTypes ==
  ASSUME NEW A, NEW a \in StageRec(A), NEW b \in Blk(A)
  PROVE  Start(a.bytes, a.sound, b) \in Acc(A)
BY DEF Start, Acc, StageRec, Blk

\* A block extends the output and never makes it sound again.
LEMMA DecodedBlockExtends ==
  ASSUME NEW A, NEW a \in StageRec(A), NEW b \in Blk(A)
  PROVE  /\ DecodedBlock(a, b) \in StageRec(A) /\ Begins(a.bytes, DecodedBlock(a, b).bytes)
         /\ DecodedBlock(a, b).sound => a.sound
<1> DEFINE start == Start(a.bytes, a.sound, b)
           P == Progress(start, b.lmds)
           n == Len(b.lmds)
<1>1. start \in Acc(A) /\ b.lmds \in Seq(LMD)
  BY StartTypes DEF Blk
<1>2. n \in Nat /\ 0 \in 0 .. n /\ n \in 0 .. n
  BY <1>1
<1>3. DecodedBlock(a, b) = [bytes |-> P[n].bytes, sound |-> P[n].sound]
  BY DEF DecodedBlock
<1>4. start.bytes = a.bytes /\ start.sound = a.sound
  BY DEF Start
<1> HIDE DEF start
<1>5. P[0] = start
  BY <1>1, ProgressIs
<1> HIDE DEF P
<1>6. P[n] \in Acc(A) /\ Begins(P[0].bytes, P[n].bytes) /\ (P[n].sound => P[0].sound)
  <2>1. Begins(P[0].bytes, P[n].bytes) /\ (P[n].sound => P[0].sound)
    BY <1>1, <1>2, ProgressExtends DEF P
  <2>2. P[n] \in Acc(A)
    BY <1>1, <1>2, ProgressExtends DEF P
  <2> QED
    BY <2>1, <2>2
<1> HIDE DEF n
<1>7. [bytes |-> P[n].bytes, sound |-> P[n].sound] \in StageRec(A)
  BY <1>6 DEF Acc, StageRec
<1> QED
  BY <1>3, <1>4, <1>5, <1>6, <1>7

\* A block without literals and triples means nothing.
LEMMA EmptyBlockDecoded ==
  ASSUME NEW A, NEW a \in StageRec(A), NEW b \in Blk(A), b.lmds = <<>>
  PROVE  DecodedBlock(a, b) = a
<1>1. Len(<<>>) = 0 /\ <<>> \in Seq(LMD)
  OBVIOUS
<1>2. Start(a.bytes, a.sound, b) \in Acc(A)
  BY StartTypes
<1>3. Progress(Start(a.bytes, a.sound, b), <<>>)[0] = Start(a.bytes, a.sound, b)
  BY <1>1, <1>2, ProgressIs
<1>4. DecodedBlock(a, b) = [bytes |-> a.bytes, sound |-> a.sound]
  BY <1>1, <1>3 DEF DecodedBlock, Start
<1>5. a = [bytes |-> a.bytes, sound |-> a.sound]
  BY DEF StageRec
<1> QED
  BY <1>4, <1>5

\* Stages obeys its recursive equation, has its types, and each of its elements
\* begins with those before, sound only after sound ones.
LEMMA StagesIs ==
  ASSUME NEW A, NEW blocks \in Seq(Blk(A))
  PROVE  /\ Stages(blocks)[0] = [bytes |-> <<>>, sound |-> TRUE]
         /\ \A i \in 1 .. Len(blocks) :
              Stages(blocks)[i] = DecodedBlock(Stages(blocks)[i - 1], blocks[i])
<1> DEFINE n == Len(blocks)
           start == [bytes |-> <<>>, sound |-> TRUE]
           F == [i \in 1 .. n |-> [a \in StageRec(A) |-> DecodedBlock(a, blocks[i])]]
           Is(p) == p = [i \in 0 .. n |-> IF i = 0 THEN [bytes |-> <<>>, sound |-> TRUE]
                                          ELSE DecodedBlock(p[i - 1], blocks[i])]
           P == CHOOSE p : Is(p)
<1>1. n \in Nat /\ \A i \in 1 .. n : blocks[i] \in Blk(A)
  OBVIOUS
<1>2. \A i \in 1 .. n : \A a \in StageRec(A) :
        F[i][a] = DecodedBlock(a, blocks[i]) /\ F[i][a] \in StageRec(A)
  BY <1>1, DecodedBlockExtends
<1>3. start \in StageRec(A)
  BY DEF StageRec
<1>4. \E p : Is(p)
  <2> HIDE DEF F, start
  <2>1. PICK p \in [0 .. n -> StageRec(A)] : Iterates(p, start, n, F)
    <3> HIDE DEF n
    <3> QED
      BY <1>1, <1>2, <1>3, RecursiveFunction
  <2>2. ASSUME NEW i \in 0 .. n, i # 0 PROVE F[i][p[i - 1]] = DecodedBlock(p[i - 1], blocks[i])
    <3>1. i \in 1 .. n /\ i - 1 \in 0 .. n
      BY <2>2
    <3>2. p[i - 1] \in StageRec(A)
      BY <3>1
    <3> QED
      BY <1>2, <3>1, <3>2
  <2>3. p = [i \in 0 .. n |-> IF i = 0 THEN start ELSE DecodedBlock(p[i - 1], blocks[i])]
    BY <2>1, <2>2 DEF Iterates
  <2> QED
    BY <2>3 DEF start
<1>5. Is(P)
  BY <1>4
<1>6. Stages(blocks) = P
  BY DEF Stages
<1>7. P = [i \in 0 .. n |-> IF i = 0 THEN [bytes |-> <<>>, sound |-> TRUE]
                            ELSE DecodedBlock(P[i - 1], blocks[i])]
  BY <1>5
<1> HIDE DEF P
<1>8. P[0] = [bytes |-> <<>>, sound |-> TRUE] /\ \A i \in 1 .. n : P[i] = DecodedBlock(P[i - 1], blocks[i])
  <2> HIDE DEF n
  <2>1. 0 \in 0 .. n /\ P[0] = [bytes |-> <<>>, sound |-> TRUE]
    BY <1>1, <1>7
  <2>2. ASSUME NEW i \in 1 .. n PROVE P[i] = DecodedBlock(P[i - 1], blocks[i])
    <3>1. i \in 0 .. n /\ i # 0
      BY <1>1
    <3> QED
      BY <1>7, <3>1
  <2> QED
    BY <2>1, <2>2
<1> QED
  BY <1>6, <1>8

\* The output after every block.
LEMMA StagesTypes ==
  ASSUME NEW A, NEW blocks \in Seq(Blk(A))
  PROVE  \A i \in 0 .. Len(blocks) : Stages(blocks)[i] \in StageRec(A)
<1> DEFINE n == Len(blocks)
           P == Stages(blocks)
<1>1. n \in Nat /\ \A i \in 1 .. n : blocks[i] \in Blk(A)
  OBVIOUS
<1>2. P[0] = [bytes |-> <<>>, sound |-> TRUE]
      /\ \A i \in 1 .. n : P[i] = DecodedBlock(P[i - 1], blocks[i])
  BY StagesIs
<1>3. P[0] \in StageRec(A)
  BY <1>2 DEF StageRec
<1> HIDE DEF n, P
<1>4. \A i \in 1 .. n : P[i - 1] \in StageRec(A) => P[i] \in StageRec(A)
  <2> SUFFICES ASSUME NEW i \in 1 .. n, P[i - 1] \in StageRec(A) PROVE P[i] \in StageRec(A)
    OBVIOUS
  <2>1. blocks[i] \in Blk(A) /\ P[i] = DecodedBlock(P[i - 1], blocks[i])
    BY <1>1, <1>2
  <2>2. DecodedBlock(P[i - 1], blocks[i]) \in StageRec(A)
    BY <2>1, DecodedBlockExtends
  <2> QED
    BY <2>1, <2>2
<1>5. \A i \in 0 .. n : P[i] \in StageRec(A)
  BY <1>1, <1>3, <1>4, HandedOn
<1> QED
  BY <1>5 DEF n, P

\* The output after a block is the beginning of the output after all.
LEMMA StagesExtend ==
  ASSUME NEW A, NEW blocks \in Seq(Blk(A)), NEW j \in 0 .. Len(blocks),
         NEW P, P = Stages(blocks)
  PROVE  /\ Begins(P[j].bytes, P[Len(blocks)].bytes)
         /\ P[Len(blocks)].sound => P[j].sound
<1> DEFINE n == Len(blocks)
           S == {k \in Nat : k <= n => /\ Begins(P[n - k].bytes, P[n].bytes)
                                       /\ P[n].sound => P[n - k].sound}
<1>1. n \in Nat /\ \A i \in 1 .. n : blocks[i] \in Blk(A)
  OBVIOUS
<1>2. \A i \in 1 .. n : P[i] = DecodedBlock(P[i - 1], blocks[i])
  BY StagesIs
<1>3. \A i \in 0 .. n : P[i] \in StageRec(A)
  BY StagesTypes
<1> HIDE DEF n
<1>4. 0 \in S
  <2>1. n - 0 = n /\ P[n] \in StageRec(A)
    BY <1>1, <1>3
  <2>2. P[n].bytes \in Seq(A)
    BY <2>1 DEF StageRec
  <2>3. Begins(P[n].bytes, P[n].bytes)
    BY <2>2, BeginsItself
  <2> QED
    BY <2>1, <2>3
<1>5. ASSUME NEW k \in Nat, k \in S PROVE k + 1 \in S
  <2> SUFFICES ASSUME k + 1 <= n
               PROVE  /\ Begins(P[n - (k + 1)].bytes, P[n].bytes)
                      /\ P[n].sound => P[n - (k + 1)].sound
    OBVIOUS
  <2> DEFINE i == n - k
  <2>1. i \in 1 .. n /\ i - 1 = n - (k + 1) /\ i - 1 \in 0 .. n /\ n \in 0 .. n /\ i \in 0 .. n
    BY <1>1
  <2>2. Begins(P[i].bytes, P[n].bytes) /\ (P[n].sound => P[i].sound)
    BY <1>1, <1>5
  <2> HIDE DEF i
  <2>3. /\ P[i - 1] \in StageRec(A) /\ P[i] \in StageRec(A) /\ P[n] \in StageRec(A)
        /\ P[i] = DecodedBlock(P[i - 1], blocks[i])
    BY <1>2, <1>3, <2>1
  <2>4. Begins(P[i - 1].bytes, P[i].bytes) /\ (P[i].sound => P[i - 1].sound)
    BY <1>1, <2>1, <2>3, DecodedBlockExtends
  <2>5. P[i - 1].bytes \in Seq(A) /\ P[i].bytes \in Seq(A) /\ P[n].bytes \in Seq(A)
    BY <2>3 DEF StageRec
  <2>6. Begins(P[i - 1].bytes, P[n].bytes)
    BY <2>2, <2>4, <2>5, BeginsBeyond
  <2> QED
    BY <2>1, <2>2, <2>4, <2>6
<1>6. Nat \subseteq S
  <2> HIDE DEF S
  <2> QED
    BY <1>4, <1>5, NatInductionSet
<1>7. n - j \in S /\ n - j <= n /\ n - (n - j) = j
  <2>1. j \in 0 .. n
    BY DEF n
  <2>2. n - j \in Nat /\ n - j <= n /\ n - (n - j) = j
    BY <1>1, <2>1
  <2> HIDE DEF S
  <2> QED
    BY <1>6, <2>1, <2>2
<1> QED
  BY <1>7 DEF n

\* Blocks without triples at the end of a stream add nothing.
LEMMA StagesEnd ==
  ASSUME NEW A, NEW blocks \in Seq(Blk(A)), NEW j \in 0 .. Len(blocks),
         \A i \in j + 1 .. Len(blocks) : blocks[i].lmds = <<>>
  PROVE  Stages(blocks)[Len(blocks)] = Stages(blocks)[j]
<1> DEFINE n == Len(blocks)
           P == Stages(blocks)
           S == {k \in Nat : j + k <= n => P[j + k] = P[j]}
<1>1. n \in Nat /\ j \in 0 .. n /\ \A i \in 1 .. n : blocks[i] \in Blk(A)
  OBVIOUS
<1>2. \A i \in 1 .. n : P[i] = DecodedBlock(P[i - 1], blocks[i])
  BY StagesIs
<1>3. \A i \in 0 .. n : P[i] \in StageRec(A)
  BY StagesTypes
<1>4. \A i \in j + 1 .. n : blocks[i].lmds = <<>>
  OBVIOUS
<1> HIDE DEF n, P
<1>5. 0 \in S
  BY <1>1
<1>6. ASSUME NEW k \in Nat, k \in S PROVE k + 1 \in S
  <2> SUFFICES ASSUME j + (k + 1) <= n PROVE P[j + (k + 1)] = P[j]
    OBVIOUS
  <2> DEFINE i == j + (k + 1)
  <2>1. i \in 1 .. n /\ i \in j + 1 .. n /\ i - 1 = j + k /\ j + k <= n /\ i - 1 \in 0 .. n
    BY <1>1
  <2>2. P[j + k] = P[j]
    BY <1>6, <2>1
  <2> HIDE DEF i
  <2>3. P[i] = DecodedBlock(P[i - 1], blocks[i]) /\ blocks[i].lmds = <<>> /\ blocks[i] \in Blk(A)
        /\ P[i - 1] \in StageRec(A)
    BY <1>1, <1>2, <1>3, <1>4, <2>1
  <2>4. P[i] = P[i - 1]
    BY <2>3, EmptyBlockDecoded
  <2> QED
    BY <2>1, <2>2, <2>4 DEF i
<1>7. Nat \subseteq S
  <2> HIDE DEF S
  <2> QED
    BY <1>5, <1>6, NatInductionSet
<1>8. n - j \in S /\ j + (n - j) = n
  <2>1. n - j \in Nat /\ j + (n - j) = n
    BY <1>1
  <2> HIDE DEF S
  <2> QED
    BY <1>7, <2>1
<1> QED
  BY <1>8 DEF n, P
=============================================================================

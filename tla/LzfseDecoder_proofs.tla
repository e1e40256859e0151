------------------------ MODULE LzfseDecoder_proofs ------------------------
(***************************************************************************)
(* Theorems about LzfseDecoder.                                            *)
(***************************************************************************)
EXTENDS LzfseDecoder, LzBlocks_proofs

\* What the decoder has, and how much of it.
TypeInv ==
  /\ input \in [items : Seq(StreamItem), size : Nat]
  /\ pc \in {"decode", "srcEmpty", "ok", "error", "dstFull"}
  /\ rest \in Seq(StreamItem) /\ todo \in Seq(LMD)
  /\ block \in StreamItem \cup {NoBlock}
  /\ size \in Nat /\ dst \in 0 .. size /\ top \in 0 .. size
  /\ mem \in [0 .. size - 1 -> Byte \cup {Outside}]
  /\ lits \in [0 .. LitCap - 1 -> Byte] /\ lit \in 0 .. LitCap
  /\ held \in [l : Nat, m : Nat, d : Int] /\ raw \in Nat

\* What was written counts only as far as it was read from somewhere; a triple
\* that was interrupted has a distance and its literals.
ConfinedInv ==
  /\ \A i \in 0 .. dst - 1 : mem[i] \in Byte
  /\ block.kind = "lz" => held.d # 0 /\ lit + held.l <= LitCap
  /\ block.kind = "raw" => raw <= block.raw /\ block.raw - raw <= Len(block.lits)

SafeInv == TypeInv /\ ConfinedInv

-----------------------------------------------------------------------------
\* The greater of two numbers.
LEMMA MaxOfTwo ==
  ASSUME NEW a \in Int, NEW b \in Int
  PROVE  Max({a, b}) \in {a, b} /\ a <= Max({a, b}) /\ b <= Max({a, b})
<1>1. \E x \in {a, b} : \A y \in {a, b} : x >= y
  <2>1. CASE a <= b
    BY <2>1
  <2>2. CASE ~(a <= b)
    BY <2>2
  <2> QED
    BY <2>1, <2>2
<1>2. Max({a, b}) = CHOOSE x \in {a, b} : \A y \in {a, b} : x >= y
  BY DEF Max
<1> QED
  BY <1>1, <1>2

\* The greatest of three numbers.
LEMMA MaxOfThree ==
  ASSUME NEW a \in Int, NEW b \in Int, NEW c \in Int
  PROVE  /\ Max({a, b, c}) \in {a, b, c}
         /\ a <= Max({a, b, c}) /\ b <= Max({a, b, c}) /\ c <= Max({a, b, c})
<1>1. \E x \in {a, b, c} : \A y \in {a, b, c} : x >= y
  <2>1. CASE a <= b /\ c <= b
    BY <2>1
  <2>2. CASE a <= c /\ b <= c
    BY <2>2
  <2>3. CASE b <= a /\ c <= a
    BY <2>3
  <2> QED
    BY <2>1, <2>2, <2>3
<1>2. Max({a, b, c}) = CHOOSE x \in {a, b, c} : \A y \in {a, b, c} : x >= y
  BY DEF Max
<1> QED
  BY <1>1, <1>2

\* The least of three numbers.
LEMMA LeastOfThree ==
  ASSUME NEW a \in Int, NEW b \in Int, NEW c \in Int
  PROVE  /\ Least({a, b, c}) \in {a, b, c}
         /\ Least({a, b, c}) <= a /\ Least({a, b, c}) <= b /\ Least({a, b, c}) <= c
<1>1. \E x \in {a, b, c} : \A y \in {a, b, c} : x <= y
  <2>1. CASE b <= a /\ b <= c
    BY <2>1
  <2>2. CASE c <= a /\ c <= b
    BY <2>2
  <2>3. CASE a <= b /\ a <= c
    BY <2>3
  <2> QED
    BY <2>1, <2>2, <2>3
<1>2. Least({a, b, c}) = CHOOSE x \in {a, b, c} : \A y \in {a, b, c} : x <= y
  BY DEF Least
<1> QED
  BY <1>1, <1>2

\* A wide copy writes less than a stride too much.
LEMMA WideBounds ==
  ASSUME NEW n \in Nat
  PROVE  Wide(n) \in Nat /\ n <= Wide(n) /\ Wide(n) <= n + Width
<1>1. Width \in Nat /\ Width > 0
  BY WidthAssumption
<1>2. CASE n <= Width
  BY <1>1, <1>2 DEF Wide
<1>3. CASE ~(n <= Width)
  <2> DEFINE q == (n + Width - 1) \div Width
  <2>1. q \in Int /\ Width * q <= n + Width - 1 /\ n + Width - 1 < Width * q + Width
    BY <1>1, DivBounds
  <2>2. Wide(n) = Width * q
    BY <1>3 DEF Wide
  <2>3. Width * q \in Int
    BY <1>1, <2>1
  <2> HIDE DEF q
  <2> QED
    BY <1>1, <2>1, <2>2, <2>3
<1> QED
  BY <1>2, <1>3

-----------------------------------------------------------------------------
(* The copies.  Each leaves what is in front of it, and what it is asked to  *)
(* write are bytes.                                                         *)

\* A function on the addresses of a destination whose first n are bytes.
Written(m, n) ==
  /\ m \in [0 .. size - 1 -> Byte \cup {Outside}]
  /\ \A i \in 0 .. n - 1 : m[i] \in Byte

\* w is m up to n.
Kept(w, m, n) == \A i \in 0 .. n - 1 : w[i] = m[i]

\* l literals from number k on are at p.
HasLiterals(w, p, l, k) == \A i \in 0 .. l - 1 : w[p + i] = lits[k + i]

\* n bytes at p are those of m from distance d on, again and again.
Repeats(w, m, p, n, d) == \A i \in 0 .. n - 1 : w[p + i] = m[p - d + (i % d)]

\* The first k of n values to copy are bytes.
Supplies(from, n, k) ==
  /\ \A i \in 0 .. n - 1 : from[i] \in Byte \cup {Outside}
  /\ \A i \in 0 .. k - 1 : from[i] \in Byte

\* A copy keeps what is before it, and its first k bytes are those supplied.
LEMMA OverKeeps ==
  ASSUME NEW m, NEW p \in Nat, NEW n \in Nat, NEW k \in 0 .. n, p + k <= size, size \in Nat,
         NEW from, Supplies(from, n, k), Written(m, p)
  PROVE  /\ Written(Over(m, p, n, from), p + k)
         /\ \A i \in 0 .. p - 1 : Over(m, p, n, from)[i] = m[i]
         /\ \A i \in 0 .. k - 1 : Over(m, p, n, from)[p + i] = from[i]
<1> DEFINE w == Over(m, p, n, from)
<1>1. DOMAIN m = 0 .. size - 1
  BY DEF Written
<1>2. w = [i \in 0 .. size - 1 |-> IF i \in p .. p + n - 1 THEN from[i - p] ELSE m[i]]
  BY <1>1 DEF Over
<1> HIDE DEF w
<1>3. ASSUME NEW i \in 0 .. size - 1 PROVE w[i] \in Byte \cup {Outside}
  <2>1. CASE i \in p .. p + n - 1
    <3>1. i - p \in 0 .. n - 1
      BY <2>1
    <3> QED
      BY <1>2, <2>1, <3>1 DEF Supplies
  <2>2. CASE i \notin p .. p + n - 1
    BY <1>2, <2>2 DEF Written
  <2> QED
    BY <2>1, <2>2
<1>4. ASSUME NEW i \in 0 .. p - 1 PROVE w[i] = m[i]
  BY <1>2
<1>5. ASSUME NEW i \in 0 .. k - 1 PROVE w[p + i] = from[i]
  <2>1. p + i \in 0 .. size - 1 /\ p + i \in p .. p + n - 1 /\ p + i - p = i
    OBVIOUS
  <2> QED
    BY <1>2, <2>1
<1>6. ASSUME NEW i \in 0 .. p + k - 1 PROVE w[i] \in Byte
  <2>1. CASE i < p
    BY <1>4, <2>1 DEF Written
  <2>2. CASE ~(i < p)
    <3>1. i - p \in 0 .. k - 1 /\ p + (i - p) = i
      BY <2>2
    <3> QED
      BY <1>5, <3>1 DEF Supplies
  <2> QED
    BY <2>1, <2>2
<1>7. w \in [0 .. size - 1 -> Byte \cup {Outside}]
  BY <1>2, <1>3
<1> QED
  BY <1>4, <1>5, <1>6, <1>7 DEF Written, w

\* What the copies of Fast and Slow have in common.
LiteralsOver(m, p, n) == Over(m, p, n, [i \in 0 .. n - 1 |-> LitAt(lit + i)])

MatchOver(m, p, k, d, stride) ==
  Over(m, p, k, [i \in 0 .. k - 1 |-> At(m, p - d + Back(i, d, stride))])

\* The wide and the exact copies differ in how many bytes they touch only.
LEMMA CopiesAsOver ==
  /\ \A m, p, l : WideLiterals(m, p, l) = LiteralsOver(m, p, Wide(l))
  /\ \A m, p, l : ExactLiterals(m, p, l) = LiteralsOver(m, p, l)
  /\ \A m, p, n, d : WideMatch(m, p, n, d) = MatchOver(m, p, Wide(n), d, Width)
  /\ \A m, p, n, d : ExactMatch(m, p, n, d) = MatchOver(m, p, n, d, 1)
BY DEF WideLiterals, ExactLiterals, WideMatch, ExactMatch, LiteralsOver, MatchOver

\* A literal is a byte or lies outside the array; within the array it is a byte.
LEMMA LiteralsRead ==
  ASSUME lits \in [0 .. LitCap - 1 -> Byte], lit \in Nat
  PROVE  /\ \A i \in Nat : LitAt(lit + i) \in Byte \cup {Outside}
         /\ \A i \in Nat : lit + i < LitCap => LitAt(lit + i) = lits[lit + i] /\ LitAt(lit + i) \in Byte
BY WidthAssumption DEF LitAt, LitCap

\* Literals, copied in strides or byte by byte.
LEMMA LiteralsCopied ==
  ASSUME NEW m, NEW p \in Nat, NEW l \in Nat, NEW n \in Nat, l <= n, p + l <= size, size \in Nat,
         lits \in [0 .. LitCap - 1 -> Byte], lit \in Nat, lit + l <= LitCap,
         Written(m, p),
         NEW w, w = LiteralsOver(m, p, n)
  PROVE  /\ Written(w, p + l)
         /\ Kept(w, m, p)
         /\ HasLiterals(w, p, l, lit)
<1> DEFINE from == [i \in 0 .. n - 1 |-> LitAt(lit + i)]
<1>1. \A i \in 0 .. n - 1 : from[i] \in Byte \cup {Outside}
  BY LiteralsRead
<1>2. LitCap \in Nat
  BY WidthAssumption DEF LitCap
<1>3. \A i \in 0 .. l - 1 : from[i] = lits[lit + i] /\ from[i] \in Byte
  BY <1>2, LiteralsRead
<1>4. w = Over(m, p, n, from) /\ l \in 0 .. n
  BY DEF LiteralsOver
<1>5. Supplies(from, n, l)
  <2> HIDE DEF from
  <2> QED
    BY <1>1, <1>3 DEF Supplies
<1> HIDE DEF from
<1>6. /\ Written(w, p + l)
      /\ \A i \in 0 .. p - 1 : w[i] = m[i]
      /\ \A i \in 0 .. l - 1 : w[p + i] = from[i]
  <2> SUFFICES /\ Written(Over(m, p, n, from), p + l)
               /\ \A i \in 0 .. p - 1 : Over(m, p, n, from)[i] = m[i]
               /\ \A i \in 0 .. l - 1 : Over(m, p, n, from)[p + i] = from[i]
    BY <1>4
  <2> QED
    BY <1>4, <1>5, OverKeeps
<1> QED
  BY <1>3, <1>6 DEF Kept, HasLiterals

\* A match: the bytes in front of it from distance d on, again and again.
LEMMA MatchCopied ==
  ASSUME NEW m, NEW p \in Nat, NEW n \in Nat, NEW k \in Nat, n <= k, p + n <= size, size \in Nat,
         NEW d \in 1 .. p, NEW stride \in Nat, d >= stride \/ d >= n,
         Written(m, p),
         NEW w, w = MatchOver(m, p, k, d, stride)
  PROVE  /\ Written(w, p + n)
         /\ Kept(w, m, p)
         /\ Repeats(w, m, p, n, d)
<1> DEFINE from == [i \in 0 .. k - 1 |-> At(m, p - d + Back(i, d, stride))]
<1>1. m \in [0 .. size - 1 -> Byte \cup {Outside}] /\ d \in Nat /\ d > 0
  BY DEF Written
<1>2. \A i \in 0 .. k - 1 : from[i] \in Byte \cup {Outside}
  BY <1>1 DEF At
<1>3. ASSUME NEW i \in 0 .. n - 1
      PROVE  from[i] = m[p - d + (i % d)] /\ from[i] \in Byte
  <2>1. i % d \in 0 .. d - 1
    BY <1>1, ModRange
  <2>2. Back(i, d, stride) = i % d
    <3>1. CASE d >= stride
      BY <3>1 DEF Back
    <3>2. CASE ~(d >= stride)
      <4>1. i < d /\ i \in Nat /\ d \in Nat
        BY <3>2
      <4>2. i % d = i
        BY <4>1, ModSmall
      <4> QED
        BY <3>2, <4>2 DEF Back
    <3> QED
      BY <3>1, <3>2
  <2> DEFINE j == p - d + (i % d)
  <2>3. j \in 0 .. p - 1 /\ j \in 0 .. size - 1
    BY <2>1, <1>1
  <2>4. from[i] = At(m, j)
    BY <2>2
  <2> HIDE DEF j
  <2>5. At(m, j) = m[j] /\ m[j] \in Byte
    BY <1>1, <2>3 DEF At, Written
  <2>6. from[i] = m[j] /\ from[i] \in Byte
    BY <2>4, <2>5
  <2> QED
    BY <2>6 DEF j
<1>4. w = Over(m, p, k, from) /\ n \in 0 .. k
  BY DEF MatchOver
<1>5. Supplies(from, k, n)
  <2> HIDE DEF from
  <2> QED
    BY <1>2, <1>3 DEF Supplies
<1> HIDE DEF from
<1>6. /\ Written(w, p + n)
      /\ \A i \in 0 .. p - 1 : w[i] = m[i]
      /\ \A i \in 0 .. n - 1 : w[p + i] = from[i]
  <2> SUFFICES /\ Written(Over(m, p, k, from), p + n)
               /\ \A i \in 0 .. p - 1 : Over(m, p, k, from)[i] = m[i]
               /\ \A i \in 0 .. n - 1 : Over(m, p, k, from)[p + i] = from[i]
    BY <1>4
  <2> QED
    BY <1>4, <1>5, OverKeeps
<1> QED
  BY <1>3, <1>6 DEF Kept, Repeats

-----------------------------------------------------------------------------
(* What a triple does to the destination, whichever copies are taken.       *)

\* a literals and then b bytes from distance d were added.
Added(a, b, d) ==
  /\ dst' = dst + a + b /\ dst' \in 0 .. size /\ top' \in 0 .. size
  /\ Written(mem', dst')
  /\ Kept(mem', mem, dst)
  /\ HasLiterals(mem', dst, a, lit)
  /\ Repeats(mem', mem', dst + a, b, d)

\* A copy of literals and then one of a match execute a triple.
LEMMA AddedByTwo ==
  ASSUME NEW a \in Nat, NEW b \in Nat, NEW d \in Nat, d > 0, dst \in Nat,
         size \in Nat, dst + a + b <= size,
         NEW w, Written(w, dst + a),
         Kept(w, mem, dst), HasLiterals(w, dst, a, lit),
         Written(mem', dst + a + b),
         Kept(mem', w, dst + a), b > 0 => d <= dst + a, Repeats(mem', w, dst + a, b, d),
         dst' = dst + a + b, top' \in 0 .. size
  PROVE  Added(a, b, d)
<1>1. ASSUME NEW i \in 0 .. dst - 1 PROVE mem'[i] = mem[i]
  BY DEF Kept
<1>2. ASSUME NEW i \in 0 .. a - 1 PROVE mem'[dst + i] = lits[lit + i]
  <2>1. dst + i \in 0 .. dst + a - 1
    OBVIOUS
  <2> QED
    BY <2>1 DEF Kept, HasLiterals
<1>3. ASSUME NEW i \in 0 .. b - 1
      PROVE  mem'[dst + a + i] = mem'[dst + a - d + (i % d)]
  <2>1. i % d \in 0 .. d - 1
    BY ModRange
  <2>2. d <= dst + a
    OBVIOUS
  <2> DEFINE j == dst + a - d + (i % d)
  <2>3. j \in 0 .. dst + a - 1
    BY <2>1, <2>2
  <2>4. mem'[dst + a + i] = w[j]
    BY DEF Repeats
  <2> HIDE DEF j
  <2>5. mem'[dst + a + i] = mem'[j]
    BY <2>3, <2>4 DEF Kept
  <2> QED
    BY <2>5 DEF j
<1>4. dst' \in 0 .. size /\ Written(mem', dst')
  OBVIOUS
<1> QED
  BY <1>1, <1>2, <1>3, <1>4 DEF Added, Kept, HasLiterals, Repeats

\* The step is one of a decoder with room for its literals.
Ready(l, m, d) ==
  /\ SafeInv /\ l \in Nat /\ m \in Nat /\ d \in Int \ {0} /\ lit + l <= LitCap

\* The fast path executes the whole triple.
LEMMA FastAdds ==
  ASSUME NEW l, NEW m, NEW d, Ready(l, m, d), Fast(l, m, d)
  PROVE  /\ Added(l, m, d) /\ d \in 1 .. dst + l
         /\ lit' = lit + l /\ held' = Triple(0, 0, d) /\ pc' = pc
<1>t. /\ size \in Nat /\ dst \in 0 .. size /\ top \in 0 .. size /\ lit \in Nat
      /\ lits \in [0 .. LitCap - 1 -> Byte] /\ Written(mem, dst)
      /\ l \in Nat /\ m \in Nat /\ lit + l <= LitCap
  BY WidthAssumption DEF Ready, SafeInv, TypeInv, ConfinedInv, Written
<1>1. d \in Nat /\ d > 0 /\ d <= dst + l
  BY DEF Fast, InRange, Ready
<1>2. dst + l + m <= size - Margin
  <2>1. l + m <= size - dst - Margin
    BY DEF Fast, Roomy
  <2> QED
    BY <1>t, <2>1, WidthAssumption
<1>3. Wide(l) \in Nat /\ l <= Wide(l) /\ Wide(l) <= l + Width
  BY <1>t, WideBounds
<1>4. Wide(m) \in Nat /\ m <= Wide(m) /\ Wide(m) <= m + Width
  BY <1>t, WideBounds
<1>5. Width \in Nat /\ Width > 0 /\ Margin \in Nat /\ Margin >= Width
  BY WidthAssumption
<1> DEFINE w == WideLiterals(mem, dst, l)
<1>6. /\ Written(w, dst + l)
      /\ Kept(w, mem, dst) /\ HasLiterals(w, dst, l, lit)
  <2>1. w = LiteralsOver(mem, dst, Wide(l))
    BY CopiesAsOver
  <2>2. dst + l <= size
    BY <1>t, <1>2, <1>5
  <2> HIDE DEF w
  <2> QED
    BY <1>t, <1>3, <2>1, <2>2, LiteralsCopied
<1>7. /\ Written(mem', dst + l + m)
      /\ Kept(mem', w, dst + l) /\ Repeats(mem', w, dst + l, m, d)
  <2> DEFINE p == dst + l
  <2>1. p \in Nat /\ p + m <= size /\ d \in 1 .. p
    BY <1>t, <1>1, <1>2, <1>5
  <2>2. Written(w, p)
    BY <1>6
  <2>3. CASE WideMatchAllowed(m, d)
    <3>1. mem' = MatchOver(w, p, Wide(m), d, Width)
      BY <2>3, CopiesAsOver DEF Fast
    <3>2. d >= Width \/ d >= m
      BY <2>3 DEF WideMatchAllowed
    <3> HIDE DEF p, w
    <3>3. Written(mem', p + m) /\ Kept(mem', w, p) /\ Repeats(mem', w, p, m, d)
      BY <1>t, <1>4, <1>5, <2>1, <2>2, <3>1, <3>2, MatchCopied
    <3> QED
      BY <3>3 DEF p
  <2>4. CASE ~WideMatchAllowed(m, d)
    <3>1. mem' = MatchOver(w, p, m, d, 1)
      BY <2>4, CopiesAsOver DEF Fast
    <3>2. d >= 1
      BY <1>1
    <3> HIDE DEF p, w
    <3>3. Written(mem', p + m) /\ Kept(mem', w, p) /\ Repeats(mem', w, p, m, d)
      BY <1>t, <2>1, <2>2, <3>1, <3>2, MatchCopied
    <3> QED
      BY <3>3 DEF p
  <2> QED
    BY <2>3, <2>4
<1>8. dst' = dst + l + m /\ lit' = lit + l /\ held' = Triple(0, 0, d) /\ pc' = pc
  BY DEF Fast
<1>9. top' \in 0 .. size
  <2> DEFINE a == dst + Wide(l)
             b == IF WideMatchAllowed(m, d) THEN dst + l + Wide(m) ELSE dst + l + m
  <2>1. top' = Max({top, a, b})
    BY DEF Fast
  <2>2. a \in 0 .. size /\ b \in 0 .. size
    BY <1>t, <1>2, <1>3, <1>4, <1>5
  <2> HIDE DEF a, b
  <2>3. Max({top, a, b}) \in {top, a, b}
    <3>1. top \in Int /\ a \in Int /\ b \in Int
      BY <1>t, <2>2
    <3> QED
      BY <3>1, MaxOfThree
  <2> QED
    BY <1>t, <2>1, <2>2, <2>3
<1>10. dst + l + m <= size
  BY <1>t, <1>2, <1>5
<1> HIDE DEF w
<1>11. Added(l, m, d)
  BY <1>t, <1>1, <1>6, <1>7, <1>8, <1>9, <1>10, AddedByTwo
<1> QED
  BY <1>1, <1>8, <1>11, <1>t

\* What Slow and Fast have in common: a of the literals and b bytes of the match
\* are there, and what is missing is held.
Advanced(l, m, d, a, b) ==
  /\ a \in 0 .. l /\ b \in 0 .. m /\ (a < l => b = 0)
  /\ Added(a, b, d) /\ d \in 1 .. dst + l
  /\ lit' = lit + a /\ held' = Triple(l - a, m - b, d)
  /\ \/ a = l /\ b = m /\ pc' = pc
     \/ a + b < l + m /\ dst' = size /\ pc' = "dstFull"

\* The slow path executes the triple as far as dst has room.
LEMMA SlowAdds ==
  ASSUME NEW l, NEW m, NEW d, Ready(l, m, d), Slow(l, m, d)
  PROVE  \E a \in 0 .. l, b \in 0 .. m : Advanced(l, m, d, a, b)
<1>t. /\ size \in Nat /\ dst \in 0 .. size /\ top \in 0 .. size /\ lit \in Nat
      /\ lits \in [0 .. LitCap - 1 -> Byte] /\ Written(mem, dst)
      /\ l \in Nat /\ m \in Nat /\ lit + l <= LitCap
  BY WidthAssumption DEF Ready, SafeInv, TypeInv, ConfinedInv, Written
<1>1. d \in Nat /\ d > 0 /\ d <= dst + l
  BY DEF Slow, InRange, Ready
<1> DEFINE room == size - dst
           a == IF FitsExactly(l, room) THEN l ELSE room
           b == IF a < l THEN 0 ELSE IF FitsExactly(m, room - l) THEN m ELSE room - l
           w == ExactLiterals(mem, dst, a)
<1>2. /\ mem' = ExactMatch(w, dst + a, b, d) /\ dst' = dst + a + b
      /\ top' = Max({top, dst + a + b}) /\ lit' = lit + a
      /\ held' = Triple(l - a, m - b, d)
      /\ pc' = IF FitsExactly(l, room) /\ FitsExactly(m, room - l) THEN pc ELSE "dstFull"
  BY DEF Slow
<1>3. /\ a \in 0 .. l /\ b \in 0 .. m /\ (a < l => b = 0)
      /\ dst + a \in 0 .. size /\ dst + a + b \in 0 .. size /\ lit + a <= LitCap
  <2>1. LitCap \in Nat
    BY WidthAssumption DEF LitCap
  <2>2. a \in 0 .. l /\ a <= room
    BY <1>t DEF FitsExactly
  <2>3. b \in 0 .. m /\ (a < l => b = 0) /\ a + b <= room
    BY <1>t DEF FitsExactly
  <2> HIDE DEF a, b
  <2> QED
    BY <1>t, <2>1, <2>2, <2>3
<1>4. \/ a = l /\ b = m /\ pc' = pc
      \/ a + b < l + m /\ dst + a + b = size /\ pc' = "dstFull"
  BY <1>t, <1>2 DEF FitsExactly
<1> HIDE DEF a, b
<1>5. Written(w, dst + a) /\ Kept(w, mem, dst) /\ HasLiterals(w, dst, a, lit)
  <2>1. w = LiteralsOver(mem, dst, a)
    BY CopiesAsOver
  <2>2. dst \in Nat /\ a \in Nat /\ a <= a /\ dst + a <= size
    BY <1>t, <1>3
  <2> HIDE DEF w
  <2> QED
    BY <1>t, <1>3, <2>1, <2>2, LiteralsCopied
<1>6. Written(mem', dst + a + b) /\ Kept(mem', w, dst + a) /\ Repeats(mem', w, dst + a, b, d)
  <2> DEFINE p == dst + a
  <2>1. p \in Nat /\ p <= size /\ Written(w, p)
    BY <1>t, <1>3, <1>5
  <2>2. mem' = MatchOver(w, p, b, d, 1)
    BY <1>2, CopiesAsOver
  <2>3. CASE b = 0
    <3> HIDE DEF w, p
    <3>1. w = [i \in DOMAIN w |-> w[i]]
      BY <2>1 DEF Written
    <3>2. MatchOver(w, p, 0, d, 1) = [i \in DOMAIN w |-> w[i]]
      BY <2>1 DEF MatchOver, Over
    <3>3. mem' = w
      BY <2>2, <2>3, <3>1, <3>2
    <3>4. Written(mem', p + b) /\ Kept(mem', w, p) /\ Repeats(mem', w, p, b, d)
      <4>1. p + b = p
        BY <2>1, <2>3
      <4> QED
        BY <2>1, <2>3, <3>3, <4>1 DEF Kept, Repeats
    <3> QED
      BY <3>4 DEF p
  <2>4. CASE b > 0
    <3>1. a = l
      BY <1>t, <1>3, <2>4
    <3>2. d \in 1 .. p /\ b \in Nat /\ p + b <= size
      BY <1>t, <1>1, <1>3, <3>1
    <3>3. d >= 1 /\ 1 \in Nat /\ b <= b
      BY <1>1, <1>3
    <3> HIDE DEF w, p
    <3>4. Written(mem', p + b) /\ Kept(mem', w, p) /\ Repeats(mem', w, p, b, d)
      BY <1>t, <2>1, <2>2, <3>2, <3>3, MatchCopied
    <3> QED
      BY <3>4 DEF p
  <2> QED
    BY <1>3, <2>3, <2>4
<1>7. top' \in 0 .. size
  <2> DEFINE c == dst + a + b
  <2>1. c \in 0 .. size /\ top' = Max({top, c})
    BY <1>2, <1>3
  <2> HIDE DEF c
  <2>2. Max({top, c}) \in {top, c}
    <3>1. top \in Int /\ c \in Int
      BY <1>t, <2>1
    <3> QED
      BY <3>1, MaxOfTwo
  <2> QED
    BY <1>t, <2>1, <2>2
<1>8. Added(a, b, d)
  <2>1. b > 0 => d <= dst + a
    BY <1>t, <1>1, <1>3
  <2>2. a \in Nat /\ b \in Nat /\ dst \in Nat /\ dst + a + b <= size
    BY <1>t, <1>3
  <2> HIDE DEF w
  <2> QED
    BY <1>t, <1>1, <1>2, <1>5, <1>6, <1>7, <2>1, <2>2, AddedByTwo
<1>9. Advanced(l, m, d, a, b)
  <2>1. d \in 1 .. dst + l
    BY <1>t, <1>1
  <2> HIDE DEF w
  <2> QED
    BY <1>2, <1>3, <1>4, <1>8, <2>1 DEF Advanced
<1> QED
  BY <1>3, <1>9

\* A triple is executed as far as dst has room, or its distance is refused.
LEMMA ExecuteAdvances ==
  ASSUME NEW l, NEW m, NEW d, Ready(l, m, d), Execute(l, m, d)
  PROVE  \/ \E a \in 0 .. l, b \in 0 .. m : Advanced(l, m, d, a, b)
         \/ OutOfRange(l, d)
<1>1. CASE Fast(l, m, d)
  <2>1. l \in Nat /\ m \in Nat
    BY DEF Ready
  <2>2. l \in 0 .. l /\ m \in 0 .. m /\ l - l = 0 /\ m - m = 0
    BY <2>1
  <2>3. Advanced(l, m, d, l, m)
    BY <1>1, <2>1, <2>2, FastAdds DEF Advanced
  <2> QED
    BY <2>2, <2>3
<1>2. CASE Slow(l, m, d)
  BY <1>2, SlowAdds
<1> QED
  BY <1>1, <1>2 DEF Execute

-----------------------------------------------------------------------------
(* SafeInv holds always.                                                    *)

\* SafeInv holds at first.
LEMMA SafeInit ==
  ASSUME Init PROVE SafeInv
<1>1. input \in [items : Seq(StreamItem), size : Nat]
  BY InputsAssumption DEF Init
<1>2. LitCap \in Nat /\ 0 \in Byte
  BY WidthAssumption DEF LitCap
<1>3. TypeInv
  BY <1>1, <1>2 DEF Init, TypeInv, Triple
<1>4. ConfinedInv
  BY <1>1 DEF Init, ConfinedInv, NoBlock
<1> QED
  BY <1>3, <1>4 DEF SafeInv

\* An item that was taken from the source.
LEMMA ItemTaken ==
  ASSUME TypeInv, rest # <<>>
  PROVE  rest[1] \in StreamItem /\ Tail(rest) \in Seq(StreamItem)
BY DEF TypeInv

\* The fields of an item of the stream.
LEMMA ItemTypes ==
  ASSUME NEW x \in StreamItem \cup {NoBlock}
  PROVE  /\ x.kind \in {"raw", "lz", "end", "bad", "none"} /\ Len(x.lits) \in Nat
         /\ x.lmds \in Seq(LMD) /\ x.raw \in Nat /\ x.lits \in Seq(Byte)
         /\ (x.kind = "raw" => Len(x.lits) <= x.raw)
<1>1. CASE x \in StreamItem
  BY <1>1 DEF StreamItem, LMD
<1>2. CASE x = NoBlock
  <2>1. <<>> \in Seq(Byte) /\ <<>> \in Seq(LMD) /\ Len(<<>>) = 0
    OBVIOUS
  <2> QED
    BY <1>2, <2>1 DEF NoBlock
<1> QED
  BY <1>1, <1>2

\* OpenCompressed keeps SafeInv.
LEMMA SafeOpenCompressed ==
  ASSUME SafeInv, OpenCompressed PROVE SafeInv'
<1>1. rest[1] \in StreamItem /\ Tail(rest) \in Seq(StreamItem) /\ rest[1].kind = "lz"
  BY ItemTaken DEF SafeInv, OpenCompressed, NextIs
<1>2. rest[1].lits \in Seq(Byte) /\ rest[1].lmds \in Seq(LMD)
  BY <1>1, ItemTypes
<1>3. LitCap \in Nat
  BY WidthAssumption DEF LitCap
<1>4. lits' \in [0 .. LitCap - 1 -> Byte]
  <2> DEFINE new == rest[1].lits
  <2>1. lits' = [i \in 0 .. LitCap - 1 |-> IF i < Len(new) THEN new[i + 1] ELSE lits[i]]
    BY DEF OpenCompressed
  <2>2. new \in Seq(Byte) /\ lits \in [0 .. LitCap - 1 -> Byte]
    BY <1>2 DEF SafeInv, TypeInv
  <2> HIDE DEF new
  <2> QED
    BY <2>1, <2>2
<1>5. TypeInv'
  BY <1>1, <1>2, <1>3, <1>4 DEF SafeInv, TypeInv, OpenCompressed, HeldAtStart, Triple
<1>6. ConfinedInv'
  BY <1>1, <1>3 DEF SafeInv, ConfinedInv, OpenCompressed, HeldAtStart, Triple
<1> QED
  BY <1>5, <1>6 DEF SafeInv

\* OpenRaw keeps SafeInv.
LEMMA SafeOpenRaw ==
  ASSUME SafeInv, OpenRaw PROVE SafeInv'
<1>1. rest[1] \in StreamItem /\ Tail(rest) \in Seq(StreamItem) /\ rest[1].kind = "raw"
  BY ItemTaken DEF SafeInv, OpenRaw, NextIs
<1>2. rest[1].raw \in Nat /\ Len(rest[1].lits) \in Nat
  BY <1>1, ItemTypes
<1>3. TypeInv'
  BY <1>1, <1>2 DEF SafeInv, TypeInv, OpenRaw
<1>4. ConfinedInv'
  BY <1>1, <1>2 DEF SafeInv, ConfinedInv, OpenRaw
<1> QED
  BY <1>3, <1>4 DEF SafeInv

\* n bytes of an uncompressed block, as far as there are any and room for them.
RawCopied(n) ==
  /\ n \in Nat /\ n > 0 /\ n <= raw /\ n <= Available /\ n <= size - dst
  /\ mem' = [i \in 0 .. size - 1 |->
                IF i \in dst .. dst + n - 1
                THEN block.lits[block.raw - raw + i - dst + 1] ELSE mem[i]]
  /\ dst' = dst + n
  /\ top' = IF top < dst + n THEN dst + n ELSE top
  /\ raw' = raw - n
  /\ UNCHANGED <<pc, block>>

\* What a step of a raw block does.
LEMMA CopyRawCases ==
  ASSUME SafeInv, CopyRaw
  PROVE  /\ UNCHANGED <<input, rest, size, lits, lit, todo, held>>
         /\ \/ raw = 0 /\ block' = NoBlock /\ UNCHANGED <<pc, mem, dst, top, raw>>
            \/ /\ raw # 0 /\ Available = 0
               /\ pc' = "srcEmpty" /\ UNCHANGED <<block, mem, dst, top, raw>>
            \/ /\ raw # 0 /\ Available # 0 /\ size = dst
               /\ pc' = "dstFull" /\ UNCHANGED <<block, mem, dst, top, raw>>
            \/ \E n \in Nat : RawCopied(n)
<1>1. block \in StreamItem \cup {NoBlock} /\ raw \in Nat /\ dst \in 0 .. size /\ size \in Nat
  BY DEF SafeInv, TypeInv
<1>2. block.raw \in Nat /\ Len(block.lits) \in Nat /\ block.kind = "raw"
  BY <1>1, ItemTypes DEF CopyRaw, InRaw
<1>3. Available \in Nat
  BY <1>1, <1>2 DEF Available, SafeInv, ConfinedInv
<1>4. CASE raw # 0 /\ Available # 0 /\ ~(size <= dst)
  <2> DEFINE n == Least({raw, Available, size - dst})
  <2>1. n \in {raw, Available, size - dst} /\ n <= raw /\ n <= Available /\ n <= size - dst
    <3>1. raw \in Int /\ Available \in Int /\ size - dst \in Int
      BY <1>1, <1>3
    <3> QED
      BY <3>1, LeastOfThree
  <2>2. n \in Nat /\ n > 0
    BY <1>1, <1>3, <1>4, <2>1
  <2>3. /\ mem' = [i \in 0 .. size - 1 |->
                      IF i \in dst .. dst + n - 1
                      THEN block.lits[block.raw - raw + i - dst + 1] ELSE mem[i]]
        /\ dst' = dst + n /\ top' = (IF top < dst + n THEN dst + n ELSE top)
        /\ raw' = raw - n /\ UNCHANGED <<pc, block>>
    BY <1>4 DEF CopyRaw
  <2> HIDE DEF n
  <2>4. RawCopied(n)
    BY <2>1, <2>2, <2>3 DEF RawCopied
  <2>5. UNCHANGED <<input, rest, size, lits, lit, todo, held>>
    BY DEF CopyRaw
  <2> QED
    BY <2>2, <2>4, <2>5
<1>5. CASE raw = 0 \/ Available = 0 \/ size <= dst
  BY <1>1, <1>5 DEF CopyRaw, Return
<1> QED
  BY <1>4, <1>5

\* CopyRaw keeps SafeInv.
LEMMA SafeCopyRaw ==
  ASSUME SafeInv, CopyRaw PROVE SafeInv'
<1>1. block \in StreamItem \cup {NoBlock} /\ raw \in Nat /\ dst \in 0 .. size /\ size \in Nat
      /\ top \in 0 .. size
  BY DEF SafeInv, TypeInv
<1>2. block.raw \in Nat /\ block.lits \in Seq(Byte) /\ block.kind = "raw"
      /\ Len(block.lits) \in Nat
  BY <1>1, ItemTypes DEF CopyRaw, InRaw
<1>3. raw <= block.raw /\ block.raw - raw <= Len(block.lits)
  BY <1>2 DEF SafeInv, ConfinedInv
<1>4. CASE /\ UNCHANGED <<input, rest, size, lits, lit, todo, held>>
           /\ raw = 0 /\ block' = NoBlock /\ UNCHANGED <<pc, mem, dst, top, raw>>
  <2>1. TypeInv'
    BY <1>4 DEF SafeInv, TypeInv
  <2>2. ConfinedInv'
    BY <1>4 DEF SafeInv, ConfinedInv, NoBlock
  <2> QED
    BY <2>1, <2>2 DEF SafeInv
<1>5. CASE /\ UNCHANGED <<input, rest, size, lits, lit, todo, held>>
           /\ pc' \in {"srcEmpty", "dstFull"} /\ UNCHANGED <<block, mem, dst, top, raw>>
  <2>1. TypeInv'
    BY <1>5 DEF SafeInv, TypeInv
  <2>2. ConfinedInv'
    BY <1>5 DEF SafeInv, ConfinedInv
  <2> QED
    BY <2>1, <2>2 DEF SafeInv
<1>6. ASSUME NEW n \in Nat, RawCopied(n), UNCHANGED <<input, rest, size, lits, lit, todo, held>>
      PROVE  SafeInv'
  <2>1. /\ n <= raw /\ n <= Len(block.lits) - (block.raw - raw) /\ n <= size - dst
        /\ dst' = dst + n /\ raw' = raw - n /\ UNCHANGED <<pc, block>>
        /\ top' = IF top < dst + n THEN dst + n ELSE top
    BY <1>6 DEF RawCopied, Available
  <2>2. ASSUME NEW i \in dst .. dst + n - 1
        PROVE  block.lits[block.raw - raw + i - dst + 1] \in Byte
    <3>1. block.raw - raw + i - dst + 1 \in 1 .. Len(block.lits)
      BY <1>1, <1>2, <1>3, <2>1
    <3> QED
      BY <1>2, <3>1
  <2>3. mem' = [i \in 0 .. size - 1 |->
                  IF i \in dst .. dst + n - 1
                  THEN block.lits[block.raw - raw + i - dst + 1] ELSE mem[i]]
    BY <1>6 DEF RawCopied
  <2>4. mem \in [0 .. size - 1 -> Byte \cup {Outside}] /\ \A i \in 0 .. dst - 1 : mem[i] \in Byte
    BY DEF SafeInv, TypeInv, ConfinedInv
  <2>5. mem' \in [0 .. size - 1 -> Byte \cup {Outside}]
    BY <2>2, <2>3, <2>4
  <2>6. ASSUME NEW i \in 0 .. dst' - 1 PROVE mem'[i] \in Byte
    <3>1. i \in 0 .. size - 1 /\ (i \in 0 .. dst - 1 \/ i \in dst .. dst + n - 1)
      BY <1>1, <2>1
    <3> QED
      BY <1>1, <2>2, <2>3, <2>4, <3>1
  <2>7. TypeInv'
    BY <1>1, <1>6, <2>1, <2>5 DEF SafeInv, TypeInv
  <2>8. ConfinedInv'
    <3>1. block'.kind # "lz" /\ raw' <= block'.raw /\ block'.raw - raw' <= Len(block'.lits)
      BY <1>1, <1>2, <1>3, <2>1
    <3>2. \A i \in 0 .. dst' - 1 : mem'[i] \in Byte
      BY <2>6
    <3> QED
      BY <3>1, <3>2 DEF ConfinedInv
  <2> QED
    BY <2>7, <2>8 DEF SafeInv
<1> QED
  BY <1>4, <1>5, <1>6, CopyRawCases

\* A triple executed as far as dst has room keeps SafeInv.
LEMMA SafeAdvance ==
  ASSUME SafeInv, block.kind = "lz", NEW l, NEW m, NEW d, Ready(l, m, d), NEW a \in 0 .. l,
         NEW b \in 0 .. m, Advanced(l, m, d, a, b), todo' \in Seq(LMD),
         UNCHANGED <<input, rest, size, block, lits, raw>>
  PROVE  SafeInv'
<1>1. /\ l \in Nat /\ m \in Nat /\ lit \in 0 .. LitCap /\ lit + l <= LitCap /\ LitCap \in Nat
      /\ d \in Int \ {0}
  BY WidthAssumption DEF Ready, SafeInv, TypeInv, LitCap
<1>2. /\ dst' \in 0 .. size /\ top' \in 0 .. size /\ Written(mem', dst')
      /\ lit' = lit + a /\ held' = Triple(l - a, m - b, d)
      /\ pc' \in {pc, "dstFull"}
  BY DEF Advanced, Added
<1>3. TypeInv'
  <2>1. held' \in [l : Nat, m : Nat, d : Int]
    BY <1>1, <1>2 DEF Triple
  <2>2. lit' \in 0 .. LitCap
    BY <1>1, <1>2
  <2> QED
    BY <1>2, <2>1, <2>2 DEF SafeInv, TypeInv, Written
<1>4. ConfinedInv'
  <2>1. held'.d # 0 /\ lit' + held'.l <= LitCap
    BY <1>1, <1>2 DEF Triple
  <2>2. block'.kind = "lz"
    OBVIOUS
  <2> QED
    BY <1>2, <2>1, <2>2 DEF SafeInv, ConfinedInv, Written
<1> QED
  BY <1>3, <1>4 DEF SafeInv

\* A step that takes nothing from the destination and gives nothing to it.
LEMMA SafeStop ==
  ASSUME SafeInv, pc' \in {"srcEmpty", "ok", "error", "dstFull", "decode"},
         rest' \in {rest, Tail(rest)}, rest' # rest => rest # <<>>,
         todo' \in {todo, Tail(todo)}, todo' # todo => todo # <<>>,
         block' \in {block, NoBlock},
         UNCHANGED <<input, size, mem, dst, top, lits, lit, held, raw>>
  PROVE  SafeInv'
<1>1. rest' \in Seq(StreamItem) /\ todo' \in Seq(LMD)
  <2>1. rest \in Seq(StreamItem) /\ todo \in Seq(LMD)
    BY DEF SafeInv, TypeInv
  <2>2. rest' \in Seq(StreamItem)
    BY <2>1
  <2>3. todo' \in Seq(LMD)
    BY <2>1
  <2> QED
    BY <2>2, <2>3
<1>2. TypeInv'
  BY <1>1 DEF SafeInv, TypeInv
<1>3. NoBlock.kind = "none"
  BY DEF NoBlock
<1>4. ConfinedInv'
  BY <1>3 DEF SafeInv, ConfinedInv
<1> QED
  BY <1>2, <1>4 DEF SafeInv

\* The triple that is executed next.
LEMMA ReadyToResume ==
  ASSUME SafeInv, ResumeTriple
  PROVE  Ready(held.l, held.m, held.d)
BY DEF SafeInv, TypeInv, ConfinedInv, ResumeTriple, InBlock, Ready

\* The next triple is one that may be executed.
LEMMA ReadyForNext ==
  ASSUME SafeInv, NextTriple, EnoughLiterals(todo[1].l),
         NEW d, d = IF todo[1].d # 0 THEN todo[1].d ELSE held.d
  PROVE  Ready(todo[1].l, todo[1].m, d)
<1>1. todo[1] \in LMD
  BY DEF SafeInv, TypeInv, NextTriple
<1>2. todo[1].l \in Nat /\ todo[1].m \in Nat /\ d \in Int \ {0}
  BY <1>1 DEF LMD, SafeInv, TypeInv, ConfinedInv, NextTriple, InBlock
<1>3. lit + todo[1].l <= LitCap
  <2>1. LitCap \in Nat /\ lit \in 0 .. LitCap
    BY WidthAssumption DEF SafeInv, TypeInv, LitCap
  <2> QED
    BY <1>2, <2>1 DEF EnoughLiterals
<1> QED
  BY <1>2, <1>3 DEF Ready

\* Every step keeps SafeInv.
LEMMA SafeNext ==
  ASSUME SafeInv, [Next]_vars PROVE SafeInv'
<1>1. CASE SourceEmpty
  <2>1. pc' = "srcEmpty" /\ UNCHANGED <<input, rest, size, mem, dst, top, block, lits, lit, todo, held, raw>>
    BY <1>1 DEF SourceEmpty, Return, blockVars
  <2> QED
    BY <2>1, SafeStop
<1>2. CASE EndOfStream
  <2>1. /\ pc' = "ok" /\ rest' = Tail(rest) /\ rest # <<>>
        /\ UNCHANGED <<input, size, mem, dst, top, block, lits, lit, todo, held, raw>>
    BY <1>2 DEF EndOfStream, Return, blockVars, NextIs
  <2> QED
    BY <2>1, SafeStop
<1>3. CASE BadBlock
  <2>1. pc' = "error" /\ UNCHANGED <<input, rest, size, mem, dst, top, block, lits, lit, todo, held, raw>>
    BY <1>3 DEF BadBlock, Return, blockVars
  <2> QED
    BY <2>1, SafeStop
<1>4. CASE OpenRaw
  BY <1>4, SafeOpenRaw
<1>5. CASE OpenCompressed
  BY <1>5, SafeOpenCompressed
<1>6. CASE CopyRaw
  BY <1>6, SafeCopyRaw
<1>7. CASE ResumeTriple
  <2>1. /\ block.kind = "lz" /\ Execute(held.l, held.m, held.d)
        /\ UNCHANGED <<input, rest, size, block, lits, todo, raw>>
    BY <1>7 DEF ResumeTriple, InBlock
  <2>2. Ready(held.l, held.m, held.d)
    BY <1>7, ReadyToResume
  <2>3. todo \in Seq(LMD)
    BY DEF SafeInv, TypeInv
  <2>4. CASE OutOfRange(held.l, held.d)
    <3>1. pc' = "error" /\ UNCHANGED <<mem, dst, top, lit, held>>
      BY <2>4 DEF OutOfRange, Return
    <3> QED
      BY <2>1, <3>1, SafeStop
  <2>5. ASSUME NEW a \in 0 .. held.l, NEW b \in 0 .. held.m, Advanced(held.l, held.m, held.d, a, b)
        PROVE  SafeInv'
    BY <2>1, <2>2, <2>3, <2>5, SafeAdvance
  <2> QED
    BY <2>1, <2>2, <2>4, <2>5, ExecuteAdvances
<1>8. CASE NextTriple
  <2> DEFINE x == todo[1]
             d == IF x.d # 0 THEN x.d ELSE held.d
  <2>1. /\ block.kind = "lz" /\ todo # <<>> /\ todo' = Tail(todo)
        /\ UNCHANGED <<input, rest, size, block, lits, raw>>
    BY <1>8 DEF NextTriple, InBlock
  <2>2. todo' \in Seq(LMD)
    BY <2>1 DEF SafeInv, TypeInv
  <2>3. CASE ~EnoughLiterals(x.l) \/ OutOfRange(x.l, d)
    <3>1. pc' = "error" /\ UNCHANGED <<mem, dst, top, lit, held>>
      BY <1>8, <2>3 DEF OutOfRange, Return, NextTriple
    <3> QED
      BY <2>1, <3>1, SafeStop
  <2>4. CASE EnoughLiterals(x.l) /\ ~OutOfRange(x.l, d)
    <3>1. Execute(x.l, x.m, d)
      BY <1>8, <2>4 DEF NextTriple
    <3>2. Ready(x.l, x.m, d)
      BY <1>8, <2>4, ReadyForNext
    <3> HIDE DEF x, d
    <3>3. PICK a \in 0 .. x.l, b \in 0 .. x.m : Advanced(x.l, x.m, d, a, b)
      BY <2>4, <3>1, <3>2, ExecuteAdvances
    <3> QED
      BY <2>1, <2>2, <3>2, <3>3, SafeAdvance
  <2> QED
    BY <2>3, <2>4
<1>9. CASE BitsRunOut
  <2>1. pc' = "error" /\ UNCHANGED <<input, rest, size, mem, dst, top, block, lits, lit, todo, held, raw>>
    BY <1>9 DEF BitsRunOut, Return, blockVars
  <2> QED
    BY <2>1, SafeStop
<1>10. CASE CloseBlock
  <2>1. /\ pc' = pc /\ block' = NoBlock /\ pc = "decode"
        /\ UNCHANGED <<input, rest, size, mem, dst, top, lits, lit, todo, held, raw>>
    BY <1>10 DEF CloseBlock, InBlock
  <2> QED
    BY <2>1, SafeStop
<1>11. CASE CallAgain
  <2>1. /\ size < input.size + MoreRoom /\ size' = input.size + MoreRoom /\ pc' = "decode"
        /\ mem' = [i \in 0 .. size' - 1 |-> IF i < size THEN mem[i] ELSE 0]
        /\ UNCHANGED <<input, rest, dst, top, block, lits, lit, todo, held, raw>>
    BY <1>11 DEF CallAgain, blockVars
  <2>2. size \in Nat /\ size' \in Nat /\ size < size' /\ 0 \in Byte
    BY <2>1, WidthAssumption DEF SafeInv, TypeInv
  <2>3. mem \in [0 .. size - 1 -> Byte \cup {Outside}] /\ dst \in 0 .. size
        /\ \A i \in 0 .. dst - 1 : mem[i] \in Byte
    BY DEF SafeInv, TypeInv, ConfinedInv
  <2>4. /\ mem' \in [0 .. size' - 1 -> Byte \cup {Outside}]
        /\ \A i \in 0 .. dst - 1 : mem'[i] \in Byte
    BY <2>1, <2>2, <2>3
  <2>5. TypeInv'
    BY <2>1, <2>2, <2>4 DEF SafeInv, TypeInv
  <2>6. ConfinedInv'
    BY <2>1, <2>4 DEF SafeInv, ConfinedInv
  <2> QED
    BY <2>5, <2>6 DEF SafeInv
<1>12. CASE UNCHANGED vars
  <2>1. UNCHANGED <<pc, input, rest, size, mem, dst, top, block, lits, lit, todo, held, raw>>
    BY <1>12 DEF vars, blockVars
  <2> QED
    BY <2>1 DEF SafeInv, TypeInv, ConfinedInv
<1> QED
  BY <1>1, <1>2, <1>3, <1>4, <1>5, <1>6, <1>7, <1>8, <1>9, <1>10, <1>11, <1>12 DEF Next

\* lzfse_decode has what its types say, and its copies stay between the ends of
\* the destination whatever the source holds.
THEOREM DecoderSafe == Spec => []SafeInv
<1>1. Init => SafeInv
  BY SafeInit
<1>2. SafeInv /\ [Next]_vars => SafeInv'
  BY SafeNext
<1> QED
  BY <1>1, <1>2, PTL DEF Spec

\* No copy, wide or exact, writes behind the destination, no match reads before
\* it and no literal comes from behind the array, for every source.
THEOREM DecoderConfined == Spec => []Confined
<1>1. SafeInv => Confined
  BY WidthAssumption DEF SafeInv, TypeInv, ConfinedInv, Confined
<1> QED
  BY <1>1, DecoderSafe, PTL

-----------------------------------------------------------------------------
(* What the decoder has done of what the source means.                      *)

\* lzfse_decode goes on, or may be called again.
Live == pc \in {"decode", "dstFull"}

Stage(n) == Stages(BlocksOf(input.items))[n]

Taken == Len(input.items) - Len(rest)

Done == Len(block.lmds) - Len(todo)

\* What has been decoded after j triples of the block.
Current(j) ==
  Progress(Start(Stage(Taken - 1).bytes, Stage(Taken - 1).sound, AsBlock(block)), block.lmds)[j]

\* What was taken and what is left make up the source and the block; the end of
\* the stream was taken only if the decoder said so.
SourceInv ==
  /\ Taken \in Nat
  /\ \A i \in 1 .. Len(rest) : rest[i] = input.items[Taken + i]
  /\ pc # "ok" => \A i \in 1 .. Taken : input.items[i].kind \in {"raw", "lz"}
  /\ pc = "ok" => /\ Taken > 0 /\ input.items[Taken].kind = "end"
                  /\ \A i \in 1 .. Taken - 1 : input.items[i].kind \in {"raw", "lz"}
  /\ block # NoBlock => Taken > 0 /\ block = input.items[Taken]
  /\ block.kind = "lz" =>
       Done \in Nat /\ \A i \in 1 .. Len(todo) : todo[i] = block.lmds[Done + i]
  /\ pc = "dstFull" => dst = size /\ block # NoBlock
  /\ pc = "ok" => block = NoBlock

\* No block was gone through, nor one of its triples executed, whose first triple
\* has no distance.
DistanceInv ==
  Live \/ pc = "ok" =>
    /\ block.kind = "lz" /\ Done = 0 => held = HeldAtStart
    /\ \A i \in 1 .. Taken :
         \/ i = Taken /\ block.kind = "lz" /\ Done = 0
         \/ input.items[i].lmds # <<>> => input.items[i].lmds[1].d # 0

LiteralsInv ==
  block.kind = "lz" =>
    \A i \in 0 .. LitCap - 1 : i < Len(block.lits) => lits[i] = block.lits[i + 1]

\* The next l literals s[q + 1], ... and a match of m bytes are what the meaning b
\* has at p, and c is where the meaning of the block is behind them.
Placed(b, s, c, p, q, l, m, d) ==
  /\ q + l + Len(c.lits) = Len(s) /\ Follows(s, q + l, c.lits)
  /\ p + l + m = Len(c.bytes)
  /\ d # -1 => c.d = d
  /\ d = -1 => c.d = 0
  /\ \A k \in 1 .. l : b[p + k] = s[q + k]
  /\ Recurs(b, p + l, m, d)

\* The first n bytes of the memory are those of b.
Agrees(w, n, b) == n <= Len(b) /\ \A i \in 0 .. n - 1 : w[i] = b[i + 1]

PositionInv ==
  Meaning.sound /\ Live =>
    /\ block = NoBlock => dst = Len(Stage(Taken).bytes)
    /\ block.kind = "raw" => dst = Len(Stage(Taken - 1).bytes) + (block.raw - raw)
    /\ block.kind = "lz" =>
         Placed(Meaning.bytes, block.lits, Current(Done), dst, lit, held.l, held.m, held.d)

EndInv ==
  Meaning.sound =>
    /\ pc = "ok" => dst = Len(Meaning.bytes)
    /\ pc = "dstFull" => size < Len(Meaning.bytes)

FuncInv ==
  SafeInv /\ SourceInv /\ DistanceInv /\ LiteralsInv /\ PositionInv /\ OutputIsPrefix /\ EndInv

-----------------------------------------------------------------------------
(* One triple.                                                              *)

\* A triple that makes sense is placed behind the one before it.
LEMMA PlacedNext ==
  ASSUME NEW b \in Seq(Byte), NEW s \in Seq(Byte), NEW c \in Acc(Byte), NEW x \in LMD,
         NEW e, e = Executed(c, x), e.sound, Begins(e.bytes, b),
         NEW p \in Nat, NEW q \in Nat, NEW h \in Int, Placed(b, s, c, p, q, 0, 0, h),
         NEW d, d = IF x.d # 0 THEN x.d ELSE h
  PROVE  Placed(b, s, e, p, q, x.l, x.m, d)
<1>1. /\ e.d = DistanceOf(c, x) /\ e.d \in 1 .. Len(c.bytes) + x.l
      /\ x.l + Len(e.lits) = Len(c.lits) /\ Follows(c.lits, x.l, e.lits)
      /\ Len(e.bytes) = Len(c.bytes) + x.l + x.m
      /\ Takes(e.bytes, Len(c.bytes), c.lits, x.l)
      /\ Recurs(e.bytes, Len(c.bytes) + x.l, x.m, e.d)
  BY ExecutedSound
<1>2. /\ q + Len(c.lits) = Len(s) /\ Follows(s, q, c.lits) /\ p = Len(c.bytes)
      /\ (h # -1 => c.d = h) /\ (h = -1 => c.d = 0)
  <2>1. Len(c.lits) \in Nat /\ Len(c.bytes) \in Nat
    BY DEF Acc
  <2> QED
    BY <2>1 DEF Placed
<1>3. x.l \in Nat /\ x.m \in Nat /\ x.d \in Nat
  BY DEF LMD
<1>4. e \in Acc(Byte)
  BY ExecutedExtends
<1>5. Len(e.lits) \in Nat /\ Len(c.lits) \in Nat /\ Len(e.bytes) \in Nat /\ Len(s) \in Nat
      /\ Len(b) \in Nat
  BY <1>4 DEF Acc
<1>6. d = e.d /\ d \in 1 .. p + x.l
  BY <1>1, <1>2, <1>3 DEF DistanceOf
<1>l. x.l + Len(e.lits) = Len(c.lits)
  BY <1>1
<1>7. q + x.l + Len(e.lits) = Len(s) /\ Follows(s, q + x.l, e.lits)
  <2>1. ASSUME NEW i \in 1 .. Len(e.lits) PROVE s[q + x.l + i] = e.lits[i]
    <3>1. x.l + i \in 1 .. Len(c.lits) /\ q + (x.l + i) = q + x.l + i
      <4> DEFINE l == x.l
                 f == Len(e.lits)
                 g == Len(c.lits)
      <4>1. l \in Nat /\ f \in Nat /\ g \in Nat /\ l + f = g /\ i \in 1 .. f
        BY <1>l, <1>3, <1>5
      <4> HIDE DEF l, f, g
      <4>2. l + i \in 1 .. g /\ q + (l + i) = q + l + i
        BY <4>1
      <4> QED
        BY <4>2 DEF l, g
    <3>2. c.lits[x.l + i] = e.lits[i]
      BY <1>1 DEF Follows
    <3>3. s[q + (x.l + i)] = c.lits[x.l + i]
      BY <1>2, <3>1 DEF Follows
    <3> QED
      BY <3>1, <3>2, <3>3
  <2>2. q + x.l + Len(e.lits) = Len(s)
    <3> DEFINE l == x.l
               f == Len(e.lits)
               g == Len(c.lits)
    <3>1. l \in Nat /\ f \in Nat /\ g \in Nat /\ l + f = g /\ q + g = Len(s)
      BY <1>l, <1>2, <1>3, <1>5
    <3> HIDE DEF l, f, g
    <3>2. q + l + f = Len(s)
      BY <3>1
    <3> QED
      BY <3>2 DEF l, f
  <2> QED
    BY <2>1, <2>2 DEF Follows
<1>8. \A i \in 1 .. p + x.l + x.m : b[i] = e.bytes[i]
  BY <1>1, <1>2 DEF Begins
<1>9. ASSUME NEW k \in 1 .. x.l PROVE b[p + k] = s[q + k]
  <2>1. p + k \in 1 .. p + x.l + x.m /\ k \in 1 .. Len(c.lits)
    <3> DEFINE l == x.l
               m == x.m
               f == Len(e.lits)
               g == Len(c.lits)
    <3>1. l \in Nat /\ m \in Nat /\ f \in Nat /\ g \in Nat /\ l + f = g /\ k \in 1 .. l
      BY <1>l, <1>3, <1>5
    <3> HIDE DEF l, m, f, g
    <3>2. p + k \in 1 .. p + l + m /\ k \in 1 .. g
      BY <3>1
    <3> QED
      BY <3>2 DEF l, m, g
  <2>2. b[p + k] = e.bytes[p + k]
    BY <1>8, <2>1
  <2>3. e.bytes[p + k] = c.lits[k]
    BY <1>1, <1>2 DEF Takes
  <2>4. s[q + k] = c.lits[k]
    BY <1>2, <2>1 DEF Follows
  <2> QED
    BY <2>2, <2>3, <2>4
<1>10. ASSUME NEW k \in 1 .. x.m PROVE b[p + x.l + k] = b[p + x.l + k - d]
  <2>1. p + x.l + k \in 1 .. p + x.l + x.m /\ p + x.l + k - d \in 1 .. p + x.l + x.m
    <3> DEFINE l == x.l
               m == x.m
    <3>1. l \in Nat /\ m \in Nat /\ k \in 1 .. m /\ d \in 1 .. p + l
      BY <1>3, <1>6
    <3> HIDE DEF l, m
    <3>2. p + l + k \in 1 .. p + l + m /\ p + l + k - d \in 1 .. p + l + m
      BY <3>1
    <3> QED
      BY <3>2 DEF l, m
  <2>2. e.bytes[p + x.l + k] = e.bytes[p + x.l + k - d]
    BY <1>1, <1>2, <1>6 DEF Recurs
  <2> QED
    BY <1>8, <2>1, <2>2
<1>11. Recurs(b, p + x.l, x.m, d)
  BY <1>10 DEF Recurs
<1>12. p + x.l + x.m = Len(e.bytes)
  BY <1>1, <1>2
<1>13. d # -1 /\ e.d = d
  BY <1>6
<1> QED
  BY <1>7, <1>9, <1>11, <1>12, <1>13 DEF Placed

SameTo(w, b, n) == \A i \in 0 .. n - 1 : w[i] = b[i + 1]

\* What repeats at a distance does so as far as any shorter length.
LEMMA RecursShorter ==
  ASSUME NEW b, NEW e, NEW m \in Nat, NEW d, Recurs(b, e, m, d), NEW k \in Nat, k <= m
  PROVE  Recurs(b, e, k, d)
BY DEF Recurs

\* A byte that repeats, and the one it repeats.
LEMMA RecursAt ==
  ASSUME NEW b, NEW e \in Int, NEW k \in Int, NEW d \in Int, Recurs(b, e, k, d), NEW n \in 1 .. k
  PROVE  b[e + n] = b[e + n - d]
BY DEF Recurs

\* Where the strides of a copy have written a sequence of period d, a memory that
\* agreed with b so far agrees with it further on, when b recurs with d.
LEMMA PeriodAgrees ==
  ASSUME NEW w, NEW b, NEW e \in Nat, NEW k \in Nat, NEW d \in 1 .. e,
         Repeats(w, w, e, k, d), Recurs(b, e, k, d), SameTo(w, b, e)
  PROVE  SameTo(w, b, e + k)
<1>s. \A i \in 0 .. e - 1 : w[i] = b[i + 1]
  BY DEF SameTo
<1>r. \A i \in 0 .. k - 1 : w[e + i] = w[e - d + (i % d)]
  BY DEF Repeats
<1> DEFINE S == {n \in Nat : n <= k => \A i \in 0 .. e + n - 1 : w[i] = b[i + 1]}
<1>0. d \in Nat /\ d > 0 /\ d <= e
  OBVIOUS
<1>1. 0 \in S
  BY <1>s
<1>2. ASSUME NEW n \in Nat, n \in S PROVE n + 1 \in S
  <2> SUFFICES ASSUME n + 1 <= k PROVE \A i \in 0 .. e + (n + 1) - 1 : w[i] = b[i + 1]
    OBVIOUS
  <2>1. \A i \in 0 .. e + n - 1 : w[i] = b[i + 1]
    BY <1>2
  <2>2. n \in 0 .. k - 1 /\ n + 1 \in 1 .. k
    OBVIOUS
  <2>3. w[e + n] = w[e - d + (n % d)]
    BY <1>r, <2>2
  <2>4. b[e + n + 1] = b[e + n + 1 - d]
    <3>1. b[e + (n + 1)] = b[e + (n + 1) - d]
      BY <1>0, <2>2, RecursAt
    <3>2. e + (n + 1) = e + n + 1
      OBVIOUS
    <3> QED
      BY <3>1, <3>2
  <2>5. w[e + n] = b[e + n + 1]
    <3>1. CASE n < d
      <4> DEFINE h == e - d + n
      <4>1. n % d = n
        BY <1>0, <3>1, ModSmall
      <4>2. h \in 0 .. e + n - 1 /\ h + 1 = e + n + 1 - d
        BY <1>0, <3>1
      <4>3. w[e + n] = w[h]
        BY <2>3, <4>1
      <4> HIDE DEF h
      <4>4. w[h] = b[h + 1]
        BY <2>1, <4>2
      <4> QED
        BY <2>4, <4>2, <4>3, <4>4
    <3>2. CASE ~(n < d)
      <4> DEFINE g == n - d
                 h == e + g
      <4>1. g \in 0 .. k - 1 /\ h \in 0 .. e + n - 1 /\ h + 1 = e + n + 1 - d
        BY <1>0, <2>2, <3>2
      <4>2. n % d = g % d
        BY <1>0, ModPeriod
      <4>3. w[e + n] = w[e - d + (g % d)]
        BY <2>3, <4>2
      <4> HIDE DEF g
      <4>4. w[h] = w[e - d + (g % d)]
        <5>1. g \in 0 .. k - 1
          BY <4>1
        <5>2. w[e + g] = w[e - d + (g % d)]
          BY <1>r, <5>1
        <5> QED
          BY <5>2
      <4> HIDE DEF h
      <4>5. w[h] = b[h + 1]
        BY <2>1, <4>1
      <4> QED
        BY <2>4, <4>1, <4>3, <4>4, <4>5
    <3> QED
      BY <1>0, <3>1, <3>2
  <2>6. ASSUME NEW i \in 0 .. e + (n + 1) - 1 PROVE w[i] = b[i + 1]
    <3>1. i \in 0 .. e + n - 1 \/ i = e + n
      OBVIOUS
    <3> QED
      BY <2>1, <2>5, <3>1
  <2> QED
    BY <2>6
<1>3. k \in S
  <2> HIDE DEF S
  <2> QED
    BY <1>1, <1>2, NatInductionSet
<1> QED
  BY <1>3 DEF SameTo

\* What the copies write is what the meaning has there, and the rest of the triple
\* is placed behind it.
LEMMA MovedOn ==
  ASSUME NEW b \in Seq(Byte), NEW s \in Seq(Byte), NEW c \in Acc(Byte),
         NEW p \in Nat, NEW q \in Nat, NEW l \in Nat, NEW m \in Nat, NEW d \in 1 .. p + l,
         NEW j \in 0 .. l, NEW k \in 0 .. m, j < l => k = 0,
         Placed(b, s, c, p, q, l, m, d), Begins(c.bytes, b), NEW v, Agrees(v, p, b),
         q + l <= LitCap, \A i \in 0 .. LitCap - 1 : i < Len(s) => lits[i] = s[i + 1],
         NEW w, Kept(w, v, p), HasLiterals(w, p, j, q), Repeats(w, w, p + j, k, d)
  PROVE  /\ Agrees(w, p + j + k, b)
         /\ Placed(b, s, c, p + j + k, q + j, l - j, m - k, d)
<1>1. /\ q + l + Len(c.lits) = Len(s) /\ Follows(s, q + l, c.lits)
      /\ p + l + m = Len(c.bytes) /\ c.d = d
      /\ \A i \in 1 .. l : b[p + i] = s[q + i]
      /\ Recurs(b, p + l, m, d)
  <2>1. d # -1
    OBVIOUS
  <2> QED
    BY <2>1 DEF Placed
<1>n. q + l + Len(c.lits) = Len(s) /\ p + l + m = Len(c.bytes)
  BY <1>1
<1>2. Len(c.lits) \in Nat /\ Len(c.bytes) \in Nat /\ Len(s) \in Nat /\ Len(b) \in Nat
      /\ Len(c.bytes) <= Len(b) /\ LitCap \in Nat
  <2>1. LitCap \in Nat
    BY WidthAssumption DEF LitCap
  <2>2. c.lits \in Seq(Byte) /\ c.bytes \in Seq(Byte)
    BY DEF Acc
  <2>3. Len(c.bytes) <= Len(b)
    BY DEF Begins
  <2>4. Len(c.lits) \in Nat /\ Len(c.bytes) \in Nat
    BY <2>2
  <2>5. Len(s) \in Nat /\ Len(b) \in Nat
    OBVIOUS
  <2> QED
    BY <2>1, <2>3, <2>4, <2>5
<1>3. j \in Nat /\ k \in Nat /\ d \in Nat /\ d > 0 /\ d <= p + l
  OBVIOUS
<1>4. SameTo(w, b, p + j)
  <2> DEFINE e == p + j
  <2> SUFFICES SameTo(w, b, e)
    OBVIOUS
  <2>e. e = p + j
    OBVIOUS
  <2> HIDE DEF e
  <2> SUFFICES ASSUME NEW i \in 0 .. e - 1 PROVE w[i] = b[i + 1]
    BY DEF SameTo
  <2>i. i \in 0 .. p + j - 1
    BY <2>e
  <2>1. CASE i < p
    <3>1. i \in 0 .. p - 1
      BY <2>i, <2>1
    <3> QED
      BY <3>1 DEF Kept, Agrees
  <2>2. CASE ~(i < p)
    <3> DEFINE h == i - p
    <3>1. h \in 0 .. j - 1 /\ p + h = i /\ h + 1 \in 1 .. l /\ q + h \in 0 .. LitCap - 1
          /\ q + h < Len(s) /\ p + (h + 1) = i + 1 /\ q + (h + 1) = q + h + 1
      <4> DEFINE f == Len(c.lits)
                 g == Len(s)
      <4>1. f \in Nat /\ g \in Nat /\ LitCap \in Nat /\ q + l + f = g /\ q + l <= LitCap
        BY <1>n, <1>2
      <4>2. j \in 0 .. l /\ i \in 0 .. p + j - 1 /\ p <= i
        BY <1>3, <2>i, <2>2
      <4> HIDE DEF f, g
      <4>3. h \in 0 .. j - 1 /\ q + h < g
        BY <4>1, <4>2
      <4>4. p + h = i /\ h + 1 \in 1 .. l /\ q + h \in 0 .. LitCap - 1
        BY <4>1, <4>2
      <4>5. p + (h + 1) = i + 1 /\ q + (h + 1) = q + h + 1
        BY <4>2
      <4> QED
        BY <4>3, <4>4, <4>5 DEF g
    <3> HIDE DEF h
    <3>2. w[i] = lits[q + h]
      BY <3>1 DEF HasLiterals
    <3>3. lits[q + h] = s[q + h + 1]
      BY <3>1
    <3>4. b[i + 1] = s[q + h + 1]
      BY <1>1, <3>1
    <3> QED
      BY <3>2, <3>3, <3>4
  <2> QED
    BY <2>1, <2>2
<1>5. CASE k = 0
  <2>1. Agrees(w, p + j + k, b)
    <3>1. p + j + k = p + j /\ p + j <= Len(b)
      BY <1>1, <1>2, <1>3, <1>5
    <3> QED
      BY <1>4, <3>1 DEF Agrees, SameTo
  <2>2. p + j + k + (l - j) = p + l /\ q + j + (l - j) = q + l /\ m - k = m
    BY <1>3, <1>5
  <2>3. ASSUME NEW i \in 1 .. l - j PROVE b[p + j + k + i] = s[q + j + i]
    <3>1. j + i \in 1 .. l /\ p + (j + i) = p + j + k + i /\ q + (j + i) = q + j + i
      BY <1>3, <1>5
    <3>2. b[p + (j + i)] = s[q + (j + i)]
      BY <1>1, <3>1
    <3> QED
      BY <3>1, <3>2
  <2>4. Placed(b, s, c, p + j + k, q + j, l - j, m - k, d)
    BY <1>1, <1>3, <2>2, <2>3 DEF Placed
  <2> QED
    BY <2>1, <2>4
<1>6. CASE k > 0
  <2>1. j = l
    BY <1>3, <1>6
  <2>2. p + l \in Nat /\ k \in Nat
    BY <1>3
  <2>3. Repeats(w, w, p + l, k, d) /\ Recurs(b, p + l, k, d)
    <3>1. Recurs(b, p + l, m, d) /\ k <= m
      BY <1>1, <1>3
    <3>2. Recurs(b, p + l, k, d)
      BY <1>3, <3>1, RecursShorter
    <3> QED
      BY <2>1, <3>2
  <2>4. \A i \in 0 .. p + l + k - 1 : w[i] = b[i + 1]
    <3> DEFINE e == p + l
    <3>1. e \in Nat /\ d \in 1 .. e /\ Repeats(w, w, e, k, d) /\ Recurs(b, e, k, d)
      BY <2>2, <2>3
    <3>2. SameTo(w, b, e)
      BY <1>4, <2>1
    <3> HIDE DEF e
    <3>3. SameTo(w, b, e + k)
      BY <2>2, <3>1, <3>2, PeriodAgrees
    <3> QED
      BY <3>3 DEF e, SameTo
  <2>5. Agrees(w, p + j + k, b)
    <3>1. p + j + k <= Len(b)
      BY <1>1, <1>2, <1>3, <2>1
    <3>2. \A i \in 0 .. p + l + k - 1 : w[i] = b[i + 1]
      BY <2>4
    <3> QED
      BY <2>1, <3>1, <3>2 DEF Agrees
  <2>6. p + j + k + (l - j) + (m - k) = Len(c.bytes) /\ q + j + (l - j) = q + l /\ l - j = 0
        /\ p + j + k + (l - j) = p + l + k
    BY <1>1, <1>3, <2>1
  <2>7. ASSUME NEW i \in 1 .. m - k PROVE b[p + l + k + i] = b[p + l + k + i - d]
    <3> DEFINE h == k + i
    <3>i. i \in Nat /\ i >= 1 /\ i <= m - k
      BY <1>3
    <3>m. h \in 1 .. m
      BY <1>3, <3>i
    <3>1. p + l + h = p + l + k + i /\ p + l + h - d = p + l + k + i - d
      BY <1>3, <3>i, <3>m
    <3> HIDE DEF h
    <3>2. b[p + l + h] = b[p + l + h - d]
      BY <1>1, <3>m DEF Recurs
    <3> QED
      BY <3>1, <3>2, Zenon
  <2>8. Recurs(b, p + l + k, m - k, d)
    BY <2>7 DEF Recurs
  <2>9. \A i \in 1 .. l - j : b[p + j + k + i] = s[q + j + i]
    BY <2>6
  <2>10. d # -1
    BY <1>3
  <2> QED
    BY <1>1, <2>5, <2>6, <2>8, <2>9, <2>10 DEF Placed
<1> QED
  BY <1>3, <1>5, <1>6

-----------------------------------------------------------------------------
(* The source and its meaning.                                              *)

\* An item of the stream, read as a block, is one.
LEMMA AsBlockTypes ==
  ASSUME NEW x \in StreamItem \cup {NoBlock}
  PROVE  AsBlock(x) \in Blk(Byte)
<1>1. x.lits \in Seq(Byte) /\ x.lmds \in Seq(LMD) /\ Len(x.lits) \in Nat
  BY ItemTypes
<1>2. Triple(Len(x.lits), 0, 1) \in LMD
  BY <1>1 DEF Triple, LMD
<1>3. <<>> \in Seq(LMD) /\ <<Triple(Len(x.lits), 0, 1)>> \in Seq(LMD)
  BY <1>2
<1> QED
  BY <1>1, <1>3 DEF AsBlock, Blk

\* The items of the stream, read as blocks.
LEMMA BlocksTypes ==
  ASSUME TypeInv
  PROVE  BlocksOf(input.items) \in Seq(Blk(Byte)) /\ Len(BlocksOf(input.items)) = Len(input.items)
<1> DEFINE items == input.items
           n == Len(items)
           f(i) == AsBlock(IF Ended(items, i) THEN NoBlock ELSE items[i])
<1>1. items \in Seq(StreamItem) /\ n \in Nat /\ DOMAIN items = 1 .. n
  BY DEF TypeInv
<1>2. ASSUME NEW i \in 1 .. n PROVE f(i) \in Blk(Byte)
  <2>1. items[i] \in StreamItem
    BY <1>1
  <2> QED
    BY <2>1, AsBlockTypes
<1>3. BlocksOf(items) = [i \in 1 .. n |-> f(i)]
  BY <1>1 DEF BlocksOf
<1> HIDE DEF f, n
<1>4. [i \in 1 .. n |-> f(i)] \in Seq(Blk(Byte)) /\ Len([i \in 1 .. n |-> f(i)]) = n
  BY <1>1, <1>2
<1> QED
  BY <1>3, <1>4 DEF n

\* A block behind the end of the stream is no block.
LEMMA BlockAt ==
  ASSUME TypeInv, NEW i \in 1 .. Len(input.items)
  PROVE  BlocksOf(input.items)[i]
           = AsBlock(IF Ended(input.items, i) THEN NoBlock ELSE input.items[i])
<1>1. input.items \in Seq(StreamItem) /\ DOMAIN input.items = 1 .. Len(input.items)
  BY DEF TypeInv
<1> QED
  BY <1>1 DEF BlocksOf

\* Up to a block behind which nothing has ended, the blocks are the items.
LEMMA BlockTaken ==
  ASSUME TypeInv, NEW i \in 1 .. Len(input.items),
         \A j \in 1 .. i : input.items[j].kind \in {"raw", "lz"}
  PROVE  BlocksOf(input.items)[i] = AsBlock(input.items[i])
<1>1. ~Ended(input.items, i)
  BY DEF Ended
<1> QED
  BY <1>1, BlockAt

\* The meaning of the stream is its last stage.
LEMMA MeaningIs ==
  ASSUME TypeInv
  PROVE  Meaning = Stage(Len(input.items)) /\ Stage(0) = [bytes |-> <<>>, sound |-> TRUE]
<1>1. Stages(BlocksOf(input.items))[0] = [bytes |-> <<>>, sound |-> TRUE]
  BY BlocksTypes, StagesIs
<1>2. Len(BlocksOf(input.items)) = Len(input.items)
  BY BlocksTypes
<1> QED
  BY <1>1, <1>2 DEF Meaning, Stage, Decoded

\* A stage is the beginning of the meaning of the stream.
LEMMA StageTypes ==
  ASSUME TypeInv, NEW j \in 0 .. Len(input.items)
  PROVE  /\ Stage(j) \in StageRec(Byte) /\ Begins(Stage(j).bytes, Meaning.bytes)
         /\ Meaning.sound => Stage(j).sound
<1> DEFINE blocks == BlocksOf(input.items)
           P == Stages(blocks)
<1>1. blocks \in Seq(Blk(Byte)) /\ Len(blocks) = Len(input.items)
  BY BlocksTypes
<1>2. Meaning = P[Len(blocks)] /\ Stage(j) = P[j]
  BY DEF Meaning, Decoded, Stage
<1> HIDE DEF blocks
<1>3. j \in 0 .. Len(blocks)
  BY <1>1
<1>4. P[j] \in StageRec(Byte)
  BY <1>1, <1>3, StagesTypes
<1>5. Begins(P[j].bytes, P[Len(blocks)].bytes) /\ (P[Len(blocks)].sound => P[j].sound)
  BY <1>1, <1>3, StagesExtend
<1> QED
  BY <1>2, <1>4, <1>5

\* The meaning of the stream is a sequence of bytes.
LEMMA MeaningTypes ==
  ASSUME TypeInv
  PROVE  /\ Meaning \in StageRec(Byte) /\ Meaning.bytes \in Seq(Byte)
         /\ Len(Meaning.bytes) \in Nat /\ Len(input.items) \in Nat
<1>1. Len(input.items) \in Nat
  BY DEF TypeInv
<1>2. Meaning \in StageRec(Byte)
  BY <1>1, MeaningIs, StageTypes
<1> QED
  BY <1>1, <1>2 DEF StageRec

\* A stage is a sequence of bytes, no longer than the meaning.
LEMMA StageBytes ==
  ASSUME TypeInv, NEW j \in 0 .. Len(input.items)
  PROVE  /\ Stage(j).bytes \in Seq(Byte) /\ Len(Stage(j).bytes) \in Nat
         /\ Len(Stage(j).bytes) <= Len(Meaning.bytes)
<1>1. Stage(j).bytes \in Seq(Byte) /\ Begins(Stage(j).bytes, Meaning.bytes)
  BY StageTypes DEF StageRec
<1> QED
  BY <1>1 DEF Begins

\* One block leads from one stage to the next.
LEMMA StageNext ==
  ASSUME TypeInv, NEW i \in 1 .. Len(input.items),
         \A j \in 1 .. i : input.items[j].kind \in {"raw", "lz"}
  PROVE  Stage(i) = DecodedBlock(Stage(i - 1), AsBlock(input.items[i]))
<1>1. BlocksOf(input.items) \in Seq(Blk(Byte)) /\ i \in 1 .. Len(BlocksOf(input.items))
  BY BlocksTypes
<1>2. Stages(BlocksOf(input.items))[i]
        = DecodedBlock(Stages(BlocksOf(input.items))[i - 1], BlocksOf(input.items)[i])
  BY <1>1, StagesIs
<1> QED
  BY <1>2, BlockTaken DEF Stage

\* Behind the end of the stream there is nothing more to decode.
LEMMA StageAtEnd ==
  ASSUME TypeInv, NEW i \in 1 .. Len(input.items), input.items[i].kind = "end"
  PROVE  Stage(i - 1) = Meaning
<1> DEFINE blocks == BlocksOf(input.items)
           n == Len(input.items)
<1>1. blocks \in Seq(Blk(Byte)) /\ Len(blocks) = n /\ n \in Nat
  BY BlocksTypes, MeaningTypes
<1>2. ASSUME NEW k \in i .. n PROVE blocks[k].lmds = <<>>
  <2>1. k \in 1 .. n /\ Ended(input.items, k)
    BY <1>1 DEF Ended
  <2>2. blocks[k] = AsBlock(NoBlock)
    BY <2>1, BlockAt
  <2> QED
    BY <2>2 DEF AsBlock, NoBlock
<1>3. Meaning = Stages(blocks)[Len(blocks)] /\ Stage(i - 1) = Stages(blocks)[i - 1]
  BY DEF Meaning, Decoded, Stage
<1> HIDE DEF blocks, n
<1>4. i - 1 \in 0 .. Len(blocks) /\ \A k \in i - 1 + 1 .. Len(blocks) : blocks[k].lmds = <<>>
  <2>1. i \in 1 .. n
    BY DEF n
  <2>2. i - 1 + 1 = i /\ i - 1 \in 0 .. n
    BY <1>1, <2>1
  <2> QED
    BY <1>1, <1>2, <2>2
<1>5. Stages(blocks)[Len(blocks)] = Stages(blocks)[i - 1]
  BY <1>1, <1>4, StagesEnd
<1> QED
  BY <1>3, <1>5

\* The meaning of an uncompressed block that makes sense.
LEMMA RawMeaning ==
  ASSUME NEW x \in StreamItem, x.kind = "raw", NEW a \in StageRec(Byte),
         NEW e, e = DecodedBlock(a, AsBlock(x)), e.sound
  PROVE  Len(e.bytes) = Len(a.bytes) + Len(x.lits) /\ Follows(e.bytes, Len(a.bytes), x.lits)
<1> DEFINE start == Start(a.bytes, a.sound, AsBlock(x))
           t == Triple(Len(x.lits), 0, 1)
<1>1. x.lits \in Seq(Byte) /\ Len(x.lits) \in Nat
  BY ItemTypes
<1>2. AsBlock(x) \in Blk(Byte) /\ start \in Acc(Byte)
  BY AsBlockTypes, StartTypes
<1>3. start.bytes = a.bytes /\ start.lits = x.lits /\ a.bytes \in Seq(Byte) /\ Len(a.bytes) \in Nat
  BY DEF Start, AsBlock, StageRec
<1>4. CASE x.lits = <<>>
  <2>1. AsBlock(x).lmds = <<>>
    BY <1>4 DEF AsBlock
  <2>2. e = a
    BY <1>2, <2>1, EmptyBlockDecoded
  <2> QED
    BY <1>1, <1>3, <1>4, <2>2 DEF Follows
<1>5. CASE x.lits # <<>>
  <2>1. AsBlock(x).lmds = <<t>>
    BY <1>5 DEF AsBlock
  <2>2. t \in LMD /\ t.l = Len(x.lits) /\ t.m = 0
    BY <1>1 DEF Triple, LMD
  <2>3. <<t>> \in Seq(LMD) /\ Len(<<t>>) = 1 /\ <<t>>[1] = t
    BY <2>2
  <2> DEFINE P == Progress(start, <<t>>)
  <2>4. e.bytes = P[1].bytes /\ e.sound = P[1].sound
    BY <2>1, <2>3 DEF DecodedBlock
  <2> HIDE DEF start, t
  <2>5. P[0] = start /\ P[1] = Executed(P[0], t)
    <3> DEFINE lmds == <<t>>
    <3>1. lmds \in Seq(LMD) /\ Len(lmds) = 1 /\ lmds[1] = t
      BY <2>3
    <3> HIDE DEF lmds
    <3>2. /\ Progress(start, lmds)[0] = start
          /\ \A i \in 1 .. Len(lmds) :
               Progress(start, lmds)[i] = Executed(Progress(start, lmds)[i - 1], lmds[i])
      BY <1>2, <3>1, ProgressIs
    <3>3. Progress(start, lmds)[1] = Executed(Progress(start, lmds)[1 - 1], lmds[1])
      BY <3>1, <3>2
    <3>4. Progress(start, lmds)[1] = Executed(Progress(start, lmds)[0], t)
      BY <3>1, <3>3
    <3> QED
      BY <3>2, <3>4 DEF lmds
  <2> HIDE DEF P
  <2> DEFINE f == P[1]
  <2>6. f = Executed(start, t) /\ f.sound
    BY <2>4, <2>5
  <2> HIDE DEF f
  <2>7. /\ Len(f.bytes) = Len(start.bytes) + t.l + t.m
        /\ Takes(f.bytes, Len(start.bytes), start.lits, t.l)
    BY <1>2, <2>2, <2>6, ExecutedSound
  <2>8. e.bytes = f.bytes
    BY <2>4 DEF f
  <2>9. Len(e.bytes) = Len(a.bytes) + Len(x.lits)
    <3> DEFINE g == Len(a.bytes)
               h == Len(x.lits)
    <3>1. Len(e.bytes) = g + h + 0
      BY <1>3, <2>2, <2>7, <2>8
    <3>2. g \in Nat /\ h \in Nat
      BY <1>1, <1>3
    <3> HIDE DEF g, h
    <3>3. Len(e.bytes) = g + h
      BY <3>1, <3>2
    <3> QED
      BY <3>3 DEF g, h
  <2>10. Takes(e.bytes, Len(a.bytes), x.lits, Len(x.lits))
    BY <1>3, <2>2, <2>7, <2>8
  <2> QED
    BY <2>9, <2>10 DEF Follows, Takes
<1> QED
  BY <1>4, <1>5

-----------------------------------------------------------------------------
(* FuncInv holds always.                                                    *)

\* What the invariant says of numbers, in the form in which the steps use it.
LEMMA FuncFacts ==
  ASSUME FuncInv
  PROVE  /\ TypeInv /\ ConfinedInv
         /\ size \in Nat /\ dst \in 0 .. size /\ dst \in Nat /\ lit \in Nat /\ raw \in Nat
         /\ Taken \in 0 .. Len(input.items) /\ Len(input.items) \in Nat /\ Len(rest) \in Nat
         /\ Len(rest) = Len(input.items) - Taken
         /\ Len(todo) \in Nat /\ Len(block.lmds) \in Nat /\ Len(block.lits) \in Nat
         /\ LitCap \in Nat /\ Meaning.bytes \in Seq(Byte) /\ Len(Meaning.bytes) \in Nat
         /\ block \in StreamItem \cup {NoBlock} /\ NoBlock.kind = "none"
         /\ (block = NoBlock <=> block.kind = "none")
<1>1. TypeInv /\ ConfinedInv /\ SourceInv
  BY DEF FuncInv, SafeInv
<1>2. Len(input.items) \in Nat /\ Len(rest) \in Nat /\ Len(todo) \in Nat
  BY <1>1 DEF TypeInv
<1>3. Taken \in Nat /\ Taken = Len(input.items) - Len(rest)
  BY <1>1 DEF SourceInv, Taken
<1>4. Taken \in 0 .. Len(input.items) /\ Len(rest) = Len(input.items) - Taken
  BY <1>2, <1>3
<1>5. block \in StreamItem \cup {NoBlock}
  BY <1>1 DEF TypeInv
<1>6. Len(block.lits) \in Nat /\ block.lmds \in Seq(LMD)
  BY <1>5, ItemTypes
<1>7. Len(block.lmds) \in Nat
  BY <1>6
<1>8. LitCap \in Nat
  BY WidthAssumption DEF LitCap
<1>9. Meaning.bytes \in Seq(Byte) /\ Len(Meaning.bytes) \in Nat
  BY <1>1, MeaningTypes
<1>10. block \in StreamItem => block.kind # "none"
  BY DEF StreamItem
<1>11. NoBlock.kind = "none"
  BY DEF NoBlock
<1>12. size \in Nat /\ dst \in 0 .. size /\ lit \in 0 .. LitCap /\ raw \in Nat
  BY <1>1 DEF TypeInv
<1>13. dst \in Nat /\ lit \in Nat
  BY <1>8, <1>12
<1> QED
  BY <1>1, <1>2, <1>4, <1>5, <1>6, <1>7, <1>8, <1>9, <1>10, <1>11, <1>12, <1>13

\* The meaning stays, and with the place in the source the block's does.
LEMMA SameMeaning ==
  ASSUME input' = input
  PROVE  /\ Meaning' = Meaning /\ \A n : Stage(n)' = Stage(n)
         /\ rest' = rest => Taken' = Taken
         /\ rest' = rest /\ block' = block => \A j : Current(j)' = Current(j)
<1>1. Meaning' = Meaning
  BY DEF Meaning
<1>2. \A n : Stage(n)' = Stage(n)
  BY DEF Stage
<1>3. rest' = rest => Taken' = Taken
  BY DEF Taken
<1>4. rest' = rest /\ block' = block => \A j : Current(j)' = Current(j)
  BY DEF Current, Taken, Stage
<1> QED
  BY <1>1, <1>2, <1>3, <1>4

\* The next item is the one behind those taken.
LEMMA NextItem ==
  ASSUME FuncInv, pc # "ok", rest # <<>>, rest' = Tail(rest), input' = input
  PROVE  /\ Taken' = Taken + 1 /\ Taken' \in 1 .. Len(input.items)
         /\ rest[1] = input.items[Taken']
         /\ \A i \in 1 .. Len(rest') : rest'[i] = input.items[Taken' + i]
         /\ \A i \in 1 .. Taken : input.items[i].kind \in {"raw", "lz"}
<1>1. /\ Taken \in 0 .. Len(input.items) /\ Len(rest) = Len(input.items) - Taken
      /\ Len(input.items) \in Nat /\ rest \in Seq(StreamItem)
  BY FuncFacts DEF TypeInv
<1>2. /\ \A i \in 1 .. Len(rest) : rest[i] = input.items[Taken + i]
      /\ \A i \in 1 .. Taken : input.items[i].kind \in {"raw", "lz"}
  BY DEF FuncInv, SourceInv
<1>3. Len(rest') = Len(rest) - 1 /\ Len(rest) > 0 /\ \A i \in 1 .. Len(rest) - 1 : rest'[i] = rest[i + 1]
  BY <1>1
<1>4. Taken' = Len(input.items) - Len(rest')
  BY DEF Taken
<1>5. Taken' = Taken + 1 /\ Taken' \in 1 .. Len(input.items)
  <2> DEFINE f == Len(rest)
             g == Len(rest')
             h == Len(input.items)
             t == Taken
             u == Taken'
  <2>1. f > 0 /\ g = f - 1
    BY <1>3
  <2>2. h \in Nat /\ t \in 0 .. h /\ f = h - t
    BY <1>1
  <2>3. u = h - g
    BY <1>4
  <2> HIDE DEF f, g, h, t, u
  <2>4. u = t + 1 /\ u \in 1 .. h
    BY <2>1, <2>2, <2>3
  <2> QED
    BY <2>4 DEF t, u, h
<1>6. 1 \in 1 .. Len(rest)
  BY <1>1, <1>3
<1>7. rest[1] = input.items[Taken']
  BY <1>2, <1>5, <1>6
<1>8. ASSUME NEW i \in 1 .. Len(rest') PROVE rest'[i] = input.items[Taken' + i]
  <2>1. i \in 1 .. Len(rest) - 1 /\ i + 1 \in 1 .. Len(rest) /\ Taken + (i + 1) = Taken' + i
    BY <1>1, <1>3, <1>5
  <2>2. rest[i + 1] = input.items[Taken + (i + 1)]
    BY <1>2, <2>1
  <2> QED
    BY <1>3, <2>1, <2>2
<1> QED
  BY <1>2, <1>5, <1>7, <1>8

\* FuncInv holds at first.
LEMMA FuncInit ==
  ASSUME Init PROVE FuncInv
<1>1. SafeInv /\ TypeInv
  BY SafeInit DEF SafeInv
<1>2. pc = "decode" /\ rest = input.items /\ block = NoBlock /\ dst = 0 /\ NoBlock.kind = "none"
  BY DEF Init, NoBlock
<1>3. Len(input.items) \in Nat
  BY <1>1, MeaningTypes
<1>4. Taken = 0
  BY <1>2, <1>3 DEF Taken
<1>5. SourceInv
  BY <1>2, <1>4 DEF SourceInv
<1>6. DistanceInv /\ LiteralsInv
  BY <1>2, <1>4 DEF DistanceInv, LiteralsInv
<1>7. Stage(0).bytes = <<>>
  BY <1>1, MeaningIs
<1>8. PositionInv
  BY <1>2, <1>4, <1>7 DEF PositionInv
<1>9. OutputIsPrefix /\ EndInv
  BY <1>1, <1>2, MeaningTypes DEF OutputIsPrefix, EndInv
<1> QED
  BY <1>1, <1>5, <1>6, <1>8, <1>9 DEF FuncInv

\* The decoder gives up.
LEMMA FuncStop ==
  ASSUME FuncInv, SafeInv', pc # "ok", pc' \in {"srcEmpty", "error"},
         todo' \in {todo, Tail(todo)}, todo' # todo => todo # <<>>,
         UNCHANGED <<input, rest, block, mem, dst, size, lits>>
  PROVE  FuncInv'
<1>1. Taken' = Taken /\ Meaning' = Meaning
  BY SameMeaning
<1>2. SourceInv'
  <2>1. /\ SourceInv /\ todo \in Seq(LMD) /\ Len(block.lmds) \in Nat
    BY FuncFacts DEF FuncInv, TypeInv
  <2>2. block.kind = "lz" =>
          Done' \in Nat /\ \A i \in 1 .. Len(todo') : todo'[i] = block.lmds[Done' + i]
    <3>1. CASE todo' = todo
      <4>1. Done' = Done
        BY <3>1 DEF Done
      <4> QED
        BY <2>1, <3>1, <4>1 DEF SourceInv
    <3>2. CASE todo # <<>> /\ todo' = Tail(todo)
      <4>1. Len(todo') = Len(todo) - 1 /\ Len(todo) \in Nat /\ Len(todo) > 0
            /\ \A i \in 1 .. Len(todo) - 1 : todo'[i] = todo[i + 1]
        BY <2>1, <3>2
      <4>2. Done' = Done + 1 /\ Done \in Int
        BY <2>1, <4>1 DEF Done
      <4> SUFFICES ASSUME block.kind = "lz"
                   PROVE  Done' \in Nat /\ \A i \in 1 .. Len(todo') : todo'[i] = block.lmds[Done' + i]
        OBVIOUS
      <4>3. Done \in Nat /\ \A i \in 1 .. Len(todo) : todo[i] = block.lmds[Done + i]
        BY <2>1 DEF SourceInv
      <4>4. ASSUME NEW i \in 1 .. Len(todo') PROVE todo'[i] = block.lmds[Done' + i]
        <5>1. i \in 1 .. Len(todo) - 1 /\ i + 1 \in 1 .. Len(todo) /\ Done + (i + 1) = Done' + i
          BY <4>1, <4>2
        <5>2. todo[i + 1] = block.lmds[Done + (i + 1)]
          BY <4>3, <5>1
        <5> QED
          BY <4>1, <5>1, <5>2
      <4> QED
        BY <4>2, <4>3, <4>4
    <3> QED
      BY <3>1, <3>2
  <2> QED
    BY <1>1, <2>1, <2>2 DEF SourceInv
<1>3. DistanceInv' /\ PositionInv'
  BY DEF DistanceInv, PositionInv, Live
<1>4. LiteralsInv'
  BY DEF FuncInv, LiteralsInv
<1>5. OutputIsPrefix' /\ EndInv'
  BY <1>1 DEF FuncInv, OutputIsPrefix, EndInv
<1> QED
  BY <1>2, <1>3, <1>4, <1>5 DEF FuncInv

\* EndOfStream keeps FuncInv.
LEMMA FuncEndOfStream ==
  ASSUME FuncInv, SafeInv', EndOfStream PROVE FuncInv'
<1>1. /\ pc = "decode" /\ block = NoBlock /\ rest # <<>> /\ rest[1].kind = "end"
      /\ rest' = Tail(rest) /\ pc' = "ok"
      /\ UNCHANGED <<input, size, mem, dst, top, block, lits, lit, todo, held, raw>>
  BY DEF EndOfStream, Between, NextIs, Return, blockVars
<1>2. /\ Taken' = Taken + 1 /\ Taken' \in 1 .. Len(input.items) /\ rest[1] = input.items[Taken']
      /\ \A i \in 1 .. Len(rest') : rest'[i] = input.items[Taken' + i]
      /\ \A i \in 1 .. Taken : input.items[i].kind \in {"raw", "lz"}
  BY <1>1, NextItem
<1>3. /\ TypeInv /\ Taken \in 0 .. Len(input.items) /\ Len(input.items) \in Nat
      /\ NoBlock.kind = "none"
  BY FuncFacts
<1>4. Taken' - 1 = Taken /\ Taken' > 0 /\ Taken' \in Nat
  BY <1>2, <1>3
<1>5. Meaning' = Meaning
  BY <1>1, SameMeaning
<1>6. SourceInv'
  BY <1>1, <1>2, <1>3, <1>4 DEF SourceInv
<1>7. DistanceInv'
  <2>1. \A i \in 1 .. Taken : input.items[i].lmds # <<>> => input.items[i].lmds[1].d # 0
    BY <1>1, <1>3 DEF FuncInv, DistanceInv, Live
  <2>2. input.items[Taken'].lmds = <<>>
    <3>1. input.items[Taken'] \in StreamItem /\ input.items[Taken'].kind = "end"
      BY <1>1, <1>2, <1>3 DEF TypeInv
    <3> QED
      BY <3>1 DEF StreamItem
  <2>3. \A i \in 1 .. Taken' : i \in 1 .. Taken \/ i = Taken'
    BY <1>2, <1>3
  <2>4. \A i \in 1 .. Taken' : input.items[i].lmds # <<>> => input.items[i].lmds[1].d # 0
    BY <2>1, <2>2, <2>3
  <2>5. block'.kind # "lz" /\ input' = input
    BY <1>1, <1>3
  <2> QED
    BY <2>4, <2>5 DEF DistanceInv
<1>8. LiteralsInv' /\ PositionInv'
  BY <1>1, <1>3 DEF LiteralsInv, PositionInv, Live
<1>9. OutputIsPrefix'
  BY <1>1, <1>5 DEF FuncInv, OutputIsPrefix
<1>10. EndInv'
  <2>1. Meaning.sound => dst = Len(Stage(Taken).bytes)
    BY <1>1 DEF FuncInv, PositionInv, Live
  <2>2. Stage(Taken' - 1) = Meaning
    <3> DEFINE u == Taken'
    <3>1. u \in 1 .. Len(input.items) /\ input.items[u].kind = "end"
      BY <1>1, <1>2
    <3> HIDE DEF u
    <3>2. Stage(u - 1) = Meaning
      BY <1>3, <3>1, StageAtEnd
    <3> QED
      BY <3>2 DEF u
  <2>3. Meaning.sound => dst = Len(Meaning.bytes)
    BY <1>4, <2>1, <2>2
  <2> QED
    BY <1>1, <1>5, <2>3 DEF EndInv
<1> QED
  BY <1>6, <1>7, <1>8, <1>9, <1>10 DEF FuncInv

\* What opening a block does, compressed or not.
Opened ==
  /\ pc = "decode" /\ pc' = "decode" /\ block = NoBlock /\ rest # <<>> /\ rest[1].kind \in {"raw", "lz"}
  /\ rest' = Tail(rest) /\ block' = rest[1]
  /\ UNCHANGED <<input, size, mem, dst>>

\* A block that was opened is at its first triple.
LEMMA OpenedSource ==
  ASSUME FuncInv, Opened,
         rest[1].kind = "lz" => todo' = rest[1].lmds /\ held' = HeldAtStart
  PROVE  SourceInv' /\ DistanceInv' /\ OutputIsPrefix' /\ EndInv'
<1>1. /\ pc = "decode" /\ pc' = "decode" /\ block = NoBlock /\ rest # <<>>
      /\ rest[1].kind \in {"raw", "lz"}
      /\ rest' = Tail(rest) /\ block' = rest[1] /\ UNCHANGED <<input, size, mem, dst>>
  BY DEF Opened
<1>2. /\ Taken' = Taken + 1 /\ Taken' \in 1 .. Len(input.items) /\ rest[1] = input.items[Taken']
      /\ \A i \in 1 .. Len(rest') : rest'[i] = input.items[Taken' + i]
      /\ \A i \in 1 .. Taken : input.items[i].kind \in {"raw", "lz"}
  BY <1>1, NextItem
<1>3. /\ TypeInv /\ Taken \in 0 .. Len(input.items) /\ Len(input.items) \in Nat
      /\ NoBlock.kind = "none"
  BY FuncFacts
<1>4. Taken' - 1 = Taken /\ Taken' > 0 /\ Taken' \in Nat
      /\ \A i \in 1 .. Taken' : i \in 1 .. Taken \/ i = Taken'
  BY <1>2, <1>3
<1>5. rest[1] \in StreamItem
  BY <1>1, <1>3, ItemTaken
<1>6. block'.kind = "lz" => Done' = 0 /\ todo' = block'.lmds
  <2>1. Len(rest[1].lmds) \in Nat
    BY <1>5, ItemTypes
  <2> QED
    BY <1>1, <2>1 DEF Done
<1>7. SourceInv'
  <2>1. \A i \in 1 .. Taken' : input'.items[i].kind \in {"raw", "lz"}
    BY <1>1, <1>2, <1>4
  <2>2. block'.kind = "lz" =>
          Done' \in Nat /\ \A i \in 1 .. Len(todo') : todo'[i] = block'.lmds[Done' + i]
    <3> SUFFICES ASSUME block'.kind = "lz"
                 PROVE  Done' \in Nat /\ \A i \in 1 .. Len(todo') : todo'[i] = block'.lmds[Done' + i]
      OBVIOUS
    <3>1. Done' = 0 /\ todo' = block'.lmds
      BY <1>6
    <3>2. \A i \in 1 .. Len(todo') : 0 + i = i
      OBVIOUS
    <3> QED
      BY <3>1, <3>2
  <2> QED
    BY <1>1, <1>2, <1>4, <2>1, <2>2 DEF SourceInv
<1>8. DistanceInv'
  <2>1. \A i \in 1 .. Taken : input.items[i].lmds # <<>> => input.items[i].lmds[1].d # 0
    BY <1>1, <1>3 DEF FuncInv, DistanceInv, Live
  <2>2. block'.kind = "raw" => block'.lmds = <<>>
    BY <1>1, <1>5 DEF StreamItem
  <2>3. block' = input.items[Taken']
    BY <1>1, <1>2
  <2>4. block'.kind = "lz" => Done' = 0 /\ held' = HeldAtStart
    BY <1>1, <1>6
  <2>5. ASSUME NEW i \in 1 .. Taken'
        PROVE  \/ i = Taken' /\ block'.kind = "lz" /\ Done' = 0
               \/ input'.items[i].lmds # <<>> => input'.items[i].lmds[1].d # 0
    <3>1. CASE i \in 1 .. Taken
      BY <1>1, <2>1, <3>1
    <3>2. CASE i = Taken'
      BY <1>1, <2>2, <2>3, <2>4, <3>2
    <3> QED
      BY <1>4, <3>1, <3>2
  <2>6. HeldAtStart' = HeldAtStart
    BY DEF HeldAtStart
  <2> QED
    BY <2>4, <2>5, <2>6 DEF DistanceInv
<1>9. Meaning' = Meaning
  BY <1>1, SameMeaning
<1>10. OutputIsPrefix' /\ EndInv'
  BY <1>1, <1>9 DEF FuncInv, OutputIsPrefix, EndInv
<1> QED
  BY <1>7, <1>8, <1>10

\* The numbers of the block that was opened.
LEMMA OpenedPlace ==
  ASSUME FuncInv, Opened, Meaning.sound
  PROVE  dst = Len(Stage(Taken' - 1).bytes) /\ Stage(Taken' - 1) \in StageRec(Byte)
<1>1. pc = "decode" /\ block = NoBlock /\ rest # <<>> /\ rest' = Tail(rest) /\ input' = input
  BY DEF Opened
<1>2. Taken' = Taken + 1
  BY <1>1, NextItem
<1>3. Taken \in 0 .. Len(input.items) /\ TypeInv
  BY FuncFacts
<1>4. Taken' - 1 = Taken
  BY <1>2, <1>3
<1>5. dst = Len(Stage(Taken).bytes)
  BY <1>1 DEF FuncInv, PositionInv, Live
<1>6. Stage(Taken) \in StageRec(Byte)
  BY <1>3, StageTypes
<1> QED
  BY <1>4, <1>5, <1>6

\* OpenRaw keeps FuncInv.
LEMMA FuncOpenRaw ==
  ASSUME FuncInv, SafeInv', OpenRaw PROVE FuncInv'
<1>1. /\ Opened /\ rest[1].kind = "raw" /\ raw' = rest[1].raw /\ block' = rest[1]
      /\ pc' = "decode" /\ input' = input /\ dst' = dst
  BY DEF OpenRaw, Opened, Between, NextIs
<1>2. SourceInv' /\ DistanceInv' /\ OutputIsPrefix' /\ EndInv'
  BY <1>1, OpenedSource
<1>3. LiteralsInv'
  BY <1>1 DEF LiteralsInv
<1>4. PositionInv'
  <2>1. Meaning' = Meaning
    BY <1>1, SameMeaning
  <2>2. Meaning.sound => dst = Len((Stage(Taken - 1).bytes)')
    <3>1. (Stage(Taken - 1).bytes)' = Stage(Taken' - 1).bytes
      BY <1>1 DEF Stage
    <3> QED
      BY <1>1, <3>1, OpenedPlace
  <2>3. block'.raw - raw' = 0 /\ block'.kind = "raw" /\ block' # NoBlock
    <3>1. rest[1] \in StreamItem
      BY <1>1, FuncFacts, ItemTaken DEF Opened
    <3>2. rest[1].raw \in Nat
      BY <3>1, ItemTypes
    <3>3. NoBlock.kind = "none"
      BY FuncFacts
    <3> QED
      BY <1>1, <3>2, <3>3
  <2>4. dst \in Nat
    BY FuncFacts
  <2>5. dst' = dst
    BY <1>1
  <2>6. Meaning.sound => dst' = Len((Stage(Taken - 1).bytes)') + (block'.raw - raw')
    BY <2>2, <2>3, <2>4, <2>5
  <2> QED
    BY <2>1, <2>3, <2>6 DEF PositionInv
<1> QED
  BY <1>2, <1>3, <1>4 DEF FuncInv

\* The meaning of a compressed block, triple by triple.
TriplesFrom(a, x) == Progress(Start(a.bytes, a.sound, AsBlock(x)), x.lmds)

\* The triples of a block lead from one stage to the next.
LEMMA CompressedMeaning ==
  ASSUME NEW x \in StreamItem, x.kind = "lz", NEW a \in StageRec(Byte), NEW j \in 0 .. Len(x.lmds),
         NEW P, P = TriplesFrom(a, x), NEW e, e = DecodedBlock(a, AsBlock(x))
  PROVE  /\ P[0] = Start(a.bytes, a.sound, AsBlock(x))
         /\ j > 0 => P[j] = Executed(P[j - 1], x.lmds[j])
         /\ P[j] \in Acc(Byte) /\ Begins(P[j].bytes, e.bytes) /\ (e.sound => P[j].sound)
         /\ P[Len(x.lmds)].bytes = e.bytes
<1> DEFINE start == Start(a.bytes, a.sound, AsBlock(x))
           n == Len(x.lmds)
<1>1. AsBlock(x) \in Blk(Byte) /\ AsBlock(x).lmds = x.lmds /\ x.lmds \in Seq(LMD) /\ n \in Nat
  <2>1. AsBlock(x).lmds = x.lmds
    BY DEF AsBlock
  <2>2. x.lmds \in Seq(LMD)
    BY ItemTypes
  <2> QED
    BY <2>1, <2>2, AsBlockTypes
<1>2. start \in Acc(Byte)
  BY <1>1, StartTypes
<1>3. P = Progress(start, x.lmds)
  BY DEF TriplesFrom
<1> HIDE DEF start
<1>4. P[0] = start /\ \A i \in 1 .. n : P[i] = Executed(P[i - 1], x.lmds[i])
  BY <1>1, <1>2, <1>3, ProgressIs
<1>5. P[j] \in Acc(Byte) /\ Begins(P[j].bytes, P[n].bytes) /\ (P[n].sound => P[j].sound)
  <2>1. j \in 0 .. Len(x.lmds)
    OBVIOUS
  <2>2. P[j] \in Acc(Byte)
    BY <1>1, <1>2, <1>3, <2>1, ProgressExtends
  <2>3. Begins(P[j].bytes, P[n].bytes) /\ (P[n].sound => P[j].sound)
    BY <1>1, <1>2, <1>3, <2>1, ProgressExtends
  <2> QED
    BY <2>2, <2>3
<1>6. e.bytes = P[n].bytes /\ e.sound = P[n].sound
  <2>1. DecodedBlock(a, AsBlock(x)) = [bytes |-> P[n].bytes, sound |-> P[n].sound]
    BY <1>1, <1>3 DEF DecodedBlock, start
  <2> HIDE DEF n
  <2> QED
    BY <2>1
<1>7. j > 0 => j \in 1 .. n
  BY <1>1
<1> QED
  BY <1>4, <1>5, <1>6, <1>7 DEF start

\* The block that is being decoded, and its meaning.
LEMMA CurrentIs ==
  ASSUME FuncInv, block.kind = "lz", NEW j \in 0 .. Len(block.lmds)
  PROVE  /\ block \in StreamItem /\ Current(j) \in Acc(Byte)
         /\ j > 0 => Current(j) = Executed(Current(j - 1), block.lmds[j])
         /\ Current(Len(block.lmds)).bytes = Stage(Taken).bytes
         /\ Begins(Current(j).bytes, Meaning.bytes)
         /\ Meaning.sound => Current(j).sound
<1>1. TypeInv /\ block \in StreamItem \cup {NoBlock} /\ NoBlock.kind = "none" /\ Taken \in 0 .. Len(input.items)
  BY FuncFacts
<1>2. block \in StreamItem /\ block # NoBlock
  BY <1>1
<1>3. Taken > 0 /\ block = input.items[Taken]
  BY <1>2 DEF FuncInv, SourceInv
<1>4. Taken \in 1 .. Len(input.items) /\ Taken - 1 \in 0 .. Len(input.items)
  BY <1>1, <1>3
<1>5. \A i \in 1 .. Taken : input.items[i].kind \in {"raw", "lz"}
  <2>1. pc # "ok"
    BY <1>2 DEF FuncInv, SourceInv
  <2> QED
    BY <2>1 DEF FuncInv, SourceInv
<1> DEFINE a == Stage(Taken - 1)
           t == Taken
           P == TriplesFrom(a, block)
           e == DecodedBlock(a, AsBlock(block))
<1>6. Stage(t) = e
  <2>1. t \in 1 .. Len(input.items) /\ \A i \in 1 .. t : input.items[i].kind \in {"raw", "lz"}
    BY <1>4, <1>5
  <2>2. block = input.items[t]
    BY <1>3
  <2>3. a = Stage(t - 1)
    OBVIOUS
  <2> HIDE DEF t, a
  <2> QED
    BY <1>1, <2>1, <2>2, <2>3, StageNext
<1>7. \A i : Current(i) = P[i]
  BY DEF Current, TriplesFrom
<1>8. a \in StageRec(Byte)
  BY <1>1, <1>4, StageTypes
<1>9. /\ Stage(t) \in StageRec(Byte) /\ Begins(Stage(t).bytes, Meaning.bytes)
      /\ Meaning.sound => Stage(t).sound
  <2>1. t \in 0 .. Len(input.items)
    BY <1>1
  <2> HIDE DEF t
  <2> QED
    BY <1>1, <2>1, StageTypes
<1>10. Meaning.bytes \in Seq(Byte)
  BY FuncFacts
<1> HIDE DEF a, t, P, e
<1>11. /\ j > 0 => P[j] = Executed(P[j - 1], block.lmds[j])
       /\ P[j] \in Acc(Byte) /\ Begins(P[j].bytes, e.bytes) /\ (e.sound => P[j].sound)
       /\ P[Len(block.lmds)].bytes = e.bytes
  BY <1>2, <1>8, CompressedMeaning DEF P, e
<1>12. P[j].bytes \in Seq(Byte) /\ e.bytes \in Seq(Byte)
  BY <1>6, <1>9, <1>11 DEF Acc, StageRec
<1>13. Begins(P[j].bytes, Meaning.bytes)
  BY <1>6, <1>9, <1>10, <1>11, <1>12, BeginsBeyond
<1> QED
  BY <1>2, <1>6, <1>7, <1>9, <1>11, <1>13 DEF t

\* OpenCompressed keeps FuncInv.
LEMMA FuncOpenCompressed ==
  ASSUME FuncInv, SafeInv', OpenCompressed PROVE FuncInv'
<1>1. /\ Opened /\ rest[1].kind = "lz" /\ block' = rest[1] /\ todo' = rest[1].lmds
      /\ held' = HeldAtStart /\ lit' = 0 /\ pc' = "decode" /\ input' = input /\ dst' = dst
      /\ lits' = [i \in 0 .. LitCap - 1 |->
                    IF i < Len(rest[1].lits) THEN rest[1].lits[i + 1] ELSE lits[i]]
  BY DEF OpenCompressed, Opened, Between, NextIs
<1>2. SourceInv' /\ DistanceInv' /\ OutputIsPrefix' /\ EndInv'
  BY <1>1, OpenedSource
<1> DEFINE x == rest[1]
<1>3. x \in StreamItem /\ x.lits \in Seq(Byte) /\ Len(x.lits) \in Nat /\ Len(x.lmds) \in Nat
  <2>1. x \in StreamItem
    BY <1>1, FuncFacts, ItemTaken DEF Opened
  <2> QED
    BY <2>1, ItemTypes
<1>4. LiteralsInv'
  <2>1. \A i \in 0 .. LitCap - 1 : i < Len(x.lits) => lits'[i] = x.lits[i + 1]
    BY <1>1
  <2>2. LitCap' = LitCap
    BY DEF LitCap
  <2> QED
    BY <1>1, <2>1, <2>2 DEF LiteralsInv
<1>5. PositionInv'
  <2> SUFFICES ASSUME Meaning.sound
               PROVE  Placed(Meaning.bytes, x.lits, Current(Done)', dst, 0, 0, 0, -1)
    <3>1. Meaning' = Meaning
      BY <1>1, SameMeaning
    <3>2. block'.kind = "lz" /\ block' # NoBlock
      BY <1>1, FuncFacts
    <3>3. held'.l = 0 /\ held'.m = 0 /\ held'.d = -1
      BY <1>1 DEF HeldAtStart, Triple
    <3> QED
      BY <1>1, <3>1, <3>2, <3>3 DEF PositionInv
  <2> DEFINE a == Stage(Taken' - 1)
             c == Start(a.bytes, a.sound, AsBlock(x))
  <2>1. dst = Len(a.bytes) /\ a \in StageRec(Byte)
    BY <1>1, OpenedPlace
  <2>2. Done' = 0
    BY <1>1, <1>3 DEF Done
  <2>3. Current(Done)' = TriplesFrom(a, x)[0]
    <3>1. Current(Done)' = Progress(Start(a.bytes, a.sound, AsBlock(x)), x.lmds)[Done']
      BY <1>1 DEF Current, Stage
    <3> QED
      BY <2>2, <3>1 DEF TriplesFrom
  <2> HIDE DEF a
  <2>4. TriplesFrom(a, x)[0] = c
    <3>1. 0 \in 0 .. Len(x.lmds)
      BY <1>3
    <3> HIDE DEF x
    <3> QED
      BY <1>1, <1>3, <2>1, <3>1, CompressedMeaning DEF x
  <2>5. c.lits = x.lits /\ c.bytes = a.bytes /\ c.d = 0
    BY <1>1 DEF Start, AsBlock
  <2>6. dst \in Nat
    BY FuncFacts
  <2> HIDE DEF c, x
  <2>7. Placed(Meaning.bytes, x.lits, c, dst, 0, 0, 0, -1)
    <3>1. 0 + 0 + Len(x.lits) = Len(x.lits) /\ dst + 0 + 0 = dst /\ 0 + 0 = 0
      BY <1>3, <2>6
    <3>2. Follows(x.lits, 0, x.lits)
      BY <1>3 DEF Follows
    <3>3. Recurs(Meaning.bytes, dst + 0, 0, -1)
      BY DEF Recurs
    <3> QED
      BY <2>1, <2>5, <3>1, <3>2, <3>3 DEF Placed
  <2> QED
    BY <2>3, <2>4, <2>7
<1> QED
  BY <1>2, <1>4, <1>5 DEF FuncInv

\* CloseBlock keeps FuncInv.
LEMMA FuncCloseBlock ==
  ASSUME FuncInv, SafeInv', CloseBlock PROVE FuncInv'
<1>1. /\ pc = "decode" /\ block.kind = "lz" /\ held.l = 0 /\ held.m = 0 /\ todo = <<>>
      /\ block' = NoBlock
      /\ UNCHANGED <<pc, input, rest, size, mem, dst, top, lits, lit, todo, held, raw>>
  BY DEF CloseBlock, InBlock, Interrupted
<1>2. Taken' = Taken /\ Meaning' = Meaning /\ Stage(Taken)' = Stage(Taken)
  <2>1. Taken' = Taken /\ Meaning' = Meaning
    BY <1>1, SameMeaning
  <2> QED
    BY <1>1, <2>1 DEF Stage
<1>3. NoBlock.kind = "none" /\ Len(block.lmds) \in Nat /\ dst \in Nat /\ Taken \in 0 .. Len(input.items)
      /\ Len(input.items) \in Nat
  BY FuncFacts
<1>4. SourceInv'
  BY <1>1, <1>2, <1>3 DEF FuncInv, SourceInv
<1>5. Done = Len(block.lmds)
  BY <1>1, <1>3 DEF Done
<1>6. DistanceInv'
  <2>1. ASSUME NEW i \in 1 .. Taken, input.items[i].lmds # <<>> PROVE input.items[i].lmds[1].d # 0
    <3>1. CASE i = Taken /\ Done = 0
      <4>1. block \in StreamItem /\ block # NoBlock
        BY <1>1, <1>3, CurrentIs, FuncFacts
      <4>2. block = input.items[Taken]
        BY <4>1 DEF FuncInv, SourceInv
      <4>3. block.lmds \in Seq(LMD)
        BY <4>1, ItemTypes
      <4>4. block.lmds = <<>>
        <5> DEFINE t == block.lmds
        <5>1. t \in Seq(LMD) /\ Len(t) = 0
          BY <1>5, <3>1, <4>3
        <5> HIDE DEF t
        <5>2. t = <<>>
          BY <5>1
        <5> QED
          BY <5>2 DEF t
      <4> QED
        BY <2>1, <3>1, <4>2, <4>4
    <3>2. CASE ~(i = Taken /\ Done = 0)
      BY <1>1, <2>1, <3>2 DEF FuncInv, DistanceInv, Live
    <3> QED
      BY <3>1, <3>2
  <2> QED
    BY <1>1, <1>2, <1>3, <2>1 DEF DistanceInv
<1>7. LiteralsInv'
  BY <1>1, <1>3 DEF LiteralsInv
<1>8. PositionInv'
  <2> SUFFICES ASSUME Meaning.sound PROVE dst = Len(Stage(Taken).bytes)
    BY <1>1, <1>2, <1>3 DEF PositionInv
  <2>1. Placed(Meaning.bytes, block.lits, Current(Done), dst, lit, held.l, held.m, held.d)
    BY <1>1 DEF FuncInv, PositionInv, Live
  <2>2. dst + 0 + 0 = Len(Current(Done).bytes)
    BY <1>1, <2>1 DEF Placed
  <2>3. Current(Done).bytes = Stage(Taken).bytes
    <3>1. Len(block.lmds) \in 0 .. Len(block.lmds)
      BY <1>3
    <3> QED
      BY <1>1, <1>5, <3>1, CurrentIs
  <2> QED
    BY <1>3, <2>2, <2>3
<1>9. OutputIsPrefix' /\ EndInv'
  BY <1>1, <1>2 DEF FuncInv, OutputIsPrefix, EndInv
<1> QED
  BY <1>4, <1>6, <1>7, <1>8, <1>9 DEF FuncInv

\* The bytes of an uncompressed block that are in the destination.
LEMMA RawPlace ==
  ASSUME FuncInv, InRaw
  PROVE  /\ block \in StreamItem /\ raw <= block.raw /\ block.raw - raw <= Len(block.lits)
         /\ block.raw \in Nat /\ block.lits \in Seq(Byte) /\ Available \in Nat
         /\ Meaning.sound =>
              /\ dst = Len(Stage(Taken - 1).bytes) + (block.raw - raw)
              /\ Len(Stage(Taken).bytes) = Len(Stage(Taken - 1).bytes) + Len(block.lits)
              /\ Len(Stage(Taken).bytes) <= Len(Meaning.bytes)
              /\ Len(Stage(Taken - 1).bytes) \in Nat
              /\ Follows(Meaning.bytes, Len(Stage(Taken - 1).bytes), block.lits)
<1>1. /\ TypeInv /\ block \in StreamItem \cup {NoBlock} /\ NoBlock.kind = "none"
      /\ Taken \in 0 .. Len(input.items) /\ Len(input.items) \in Nat /\ raw \in Nat
      /\ pc = "decode" /\ block.kind = "raw"
  BY FuncFacts DEF InRaw
<1>2. block \in StreamItem /\ block # NoBlock
  BY <1>1
<1>3. raw <= block.raw /\ block.raw - raw <= Len(block.lits)
  BY <1>1 DEF FuncInv, SafeInv, ConfinedInv
<1>4. block.raw \in Nat /\ block.lits \in Seq(Byte) /\ Len(block.lits) \in Nat
  BY <1>2, ItemTypes
<1>5. Available \in Nat
  BY <1>1, <1>3, <1>4 DEF Available
<1>6. ASSUME Meaning.sound
      PROVE  /\ dst = Len(Stage(Taken - 1).bytes) + (block.raw - raw)
             /\ Len(Stage(Taken).bytes) = Len(Stage(Taken - 1).bytes) + Len(block.lits)
             /\ Len(Stage(Taken).bytes) <= Len(Meaning.bytes)
             /\ Len(Stage(Taken - 1).bytes) \in Nat
             /\ Follows(Meaning.bytes, Len(Stage(Taken - 1).bytes), block.lits)
  <2> DEFINE t == Taken
  <2>1. t \in 1 .. Len(input.items) /\ block = input.items[t] /\ t - 1 \in 0 .. Len(input.items)
        /\ \A i \in 1 .. t : input.items[i].kind \in {"raw", "lz"}
    BY <1>1, <1>2 DEF FuncInv, SourceInv
  <2>2. dst = Len(Stage(t - 1).bytes) + (block.raw - raw)
    BY <1>1, <1>6 DEF FuncInv, PositionInv, Live
  <2> HIDE DEF t
  <2>3. Stage(t) = DecodedBlock(Stage(t - 1), AsBlock(block))
    BY <1>1, <2>1, StageNext
  <2>4. t \in 0 .. Len(input.items)
    BY <1>1, <2>1
  <2>5. /\ Stage(t) \in StageRec(Byte) /\ Begins(Stage(t).bytes, Meaning.bytes)
        /\ Stage(t).sound
    BY <1>1, <1>6, <2>4, StageTypes
  <2>6. Stage(t - 1) \in StageRec(Byte)
    BY <1>1, <2>1, StageTypes
  <2> DEFINE a == Stage(t - 1)
             e == Stage(t)
             b == Meaning.bytes
  <2>7. a \in StageRec(Byte) /\ e = DecodedBlock(a, AsBlock(block)) /\ e.sound
    BY <2>3, <2>5, <2>6
  <2>8. Begins(e.bytes, b) /\ e.bytes \in Seq(Byte) /\ a.bytes \in Seq(Byte)
    BY <2>5, <2>6 DEF StageRec
  <2> HIDE DEF a, e, b
  <2>9. Len(e.bytes) = Len(a.bytes) + Len(block.lits) /\ Follows(e.bytes, Len(a.bytes), block.lits)
    BY <1>1, <1>2, <2>7, RawMeaning
  <2>10. Len(a.bytes) \in Nat /\ Len(e.bytes) \in Nat /\ Len(e.bytes) <= Len(b)
    BY <2>8 DEF Begins
  <2>11. Follows(b, Len(a.bytes), block.lits)
    <3>1. ASSUME NEW i \in 1 .. Len(block.lits) PROVE b[Len(a.bytes) + i] = block.lits[i]
      <4> DEFINE h == Len(a.bytes) + i
      <4>1. h \in 1 .. Len(e.bytes)
        <5> DEFINE f == Len(a.bytes)
                   g == Len(block.lits)
        <5>1. Len(e.bytes) = f + g /\ f \in Nat /\ g \in Nat /\ i \in 1 .. g
          BY <1>4, <2>9, <2>10
        <5> HIDE DEF f, g
        <5>2. f + i \in 1 .. Len(e.bytes)
          BY <5>1
        <5> QED
          BY <5>2 DEF f
      <4>2. e.bytes[h] = block.lits[i]
        BY <2>9 DEF Follows
      <4> HIDE DEF h
      <4>3. b[h] = e.bytes[h]
        BY <2>8, <4>1 DEF Begins
      <4> QED
        BY <4>2, <4>3 DEF h
    <3> QED
      BY <3>1 DEF Follows
  <2> QED
    BY <2>2, <2>9, <2>10, <2>11 DEF a, e, b, t
<1> QED
  BY <1>2, <1>3, <1>4, <1>5, <1>6

\* CopyRaw keeps FuncInv.
LEMMA FuncCopyRaw ==
  ASSUME FuncInv, SafeInv', CopyRaw PROVE FuncInv'
<1>1. /\ InRaw /\ pc = "decode" /\ block.kind = "raw"
      /\ UNCHANGED <<input, rest, size, lits, lit, todo, held>>
  BY DEF CopyRaw, InRaw
<1>2. /\ TypeInv /\ NoBlock.kind = "none" /\ Taken \in 0 .. Len(input.items) /\ Len(input.items) \in Nat
      /\ raw \in Nat /\ dst \in Nat /\ size \in Nat /\ dst \in 0 .. size
      /\ Len(Meaning.bytes) \in Nat
  BY FuncFacts
<1>3. Taken' = Taken /\ Meaning' = Meaning /\ Stage(Taken)' = Stage(Taken)
      /\ Stage(Taken - 1)' = Stage(Taken - 1)
  <2>1. Taken' = Taken /\ Meaning' = Meaning
    BY <1>1, SameMeaning
  <2> QED
    BY <1>1, <2>1 DEF Stage
<1>4. /\ block \in StreamItem /\ raw <= block.raw /\ block.raw - raw <= Len(block.lits)
      /\ block.raw \in Nat /\ block.lits \in Seq(Byte) /\ Available \in Nat
      /\ Len(block.lits) <= block.raw
  BY <1>1, RawPlace, ItemTypes
<1> DEFINE a == Len(Stage(Taken - 1).bytes)
           e == Len(Stage(Taken).bytes)
<1>5. Meaning.sound => /\ dst = a + (block.raw - raw) /\ e = a + Len(block.lits)
                       /\ e <= Len(Meaning.bytes) /\ a \in Nat
                       /\ Follows(Meaning.bytes, a, block.lits)
  BY <1>1, RawPlace
<1>6. Len(block.lits) \in Nat /\ block # NoBlock
  BY <1>1, <1>2, <1>4
<1> DEFINE f == block.raw
           g == Len(block.lits)
           h == Len(Meaning.bytes)
<1>n. /\ f \in Nat /\ g \in Nat /\ h \in Nat /\ raw \in 0 .. f /\ f - raw <= g /\ g <= f
      /\ dst \in 0 .. size /\ size \in Nat
  BY <1>2, <1>4, <1>6
<1>s. Meaning.sound => dst = a + (f - raw) /\ e = a + g /\ e <= h /\ a \in Nat
  BY <1>5
<1>7. /\ block = input.items[Taken] /\ block.lmds = <<>> /\ Taken > 0
      /\ \A i \in 1 .. Taken : input.items[i].lmds # <<>> => input.items[i].lmds[1].d # 0
      /\ \A i \in 1 .. Taken : input.items[i].kind \in {"raw", "lz"}
  BY <1>1, <1>4, <1>6 DEF FuncInv, SourceInv, DistanceInv, Live, StreamItem
<1>8. SourceInv' /\ DistanceInv' /\ LiteralsInv'
  <2>1. /\ block' = block \/ (block' = NoBlock /\ pc' = "decode")
        /\ pc' \in {"decode", "srcEmpty", "dstFull"}
        /\ pc' = "dstFull" => dst' = size' /\ block' = block
    BY <1>1, <1>6, CopyRawCases DEF FuncInv, RawCopied
  <2>2. block'.kind # "lz"
    BY <1>1, <1>2, <2>1
  <2>3. SourceInv'
    BY <1>1, <1>2, <1>3, <1>6, <1>7, <2>1, <2>2 DEF FuncInv, SourceInv
  <2>4. DistanceInv'
    BY <1>1, <1>3, <1>7, <2>2 DEF DistanceInv
  <2> QED
    BY <2>2, <2>3, <2>4 DEF LiteralsInv
<1>9. CASE raw = 0 /\ block' = NoBlock /\ UNCHANGED <<pc, mem, dst, top, raw>>
  <2>1. Meaning.sound => dst = e
    <3> HIDE DEF a, e, f, g, h
    <3> QED
      BY <1>n, <1>s, <1>9
  <2>2. PositionInv'
    BY <1>2, <1>3, <1>9, <2>1 DEF PositionInv
  <2>3. OutputIsPrefix' /\ EndInv'
    BY <1>1, <1>3, <1>9 DEF FuncInv, OutputIsPrefix, EndInv
  <2> QED
    BY <1>8, <2>2, <2>3 DEF FuncInv
<1>10. CASE /\ raw # 0 /\ Available = 0
            /\ pc' = "srcEmpty" /\ UNCHANGED <<block, mem, dst, top, raw>>
  <2>1. PositionInv' /\ EndInv'
    BY <1>10 DEF PositionInv, Live, EndInv
  <2>2. OutputIsPrefix'
    BY <1>3, <1>10 DEF FuncInv, OutputIsPrefix
  <2> QED
    BY <1>8, <2>1, <2>2 DEF FuncInv
<1>11. CASE /\ raw # 0 /\ Available # 0 /\ size = dst
            /\ pc' = "dstFull" /\ UNCHANGED <<block, mem, dst, top, raw>>
  <2>1. Meaning.sound => size < Len(Meaning.bytes)
    <3> SUFFICES ASSUME Meaning.sound PROVE size < Len(Meaning.bytes)
      OBVIOUS
    <3>1. Len(block.lits) - (block.raw - raw) > 0
      BY <1>4, <1>11 DEF Available
    <3>2. dst = a + (block.raw - raw) /\ e = a + Len(block.lits) /\ e <= Len(Meaning.bytes) /\ a \in Nat
      BY <1>5
    <3> HIDE DEF a, e
    <3> QED
      BY <1>2, <1>4, <1>6, <1>11, <3>1, <3>2
  <2>2. EndInv'
    BY <1>1, <1>3, <1>11, <2>1 DEF EndInv
  <2>3. PositionInv'
    BY <1>1, <1>3, <1>5, <1>6, <1>11 DEF PositionInv
  <2>4. OutputIsPrefix'
    BY <1>3, <1>11 DEF FuncInv, OutputIsPrefix
  <2> QED
    BY <1>8, <2>2, <2>3, <2>4 DEF FuncInv
<1>12. ASSUME NEW n \in Nat, RawCopied(n) PROVE FuncInv'
  <2>1. /\ n <= raw /\ n <= Len(block.lits) - (block.raw - raw) /\ n <= size - dst
        /\ dst' = dst + n /\ raw' = raw - n /\ pc' = pc /\ block' = block
    BY <1>12 DEF RawCopied, Available
  <2>2. mem' = [i \in 0 .. size - 1 |->
                  IF i \in dst .. dst + n - 1
                  THEN block.lits[block.raw - raw + i - dst + 1] ELSE mem[i]]
    BY <1>12 DEF RawCopied
  <2>3. PositionInv'
    <3> SUFFICES ASSUME Meaning.sound PROVE dst + n = a + (block.raw - (raw - n))
      BY <1>1, <1>3, <1>6, <2>1 DEF PositionInv
    <3> HIDE DEF a, e, f, g, h
    <3>1. dst + n = a + (f - (raw - n))
      BY <1>n, <1>s
    <3> QED
      BY <3>1 DEF f
  <2>4. OutputIsPrefix'
    <3> SUFFICES ASSUME Meaning.sound
                 PROVE  /\ dst' <= Len(Meaning.bytes)
                        /\ \A i \in 0 .. dst' - 1 : mem'[i] = Meaning.bytes[i + 1]
      BY <1>3 DEF OutputIsPrefix
    <3>1. dst = a + (block.raw - raw) /\ e = a + Len(block.lits) /\ e <= Len(Meaning.bytes) /\ a \in Nat
          /\ Follows(Meaning.bytes, a, block.lits)
      BY <1>5
    <3>2. dst' <= Len(Meaning.bytes)
      <4>1. n <= g - (f - raw) /\ dst' = dst + n
        BY <2>1
      <4> HIDE DEF a, e, f, g, h
      <4>2. dst' <= h
        BY <1>n, <1>s, <4>1
      <4> QED
        BY <4>2 DEF h
    <3>3. ASSUME NEW i \in 0 .. dst' - 1 PROVE mem'[i] = Meaning.bytes[i + 1]
      <4>1. i \in 0 .. size - 1 /\ i \in 0 .. dst + n - 1
        BY <1>2, <2>1
      <4>2. CASE i < dst
        <5>1. mem'[i] = mem[i] /\ i \in 0 .. dst - 1
          BY <1>2, <2>2, <4>1, <4>2
        <5> QED
          BY <5>1 DEF FuncInv, OutputIsPrefix
      <4>3. CASE ~(i < dst)
        <5> DEFINE k == block.raw - raw + i - dst + 1
        <5>1. i \in dst .. dst + n - 1
          BY <1>2, <4>1, <4>3
        <5>2. mem'[i] = block.lits[k]
          BY <2>2, <4>1, <5>1
        <5>3. k \in 1 .. Len(block.lits) /\ a + k = i + 1
          <6>1. n <= g - (f - raw)
            BY <2>1
          <6> HIDE DEF a, e, f, g, h
          <6>2. f - raw + i - dst + 1 \in 1 .. g /\ a + (f - raw + i - dst + 1) = i + 1
            BY <1>n, <1>s, <5>1, <6>1
          <6> QED
            BY <6>2 DEF f, g
        <5> HIDE DEF k, a
        <5>4. Meaning.bytes[a + k] = block.lits[k]
          BY <3>1, <5>3 DEF Follows
        <5> QED
          BY <5>2, <5>3, <5>4
      <4> QED
        BY <1>2, <4>2, <4>3
    <3> QED
      BY <3>2, <3>3
  <2>5. EndInv'
    BY <1>1, <2>1 DEF EndInv
  <2> QED
    BY <1>8, <2>3, <2>4, <2>5 DEF FuncInv
<1> QED
  BY <1>9, <1>10, <1>11, <1>12, CopyRawCases DEF FuncInv

\* A step of n-th triple of a block.
LEMMA FuncAdvance ==
  ASSUME FuncInv, SafeInv', block.kind = "lz", pc = "decode",
         NEW l, NEW m, NEW d, Ready(l, m, d), NEW j \in 0 .. l, NEW k \in 0 .. m,
         Advanced(l, m, d, j, k),
         NEW n \in 1 .. Len(block.lmds), block.lmds[1].d # 0,
         Len(todo') = Len(block.lmds) - n,
         \A i \in 1 .. Len(todo') : todo'[i] = block.lmds[n + i],
         Meaning.sound => Placed(Meaning.bytes, block.lits, Current(n), dst, lit, l, m, d),
         UNCHANGED <<input, rest, size, block, lits, raw>>
  PROVE  FuncInv'
<1>1. /\ TypeInv /\ NoBlock.kind = "none" /\ Taken \in 0 .. Len(input.items) /\ Len(input.items) \in Nat
      /\ dst \in Nat /\ size \in Nat /\ lit \in Nat /\ LitCap \in Nat /\ Len(block.lmds) \in Nat
      /\ Meaning.bytes \in Seq(Byte) /\ Len(Meaning.bytes) \in Nat
  BY FuncFacts
<1>2. Taken' = Taken /\ Meaning' = Meaning /\ (\A i : Current(i)' = Current(i))
  BY SameMeaning
<1>3. n \in 0 .. Len(block.lmds)
  BY <1>1
<1>4. Done' = n /\ n \in Nat /\ n > 0
  BY <1>1, <1>3 DEF Done
<1>5. /\ l \in Nat /\ m \in Nat /\ lit + l <= LitCap
      /\ (j < l => k = 0) /\ d \in 1 .. dst + l
      /\ lit' = lit + j /\ held' = Triple(l - j, m - k, d)
      /\ pc' = "decode" \/ (j + k < l + m /\ dst' = size /\ pc' = "dstFull")
      /\ dst' = dst + j + k /\ Kept(mem', mem, dst) /\ HasLiterals(mem', dst, j, lit)
      /\ Repeats(mem', mem', dst + j, k, d)
  BY DEF Ready, Advanced, Added
<1>6. held'.l = l - j /\ held'.m = m - k /\ held'.d = d
  BY <1>5 DEF Triple
<1>7. block \in StreamItem /\ block # NoBlock /\ block.lits \in Seq(Byte)
  <2>1. block \in StreamItem
    BY <1>3, CurrentIs
  <2> QED
    BY <1>1, <2>1, ItemTypes
<1>8. /\ Taken > 0 /\ block = input.items[Taken] /\ Taken \in Nat
      /\ \A i \in 1 .. Taken : input.items[i].kind \in {"raw", "lz"}
      /\ \A i \in 1 .. Len(rest) : rest[i] = input.items[Taken + i]
  BY <1>7 DEF FuncInv, SourceInv
<1>9. SourceInv'
  <2>1. pc' # "ok" /\ (pc' = "dstFull" => dst' = size' /\ block' # NoBlock)
    BY <1>5, <1>7
  <2> QED
    BY <1>2, <1>4, <1>8, <2>1 DEF SourceInv
<1>10. DistanceInv'
  <2>1. ASSUME NEW i \in 1 .. Taken, input.items[i].lmds # <<>> PROVE input.items[i].lmds[1].d # 0
    <3>1. CASE i = Taken
      BY <1>8, <3>1
    <3>2. CASE i # Taken
      BY <2>1, <3>2 DEF FuncInv, DistanceInv, Live
    <3> QED
      BY <3>1, <3>2
  <2> QED
    BY <1>2, <1>4, <2>1 DEF DistanceInv
<1>11. LiteralsInv'
  <2>1. LitCap' = LitCap
    BY DEF LitCap
  <2> QED
    BY <2>1 DEF FuncInv, LiteralsInv
<1>12. ASSUME Meaning.sound
       PROVE  /\ Agrees(mem', dst', Meaning.bytes)
              /\ Placed(Meaning.bytes, block.lits, Current(n), dst', lit', held'.l, held'.m, held'.d)
              /\ dst + l + m = Len(Current(n).bytes) /\ Len(Current(n).bytes) <= Len(Meaning.bytes)
  <2> DEFINE b == Meaning.bytes
             s == block.lits
             c == Current(n)
  <2>1. b \in Seq(Byte) /\ s \in Seq(Byte) /\ c \in Acc(Byte) /\ Begins(c.bytes, b)
    BY <1>1, <1>3, <1>7, CurrentIs
  <2>2. Placed(b, s, c, dst, lit, l, m, d)
    BY <1>12
  <2>3. Agrees(mem, dst, b)
    BY <1>12 DEF FuncInv, OutputIsPrefix, Agrees
  <2>4. \A i \in 0 .. LitCap - 1 : i < Len(s) => lits[i] = s[i + 1]
    BY DEF FuncInv, LiteralsInv
  <2> HIDE DEF b, s, c
  <2>5. /\ Agrees(mem', dst + j + k, b)
        /\ Placed(b, s, c, dst + j + k, lit + j, l - j, m - k, d)
    BY <1>1, <1>5, <2>1, <2>2, <2>3, <2>4, MovedOn
  <2>6. dst + l + m = Len(c.bytes) /\ Len(c.bytes) <= Len(b)
    BY <2>1, <2>2 DEF Placed, Begins
  <2> QED
    BY <1>5, <1>6, <2>5, <2>6 DEF b, s, c
<1>13. PositionInv'
  BY <1>2, <1>4, <1>7, <1>12 DEF PositionInv
<1>14. OutputIsPrefix'
  BY <1>2, <1>12 DEF OutputIsPrefix, Agrees
<1>15. EndInv'
  <2> SUFFICES ASSUME Meaning.sound, pc' = "dstFull" PROVE size < Len(Meaning.bytes)
    BY <1>2, <1>5 DEF EndInv
  <2> DEFINE h == Len(Meaning.bytes)
             g == Len(Current(n).bytes)
  <2>1. dst + l + m = g /\ g <= h /\ h \in Nat
    BY <1>1, <1>12
  <2>2. j + k < l + m /\ size = dst + j + k
    BY <1>5
  <2> HIDE DEF h, g
  <2>3. size < h
    BY <1>1, <1>5, <2>1, <2>2
  <2> QED
    BY <2>3 DEF h
<1> QED
  BY <1>9, <1>10, <1>11, <1>13, <1>14, <1>15 DEF FuncInv

\* ResumeTriple keeps FuncInv.
LEMMA FuncResume ==
  ASSUME FuncInv, SafeInv', ResumeTriple PROVE FuncInv'
<1>1. /\ pc = "decode" /\ block.kind = "lz" /\ Execute(held.l, held.m, held.d)
      /\ held.l # 0 \/ held.m # 0
      /\ UNCHANGED <<input, rest, size, block, lits, todo, raw>>
  BY DEF ResumeTriple, InBlock, Interrupted
<1>2. Ready(held.l, held.m, held.d)
  BY ReadyToResume DEF FuncInv
<1>3. CASE OutOfRange(held.l, held.d)
  <2>1. pc' = "error" /\ UNCHANGED <<mem, dst, top, lit, held>>
    BY <1>3 DEF OutOfRange, Return
  <2> QED
    BY <1>1, <2>1, FuncStop
<1>4. ASSUME NEW j \in 0 .. held.l, NEW k \in 0 .. held.m, Advanced(held.l, held.m, held.d, j, k)
      PROVE  FuncInv'
  <2> DEFINE n == Done
  <2>1. Done # 0
    <3>1. held # HeldAtStart
      BY <1>1 DEF HeldAtStart, Triple
    <3> QED
      BY <1>1, <3>1 DEF FuncInv, DistanceInv, Live
  <2>2. /\ Len(todo) \in Nat /\ Len(block.lmds) \in Nat /\ Taken \in 0 .. Len(input.items)
        /\ Len(input.items) \in Nat /\ NoBlock.kind = "none"
    BY FuncFacts
  <2>3. Done \in Nat /\ \A i \in 1 .. Len(todo) : todo[i] = block.lmds[Done + i]
    BY <1>1 DEF FuncInv, SourceInv
  <2>4. n \in 1 .. Len(block.lmds) /\ Len(todo) = Len(block.lmds) - n
    BY <2>1, <2>2, <2>3 DEF Done
  <2>5. block.lmds[1].d # 0
    <3>1. Taken > 0 /\ block = input.items[Taken]
      BY <1>1, <2>2 DEF FuncInv, SourceInv
    <3>2. Taken \in 1 .. Taken
      BY <2>2, <3>1
    <3>3. block.lmds # <<>>
      BY <2>4
    <3> QED
      BY <1>1, <2>1, <3>1, <3>2, <3>3 DEF FuncInv, DistanceInv, Live
  <2>6. Meaning.sound =>
          Placed(Meaning.bytes, block.lits, Current(n), dst, lit, held.l, held.m, held.d)
    BY <1>1 DEF FuncInv, PositionInv, Live
  <2>7. Len(todo') = Len(block.lmds) - n /\ \A i \in 1 .. Len(todo') : todo'[i] = block.lmds[n + i]
    BY <1>1, <2>3, <2>4
  <2> HIDE DEF n
  <2> QED
    BY <1>1, <1>2, <1>4, <2>4, <2>5, <2>6, <2>7, FuncAdvance
<1> QED
  BY <1>1, <1>2, <1>3, <1>4, ExecuteAdvances

\* NextTriple keeps FuncInv.
LEMMA FuncNextTriple ==
  ASSUME FuncInv, SafeInv', NextTriple PROVE FuncInv'
<1> DEFINE x == todo[1]
           d == IF x.d # 0 THEN x.d ELSE held.d
           n == Done + 1
<1>1. /\ pc = "decode" /\ block.kind = "lz" /\ todo # <<>> /\ todo' = Tail(todo)
      /\ held.l = 0 /\ held.m = 0
      /\ UNCHANGED <<input, rest, size, block, lits, raw>>
  BY DEF NextTriple, InBlock, Interrupted
<1>2. CASE ~EnoughLiterals(x.l) \/ OutOfRange(x.l, d)
  <2>1. pc' = "error" /\ UNCHANGED <<mem, dst, top, lit, held>>
    BY <1>2 DEF OutOfRange, Return, NextTriple
  <2> QED
    BY <1>1, <2>1, FuncStop
<1>3. CASE EnoughLiterals(x.l) /\ ~OutOfRange(x.l, d)
  <2>1. Execute(x.l, x.m, d)
    BY <1>3 DEF NextTriple
  <2>2. Ready(x.l, x.m, d)
    BY <1>3, ReadyForNext DEF FuncInv
  <2>3. /\ Len(todo) \in Nat /\ Len(block.lmds) \in Nat /\ Taken \in 0 .. Len(input.items)
        /\ Len(input.items) \in Nat /\ NoBlock.kind = "none" /\ todo \in Seq(LMD)
        /\ Len(block.lits) \in Nat /\ dst \in Nat /\ lit \in Nat /\ TypeInv
        /\ Meaning.bytes \in Seq(Byte)
    BY FuncFacts DEF TypeInv
  <2>4. Done \in Nat /\ \A i \in 1 .. Len(todo) : todo[i] = block.lmds[Done + i]
    BY <1>1 DEF FuncInv, SourceInv
  <2>5. /\ Len(todo') = Len(todo) - 1 /\ Len(todo) > 0 /\ x \in LMD
        /\ \A i \in 1 .. Len(todo) - 1 : todo'[i] = todo[i + 1]
    BY <1>1, <2>3
  <2>6. n \in 1 .. Len(block.lmds) /\ Len(todo') = Len(block.lmds) - n /\ n - 1 = Done
        /\ Done \in 0 .. Len(block.lmds)
    BY <2>3, <2>4, <2>5 DEF Done
  <2>7. x = block.lmds[n]
    BY <2>3, <2>4, <2>5
  <2>8. ASSUME NEW i \in 1 .. Len(todo') PROVE todo'[i] = block.lmds[n + i]
    <3>1. i \in 1 .. Len(todo) - 1 /\ i + 1 \in 1 .. Len(todo) /\ Done + (i + 1) = n + i
      BY <2>3, <2>4, <2>5
    <3>2. todo[i + 1] = block.lmds[Done + (i + 1)]
      BY <2>4, <3>1
    <3> QED
      BY <2>5, <3>1, <3>2
  <2>9. PICK j \in 0 .. x.l, k \in 0 .. x.m : Advanced(x.l, x.m, d, j, k)
    <3> HIDE DEF x, d
    <3> QED
      BY <1>3, <2>1, <2>2, ExecuteAdvances
  <2>10. d \in 1 .. dst + x.l
    <3> HIDE DEF x, d
    <3> QED
      BY <2>9 DEF Advanced
  <2>11. block.lmds[1].d # 0
    <3>1. CASE Done = 0
      <4>1. held.d = -1
        BY <1>1, <3>1 DEF FuncInv, DistanceInv, Live, HeldAtStart, Triple
      <4>2. x.d # 0
        BY <2>10, <4>1
      <4> QED
        BY <2>4, <2>7, <3>1, <4>2
    <3>2. CASE Done # 0
      <4>1. Taken > 0 /\ block = input.items[Taken]
        BY <1>1, <2>3 DEF FuncInv, SourceInv
      <4>2. Taken \in 1 .. Taken
        BY <2>3, <4>1
      <4>3. block.lmds # <<>>
        BY <2>6
      <4> QED
        BY <1>1, <3>2, <4>1, <4>2, <4>3 DEF FuncInv, DistanceInv, Live
    <3> QED
      BY <3>1, <3>2
  <2>12. ASSUME Meaning.sound
         PROVE  Placed(Meaning.bytes, block.lits, Current(n), dst, lit, x.l, x.m, d)
    <3> DEFINE c == Current(Done)
               e == Current(n)
               s == block.lits
               b == Meaning.bytes
               h == held.d
    <3>1. c \in Acc(Byte)
      BY <1>1, <2>6, CurrentIs
    <3>2. e = Executed(c, x) /\ e.sound /\ Begins(e.bytes, b)
      <4>1. n \in 0 .. Len(block.lmds) /\ n > 0
        BY <2>4, <2>6
      <4> HIDE DEF n, x
      <4>2. e = Executed(Current(n - 1), block.lmds[n]) /\ e.sound /\ Begins(e.bytes, b)
        BY <1>1, <2>12, <4>1, CurrentIs
      <4> QED
        BY <2>6, <2>7, <4>2
    <3>3. s \in Seq(Byte)
      <4>1. block \in StreamItem
        BY <1>1, <2>6, CurrentIs
      <4> QED
        BY <4>1, ItemTypes
    <3>4. Placed(b, s, c, dst, lit, 0, 0, h)
      BY <1>1, <2>12 DEF FuncInv, PositionInv, Live
    <3>5. h \in Int /\ b \in Seq(Byte)
      BY <2>3 DEF TypeInv
    <3>6. d = IF x.d # 0 THEN x.d ELSE h
      OBVIOUS
    <3> HIDE DEF c, e, s, b, h, d, x
    <3>7. Placed(b, s, e, dst, lit, x.l, x.m, d)
      BY <2>3, <2>5, <3>1, <3>2, <3>3, <3>4, <3>5, <3>6, PlacedNext
    <3> QED
      BY <3>7 DEF b, s, e
  <2> HIDE DEF x, d, n
  <2> QED
    BY <1>1, <2>2, <2>6, <2>8, <2>9, <2>11, <2>12, FuncAdvance
<1> QED
  BY <1>2, <1>3

\* The destination grows and what is in it stays.
LEMMA FuncCallAgain ==
  ASSUME FuncInv, SafeInv', CallAgain PROVE FuncInv'
<1>1. /\ pc = "dstFull" /\ pc' = "decode" /\ size < size'
      /\ mem' = [i \in 0 .. size' - 1 |-> IF i < size THEN mem[i] ELSE 0]
      /\ UNCHANGED <<input, rest, dst, top, block, lits, lit, todo, held, raw>>
  BY DEF CallAgain, blockVars
<1>2. dst \in 0 .. size /\ size \in Nat /\ size' \in Nat
  BY FuncFacts DEF SafeInv, TypeInv
<1>3. Taken' = Taken /\ Meaning' = Meaning /\ Done' = Done
      /\ Stage(Taken)' = Stage(Taken) /\ Stage(Taken - 1)' = Stage(Taken - 1)
      /\ Current(Done)' = Current(Done)
  <2>1. Taken' = Taken /\ Meaning' = Meaning
    BY <1>1, SameMeaning
  <2>2. Done' = Done
    BY <1>1 DEF Done
  <2>3. Stage(Taken)' = Stage(Taken) /\ Stage(Taken - 1)' = Stage(Taken - 1)
    BY <1>1, <2>1 DEF Stage
  <2>4. Current(Done)' = Current(Done)
    BY <1>1, <2>1, <2>2 DEF Current, Stage
  <2> QED
    BY <2>1, <2>2, <2>3, <2>4
<1>4. SourceInv'
  BY <1>1, <1>3 DEF FuncInv, SourceInv
<1>5. DistanceInv' /\ LiteralsInv'
  <2>1. LitCap' = LitCap
    BY DEF LitCap
  <2>2. LiteralsInv'
    BY <1>1, <2>1 DEF FuncInv, LiteralsInv
  <2>3. DistanceInv'
    BY <1>1, <1>3 DEF FuncInv, DistanceInv, Live
  <2> QED
    BY <2>2, <2>3
<1>6. PositionInv'
  BY <1>1, <1>3 DEF FuncInv, PositionInv, Live
<1>7. OutputIsPrefix'
  <2>1. ASSUME NEW i \in 0 .. dst - 1 PROVE mem'[i] = mem[i]
    <3>1. i \in 0 .. size' - 1 /\ i < size
      <4> DEFINE t == size'
      <4>1. dst \in 0 .. size /\ size \in Nat /\ t \in Nat /\ size < t
        BY <1>1, <1>2
      <4> HIDE DEF t
      <4>2. i \in 0 .. t - 1 /\ i < size
        BY <4>1
      <4> QED
        BY <4>2 DEF t
    <3>2. mem' = [k \in 0 .. size' - 1 |-> IF k < size THEN mem[k] ELSE 0]
      BY <1>1
    <3> QED
      BY <3>1, <3>2
  <2> QED
    BY <1>1, <1>3, <2>1 DEF FuncInv, OutputIsPrefix
<1>8. EndInv'
  BY <1>1 DEF EndInv
<1> QED
  BY <1>4, <1>5, <1>6, <1>7, <1>8 DEF FuncInv

\* Every step keeps FuncInv.
LEMMA FuncNext ==
  ASSUME FuncInv, [Next]_vars PROVE FuncInv'
<1>0. SafeInv'
  BY SafeNext DEF FuncInv
<1>1. CASE SourceEmpty \/ BadBlock \/ BitsRunOut
  <2>1. /\ pc # "ok" /\ pc' \in {"srcEmpty", "error"}
        /\ UNCHANGED <<input, rest, size, mem, dst, top, block, lits, lit, todo, held, raw>>
    BY <1>1 DEF SourceEmpty, BadBlock, BitsRunOut, Between, InBlock, Return, blockVars
  <2> QED
    BY <1>0, <2>1, FuncStop
<1>2. CASE EndOfStream
  BY <1>0, <1>2, FuncEndOfStream
<1>3. CASE OpenRaw
  BY <1>0, <1>3, FuncOpenRaw
<1>4. CASE OpenCompressed
  BY <1>0, <1>4, FuncOpenCompressed
<1>5. CASE CopyRaw
  BY <1>0, <1>5, FuncCopyRaw
<1>6. CASE ResumeTriple
  BY <1>0, <1>6, FuncResume
<1>7. CASE NextTriple
  BY <1>0, <1>7, FuncNextTriple
<1>8. CASE CloseBlock
  BY <1>0, <1>8, FuncCloseBlock
<1>9. CASE CallAgain
  BY <1>0, <1>9, FuncCallAgain
<1>10. CASE UNCHANGED vars
  <2>1. UNCHANGED <<pc, input, rest, size, mem, dst, top, block, lits, lit, todo, held, raw>>
    BY <1>10 DEF vars, blockVars
  <2>2. Meaning' = Meaning /\ Taken' = Taken /\ Done' = Done /\ (\A n : Stage(n)' = Stage(n))
        /\ (\A n : Current(n)' = Current(n))
    BY <2>1, SameMeaning DEF Done
  <2>3. LitCap' = LitCap /\ Current(Done)' = Current(Done)
        /\ Stage(Taken)' = Stage(Taken) /\ Stage(Taken - 1)' = Stage(Taken - 1)
    BY <2>1, <2>2 DEF LitCap, Current, Stage
  <2>4. SourceInv' /\ DistanceInv' /\ LiteralsInv'
    BY <2>1, <2>2, <2>3 DEF FuncInv, SourceInv, DistanceInv, LiteralsInv, Live
  <2>5. PositionInv' /\ OutputIsPrefix' /\ EndInv'
    BY <2>1, <2>2, <2>3 DEF FuncInv, PositionInv, OutputIsPrefix, EndInv, Live
  <2> QED
    BY <1>0, <2>4, <2>5 DEF FuncInv
<1> QED
  BY <1>1, <1>2, <1>3, <1>4, <1>5, <1>6, <1>7, <1>8, <1>9, <1>10 DEF Next

\* The state of lzfse_decode and what the source means go together at every step.
THEOREM DecoderFunctional == Spec => []FuncInv
<1>1. Init => FuncInv
  BY FuncInit
<1>2. FuncInv /\ [Next]_vars => FuncInv'
  BY FuncNext
<1> QED
  BY <1>1, <1>2, PTL DEF Spec

\* Whatever mixture of wide and exact copies was taken, and however often the
\* caller came back with more room, what lies below dst is what the blocks mean.
THEOREM DecoderOutput == Spec => []OutputIsPrefix
<1>1. FuncInv => OutputIsPrefix
  BY DEF FuncInv
<1> QED
  BY <1>1, DecoderFunctional, PTL

\* What lzfse_decode returns is true of the destination and of the stream: all of
\* it on success, none of whose blocks repeats a distance it has not set, and a
\* destination that is large enough is never reported full.
THEOREM DecoderStatus == Spec => []StatusHonest
<1>1. FuncInv => StatusHonest
  <2> SUFFICES ASSUME FuncInv PROVE StatusHonest
    OBVIOUS
  <2>1. /\ pc \in {"decode", "srcEmpty", "ok", "error", "dstFull"} /\ size \in Nat
        /\ Taken \in 0 .. Len(input.items) /\ Len(input.items) \in Nat
        /\ Len(Meaning.bytes) \in Nat /\ NoBlock.kind = "none"
        /\ DOMAIN input.items = 1 .. Len(input.items)
    BY FuncFacts DEF TypeInv
  <2>2. Accepted => dst = size
    <3>1. pc = "dstFull" => dst = size
      BY DEF FuncInv, SourceInv
    <3> QED
      BY <2>1, <3>1 DEF Accepted, Returned
  <2>3. pc = "ok" /\ Meaning.sound => dst = Len(Meaning.bytes)
    BY DEF FuncInv, EndInv
  <2>4. Meaning.sound /\ size >= Len(Meaning.bytes) => pc # "dstFull"
    BY <2>1 DEF FuncInv, EndInv
  <2>5. ASSUME pc = "ok", NEW i \in DOMAIN input.items, ~Ended(input.items, i),
               input.items[i].lmds # <<>>
        PROVE  input.items[i].lmds[1].d # 0
    <3>1. Taken > 0 /\ input.items[Taken].kind = "end" /\ block = NoBlock
      BY <2>5 DEF FuncInv, SourceInv
    <3>2. ~(Taken \in 1 .. i)
      BY <2>5, <3>1 DEF Ended
    <3>3. i \in 1 .. Taken /\ i # Taken
      BY <2>1, <3>1, <3>2
    <3> QED
      BY <2>5, <3>3 DEF FuncInv, DistanceInv
  <2> QED
    BY <2>2, <2>3, <2>4, <2>5 DEF StatusHonest
<1> QED
  BY <1>1, DecoderFunctional, PTL
=============================================================================

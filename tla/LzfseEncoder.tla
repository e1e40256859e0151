---------------------------- MODULE LzfseEncoder ----------------------------
(***************************************************************************)
(* lzfse_encode_buffer: the match search of lzfse_encode_base (front end), *)
(* the buffers of literals and L,M,D triples and the blocks emitted from   *)
(* them (back end), the chunks a huge source is cut into.                  *)
(*                                                                         *)
(* Offsets are relative to `src' as in the code, which moves forward when  *)
(* the state is translated; `shift' says how far.  A block is what its     *)
(* header and payloads say: the padded literals and the triples with a     *)
(* repeated distance as 0.  How many bytes it takes is the entropy coder's *)
(* business: that the destination is full is a free choice at every block. *)
(***************************************************************************)
EXTENDS Integers, Sequences, FiniteSets, SequencesExt, LzBlocks

CONSTANTS
  Byte,              \* the values of a byte, 0 among them
  Sources,           \* the buffers that may be encoded
  HashOf,            \* hashX: the line of the history table for a word
  HashWidth,         \* LZFSE_ENCODE_HASH_WIDTH, 8
  Word,              \* bytes of a load4 and the shortest match
  Stride,            \* bytes of a load8 and the padding at the end of src
  MaxL,              \* LZFSE_ENCODE_MAX_L_VALUE, 315
  MaxM,              \* LZFSE_ENCODE_MAX_M_VALUE, 2359
  MaxD,              \* LZFSE_ENCODE_MAX_D_VALUE, 262139
  MaxMatch,          \* LZFSE_ENCODE_MAX_MATCH_LENGTH, 100 * MaxM
  MaxLag,            \* 8 * MaxL
  GoodMatch,         \* LZFSE_ENCODE_GOOD_MATCH, 40
  MatchesPerBlock,   \* 10000
  MatchMargin,       \* 8
  LiteralsPerBlock,  \* 40000
  LiteralMargin,     \* 16
  Streams,           \* 4 interleaved literal streams
  Half,              \* 2^31: a history position is an int32_t
  Huge,              \* 2^32 - 1: from this size on the source is cut
  Chunk              \* 262144: into chunks of this size

ASSUME WordAssumption ==
  /\ 0 \in Byte
  /\ Word \in Nat /\ Word > 1 /\ Stride \in Nat /\ Word <= Stride
  /\ Sources \subseteq Seq(Byte)

Words == [1 .. Word -> Byte]

ASSUME HashAssumption == DOMAIN HashOf = Words /\ HashWidth \in Nat \ {0}

ASSUME LimitAssumption ==
  /\ MaxL \in Nat \ {0} /\ MaxM \in Nat \ {0} /\ MaxD \in Nat \ {0}
  /\ MaxMatch \in Nat /\ MaxMatch % MaxM = 0 /\ MaxMatch >= Word
  /\ MaxLag \in Nat /\ MaxLag >= MaxL
  /\ GoodMatch \in Nat /\ GoodMatch > Word
  /\ MatchesPerBlock \in Nat /\ MatchMargin \in Nat /\ LiteralMargin \in Nat
  /\ Streams \in Nat \ {0} /\ LiteralMargin % Streams = 0
  /\ LiteralsPerBlock \in Nat /\ LiteralsPerBlock % Streams = 0
  /\ Half \in Nat /\ Half > 4 * MaxD
  /\ Chunk \in Nat /\ Chunk > Stride /\ 2 * Chunk <= Half + Stride
  /\ Huge \in Nat /\ Huge >= 2 * Chunk /\ Huge <= 2 * Half

\* A block holds the longest run of literals that can build up, and the
\* longest match after it.
ASSUME BlockAssumption ==
  /\ LiteralsPerBlock >= MaxLag + 2 + Stride + LiteralMargin
  /\ MatchesPerBlock >=
       ((MaxLag + 2 + Stride) \div MaxL) + ((MaxMatch + MaxLag + 2) \div MaxM) + 2 + MatchMargin

VARIABLES
  pc,
  src,      \* the whole source buffer
  shift,    \* how far the state has been translated
  phase,    \* which chunk of the source is being encoded
  left,     \* src_size: bytes not yet given to a chunk
  srcEnd,   \* src_end
  at,       \* src_encode_i
  literal,  \* src_literal: the first byte not yet in a triple
  pending,  \* the match kept back in case a better one follows
  lmds,     \* l_values, m_values, d_values
  lits,     \* literals
  table,    \* history_table
  out,      \* the blocks stored in dst
  why       \* history: what made the encoder give up

chunkVars == <<src, shift, phase, left, srcEnd>>
backVars == <<literal, lmds, lits, out>>
vars == <<pc, chunkVars, at, pending, table, backVars, why>>

Src(i) == src[shift + i + 1]

Match == [pos : Int, ref : Int, length : Nat]

NoMatch == [pos |-> 0, ref |-> 0, length |-> 0]

InvalidPos == -4 * MaxD

EmptyLine == [pos |-> [k \in 1 .. HashWidth |-> InvalidPos],
              value |-> [k \in 1 .. HashWidth |-> [j \in 1 .. Word |-> 0]]]

Lines == {HashOf[x] : x \in Words}

Init ==
  /\ pc = "encode"
  /\ src \in Sources
  /\ shift = 0
  /\ phase = IF Len(src) >= Huge THEN "first" ELSE "last"
  /\ left = Len(src)
  /\ srcEnd = IF Len(src) >= Huge THEN Chunk ELSE Len(src)
  /\ at = 0 /\ literal = 0
  /\ pending = NoMatch
  /\ lmds = <<>> /\ lits = <<>> /\ out = <<>>
  /\ table = [l \in Lines |-> EmptyLine]
  /\ why = "none"

-----------------------------------------------------------------------------
(***************************************************************************)
(* Back end.  A buffer is the triples and literals collected since the     *)
(* last block, and src_literal.                                            *)
(***************************************************************************)
Buffer == [lmds |-> lmds, lits |-> lits, literal |-> literal, full |-> FALSE]

Emptied == [lmds |-> <<>>, lits |-> <<>>, literal |-> literal, full |-> FALSE]

\* Mutant: literals are not counted.
LmdFits_MatchesOnly(b, l) == Len(b.lmds) + 1 + MatchMargin <= MatchesPerBlock

LmdFits(b, l) ==
  /\ Len(b.lmds) + 1 + MatchMargin <= MatchesPerBlock
  /\ Len(b.lits) + l + LiteralMargin <= LiteralsPerBlock

\* lzfse_push_lmd; once it has failed the others are not tried.
WithLmd(b, x) ==
  IF b.full \/ ~LmdFits(b, x.l)
  THEN [b EXCEPT !.full = TRUE]
  ELSE [lmds |-> Append(b.lmds, x),
        lits |-> b.lits \o [k \in 1 .. x.l |-> Src(b.literal + k - 1)],
        literal |-> b.literal + x.l + x.m,
        full |-> FALSE]

\* How often the limit is taken off a length that exceeds it.
Splits(n, limit) == IF n = 0 THEN 0 ELSE (n - 1) \div limit

\* Mutant: the literals go in front of every part of a long match.
Parts_LiteralsRepeated(L, M, D) ==
  [i \in 1 .. Splits(L, MaxL) |-> Triple(MaxL, 0, 1)]
    \o [i \in 1 .. Splits(M, MaxM) |-> Triple(L - MaxL * Splits(L, MaxL), MaxM, D)]
    \o <<Triple(0, M - MaxM * Splits(M, MaxM), D)>>

\* Literals above the limit in triples of their own, then the match, the rest
\* of the literals in front of its first part.
Parts(L, M, D) ==
  LET rest == L - MaxL * Splits(L, MaxL)
      parts == Splits(M, MaxM)
  IN [i \in 1 .. Splits(L, MaxL) |-> Triple(MaxL, 0, 1)]
       \o [i \in 1 .. parts |-> Triple(IF i = 1 THEN rest ELSE 0, MaxM, D)]
       \o (IF L = 0 /\ M = 0 THEN <<>>
           ELSE <<Triple(IF parts = 0 THEN rest ELSE 0, M - MaxM * parts, D)>>)

\* The buffer after each of the triples of `parts'.
Pushes(b, parts) ==
  LET after[i \in 0 .. Len(parts)] == IF i = 0 THEN b ELSE WithLmd(after[i - 1], parts[i])
  IN after

\* lzfse_push_match, before it reverts.
Pushed(b, m) ==
  LET parts == Parts(m.pos - b.literal, m.length, m.pos - m.ref)
  IN Pushes(b, parts)[Len(parts)]

LastNonZero(ds, i) ==
  LET before == {j \in 1 .. i : ds[j] # 0}
  IN IF before = {} THEN 0 ELSE ds[CHOOSE j \in before : \A k \in before : k <= j]

\* The distances as stored in a block.
PrevEncoded(ds) ==
  [i \in DOMAIN ds |-> IF ds[i] = (IF i = 1 THEN 0 ELSE ds[i - 1]) THEN 0 ELSE ds[i]]

\* Mutant: the distances of a block that did not fit stay replaced.
Reverted_Not(ds) == ds

\* The distances as they were, when the block did not fit in dst.
Reverted(ds) == [i \in DOMAIN ds |-> LastNonZero(ds, i)]

Distances(xs) == [i \in DOMAIN xs |-> xs[i].d]

WithDistances(xs, ds) == [i \in DOMAIN xs |-> [xs[i] EXCEPT !.d = ds[i]]]

Padding(n) == [k \in 1 .. (-n) % Streams |-> 0]

BlockOf(b) == [lmds |-> WithDistances(b.lmds, PrevEncoded(Distances(b.lmds))),
               lits |-> b.lits \o Padding(Len(b.lits))]

Blocks(b) == IF b.lmds = <<>> /\ b.lits = <<>> THEN <<>> ELSE <<BlockOf(b)>>

\* What a failed lzfse_encode_matches leaves behind.
Rolled(b) == WithDistances(b.lmds, Reverted(PrevEncoded(Distances(b.lmds))))

Keep(b) == lmds' = b.lmds /\ lits' = b.lits /\ literal' = b.literal

GiveUp(reason) == pc' = "failed" /\ why' = reason

Fits(m) == ~Pushed(Buffer, m).full

FitsEmpty(m) == ~Pushed(Emptied, m).full

\* lzfse_backend_match, when the match ends up in the buffer.
Taken(m) ==
  \/ /\ Fits(m)
     /\ Keep(Pushed(Buffer, m))
     /\ out' = out
  \/ /\ ~Fits(m) /\ FitsEmpty(m)
     /\ Keep(Pushed(Emptied, m))
     /\ out' = out \o Blocks(Buffer)

\* lzfse_backend_match, when dst is full, or when the match does not fit in
\* the buffers that have just been emptied.
NotTaken(m) ==
  /\ ~Fits(m)
  /\ \/ /\ Blocks(Buffer) # <<>>
        /\ lmds' = Rolled(Buffer)
        /\ UNCHANGED <<lits, literal, out>>
        /\ GiveUp("dst")
     \/ /\ ~FitsEmpty(m)
        /\ Keep(Emptied)
        /\ out' = out \o Blocks(Buffer)
        /\ GiveUp("buffers")

\* lzfse_backend_literals
LiteralRun(n) == [pos |-> literal + n, ref |-> literal + n - 1, length |-> 0]

-----------------------------------------------------------------------------
(***************************************************************************)
(* Front end: the search at one position.                                  *)
(***************************************************************************)
\* The position as the int32_t of a history line holds it.
Stored(p) == IF p < Half THEN p ELSE p - 2 * Half

WordAt(p) == [k \in 1 .. Word |-> Src(p + k - 1)]

Line == table[HashOf[WordAt(at)]]

NewLine ==
  [pos |-> [k \in 1 .. HashWidth |-> IF k = 1 THEN Stored(at) ELSE Line.pos[k - 1]],
   value |-> [k \in 1 .. HashWidth |-> IF k = 1 THEN WordAt(at) ELSE Line.value[k - 1]]]

Candidates ==
  {k \in 1 .. HashWidth : Line.value[k] = WordAt(at) /\ Line.pos[k] + MaxD >= at}

Smaller(a, b) == IF a < b THEN a ELSE b

\* The comparison goes on in strides until it has passed the padding.
CompareLimit ==
  LET max == srcEnd - at - Stride
  IN IF max <= Word THEN Word ELSE Word + Stride * ((max - Word + Stride - 1) \div Stride)

MatchLength(ref) ==
  LET differ == {e \in Word .. CompareLimit - 1 : Src(ref + e) # Src(at + e)}
  IN CHOOSE n \in differ \cup {CompareLimit} : \A e \in differ \cup {CompareLimit} : n <= e

\* The longest candidate, the most recent of the longest.
Best ==
  CHOOSE k \in Candidates :
    \A j \in Candidates :
      \/ MatchLength(Line.pos[j]) < MatchLength(Line.pos[k])
      \/ MatchLength(Line.pos[j]) = MatchLength(Line.pos[k]) /\ k <= j

\* How far a match at ref can be expanded backwards, within the literals.
Expansion(ref) ==
  LET steps == {n \in 1 .. Smaller(at - literal, ref) :
                  \A j \in 1 .. n : Src(ref - j) = Src(at - j)}
  IN IF steps = {} THEN 0 ELSE CHOOSE n \in steps : \A j \in steps : j <= n

Incoming ==
  LET ref == Line.pos[Best]
      back == Expansion(ref)
  IN [pos |-> at - back, ref |-> ref - back,
      length |-> Smaller(MatchLength(ref), MaxMatch) + back]

Searching == pc = "encode" /\ at < srcEnd - Stride

\* END_POS
NextPosition ==
  /\ table' = [table EXCEPT ![HashOf[WordAt(at)]] = NewLine]
  /\ at' = at + 1
  /\ UNCHANGED <<pc, chunkVars, why>>

\* The position is covered by a match already taken.
Covered ==
  /\ Searching /\ at < literal
  /\ NextPosition
  /\ UNCHANGED <<pending, backVars>>

Uncovered == Searching /\ at >= literal

\* Mutant: literals are not emptied while nothing matches.
Lagging_Never == FALSE

Lagging == at - literal > MaxLag

NoIncoming ==
  /\ Uncovered /\ Candidates = {} /\ ~Lagging
  /\ NextPosition
  /\ UNCHANGED <<pending, backVars>>

AfterPending == NoMatch

CatchUpPending ==
  /\ Uncovered /\ Candidates = {} /\ Lagging /\ pending.length > 0
  /\ Taken(pending)
  /\ pending' = AfterPending
  /\ NextPosition

CatchUpLiterals ==
  /\ Uncovered /\ Candidates = {} /\ Lagging /\ pending.length = 0
  /\ Taken(LiteralRun(MaxL))
  /\ pending' = pending
  /\ NextPosition

Found == Uncovered /\ Candidates # {}

Good == Incoming.length >= GoodMatch

TakeGood ==
  /\ Found /\ Good
  /\ Taken(Incoming)
  /\ pending' = NoMatch
  /\ NextPosition

KeepIncoming ==
  /\ Found /\ ~Good /\ pending.length = 0
  /\ pending' = Incoming
  /\ NextPosition
  /\ UNCHANGED backVars

Apart == pending.pos + pending.length <= Incoming.pos

TakePending ==
  /\ Found /\ ~Good /\ pending.length > 0 /\ Apart
  /\ Taken(pending)
  /\ pending' = Incoming
  /\ NextPosition

Longer == IF Incoming.length > pending.length THEN Incoming ELSE pending

TakeLonger ==
  /\ Found /\ ~Good /\ pending.length > 0 /\ ~Apart
  /\ Taken(Longer)
  /\ pending' = NoMatch
  /\ NextPosition

\* The match the search of this position wants to hand to the back end.
Wanted ==
  IF Candidates = {}
  THEN IF ~Lagging THEN {} ELSE {IF pending.length > 0 THEN pending ELSE LiteralRun(MaxL)}
  ELSE IF Good THEN {Incoming}
  ELSE IF pending.length = 0 THEN {}
  ELSE {IF Apart THEN pending ELSE Longer}

SearchFails ==
  /\ Uncovered
  /\ \E m \in Wanted : NotTaken(m)
  /\ UNCHANGED <<chunkVars, at, pending, table>>

-----------------------------------------------------------------------------
(***************************************************************************)
(* Chunks.                                                                 *)
(***************************************************************************)
ChunkDone == pc = "encode" /\ at >= srcEnd - Stride

ChunkEnd(n) == IF n >= Chunk THEN 2 * Chunk ELSE Chunk + n

NextChunk(n) ==
  /\ left' = n
  /\ phase' = IF n >= Chunk THEN "middle" ELSE "last"
  /\ srcEnd' = ChunkEnd(n)

FirstChunkDone ==
  /\ ChunkDone /\ phase = "first"
  /\ NextChunk(left - Chunk)
  /\ UNCHANGED <<pc, src, shift, at, pending, table, backVars, why>>

\* Mutant: an invalid position goes on sinking.
TranslatedPos_NotClamped(p) == p - Chunk

TranslatedPos(p) == IF p - Chunk < InvalidPos THEN InvalidPos ELSE p - Chunk

\* Mutant: the place a match refers to is not translated.
TranslatedMatch_PosOnly(m) == [m EXCEPT !.pos = @ - Chunk]

TranslatedMatch(m) == [m EXCEPT !.pos = @ - Chunk, !.ref = @ - Chunk]

\* lzfse_encode_translate
MiddleChunkDone ==
  /\ ChunkDone /\ phase = "middle"
  /\ shift' = shift + Chunk
  /\ at' = at - Chunk
  /\ literal' = literal - Chunk
  /\ pending' = TranslatedMatch(pending)
  /\ table' = [l \in Lines |->
                 [table[l] EXCEPT !.pos = [k \in 1 .. HashWidth |-> TranslatedPos(@[k])]]]
  /\ NextChunk(left - Chunk)
  /\ UNCHANGED <<pc, src, lmds, lits, out, why>>

LastChunkDone ==
  /\ ChunkDone /\ phase = "last"
  /\ pc' = "pending"
  /\ UNCHANGED <<chunkVars, at, pending, table, backVars, why>>

(***************************************************************************)
(* lzfse_encode_finish                                                     *)
(***************************************************************************)
FinishPending ==
  /\ pc = "pending"
  /\ IF pending.length > 0
     THEN Taken(pending) /\ pending' = NoMatch
     ELSE UNCHANGED <<pending, backVars>>
  /\ pc' = "literals"
  /\ UNCHANGED <<chunkVars, at, table, why>>

FinishLiterals ==
  /\ pc = "literals"
  /\ IF srcEnd > literal THEN Taken(LiteralRun(srcEnd - literal)) ELSE UNCHANGED backVars
  /\ pc' = "end"
  /\ UNCHANGED <<chunkVars, at, pending, table, why>>

FinishFails ==
  /\ \/ pc = "pending" /\ pending.length > 0 /\ NotTaken(pending)
     \/ pc = "literals" /\ srcEnd > literal /\ NotTaken(LiteralRun(srcEnd - literal))
  /\ UNCHANGED <<chunkVars, at, pending, table>>

\* The last block and the end-of-stream magic.
EndOfStream ==
  /\ pc = "end"
  /\ \/ /\ Keep(Emptied)
        /\ out' = out \o Blocks(Buffer)
        /\ pc' = "done" /\ why' = why
     \/ /\ Blocks(Buffer) # <<>>
        /\ lmds' = Rolled(Buffer)
        /\ UNCHANGED <<lits, literal, out>>
        /\ GiveUp("dst")
     \/ /\ Keep(Emptied)
        /\ out' = out \o Blocks(Buffer)
        /\ GiveUp("dst")
  /\ UNCHANGED <<chunkVars, at, pending, table>>

Next ==
  \/ Covered \/ NoIncoming \/ CatchUpPending \/ CatchUpLiterals
  \/ TakeGood \/ KeepIncoming \/ TakePending \/ TakeLonger \/ SearchFails
  \/ FirstChunkDone \/ MiddleChunkDone \/ LastChunkDone
  \/ FinishPending \/ FinishLiterals \/ FinishFails \/ EndOfStream

Spec == Init /\ [][Next]_vars

-----------------------------------------------------------------------------
(***************************************************************************)
(* Properties.                                                             *)
(***************************************************************************)
\* Every offset the encoder works with is representable as a 32-bit signed value.
OffsetsFit == at < Half

\* Every line of the history tells the truth about the source, the newest entry
\* first: its positions hold the words it says they hold, however often they were
\* rotated and translated, and one that is too far away has become the invalid
\* one instead of wrapping.  Not so where offsets leave the range of an int32_t.
HistoryHonest ==
  OffsetsFit =>
    \A l \in Lines : \A k \in 1 .. HashWidth :
      LET p == table[l].pos[k]
      IN \/ p = InvalidPos
         \/ /\ p >= InvalidPos /\ p < at /\ shift + p >= 0
            /\ table[l].value[k] = [j \in 1 .. Word |-> Src(p + j - 1)]
            /\ \A i \in 1 .. k - 1 : table[l].pos[i] > p

\* The match kept back lies behind everything already in a triple and inside the
\* source, it repeats bytes that precede it, and its distance can be stored --
\* although matches are emitted, and the state translated, in the meantime.
PendingHonest ==
  pending.length > 0 =>
    /\ literal <= pending.pos /\ pending.pos + pending.length <= srcEnd
    /\ pending.pos - pending.ref \in 1 .. MaxD /\ shift + pending.ref >= 0
    /\ \A k \in 0 .. pending.length - 1 : Src(pending.pos + k) = Src(pending.ref + k)

\* At every point the blocks stored so far, followed by what is still in the
\* buffers, decode to the source up to src_literal; a stream that was finished
\* decodes to the whole source.
RoundTrip ==
  /\ Decoded(out \o Blocks(Buffer)) =
       [bytes |-> SubSeq(src, 1, shift + literal), sound |-> TRUE]
  /\ pc = "done" => Decoded(out).bytes = src

\* Every block passes the limits the decoder checks in a header and the ranges
\* its L, M and D symbols can express.
BlocksAcceptable ==
  \A i \in DOMAIN out :
    /\ Len(out[i].lmds) <= MatchesPerBlock
    /\ Len(out[i].lits) <= LiteralsPerBlock /\ Len(out[i].lits) % Streams = 0
    /\ \A j \in DOMAIN out[i].lmds :
         /\ out[i].lmds[j].l <= MaxL /\ out[i].lmds[j].m <= MaxM
         /\ out[i].lmds[j].d <= MaxD

\* The encoder gives up only when dst is full: a match always fits in buffers
\* that were just emptied, because the search never lets the literals before
\* it build up.
NeverStuck == why # "buffers"

\* When a block does not fit in dst the triples, whose distances were replaced
\* in place, and the padded literals are put back.
RollbackExact ==
  [][why' = "dst" /\ out' = out => lmds' = lmds /\ lits' = lits /\ literal' = literal]_vars
=============================================================================

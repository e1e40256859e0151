---------------------------- MODULE LzfseDecoder ----------------------------
(***************************************************************************)
(* lzfse_decode and lzfse_decode_lmd: blocks are read one after the other, *)
(* a block's triples are executed one after the other, with copies wider   *)
(* than the run while the end of the destination is far and byte by byte   *)
(* when it is near.                                                        *)
(*                                                                         *)
(* The source is a sequence of items, each a block or the end-of-stream    *)
(* magic; a compressed block holds what its header and its bit streams     *)
(* decode to.  `whole': all its bytes are in the source.  `sound': the     *)
(* header passes lzfse_check_block_header_v1; the bits of any block may    *)
(* still run out at any triple.  A read outside of the destination returns *)
(* Outside; `top' remembers how far the wide copies wrote.                 *)
(***************************************************************************)
EXTENDS Integers, Sequences, SequencesExt, LzBlocks

CONSTANTS
  Byte,
  Inputs,            \* the sources and destination sizes to decode
  Width,             \* bytes of a copy8
  Margin,            \* the 32 bytes kept free by the wide copies
  LiteralsPerBlock,  \* LZFSE_LITERALS_PER_BLOCK
  LiteralSlack,      \* the 64 bytes behind them
  MoreRoom,          \* bytes a caller may add to a full destination
  Outside            \* what is read before the destination

ASSUME WidthAssumption ==
  /\ Width \in Nat \ {0} /\ Margin \in Nat /\ Margin >= Width
  /\ LiteralsPerBlock \in Nat /\ LiteralSlack \in Nat
  /\ MoreRoom \in Nat /\ Outside \notin Byte /\ 0 \in Byte

\* What a source may hold.  Of an uncompressed block the bytes that are there,
\* which are not more than its header says; a magic number has no contents.
StreamItem ==
  {x \in [kind : {"raw", "lz", "end", "bad"}, lits : Seq(Byte), raw : Nat,
          lmds : Seq([l : Nat, m : Nat, d : Nat]), whole : BOOLEAN, sound : BOOLEAN] :
     /\ x.kind = "raw" => Len(x.lits) <= x.raw
     /\ x.kind # "lz" => x.lmds = <<>>
     /\ x.kind \in {"end", "bad"} => x.lits = <<>>}

ASSUME InputsAssumption == Inputs \subseteq [items : Seq(StreamItem), size : Nat]

LitCap == LiteralsPerBlock + LiteralSlack

NoBlock == [kind |-> "none", lits |-> <<>>, lmds |-> <<>>, raw |-> 0,
            whole |-> TRUE, sound |-> TRUE]

VARIABLES
  pc,
  input,   \* the source and the first size of the destination
  rest,    \* the items behind src
  block,   \* the item block_magic stands for
  size,    \* dst_end - dst_begin
  mem,     \* the destination
  dst,     \* dst - dst_begin
  top,     \* history: the end of the highest byte written
  lits,    \* literals
  lit,     \* current_literal
  todo,    \* the triples not yet read
  held,    \* l_value, m_value, d_value
  raw      \* n_raw_bytes

blockVars == <<block, lits, lit, todo, held, raw>>
vars == <<pc, input, rest, size, mem, dst, top, blockVars>>

Init ==
  /\ pc = "decode"
  /\ input \in Inputs
  /\ rest = input.items
  /\ block = NoBlock
  /\ size = input.size
  /\ mem = [i \in 0 .. size - 1 |-> 0]
  /\ dst = 0 /\ top = 0
  /\ lits = [i \in 0 .. LitCap - 1 |-> 0]
  /\ lit = 0
  /\ todo = <<>>
  /\ held = Triple(0, 0, 0)
  /\ raw = 0

-----------------------------------------------------------------------------
(***************************************************************************)
(* Between blocks.                                                         *)
(***************************************************************************)
Between == pc = "decode" /\ block = NoBlock

NextIs(kinds) == rest # <<>> /\ rest[1].kind \in kinds

Return(status) == pc' = status

SourceEmpty ==
  /\ Between
  /\ rest = <<>> \/ (NextIs({"raw", "lz"}) /\ ~rest[1].whole)
  /\ Return("srcEmpty")
  /\ UNCHANGED <<input, rest, size, mem, dst, top, blockVars>>

EndOfStream ==
  /\ Between /\ NextIs({"end"})
  /\ rest' = Tail(rest)
  /\ Return("ok")
  /\ UNCHANGED <<input, size, mem, dst, top, blockVars>>

BadBlock ==
  /\ Between
  /\ NextIs({"bad"}) \/ (NextIs({"lz"}) /\ rest[1].whole)
  /\ Return("error")
  /\ UNCHANGED <<input, rest, size, mem, dst, top, blockVars>>

OpenRaw ==
  /\ Between /\ NextIs({"raw"}) /\ rest[1].whole
  /\ block' = rest[1]
  /\ raw' = rest[1].raw
  /\ rest' = Tail(rest)
  /\ UNCHANGED <<pc, input, size, mem, dst, top, lits, lit, todo, held>>

\* D is illegal until the first triple has set it.
HeldAtStart == Triple(0, 0, -1)

\* The literals are decoded over those of the block before.
OpenCompressed ==
  /\ Between /\ NextIs({"lz"}) /\ rest[1].whole /\ rest[1].sound
  /\ block' = rest[1]
  /\ lits' = [i \in 0 .. LitCap - 1 |->
                IF i < Len(rest[1].lits) THEN rest[1].lits[i + 1] ELSE lits[i]]
  /\ lit' = 0
  /\ todo' = rest[1].lmds
  /\ held' = HeldAtStart
  /\ rest' = Tail(rest)
  /\ UNCHANGED <<pc, input, size, mem, dst, top, raw>>

-----------------------------------------------------------------------------
(***************************************************************************)
(* An uncompressed block.                                                  *)
(***************************************************************************)
InRaw == pc = "decode" /\ block.kind = "raw"

Least(S) == CHOOSE n \in S : \A k \in S : n <= k

\* The bytes of the block that are in the source and not yet copied.
Available == Len(block.lits) - (block.raw - raw)

CopyRaw ==
  /\ InRaw
  /\ IF raw = 0
     THEN /\ block' = NoBlock
          /\ UNCHANGED <<pc, mem, dst, top, raw>>
     ELSE IF Available = 0
     THEN /\ Return("srcEmpty")
          /\ UNCHANGED <<block, mem, dst, top, raw>>
     ELSE IF size <= dst
     THEN /\ Return("dstFull")
          /\ UNCHANGED <<block, mem, dst, top, raw>>
     ELSE LET n == Least({raw, Available, size - dst})
          IN /\ mem' = [i \in 0 .. size - 1 |->
                          IF i \in dst .. dst + n - 1
                          THEN block.lits[block.raw - raw + i - dst + 1] ELSE mem[i]]
             /\ dst' = dst + n
             /\ top' = IF top < dst + n THEN dst + n ELSE top
             /\ raw' = raw - n
             /\ UNCHANGED <<pc, block>>
  /\ UNCHANGED <<input, rest, size, lits, lit, todo, held>>

-----------------------------------------------------------------------------
(***************************************************************************)
(* lzfse_decode_lmd.                                                       *)
(***************************************************************************)
\* The bytes a wide copy of n bytes writes: at least one stride.
Wide(n) == IF n <= Width THEN Width ELSE Width * ((n + Width - 1) \div Width)

At(m, i) == IF i \in DOMAIN m THEN m[i] ELSE Outside

LitAt(i) == IF i \in DOMAIN lits THEN lits[i] ELSE Outside

\* n bytes from function `from' over m, at place p; what lies behind the
\* destination is not followed.
Over(m, p, n, from) ==
  [i \in DOMAIN m |-> IF i \in p .. p + n - 1 THEN from[i - p] ELSE m[i]]

WideLiterals(m, p, l) ==
  Over(m, p, Wide(l), [i \in 0 .. Wide(l) - 1 |-> LitAt(lit + i)])

\* Copying i-th after i-th in strides: a distance of a stride or more repeats the
\* last d bytes, under a shorter one a stride is read before it is written.
Back(i, d, stride) == IF d >= stride THEN i % d ELSE i

WideMatch(m, p, n, d) ==
  Over(m, p, Wide(n), [i \in 0 .. Wide(n) - 1 |->
                         At(m, p - d + Back(i, d, Width))])

ExactLiterals(m, p, l) ==
  Over(m, p, l, [i \in 0 .. l - 1 |-> LitAt(lit + i)])

ExactMatch(m, p, n, d) ==
  Over(m, p, n, [i \in 0 .. n - 1 |-> At(m, p - d + Back(i, d, 1))])

\* (uint32_t)D > dst + L - s->dst_begin is an error.
InRange(d, l) == d >= 0 /\ d <= dst + l

\* Mutant: the margin for wide copies is forgotten.
Roomy_NoMargin(l, m) == l + m <= size - dst

Roomy(l, m) == l + m <= size - dst - Margin

\* Mutant: a match is copied in strides whatever its distance.
WideMatchAllowed_Always(m, d) == TRUE

WideMatchAllowed(m, d) == d >= Width \/ d >= m

Fast(l, m, d) ==
  /\ InRange(d, l) /\ Roomy(l, m)
  /\ LET afterL == WideLiterals(mem, dst, l)
     IN /\ mem' = IF WideMatchAllowed(m, d)
                  THEN WideMatch(afterL, dst + l, m, d)
                  ELSE ExactMatch(afterL, dst + l, m, d)
        /\ top' = Max({top, dst + Wide(l),
                       IF WideMatchAllowed(m, d) THEN dst + l + Wide(m) ELSE dst + l + m})
  /\ dst' = dst + l + m
  /\ lit' = lit + l
  /\ held' = Triple(0, 0, d)
  /\ pc' = pc

\* Mutant: what fits exactly counts as too much.
FitsExactly_Less(n, room) == n < room

FitsExactly(n, room) == n <= room

\* Near the end: as much of the literals and of the match as there is room for.
Slow(l, m, d) ==
  /\ InRange(d, l) /\ ~Roomy(l, m)
  /\ LET room == size - dst
         literals == IF FitsExactly(l, room) THEN l ELSE room
         match == IF literals < l THEN 0 ELSE IF FitsExactly(m, room - l) THEN m ELSE room - l
     IN /\ mem' = ExactMatch(ExactLiterals(mem, dst, literals), dst + literals, match, d)
        /\ dst' = dst + literals + match
        /\ top' = Max({top, dst + literals + match})
        /\ lit' = lit + literals
        /\ held' = Triple(l - literals, m - match, d)
        /\ pc' = IF FitsExactly(l, room) /\ FitsExactly(m, room - l) THEN pc ELSE "dstFull"

OutOfRange(l, d) ==
  /\ ~InRange(d, l)
  /\ Return("error")
  /\ UNCHANGED <<mem, dst, top, lit, held>>

Execute(l, m, d) == Fast(l, m, d) \/ Slow(l, m, d) \/ OutOfRange(l, d)

InBlock == pc = "decode" /\ block.kind = "lz"

Interrupted == held.l # 0 \/ held.m # 0

\* The triple that was being executed when the destination was full.
ResumeTriple ==
  /\ InBlock /\ Interrupted
  /\ Execute(held.l, held.m, held.d)
  /\ UNCHANGED <<input, rest, size, block, lits, todo, raw>>

\* The array has room for them; whether the block has so many is not asked.
EnoughLiterals(l) == lit + l < LitCap

NextTriple ==
  /\ InBlock /\ ~Interrupted /\ todo # <<>>
  /\ LET x == todo[1]
         d == IF x.d # 0 THEN x.d ELSE held.d
     IN IF ~EnoughLiterals(x.l)
        THEN Return("error") /\ UNCHANGED <<mem, dst, top, lit, held>>
        ELSE Execute(x.l, x.m, d)
  /\ todo' = Tail(todo)
  /\ UNCHANGED <<input, rest, size, block, lits, raw>>

\* fse_in_flush finds no more bytes.
BitsRunOut ==
  /\ InBlock /\ ~Interrupted /\ todo # <<>>
  /\ Return("error")
  /\ UNCHANGED <<input, rest, size, mem, dst, top, blockVars>>

CloseBlock ==
  /\ InBlock /\ ~Interrupted /\ todo = <<>>
  /\ block' = NoBlock
  /\ UNCHANGED <<pc, input, rest, size, mem, dst, top, lits, lit, todo, held, raw>>

\* A caller that has more room calls lzfse_decode again.
CallAgain ==
  /\ pc = "dstFull"
  /\ size < input.size + MoreRoom
  /\ size' = input.size + MoreRoom
  /\ mem' = [i \in 0 .. size' - 1 |-> IF i < size THEN mem[i] ELSE 0]
  /\ pc' = "decode"
  /\ UNCHANGED <<input, rest, dst, top, blockVars>>

Next ==
  \/ SourceEmpty \/ EndOfStream \/ BadBlock \/ OpenRaw \/ OpenCompressed
  \/ CopyRaw
  \/ ResumeTriple \/ NextTriple \/ BitsRunOut \/ CloseBlock
  \/ CallAgain

Spec == Init /\ [][Next]_vars

-----------------------------------------------------------------------------
(***************************************************************************)
(* Properties.                                                             *)
(***************************************************************************)
\* The whole source, as far as it means something: an uncompressed block is a
\* triple without a match, at distance 1 so as to be sound; what follows the end
\* of the stream means nothing.
AsBlock(item) ==
  IF item.kind = "lz" THEN [lits |-> item.lits, lmds |-> item.lmds]
  ELSE [lits |-> item.lits,
        lmds |-> IF item.lits = <<>> THEN <<>> ELSE <<Triple(Len(item.lits), 0, 1)>>]

Ended(items, i) == \E j \in 1 .. i : items[j].kind = "end"

BlocksOf(items) ==
  [i \in DOMAIN items |-> AsBlock(IF Ended(items, i) THEN NoBlock ELSE items[i])]

Meaning == Decoded(BlocksOf(input.items))

\* The destination holds, up to dst, a prefix of what the stream means: wide and
\* exact copies, whatever mixture of them the room left allows, do the same, and
\* what a wide copy wrote too much is overwritten before it counts.
OutputIsPrefix ==
  Meaning.sound =>
    /\ dst <= Len(Meaning.bytes)
    /\ \A i \in 0 .. dst - 1 : mem[i] = Meaning.bytes[i + 1]

\* What lzfse_decode_buffer_with_scratch returns, and whether decompress_lzfse
\* goes on with it.
Returned == CASE pc = "ok" -> dst [] pc = "dstFull" -> size [] OTHER -> 0
Accepted == pc # "decode" /\ size > 0 /\ Returned = size

\* The kickstart goes on with a destination that has been filled to its last
\* byte and not otherwise; success means the whole stream, and a stream with a
\* block that repeats a distance before it has set one is no success, whatever
\* the block before it left behind.  A destination of exactly the size of the
\* output, which is what the kickstart has, is never reported full.
StatusHonest ==
  /\ Accepted => dst = size
  /\ pc = "ok" /\ Meaning.sound => dst = Len(Meaning.bytes)
  /\ pc = "ok" =>
       \A i \in DOMAIN input.items :
         ~Ended(input.items, i) /\ input.items[i].lmds # <<>> => input.items[i].lmds[1].d # 0
  /\ Meaning.sound /\ size >= Len(Meaning.bytes) => pc # "dstFull"

\* No copy writes behind the destination, no match reads before it, and no
\* literal is taken from behind the array, even when the stream is damaged.
Confined ==
  /\ top <= size
  /\ lit <= LitCap
  /\ \A i \in 0 .. dst - 1 : mem[i] # Outside
=============================================================================

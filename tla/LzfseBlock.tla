---------------------------- MODULE LzfseBlock -----------------------------
(***************************************************************************)
(* One compressed block as bytes in a buffer: lzfse_encode_matches writes  *)
(* the header and two bit streams forwards, from the last literal and the  *)
(* last triple to the first; lzfse_decode and lzfse_decode_lmd read the    *)
(* streams backwards.  Both sides gather bits in an accumulator of 8 bytes *)
(* or, where FSE_IOSTREAM_64 is 0, of 4, with a store or load of the whole *)
(* accumulator each time.  A host writes with either, the board reads with *)
(* 4; `out' and `in' have their widths.                                    *)
(*                                                                         *)
(* The contents of the header are kept beside the buffer; in the buffer it *)
(* takes as many bytes as it has, all their bits 1.                        *)
(***************************************************************************)
EXTENDS Integers, Sequences, FiniteSets, FseTables, LzfseHeader

CONSTANTS
  Inputs,    \* blocks: literals and triples
  Rooms,     \* bytes from dst to dst_end
  Words,     \* bytes of the accumulators: encoder's and decoder's
  Damages,   \* changes of a header field
  ByteBits,  \* 8
  NStates,   \* of the tables "L", "M", "D" and "lit"
  NLits,     \* symbols of the table of literals
  Extra, Base,     \* extra bits and base values of "L", "M" and "D"
  MaxLits, MaxMatches,   \* of a block
  Junk       \* what a shift by a negative amount may yield

FixedSize == 32    \* offsetof(lzfse_compressed_block_header_v2, freq)
EndOfStream == 4   \* bytes of the block behind the last one
Kinds == {"L", "M", "D"}
Tables == Kinds \cup {"lit"}
NSymbols == [t \in Tables |-> IF t = "lit" THEN NLits ELSE Len(Base[t])]
FullHeader == FixedSize + 2 * (NSymbols["L"] + NSymbols["M"] + NSymbols["D"] + NLits)

\* The extra bits of a value and those of a state, and the bits of four literals,
\* must fit into the accumulators.
ASSUME WidthAssumption ==
  LET most(t) == Log2(NStates[t]) + (IF t = "lit" THEN 0
                   ELSE CHOOSE e \in 0 .. 16 : /\ \E s \in DOMAIN Extra[t] : Extra[t][s] = e
                                               /\ \A s \in DOMAIN Extra[t] : Extra[t][s] <= e)
  IN \A word \in UNION {{w.out, w.in} : w \in Words} :
       LET least == ByteBits * (word - 1)
       IN IF word = 8
          THEN 4 * most("lit") <= least /\ most("L") + most("M") + most("D") <= least
          ELSE 2 * most("lit") <= least /\ \A k \in Kinds : most(k) <= least

VARIABLES
  pc,
  input, room, words,
  hdr,      \* header1
  freq,     \* the frequencies: the encoder's, then the decoder's
  head,     \* header2: the packed words and the bits of the frequencies
  tables,   \* encoder tables
  states,   \* of the entropy coder
  left,     \* literals or triples to encode
  out,      \* the bit stream written, with the buffer it is in
  damaged,
  decoders, \* decoder tables
  in,       \* the bit stream read
  lits, lmds   \* what was decoded

encVars == <<hdr, freq, head, tables, left, out>>
decVars == <<decoders, in, lits, lmds>>
vars == <<pc, input, room, words, encVars, states, damaged, decVars>>

-----------------------------------------------------------------------------
(* The output stream.  peak: the most bits there ever were in the           *)
(* accumulator; reach: the end of the highest byte stored.                  *)

Larger(a, b) == IF a < b THEN b ELSE a

\* fse_out_push
OutPush(o, n, b) ==
  [o EXCEPT !.accum = (@ + b * 2 ^ o.nbits) % 2 ^ (ByteBits * o.word),
            !.nbits = @ + n, !.peak = Larger(@, o.nbits + n)]

\* A store of n bytes of an accumulator.
Stored(o, n, accum) ==
  LET bytes == [k \in 1 .. n |-> (accum \div 2 ^ (ByteBits * (k - 1))) % 2 ^ ByteBits]
      all == SubSeq(o.mem, 1, o.buf) \o bytes \o SubSeq(o.mem, o.buf + n + 1, room)
  IN [o EXCEPT !.mem = SubSeq(all, 1, room), !.reach = Larger(@, o.buf + n)]

\* Mutant: the bits of a partial byte are dropped.
OutFlush_Drop(o) ==
  LET n == (o.nbits \div ByteBits) * ByteBits
  IN [Stored(o, o.word, o.accum) EXCEPT !.buf = @ + n \div ByteBits, !.accum = 0, !.nbits = @ - n]

\* fse_out_flush: whole bytes only.
OutFlush(o) ==
  LET n == (o.nbits \div ByteBits) * ByteBits
  IN [Stored(o, o.word, o.accum) EXCEPT !.buf = @ + n \div ByteBits, !.accum = @ \div 2 ^ n,
                                        !.nbits = @ - n]

\* fse_out_finish: the last byte is filled with 0; nbits is then 0 or negative.
OutFinish(o) ==
  LET n == ((o.nbits + ByteBits - 1) \div ByteBits) * ByteBits
  IN [Stored(o, o.word, o.accum) EXCEPT !.buf = @ + n \div ByteBits, !.accum = 0, !.nbits = @ - n]

Narrow(stream) == stream.word = 4
FlushIfNarrow(o) == IF Narrow(o) THEN OutFlush(o) ELSE o

\* fse_encode, with the bits that follow the state's: the stream and the next state.
Put(o, t, state, symbol) ==
  LET e == Encoded(tables[t], state, symbol)
  IN [o |-> OutPush(o, e.nbits, e.bits), state |-> e.state]

\* l_base_from_value and its siblings: the last symbol with a base not above v.
SymbolOf(kind, v) == CHOOSE s \in DOMAIN Base[kind] :
  /\ Base[kind][s] <= v
  /\ \A r \in DOMAIN Base[kind] : Base[kind][r] <= v => r <= s

PutValue(o, kind, state, v) ==
  LET s == SymbolOf(kind, v)
  IN Put(OutPush(o, Extra[kind][s], v - Base[kind][s]), kind, state, s)

-----------------------------------------------------------------------------
(* lzfse_encode_matches.                                                    *)

SymbolAt(t, i) == IF t = "lit" THEN input.lits[i] ELSE SymbolOf(t, input.lmds[i][t])

\* The histogram of a table.
Occurrences(t) ==
  LET symbols == 1 .. IF t = "lit" THEN Len(input.lits) ELSE Len(input.lmds)
      counted[s \in 0 .. NSymbols[t]] ==
        IF s = 0 THEN <<>>
        ELSE Append(counted[s - 1], Cardinality({i \in symbols : SymbolAt(t, i) = s}))
  IN counted[NSymbols[t]]

PerTable(f(_)) == [L |-> f("L"), M |-> f("M"), D |-> f("D"), lit |-> f("lit")]

NoStream == [accum |-> 0, nbits |-> 0, buf |-> 0, word |-> 8]
NoHeader == [f \in DOMAIN Written |-> 0]

Init ==
  /\ pc = "encode"
  /\ input \in Inputs /\ room \in Rooms /\ words \in Words
  /\ hdr = NoHeader
  /\ head = [packed |-> {}, stream |-> <<>>]
  /\ freq = <<>> /\ tables = <<>> /\ decoders = <<>>
  /\ states = <<0, 0, 0, 0>>
  /\ left = 0
  /\ out = [accum |-> 0, nbits |-> 0, buf |-> 0, word |-> words.out, peak |-> 0, reach |-> 0,
            mem |-> [i \in 1 .. room |-> 2 ^ ByteBits - 1]]
  /\ damaged = FALSE
  /\ in = NoStream
  /\ lits = <<>> /\ lmds = <<>>

\* A full header is asked for, whatever will be used of it.
HeaderFits == FullHeader <= room

Full == pc' = "full" /\ UNCHANGED <<input, room, words, encVars, states, damaged, decVars>>

Normalize ==
  /\ pc = "encode"
  /\ IF ~HeaderFits THEN Full
     ELSE /\ freq' = PerTable(LAMBDA t : Normalized(NStates[t], Occurrences(t)).freq)
          /\ pc' = "header"
          /\ UNCHANGED <<input, room, words, hdr, head, tables, left, out, states, damaged,
                         decVars>>

EncodeHeader ==
  /\ pc = "header"
  /\ LET stream == FreqTableBits(freq["L"] \o freq["M"] \o freq["D"] \o freq["lit"])
         size == FixedSize + Bytes(stream)
     IN /\ head' = [head EXCEPT !.stream = stream]
        /\ hdr' = [hdr EXCEPT !.n_literals = Len(input.lits), !.n_matches = Len(input.lmds),
                              !.header_size = size]
        /\ out' = [out EXCEPT !.buf = size]
  /\ \E junk \in Junk :
       tables' = PerTable(LAMBDA t : EncoderTable(NStates[t], freq[t], junk))
  /\ left' = Len(input.lits)
  /\ pc' = "literals"
  /\ UNCHANGED <<input, room, words, freq, states, damaged, decVars>>

\* Mutant: one word is room enough.
Tight_OneWord == out.buf + 8 > room
Tight == out.buf + 16 > room

FourLiterals(o) ==
  LET c == Put(o, "lit", states[4], input.lits[left])
      b == Put(c.o, "lit", states[3], input.lits[left - 1])
      a == Put(FlushIfNarrow(b.o), "lit", states[2], input.lits[left - 2])
      z == Put(a.o, "lit", states[1], input.lits[left - 3])
  IN [o |-> OutFlush(z.o), states |-> <<z.state, a.state, b.state, c.state>>]

EncodeLiterals ==
  /\ pc = "literals" /\ left > 0
  /\ IF Tight THEN Full
     ELSE LET r == FourLiterals(out)
          IN /\ out' = r.o /\ states' = r.states /\ left' = left - 4
             /\ UNCHANGED <<pc, input, room, words, hdr, freq, head, tables, damaged, decVars>>

\* The end of the literals and the padding in front of the triples.
FinishLiterals ==
  /\ pc = "literals" /\ left = 0
  /\ LET o == OutFinish(out)
     IN IF o.buf + 8 > room THEN Full
        ELSE /\ hdr' = [hdr EXCEPT !.literal_bits = o.nbits,
                                   !.n_literal_payload_bytes = o.buf - hdr.header_size,
                                   !.literal_state0 = states[1], !.literal_state1 = states[2],
                                   !.literal_state2 = states[3], !.literal_state3 = states[4]]
             /\ out' = [Stored(o, 8, 0) EXCEPT !.buf = @ + 8, !.nbits = 0]
             /\ states' = <<0, 0, 0>>
             /\ left' = Len(input.lmds)
             /\ pc' = "triples"
             /\ UNCHANGED <<input, room, words, freq, head, tables, damaged, decVars>>

Triple(o, x) ==
  LET d == PutValue(o, "D", states[3], x.D)
      m == PutValue(FlushIfNarrow(d.o), "M", states[2], x.M)
      l == PutValue(FlushIfNarrow(m.o), "L", states[1], x.L)
  IN [o |-> OutFlush(l.o), states |-> <<l.state, m.state, d.state>>]

EncodeTriple ==
  /\ pc = "triples" /\ left > 0
  /\ IF Tight THEN Full
     ELSE LET r == Triple(out, input.lmds[left])
          IN /\ out' = r.o /\ states' = r.states /\ left' = left - 1
             /\ UNCHANGED <<pc, input, room, words, hdr, freq, head, tables, damaged, decVars>>

FinishBlock ==
  /\ pc = "triples" /\ left = 0
  /\ LET o == OutFinish(out)
         h == [hdr EXCEPT !.lmd_bits = o.nbits,
                          !.n_lmd_payload_bytes =
                             o.buf - (hdr.header_size + hdr.n_literal_payload_bytes),
                          !.l_state = states[1], !.m_state = states[2], !.d_state = states[3]]
     IN /\ hdr' = h /\ out' = o
        /\ head' = [head EXCEPT !.packed = Packed(h)]
  /\ pc' = "encoded"
  /\ UNCHANGED <<input, room, words, freq, states, tables, left, damaged, decVars>>

-----------------------------------------------------------------------------
(* A block that was damaged on its way: another number in the header, or a  *)
(* last byte of a stream with all bits set.                                 *)

DamageHeader ==
  \E x \in Damages :
    /\ hdr[x.field] + x.by \in -7 .. 63
    /\ head' = [head EXCEPT !.packed = Packed([hdr EXCEPT ![x.field] = @ + x.by])]
    /\ out' = out

DamagePayload ==
  /\ \E end \in {hdr.header_size + hdr.n_literal_payload_bytes, out.buf} :
       out' = [out EXCEPT !.mem[end] = 2 ^ ByteBits - 1]
  /\ head' = head

Damage ==
  /\ pc = "encoded" /\ ~damaged
  /\ DamageHeader \/ DamagePayload
  /\ damaged' = TRUE
  /\ UNCHANGED <<pc, input, room, words, hdr, freq, tables, states, left, decVars>>

-----------------------------------------------------------------------------
(* The input stream.  low, high: the lowest byte loaded and the end of the  *)
(* highest one; short: bits were pulled that were not there.                *)

\* The source is this block and the one that ends it.
SrcBegin == 0
SrcEnd == out.buf + EndOfStream

\* The end block counts as 0: a stream that ends in it starts with the first bits of
\* '$', which are 0.
Byte(i) == IF i \in 0 .. out.buf - 1 THEN out.mem[i + 1] ELSE 0
Loaded(buf, n) ==
  LET word[k \in 0 .. n] == IF k = 0 THEN 0 ELSE word[k - 1] + Byte(buf + k - 1) * 2 ^ (ByteBits * (k - 1))
  IN word[n]

\* fse_in_init: the accumulator is never full, and holds 0 above its bits.
InInit(n, buf, bottom) ==
  LET size == IF n = 0 THEN words.in - 1 ELSE words.in
      nbits == n + ByteBits * size
      inRange == buf >= bottom + size
      accum == Loaded(buf - size, size)
  IN [accum |-> accum, nbits |-> nbits, buf |-> buf - size, word |-> words.in,
      low |-> IF inRange THEN buf - size ELSE buf,
      high |-> buf, short |-> FALSE,
      ok |-> /\ inRange
             /\ nbits \in ByteBits * (words.in - 1) .. ByteBits * words.in - 1
             /\ accum < 2 ^ nbits]

\* Mutant: a load in front of the source is not refused.
InFlush_Unchecked(s) ==
  LET n == ((ByteBits * s.word - 1 - s.nbits) \div ByteBits) * ByteBits
      buf == s.buf - n \div ByteBits
  IN IF ~s.ok \/ (Narrow(s) /\ n = 0) THEN s
     ELSE [s EXCEPT !.accum = @ * 2 ^ n + LowBits(Loaded(buf, s.word), n),
                    !.nbits = @ + n, !.buf = buf,
                    !.low = IF buf < @ THEN buf ELSE @,
                    !.high = Larger(@, buf + s.word)]

\* fse_in_flush: whole bytes; only the narrow one skips the load when there is no
\* room for a byte.  All flushes, those of the triples too, may go back to the
\* beginning of the source.
InFlush(s) ==
  LET n == ((ByteBits * s.word - 1 - s.nbits) \div ByteBits) * ByteBits
      buf == s.buf - n \div ByteBits
  IN IF ~s.ok \/ (Narrow(s) /\ n = 0) THEN s
     ELSE IF buf < SrcBegin THEN [s EXCEPT !.ok = FALSE]
     ELSE [s EXCEPT !.accum = @ * 2 ^ n + LowBits(Loaded(buf, s.word), n),
                    !.nbits = @ + n, !.buf = buf,
                    !.low = IF buf < @ THEN buf ELSE @,
                    !.high = Larger(@, buf + s.word)]

InFlushIfNarrow(s) == IF Narrow(s) THEN InFlush(s) ELSE s

\* fse_in_pull: the bits and the rest of the stream.
InPull(s, n) ==
  IF n > s.nbits THEN [bits |-> 0, s |-> [s EXCEPT !.short = TRUE]]
  ELSE [bits |-> s.accum \div 2 ^ (s.nbits - n),
        s |-> [s EXCEPT !.accum = LowBits(@, s.nbits - n), !.nbits = @ - n]]

\* fse_decode and fse_value_decode: the symbol or value, the next state, the stream.
Get(s, state) ==
  LET d == decoders["lit"][state]
      p == InPull(s, d.k)
  IN [got |-> d.symbol, state |-> d.delta + p.bits, s |-> p.s]

GetValue(s, kind, state) ==
  LET d == decoders[kind][state]
      extra == Extra[kind][d.symbol]
      p == InPull(s, d.k + extra)
  IN [got |-> Base[kind][d.symbol] + LowBits(p.bits, extra),
      state |-> d.delta + (p.bits \div 2 ^ extra), s |-> p.s]

-----------------------------------------------------------------------------
(* lzfse_decode: the header and the literals; lzfse_decode_lmd: the triples. *)

Fail(e) == pc' = e /\ UNCHANGED <<input, room, words, encVars, states, damaged, decVars>>

\* lzfse_check_block_header_v1
HeaderSound ==
  /\ hdr.n_literals <= MaxLits /\ hdr.n_matches <= MaxMatches
  /\ \A f \in {"literal_state0", "literal_state1", "literal_state2", "literal_state3"} :
       hdr[f] < NStates["lit"]
  /\ hdr.l_state < NStates["L"] /\ hdr.m_state < NStates["M"] /\ hdr.d_state < NStates["D"]
  /\ \A t \in Tables : FreqSumFits(freq[t], NStates[t])

\* Where the frequencies of a table are among those of all.
First(t) ==
  CASE t = "L" -> 0
    [] t = "M" -> NSymbols["L"]
    [] t = "D" -> NSymbols["L"] + NSymbols["M"]
    [] OTHER -> NSymbols["L"] + NSymbols["M"] + NSymbols["D"]

DecodeHeader ==
  /\ pc = "encoded"
  /\ LET h == Unpacked(head.packed)
         read == ReadFreqTable(SubSeq(head.stream, 1, 8 * (h.header_size - FixedSize)),
                               First("lit") + NLits)
     IN IF h.header_size > SrcEnd THEN Fail("src_empty")
        ELSE IF ~read.ok THEN Fail("error")
        ELSE IF h.header_size + h.n_literal_payload_bytes + h.n_lmd_payload_bytes > SrcEnd
        THEN Fail("src_empty")
        ELSE /\ hdr' = h
             /\ freq' = PerTable(LAMBDA t : SubSeq(read.freqs, First(t) + 1, First(t) + NSymbols[t]))
             /\ pc' = "check"
             /\ UNCHANGED <<input, room, words, head, tables, left, out, states, damaged, decVars>>

StartLiterals ==
  /\ pc = "check"
  /\ LET s == InInit(hdr.literal_bits, hdr.header_size + hdr.n_literal_payload_bytes, SrcBegin)
     IN IF ~HeaderSound \/ ~s.ok THEN Fail("error")
        ELSE /\ decoders' = PerTable(LAMBDA t : DecoderTable(NStates[t], freq[t]))
             /\ in' = s
             /\ states' = <<hdr.literal_state0, hdr.literal_state1, hdr.literal_state2,
                            hdr.literal_state3>>
             /\ pc' = "get_literals"
             /\ UNCHANGED <<input, room, words, encVars, damaged, lits, lmds>>

DecodeLiterals ==
  /\ pc = "get_literals" /\ Len(lits) < hdr.n_literals
  /\ LET first == InFlush(in)
         a == Get(first, states[1])
         b == Get(a.s, states[2])
         second == InFlushIfNarrow(b.s)
         c == Get(second, states[3])
         d == Get(c.s, states[4])
     IN IF ~first.ok \/ ~second.ok THEN Fail("error")
        ELSE /\ in' = d.s
             /\ states' = <<a.state, b.state, c.state, d.state>>
             /\ lits' = lits \o <<a.got, b.got, c.got, d.got>>
             /\ UNCHANGED <<pc, input, room, words, encVars, damaged, decoders, lmds>>

\* Only the first load of the triples is kept out of the literals.
LmdBottom == hdr.header_size + hdr.n_literal_payload_bytes

StartTriples ==
  /\ pc = "get_literals" /\ Len(lits) >= hdr.n_literals
  /\ LET s == InInit(hdr.lmd_bits, LmdBottom + hdr.n_lmd_payload_bytes, LmdBottom)
     IN IF ~s.ok THEN Fail("error")
        ELSE /\ in' = s
             /\ states' = <<hdr.l_state, hdr.m_state, hdr.d_state>>
             /\ pc' = "get_triples"
             /\ UNCHANGED <<input, room, words, encVars, damaged, decoders, lits, lmds>>

DecodeTriple ==
  /\ pc = "get_triples" /\ Len(lmds) < hdr.n_matches
  /\ LET first == InFlush(in)
         l == GetValue(first, "L", states[1])
         second == InFlushIfNarrow(l.s)
         m == GetValue(second, "M", states[2])
         third == InFlushIfNarrow(m.s)
         d == GetValue(third, "D", states[3])
     IN IF ~first.ok \/ ~second.ok \/ ~third.ok THEN Fail("error")
        ELSE /\ in' = d.s
             /\ states' = <<l.state, m.state, d.state>>
             /\ lmds' = Append(lmds, [L |-> l.got, M |-> m.got, D |-> d.got])
             /\ UNCHANGED <<pc, input, room, words, encVars, damaged, decoders, lits>>

EndBlock ==
  /\ pc = "get_triples" /\ Len(lmds) = hdr.n_matches
  /\ pc' = "decoded"
  /\ UNCHANGED <<input, room, words, encVars, states, damaged, decVars>>

Next ==
  \/ Normalize \/ EncodeHeader \/ EncodeLiterals \/ FinishLiterals \/ EncodeTriple \/ FinishBlock
  \/ Damage
  \/ DecodeHeader \/ StartLiterals \/ DecodeLiterals \/ StartTriples \/ DecodeTriple \/ EndBlock

Spec == Init /\ [][Next]_vars

-----------------------------------------------------------------------------
\* What one side wrote with accumulators of one width, the other side reads back with
\* those of another: the literals, the triples, and nothing is refused.
StreamsRoundTrip ==
  ~damaged =>
    /\ pc \notin {"error", "src_empty"}
    /\ pc = "decoded" => lits = input.lits /\ lmds = input.lmds

\* The stores of whole accumulators stay in the destination, also those of the two
\* fse_out_finish calls, before which nothing is checked; and the accumulator is
\* emptied often enough never to lose a bit.
WritesConfined ==
  /\ out.reach <= room
  /\ out.peak <= ByteBits * out.word

\* Whatever the header of a damaged block says, the bits of a table entry are there
\* when they are pulled, states stay in their tables, and loads stay in the source,
\* but for one byte behind it: a wide accumulator that has no room for a byte is loaded
\* all the same (fse_in_checked_flush64), and keeps none of those bits.  A block that
\* is not damaged is read inside the source, and its triples without a load of
\* the literals, for the 8 bytes of padding in front of them suffice.
ReadsConfined ==
  pc \in {"get_literals", "get_triples", "decoded"} =>
    /\ ~in.short
    /\ in.low >= IF damaged \/ pc = "get_literals" THEN SrcBegin ELSE LmdBottom
    /\ in.high <= SrcEnd + IF damaged /\ ~Narrow(in) THEN 1 ELSE 0
    /\ LET sizes == IF pc = "get_literals" THEN [i \in 1 .. 4 |-> NStates["lit"]]
                    ELSE <<NStates["L"], NStates["M"], NStates["D"]>>
       IN \A i \in DOMAIN states : states[i] \in 0 .. sizes[i] - 1
=============================================================================

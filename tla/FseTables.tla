----------------------------- MODULE FseTables -----------------------------
(***************************************************************************)
(* The entropy coder's tables: a histogram is scaled to a table of         *)
(* frequencies that add up to the number of states, a power of two, and    *)
(* encoder and decoder each build their own table from the frequencies.    *)
(* Coding a symbol in a state writes some low bits of the state and goes   *)
(* to another state; decoding goes back.  Symbols are numbered from 1, as  *)
(* the frequencies are; states from 0.                                     *)
(***************************************************************************)
EXTENDS Integers, Sequences

CONSTANT Precision  \* 31: the bits of the fixed-point step

ASSUME PrecisionAssumption == Precision \in Nat \ {0}

\* 2 ^ n, as a function that the provers can reason about.
Pow2(n) ==
  LET power[k \in 0 .. n] == IF k = 0 THEN 1 ELSE 2 * power[k - 1]
  IN power[n]

Total(freq) ==
  LET total[i \in 0 .. Len(freq)] == IF i = 0 THEN 0 ELSE total[i - 1] + freq[i]
  IN total[Len(freq)]

\* The states of a symbol are those from Offset(freq, i) on, freq[i] many.
Offset(freq, i) == Total(SubSeq(freq, 1, i - 1))

\* Positions of highest set bits: clz(b) - clz(a) is Log2(a) - Log2(b).
Log2(n) == CHOOSE k \in 0 .. n : Pow2(k) <= n /\ n < Pow2(k + 1)

-----------------------------------------------------------------------------
(* fse_normalize_freq.                                                      *)

Step(occ) == IF Total(occ) = 0 THEN 0 ELSE Pow2(Precision) \div Total(occ)

\* Rounded to the nearest, but a symbol that occurs gets a state.
Scaled(nstates, occ) ==
  LET step == Step(occ)
      half == Pow2(Precision - 1 - Log2(nstates))
      rounded(t) == ((t * step) \div half + 1) \div 2
      scaled[i \in 0 .. Len(occ)] ==
        IF i = 0 THEN <<>>
        ELSE Append(scaled[i - 1],
                    IF rounded(occ[i]) = 0 /\ occ[i] # 0 THEN 1 ELSE rounded(occ[i]))
  IN scaled[Len(occ)]

\* The first symbol of the highest frequency; the first one if none has any.
MostFrequent(freq) ==
  CHOOSE i \in DOMAIN freq :
    /\ \A j \in DOMAIN freq : freq[j] <= freq[i]
    /\ \A j \in 1 .. i - 1 : freq[j] < freq[i]

\* One round of fse_adjust_freqs over the symbols.
AfterPass(freq, overrun, shift) ==
  LET spare(i) == IF freq[i] > 1 THEN (freq[i] - 1) \div Pow2(shift) ELSE 0
      pass[i \in 0 .. Len(freq)] ==
        IF i = 0 THEN [freq |-> freq, overrun |-> overrun]
        ELSE LET before == pass[i - 1]
                 n == IF before.overrun < spare(i) THEN before.overrun ELSE spare(i)
             IN [freq |-> [before.freq EXCEPT ![i] = @ - n], overrun |-> before.overrun - n]
  IN pass[Len(freq)]

\* fse_adjust_freqs: shifts of 3 down to 0.  What is left then is left for a shift
\* by a negative amount.
Adjusted(freq, overrun) ==
  LET after[shift \in 0 .. 4] ==
        IF shift = 4 THEN [freq |-> freq, overrun |-> overrun]
        ELSE LET before == after[shift + 1]
             IN AfterPass(before.freq, before.overrun, shift)
  IN after[0]

\* Mutant: a large overrun is taken from the most frequent symbol, too.
Normalized_OneSymbol(nstates, occ) ==
  LET freq == Scaled(nstates, occ)
  IN [freq |-> [freq EXCEPT ![MostFrequent(freq)] = @ + nstates - Total(freq)], overrun |-> 0]

\* The most frequent symbol takes what remains, and pays for a small overrun.
Normalized(nstates, occ) ==
  LET freq == Scaled(nstates, occ)
      remaining == nstates - Total(freq)
      most == MostFrequent(freq)
  IN IF -remaining < freq[most] \div 4
     THEN [freq |-> [freq EXCEPT ![most] = @ + remaining], overrun |-> 0]
     ELSE Adjusted(freq, -remaining)

-----------------------------------------------------------------------------
(* The tables.  A shift by k keeps nstates <= freq << k < 2 * nstates.      *)

ShiftOf(nstates, f) == Log2(nstates) - Log2(f)

\* Mutant: the shorter of the two shifts is taken for both kinds of states.
EncoderEntry_OneDelta(nstates, offset, f, junk) ==
  LET k == ShiftOf(nstates, f)
  IN [s0 |-> f * Pow2(k) - nstates, k |-> k,
      delta0 |-> offset - f + nstates \div Pow2(k),
      delta1 |-> offset - f + nstates \div Pow2(k)]

\* An entry of fse_init_encoder_table.  With all states for one symbol k is 0 and
\* delta1 comes from a shift by -1, which yields anything.
EncoderEntry(nstates, offset, f, junk) ==
  LET k == ShiftOf(nstates, f)
  IN [s0 |-> f * Pow2(k) - nstates, k |-> k,
      delta0 |-> offset - f + nstates \div Pow2(k),
      delta1 |-> IF k = 0 THEN junk ELSE offset - f + nstates \div Pow2(k - 1)]

EncoderTable(nstates, freq, junk) ==
  [i \in {i \in DOMAIN freq : freq[i] > 0} |->
     EncoderEntry(nstates, Offset(freq, i), freq[i], junk)]

\* An entry of fse_init_decoder_table and of fse_init_value_decoder_table: that of
\* the state j behind the first one of a symbol with f states.
DecoderEntry(nstates, symbol, f, j) ==
  LET k == ShiftOf(nstates, f)
      j0 == (2 * nstates) \div Pow2(k) - f
  IN IF j < j0
     THEN [symbol |-> symbol, k |-> k, delta |-> (f + j) * Pow2(k) - nstates]
     ELSE [symbol |-> symbol, k |-> k - 1, delta |-> (j - j0) * Pow2(k - 1)]

\* What the memory held where the frequencies leave states over: nothing yet.
ZeroEntry == [symbol |-> 1, k |-> 0, delta |-> 0]

DecoderTable(nstates, freq) ==
  LET entries[i \in 0 .. Len(freq)] ==
        IF i = 0 THEN <<>>
        ELSE entries[i - 1]
               \o [j \in 1 .. freq[i] |-> DecoderEntry(nstates, i, freq[i], j - 1)]
      all == entries[Len(freq)]
  IN [s \in 0 .. nstates - 1 |-> IF s < Len(all) THEN all[s + 1] ELSE ZeroEntry]

\* fse_mask_lsb
LowBits(x, nbits) == x % Pow2(nbits)

\* fse_encode: the bits to write and the next state.
Encoded(table, state, symbol) ==
  LET e == table[symbol]
      hi == state >= e.s0
      nbits == IF hi THEN e.k ELSE e.k - 1
  IN [nbits |-> nbits,
      bits |-> LowBits(state, nbits),
      state |-> (IF hi THEN e.delta0 ELSE e.delta1) + state \div Pow2(nbits)]

\* fse_check_freq
FreqSumFits(freq, nstates) == Total(freq) <= nstates
=============================================================================

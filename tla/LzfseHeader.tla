---------------------------- MODULE LzfseHeader ----------------------------
(***************************************************************************)
(* The header of a compressed block: its numbers packed into three 64-bit  *)
(* words, and the frequencies as codes of 2 to 14 bits, written and read   *)
(* byte by byte.  A word is the set of its bits that are 1, with the word's *)
(* number; the codes are a sequence of bits, low ones first.               *)
(***************************************************************************)
EXTENDS Integers, Sequences, FiniteSets, FseTables

Bits(x, n) == [k \in 1 .. n |-> (x \div Pow2(k - 1)) % 2]
Number(bits) ==
  LET n == Len(bits)
      high[k \in 0 .. n] == IF k = 0 THEN 0 ELSE 2 * high[k - 1] + bits[n - k + 1]
  IN high[n]

-----------------------------------------------------------------------------
(* lzfse_encode_v1_freq_value, lzfse_decode_v1_freq_value.                  *)

FreqCode(v) ==
  CASE v = 0 -> Bits(0, 2)
    [] v = 1 -> Bits(2, 2)
    [] v = 2 -> Bits(1, 3)
    [] v = 3 -> Bits(5, 3)
    [] v \in 4 .. 7 -> Bits(3 + 8 * (v - 4), 5)
    [] v \in 8 .. 23 -> Bits(7 + (v - 8) * 16, 8)
    [] OTHER -> Bits(15 + (v - 24) * 16, 14)

FreqNbits == <<2, 3, 2, 5, 2, 3, 2, 8, 2, 3, 2, 5, 2, 3, 2, 14,
               2, 3, 2, 5, 2, 3, 2, 8, 2, 3, 2, 5, 2, 3, 2, 14>>
FreqValue == <<0, 2, 1, 4, 0, 3, 1, -1, 0, 2, 1, 5, 0, 3, 1, -1,
               0, 2, 1, 6, 0, 3, 1, -1, 0, 2, 1, 7, 0, 3, 1, -1>>

\* accum: at least 14 bits.
DecodedFreq(accum) ==
  LET low == Number(SubSeq(accum, 1, 5)) + 1
      n == FreqNbits[low]
  IN [nbits |-> n,
      value |-> CASE n = 8 -> 8 + Number(SubSeq(accum, 5, 8))
                  [] n = 14 -> 24 + Number(SubSeq(accum, 5, 14))
                  [] OTHER -> FreqValue[low]]

-----------------------------------------------------------------------------
(* The frequencies of all tables: lzfse_encode_v1_freq_table and its        *)
(* counterpart in lzfse_decode_v1.                                          *)

Bytes(bits) == (Len(bits) + 7) \div 8

\* The codes one behind the other; the last byte is filled with 0.
FreqTableBits(freqs) ==
  LET code[i \in 0 .. Len(freqs)] ==
        IF i = 0 THEN <<>> ELSE code[i - 1] \o FreqCode(freqs[i])
      bits == code[Len(freqs)]
  IN bits \o [k \in 1 .. 8 * Bytes(bits) - Len(bits) |-> 0]

\* Mutant: the reader does not look for what it has left.
ReadFreqTable_AnyEnd(bits, n) ==
  LET accum(at, loaded) == [k \in 1 .. 14 |-> IF at + k <= 8 * loaded THEN bits[at + k] ELSE 0]
      read[i \in 0 .. n] ==
        IF i = 0 THEN [at |-> 0, loaded |-> 0, freqs |-> <<>>, ok |-> TRUE]
        ELSE LET before == read[i - 1]
                 loaded == IF (before.at + 32) \div 8 < Bytes(bits)
                           THEN (before.at + 32) \div 8 ELSE Bytes(bits)
                 next == DecodedFreq(accum(before.at, loaded))
             IN [at |-> before.at + next.nbits, loaded |-> loaded,
                 freqs |-> Append(before.freqs, next.value), ok |-> TRUE]
  IN read[n]

\* n frequencies, none of them if there are no bytes.  Bytes are loaded while they
\* fit into 32 bits; what is not loaded reads as 0.  A code must be loaded as a
\* whole, and in the end all bytes are, with less than one of them left.
ReadFreqTable(bits, n) ==
  LET accum(at, loaded) == [k \in 1 .. 14 |-> IF at + k <= 8 * loaded THEN bits[at + k] ELSE 0]
      read[i \in 0 .. n] ==
        IF i = 0 THEN [at |-> 0, loaded |-> 0, freqs |-> <<>>, ok |-> TRUE]
        ELSE LET before == read[i - 1]
                 loaded == IF (before.at + 32) \div 8 < Bytes(bits)
                           THEN (before.at + 32) \div 8 ELSE Bytes(bits)
                 next == DecodedFreq(accum(before.at, loaded))
             IN [at |-> before.at + next.nbits, loaded |-> loaded,
                 freqs |-> Append(before.freqs, next.value),
                 ok |-> before.ok /\ before.at + next.nbits <= 8 * loaded]
      all == read[n]
      exact == 8 * all.loaded - all.at < 8 /\ all.loaded = Bytes(bits)
  IN IF bits = <<>> THEN [all EXCEPT !.ok = TRUE, !.freqs = [i \in 1 .. n |-> 0]]
     ELSE [all EXCEPT !.ok = @ /\ exact]

-----------------------------------------------------------------------------
(* The packed words: lzfse_encode_v1_state, lzfse_decode_v1.                *)

Field(word, offset, width) == [word |-> word, offset |-> offset, width |-> width]

Written ==
  [n_literals |-> Field(0, 0, 20), n_literal_payload_bytes |-> Field(0, 20, 20),
   n_matches |-> Field(0, 40, 20), literal_bits |-> Field(0, 60, 3),
   literal_state0 |-> Field(1, 0, 10), literal_state1 |-> Field(1, 10, 10),
   literal_state2 |-> Field(1, 20, 10), literal_state3 |-> Field(1, 30, 10),
   n_lmd_payload_bytes |-> Field(1, 40, 20), lmd_bits |-> Field(1, 60, 3),
   header_size |-> Field(2, 0, 32), l_state |-> Field(2, 32, 10),
   m_state |-> Field(2, 42, 10), d_state |-> Field(2, 52, 10)]

Read ==
  [n_literals |-> Field(0, 0, 20), n_literal_payload_bytes |-> Field(0, 20, 20),
   literal_bits |-> Field(0, 60, 3), n_matches |-> Field(0, 40, 20),
   literal_state0 |-> Field(1, 0, 10), literal_state1 |-> Field(1, 10, 10),
   literal_state2 |-> Field(1, 20, 10), literal_state3 |-> Field(1, 30, 10),
   n_lmd_payload_bytes |-> Field(1, 40, 20), lmd_bits |-> Field(1, 60, 3),
   header_size |-> Field(2, 0, 32), l_state |-> Field(2, 32, 10),
   m_state |-> Field(2, 42, 10), d_state |-> Field(2, 52, 10)]

\* The two numbers of bits are -7 .. 0 and stored with 7 added.
Bias(f) == IF f \in {"literal_bits", "lmd_bits"} THEN 7 ELSE 0

\* setField and |: a number that is too wide would set bits of its neighbour.
Packed(h) ==
  UNION {{<<Written[f].word, Written[f].offset + k>> :
            k \in {k \in 0 .. 29 : ((h[f] + Bias(f)) \div 2 ^ k) % 2 = 1}} :
         f \in DOMAIN Written}

\* get_field
Unpacked(words) ==
  [f \in DOMAIN Read |->
     Number([k \in 1 .. IF Read[f].width < 30 THEN Read[f].width ELSE 30 |->
               IF <<Read[f].word, Read[f].offset + k - 1>> \in words THEN 1 ELSE 0]) - Bias(f)]
=============================================================================

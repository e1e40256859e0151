----------------------------- MODULE FseCoding -----------------------------
(***************************************************************************)
(* The life of one table of the entropy coder, from a histogram to the     *)
(* tables of the two sides: the encoder normalizes the histogram and writes *)
(* the frequencies into the header, the decoder reads them from there, and *)
(* both build their tables.  Next to it, a value on its way to a symbol    *)
(* and extra bits.                                                         *)
(***************************************************************************)
EXTENDS Integers, Sequences, FseTables, LzfseHeader, LzfseValues

CONSTANTS
  Histograms,  \* numbers of states, with the occurrences of each symbol
  Junk,        \* what a shift by a negative amount may yield
  Probes       \* values of L, M and D, with their kinds

\* The code has tables of 64, 256 and 1024 states, for 20, 64 and 256 symbols.
ASSUME HistogramsAssumption ==
  \A h \in Histograms :
    /\ h.nstates \in 8 .. 1024
    /\ h.nstates = Pow2(Log2(h.nstates)) /\ Log2(h.nstates) < Precision
    /\ h.occ \in Seq(Nat) /\ Len(h.occ) \in 4 .. h.nstates

ASSUME ProbesAssumption ==
  \A p \in Probes : p.kind \in {"L", "M", "D"} /\ p.value \in Nat /\ p.value <= Kinds[p.kind].max

VARIABLES
  phase,
  input,    \* the histogram or the value
  freq,     \* the frequencies the encoder has
  stream,   \* the bits of the header
  damaged,  \* whether the size of the header was changed
  back,     \* the frequencies the decoder has
  tables    \* the encoder's and the decoder's; the symbol of a value

vars == <<phase, input, freq, stream, damaged, back, tables>>

Init ==
  /\ \/ phase = "counted" /\ input \in Histograms
     \/ phase = "value" /\ input \in Probes
  /\ freq = <<>> /\ stream = <<>> /\ damaged = FALSE /\ back = <<>>
  /\ tables = [encoder |-> <<>>, decoder |-> <<>>, symbol |-> 0]

Normalize ==
  /\ phase = "counted"
  /\ freq' = Normalized(input.nstates, input.occ).freq
  /\ phase' = "normalized"
  /\ UNCHANGED <<input, stream, damaged, back, tables>>

WriteTable ==
  /\ phase = "normalized"
  /\ stream' = FreqTableBits(freq)
  /\ phase' = "written"
  /\ UNCHANGED <<input, freq, damaged, back, tables>>

\* The header says that it ends a byte earlier or later.
Damage ==
  /\ phase = "written" /\ ~damaged
  /\ \/ stream' = SubSeq(stream, 1, Len(stream) - 8)
     \/ stream' = stream \o Bits(255, 8)
  /\ damaged' = TRUE
  /\ UNCHANGED <<phase, input, freq, back, tables>>

ReadTable ==
  /\ phase = "written"
  /\ LET read == ReadFreqTable(stream, Len(freq))
     IN /\ phase' = IF read.ok THEN "read" ELSE "refused"
        /\ back' = read.freqs
  /\ UNCHANGED <<input, freq, stream, damaged, tables>>

BuildTables ==
  /\ phase = "read" /\ FreqSumFits(back, input.nstates)
  /\ \E junk \in Junk :
       tables' = [tables EXCEPT !.encoder = EncoderTable(input.nstates, freq, junk),
                                !.decoder = DecoderTable(input.nstates, back)]
  /\ phase' = "built"
  /\ UNCHANGED <<input, freq, stream, damaged, back>>

CodeValue ==
  /\ phase = "value"
  /\ tables' = [tables EXCEPT !.symbol = SymbolOf(input.kind, input.value)]
  /\ phase' = "coded"
  /\ UNCHANGED <<input, freq, stream, damaged, back>>

Next == Normalize \/ WriteTable \/ Damage \/ ReadTable \/ BuildTables \/ CodeValue

Spec == Init /\ [][Next]_vars

-----------------------------------------------------------------------------
Tables == phase \in {"normalized", "written", "read", "refused", "built"}
Used == {i \in DOMAIN freq : input.occ[i] > 0}

\* However the counts are distributed, fse_normalize_freq hands out exactly all
\* states, forgets no symbol that occurs, and its adjustment never runs out of
\* shifts; every frequency has a code in the header.
FrequenciesSound ==
  Tables =>
    /\ Total(freq) = input.nstates
    /\ \A i \in DOMAIN freq : freq[i] \in 0 .. 1047
    /\ \A i \in Used : freq[i] > 0

\* The decoder's loop over the codes, which loads bytes ahead and takes what is
\* missing as 0, reads the frequencies that were written, and notices when the header
\* is a byte shorter or longer than they are.
TableSurvives ==
  /\ phase \in {"read", "built"} => freq = back /\ ~damaged
  /\ phase = "refused" => damaged

\* What one side builds from the frequencies the other undoes, although their
\* tables come from different formulas.  Decoding the state that coding a symbol
\* leads to gives the symbol, takes as many bits as were written and returns to the
\* state before; no bits lead out of the table, and what the shift by -1 yields is
\* never used.  A value of L, M or D lies among those that its symbol and extra
\* bits can say: lookup and base tables were written down separately.
CodingInverse ==
  /\ phase = "built" =>
       LET states == 0 .. input.nstates - 1
       IN /\ \A s \in states, i \in Used :
               LET e == Encoded(tables.encoder, s, i)
               IN /\ e.state \in states
                  /\ tables.decoder[e.state].symbol = i
                  /\ tables.decoder[e.state].k = e.nbits
                  /\ tables.decoder[e.state].delta + e.bits = s
          /\ \A s \in states :
               LET d == tables.decoder[s]
               IN d.delta >= 0 /\ d.delta + Pow2(d.k) - 1 \in states
  /\ phase = "coded" =>
       LET kind == Kinds[input.kind]
           s == tables.symbol
       IN input.value - kind.base[s] \in 0 .. Pow2(kind.extra[s]) - 1
=============================================================================

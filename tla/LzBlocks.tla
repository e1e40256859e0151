------------------------------ MODULE LzBlocks ------------------------------
(***************************************************************************)
(* What a sequence of LZFSE blocks means: the abstract counterpart of the  *)
(* encoder and of the decoder.  A block has literals and L,M,D triples: L  *)
(* literals are followed by M bytes copied from D bytes back; D = 0 is the *)
(* distance of the triple before.                                          *)
(***************************************************************************)
EXTENDS Integers, Sequences, SequencesExt

Triple(l, m, d) == [l |-> l, m |-> m, d |-> d]

\* A match may overlap the bytes it produces.
Copied(bytes, m, d) ==
  bytes \o [k \in 1 .. m |-> bytes[Len(bytes) - d + 1 + ((k - 1) % d)]]

\* acc: the bytes produced so far, the literals left of the block, the distance
\* of the last triple, and whether every triple made sense.
Executed(acc, x) ==
  LET d == IF x.d = 0 THEN acc.d ELSE x.d
      l == Min({x.l, Len(acc.lits)})
      bytes == acc.bytes \o SubSeq(acc.lits, 1, l)
      sound == acc.sound /\ l = x.l /\ d \in 1 .. Len(bytes)
  IN [bytes |-> IF sound THEN Copied(bytes, x.m, d) ELSE bytes,
      lits |-> SubSeq(acc.lits, l + 1, Len(acc.lits)),
      d |-> d,
      sound |-> sound]

Start(bytes, sound, block) == [bytes |-> bytes, lits |-> block.lits, d |-> 0, sound |-> sound]

\* The acc after each of the triples, from `start' on.
Progress(start, lmds) ==
  LET after[i \in 0 .. Len(lmds)] ==
        IF i = 0 THEN start ELSE Executed(after[i - 1], lmds[i])
  IN after

DecodedBlock(acc, block) ==
  LET end == Progress(Start(acc.bytes, acc.sound, block), block.lmds)[Len(block.lmds)]
  IN [bytes |-> end.bytes, sound |-> end.sound]

\* What has been decoded after each of the blocks.
Stages(blocks) ==
  LET after[i \in 0 .. Len(blocks)] ==
        IF i = 0 THEN [bytes |-> <<>>, sound |-> TRUE]
        ELSE DecodedBlock(after[i - 1], blocks[i])
  IN after

Decoded(blocks) == Stages(blocks)[Len(blocks)]
=============================================================================

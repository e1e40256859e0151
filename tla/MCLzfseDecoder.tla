--------------------------- MODULE MCLzfseDecoder ---------------------------
(***************************************************************************)
(* Every block of two triples over four literals, and streams with raw,    *)
(* damaged and truncated blocks, into destinations from empty to ample.    *)
(***************************************************************************)
EXTENDS LzfseDecoder

MCByte == 0 .. 8

Item(k, s, x, n, whole, sound) ==
  [kind |-> k, lits |-> s, lmds |-> x, raw |-> n, whole |-> whole, sound |-> sound]

End == Item("end", <<>>, <<>>, 0, TRUE, TRUE)
Bad == Item("bad", <<>>, <<>>, 0, TRUE, TRUE)
Raw(s, n) == Item("raw", s, <<>>, n, TRUE, TRUE)
Lz(s, x) == Item("lz", s, x, 0, TRUE, TRUE)

Triples == {Triple(l, m, d) : l \in 0 .. 3, m \in {0, 1, 5}, d \in 0 .. 3}

First == Lz(<<1, 2, 3, 4>>, <<Triple(2, 3, 2), Triple(2, 0, 1)>>)

OneBlock == {<<Lz(<<1, 2, 3, 4>>, <<x, y>>), End>> : x, y \in Triples}

TwoBlocks ==
  {<<First, Lz(<<5, 6, 7, 8>>, <<x>>), End>> : x \in Triples}
    \cup {<<Raw(<<5, 6, 7>>, 3), Lz(<<1, 2, 3, 4>>, <<x>>), End>> : x \in Triples}
    \cup {<<First, Raw(<<5, 6, 7>>, 3), End>>}

Damaged ==
  {<<>>, <<First>>, <<Bad>>, <<First, Bad>>, <<Raw(<<5, 6>>, 3)>>, <<Raw(<<>>, 0), End>>,
   <<Item("raw", <<>>, <<>>, 3, FALSE, TRUE)>>,
   <<First, End, First>>,
   <<First, Item("lz", <<>>, <<>>, 0, FALSE, TRUE)>>,
   <<First, Item("lz", <<>>, <<>>, 0, TRUE, FALSE), End>>}

MCInputs ==
  [items : OneBlock \cup TwoBlocks \cup Damaged, size : {0, 1, 3, 5, 8, 10, 14}]
=============================================================================

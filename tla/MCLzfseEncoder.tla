--------------------------- MODULE MCLzfseEncoder ---------------------------
(***************************************************************************)
(* Two byte values, words of two bytes, and limits scaled down so that     *)
(* literals and matches are split, blocks fill up and positions leave the  *)
(* range of a history entry within a dozen bytes.                          *)
(***************************************************************************)
EXTENDS LzfseEncoder

Bits == {0, 1}

OfLength(n) == [1 .. n -> Bits]

MCWords == [1 .. 2 -> Bits]

\* Words that differ in their first byte share a line.
SecondByte == [x \in MCWords |-> x[2]]

\* The longest are cut into chunks, the last of which may be empty.
MCSources ==
  UNION {OfLength(n) : n \in {0, 1, 4, 13}}
    \cup {<<0, 0, 0>> \o s : s \in OfLength(11)} \cup {<<0, 0>> \o s : s \in OfLength(13)}
=============================================================================

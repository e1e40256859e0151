---------------------------- MODULE LzfseValues ----------------------------
(***************************************************************************)
(* How the numbers L, M and D become symbols of the entropy coder: a symbol *)
(* stands for the values from its base on that differ in its extra bits.   *)
(* The encoder finds the symbol in a table indexed by the value; the long  *)
(* runs of those tables are given by their lengths.  Symbols count from 1. *)
(***************************************************************************)
EXTENDS Integers, Sequences, FseTables

LExtra == <<0, 0, 0, 0, 0, 0, 0, 0, 0, 0, 0, 0, 0, 0, 0, 0, 2, 3, 5, 8>>
LBase == <<0, 1, 2, 3, 4, 5, 6, 7, 8, 9, 10, 11, 12, 13, 14, 15, 16, 20, 28, 60>>
MExtra == <<0, 0, 0, 0, 0, 0, 0, 0, 0, 0, 0, 0, 0, 0, 0, 0, 3, 5, 8, 11>>
MBase == <<0, 1, 2, 3, 4, 5, 6, 7, 8, 9, 10, 11, 12, 13, 14, 15, 16, 24, 56, 312>>
DExtra == [s \in 1 .. 64 |-> (s - 1) \div 4]
DBase ==
  <<0, 1, 2, 3, 4, 6, 8, 10, 12, 16, 20, 24, 28, 36, 44, 52, 60, 76, 92, 108,
    124, 156, 188, 220, 252, 316, 380, 444, 508, 636, 764, 892,
    1020, 1276, 1532, 1788, 2044, 2556, 3068, 3580, 4092, 5116, 6140, 7164,
    8188, 10236, 12284, 14332, 16380, 20476, 24572, 28668, 32764, 40956, 49148, 57340,
    65532, 81916, 98300, 114684, 131068, 163836, 196604, 229372>>

\* The entry at an index from 0 of a table that has runs[s] entries s.
EntryAt(runs, index) ==
  CHOOSE s \in DOMAIN runs : Offset(runs, s) <= index /\ index < Offset(runs, s) + runs[s]

LRuns == <<1, 1, 1, 1, 1, 1, 1, 1, 1, 1, 1, 1, 1, 1, 1, 1, 4, 8, 32, 256>>
MRuns == <<1, 1, 1, 1, 1, 1, 1, 1, 1, 1, 1, 1, 1, 1, 1, 1, 8, 32, 256, 2048>>
DRuns ==
  <<1, 1, 1, 1, 2, 2, 2, 2, 4, 4, 4, 4, 8, 8, 8, 8,
    5, 1, 1, 1, 2, 2, 2, 2, 4, 4, 4, 4, 8, 8, 8, 8,
    5, 1, 1, 1, 2, 2, 2, 2, 4, 4, 4, 4, 8, 8, 8, 8,
    5, 1, 1, 1, 2, 2, 2, 2, 4, 4, 4, 4, 8, 8, 8, 8>>

\* Mutant: the start of a range is not subtracted.
DIndex_FromZero(v) ==
  CASE 0 <= v /\ v < 60 -> v
    [] 60 <= v /\ v < 1020 -> v \div 16 + 64
    [] 1020 <= v /\ v < 16380 -> v \div 256 + 128
    [] 16380 <= v /\ v < 262140 -> v \div 4096 + 192
    [] OTHER -> 0

\* Four ranges, each 16 times as coarse as the one before.
DIndex(v) ==
  CASE 0 <= v /\ v < 60 -> v
    [] 60 <= v /\ v < 1020 -> (v - 60) \div 16 + 64
    [] 1020 <= v /\ v < 16380 -> (v - 1020) \div 256 + 128
    [] 16380 <= v /\ v < 262140 -> (v - 16380) \div 4096 + 192
    [] OTHER -> 0

Kinds ==
  [L |-> [extra |-> LExtra, base |-> LBase, max |-> 315],
   M |-> [extra |-> MExtra, base |-> MBase, max |-> 2359],
   D |-> [extra |-> DExtra, base |-> DBase, max |-> 262139]]

\* l_base_from_value, m_base_from_value, d_base_from_value
SymbolOf(kind, v) ==
  CASE kind = "L" -> EntryAt(LRuns, v)
    [] kind = "M" -> EntryAt(MRuns, v)
    [] OTHER -> EntryAt(DRuns, DIndex(v))
=============================================================================

---------------------------- MODULE MCLzfseBlock ---------------------------
(***************************************************************************)
(* Bytes of 2 bits with accumulators of 8 and 4 bytes, and tables as small *)
(* as that asks for: the most bits a state and a value need fill what an   *)
(* accumulator is sure to hold, as nearly as they do with bytes of 8 bits. *)
(***************************************************************************)
EXTENDS LzfseBlock

MCNStates == [L |-> 4, M |-> 4, D |-> 4, lit |-> 8]
MCExtra == [L |-> <<0, 0, 0, 1>>, M |-> <<0, 0, 1, 3>>, D |-> <<0, 1, 2, 4>>]
MCBase == [L |-> <<0, 1, 2, 3>>, M |-> <<0, 1, 2, 4>>, D |-> <<0, 1, 3, 7>>]

\* One letter; all letters, three times; and in between.
MCLiterals ==
  {<<>>, <<1, 1, 1, 1>>, <<3, 3, 3, 1, 1, 1, 1, 1>>, <<8, 7, 6, 5, 4, 3, 2, 1>>,
   <<1, 1, 1, 5, 2, 2, 1, 8>>,
   <<1, 2, 3, 4, 5, 6, 7, 8, 8, 7, 6, 5, 4, 3, 2, 1, 1, 3, 5, 7, 2, 4, 6, 8>>}

T(l, m, d) == [L |-> l, M |-> m, D |-> d]

MCTriples ==
  {<<T(1, 0, 1)>>, <<T(4, 2, 2), T(0, 4, 0)>>,
   <<T(0, 0, 0), T(2, 3, 6), T(4, 11, 22), T(1, 1, 2)>>,
   <<T(4, 11, 22), T(2, 3, 6), T(1, 1, 2), T(0, 0, 0)>>,
   <<T(0, 7, 7), T(0, 7, 22), T(3, 7, 7), T(0, 1, 0), T(0, 11, 15)>>}

MCInputs == [lits : MCLiterals, lmds : MCTriples]
MCRooms == {71, 72, 76, 81, 83, 84, 92, 97, 112}
MCWords == [out : {4, 8}, in : {4, 8}]

By(fields, steps) == {[field |-> f, by |-> n] : f \in fields, n \in steps}
MCDamages ==
  By({"n_literals"}, {-4, 4, 8, 40}) \cup By({"n_matches"}, {-1, 1, 3, 12})
    \cup By({"literal_bits", "lmd_bits"}, {-1, 1})
    \cup By({"n_literal_payload_bytes", "n_lmd_payload_bytes"}, {-8, -1, 1, EndOfStream})
    \cup By({"literal_state0", "literal_state3", "m_state", "d_state"}, {1, 3})
    \cup By({"header_size"}, {-1})

MCJunk == {0}
=============================================================================

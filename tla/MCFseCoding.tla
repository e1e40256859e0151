---------------------------- MODULE MCFseCoding ----------------------------
(***************************************************************************)
(* Small alphabets, in which all that the code distinguishes happens:      *)
(* 8 states for 6 symbols, where rounding up rare symbols hands out more   *)
(* states than there are, and 32 states for 4, where frequencies need      *)
(* codes of all lengths.                                                   *)
(***************************************************************************)
EXTENDS FseCoding

MCHistograms ==
  [nstates : {8}, occ : [1 .. 6 -> {0, 1, 2, 9}]]
    \cup [nstates : {32}, occ : [1 .. 4 -> {0, 1, 3, 4, 8, 13, 60}]]

MCJunk == {0, -8}

\* Every value of L, and those around the ends of ranges for M and D.
MCProbes ==
  {[kind |-> "L", value |-> v] : v \in 0 .. 315}
    \cup UNION {{[kind |-> k, value |-> v] :
                   v \in UNION {Kinds[k].base[s] - 1 .. Kinds[k].base[s] + 2 :
                                  s \in DOMAIN Kinds[k].base} \cap 0 .. Kinds[k].max} :
                k \in {"M", "D"}}
    \cup {[kind |-> k, value |-> Kinds[k].max] : k \in {"M", "D"}}
=============================================================================

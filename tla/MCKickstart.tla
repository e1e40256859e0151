----------------------------- MODULE MCKickstart -----------------------------
(***************************************************************************)
(* Two destination words: enough for one to be evicted, one to be dirty    *)
(* when the cache is cleaned.                                              *)
(***************************************************************************)
EXTENDS Kickstart

ColdReset == {FALSE}
LeftEnabled == {TRUE}
CortexA9 == {FALSE}   \* an access made with C = 0 does not look the cache up
EitherCore == BOOLEAN
=============================================================================

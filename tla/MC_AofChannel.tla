--------------------------- MODULE MC_AofChannel ---------------------------
(* Instances of AofChannel for TLC.                                         *)
EXTENDS AofChannel

TwoChannels == 1..2
=============================================================================

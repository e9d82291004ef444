---------------------------- MODULE MC_Connection ----------------------------
(* Instances of Connection for TLC.                                          *)
EXTENDS Connection, TLC
=============================================================================

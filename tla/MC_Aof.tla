------------------------------- MODULE MC_Aof -------------------------------
(* Instances of Aof for TLC.                                                *)
EXTENDS Aof

Symmetry == Permutations(Leases)
=============================================================================

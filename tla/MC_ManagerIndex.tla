-------------------------- MODULE MC_ManagerIndex --------------------------
(* Instances of ManagerIndex for TLC.                                       *)
EXTENDS ManagerIndex, TLC

Symmetry == Permutations(Managers) \cup Permutations(Goroutines)
=============================================================================

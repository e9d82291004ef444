---------------------------- MODULE MC_LockQueue ----------------------------
(* Instances of LockQueue for TLC.                                           *)
EXTENDS LockQueue, TLC

Symmetry == Permutations(Locks)
=============================================================================

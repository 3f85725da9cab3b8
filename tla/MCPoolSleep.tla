---------------------------- MODULE MCPoolSleep -----------------------------
(* Instance of PoolSleep for TLC. *)
EXTENDS PoolSleep, TLC

Symmetry == Permutations(Externals)
=============================================================================

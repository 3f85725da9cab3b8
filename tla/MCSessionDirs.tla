--------------------------- MODULE MCSessionDirs ----------------------------
(* Instances of SessionDirs for TLC. *)
EXTENDS SessionDirs, TLC

SessionSymmetry == Permutations(Procs)
=============================================================================

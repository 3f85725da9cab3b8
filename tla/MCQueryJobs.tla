---------------------------- MODULE MCQueryJobs -----------------------------
(* Instances of QueryJobs for TLC. *)
EXTENDS QueryJobs

\* Every way in which two queries can ask for each other and for themselves.
AllGraphs == [Keys -> SUBSET Keys]

Symmetry == Permutations(Workers)
=============================================================================

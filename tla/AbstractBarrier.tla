--------------------------- MODULE AbstractBarrier --------------------------
(***************************************************************************)
(* What std::sync::Barrier promises (library/std/src/sync/barrier.rs): the *)
(* threads that call wait are held back until num_threads of them have     *)
(* arrived; then all of these are let go, one of them as the leader.       *)
(***************************************************************************)
EXTENDS Naturals, FiniteSets

CONSTANTS Threads, Sizes

VARIABLES
  num_threads,  \* fixed when the barrier is made
  phase         \* "out", "in" (held back), "released" or "leader"

avars == <<num_threads, phase>>

Arrived == {t \in Threads : phase[t] = "in"}

AInit == num_threads \in Sizes /\ phase = [t \in Threads |-> "out"]

Arrive(t) ==
  /\ phase[t] = "out"
  /\ Cardinality(Arrived) + 1 < num_threads
  /\ phase' = [phase EXCEPT ![t] = "in"]

\* (A barrier of no thread lets everybody pass, like one of a single thread.)
ArriveLast(t) ==
  /\ phase[t] = "out"
  /\ Cardinality(Arrived) + 1 >= num_threads
  /\ phase' = [u \in Threads |-> CASE u = t           -> "leader"
                                   [] u \in Arrived   -> "released"
                                   [] OTHER           -> phase[u]]

Leave(t) ==
  /\ phase[t] \in {"released", "leader"}
  /\ phase' = [phase EXCEPT ![t] = "out"]

ANext ==
  /\ \E t \in Threads : Arrive(t) \/ ArriveLast(t) \/ Leave(t)
  /\ UNCHANGED num_threads

\* Whoever is released leaves.
ASpec ==
  /\ AInit
  /\ [][ANext]_avars
  /\ \A t \in Threads : WF_avars(Leave(t) /\ UNCHANGED num_threads)
=============================================================================

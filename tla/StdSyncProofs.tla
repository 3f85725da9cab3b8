---------------------------- MODULE StdSyncProofs ---------------------------
(***************************************************************************)
(* std's small blocking primitives, for every set of threads: the futex    *)
(* Mutex excludes and loses no wake-up, the Barrier keeps the promise of   *)
(* AbstractBarrier, the parker's word is a token as TokenParker describes  *)
(* it, and Once runs one initialiser at a time and none after one that has *)
(* succeeded.                                                              *)
(***************************************************************************)
EXTENDS Barrier, FutexParker, FutexOnce, FiniteSetTheorems, TLAPS

-----------------------------------------------------------------------------
(* FutexMutex.  The two invariants are proved together with the typing,     *)
(* which ties the kernel's queue to the program counters.                   *)

USE DEF UNLOCKED, LOCKED, CONTENDED, Idle, Held, Locs, Goto

\* The inductive invariant.
MutexInv == TypeOK /\ MutualExclusion /\ NoLostWakeup

\* Mutex::new: an UNLOCKED word and nobody in lock satisfies the invariant.
LEMMA MutexInitInv == Init => MutexInv
  BY DEF Init, MutexInv, TypeOK, MutualExclusion, NoLostWakeup

\* Typing: each step keeps the word, the program counters and the queue of
\* blocked threads in their domains.
LEMMA MutexTypeStep == TypeOK /\ [Next]_vars => TypeOK'
  <1> SUFFICES ASSUME TypeOK, [Next]_vars PROVE TypeOK'
    OBVIOUS
  <1> USE DEF TypeOK
  <1>1. ASSUME NEW t \in Threads, Progress(t) PROVE TypeOK'
    <2>1. CASE lock(t) BY <2>1 DEF lock
    <2>2. CASE spin(t) BY <2>2 DEF spin
    <2>3. CASE respin(t) BY <2>3 DEF respin
    <2>4. CASE cas(t) BY <2>4 DEF cas
    <2>5. CASE swap(t) BY <2>5 DEF swap
    <2>6. CASE futex_wait(t) BY <2>6 DEF futex_wait
    <2>7. CASE syscall(t) BY <2>7 DEF syscall
    <2>8. CASE unlock(t) BY <2>8 DEF unlock
    <2>9. CASE wake(t) BY <2>9 DEF wake
    <2> QED BY <1>1, <2>1, <2>2, <2>3, <2>4, <2>5, <2>6, <2>7, <2>8, <2>9 DEF Progress
  <1>2. ASSUME NEW t \in Threads, try_lock(t) PROVE TypeOK'
    BY <1>2 DEF try_lock
  <1>3. ASSUME NEW t \in Threads, call_lock(t) PROVE TypeOK'
    BY <1>3 DEF call_lock
  <1>4. ASSUME NEW t \in Threads, interrupted(t) PROVE TypeOK'
    BY <1>4 DEF interrupted
  <1>5. CASE UNCHANGED vars
    BY <1>5 DEF vars
  <1> QED BY <1>1, <1>2, <1>3, <1>4, <1>5 DEF Next

\* Mutual exclusion: a thread comes to hold the mutex only by a step that
\* finds the word UNLOCKED, and only the holder's unlock makes it so again.
LEMMA ExclusionStep ==
  TypeOK /\ MutualExclusion /\ [Next]_vars => MutualExclusion'
  <1> SUFFICES ASSUME TypeOK, MutualExclusion, [Next]_vars
               PROVE  MutualExclusion'
    OBVIOUS
  <1> USE DEF TypeOK, MutualExclusion
  <1>1. ASSUME NEW t \in Threads, Progress(t) PROVE MutualExclusion'
    <2>1. CASE lock(t) BY <2>1 DEF lock
    <2>2. CASE spin(t) BY <2>2 DEF spin
    <2>3. CASE respin(t) BY <2>3 DEF respin
    <2>4. CASE cas(t) BY <2>4 DEF cas
    <2>5. CASE swap(t) BY <2>5 DEF swap
    <2>6. CASE futex_wait(t) BY <2>6 DEF futex_wait
    <2>7. CASE syscall(t) BY <2>7 DEF syscall
    <2>8. CASE unlock(t) BY <2>8 DEF unlock
    <2>9. CASE wake(t) BY <2>9 DEF wake
    <2> QED BY <1>1, <2>1, <2>2, <2>3, <2>4, <2>5, <2>6, <2>7, <2>8, <2>9 DEF Progress
  <1>2. ASSUME NEW t \in Threads, try_lock(t) PROVE MutualExclusion'
    BY <1>2 DEF try_lock
  <1>3. ASSUME NEW t \in Threads, call_lock(t) PROVE MutualExclusion'
    BY <1>3 DEF call_lock
  <1>4. ASSUME NEW t \in Threads, interrupted(t) PROVE MutualExclusion'
    BY <1>4 DEF interrupted
  <1>5. CASE UNCHANGED vars
    BY <1>5 DEF vars
  <1> QED BY <1>1, <1>2, <1>3, <1>4, <1>5 DEF Next

\* No lost wake-up: the obligation towards the sleepers passes from the
\* CONTENDED word to the unlocking thread, to the thread it wakes, and back
\* to the word by that thread's swap.
LEMMA WakeupStep ==
  TypeOK /\ NoLostWakeup /\ [Next]_vars => NoLostWakeup'
  <1> SUFFICES ASSUME TypeOK, NoLostWakeup, [Next]_vars
               PROVE  NoLostWakeup'
    OBVIOUS
  <1> USE DEF TypeOK, NoLostWakeup, Responsible
  <1>1. ASSUME NEW t \in Threads, Progress(t) PROVE NoLostWakeup'
    <2>1. CASE lock(t) BY <2>1 DEF lock
    <2>2. CASE spin(t) BY <2>2 DEF spin
    <2>3. CASE respin(t) BY <2>3 DEF respin
    <2>4. CASE cas(t) BY <2>4 DEF cas
    <2>5. CASE swap(t) BY <2>5 DEF swap
    <2>6. CASE futex_wait(t) BY <2>6 DEF futex_wait
    <2>7. CASE syscall(t) BY <2>7 DEF syscall
    <2>8. CASE unlock(t) BY <2>8 DEF unlock
    <2>9. CASE wake(t)
      <3>1. CASE asleep = {} BY <2>9, <3>1 DEF wake
      <3>2. CASE asleep # {}
        <4>1. PICK w \in asleep : pc' = [pc EXCEPT ![t] = Idle, ![w] = "respin"]
          BY <2>9, <3>2 DEF wake
        <4>2. w \in Threads /\ w # t /\ pc'[w] = "respin"
          BY <4>1, <2>9 DEF wake
        <4> QED BY <4>2
      <3> QED BY <3>1, <3>2
    <2> QED BY <1>1, <2>1, <2>2, <2>3, <2>4, <2>5, <2>6, <2>7, <2>8, <2>9 DEF Progress
  <1>2. ASSUME NEW t \in Threads, try_lock(t) PROVE NoLostWakeup'
    BY <1>2 DEF try_lock
  <1>3. ASSUME NEW t \in Threads, call_lock(t) PROVE NoLostWakeup'
    BY <1>3 DEF call_lock
  <1>4. ASSUME NEW t \in Threads, interrupted(t) PROVE NoLostWakeup'
    BY <1>4 DEF interrupted
  <1>5. CASE UNCHANGED vars
    BY <1>5 DEF vars
  <1> QED BY <1>1, <1>2, <1>3, <1>4, <1>5 DEF Next

\* The futex mutex keeps its inductive invariant for every set of threads.
THEOREM MutexCorrect == Spec => []MutexInv
  <1>1. MutexInv /\ [Next]_vars => MutexInv'
    BY MutexTypeStep, ExclusionStep, WakeupStep DEF MutexInv
  <1> QED BY <1>1, MutexInitInv, PTL DEF Spec

\* At most one thread is between lock and unlock, and the futex word is
\* UNLOCKED exactly when none is.
THEOREM MutexExclusive == Spec => []MutualExclusion
  <1>1. MutexInv => MutualExclusion BY DEF MutexInv
  <1> QED BY <1>1, MutexCorrect, PTL

\* No thread stays blocked in the kernel with nobody obliged to wake it.
THEOREM MutexNoLostWakeup == Spec => []NoLostWakeup
  <1>1. MutexInv => NoLostWakeup BY DEF MutexInv
  <1> QED BY <1>1, MutexCorrect, PTL

\* The word of the mutex keeps its three values, and the kernel's queue holds
\* exactly the threads that block.
THEOREM MutexTyped == Spec => []TypeOK
  <1>1. MutexInv => TypeOK BY DEF MutexInv
  <1> QED BY <1>1, MutexCorrect, PTL

HIDE DEF UNLOCKED, LOCKED, CONTENDED, Idle, Held, Locs, Goto

-----------------------------------------------------------------------------
(* Barrier.  It uses the mutex as FutexMutex says, so what holds there holds *)
(* of its critical sections; and each of its steps is one of AbstractBarrier *)
(* or leaves that alone.                                                     *)

\* Barrier and Condvar change the mutex only by the steps of Mutex.
LEMMA BarrierMutexStep == [BarrierNext]_BarrierVars => [Next]_vars
  <1> SUFFICES ASSUME [BarrierNext]_BarrierVars PROVE [Next]_vars
    OBVIOUS
  <1>1. CASE UNCHANGED BarrierVars
    BY <1>1 DEF BarrierVars
  <1>2. ASSUME NEW t \in Threads, BarrierRuns(t) PROVE [Next]_vars
    <2>1. CASE bar_arrive(t) BY <2>1 DEF bar_arrive
    <2>2. CASE bar_check(t) BY <2>2 DEF bar_check, cv_wait
    <2>3. CASE bar_notify(t) BY <2>3 DEF bar_notify, cv_notify_all, cv_notify
    <2>4. CASE bar_drop(t)
      <3>1. unlock(t) BY <2>4 DEF bar_drop
      <3> QED BY <3>1 DEF Next, Progress
    <2>5. CASE cv_runs(t)
      <3>1. CASE cv_unlock(t) \/ cv_relock(t)
        <4>1. unlock(t) \/ call_lock(t) BY <3>1 DEF cv_unlock, cv_relock
        <4> QED BY <4>1 DEF Next, Progress
      <3>2. CASE cv_futex_wait(t) \/ cv_syscall(t) \/ cv_wake(t)
        BY <3>2 DEF cv_futex_wait, cv_syscall, cv_wake
      <3>3. CASE mutex_runs(t)
        BY <3>3 DEF mutex_runs, Next, Progress
      <3> QED BY <2>5, <3>1, <3>2, <3>3 DEF cv_runs
    <2> QED BY <1>2, <2>1, <2>2, <2>3, <2>4, <2>5 DEF BarrierRuns
  <1>3. ASSUME NEW t \in Threads, bar_wait(t) PROVE [Next]_vars
    BY <1>3 DEF bar_wait, Next
  <1>4. ASSUME NEW t \in Threads, cv_disturbed(t) PROVE [Next]_vars
    BY <1>4 DEF cv_disturbed, cv_interrupted, Next
  <1> QED BY <1>1, <1>2, <1>3, <1>4 DEF BarrierNext

\* The critical sections of Barrier::wait, those inside Condvar::wait included,
\* exclude each other.
THEOREM BarrierExclusive == BarrierSpec => []MutualExclusion
  <1>1. BarrierSpec => Spec
    BY BarrierMutexStep, PTL DEF BarrierSpec, Spec, BarrierInit
  <1> QED BY <1>1, MutexExclusive

BarLocs == {"out", "enter", "while", "notify", "leader", "drop"}

\* The threads that are held back.
Inside == {t \in Threads : bar[t] = "while" /\ local_gen[t] = generation_id}

\* The inductive invariant: the mutex's state guards a count of exactly those
\* threads, and nobody is ahead of the generation.
BarrierInv ==
  /\ num_threads \in Sizes
  /\ generation_id \in Nat
  /\ bar \in [Threads -> BarLocs]
  /\ local_gen \in [Threads -> Nat]
  /\ \A t \in Threads : local_gen[t] <= generation_id
  /\ count = Cardinality(Inside)

\* A new barrier holds nobody back.
LEMMA BarrierInitInv == BarrierInit => BarrierInv
  <1> SUFFICES ASSUME BarrierInit PROVE BarrierInv
    OBVIOUS
  <1>1. Inside = {}
    BY DEF BarrierInit, bar_init, Inside
  <1> QED BY <1>1, FS_EmptySet DEF BarrierInit, bar_init, BarrierInv, BarLocs

\* The threads held back can be counted.
LEMMA InsideFinite == IsFiniteSet(Inside) /\ Cardinality(Inside) \in Nat
  <1>1. Inside \subseteq Threads
    BY DEF Inside
  <1> QED BY <1>1, FS_Subset, FS_CardinalityType, SizesAssumption

\* What each thread is to AbstractBarrier.
LEMMA Phases ==
  ASSUME BarrierInv
  PROVE  \A t \in Threads :
           /\ bar[t] \in {"out", "enter"} => Phase(t) = "out"
           /\ t \in Inside => Phase(t) = "in"
           /\ bar[t] = "while" /\ t \notin Inside => Phase(t) = "released"
           /\ bar[t] \in {"notify", "leader"} => Phase(t) = "leader"
           /\ bar[t] = "drop" => Phase(t) = "released"
           /\ Phase(t) = "in" => t \in Inside
  BY DEF BarrierInv, BarLocs, Phase, Inside

\* AbstractBarrier's arrived threads are the ones held back.
LEMMA ArrivedInside ==
  ASSUME BarrierInv
  PROVE  Abstract!Arrived = Inside
  BY Phases DEF Abstract!Arrived, Inside

\* AbstractBarrier counts as Barrier does.
LEMMA SameCardinality == \A S : Abstract!Cardinality(S) = Cardinality(S)
  BY DEF Abstract!Cardinality, Cardinality

\* What a step of wait does: it moves t, and only an arrival changes the count
\* or the generation.
Moved(t, from, to) ==
  /\ num_threads' = num_threads
  /\ bar[t] \in from /\ bar' = [bar EXCEPT ![t] = to] /\ to \in BarLocs
  /\ \A u \in Threads \ {t} : local_gen'[u] = local_gen[u]

\* The steps of the barrier by what they do to a thread.
LEMMA BarrierSteps ==
  ASSUME [BarrierNext]_BarrierVars, bar \in [Threads -> BarLocs]
  PROVE  \/ UNCHANGED barvars
         \/ \E t \in Threads :
              \/ Moved(t, {"out"}, "enter") /\ UNCHANGED <<count, generation_id, local_gen>>
              \/ bar_arrive(t)
              \/ /\ Moved(t, {"while"}, "while") /\ UNCHANGED <<count, generation_id, local_gen>>
              \/ /\ Moved(t, {"while"}, "drop") /\ UNCHANGED <<count, generation_id, local_gen>>
                 /\ local_gen[t] # generation_id
              \/ Moved(t, {"notify"}, "leader") /\ UNCHANGED <<count, generation_id, local_gen>>
              \/ /\ Moved(t, {"drop", "leader"}, "out") /\ UNCHANGED <<count, generation_id>>
                 /\ local_gen' = [local_gen EXCEPT ![t] = 0]
  <1>1. CASE UNCHANGED BarrierVars
    BY <1>1 DEF BarrierVars
  <1>2. ASSUME NEW t \in Threads, BarrierRuns(t) \/ bar_wait(t) \/ (cv_disturbed(t) /\ UNCHANGED barvars)
        PROVE  \/ UNCHANGED barvars
               \/ Moved(t, {"out"}, "enter") /\ UNCHANGED <<count, generation_id, local_gen>>
               \/ bar_arrive(t)
               \/ Moved(t, {"while"}, "while") /\ UNCHANGED <<count, generation_id, local_gen>>
               \/ /\ Moved(t, {"while"}, "drop") /\ UNCHANGED <<count, generation_id, local_gen>>
                  /\ local_gen[t] # generation_id
               \/ Moved(t, {"notify"}, "leader") /\ UNCHANGED <<count, generation_id, local_gen>>
               \/ /\ Moved(t, {"drop", "leader"}, "out") /\ UNCHANGED <<count, generation_id>>
                  /\ local_gen' = [local_gen EXCEPT ![t] = 0]
    <2> USE DEF Moved, BarGoto, BarLocs
    <2>1. CASE bar_wait(t) BY <2>1 DEF bar_wait
    <2>2. CASE bar_check(t) BY <2>2 DEF bar_check
    <2>3. CASE bar_notify(t) BY <2>3 DEF bar_notify
    <2>4. CASE bar_drop(t) BY <2>4 DEF bar_drop
    <2> QED BY <1>2, <2>1, <2>2, <2>3, <2>4 DEF BarrierRuns
  <1> QED BY <1>1, <1>2 DEF BarrierNext

\* The phases of the threads, as AbstractBarrier sees them.
PhaseMap == [t \in Threads |-> Phase(t)]

\* Every step keeps the invariant, and is a step of AbstractBarrier or leaves
\* it alone.
LEMMA BarrierStep ==
  ASSUME BarrierInv, [BarrierNext]_BarrierVars
  PROVE  BarrierInv' /\ [Abstract!ANext]_(Abstract!avars)
  <1>0. /\ bar \in [Threads -> BarLocs] /\ local_gen \in [Threads -> Nat]
        /\ generation_id \in Nat /\ count = Cardinality(Inside) /\ count \in Nat
        /\ num_threads \in Sizes /\ num_threads \in Nat
        /\ \A u \in Threads : local_gen[u] <= generation_id
    BY InsideFinite, SizesAssumption DEF BarrierInv
  <1>1. CASE UNCHANGED barvars
    <2>1. Inside' = Inside /\ PhaseMap' = PhaseMap
      BY <1>1 DEF barvars, Inside, PhaseMap, Phase
    <2> QED BY <1>1, <2>1 DEF barvars, BarrierInv, Abstract!avars, PhaseMap
  <1>2. ASSUME NEW t \in Threads, Inside' = Inside, BarrierInv',
               \A u \in Threads : Phase(u)' = Phase(u), num_threads' = num_threads
        PROVE  UNCHANGED Abstract!avars
    BY <1>2 DEF Abstract!avars
  <1>3. ASSUME NEW t \in Threads,
               \/ Moved(t, {"out"}, "enter")
               \/ Moved(t, {"while"}, "while")
               \/ Moved(t, {"while"}, "drop") /\ local_gen[t] # generation_id
               \/ Moved(t, {"notify"}, "leader"),
               UNCHANGED <<count, generation_id, local_gen>>
        PROVE  BarrierInv' /\ UNCHANGED Abstract!avars
    <2>1. Inside' = Inside
      BY <1>0, <1>3 DEF Inside, Moved
    <2>2. BarrierInv'
      BY <1>0, <1>3, <2>1 DEF BarrierInv, Moved
    <2>3. \A u \in Threads : Phase(u)' = Phase(u)
      BY <1>0, <1>3 DEF Phase, Moved, BarLocs
    <2> QED BY <1>2, <1>3, <2>1, <2>2, <2>3 DEF Moved
  <1>4. ASSUME NEW t \in Threads,
               Moved(t, {"drop", "leader"}, "out"), UNCHANGED <<count, generation_id>>,
               local_gen' = [local_gen EXCEPT ![t] = 0]
        PROVE  BarrierInv' /\ Abstract!ANext
    <2>1. Inside' = Inside
      BY <1>0, <1>4 DEF Inside, Moved
    <2>2. BarrierInv'
      BY <1>0, <1>4, <2>1 DEF BarrierInv, Moved
    <2>3. Phase(t) \in {"released", "leader"} /\ Phase(t)' = "out"
      BY <1>0, <1>4 DEF Phase, Moved, BarLocs
    <2>4. \A u \in Threads \ {t} : Phase(u)' = Phase(u)
      BY <1>0, <1>4 DEF Phase, Moved
    <2>5. PhaseMap' = [PhaseMap EXCEPT ![t] = "out"] /\ PhaseMap[t] = Phase(t)
      BY <2>3, <2>4 DEF PhaseMap
    <2>6. Abstract!Leave(t) /\ num_threads' = num_threads
      BY <1>4, <2>3, <2>5 DEF Abstract!Leave, PhaseMap, Moved
    <2> QED BY <2>2, <2>6 DEF Abstract!ANext
  <1>5. ASSUME NEW t \in Threads, bar_arrive(t)
        PROVE  BarrierInv' /\ Abstract!ANext
    <2>1. /\ bar[t] = "enter" /\ num_threads' = num_threads
          /\ local_gen' = [local_gen EXCEPT ![t] = generation_id]
      BY <1>5 DEF bar_arrive, BarGoto
    <2>2. Phase(t) = "out" /\ t \notin Inside /\ PhaseMap[t] = "out"
      BY <2>1 DEF Phase, Inside, PhaseMap
    <2>3. Abstract!Arrived = Inside
      BY ArrivedInside
    <2>4. CASE /\ count + 1 < num_threads /\ bar' = [bar EXCEPT ![t] = "while"]
               /\ count' = count + 1 /\ generation_id' = generation_id
      <3>1. Inside' = Inside \cup {t}
        BY <1>0, <2>1, <2>4 DEF Inside
      <3>2. Cardinality(Inside') = count + 1
        BY <1>0, <2>2, <3>1, InsideFinite, FS_AddElement
      <3>3. BarrierInv'
        BY <1>0, <2>1, <2>4, <3>2 DEF BarrierInv, BarLocs
      <3>4. Phase(t)' = "in" /\ \A u \in Threads \ {t} : Phase(u)' = Phase(u)
        BY <1>0, <2>1, <2>4 DEF Phase
      <3>5. PhaseMap' = [PhaseMap EXCEPT ![t] = "in"]
        BY <3>4 DEF PhaseMap
      <3>6. Abstract!Arrive(t)
        BY <1>0, <2>2, <2>3, <2>4, <3>5, SameCardinality DEF Abstract!Arrive, PhaseMap
      <3> QED BY <2>1, <3>3, <3>6 DEF Abstract!ANext
    <2>5. CASE /\ count + 1 >= num_threads /\ bar' = [bar EXCEPT ![t] = "notify"]
               /\ count' = 0 /\ generation_id' = generation_id + 1
      <3>1. \A u \in Threads : local_gen'[u] # generation_id' /\ local_gen'[u] <= generation_id'
        BY <1>0, <2>1, <2>5
      <3>2. Inside' = {}
        BY <3>1 DEF Inside
      <3>3. BarrierInv'
        BY <1>0, <2>1, <2>5, <3>1, <3>2, FS_EmptySet DEF BarrierInv, BarLocs
      <3>4. Phase(t)' = "leader"
        BY <1>0, <2>1, <2>5 DEF Phase
      <3>5. ASSUME NEW u \in Threads \ {t}
            PROVE  Phase(u)' = IF u \in Inside THEN "released" ELSE Phase(u)
        <4>1. bar'[u] = bar[u] /\ local_gen'[u] = local_gen[u]
          BY <1>0, <2>1, <2>5
        <4> QED BY <3>1, <4>1 DEF Phase, Inside
      <3>6. PhaseMap' = [u \in Threads |-> CASE u = t        -> "leader"
                                             [] u \in Inside -> "released"
                                             [] OTHER        -> PhaseMap[u]]
        BY <2>2, <3>4, <3>5 DEF PhaseMap
      <3>7. Abstract!ArriveLast(t)
        BY <1>0, <2>2, <2>3, <2>5, <3>6, SameCardinality DEF Abstract!ArriveLast, PhaseMap
      <3> QED BY <2>1, <3>3, <3>7 DEF Abstract!ANext
    <2> QED BY <1>5, <2>4, <2>5 DEF bar_arrive, BarGoto
  <1> QED BY <1>0, <1>1, <1>3, <1>4, <1>5, BarrierSteps

\* Barrier::wait does what AbstractBarrier allows, for every number of threads,
\* size and number of generations: nobody passes before enough have arrived,
\* all of these are let go, and each generation has one leader.
THEOREM BarrierHoldsBack ==
  BarrierSpec => Abstract!AInit /\ [][Abstract!ANext]_(Abstract!avars)
  <1>1. BarrierInit => Abstract!AInit
    BY DEF BarrierInit, bar_init, Abstract!AInit, Phase
  <1>2. BarrierInv /\ [BarrierNext]_BarrierVars => BarrierInv' /\ [Abstract!ANext]_(Abstract!avars)
    BY BarrierStep
  <1> QED BY <1>1, <1>2, BarrierInitInv, PTL DEF BarrierSpec

-----------------------------------------------------------------------------
(* FutexParker, for every size of the word. *)

\* The inductive invariant.
ParkerInv == ParkerTypeOK /\ NoLostUnpark

\* fetch_sub(1) takes NOTIFIED to EMPTY and wraps around from EMPTY to PARKED:
\* the three states differ, and the word is large enough.
LEMMA FetchSub ==
  /\ EMPTY # NOTIFIED /\ NOTIFIED # PARKED /\ EMPTY # PARKED
  /\ (EMPTY + StateSize - 1) % StateSize = PARKED
  /\ (NOTIFIED + StateSize - 1) % StateSize = EMPTY
  <1> USE StateSizeAssumption DEF EMPTY, NOTIFIED, PARKED
  <1>1. EMPTY # NOTIFIED /\ NOTIFIED # PARKED /\ EMPTY # PARKED
    OBVIOUS
  <1>2. \A a \in Nat : a < StateSize => a % StateSize = a
    OBVIOUS
  <1>3. (EMPTY + StateSize - 1) % StateSize = PARKED
    <2>1. EMPTY + StateSize - 1 = PARKED /\ PARKED \in Nat /\ PARKED < StateSize
      OBVIOUS
    <2> QED BY <1>2, <2>1
  <1>4. (NOTIFIED + StateSize - 1) % StateSize = EMPTY
    <2>1. NOTIFIED + StateSize - 1 = StateSize
      OBVIOUS
    <2>2. StateSize % StateSize = 0
      OBVIOUS
    <2> QED BY <2>1, <2>2
  <1> QED BY <1>1, <1>3, <1>4

\* Parker::new: an EMPTY word and nobody in park satisfies the invariant.
LEMMA ParkerInitInv == ParkerInit => ParkerInv
  BY FetchSub DEF ParkerInit, ParkerInv, ParkerTypeOK, NoLostUnpark, OwnLocs

\* A step keeps the word in its three states and PARKED only while the owner
\* waits.
LEMMA ParkerTypeStep == ParkerTypeOK /\ [ParkerNext]_ParkerVars => ParkerTypeOK'
  <1> SUFFICES ASSUME ParkerTypeOK, [ParkerNext]_ParkerVars PROVE ParkerTypeOK'
    OBVIOUS
  <1> USE FetchSub DEF ParkerTypeOK, OwnLocs, OwnGoto
  <1>1. CASE park_call BY <1>1 DEF park_call
  <1>2. CASE park_fetch_sub BY <1>2 DEF park_fetch_sub
  <1>3. CASE park_futex_wait BY <1>3 DEF park_futex_wait
  <1>4. CASE park_syscall BY <1>4 DEF park_syscall
  <1>5. CASE park_timed_out BY <1>5 DEF park_timed_out
  <1>6. CASE park_check BY <1>6 DEF park_check
  <1>7. CASE park_timeout_check BY <1>7 DEF park_timeout_check
  <1>8. CASE park_interrupted BY <1>8 DEF park_interrupted
  <1>9. ASSUME NEW u \in Unparkers, unpark(u) PROVE ParkerTypeOK'
    BY <1>9 DEF unpark
  <1>10. ASSUME NEW u \in Unparkers, unpark_wake(u) PROVE ParkerTypeOK'
    BY <1>10 DEF unpark_wake
  <1>11. CASE UNCHANGED ParkerVars BY <1>11 DEF ParkerVars
  <1> QED BY <1>1, <1>2, <1>3, <1>4, <1>5, <1>6, <1>7, <1>8, <1>9, <1>10, <1>11
          DEF ParkerNext, ParkerRuns

\* The owner blocks only while the word is PARKED; the unpark that changes it
\* still has to make its system call, which ends the wait.
LEMMA ParkerUnparkStep ==
  ParkerTypeOK /\ NoLostUnpark /\ [ParkerNext]_ParkerVars => NoLostUnpark'
  <1> SUFFICES ASSUME ParkerTypeOK, NoLostUnpark, [ParkerNext]_ParkerVars
               PROVE  NoLostUnpark'
    OBVIOUS
  <1> USE FetchSub DEF ParkerTypeOK, NoLostUnpark, OwnLocs, OwnGoto
  <1>1. CASE park_call BY <1>1 DEF park_call
  <1>2. CASE park_fetch_sub BY <1>2 DEF park_fetch_sub
  <1>3. CASE park_futex_wait BY <1>3 DEF park_futex_wait
  <1>4. CASE park_syscall BY <1>4 DEF park_syscall
  <1>5. CASE park_timed_out BY <1>5 DEF park_timed_out
  <1>6. CASE park_check BY <1>6 DEF park_check
  <1>7. CASE park_timeout_check BY <1>7 DEF park_timeout_check
  <1>8. CASE park_interrupted BY <1>8 DEF park_interrupted
  <1>9. ASSUME NEW u \in Unparkers, unpark(u) PROVE NoLostUnpark'
    BY <1>9 DEF unpark
  <1>10. ASSUME NEW u \in Unparkers, unpark_wake(u) PROVE NoLostUnpark'
    BY <1>10 DEF unpark_wake
  <1>11. CASE UNCHANGED ParkerVars BY <1>11 DEF ParkerVars
  <1> QED BY <1>1, <1>2, <1>3, <1>4, <1>5, <1>6, <1>7, <1>8, <1>9, <1>10, <1>11
          DEF ParkerNext, ParkerRuns

\* The invariant holds for every set of unparking threads.
LEMMA ParkerInvariant == ParkerSpec => []ParkerInv
  <1>1. ParkerInv /\ [ParkerNext]_ParkerVars => ParkerInv'
    BY ParkerTypeStep, ParkerUnparkStep DEF ParkerInv
  <1> QED BY ParkerInitInv, <1>1, PTL DEF ParkerSpec

\* The word of the parker is EMPTY, NOTIFIED or PARKED, and PARKED only while
\* the owner waits: the comment in park that the subtraction cannot leave the
\* three states is right, however timeouts and unparks are interleaved.
THEOREM ParkerTyped == ParkerSpec => []ParkerTypeOK
  BY ParkerInvariant, PTL DEF ParkerInv

\* An owner that is blocked in the kernel will be woken by an unpark that is
\* under way, or its word says PARKED, so that the next unpark will.
THEOREM ParkerLosesNoUnpark == ParkerSpec => []NoLostUnpark
  BY ParkerInvariant, PTL DEF ParkerInv

\* A step of the parker is a step of the token, or changes neither the token
\* nor the call the owner is in.
LEMMA ParkerRefinementStep ==
  ParkerTypeOK /\ [ParkerNext]_ParkerVars => [Token!TNext]_(Token!tvars)
  <1> SUFFICES ASSUME ParkerTypeOK, [ParkerNext]_ParkerVars
               PROVE  Token!TNext \/ UNCHANGED Token!tvars
    OBVIOUS
  <1> USE FetchSub DEF ParkerTypeOK, OwnLocs, OwnGoto, Token!TNext, Token!tvars,
          Token!Call, Token!Take, Token!GiveUp, Token!Unpark
  <1>1. CASE park_call BY <1>1 DEF park_call
  <1>2. CASE park_fetch_sub BY <1>2 DEF park_fetch_sub
  <1>3. CASE park_futex_wait BY <1>3 DEF park_futex_wait
  <1>4. CASE park_syscall BY <1>4 DEF park_syscall
  <1>5. CASE park_timed_out BY <1>5 DEF park_timed_out
  <1>6. CASE park_check BY <1>6 DEF park_check
  <1>7. CASE park_timeout_check BY <1>7 DEF park_timeout_check
  <1>8. CASE park_interrupted BY <1>8 DEF park_interrupted
  <1>9. ASSUME NEW u \in Unparkers, unpark(u) PROVE Token!TNext \/ UNCHANGED Token!tvars
    BY <1>9 DEF unpark
  <1>10. ASSUME NEW u \in Unparkers, unpark_wake(u) PROVE Token!TNext \/ UNCHANGED Token!tvars
    BY <1>10 DEF unpark_wake
  <1>11. CASE UNCHANGED ParkerVars BY <1>11 DEF ParkerVars
  <1> QED BY <1>1, <1>2, <1>3, <1>4, <1>5, <1>6, <1>7, <1>8, <1>9, <1>10, <1>11
          DEF ParkerNext, ParkerRuns

\* Whatever park, park_timeout and unpark do is allowed by TokenParker: the
\* token is neither lost nor spent twice, in every run of any number of
\* threads.
THEOREM ParkerKeepsToken == ParkerSpec => Token!TInit /\ [][Token!TNext]_(Token!tvars)
  <1>1. ParkerInit => Token!TInit
    BY FetchSub DEF ParkerInit, Token!TInit
  <1> QED BY <1>1, ParkerTyped, ParkerRefinementStep, PTL DEF ParkerSpec

-----------------------------------------------------------------------------
(* FutexOnce. *)

\* Whoever is in futex_wait or asleep has seen, or set, the QUEUED bit: the
\* strengthening that makes QueuedRemembered inductive.
WaitsForQueued ==
  \A t \in OnceThreads :
    opc[t] \in {"futex_wait", "syscall", "blocked"} => IsQueued(local[t])

\* The inductive invariant.
OnceInv == OnceTypeOK /\ RunsAlone /\ QueuedRemembered /\ WaitsForQueued

\* state_and_queued is a state in the low two bits and QUEUED above them.
LEMMA WordParts ==
  \A v \in 0 .. 2 * QUEUED - 1 :
    /\ ~IsQueued(v) => State(v) = v
    /\ IsQueued(v) => State(v) = v - QUEUED
    /\ State(v) \in {COMPLETE, RUNNING, POISONED, INCOMPLETE}
    /\ v - State(v) \in {0, QUEUED}
  BY DEF State, IsQueued, QUEUED, COMPLETE, RUNNING, POISONED, INCOMPLETE

\* The words that OnceTypeOK allows.
OnceWords == {0, 1, 2, 3, 5, 6, 7}

\* A word is one of the seven, and has the parts of its number.
LEMMA WordsTyped ==
  /\ {COMPLETE} \cup {s + q : s \in {RUNNING, POISONED, INCOMPLETE}, q \in {0, QUEUED}} = OnceWords
  /\ OnceWords \subseteq 0 .. 2 * QUEUED - 1
  BY DEF OnceWords, QUEUED, COMPLETE, RUNNING, POISONED, INCOMPLETE

\* Once::new is in the invariant.
LEMMA OnceInitInv == OnceInit => OnceInv
  <1> SUFFICES ASSUME OnceInit PROVE OnceInv
    OBVIOUS
  <1> USE DEF OnceInit
  <1>1. once \in OnceWords /\ State(once) = INCOMPLETE
    BY WordsTyped, WordParts DEF OnceWords, INCOMPLETE, IsQueued, QUEUED
  <1>2. OnceTypeOK
    BY <1>1, WordsTyped, OnceAssumption DEF OnceTypeOK, OnceLocs, OnceKinds, INCOMPLETE, QUEUED
  <1>3. RunsAlone
    BY <1>1 DEF RunsAlone, INCOMPLETE, RUNNING
  <1> QED BY <1>2, <1>3 DEF OnceInv, QueuedRemembered, WaitsForQueued

\* What a typed state gives the steps: the word and every copy of it are small
\* numbers.
LEMMA Typed ==
  OnceTypeOK =>
    /\ once \in OnceWords /\ once \in 0 .. 7
    /\ \A t \in OnceThreads : local[t] \in 0 .. 7
  BY WordsTyped DEF OnceTypeOK, OnceWords, QUEUED

\* What a compare_exchange of call stores: RUNNING, with the queue bit of the
\* word it replaces.
LEMMA StartStores ==
  ASSUME OnceTypeOK, NEW t \in OnceThreads, once_start(t), opc'[t] # "match"
  PROVE  /\ opc[t] = "match" /\ opc' = [opc EXCEPT ![t] = "f"]
         /\ State(once) \in {INCOMPLETE, POISONED} /\ State(once') = RUNNING
         /\ once' \in OnceWords /\ IsQueued(once') = IsQueued(once)
  <1>1. /\ once = local[t] /\ once' = RUNNING + (once - State(once))
        /\ opc[t] = "match" /\ opc' = [opc EXCEPT ![t] = "f"]
    BY DEF once_start, compare_exchange, OnceGoto, OnceTypeOK
  <1>2. State(once) \in {INCOMPLETE, POISONED}
    BY <1>1 DEF once_start
  <1>3. once \in {2, 3, 6, 7}
    BY <1>2, Typed, WordParts DEF OnceWords, IsQueued, QUEUED, INCOMPLETE, POISONED
  <1>4. once' = IF IsQueued(once) THEN 5 ELSE 1
    BY <1>1, <1>3, WordParts DEF IsQueued, QUEUED, RUNNING
  <1>5. State(5) = 1 /\ State(1) = 1
    BY WordParts DEF IsQueued, QUEUED
  <1> QED BY <1>1, <1>2, <1>4, <1>5 DEF OnceWords, IsQueued, QUEUED, RUNNING

\* What a compare_exchange of the last arms stores: the word with QUEUED.
LEMMA EnqueueStores ==
  ASSUME OnceTypeOK, NEW t \in OnceThreads, once_enqueue(t)
  PROVE  /\ opc[t] = "match"
         /\ opc' = [opc EXCEPT ![t] = "match"] \/ opc' = [opc EXCEPT ![t] = "futex_wait"]
         /\ once' \in OnceWords /\ State(once') = State(once)
         /\ once' # once => State(once) # COMPLETE
         /\ IsQueued(once) => IsQueued(once')
         /\ local' = [local EXCEPT ![t] = local'[t]] /\ local'[t] \in 0 .. 7
         /\ opc'[t] = "futex_wait" => IsQueued(local'[t])
  <1>1. once \in OnceWords /\ once \in 0 .. 7 /\ local[t] \in 0 .. 7
    BY Typed
  <1>2. CASE IsQueued(local[t])
    BY <1>1, <1>2 DEF once_enqueue, OnceGoto, OnceTypeOK
  <1>3. CASE ~IsQueued(local[t])
    <2>1. CASE once = local[t] /\ once' = local[t] + QUEUED /\ OnceGoto(t, "match", "futex_wait")
      <3>1. State(once) \in {RUNNING, INCOMPLETE, POISONED} /\ State(once) = once
        BY <1>1, <1>3, <2>1, WordParts DEF once_enqueue, QUEUED
      <3>2. once' \in {5, 6, 7} /\ State(once') = once
        BY <3>1, <2>1, WordParts DEF QUEUED, IsQueued, RUNNING, INCOMPLETE, POISONED
      <3>3. local' = [local EXCEPT ![t] = once']
        BY <1>3, <2>1 DEF once_enqueue, OnceGoto, OnceTypeOK
      <3> QED BY <1>3, <2>1, <3>1, <3>2, <3>3
              DEF OnceGoto, OnceTypeOK, OnceWords, IsQueued, QUEUED, RUNNING, INCOMPLETE,
                  POISONED, COMPLETE
    <2>2. CASE OnceGoto(t, "match", "match") /\ once' = once
      BY <1>1, <1>3, <2>2 DEF once_enqueue, OnceGoto, OnceTypeOK
    <2> QED BY <1>3, <2>1, <2>2 DEF once_enqueue, compare_exchange
  <1> QED BY <1>2, <1>3

\* Typing is preserved by every step of Once.
LEMMA OnceTypeStep == OnceTypeOK /\ [OnceNext]_OnceVars => OnceTypeOK'
  <1> SUFFICES ASSUME OnceTypeOK, [OnceNext]_OnceVars PROVE OnceTypeOK'
    OBVIOUS
  <1> DEFINE T == /\ once \in OnceWords
                  /\ opc \in [OnceThreads -> OnceLocs]
                  /\ kind \in [OnceThreads -> OnceKinds]
                  /\ local \in [OnceThreads -> 0 .. 7]
                  /\ ocalls \in 0 .. MaxCalls
                  /\ queue = {t \in OnceThreads : opc[t] = "blocked"}
  <1>1. T
    BY WordsTyped DEF OnceTypeOK, QUEUED
  <1>2. SUFFICES T'
    BY WordsTyped DEF OnceTypeOK, QUEUED
  <1>3. CASE UNCHANGED OnceVars
    BY <1>1, <1>3 DEF OnceVars
  <1>4. ASSUME NEW t \in OnceThreads, OnceRuns(t) \/ once_enter(t) \/ once_interrupted(t)
        PROVE T'
    <2> USE <1>1 DEF OnceLocs, OnceKinds, OnceGoto
    <2>1. CASE once_enter(t) BY <2>1, OnceAssumption DEF once_enter
    <2>2. CASE once_load(t) BY <2>2 DEF once_load, OnceWords
    <2>3. CASE once_return(t) BY <2>3 DEF once_return, forget, INCOMPLETE
    <2>4. CASE once_start(t)
      <3>1. CASE opc'[t] = "match"
        BY <2>4, <3>1 DEF once_start, compare_exchange, OnceWords
      <3>2. CASE opc'[t] # "match"
        <4>1. once' \in OnceWords /\ opc[t] = "match" /\ opc' = [opc EXCEPT ![t] = "f"]
          BY <2>4, <3>2, StartStores
        <4>2. local' = [local EXCEPT ![t] = once] /\ UNCHANGED <<kind, ocalls, queue>>
          BY <2>4 DEF once_start
        <4> QED BY <4>1, <4>2 DEF OnceWords
      <3> QED BY <3>1, <3>2
    <2>5. CASE once_enqueue(t)
      <3>1. UNCHANGED <<kind, ocalls, queue>>
        BY <2>5 DEF once_enqueue
      <3> QED BY <2>5, <3>1, EnqueueStores
    <2>6. CASE once_futex_wait(t) BY <2>6 DEF once_futex_wait
    <2>7. CASE once_syscall(t) BY <2>7 DEF once_syscall
    <2>8. CASE once_interrupted(t) BY <2>8 DEF once_interrupted
    <2>9. CASE once_finish(t)
      BY <2>9 DEF once_finish, forget, INCOMPLETE, COMPLETE, POISONED, OnceWords
    <2>10. CASE once_wake_all(t) BY <2>10 DEF once_wake_all
    <2> QED BY <1>4, <2>1, <2>2, <2>3, <2>4, <2>5, <2>6, <2>7, <2>8, <2>9, <2>10 DEF OnceRuns
  <1> QED BY <1>3, <1>4 DEF OnceNext

\* Nobody but the running thread leaves RUNNING, and nobody starts beside it.
LEMMA RunsAloneStep == OnceTypeOK /\ RunsAlone /\ [OnceNext]_OnceVars => RunsAlone'
  <1> SUFFICES ASSUME OnceTypeOK, RunsAlone, [OnceNext]_OnceVars PROVE RunsAlone'
    OBVIOUS
  <1> USE DEF RunsAlone
  <1>1. opc \in [OnceThreads -> OnceLocs]
    BY DEF OnceTypeOK
  <1>2. CASE UNCHANGED OnceVars
    BY <1>2 DEF OnceVars
  <1>3. ASSUME NEW t \in OnceThreads, OnceRuns(t) \/ once_enter(t) \/ once_interrupted(t)
        PROVE RunsAlone'
    <2>1. \* a step that changes neither the state nor who runs
          ASSUME State(once') = State(once),
                 \A u \in OnceThreads : opc'[u] = "f" <=> opc[u] = "f"
          PROVE  RunsAlone'
      BY <2>1
    <2>2. CASE once_enter(t) BY <1>1, <2>1, <2>2 DEF once_enter, OnceGoto
    <2>3. CASE once_load(t) BY <1>1, <2>1, <2>3 DEF once_load, OnceGoto
    <2>4. CASE once_return(t) BY <1>1, <2>1, <2>4 DEF once_return, OnceGoto
    <2>5. CASE once_start(t)
      <3>1. CASE opc'[t] = "match"
        BY <1>1, <2>1, <2>5, <3>1 DEF once_start, compare_exchange, OnceGoto
      <3>2. CASE opc'[t] # "match"
        <4>1. State(once) # RUNNING
          BY <2>5, <3>2, StartStores DEF INCOMPLETE, POISONED, RUNNING
        <4>2. State(once') = RUNNING /\ opc' = [opc EXCEPT ![t] = "f"]
          BY <2>5, <3>2, StartStores
        <4> QED BY <1>1, <4>1, <4>2
      <3> QED BY <3>1, <3>2
    <2>6. CASE once_enqueue(t)
      BY <1>1, <2>1, <2>6, EnqueueStores
    <2>7. CASE once_futex_wait(t) BY <1>1, <2>1, <2>7 DEF once_futex_wait, OnceGoto
    <2>8. CASE once_syscall(t) BY <1>1, <2>1, <2>8 DEF once_syscall, OnceGoto
    <2>9. CASE once_interrupted(t) BY <1>1, <2>1, <2>9 DEF once_interrupted, OnceGoto
    <2>10. CASE once_finish(t)
      <3>1. once' \in {0, 2}
        BY <2>10 DEF once_finish, COMPLETE, POISONED
      <3>2. State(once') # RUNNING
        BY <3>1, WordParts DEF IsQueued, QUEUED, RUNNING
      <3>3. \A u \in OnceThreads : opc'[u] # "f"
        BY <1>1, <2>10 DEF once_finish, OnceGoto
      <3> QED BY <3>2, <3>3
    <2>11. CASE once_wake_all(t)
      <3>1. \A u \in OnceThreads : opc'[u] = "f" <=> opc[u] = "f"
        BY <2>11 DEF once_wake_all, OnceTypeOK
      <3> QED BY <2>1, <2>11, <3>1 DEF once_wake_all
    <2> QED BY <1>3, <2>2, <2>3, <2>4, <2>5, <2>6, <2>7, <2>8, <2>9, <2>10, <2>11 DEF OnceRuns
  <1> QED BY <1>2, <1>3 DEF OnceNext

\* The bit is set before anyone sleeps on it, and lost only by the thread that
\* then wakes everybody.
LEMMA QueuedStep ==
  OnceTypeOK /\ QueuedRemembered /\ WaitsForQueued /\ [OnceNext]_OnceVars
    => QueuedRemembered' /\ WaitsForQueued'
  <1> SUFFICES ASSUME OnceTypeOK, QueuedRemembered, WaitsForQueued, [OnceNext]_OnceVars
               PROVE  QueuedRemembered' /\ WaitsForQueued'
    OBVIOUS
  <1> USE DEF QueuedRemembered, WaitsForQueued
  <1>1. /\ opc \in [OnceThreads -> OnceLocs]
        /\ local \in [OnceThreads -> 0 .. 2 * QUEUED - 1]
        /\ queue = {t \in OnceThreads : opc[t] = "blocked"}
    BY DEF OnceTypeOK
  <1>2. CASE UNCHANGED OnceVars
    BY <1>2 DEF OnceVars
  <1>3. ASSUME NEW t \in OnceThreads, OnceRuns(t) \/ once_enter(t) \/ once_interrupted(t)
        PROVE QueuedRemembered' /\ WaitsForQueued'
    <2> USE <1>1
    <2>1. CASE once_enter(t) BY <2>1 DEF once_enter, OnceGoto
    <2>2. CASE once_load(t) BY <2>2 DEF once_load, OnceGoto
    <2>3. CASE once_return(t) BY <2>3 DEF once_return, forget, OnceGoto
    <2>4. CASE once_start(t)
      <3>1. local' = [local EXCEPT ![t] = once] /\ queue' = queue
        BY <2>4 DEF once_start
      <3>2. CASE opc'[t] = "match"
        BY <2>4, <3>1, <3>2 DEF once_start, compare_exchange, OnceGoto
      <3>3. CASE opc'[t] # "match"
        <4>1. /\ opc[t] = "match" /\ opc' = [opc EXCEPT ![t] = "f"]
              /\ IsQueued(once') = IsQueued(once)
          BY <2>4, <3>3, StartStores
        <4> QED BY <3>1, <4>1
      <3> QED BY <3>2, <3>3
    <2>5. CASE once_enqueue(t)
      <3>1. queue' = queue
        BY <2>5 DEF once_enqueue
      <3>2. /\ opc[t] = "match"
            /\ opc' = [opc EXCEPT ![t] = "match"] \/ opc' = [opc EXCEPT ![t] = "futex_wait"]
            /\ IsQueued(once) => IsQueued(once')
            /\ local' = [local EXCEPT ![t] = local'[t]]
            /\ opc'[t] = "futex_wait" => IsQueued(local'[t])
        BY <2>5, EnqueueStores
      <3>3. \A u \in OnceThreads \ {t} : opc'[u] = opc[u] /\ local'[u] = local[u]
        BY <3>2
      <3>4. WaitsForQueued'
        BY <3>2, <3>3
      <3>5. QueuedRemembered'
        BY <3>1, <3>2, <3>3
      <3> QED BY <3>4, <3>5
    <2>6. CASE once_futex_wait(t) BY <2>6 DEF once_futex_wait, OnceGoto
    <2>7. CASE once_syscall(t) BY <2>7 DEF once_syscall, OnceGoto
    <2>8. CASE once_interrupted(t) BY <2>8 DEF once_interrupted, OnceGoto
    <2>9. CASE once_finish(t) BY <2>9 DEF once_finish, forget, OnceGoto
    <2>10. CASE once_wake_all(t) BY <2>10 DEF once_wake_all
    <2> QED BY <1>3, <2>1, <2>2, <2>3, <2>4, <2>5, <2>6, <2>7, <2>8, <2>9, <2>10 DEF OnceRuns
  <1> QED BY <1>2, <1>3 DEF OnceNext

\* The invariant holds for every set of threads that use the Once.
THEOREM OnceCorrect == OnceSpec => []OnceInv
  <1>1. OnceInv /\ [OnceNext]_OnceVars => OnceInv'
    BY OnceTypeStep, RunsAloneStep, QueuedStep DEF OnceInv
  <1> QED BY <1>1, OnceInitInv, PTL DEF OnceSpec

\* The word of once/futex.rs is COMPLETE, or one of three states with or
\* without QUEUED.
THEOREM OnceTyped == OnceSpec => []OnceTypeOK
  <1>1. OnceInv => OnceTypeOK BY DEF OnceInv
  <1> QED BY <1>1, OnceCorrect, PTL

\* Once::call runs one initialiser at a time.
THEOREM OnceRunsAlone == OnceSpec => []RunsAlone
  <1>1. OnceInv => RunsAlone BY DEF OnceInv
  <1> QED BY <1>1, OnceCorrect, PTL

\* CompletionGuard::drop wakes everyone who sleeps, as the bit says so.
THEOREM OnceRemembersQueue == OnceSpec => []QueuedRemembered
  <1>1. OnceInv => QueuedRemembered BY DEF OnceInv
  <1> QED BY <1>1, OnceCorrect, PTL

\* An action property: no initialiser follows one that has succeeded.
THEOREM OnceCompletesOnce == OnceSpec => CompleteIsFinal
  <1>1. OnceInv /\ [OnceNext]_OnceVars => [once = COMPLETE => once' = COMPLETE]_once
    <2> SUFFICES ASSUME OnceTypeOK, RunsAlone, once = COMPLETE, [OnceNext]_OnceVars
                 PROVE  once' = COMPLETE
      BY DEF OnceInv
    <2>1. State(once) = COMPLETE
      BY WordParts DEF COMPLETE, IsQueued, QUEUED
    <2>2. CASE UNCHANGED OnceVars
      BY <2>2 DEF OnceVars
    <2>3. ASSUME NEW t \in OnceThreads, OnceRuns(t) \/ once_enter(t) \/ once_interrupted(t)
          PROVE once' = COMPLETE
      <3>1. ~once_finish(t)
        BY <2>1 DEF once_finish, OnceGoto, RunsAlone, COMPLETE, RUNNING
      <3>2. CASE once_start(t)
        <4>1. opc'[t] = "match"
          BY <2>1, <3>2, StartStores DEF INCOMPLETE, POISONED, COMPLETE
        <4> QED BY <3>2, <4>1 DEF once_start, compare_exchange, OnceGoto, OnceTypeOK
      <3>3. CASE once_enqueue(t)
        BY <2>1, <3>3, EnqueueStores
      <3>4. CASE \/ once_enter(t) \/ once_load(t) \/ once_return(t) \/ once_futex_wait(t)
                 \/ once_syscall(t) \/ once_interrupted(t) \/ once_wake_all(t)
        BY <3>4 DEF once_enter, once_load, once_return, once_futex_wait, once_syscall,
                    once_interrupted, once_wake_all
      <3> QED BY <2>3, <3>1, <3>2, <3>3, <3>4 DEF OnceRuns
    <2> QED BY <2>2, <2>3 DEF OnceNext
  <1> QED BY <1>1, OnceCorrect, PTL DEF OnceSpec, CompleteIsFinal
=============================================================================

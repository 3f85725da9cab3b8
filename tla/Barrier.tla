------------------------------ MODULE Barrier -------------------------------
(***************************************************************************)
(* std::sync::Barrier (library/std/src/sync/barrier.rs) on Condvar and     *)
(* Mutex, down to their futexes.                                           *)
(***************************************************************************)
EXTENDS FutexCondvar

CONSTANTS
  Sizes,       \* the n of Barrier::new
  MaxWaits     \* bound: how often wait is called

ASSUME SizesAssumption == IsFiniteSet(Threads) /\ Sizes \subseteq Nat

VARIABLES
  num_threads,           \* Barrier::num_threads
  count, generation_id,  \* BarrierState, guarded by the mutex
  bar,                   \* where each thread is in Barrier::wait
  local_gen,
  waits                  \* the calls of wait so far

barvars == <<num_threads, count, generation_id, bar, local_gen, waits>>
BarrierVars == <<vars, cvvars, barvars>>

bar_init ==
  /\ num_threads \in Sizes
  /\ count = 0
  /\ generation_id = 0
  /\ bar = [t \in Threads |-> "out"]
  /\ local_gen = [t \in Threads |-> 0]
  /\ waits = 0

BarrierInit == Init /\ cv_init /\ bar_init

BarGoto(t, from, to) == bar[t] = from /\ bar' = [bar EXCEPT ![t] = to]

-----------------------------------------------------------------------------
bar_wait(t) ==
  /\ waits < MaxWaits
  /\ waits' = waits + 1
  /\ BarGoto(t, "out", "enter")
  /\ call_lock(t)
  /\ UNCHANGED <<num_threads, count, generation_id, local_gen, cvvars>>

\* The critical section at the head of wait: the n-th thread starts the next
\* generation.  (generation_id is 64 bits wide and does not wrap around.)
bar_arrive(t) ==
  /\ InClient(t)
  /\ local_gen' = [local_gen EXCEPT ![t] = generation_id]
  /\ \/ /\ count + 1 < num_threads
        /\ BarGoto(t, "enter", "while")
        /\ count' = count + 1
        /\ UNCHANGED generation_id
     \/ /\ count + 1 >= num_threads
        /\ BarGoto(t, "enter", "notify")
        /\ count' = 0
        /\ generation_id' = generation_id + 1
  /\ UNCHANGED <<num_threads, waits, vars, cvvars>>

bar_check_once(t) ==
  /\ InClient(t)
  /\ \/ /\ local_gen[t] = generation_id
        /\ BarGoto(t, "while", "drop")
        /\ cv_wait(t)
     \/ /\ local_gen[t] # generation_id
        /\ BarGoto(t, "while", "drop")
        /\ UNCHANGED <<vars, cvvars>>
  /\ UNCHANGED <<num_threads, count, generation_id, local_gen, waits>>

\* Condvar::wait_while.
bar_check(t) ==
  /\ InClient(t)
  /\ \/ /\ local_gen[t] = generation_id
        /\ BarGoto(t, "while", "while")
        /\ cv_wait(t)
     \/ /\ local_gen[t] # generation_id
        /\ BarGoto(t, "while", "drop")
        /\ UNCHANGED <<vars, cvvars>>
  /\ UNCHANGED <<num_threads, count, generation_id, local_gen, waits>>

bar_notify(t) ==
  /\ InClient(t)
  /\ BarGoto(t, "notify", "leader")
  /\ cv_notify_all(t)
  /\ UNCHANGED <<num_threads, count, generation_id, local_gen, waits>>

\* wait returns and drops its guard; local_gen goes out of scope.
bar_drop(t) ==
  /\ InClient(t)
  /\ bar[t] \in {"drop", "leader"}
  /\ BarGoto(t, bar[t], "out")
  /\ unlock(t)
  /\ local_gen' = [local_gen EXCEPT ![t] = 0]
  /\ UNCHANGED <<num_threads, count, generation_id, waits, cvvars>>

BarrierRuns(t) ==
  \/ bar_arrive(t) \/ bar_check(t) \/ bar_notify(t) \/ bar_drop(t)
  \/ (cv_runs(t) /\ UNCHANGED barvars)

BarrierNext ==
  \E t \in Threads :
    BarrierRuns(t) \/ bar_wait(t) \/ (cv_disturbed(t) /\ UNCHANGED barvars)

BarrierSpec == BarrierInit /\ [][BarrierNext]_BarrierVars

-----------------------------------------------------------------------------
\* What each thread is to AbstractBarrier.
Phase(t) ==
  CASE bar[t] \in {"out", "enter"}                           -> "out"
    [] bar[t] = "while" /\ local_gen[t] = generation_id      -> "in"
    [] bar[t] \in {"notify", "leader"}                       -> "leader"
    [] OTHER                                                 -> "released"

Abstract == INSTANCE AbstractBarrier
              WITH phase <- [t \in Threads |-> Phase(t)]

\* Barrier::wait keeps its promise in spite of spurious wake-ups and of
\* threads that enter the next generation before the last one has left: it
\* implements AbstractBarrier, in which nobody passes before the n-th has
\* arrived, each generation has one leader, and the released leave.
ImplementsBarrier == Abstract!ASpec
=============================================================================

----------------------------- MODULE PoolSleep ------------------------------
(***************************************************************************)
(* How the workers of rustc_thread_pool go to sleep and are woken:         *)
(* sleep/mod.rs, sleep/counters.rs, CoreLatch in latch.rs, and the loops   *)
(* of registry.rs and join/mod.rs that use them.                           *)
(*                                                                         *)
(* One step per atomic operation on the packed counters, on a latch or on  *)
(* a queue.  A worker's is_blocked mutex is held from fall_asleep until    *)
(* the condition variable is waited on, so being at one of the locations   *)
(* in between is holding it (Locked).                                      *)
(*                                                                         *)
(* A job may join a child: it pushes it on its worker's deque, then runs   *)
(* it itself, or waits for the thief without stealing.  External threads   *)
(* inject jobs and wait for them (Registry::in_worker_cold); when all are  *)
(* done the pool is dropped (Registry::terminate).                         *)
(***************************************************************************)
EXTENDS Naturals, FiniteSets

CONSTANTS
  N,          \* number of workers; they are visited in the order of their index
  Externals,  \* threads outside the pool
  Pool,       \* the thread that drops the pool
  None,
  MaxInjects, \* bound on the jobs an external thread injects
  MaxForks,   \* bound on the children that jobs join
  JecSize     \* values of the jobs event counter, 2^32 in the code

Workers == 0 .. N - 1
Actors == Workers \cup Externals \cup {Pool}

ASSUME ConstantsAssumption ==
  /\ N \in Nat \ {0} /\ MaxInjects \in Nat /\ MaxForks \in Nat
  /\ JecSize \in Nat /\ JecSize % 2 = 0 /\ JecSize > 0
  /\ IsFiniteSet(Externals) /\ Externals \cap Workers = {}
  /\ {Pool, None} \cap (Workers \cup Externals) = {} /\ Pool # None

VARIABLES
  pc,
  counters,    \* AtomicCounters: sleeping, inactive, jec
  jobs_counter,\* IdleState::jobs_counter
  announced,   \* the worker has announced itself sleepy since it last woke up
  is_blocked,  \* WorkerSleepState::is_blocked
  active,      \* SleepData::active_threads
  terminate,   \* the workers' terminate latches
  child,       \* the latch of the child that a worker's job has joined
  deque,       \* a job in the worker's deque
  injected,    \* number of injected jobs in the queue
  owner,       \* whose child a worker runs: a worker, an external thread, or None
  scan,        \* queues that a worker still has to look at
  wake,        \* an actor's wake_any_threads: next index, threads to wake, where to go on
  left,        \* jobs each external thread still injects, and children to be joined
  waits        \* external threads whose job has not been run

poolVars == <<deque, injected, owner, left, waits>>
idleVars == <<jobs_counter, announced, scan>>
vars == <<pc, counters, idleVars, is_blocked, active, terminate, child, poolVars, wake>>

Goto(a, from, to) == pc[a] = from /\ pc' = [pc EXCEPT ![a] = to]

Locked(w) == pc[w] \in {"check_jec", "check_injected", "block"}

\* A worker that waits for a stolen child does not steal.
Joins(w) == child[w] # "none"
Latch(w) == IF Joins(w) THEN child[w] ELSE terminate[w]

SetLatch(w, v) ==
  IF Joins(w) THEN child' = [child EXCEPT ![w] = v] /\ UNCHANGED terminate
              ELSE terminate' = [terminate EXCEPT ![w] = v] /\ UNCHANGED child

SmallerOf(m, n) == IF m <= n THEN m ELSE n

Init ==
  /\ pc = [a \in Actors |-> IF a \in Workers THEN "root" ELSE "idle"]
  /\ counters = [sleeping |-> 0, inactive |-> 0, jec |-> 0]
  /\ jobs_counter = [w \in Workers |-> 0]
  /\ announced = [w \in Workers |-> FALSE]
  /\ is_blocked = [w \in Workers |-> FALSE]
  /\ active = N
  /\ terminate = [w \in Workers |-> "unset"]
  /\ child = [w \in Workers |-> "none"]
  /\ deque = [w \in Workers |-> FALSE]
  /\ injected = 0
  /\ owner = [w \in Workers |-> None]
  /\ scan = [w \in Workers |-> {}]
  /\ wake = [a \in Actors |-> [i |-> 0, n |-> 0, then |-> "idle"]]
  /\ left = [injects |-> [e \in Externals |-> MaxInjects], forks |-> MaxForks]
  /\ waits = {}

-----------------------------------------------------------------------------
(* Waking. *)

\* wake_any_threads starts, for at most n threads.
WakeAny(a, n, then) ==
  /\ pc' = [pc EXCEPT ![a] = IF n = 0 THEN then ELSE "wake"]
  /\ wake' = [wake EXCEPT ![a] = [i |-> 0, n |-> n, then |-> then]]

\* wake_specific_thread: under the worker's mutex, which the worker needs
\* before it can go on.
WakeSpecific(w) ==
  /\ ~Locked(w)
  /\ IF is_blocked[w]
     THEN /\ is_blocked' = [is_blocked EXCEPT ![w] = FALSE]
          /\ active' = active + 1
          /\ counters' = [counters EXCEPT !.sleeping = @ - 1]
     ELSE UNCHANGED <<is_blocked, active, counters>>

wake_any_threads(a) ==
  LET k == wake[a] IN
  /\ pc[a] = "wake"
  /\ WakeSpecific(k.i)
  /\ LET n == IF is_blocked[k.i] THEN k.n - 1 ELSE k.n IN
     /\ wake' = [wake EXCEPT ![a] = [k EXCEPT !.i = k.i + 1, !.n = n]]
     /\ pc' = [pc EXCEPT ![a] = IF n = 0 \/ k.i + 1 = N THEN k.then ELSE "wake"]
  /\ UNCHANGED <<idleVars, terminate, child, poolVars>>

\* increment_jobs_event_counter_if.
Increment(jec, sleepy) == IF (jec % 2 = 0) = sleepy THEN (jec + 1) % JecSize ELSE jec

ToWakeUnlessInactive(c, queue_was_empty) ==
  IF ~queue_was_empty THEN SmallerOf(1, c.sleeping)
  ELSE IF c.inactive < 1 THEN SmallerOf(1 - c.inactive, c.sleeping)
  ELSE 0

\* How many threads new_jobs wakes for one job, given the counters.
ToWake(c, queue_was_empty) ==
  LET idle == c.inactive - c.sleeping IN
  IF ~queue_was_empty THEN SmallerOf(1, c.sleeping)
  ELSE IF idle < 1 THEN SmallerOf(1 - idle, c.sleeping)
  ELSE 0

\* new_jobs, for one job.
new_jobs(a, from, queue_was_empty, then) ==
  /\ pc[a] = from
  /\ counters' = [counters EXCEPT !.jec = Increment(@, TRUE)]
  /\ WakeAny(a, ToWake(counters, queue_was_empty), then)
  /\ UNCHANGED <<idleVars, is_blocked, active, terminate, child, poolVars>>

-----------------------------------------------------------------------------
(* External threads. *)

\* inject: is_empty is read before the push.
inject(e) ==
  /\ left.injects[e] > 0
  /\ Goto(e, "idle", IF injected = 0 THEN "push_to_empty" ELSE "push")
  /\ left' = [left EXCEPT !.injects[e] = @ - 1]
  /\ UNCHANGED <<counters, idleVars, is_blocked, active, terminate, child, deque, injected,
                 owner, waits, wake>>

inject_push(e) ==
  /\ \/ Goto(e, "push_to_empty", "new_first")
     \/ Goto(e, "push", "new")
  /\ injected' = injected + 1
  /\ waits' = waits \cup {e}
  /\ UNCHANGED <<counters, idleVars, is_blocked, active, terminate, child, deque, owner,
                 left, wake>>

new_injected_jobs(e) ==
  \/ new_jobs(e, "new_first", TRUE, "wait")
  \/ new_jobs(e, "new", FALSE, "wait")

\* LockLatch::wait_and_reset: the job has been run.
external_wait(e) ==
  /\ e \notin waits
  /\ Goto(e, "wait", "idle")
  /\ UNCHANGED <<counters, idleVars, is_blocked, active, terminate, child, poolVars, wake>>

\* The last handle to the pool is gone.
Finished == \A e \in Externals : pc[e] = "idle" /\ left.injects[e] = 0

set_terminate_silently ==
  LET w == wake[Pool].i IN
  /\ Finished
  /\ pc[Pool] = "idle" /\ w < N
  /\ terminate' = [terminate EXCEPT ![w] = "set"]
  /\ wake' = [wake EXCEPT ![Pool].i = w + 1]
  /\ UNCHANGED <<pc, counters, idleVars, is_blocked, active, child, poolVars>>

\* Registry::terminate: each worker's terminate latch is set, and the worker
\* woken if it slept on it.
set_terminate ==
  LET w == wake[Pool].i IN
  /\ Finished
  /\ pc[Pool] = "idle" /\ w < N
  /\ terminate' = [terminate EXCEPT ![w] = "set"]
  /\ IF terminate[w] = "sleeping"
     THEN pc' = [pc EXCEPT ![Pool] = "notify"] /\ UNCHANGED wake
     ELSE UNCHANGED pc /\ wake' = [wake EXCEPT ![Pool].i = w + 1]
  /\ UNCHANGED <<counters, idleVars, is_blocked, active, child, poolVars>>

tickle ==
  /\ Goto(Pool, "notify", "idle")
  /\ WakeSpecific(wake[Pool].i)
  /\ wake' = [wake EXCEPT ![Pool].i = @ + 1]
  /\ UNCHANGED <<idleVars, terminate, child, poolVars>>

-----------------------------------------------------------------------------
(* Running jobs. *)

\* join_context: push the child and announce it.
fork(w) ==
  /\ left.forks > 0 /\ Goto(w, "run", "new")
  /\ left' = [left EXCEPT !.forks = @ - 1]
  /\ deque' = [deque EXCEPT ![w] = TRUE]
  /\ child' = [child EXCEPT ![w] = "unset"]
  /\ UNCHANGED <<counters, idleVars, is_blocked, active, terminate, injected, owner,
                 waits, wake>>

new_internal_jobs(w) == new_jobs(w, "new", TRUE, "join")

\* wait_for_jobs: the child is still there and is run inline, or its latch
\* has been set, or the worker starts to wait (wait_until_cold).
wait_for_jobs(w) ==
  /\ pc[w] = "join"
  /\ \/ /\ deque[w]
        /\ deque' = [deque EXCEPT ![w] = FALSE]
        /\ child' = [child EXCEPT ![w] = "none"]
        /\ pc' = [pc EXCEPT ![w] = "run"]
        /\ UNCHANGED counters
     \/ /\ ~deque[w] /\ child[w] = "set"
        /\ child' = [child EXCEPT ![w] = "none"]
        /\ pc' = [pc EXCEPT ![w] = "run"]
        /\ UNCHANGED <<counters, deque>>
     \/ /\ ~deque[w] /\ child[w] # "set"
        /\ counters' = [counters EXCEPT !.inactive = @ + 1]
        /\ pc' = [pc EXCEPT ![w] = "look"]
        /\ UNCHANGED <<deque, child>>
  /\ UNCHANGED <<idleVars, is_blocked, active, terminate, injected, owner, left, waits, wake>>

finish_if_sleepy(w) ==
  LET o == owner[w] IN
  /\ pc[w] = "run"
  /\ IF o \in Workers
     THEN child' = [child EXCEPT ![o] = "set"] /\ UNCHANGED waits
     ELSE waits' = waits \ {o} /\ UNCHANGED child
  /\ IF o \in Workers /\ child[o] = "sleepy"
     THEN pc' = [pc EXCEPT ![w] = "notify"] /\ UNCHANGED owner
     ELSE pc' = [pc EXCEPT ![w] = "root"] /\ owner' = [owner EXCEPT ![w] = None]
  /\ UNCHANGED <<counters, idleVars, is_blocked, active, terminate, deque, injected, left, wake>>

\* The job ends: SpinLatch::set swaps the latch of the owner and wakes it if
\* it sleeps on it; the LockLatch of an external thread is set.
finish(w) ==
  LET o == owner[w] IN
  /\ pc[w] = "run"
  /\ \/ /\ o \in Workers
        /\ child' = [child EXCEPT ![o] = "set"]
        /\ IF child[o] = "sleeping"
           THEN pc' = [pc EXCEPT ![w] = "notify"] /\ UNCHANGED owner
           ELSE pc' = [pc EXCEPT ![w] = "root"] /\ owner' = [owner EXCEPT ![w] = None]
        /\ UNCHANGED waits
     \/ /\ o \in Externals
        /\ waits' = waits \ {o}
        /\ pc' = [pc EXCEPT ![w] = "root"]
        /\ owner' = [owner EXCEPT ![w] = None]
        /\ UNCHANGED child
  /\ UNCHANGED <<counters, idleVars, is_blocked, active, terminate, deque, injected, left, wake>>

notify_worker_latch_is_set(w) ==
  /\ Goto(w, "notify", "root")
  /\ WakeSpecific(owner[w])
  /\ owner' = [owner EXCEPT ![w] = None]
  /\ UNCHANGED <<idleVars, terminate, child, deque, injected, left, waits, wake>>

-----------------------------------------------------------------------------
(* Looking for work. *)

\* wait_or_steal_until_cold at the root: stop, or start_looking.
start_looking(w) ==
  /\ Goto(w, "root", IF terminate[w] = "set" THEN "stopped" ELSE "look")
  /\ counters' = IF terminate[w] = "set" THEN counters
                 ELSE [counters EXCEPT !.inactive = @ + 1]
  /\ UNCHANGED <<idleVars, is_blocked, active, terminate, child, poolVars, wake>>

\* work_found: sub_inactive_thread says how many sleepers to wake.
WorkFound(w, then) ==
  /\ counters' = [counters EXCEPT !.inactive = @ - 1]
  /\ announced' = [announced EXCEPT ![w] = FALSE]
  /\ WakeAny(w, SmallerOf(counters.sleeping, 2), then)

\* The head of the loop: the latch is probed; if it is unset a worker that
\* steals looks at the other deques and at the queue of injected jobs.
probe(w) ==
  /\ pc[w] = "look"
  /\ \/ /\ Latch(w) = "set"
        /\ WorkFound(w, IF Joins(w) THEN "join" ELSE "root")
        /\ UNCHANGED <<jobs_counter, scan>>
     \/ /\ Latch(w) # "set" /\ ~Joins(w)
        /\ pc' = [pc EXCEPT ![w] = "scan"]
        /\ scan' = [scan EXCEPT ![w] = Workers \ {w}]
        /\ UNCHANGED <<counters, jobs_counter, announced, wake>>
     \/ /\ Latch(w) # "set" /\ Joins(w)
        /\ pc' = [pc EXCEPT ![w] = "no_work"]
        /\ UNCHANGED <<counters, idleVars, wake>>
  /\ UNCHANGED <<is_blocked, active, terminate, child, poolVars>>

\* find_work: one queue after the other, the deques in any order.
find_work(w) ==
  /\ pc[w] = "scan"
  /\ \/ \E v \in scan[w] :
          /\ deque[v]
          /\ deque' = [deque EXCEPT ![v] = FALSE]
          /\ owner' = [owner EXCEPT ![w] = v]
          /\ WorkFound(w, "run")
          /\ UNCHANGED <<scan, injected>>
     \/ \E v \in scan[w] :
          /\ ~deque[v]
          /\ scan' = [scan EXCEPT ![w] = @ \ {v}]
          /\ UNCHANGED <<pc, counters, announced, deque, injected, owner, wake>>
     \/ /\ scan[w] = {} /\ injected > 0
        /\ injected' = injected - 1
        /\ \E e \in waits \ {owner[v] : v \in Workers} :
             owner' = [owner EXCEPT ![w] = e]
        /\ WorkFound(w, "run")
        /\ UNCHANGED <<scan, deque>>
     \/ /\ scan[w] = {} /\ injected = 0
        /\ pc' = [pc EXCEPT ![w] = "no_work"]
        /\ UNCHANGED <<counters, announced, scan, deque, injected, owner, wake>>
  /\ UNCHANGED <<jobs_counter, is_blocked, active, terminate, child, left, waits>>

\* no_work_found: the rounds up to ROUNDS_UNTIL_SLEEPY are repetitions of the
\* loop; then the worker announces itself, searches once more, and sleeps.
no_work_found(w) ==
  /\ pc[w] = "no_work"
  /\ \/ /\ ~announced[w]
        /\ counters' = [counters EXCEPT !.jec = Increment(@, FALSE)]
        /\ jobs_counter' = [jobs_counter EXCEPT ![w] = counters'.jec]
        /\ announced' = [announced EXCEPT ![w] = TRUE]
        /\ pc' = [pc EXCEPT ![w] = "look"]
     \/ /\ announced[w]
        /\ pc' = [pc EXCEPT ![w] = "get_sleepy"]
        /\ UNCHANGED <<counters, jobs_counter, announced>>
  /\ UNCHANGED <<scan, is_blocked, active, terminate, child, poolVars, wake>>

-----------------------------------------------------------------------------
(* Sleep::sleep. *)

\* latch.get_sleepy.
get_sleepy(w) ==
  /\ pc[w] = "get_sleepy"
  /\ IF Latch(w) = "unset"
     THEN SetLatch(w, "sleepy") /\ pc' = [pc EXCEPT ![w] = "fall_asleep"]
     ELSE UNCHANGED <<child, terminate>> /\ pc' = [pc EXCEPT ![w] = "look"]
  /\ UNCHANGED <<counters, idleVars, is_blocked, active, poolVars, wake>>

\* The mutex, then latch.fall_asleep.
fall_asleep(w) ==
  /\ pc[w] = "fall_asleep"
  /\ IF Latch(w) = "sleepy"
     THEN /\ SetLatch(w, "sleeping")
          /\ pc' = [pc EXCEPT ![w] = "check_jec"]
          /\ UNCHANGED announced
     ELSE /\ UNCHANGED <<child, terminate>>
          /\ pc' = [pc EXCEPT ![w] = "look"]
          /\ announced' = [announced EXCEPT ![w] = FALSE]
  /\ UNCHANGED <<counters, jobs_counter, scan, is_blocked, active, poolVars, wake>>

\* wake_fully or wake_partly, then latch.wake_up, then back to the loop.
WakeUp(w) ==
  /\ announced' = [announced EXCEPT ![w] = FALSE]
  /\ SetLatch(w, IF Latch(w) = "sleeping" THEN "unset" ELSE Latch(w))
  /\ pc' = [pc EXCEPT ![w] = "look"]

\* The loop around try_add_sleeping_thread: its compare_exchange succeeds only
\* when the counter is still the one that was announced.
try_add_sleeping_thread(w) ==
  /\ pc[w] = "check_jec"
  /\ IF counters.jec = jobs_counter[w]
     THEN /\ counters' = [counters EXCEPT !.sleeping = @ + 1]
          /\ pc' = [pc EXCEPT ![w] = "check_injected"]
          /\ UNCHANGED <<announced, child, terminate>>
     ELSE WakeUp(w) /\ UNCHANGED counters
  /\ UNCHANGED <<jobs_counter, scan, is_blocked, active, poolVars, wake>>

check_injected_still_counted(w) ==
  /\ pc[w] = "check_injected"
  /\ IF ~Joins(w) /\ injected > 0
     THEN WakeUp(w)
     ELSE pc' = [pc EXCEPT ![w] = "block"] /\ UNCHANGED <<announced, child, terminate>>
  /\ UNCHANGED <<counters, jobs_counter, scan, is_blocked, active, poolVars, wake>>

\* The last check for injected jobs.
check_injected(w) ==
  /\ pc[w] = "check_injected"
  /\ IF ~Joins(w) /\ injected > 0
     THEN WakeUp(w) /\ counters' = [counters EXCEPT !.sleeping = @ - 1]
     ELSE /\ pc' = [pc EXCEPT ![w] = "block"]
          /\ UNCHANGED <<counters, announced, child, terminate>>
  /\ UNCHANGED <<jobs_counter, scan, is_blocked, active, poolVars, wake>>

\* is_blocked becomes true and the condition variable is waited on, which
\* releases the mutex.
block(w) ==
  /\ Goto(w, "block", "blocked")
  /\ is_blocked' = [is_blocked EXCEPT ![w] = TRUE]
  /\ active' = active - 1
  /\ UNCHANGED <<counters, idleVars, terminate, child, poolVars, wake>>

\* The wait ends only when is_blocked is false.
resume(w) ==
  /\ pc[w] = "blocked" /\ ~is_blocked[w]
  /\ WakeUp(w)
  /\ UNCHANGED <<counters, jobs_counter, scan, is_blocked, active, poolVars, wake>>

-----------------------------------------------------------------------------
WorkerStep(w) ==
  \/ new_internal_jobs(w) \/ wait_for_jobs(w) \/ finish(w)
  \/ notify_worker_latch_is_set(w) \/ start_looking(w) \/ probe(w) \/ find_work(w)
  \/ no_work_found(w) \/ get_sleepy(w) \/ fall_asleep(w)
  \/ try_add_sleeping_thread(w) \/ check_injected(w) \/ block(w) \/ resume(w)

ExternalStep(e) == inject(e) \/ inject_push(e) \/ new_injected_jobs(e) \/ external_wait(e)

Next ==
  \/ \E w \in Workers : WorkerStep(w) \/ fork(w)
  \/ \E e \in Externals : ExternalStep(e)
  \/ \E a \in Workers \cup Externals : wake_any_threads(a)
  \/ set_terminate \/ tickle

Spec == Init /\ [][Next]_vars

\* Every thread that can run is run.
FairSpec ==
  /\ Spec
  /\ \A w \in Workers : WF_vars(WorkerStep(w) \/ wake_any_threads(w))
  /\ \A e \in Externals : WF_vars(ExternalStep(e) \/ wake_any_threads(e))
  /\ WF_vars(set_terminate \/ tickle)

-----------------------------------------------------------------------------
LatchStates == {"unset", "sleepy", "sleeping", "set"}

\* Typing: the three fields of the packed counter never leave their bits, so
\* none borrows from its neighbour, and the latches stay in their four states.
TypeOK ==
  /\ counters \in [sleeping : 0 .. N, inactive : 0 .. N, jec : 0 .. JecSize - 1]
  /\ jobs_counter \in [Workers -> 0 .. JecSize - 1]
  /\ announced \in [Workers -> BOOLEAN]
  /\ is_blocked \in [Workers -> BOOLEAN]
  /\ active \in 0 .. N
  /\ terminate \in [Workers -> LatchStates]
  /\ child \in [Workers -> LatchStates \cup {"none"}]
  /\ deque \in [Workers -> BOOLEAN]
  /\ injected \in 0 .. Cardinality(Externals)
  /\ owner \in [Workers -> Workers \cup Externals \cup {None}]
  /\ scan \in [Workers -> SUBSET Workers]
  /\ waits \in SUBSET Externals

Idles(w) == pc[w] \in {"look", "scan", "no_work", "get_sleepy", "fall_asleep", "check_jec",
                       "check_injected", "block", "blocked"}

\* The packed counters count what they claim to, at every instant: sleeping
\* workers are those registered and not yet woken, and they are among the
\* inactive ones (the debug assertions of counters.rs); active_threads counts
\* the workers that are not blocked, so that the deadlock check is exact.  No
\* field of the packed word leaves its range.
CountersExact ==
  /\ TypeOK
  /\ counters.sleeping = Cardinality({w \in Workers : \/ is_blocked[w]
                                                      \/ pc[w] \in {"check_injected", "block"}})
  /\ counters.inactive = Cardinality({w \in Workers : Idles(w)})
  /\ active = N - Cardinality({w \in Workers : is_blocked[w]})

\* A latch never leaves its owner asleep: when a blocked worker's latch is
\* set, some thread is about to wake that worker.
SetLatchWakes ==
  \A w \in Workers :
    is_blocked[w] /\ Latch(w) = "set" =>
      \/ pc[Pool] = "notify" /\ wake[Pool].i = w
      \/ \E v \in Workers : pc[v] = "notify" /\ owner[v] = w

\* An injected job is never left to a pool that sleeps as a whole: some worker
\* is awake, or the thread that injected the job is still going to wake one.
InjectedJobSeen ==
  injected > 0 =>
    \/ \E w \in Workers : ~is_blocked[w]
    \/ \E e \in Externals : pc[e] \in {"new", "new_first", "wake"}

\* The pool ends: every injected job is run, every join returns, and after
\* terminate all workers stop.
AllStop == <>(\A w \in Workers : pc[w] = "stopped")

\* new_injected_jobs "will ensure that there are threads available to process
\* them, waking threads from sleep if necessary": after it, as long as the
\* job is there, no worker that could take it sleeps while nobody looks.
InjectedJobHasThread ==
  injected > 0 =>
    \/ \E e \in Externals : pc[e] \in {"new", "new_first", "wake"}
    \/ \E w \in Workers : ~Joins(w) /\ pc[w] # "run" /\ ~is_blocked[w]
    \/ \A w \in Workers : is_blocked[w] => Joins(w)
=============================================================================

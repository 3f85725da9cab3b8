----------------------------- MODULE SleepState -----------------------------
(***************************************************************************)
(* How a worker of the thread pool blocks and is woken                     *)
(* (compiler/rustc_thread_pool/src/sleep/mod.rs, struct WorkerSleepState): *)
(* a flag is_blocked under a Mutex and a Condvar, here down to their       *)
(* futexes.  PoolSleep takes each of these critical sections in one step.  *)
(***************************************************************************)
EXTENDS FutexCondvar

CONSTANTS
  Sleeper,    \* the worker; the other threads wake it
  MaxRounds   \* bound: how often sleep and wake_specific_thread are called

VARIABLES
  is_blocked,  \* guarded by the mutex
  slp,         \* where each thread is in sleep or wake_specific_thread
  rounds       \* the calls so far

slpvars == <<is_blocked, slp, rounds>>
SleepVars == <<vars, cvvars, slpvars>>

slp_init ==
  /\ is_blocked = FALSE
  /\ slp = [t \in Threads |-> "out"]
  /\ rounds = 0

SleepInit == Init /\ cv_init /\ slp_init

SlpGoto(t, from, to) == slp[t] = from /\ slp' = [slp EXCEPT ![t] = to]

-----------------------------------------------------------------------------
\* Either function begins by locking is_blocked.
slp_call(t) ==
  /\ rounds < MaxRounds
  /\ rounds' = rounds + 1
  /\ SlpGoto(t, "out", "enter")
  /\ call_lock(t)
  /\ UNCHANGED <<is_blocked, cvvars>>

\* sleep, once no job has been found: the flag is set.
slp_block(t) ==
  /\ t = Sleeper
  /\ InClient(t)
  /\ SlpGoto(t, "enter", "while")
  /\ is_blocked' = TRUE
  /\ UNCHANGED <<rounds, vars, cvvars>>

\* sleep: while *is_blocked { wait }.
slp_check(t) ==
  /\ InClient(t)
  /\ \/ /\ is_blocked
        /\ SlpGoto(t, "while", "while")
        /\ cv_wait(t)
     \/ /\ ~is_blocked
        /\ SlpGoto(t, "while", "drop")
        /\ UNCHANGED <<vars, cvvars>>
  /\ UNCHANGED <<is_blocked, rounds>>

\* wake_specific_thread: who finds the flag set clears it and has to notify.
slp_wake(t) ==
  /\ t # Sleeper
  /\ InClient(t)
  /\ SlpGoto(t, "enter", IF is_blocked THEN "notify" ELSE "drop")
  /\ is_blocked' = FALSE
  /\ UNCHANGED <<rounds, vars, cvvars>>

slp_notify(t) ==
  /\ InClient(t)
  /\ SlpGoto(t, "notify", "drop")
  /\ cv_notify_one(t)
  /\ UNCHANGED <<is_blocked, rounds>>

\* The guard is dropped.
slp_drop(t) ==
  /\ InClient(t)
  /\ SlpGoto(t, "drop", "out")
  /\ unlock(t)
  /\ UNCHANGED <<is_blocked, rounds, cvvars>>

SleepRuns(t) ==
  \/ slp_block(t) \/ slp_check(t) \/ slp_wake(t) \/ slp_notify(t) \/ slp_drop(t)
  \/ (cv_runs(t) /\ UNCHANGED slpvars)

SleepNext ==
  \E t \in Threads :
    SleepRuns(t) \/ slp_call(t) \/ (cv_disturbed(t) /\ UNCHANGED slpvars)

SleepSpec == SleepInit /\ [][SleepNext]_SleepVars

-----------------------------------------------------------------------------
\* A worker whose flag has been cleared returns from sleep.
WokenWorkerReturns ==
  (slp[Sleeper] = "while" /\ ~is_blocked) ~> (slp[Sleeper] = "out")
=============================================================================

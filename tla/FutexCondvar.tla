---------------------------- MODULE FutexCondvar ----------------------------
(***************************************************************************)
(* std's futex based Condvar (library/std/src/sys/sync/condvar/futex.rs),  *)
(* used with one Mutex, that of FutexMutex.  The futex word is a counter   *)
(* of notifications.  Which thread waits and which one notifies is left to *)
(* the modules that extend this one: they say when cv_wait, cv_notify_one  *)
(* and cv_notify_all are called.                                           *)
(*                                                                         *)
(* A thread is in the code of its client when cv[t] = "out" and it holds   *)
(* the mutex; wait returns when the lock that ends it succeeds.            *)
(***************************************************************************)
EXTENDS FutexMutex

CONSTANTS
  CounterSize,  \* the number of values of the word (2^32)
  MaxSpurious   \* bound: how often futex_wait ends without a futex_wake.
                \* (The mutex is not fair: a waiter that woke up for nothing
                \* for ever could keep the others out of it.)

ASSUME CounterAssumption == CounterSize \in Nat /\ CounterSize > 1

VARIABLES
  counter,  \* Condvar::futex
  cv,       \* where each thread is in wait, notify_one and notify_all
  seen,     \* futex_value of the thread's call of wait
  cvqueue,  \* the kernel's queue of the word
  spurious  \* how often a futex_wait ended without a futex_wake

cvvars == <<counter, cv, seen, cvqueue, spurious>>

cv_init ==
  /\ counter = 0
  /\ cv = [t \in Threads |-> "out"]
  /\ seen = [t \in Threads |-> 0]
  /\ cvqueue = {}
  /\ spurious = 0

CvGoto(t, from, to) == cv[t] = from /\ cv' = [cv EXCEPT ![t] = to]

\* A thread runs the code of its client, inside the critical section.
InClient(t) == pc[t] = Held /\ cv[t] = "out"

-----------------------------------------------------------------------------
\* wait: the counter is read while the mutex is still held.
cv_wait(t) ==
  /\ pc[t] = Held
  /\ CvGoto(t, "out", "unlock")
  /\ seen' = [seen EXCEPT ![t] = counter]
  /\ UNCHANGED <<counter, cvqueue, spurious, vars>>

\* wait: the mutex is unlocked; a wake-up that unlock owes comes first.
cv_unlock(t) ==
  /\ CvGoto(t, "unlock", "futex_wait")
  /\ unlock(t)
  /\ UNCHANGED <<counter, seen, cvqueue, spurious>>

\* futex_wait: the load before the system call.
cv_futex_wait(t) ==
  /\ pc[t] = Idle
  /\ CvGoto(t, "futex_wait", IF counter = seen[t] THEN "syscall" ELSE "relock")
  /\ UNCHANGED <<counter, seen, cvqueue, spurious, vars>>

cv_syscall_blind(t) ==
  /\ CvGoto(t, "syscall", "blocked")
  /\ cvqueue' = cvqueue \cup {t}
  /\ UNCHANGED <<counter, seen, spurious, vars>>

\* The system call compares and enqueues in one step.
cv_syscall(t) ==
  /\ \/ /\ counter = seen[t]
        /\ CvGoto(t, "syscall", "blocked")
        /\ cvqueue' = cvqueue \cup {t}
     \/ /\ counter # seen[t]
        /\ CvGoto(t, "syscall", "relock")
        /\ UNCHANGED cvqueue
  /\ UNCHANGED <<counter, seen, spurious, vars>>

\* The thread leaves the queue without a notification: on a signal (the loop
\* of futex_wait repeats), spuriously, or on the timeout of wait_timeout.
cv_interrupted(t) ==
  /\ t \in cvqueue
  /\ cvqueue' = cvqueue \ {t}
  /\ \E to \in {"futex_wait", "relock"} : CvGoto(t, "blocked", to)
  /\ UNCHANGED <<counter, seen, vars>>

\* wait ends by locking the mutex again (futex_value goes out of scope).
cv_relock(t) ==
  /\ CvGoto(t, "relock", "out")
  /\ call_lock(t)
  /\ seen' = [seen EXCEPT ![t] = 0]
  /\ UNCHANGED <<counter, cvqueue, spurious>>

\* notify_one and notify_all: the fetch_add, which wraps around.
cv_notify(t, how) ==
  /\ counter' = (counter + 1) % CounterSize
  /\ CvGoto(t, "out", how)
  /\ UNCHANGED <<seen, cvqueue, spurious, vars>>

cv_notify_one(t) == cv_notify(t, "wake_one")
cv_notify_all(t) == cv_notify(t, "wake_all")

\* futex_wake and futex_wake_all.
cv_wake(t) ==
  /\ \/ /\ cv[t] = "wake_one"
        /\ \E W \in {{w} : w \in cvqueue} \cup (IF cvqueue = {} THEN {{}} ELSE {}) :
             /\ cvqueue' = cvqueue \ W
             /\ cv' = [u \in Threads |-> CASE u = t    -> "out"
                                           [] u \in W  -> "relock"
                                           [] OTHER    -> cv[u]]
     \/ /\ cv[t] = "wake_all"
        /\ cvqueue' = {}
        /\ cv' = [u \in Threads |-> CASE u = t           -> "out"
                                      [] u \in cvqueue   -> "relock"
                                      [] OTHER           -> cv[u]]
  /\ UNCHANGED <<counter, seen, spurious, vars>>

\* A thread inside Condvar or inside Mutex; unlock is left to its callers.
mutex_runs(t) ==
  /\ \/ lock(t) \/ spin(t) \/ respin(t) \/ cas(t) \/ swap(t)
     \/ futex_wait(t) \/ syscall(t) \/ wake(t)
  /\ UNCHANGED cvvars

cv_runs(t) ==
  \/ cv_unlock(t) \/ cv_futex_wait(t) \/ cv_syscall(t)
  \/ cv_relock(t) \/ cv_wake(t) \/ mutex_runs(t)

\* A futex_wait of either word ends without a futex_wake.
cv_disturbed(t) ==
  /\ spurious < MaxSpurious
  /\ spurious' = spurious + 1
  /\ \/ cv_interrupted(t)
     \/ interrupted(t) /\ UNCHANGED <<counter, cv, seen, cvqueue>>
=============================================================================

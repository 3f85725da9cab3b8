----------------------------- MODULE FutexOnce ------------------------------
(***************************************************************************)
(* std's futex based Once (library/std/src/sys/sync/once/futex.rs).  Each  *)
(* thread calls `call` or `wait`, either of them ignoring poison or not.   *)
(***************************************************************************)
EXTENDS Naturals

CONSTANTS
  OnceThreads,
  MaxCalls   \* bound: how often the Once is used

ASSUME OnceAssumption == MaxCalls \in Nat

COMPLETE   == 0
RUNNING    == 1
POISONED   == 2
INCOMPLETE == 3
QUEUED     == 4

VARIABLES
  once,     \* Once::state_and_queued
  opc,      \* where each thread is in call or wait
  kind,     \* the function and its argument: call, call_force, wait, wait_force
  local,    \* the thread's copy state_and_queued
  ocalls,   \* the uses so far
  queue     \* the kernel's queue

OnceVars == <<once, opc, kind, local, ocalls, queue>>

OnceKinds == {"call", "call_force", "wait", "wait_force"}
OnceLocs == {"out", "load", "match", "futex_wait", "syscall", "blocked", "f", "wake_all"}

State(v)    == v % QUEUED
IsQueued(v) == v >= QUEUED

OnceInit ==
  /\ once = INCOMPLETE
  /\ opc = [t \in OnceThreads |-> "out"]
  /\ kind = [t \in OnceThreads |-> "call"]
  /\ local = [t \in OnceThreads |-> INCOMPLETE]
  /\ ocalls = 0
  /\ queue = {}

\* The locals of a call go out of scope when it returns.
forget(t) == /\ kind' = [kind EXCEPT ![t] = "call"]
             /\ local' = [local EXCEPT ![t] = INCOMPLETE]

OnceGoto(t, from, to) == opc[t] = from /\ opc' = [opc EXCEPT ![t] = to]

-----------------------------------------------------------------------------
once_enter(t) ==
  /\ ocalls < MaxCalls
  /\ ocalls' = ocalls + 1
  /\ OnceGoto(t, "out", "load")
  /\ \E k \in OnceKinds : kind' = [kind EXCEPT ![t] = k]
  /\ UNCHANGED <<once, local, queue>>

\* The load at the head, and again after each futex_wait.
once_load(t) ==
  /\ OnceGoto(t, "load", "match")
  /\ local' = [local EXCEPT ![t] = once]
  /\ UNCHANGED <<once, kind, ocalls, queue>>

\* The arms of the match that leave the function: nothing to do, or a panic
\* that propagates the poison.
once_return(t) ==
  /\ OnceGoto(t, "match", "out")
  /\ \/ State(local[t]) = COMPLETE
     \/ State(local[t]) = POISONED /\ kind[t] \in {"call", "wait"}
  /\ forget(t)
  /\ UNCHANGED <<once, ocalls, queue>>

store(t, new, to) ==
  /\ once' = new
  /\ OnceGoto(t, "match", to)

\* compare_exchange_weak: fails spuriously as well; then the match is repeated
\* with the value found.
compare_exchange(t, new, to) ==
  \/ /\ once = local[t]
     /\ once' = new
     /\ OnceGoto(t, "match", to)
  \/ /\ OnceGoto(t, "match", "match")
     /\ UNCHANGED once

\* call, INCOMPLETE | POISONED: try to become the running thread; the bit of
\* those who wait already is kept.
once_start(t) ==
  /\ \/ State(local[t]) = INCOMPLETE /\ kind[t] \in {"call", "call_force"}
     \/ State(local[t]) = POISONED /\ kind[t] = "call_force"
  /\ compare_exchange(t, RUNNING + (local[t] - State(local[t])), "f")
  /\ local' = [local EXCEPT ![t] = once]
  /\ UNCHANGED <<kind, ocalls, queue>>

\* The last arm of call (RUNNING) and of wait (whatever is not final for it):
\* set QUEUED if it is not set, then futex_wait.
once_enqueue(t) ==
  /\ \/ State(local[t]) = RUNNING
     \/ State(local[t]) = INCOMPLETE /\ kind[t] \in {"wait", "wait_force"}
     \/ State(local[t]) = POISONED /\ kind[t] = "wait_force"
  /\ \/ /\ IsQueued(local[t])
        /\ OnceGoto(t, "match", "futex_wait")
        /\ UNCHANGED <<once, local>>
     \/ /\ ~IsQueued(local[t])
        /\ compare_exchange(t, local[t] + QUEUED, "futex_wait")
        /\ local' = [local EXCEPT ![t] = IF opc'[t] = "match" THEN once ELSE @ + QUEUED]
  /\ UNCHANGED <<kind, ocalls, queue>>

\* futex_wait: the load before the system call.
once_futex_wait(t) ==
  /\ OnceGoto(t, "futex_wait", IF once = local[t] THEN "syscall" ELSE "load")
  /\ UNCHANGED <<once, kind, local, ocalls, queue>>

once_syscall(t) ==
  /\ \/ /\ once = local[t]
        /\ OnceGoto(t, "syscall", "blocked")
        /\ queue' = queue \cup {t}
     \/ /\ once # local[t]
        /\ OnceGoto(t, "syscall", "load")
        /\ UNCHANGED queue
  /\ UNCHANGED <<once, kind, local, ocalls>>

\* A signal or a spurious return.
once_interrupted(t) ==
  /\ t \in queue
  /\ queue' = queue \ {t}
  /\ \E to \in {"futex_wait", "load"} : OnceGoto(t, "blocked", to)
  /\ UNCHANGED <<once, kind, local, ocalls>>

once_finish_forgetful(t) ==
  /\ \/ OnceGoto(t, "f", IF IsQueued(once) THEN "wake_all" ELSE "out") /\ once' = COMPLETE
     \/ OnceGoto(t, "f", "out") /\ once' = POISONED
  /\ forget(t)
  /\ UNCHANGED <<ocalls, queue>>

\* f returns, panics, or returns after OnceState::poison; CompletionGuard's
\* drop swaps the final state in and wakes those who were queued.
once_finish(t) ==
  /\ OnceGoto(t, "f", IF IsQueued(once) THEN "wake_all" ELSE "out")
  /\ once' \in {COMPLETE, POISONED}
  /\ forget(t)
  /\ UNCHANGED <<ocalls, queue>>

once_wake_all(t) ==
  /\ opc[t] = "wake_all"
  /\ opc' = [u \in OnceThreads |-> CASE u = t         -> "out"
                                     [] u \in queue   -> "load"
                                     [] OTHER         -> opc[u]]
  /\ queue' = {}
  /\ UNCHANGED <<once, kind, local, ocalls>>

OnceRuns(t) ==
  \/ once_load(t) \/ once_return(t) \/ once_start(t) \/ once_enqueue(t)
  \/ once_futex_wait(t) \/ once_syscall(t) \/ once_finish(t) \/ once_wake_all(t)

OnceNext == \E t \in OnceThreads : OnceRuns(t) \/ once_enter(t) \/ once_interrupted(t)

OnceSpec == OnceInit /\ [][OnceNext]_OnceVars

-----------------------------------------------------------------------------
\* Typing of Once's word: "QUEUED may only be set if the state is not COMPLETE".
OnceTypeOK ==
  /\ once \in {COMPLETE} \cup {s + q : s \in {RUNNING, POISONED, INCOMPLETE}, q \in {0, QUEUED}}
  /\ opc \in [OnceThreads -> OnceLocs]
  /\ kind \in [OnceThreads -> OnceKinds]
  /\ local \in [OnceThreads -> 0 .. 2 * QUEUED - 1]
  /\ ocalls \in 0 .. MaxCalls
  /\ queue = {t \in OnceThreads : opc[t] = "blocked"}

\* The initialiser runs in one thread at a time, and only in the RUNNING state.
RunsAlone ==
  /\ \A s, t \in OnceThreads : opc[s] = "f" /\ opc[t] = "f" => s = t
  /\ (State(once) = RUNNING) <=> \E t \in OnceThreads : opc[t] = "f"

\* A sleeper of Once is never forgotten: the word keeps its QUEUED bit, so that
\* the guard of the running thread wakes it, or a thread is about to.
QueuedRemembered ==
  queue # {} => IsQueued(once) \/ \E t \in OnceThreads : opc[t] = "wake_all"

\* Completion is final: once an initialiser has succeeded, the word never
\* leaves COMPLETE, so that no second one runs.
CompleteIsFinal == [][once = COMPLETE => once' = COMPLETE]_once

\* Whoever is in call or wait comes out when the initialiser that runs ends:
\* a thread stays only while nobody initialises, or in a wait that ignores the
\* poison the initialiser left.
OnceReleases ==
  \A t \in OnceThreads :
    (opc[t] # "out") ~> \/ opc[t] = "out"
                        \/ State(once) = INCOMPLETE
                        \/ State(once) = POISONED /\ kind[t] = "wait_force"
=============================================================================

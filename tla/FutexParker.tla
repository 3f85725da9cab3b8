---------------------------- MODULE FutexParker -----------------------------
(***************************************************************************)
(* std's thread parker (library/std/src/sys/sync/thread_parking/futex.rs): *)
(* one thread owns the parker and parks, the others unpark it.  The state  *)
(* word is the only shared location.                                       *)
(***************************************************************************)
EXTENDS Naturals

CONSTANTS
  Unparkers,
  StateSize   \* the number of values of the word (2^32)

ASSUME StateSizeAssumption == StateSize \in Nat /\ StateSize > 2

EMPTY    == 0
NOTIFIED == 1
PARKED   == StateSize - 1

VARIABLES
  parker,   \* Parker::state
  own,      \* where the owner is in park or park_timeout
  mode,     \* which of the two it is in
  unp       \* where each other thread is in unpark

ParkerVars == <<parker, own, mode, unp>>

OwnLocs == {"out", "fetch_sub", "futex_wait", "syscall", "blocked", "check"}

ParkerInit ==
  /\ parker = EMPTY
  /\ own = "out"
  /\ mode = "park"
  /\ unp = [u \in Unparkers |-> "out"]

OwnGoto(from, to) == own = from /\ own' = to

-----------------------------------------------------------------------------
\* The owner calls park or park_timeout.
park_call ==
  /\ OwnGoto("out", "fetch_sub")
  /\ mode' \in {"park", "park_timeout"}
  /\ UNCHANGED <<parker, unp>>

park_fetch_sub_unchecked ==
  /\ OwnGoto("fetch_sub", "futex_wait")
  /\ parker' = (parker + StateSize - 1) % StateSize
  /\ UNCHANGED <<mode, unp>>

\* NOTIFIED => EMPTY and return, or EMPTY => PARKED by wrapping around.
park_fetch_sub ==
  /\ OwnGoto("fetch_sub", IF parker = NOTIFIED THEN "out" ELSE "futex_wait")
  /\ parker' = (parker + StateSize - 1) % StateSize
  /\ UNCHANGED <<mode, unp>>

\* futex_wait: the load before the system call.
park_futex_wait ==
  /\ OwnGoto("futex_wait", IF parker = PARKED THEN "syscall" ELSE "check")
  /\ UNCHANGED <<parker, mode, unp>>

park_syscall ==
  /\ OwnGoto("syscall", IF parker = PARKED THEN "blocked" ELSE "check")
  /\ UNCHANGED <<parker, mode, unp>>

\* A signal or a spurious return.
park_interrupted ==
  /\ \E to \in {"futex_wait", "check"} : OwnGoto("blocked", to)
  /\ UNCHANGED <<parker, mode, unp>>

\* The timeout of park_timeout.
park_timed_out ==
  /\ mode = "park_timeout"
  /\ OwnGoto("blocked", "check")
  /\ UNCHANGED <<parker, mode, unp>>

\* park: compare_exchange(NOTIFIED, EMPTY), or wait again.
park_check ==
  /\ mode = "park"
  /\ \/ parker = NOTIFIED /\ parker' = EMPTY /\ OwnGoto("check", "out")
     \/ parker # NOTIFIED /\ UNCHANGED parker /\ OwnGoto("check", "futex_wait")
  /\ UNCHANGED <<mode, unp>>

\* park_timeout: swap(EMPTY) and return in either case.
park_timeout_check ==
  /\ mode = "park_timeout"
  /\ OwnGoto("check", "out")
  /\ parker' = EMPTY
  /\ UNCHANGED <<mode, unp>>

\* unpark: swap(NOTIFIED); a thread that was PARKED has to be woken.
unpark(u) ==
  /\ unp[u] = "out"
  /\ parker' = NOTIFIED
  /\ unp' = [unp EXCEPT ![u] = IF parker = PARKED THEN "wake" ELSE "out"]
  /\ UNCHANGED <<own, mode>>

\* futex_wake; by now the owner may have returned and parked again.
unpark_wake(u) ==
  /\ unp[u] = "wake"
  /\ unp' = [unp EXCEPT ![u] = "out"]
  /\ own' = IF own = "blocked" THEN "check" ELSE own
  /\ UNCHANGED <<parker, mode>>

ParkerRuns ==
  \/ park_fetch_sub \/ park_futex_wait \/ park_syscall \/ park_timed_out
  \/ park_check \/ park_timeout_check

ParkerNext ==
  \/ ParkerRuns \/ park_call \/ park_interrupted
  \/ \E u \in Unparkers : unpark(u) \/ unpark_wake(u)

ParkerSpec == ParkerInit /\ [][ParkerNext]_ParkerVars

-----------------------------------------------------------------------------
\* Typing of the parker's word, and the assumption in the comment of park: the
\* word is PARKED only while the owner is waiting, never when it calls park,
\* where the subtraction would leave the three states.
ParkerTypeOK ==
  /\ parker \in {EMPTY, NOTIFIED, PARKED}
  /\ own \in OwnLocs
  /\ mode \in {"park", "park_timeout"}
  /\ unp \in [Unparkers -> {"out", "wake"}]
  /\ parker = PARKED => own \in {"futex_wait", "syscall", "blocked", "check"}

\* No unpark is lost: the owner is blocked in the kernel only while its word
\* is PARKED or the thread that notified it has yet to make the system call.
NoLostUnpark ==
  own = "blocked" => parker = PARKED \/ \E u \in Unparkers : unp[u] = "wake"

Token == INSTANCE TokenParker
           WITH token  <- parker = NOTIFIED,
                parked <- IF own = "out" THEN "no" ELSE mode

\* park, park_timeout and unpark implement TokenParker: late system calls of
\* earlier unparks, timeouts and spurious returns neither lose the token nor
\* spend it twice, and a park whose token is there returns.
ImplementsToken == Token!TSpec
=============================================================================

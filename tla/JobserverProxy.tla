--------------------------- MODULE JobserverProxy ---------------------------
(***************************************************************************)
(* The jobserver proxy through which the threads of a rustc process share  *)
(* the tokens of the build (compiler/rustc_data_structures/src/            *)
(* jobserver.rs).  Every process owns one token implicitly; the others are *)
(* in a pipe that it shares with the rest of the build.                    *)
(*                                                                         *)
(* Each critical section of ProxyData's mutex is one step.  The jobserver  *)
(* crate (the pipe and the helper thread that takes tokens out of it on    *)
(* request) and the other processes are external.  parking_lot's condition *)
(* variable wakes in the order of arrival and never spuriously.            *)
(***************************************************************************)
EXTENDS Naturals, Sequences, FiniteSets

CONSTANTS
  Threads,    \* the threads of the process that do work
  Main,       \* the one that creates the proxy
  Tokens,     \* tokens of the build besides the implicit ones
  MaxRequests \* bound on the requests queued at the helper thread

ASSUME ConstantsAssumption ==
  IsFiniteSet(Threads) /\ Main \in Threads /\ Tokens \in Nat /\ MaxRequests \in Nat

VARIABLES
  used,       \* ProxyData::used
  pending,    \* ProxyData::pending
  waiting,    \* threads in wake_pending.wait, the first to be woken first
  pc,
  requests,   \* requests that the helper thread has not taken up
  helper,     \* what the helper thread does with a token
  pipe,       \* tokens in the pipe
  others      \* tokens held by other processes

vars == <<used, pending, waiting, pc, requests, helper, pipe, others>>

Init ==
  /\ used = 1 /\ pending = 0 /\ waiting = <<>>
  /\ pc = [t \in Threads |-> IF t = Main THEN "work" ELSE "idle"]
  /\ requests = 0 /\ helper = "idle"
  /\ pipe \in 0 .. Tokens /\ others = Tokens - pipe

acquire_last_ignored(t) ==
  /\ pc[t] = "idle" /\ requests < MaxRequests
  /\ pc' = [pc EXCEPT ![t] = "wait"]
  /\ requests' = requests + 1
  /\ pending' = pending + 1
  /\ waiting' = Append(waiting, t)
  /\ UNCHANGED <<used, helper, pipe, others>>

\* acquire_thread: take the token that nobody uses, or ask for one and wait.
acquire_thread(t) ==
  /\ pc[t] = "idle"
  /\ \/ /\ used = 0
        /\ used' = 1
        /\ pc' = [pc EXCEPT ![t] = "work"]
        /\ UNCHANGED <<requests, pending, waiting>>
     \/ /\ used # 0 /\ requests < MaxRequests
        /\ requests' = requests + 1
        /\ pending' = pending + 1
        /\ waiting' = Append(waiting, t)
        /\ pc' = [pc EXCEPT ![t] = "wait"]
        /\ UNCHANGED used
  /\ UNCHANGED <<helper, pipe, others>>

\* wake_pending.notify_one, with the program counters after the caller's step.
NotifyOne(p) ==
  IF waiting = <<>>
  THEN pc' = p /\ UNCHANGED waiting
  ELSE pc' = [p EXCEPT ![Head(waiting)] = "work"] /\ waiting' = Tail(waiting)

release_all(t) ==
  /\ pc[t] = "work"
  /\ \/ /\ pending > 0
        /\ pending' = pending - 1
        /\ NotifyOne([pc EXCEPT ![t] = "idle"])
        /\ UNCHANGED used
     \/ /\ pending = 0
        /\ used' = used - 1
        /\ pc' = [pc EXCEPT ![t] = "release_raw"]
        /\ UNCHANGED <<pending, waiting>>
  /\ UNCHANGED <<requests, helper, pipe, others>>

release_to_pipe(t) ==
  /\ pc[t] = "work"
  /\ used' = used - 1
  /\ pc' = [pc EXCEPT ![t] = IF used > 1 THEN "release_raw" ELSE "idle"]
  /\ UNCHANGED <<pending, waiting, requests, helper, pipe, others>>

\* release_thread: hand the token to a waiting thread, or give it back unless
\* it is the last one.
release_thread(t) ==
  /\ pc[t] = "work"
  /\ \/ /\ pending > 0
        /\ pending' = pending - 1
        /\ NotifyOne([pc EXCEPT ![t] = "idle"])
        /\ UNCHANGED used
     \/ /\ pending = 0
        /\ used' = used - 1
        /\ pc' = [pc EXCEPT ![t] = IF used > 1 THEN "release_raw" ELSE "idle"]
        /\ UNCHANGED <<pending, waiting>>
  /\ UNCHANGED <<requests, helper, pipe, others>>

\* client.release_raw, after the mutex is dropped.
release_raw(t) ==
  /\ pc[t] = "release_raw"
  /\ pc' = [pc EXCEPT ![t] = "idle"]
  /\ pipe' = pipe + 1
  /\ UNCHANGED <<used, pending, waiting, requests, helper, others>>

\* The helper thread serves a request: a token from the pipe, or an error,
\* with which the callback does nothing.
helper_acquire ==
  /\ helper = "idle" /\ requests > 0
  /\ requests' = requests - 1
  /\ \/ /\ pipe > 0
        /\ pipe' = pipe - 1
        /\ helper' = "token"
     \/ UNCHANGED <<pipe, helper>>
  /\ UNCHANGED <<used, pending, waiting, pc, others>>

\* The callback of into_helper_thread: the token goes to a waiting thread, or
\* is dropped, after the mutex.
callback ==
  /\ helper = "token"
  /\ \/ /\ pending > 0
        /\ helper' = "idle"
        /\ used' = used + 1
        /\ pending' = pending - 1
        /\ NotifyOne(pc)
     \/ /\ pending = 0
        /\ helper' = "drop"
        /\ UNCHANGED <<used, pending, waiting, pc>>
  /\ UNCHANGED <<requests, pipe, others>>

drop_token ==
  /\ helper = "drop"
  /\ helper' = "idle"
  /\ pipe' = pipe + 1
  /\ UNCHANGED <<used, pending, waiting, pc, requests, others>>

\* Other processes of the build.
others_take == pipe > 0 /\ pipe' = pipe - 1 /\ others' = others + 1
                 /\ UNCHANGED <<used, pending, waiting, pc, requests, helper>>
others_give == others > 0 /\ pipe' = pipe + 1 /\ others' = others - 1
                 /\ UNCHANGED <<used, pending, waiting, pc, requests, helper>>

ThreadStep(t) == release_thread(t) \/ release_raw(t)
HelperStep == helper_acquire \/ callback \/ drop_token

Next ==
  \/ \E t \in Threads : ThreadStep(t) \/ acquire_thread(t)
  \/ HelperStep \/ others_take \/ others_give

Spec == Init /\ [][Next]_vars

\* A thread that works comes to an end or blocks, and then releases; nothing
\* is assumed of the helper thread, of the pipe and of other processes.
FairSpec == Spec /\ \A t \in Threads : WF_vars(ThreadStep(t))

-----------------------------------------------------------------------------
At(loc) == {t \in Threads : pc[t] = loc}

\* Typing: ProxyData's counters never go below zero (the code subtracts from
\* u16 values), and the pipe never holds more than the build's tokens.
TypeOK ==
  /\ used \in Nat /\ pending \in Nat
  /\ waiting \in Seq(Threads)
  /\ pc \in [Threads -> {"idle", "wait", "work", "release_raw"}]
  /\ requests \in Nat
  /\ helper \in {"idle", "token", "drop"}
  /\ pipe \in 0 .. Tokens
  /\ others \in 0 .. Tokens

\* No token is lost, made up, or used twice: those in the pipe, at other
\* processes and in the hands of this process add up, whatever thread is
\* between a decision and carrying it out.  The process keeps its own token:
\* when used is 0 it still counts as held.
TokensConserved ==
  LET held == IF used = 0 THEN 0 ELSE used - 1
      moving == Cardinality(At("release_raw")) + (IF helper = "idle" THEN 0 ELSE 1)
  IN  pipe + others + held + moving = Tokens

\* As many threads work as tokens are in use.
UsedByWorkers == used = Cardinality(At("work"))

\* Threads wait for a token only while one is in use, so that somebody will
\* hand one on; this is what the assertions in acquire_thread (pending is 0
\* when used is 0) and in the callback (used > 0) rely on.
WaitersHaveSource ==
  /\ pending = Len(waiting)
  /\ \A t \in Threads : pc[t] = "wait" <=> \E i \in DOMAIN waiting : waiting[i] = t
  /\ pending > 0 => used > 0

\* A thread that asks for a token gets one, even if the helper never does.
WaiterWorks == \A t \in Threads : pc[t] = "wait" ~> pc[t] = "work"
=============================================================================

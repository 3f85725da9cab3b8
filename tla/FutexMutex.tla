----------------------------- MODULE FutexMutex -----------------------------
(***************************************************************************)
(* std's futex based Mutex (library/std/src/sys/sync/mutex/futex.rs) on    *)
(* Linux's futex_wait / futex_wake (sys/sync/futex/unix.rs).               *)
(*                                                                         *)
(* Every atomic access of the futex word is one step of the thread that    *)
(* makes it, and so is every system call.  The word is the only shared     *)
(* location, so its accesses are totally ordered whatever their            *)
(* `Ordering`: interleaving semantics loses nothing.                       *)
(***************************************************************************)
EXTENDS Naturals, FiniteSets

CONSTANT Threads

ASSUME ThreadsAssumption == Threads # {}

UNLOCKED  == 0
LOCKED    == 1
CONTENDED == 2

VARIABLES
  futex,   \* the futex word
  pc,      \* where each thread is in the code below
  asleep   \* the kernel's queue: threads blocked in the futex system call

vars == <<futex, pc, asleep>>

Idle == "idle"           \* holds nothing, calls nothing
Held == "held"           \* between the return of lock / try_lock and unlock
Locs == {Idle, "lock", "spin", "cas", "swap", "futex_wait", "syscall",
         "blocked", "respin", Held, "wake"}

Goto(t, from, to) == pc[t] = from /\ pc' = [pc EXCEPT ![t] = to]

Init ==
  /\ futex = UNLOCKED
  /\ pc = [t \in Threads |-> Idle]
  /\ asleep = {}

-----------------------------------------------------------------------------
\* try_lock: one compare_exchange, the caller goes on without the lock if it
\* fails.
try_lock(t) ==
  /\ futex = UNLOCKED
  /\ Goto(t, Idle, Held)
  /\ futex' = LOCKED
  /\ UNCHANGED asleep

\* A thread calls lock; nothing is done yet.
call_lock(t) == Goto(t, Idle, "lock") /\ UNCHANGED <<futex, asleep>>

\* lock: the fast compare_exchange; lock_contended when it fails.
lock(t) ==
  \/ /\ futex = UNLOCKED
     /\ Goto(t, "lock", Held)
     /\ futex' = LOCKED
     /\ UNCHANGED asleep
  \/ /\ futex # UNLOCKED
     /\ Goto(t, "lock", "spin")
     /\ UNCHANGED <<futex, asleep>>

\* The first spin of lock_contended.  Its last load decides; a load that sees
\* LOCKED ends the spin only when the spin count is used up, which may happen
\* at any time.
spin(t) ==
  /\ Goto(t, "spin", CASE futex = UNLOCKED  -> "cas"
                       [] futex = LOCKED    -> "swap"
                       [] futex = CONTENDED -> "futex_wait")
  /\ UNCHANGED <<futex, asleep>>

\* The spin after a wake-up: an UNLOCKED word is not taken with
\* compare_exchange but by the swap, which marks it CONTENDED.
respin(t) ==
  /\ Goto(t, "respin", IF futex = CONTENDED THEN "futex_wait" ELSE "swap")
  /\ UNCHANGED <<futex, asleep>>

cas_as_store(t) ==
  /\ Goto(t, "cas", Held)
  /\ futex' = LOCKED
  /\ UNCHANGED asleep

\* lock_contended, the compare_exchange after the first spin.
cas(t) ==
  \/ /\ futex = UNLOCKED
     /\ Goto(t, "cas", Held)
     /\ futex' = LOCKED
     /\ UNCHANGED asleep
  \/ /\ futex # UNLOCKED
     /\ Goto(t, "cas", IF futex = CONTENDED THEN "futex_wait" ELSE "swap")
     /\ UNCHANGED <<futex, asleep>>

swap_forgets_mark(t) ==
  /\ Goto(t, "swap", IF futex = UNLOCKED THEN Held ELSE "futex_wait")
  /\ futex' = IF futex = UNLOCKED THEN LOCKED ELSE CONTENDED
  /\ UNCHANGED asleep

\* lock_contended, the swap at the head of the loop.
swap(t) ==
  /\ Goto(t, "swap", IF futex = UNLOCKED THEN Held ELSE "futex_wait")
  /\ futex' = CONTENDED
  /\ UNCHANGED asleep

\* futex_wait: the load before the system call.
futex_wait(t) ==
  /\ Goto(t, "futex_wait", IF futex = CONTENDED THEN "syscall" ELSE "respin")
  /\ UNCHANGED <<futex, asleep>>

\* The system call: the kernel compares and enqueues atomically.  (A call that
\* is interrupted at once is one that `interrupted` ends.)
syscall(t) ==
  \/ /\ futex = CONTENDED
     /\ Goto(t, "syscall", "blocked")
     /\ asleep' = asleep \cup {t}
     /\ UNCHANGED futex
  \/ /\ futex # CONTENDED
     /\ Goto(t, "syscall", "respin")
     /\ UNCHANGED <<futex, asleep>>

\* A blocked thread leaves the kernel's queue without a futex_wake: on a
\* signal (EINTR: the loop of futex_wait repeats) or spuriously (futex_wait
\* returns true).
interrupted(t) ==
  /\ t \in asleep
  /\ asleep' = asleep \ {t}
  /\ \E to \in {"futex_wait", "respin"} : Goto(t, "blocked", to)
  /\ UNCHANGED futex

\* unlock: the swap; a CONTENDED word obliges the thread to wake.
unlock(t) ==
  /\ Goto(t, Held, IF futex = CONTENDED THEN "wake" ELSE Idle)
  /\ futex' = UNLOCKED
  /\ UNCHANGED asleep

\* wake: futex_wake releases one blocked thread, if there is one.
wake(t) ==
  /\ pc[t] = "wake"
  /\ \/ /\ asleep = {}
        /\ pc' = [pc EXCEPT ![t] = Idle]
        /\ UNCHANGED asleep
     \/ \E w \in asleep :
          /\ asleep' = asleep \ {w}
          /\ pc' = [pc EXCEPT ![t] = Idle, ![w] = "respin"]
  /\ UNCHANGED futex

Progress(t) ==
  \/ lock(t) \/ spin(t) \/ respin(t) \/ cas(t) \/ swap(t)
  \/ futex_wait(t) \/ syscall(t) \/ unlock(t) \/ wake(t)

Next == \E t \in Threads : Progress(t) \/ try_lock(t) \/ call_lock(t) \/ interrupted(t)

Spec == Init /\ [][Next]_vars

\* The scheduler runs every runnable thread and every guard is dropped; no
\* thread has to call lock, and no signal has to arrive.
FairSpec == Spec /\ \A t \in Threads : WF_vars(Progress(t))

-----------------------------------------------------------------------------
\* Typing: the word is one of Mutex's three states, and a thread is in the
\* kernel's queue exactly while it is blocked in futex_wait.
TypeOK ==
  /\ futex \in {UNLOCKED, LOCKED, CONTENDED}
  /\ pc \in [Threads -> Locs]
  /\ asleep = {t \in Threads : pc[t] = "blocked"}

\* At most one thread is between lock and unlock, and the word says so: an
\* UNLOCKED word is never observed while a thread holds the mutex.
MutualExclusion ==
  /\ \A s, t \in Threads : pc[s] = Held /\ pc[t] = Held => s = t
  /\ (futex = UNLOCKED) <=> (\A t \in Threads : pc[t] # Held)

\* A thread that owes the sleepers a wake-up or a CONTENDED mark.
Responsible(t) == pc[t] \in {"wake", "respin", "swap"}

\* No wake-up is lost: while a thread is blocked in the kernel the word is
\* CONTENDED, so that the next unlock wakes, or some thread is on its way to
\* wake a sleeper or to mark the word again.
NoLostWakeup ==
  asleep # {} => futex = CONTENDED \/ \E t \in Threads : Responsible(t)

Contenders == {t \in Threads : pc[t] \notin {Idle, Held, "wake"}}

\* Deadlock freedom of lock: while somebody is inside lock(), somebody gets
\* the mutex.
SomebodyLocks == (Contenders # {}) ~> (\E t \in Threads : pc[t] = Held)
=============================================================================

---------------------------- MODULE FutexRwLock -----------------------------
(***************************************************************************)
(* std's futex based RwLock (library/std/src/sys/sync/rwlock/futex.rs).    *)
(*                                                                         *)
(* Every access that writes a futex word is a step, and so is every load   *)
(* whose value is used later.  A load and the compare_exchange or the      *)
(* system call that only repeats its comparison are one step: the second   *)
(* one decides, and where the first one can end the attempt the step can   *)
(* happen at that moment.                                                  *)
(*                                                                         *)
(* writer_notify is a 32 bit counter of which only "has it changed since   *)
(* this writer's load?" is ever asked: `current` holds the writers whose   *)
(* answer is no.  2^32 notifications between the load and the system call  *)
(* are left out.                                                           *)
(***************************************************************************)
EXTENDS Naturals, FiniteSets

CONSTANTS
  Threads,
  MAX_READERS,  \* 2^30 - 2 in the code
  MaxCalls      \* bound on the calls of each thread

ASSUME ConstantsAssumption ==
  Threads # {} /\ IsFiniteSet(Threads) /\ MAX_READERS \in Nat \ {0} /\ MaxCalls \in Nat

WRITE_LOCKED == MAX_READERS + 1

VARIABLES
  state,    \* the state word: reader count n, readers waiting, writers waiting
  current,  \* writers that have seen the present value of writer_notify
  readers,  \* readers blocked in futex_wait on state
  writers,  \* writers blocked in futex_wait on writer_notify
  seen,     \* the local variable state of read_contended and write_contended
  slept,    \* threads whose has_slept is true
  others,   \* threads whose other_writers_waiting is set
  calls,    \* calls that a thread may still make
  pc

vars == <<state, current, readers, writers, seen, slept, others, calls, pc>>
kernelVars == <<current, readers, writers>>
localVars  == <<seen, slept, others>>

Goto(t, from, to) == pc[t] = from /\ pc' = [pc EXCEPT ![t] = to]

Unlocked == [n |-> 0, rw |-> FALSE, ww |-> FALSE]

is_unlocked(s)     == s.n = 0
is_write_locked(s) == s.n = WRITE_LOCKED

is_read_lockable_inclusive(s) == s.n <= MAX_READERS /\ ~s.rw /\ ~s.ww
is_read_lockable_overtaking(s) == s.n < MAX_READERS /\ ~s.ww
is_read_lockable(s) == s.n < MAX_READERS /\ ~s.rw /\ ~s.ww

is_read_lockable_after_wakeup(s) ==
  s.n < MAX_READERS /\ ~s.rw /\ ~is_write_locked(s) /\ ~is_unlocked(s)

Init ==
  /\ state = Unlocked
  /\ current = {} /\ readers = {} /\ writers = {}
  /\ seen = [t \in Threads |-> Unlocked] /\ slept = {} /\ others = {}
  /\ calls = [t \in Threads |-> MaxCalls]
  /\ pc = [t \in Threads |-> "idle"]

-----------------------------------------------------------------------------
(* Locking. *)

\* A thread decides what to call.
call(t) ==
  /\ calls[t] > 0
  /\ calls' = [calls EXCEPT ![t] = @ - 1]
  /\ Goto(t, "idle", "read") \/ Goto(t, "idle", "write") \/ Goto(t, "idle", "try")
  /\ UNCHANGED <<state, kernelVars, localVars>>

\* try_read and try_write: try_update repeats its compare_exchange until it
\* succeeds or the lock is not available.
try_lock(t) ==
  /\ \/ is_read_lockable(state) /\ Goto(t, "try", "reading") /\ state' = [state EXCEPT !.n = @ + 1]
     \/ is_unlocked(state) /\ Goto(t, "try", "writing") /\ state' = [state EXCEPT !.n = WRITE_LOCKED]
     \/ ~is_unlocked(state) /\ Goto(t, "try", "idle") /\ UNCHANGED state
     \/ ~is_read_lockable(state) /\ Goto(t, "try", "idle") /\ UNCHANGED state
  /\ UNCHANGED <<kernelVars, localVars, calls>>

\* read: the fast path, or read_contended.
read(t) ==
  /\ \/ is_read_lockable(state) /\ Goto(t, "read", "reading") /\ state' = [state EXCEPT !.n = @ + 1]
     \/ Goto(t, "read", "spin_read") /\ UNCHANGED state
  /\ UNCHANGED <<kernelVars, localVars, calls>>

\* write: compare_exchange_weak may fail without a reason.
write(t) ==
  /\ \/ state = Unlocked /\ Goto(t, "write", "writing") /\ state' = [state EXCEPT !.n = WRITE_LOCKED]
     \/ Goto(t, "write", "spin_write") /\ UNCHANGED state
  /\ UNCHANGED <<kernelVars, localVars, calls>>

\* The last load of spin_until.  The spin count may be used up at any time, so
\* any state may be returned.
spin_until(t) ==
  /\ Goto(t, "spin_read", "read_loop") \/ Goto(t, "spin_write", "write_loop")
  /\ seen' = [seen EXCEPT ![t] = state]
  /\ UNCHANGED <<state, kernelVars, slept, others, calls>>

\* compare_exchange from the state seen to new: success, or the present state
\* is loaded and the loop repeated.
Exchanged(t, new) == state = seen[t] /\ state' = new
Changed(t, loop) ==
  /\ state # seen[t]
  /\ Goto(t, loop, loop)
  /\ seen' = [seen EXCEPT ![t] = state]
  /\ UNCHANGED <<state, slept, others>>

\* The call returns, its local variables are gone.
Returns(t, from, to) ==
  /\ Goto(t, from, to)
  /\ seen' = [seen EXCEPT ![t] = Unlocked]
  /\ slept' = slept \ {t}
  /\ others' = others \ {t}

\* One round of read_contended up to futex_wait.
read_contended(t) ==
  LET s == seen[t]
      lockable == is_read_lockable(s) \/ (t \in slept /\ is_read_lockable_after_wakeup(s))
  IN
  /\ \/ /\ lockable
        /\ Exchanged(t, [s EXCEPT !.n = @ + 1])
        /\ Returns(t, "read_loop", "reading")
     \/ \* assert!(!has_reached_max_readers(state))
        /\ ~lockable /\ s.n = MAX_READERS
        /\ Returns(t, "read_loop", "idle")
        /\ UNCHANGED state
     \/ /\ ~lockable /\ s.n # MAX_READERS /\ ~s.rw
        /\ Exchanged(t, [s EXCEPT !.rw = TRUE])
        /\ Goto(t, "read_loop", "read_wait")
        /\ seen' = [seen EXCEPT ![t] = state']
        /\ UNCHANGED <<slept, others>>
     \/ /\ lockable \/ (s.n # MAX_READERS /\ ~s.rw)
        /\ Changed(t, "read_loop")
     \/ /\ ~lockable /\ s.n # MAX_READERS /\ s.rw
        /\ Goto(t, "read_loop", "read_wait")
        /\ UNCHANGED <<state, localVars>>
  /\ UNCHANGED <<kernelVars, calls>>

\* futex_wait(&self.state, state | READERS_WAITING).
read_wait(t) ==
  /\ \/ /\ state = seen[t]
        /\ Goto(t, "read_wait", "read_blocked")
        /\ readers' = readers \cup {t}
        /\ UNCHANGED slept
     \/ /\ state # seen[t]
        /\ Goto(t, "read_wait", "spin_read")
        /\ slept' = slept \cup {t}
        /\ UNCHANGED readers
  /\ UNCHANGED <<state, current, writers, seen, others, calls>>

write_contended_unmarked(t) ==
  LET s == seen[t] IN
  /\ \/ /\ is_unlocked(s)
        /\ Exchanged(t, [s EXCEPT !.n = WRITE_LOCKED])
        /\ Returns(t, "write_loop", "writing")
     \/ /\ ~is_unlocked(s)
        /\ (s.ww /\ UNCHANGED state) \/ (~s.ww /\ Exchanged(t, [s EXCEPT !.ww = TRUE]))
        /\ Goto(t, "write_loop", "load_seq")
        /\ UNCHANGED localVars
     \/ /\ is_unlocked(s) \/ ~s.ww
        /\ Changed(t, "write_loop")
  /\ UNCHANGED <<kernelVars, calls>>

\* One round of write_contended: lock, leaving the mark for the writers that
\* may still sleep, or mark the state ...
write_contended(t) ==
  LET s == seen[t] IN
  /\ \/ /\ is_unlocked(s)
        /\ Exchanged(t, [n |-> WRITE_LOCKED, rw |-> s.rw, ww |-> s.ww \/ t \in others])
        /\ Returns(t, "write_loop", "writing")
     \/ /\ ~is_unlocked(s)
        /\ (s.ww /\ UNCHANGED state) \/ (~s.ww /\ Exchanged(t, [s EXCEPT !.ww = TRUE]))
        /\ Goto(t, "write_loop", "load_seq")
        /\ UNCHANGED localVars
     \/ /\ is_unlocked(s) \/ ~s.ww
        /\ Changed(t, "write_loop")
  /\ UNCHANGED <<kernelVars, calls>>

\* ... then remember the notification counter ...
load_seq(t) ==
  /\ Goto(t, "load_seq", "check_state")
  /\ current' = current \cup {t}
  /\ others' = others \cup {t}
  /\ UNCHANGED <<state, readers, writers, seen, slept, calls>>

\* ... look at the state once more ...
check_state(t) ==
  /\ Goto(t, "check_state", IF is_unlocked(state) \/ ~state.ww THEN "write_loop" ELSE "write_wait")
  /\ seen' = [seen EXCEPT ![t] = state]
  /\ UNCHANGED <<state, kernelVars, slept, others, calls>>

\* ... and futex_wait(&self.writer_notify, seq).
write_wait(t) ==
  /\ \/ t \in current /\ Goto(t, "write_wait", "write_blocked") /\ writers' = writers \cup {t}
     \/ t \notin current /\ Goto(t, "write_wait", "spin_write") /\ UNCHANGED writers
  /\ UNCHANGED <<state, current, readers, localVars, calls>>

\* A signal (the loop of futex_wait compares again) or a spurious wake-up.
interrupted(t) ==
  /\ \/ Goto(t, "read_blocked", "read_wait") /\ UNCHANGED slept
     \/ Goto(t, "read_blocked", "spin_read") /\ slept' = slept \cup {t}
     \/ Goto(t, "write_blocked", "write_wait") /\ UNCHANGED slept
     \/ Goto(t, "write_blocked", "spin_write") /\ UNCHANGED slept
  /\ readers' = readers \ {t} /\ writers' = writers \ {t}
  /\ UNCHANGED <<state, current, seen, others, calls>>

-----------------------------------------------------------------------------
(* Unlocking. *)

\* Where wake_writer_or_readers starts, or goes on, with state s.
WakeFrom(s) ==
  CASE s.n = 0 /\ s.ww /\ ~s.rw -> "wake_only_writers"
    [] s.n = 0 /\ s.ww /\ s.rw  -> "wake_both"
    [] s.n = 0 /\ ~s.ww /\ s.rw -> "wake_readers"
    [] OTHER                    -> "idle"

\* read_unlock: the last reader wakes, if a writer waits.
read_unlock(t) ==
  /\ state' = [state EXCEPT !.n = @ - 1]
  /\ Goto(t, "reading", IF is_unlocked(state') /\ state.ww THEN WakeFrom(state') ELSE "idle")
  /\ UNCHANGED <<kernelVars, localVars, calls>>

write_unlock(t) ==
  /\ state' = [state EXCEPT !.n = 0]
  /\ Goto(t, "writing", WakeFrom(state'))
  /\ UNCHANGED <<kernelVars, localVars, calls>>

\* downgrade: the writer becomes the only reader; then it clears the bit of
\* the waiting readers, and wakes them.
downgrade(t) ==
  /\ state' = [state EXCEPT !.n = 1]
  /\ Goto(t, "writing", IF state.rw THEN "clear_readers" ELSE "reading")
  /\ UNCHANGED <<kernelVars, localVars, calls>>

clear_readers(t) ==
  /\ Goto(t, "clear_readers", "downgrade_wake")
  /\ state' = [state EXCEPT !.rw = FALSE]
  /\ UNCHANGED <<kernelVars, localVars, calls>>

\* wake_writer_or_readers, its compare_exchanges.
wake_writer_or_readers(t) ==
  LET s == [n |-> 0, rw |-> pc[t] # "wake_only_writers", ww |-> pc[t] # "wake_readers"]
  IN
  /\ \/ /\ pc[t] = "wake_only_writers"
        /\ state' = IF state = s THEN Unlocked ELSE state
        /\ pc' = [pc EXCEPT ![t] = IF state = s THEN "notify_writer"
                                   ELSE WakeFrom(state)]
     \/ /\ pc[t] = "wake_both"
        /\ state' = IF state = s THEN [s EXCEPT !.ww = FALSE] ELSE state
        /\ pc' = [pc EXCEPT ![t] = IF state = s THEN "notify_writer_first" ELSE "idle"]
     \/ /\ pc[t] = "wake_readers"
        /\ state' = IF state = s THEN Unlocked ELSE state
        /\ pc' = [pc EXCEPT ![t] = IF state = s THEN "wake_all" ELSE "idle"]
  /\ UNCHANGED <<kernelVars, localVars, calls>>

\* wake_writer: increment writer_notify ...
notify_writer(t) ==
  /\ Goto(t, "notify_writer", "wake_writer") \/ Goto(t, "notify_writer_first", "wake_writer_first")
  /\ current' = {}
  /\ UNCHANGED <<state, readers, writers, localVars, calls>>

wake_writer_only(t) ==
  /\ pc[t] \in {"wake_writer", "wake_writer_first"}
  /\ \/ /\ writers = {}
        /\ pc' = [pc EXCEPT ![t] = "idle"]
        /\ UNCHANGED writers
     \/ \E w \in writers :
          /\ writers' = writers \ {w}
          /\ pc' = [pc EXCEPT ![t] = "idle", ![w] = "spin_write"]
  /\ UNCHANGED <<state, current, readers, localVars, calls>>

\* ... and futex_wake; when both kinds wait and no writer was blocked, the
\* readers are woken after all.
wake_writer(t) ==
  /\ pc[t] \in {"wake_writer", "wake_writer_first"}
  /\ \/ /\ writers = {}
        /\ pc' = [pc EXCEPT ![t] = IF @ = "wake_writer" THEN "idle" ELSE "wake_readers"]
        /\ UNCHANGED writers
     \/ \E w \in writers :
          /\ writers' = writers \ {w}
          /\ pc' = [pc EXCEPT ![t] = "idle", ![w] = "spin_write"]
  /\ UNCHANGED <<state, current, readers, localVars, calls>>

\* futex_wake_all(&self.state), by wake_writer_or_readers or by downgrade.
wake_all(t) ==
  /\ pc[t] \in {"wake_all", "downgrade_wake"}
  /\ readers' = {}
  /\ pc' = [u \in Threads |-> CASE u = t       -> IF pc[t] = "wake_all" THEN "idle" ELSE "reading"
                                [] u \in readers -> "spin_read"
                                [] OTHER         -> pc[u]]
  /\ slept' = slept \cup readers
  /\ UNCHANGED <<state, current, writers, seen, others, calls>>

-----------------------------------------------------------------------------
Progress(t) ==
  \/ try_lock(t) \/ read(t) \/ write(t) \/ spin_until(t) \/ read_contended(t) \/ read_wait(t)
  \/ write_contended(t) \/ load_seq(t) \/ check_state(t) \/ write_wait(t)
  \/ read_unlock(t) \/ write_unlock(t) \/ clear_readers(t)
  \/ wake_writer_or_readers(t) \/ notify_writer(t) \/ wake_writer(t) \/ wake_all(t)

Next == \E t \in Threads : Progress(t) \/ call(t) \/ downgrade(t) \/ interrupted(t)

Spec == Init /\ [][Next]_vars

\* Every runnable thread runs and drops its guards; nothing has to be called
\* or downgraded, and no signal has to come.
FairSpec == Spec /\ \A t \in Threads : WF_vars(Progress(t))

-----------------------------------------------------------------------------
Words == [n : 0 .. WRITE_LOCKED, rw : BOOLEAN, ww : BOOLEAN]

Locs == {"idle", "read", "write", "try", "spin_read", "read_loop", "read_wait", "read_blocked",
         "spin_write", "write_loop", "load_seq", "check_state", "write_wait", "write_blocked",
         "reading", "writing", "clear_readers", "downgrade_wake", "wake_only_writers",
         "wake_both", "wake_readers", "notify_writer", "notify_writer_first", "wake_writer",
         "wake_writer_first", "wake_all"}

\* Typing: the reader count stays within the 30 bits that it shares with the
\* write lock's value, and a thread is in the queue of a futex exactly while
\* it is blocked on it.
TypeOK ==
  /\ state \in Words
  /\ current \in SUBSET Threads
  /\ readers \in SUBSET Threads /\ writers \in SUBSET Threads
  /\ \A t \in Threads : /\ t \in readers <=> pc[t] = "read_blocked"
                        /\ t \in writers <=> pc[t] = "write_blocked"
  /\ seen \in [Threads -> Words]
  /\ slept \in SUBSET Threads /\ others \in SUBSET Threads
  /\ calls \in [Threads -> Nat]
  /\ pc \in [Threads -> Locs]

Reading == {t \in Threads : pc[t] \in {"reading", "clear_readers", "downgrade_wake"}}
Writing == {t \in Threads : pc[t] = "writing"}

\* Readers exclude writers and writers everybody, and the word counts them:
\* even at MAX_READERS a reader is never mistaken for a writer.
Exclusion ==
  /\ \A s, t \in Writing : s = t
  /\ Writing # {} => Reading = {}
  /\ is_write_locked(state) <=> Writing # {}
  /\ Writing = {} => state.n = Cardinality(Reading)

\* "It's impossible for a reader to be waiting on a read-locked RwLock, except
\* if there is also a writer waiting" (read_unlock's debug_assert), but for
\* the moment in which downgrade has not cleared the bit, which "nobody else
\* can unset" (or its fetch_sub would borrow from the rest of the word).
ReadersWaitBehindWriter ==
  LET clearing == \E t \in Threads : pc[t] = "clear_readers" IN
  /\ state.rw /\ Reading # {} => state.ww \/ clearing
  /\ clearing => state.rw

Marks(t) == t \in others /\ pc[t] \in {"spin_write", "write_loop"}
Waking(t) == pc[t] \in {"notify_writer", "notify_writer_first", "wake_writer", "wake_writer_first"}

\* No blocked thread is forgotten.  The bit of its kind is set, or a thread is
\* on its way to wake or, for writers, to set the bit again; and while nobody
\* holds the lock some thread that will wake or take the lock is awake.
SleepersRemembered ==
  /\ readers # {} => state.rw \/ \E t \in Threads : pc[t] \in {"wake_all", "downgrade_wake"}
  /\ writers # {} => state.ww \/ \E t \in Threads : Marks(t) \/ Waking(t)
  /\ readers \cup writers # {} /\ is_unlocked(state) =>
       \E t \in Threads :
         \/ Waking(t) \/ pc[t] \in {"wake_only_writers", "wake_both", "wake_readers", "wake_all"}
         \/ pc[t] \in {"spin_write", "write_loop", "load_seq", "check_state"}
         \/ pc[t] = "write_wait" /\ t \notin current

\* Every call of read and write returns, readers behind writers included, and
\* no wake-up is missed on the way: with finitely many calls, and guards that
\* are dropped, all threads are idle in the end.
AllServed == <>[](\A t \in Threads : pc[t] = "idle")
=============================================================================

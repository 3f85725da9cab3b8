----------------------------- MODULE QueryJobs ------------------------------
(***************************************************************************)
(* Parallel query execution in rustc:                                      *)
(*   compiler/rustc_query_impl/src/execution.rs   try_execute_query        *)
(*   compiler/rustc_middle/src/query/job.rs       QueryJob, QueryLatch     *)
(*   compiler/rustc_query_impl/src/job.rs         break_query_cycle        *)
(*   compiler/rustc_interface/src/util.rs         the deadlock handler     *)
(*   compiler/rustc_thread_pool                   blocked / active counts, *)
(*                                                join and its waiting     *)
(*                                                                         *)
(* Workers run stacks of frames.  A frame is a query job, or a task: a     *)
(* closure given to the pool, which runs with the query that was current   *)
(* where it was created.  A provider asks for the queries of its call set  *)
(* in any order and may hand part of them to a task (rustc_thread_pool's   *)
(* join).  A query runs at most once (OneRun), so its key stands for its   *)
(* QueryJobId and for its latch.                                           *)
(*                                                                         *)
(* When an idle or joining worker sleeps, and whom a new job wakes, is     *)
(* left open here; the protocol behind it is in sleep/mod.rs.  The dep     *)
(* graph and the values of queries are left out.                           *)
(***************************************************************************)
EXTENDS WaitGraph, SequencesExt

CONSTANTS
  Workers,
  Keys,
  CallGraphs,   \* what each provider asks for: a subset of [Keys -> SUBSET Keys]
  Roots,        \* queries asked for by code outside all queries, a task each
  Forks,        \* queries whose provider runs part of its work in a join
  Panics        \* queries whose provider may panic

ASSUME ConstantsAssumption ==
  /\ IsFiniteSet(Workers) /\ IsFiniteSet(Keys)
  /\ None \notin Keys \cup Workers
  /\ \A J \in SUBSET Keys : J # None
  /\ \A k \in Keys, w \in Workers : [waitee |-> k, waiter |-> w] # None
  /\ CallGraphs \subseteq [Keys -> SUBSET Keys]
  /\ Roots \subseteq Keys /\ Forks \subseteq Keys /\ Panics \subseteq Keys

VARIABLES
  calls,     \* the call graph of this execution
  cache,     \* keys with a value in the query cache
  active,    \* QueryState::active: "vacant", "started" or "poisoned"
  parent,    \* QueryJob::parent of a started key
  latch,     \* QueryJob::latch: "none", "open", or "complete" (its waiters are None)
  waiters,   \* the threads in a latch's list of waiters
  wlock,     \* who holds the mutex around that list
  cycle,     \* QueryWaiter::cycle of a waiting thread: None, or the jobs of a cycle
  stack,     \* frames of each worker, the running one first
  pc,        \* where each worker is
  want,      \* the key a worker is asking for
  task,      \* the task forked by a key
  todo,      \* root tasks that no worker has taken
  count,     \* SleepData: active_threads, blocked_threads
  handler    \* the deadlock handler threads

poolVars  == <<task, todo>>
latchVars == <<latch, waiters, wlock, cycle>>
mapVars   == <<cache, active, parent>>
vars == <<calls, mapVars, latchVars, stack, pc, want, poolVars, count, handler>>

-----------------------------------------------------------------------------
Frame == [key : Keys \cup {None}, left : SUBSET Keys, is_task : BOOLEAN, bad : BOOLEAN]

QueryFrame(k)      == [key |-> k, left |-> calls[k], is_task |-> FALSE, bad |-> FALSE]
TaskFrame(k, left) == [key |-> k, left |-> left, is_task |-> TRUE, bad |-> FALSE]

NoTask == [st |-> "none", left |-> {}]

Top(w) == Head(stack[w])

\* current_query_job: the query in the thread's ImplicitCtxt.
Current(w) == IF stack[w] = <<>> THEN None ELSE Top(w).key

Goto(w, from, to) == pc[w] = from /\ pc' = [pc EXCEPT ![w] = to]

Asleep(w) == pc[w] \in {"idle_asleep", "join_asleep"}
Awake(p)  == IF p = "idle_asleep" THEN "idle" ELSE "joining"

Started == {k \in Keys : active[k] = "started"}

\* collect_active_query_jobs and abstracted_waiters_of: the jobs in the
\* active maps, each with its parent and the waiters of its latch.
WaitersOf(k) ==
  <<[parent |-> parent[k], resumable |-> None]>>
    \o [i \in DOMAIN waiters[k] |->
          [parent |-> Current(waiters[k][i]), resumable |-> waiters[k][i]]]
JobMap == [k \in Started |-> WaitersOf(k)]

Init ==
  /\ calls \in CallGraphs
  /\ cache = {}
  /\ active = [k \in Keys |-> "vacant"]
  /\ parent = [k \in Keys |-> None]
  /\ latch = [k \in Keys |-> "none"]
  /\ waiters = [k \in Keys |-> <<>>]
  /\ wlock = [k \in Keys |-> None]
  /\ cycle = [w \in Workers |-> None]
  /\ stack = [w \in Workers |-> <<>>]
  /\ pc = [w \in Workers |-> "idle"]
  /\ want = [w \in Workers |-> None]
  /\ task = [k \in Keys |-> NoTask]
  /\ todo = Roots
  /\ count = [active |-> Cardinality(Workers), blocked |-> 0]
  /\ handler = [spawned |-> 0, pc |-> "off", waiter |-> None]

-----------------------------------------------------------------------------
(* The thread pool. *)

\* Sleep::wake_specific_thread on each thread of S: it is awake, and counted
\* as active by whoever wakes it.
Woken(S) == [w \in Workers |-> IF w \in S THEN Awake(pc[w]) ELSE pc[w]]

\* deadlock_check, once the counters are c.
DeadlockCheck(c) ==
  handler' = IF c.active = 0 /\ c.blocked > 0
             THEN [handler EXCEPT !.spawned = @ + 1] ELSE handler

\* A worker without frames finds a task, pushed by another worker or
\* injected; work_found wakes at most two sleepers.
find_work(w) ==
  \E S \in SUBSET {v \in Workers : Asleep(v)} :
    /\ Cardinality(S) <= 2
    /\ pc[w] = "idle"
    /\ pc' = [Woken(S) EXCEPT ![w] = "run"]
    /\ count' = [count EXCEPT !.active = @ + Cardinality(S)]
    /\ \/ \E r \in todo :
            /\ todo' = todo \ {r}
            /\ stack' = [stack EXCEPT ![w] = <<TaskFrame(None, {r})>>]
            /\ UNCHANGED task
       \/ \E k \in Keys :
            /\ task[k].st = "pending"
            /\ task' = [task EXCEPT ![k].st = "taken"]
            /\ stack' = [stack EXCEPT ![w] = <<TaskFrame(k, task[k].left)>>]
            /\ UNCHANGED todo
    /\ UNCHANGED <<calls, mapVars, latchVars, want, handler>>

sleep_unchecked(w) ==
  /\ \/ todo = {} /\ Goto(w, "idle", "idle_asleep")
     \/ Goto(w, "joining", "join_asleep") /\ task[Top(w).key].st = "taken"
  /\ count' = [count EXCEPT !.active = @ - 1]
  /\ UNCHANGED <<calls, mapVars, latchVars, stack, want, poolVars, handler>>

\* Sleep::sleep, the part that is visible here.  has_injected_job keeps a
\* thread that steals from sleeping while an injected job waits, and the latch
\* that a joining thread waits for has to be unset.
sleep(w) ==
  /\ \/ todo = {} /\ Goto(w, "idle", "idle_asleep")
     \/ Goto(w, "joining", "join_asleep") /\ task[Top(w).key].st = "taken"
  /\ count' = [count EXCEPT !.active = @ - 1]
  /\ DeadlockCheck(count')
  /\ UNCHANGED <<calls, mapVars, latchVars, stack, want, poolVars>>

\* join_context pushes the task before it runs its own half; the push wakes
\* at most one sleeper.
fork(w, left) ==
  LET k == Top(w).key IN
  /\ pc[w] = "run" /\ ~Top(w).is_task /\ ~Top(w).bad /\ k \in Forks
  /\ task[k].st = "none"
  /\ left \subseteq Top(w).left
  /\ stack' = [stack EXCEPT ![w][1].left = @ \ left]
  /\ task' = [task EXCEPT ![k] = [st |-> "pending", left |-> left]]
  /\ \E S \in SUBSET {v \in Workers : Asleep(v)} :
       /\ Cardinality(S) <= 1
       /\ pc' = Woken(S)
       /\ count' = [count EXCEPT !.active = @ + Cardinality(S)]
  /\ UNCHANGED <<calls, mapVars, latchVars, want, todo, handler>>

\* wait_for_jobs: a task that is still in the own deque is run inline ...
run_inline(w) ==
  LET k == Top(w).key IN
  /\ pc[w] = "run" /\ ~Top(w).is_task /\ Top(w).left = {}
  /\ task[k].st = "pending"
  /\ task' = [task EXCEPT ![k].st = "taken"]
  /\ stack' = [stack EXCEPT ![w] = <<TaskFrame(k, task[k].left)>> \o @]
  /\ UNCHANGED <<calls, mapVars, latchVars, pc, want, todo, count, handler>>

\* ... for a stolen one the worker waits without stealing anything else.
wait_until(w) ==
  LET k == Top(w).key IN
  /\ \/ /\ Goto(w, "run", "joining")
        /\ ~Top(w).is_task /\ Top(w).left = {} /\ task[k].st = "taken"
     \/ /\ Goto(w, "joining", "run")
        /\ task[k].st \in {"done", "panicked"}
  /\ UNCHANGED <<calls, mapVars, latchVars, stack, want, poolVars, count, handler>>

\* A task ends: JobResult records a panic, and its latch wakes the owner if
\* the owner sleeps on it.
finish_task(w) ==
  LET f == Top(w)
      owner == {v \in Workers : pc[v] = "join_asleep" /\ Current(v) = f.key}
  IN
  /\ pc[w] = "run" /\ f.is_task /\ f.left = {}
  /\ stack' = [stack EXCEPT ![w] = Tail(@)]
  /\ IF f.key = None
     THEN UNCHANGED task
     ELSE task' = [task EXCEPT ![f.key] = [st   |-> IF f.bad THEN "panicked" ELSE "done",
                                           left |-> {}]]
  /\ pc' = [Woken(owner) EXCEPT ![w] = IF stack'[w] = <<>> THEN "idle" ELSE "run"]
  /\ count' = [count EXCEPT !.active = @ + Cardinality(owner)]
  /\ UNCHANGED <<calls, mapVars, latchVars, want, todo, handler>>

-----------------------------------------------------------------------------
(* Asking for a query. *)

\* The frame asks for k: the cache is looked at without any lock first.
ask(w, k) ==
  /\ pc[w] = "run" /\ k \in Top(w).left
  /\ stack' = [stack EXCEPT ![w][1].left = @ \ {k}]
  /\ IF k \in cache
     THEN UNCHANGED <<pc, want>>
     ELSE pc' = [pc EXCEPT ![w] = "try"] /\ want' = [want EXCEPT ![w] = k]
  /\ UNCHANGED <<calls, mapVars, latchVars, poolVars, count, handler>>

\* The stack of w with its running frame unwinding.
Unwound(w) == [stack EXCEPT ![w][1] = [@ EXCEPT !.bad = TRUE, !.left = {}]]

\* The user code of a frame panics.
panic(w) ==
  /\ pc[w] = "run" /\ ~Top(w).is_task /\ Top(w).key \in Panics
  /\ ~Top(w).bad
  /\ stack' = Unwound(w)
  /\ UNCHANGED <<calls, mapVars, latchVars, pc, want, poolVars, count, handler>>

\* The call returns (or, for Unwound, raises) in the frame that made it.
Returns(w) == Goto(w, "try", "run") /\ want' = [want EXCEPT ![w] = None]

start_orphan(w) ==
  LET k == want[w] IN
  /\ active[k] = "vacant"
  /\ active' = [active EXCEPT ![k] = "started"]
  /\ parent' = [parent EXCEPT ![k] = None]
  /\ stack' = [stack EXCEPT ![w] = <<QueryFrame(k)>> \o @]
  /\ Returns(w)
  /\ UNCHANGED <<calls, cache, latchVars, poolVars, count, handler>>

\* Entry::Vacant: a new job, its parent the current query.
start_job(w) ==
  LET k == want[w] IN
  /\ active[k] = "vacant"
  /\ active' = [active EXCEPT ![k] = "started"]
  /\ parent' = [parent EXCEPT ![k] = Current(w)]
  /\ stack' = [stack EXCEPT ![w] = <<QueryFrame(k)>> \o @]
  /\ Returns(w)
  /\ UNCHANGED <<calls, cache, latchVars, poolVars, count, handler>>

\* Entry::Occupied: Started, get the job's latch; Poisoned, FatalError.
get_latch(w) ==
  /\ active[want[w]] = "started"
  /\ latch' = [latch EXCEPT ![want[w]] = "open"]
  /\ Goto(w, "try", "wait_on")
  /\ UNCHANGED <<calls, mapVars, waiters, wlock, cycle, stack, want, poolVars, count, handler>>

raise_fatal(w) ==
  /\ active[want[w]] = "poisoned"
  /\ stack' = Unwound(w)
  /\ Returns(w)
  /\ UNCHANGED <<calls, mapVars, latchVars, poolVars, count, handler>>

hit_cache(w) ==
  /\ want[w] \in cache
  /\ Returns(w)
  /\ UNCHANGED <<calls, mapVars, latchVars, stack, poolVars, count, handler>>

try_execute_query_unchecked(w) ==
  /\ pc[w] = "try"
  /\ start_job(w) \/ get_latch(w) \/ raise_fatal(w)

\* try_execute_query, with the shard locked: a second look at the cache, then
\* at the entry of the active map.
try_execute_query(w) ==
  /\ pc[w] = "try"
  /\ \/ hit_cache(w)
     \/ want[w] \notin cache /\ (start_job(w) \/ get_latch(w) \/ raise_fatal(w))

-----------------------------------------------------------------------------
(* QueryLatch. *)

wait_on_unlocked(w) ==
  LET k == want[w] IN
  /\ pc[w] = "wait_on" /\ wlock[k] = None
  /\ \/ /\ latch[k] = "complete"
        /\ Goto(w, "wait_on", "waited")
        /\ UNCHANGED waiters
     \/ /\ latch[k] # "complete"
        /\ Goto(w, "wait_on", "mark_blocked")
        /\ waiters' = [waiters EXCEPT ![k] = Append(@, w)]
  /\ UNCHANGED <<calls, mapVars, latch, wlock, cycle, stack, want, poolVars, count, handler>>

\* wait_on: lock the list; a completed latch returns at once, an open one
\* gets a new waiter.
wait_on(w) ==
  LET k == want[w] IN
  /\ pc[w] = "wait_on" /\ wlock[k] = None
  /\ \/ /\ latch[k] = "complete"
        /\ Goto(w, "wait_on", "waited")
        /\ UNCHANGED <<waiters, wlock>>
     \/ /\ latch[k] # "complete"
        /\ Goto(w, "wait_on", "mark_blocked")
        /\ waiters' = [waiters EXCEPT ![k] = Append(@, w)]
        /\ wlock' = [wlock EXCEPT ![k] = w]
  /\ UNCHANGED <<calls, mapVars, latch, cycle, stack, want, poolVars, count, handler>>

\* mark_blocked_and_wait: the thread counts itself blocked and looks for a
\* deadlock, the list still locked.
mark_blocked(w) ==
  /\ Goto(w, "mark_blocked", "wait")
  /\ count' = [active |-> count.active - 1, blocked |-> count.blocked + 1]
  /\ DeadlockCheck(count')
  /\ UNCHANGED <<calls, mapVars, latchVars, stack, want, poolVars>>

\* condvar.wait: enqueue on the condition variable and unlock, in one step.
condvar_wait(w) ==
  /\ Goto(w, "wait", "waiting")
  /\ wlock' = [wlock EXCEPT ![want[w]] = None]
  /\ UNCHANGED <<calls, mapVars, latch, waiters, cycle, stack, want, poolVars, count, handler>>

\* condvar.wait returns with the list locked; the guard is dropped at once.
condvar_return(w) ==
  /\ Goto(w, "notified", "waited")
  /\ wlock[want[w]] = None
  /\ UNCHANGED <<calls, mapVars, latchVars, stack, want, poolVars, count, handler>>

\* wait_for_query after the wait: a cycle error is handled (the error value is
\* used, or the compilation aborts); otherwise the value is in the cache, or
\* the query was poisoned and the panic goes on.
wait_for_query(w) ==
  LET k == want[w] IN
  /\ Goto(w, "waited", "run")
  /\ want' = [want EXCEPT ![w] = None]
  /\ cycle' = [cycle EXCEPT ![w] = None]
  /\ \/ cycle[w] # None /\ stack' \in {stack, Unwound(w)}
     \/ cycle[w] = None /\ k \in cache /\ UNCHANGED stack
     \/ cycle[w] = None /\ k \notin cache /\ active[k] = "poisoned" /\ stack' = Unwound(w)
  /\ UNCHANGED <<calls, mapVars, latch, waiters, wlock, poolVars, count, handler>>

\* condvar.notify_one for each thread of S: only a thread that waits is
\* notified.
Notified(S) ==
  [w \in Workers |-> IF w \in S /\ pc[w] = "waiting" THEN "notified" ELSE pc[w]]

-----------------------------------------------------------------------------
(* The end of a query job. *)

\* The provider of the running query has returned, or is unwinding, and the
\* task it forked has ended.
Ends(w) ==
  /\ pc[w] = "run" /\ stack[w] # <<>> /\ ~Top(w).is_task /\ Top(w).left = {}
  /\ task[Top(w).key].st \in {"none", "done", "panicked"}

Unwinds(w) == Top(w).bad \/ task[Top(w).key].st = "panicked"

\* ActiveJobGuard::complete: first the value is put into the cache ...
complete(w) ==
  /\ Ends(w) /\ ~Unwinds(w)
  /\ cache' = cache \cup {Top(w).key}
  /\ pc' = [pc EXCEPT ![w] = "remove"]
  /\ UNCHANGED <<calls, active, parent, latchVars, stack, want, poolVars, count, handler>>

\* ... then the job leaves the active map.
drop_entry(w) ==
  /\ Goto(w, "remove", "signal")
  /\ active' = [active EXCEPT ![Top(w).key] = "vacant"]
  /\ UNCHANGED <<calls, cache, parent, latchVars, stack, want, poolVars, count, handler>>

poison_vacant(w) ==
  /\ Ends(w) /\ Unwinds(w)
  /\ active' = [active EXCEPT ![Top(w).key] = "vacant"]
  /\ pc' = [pc EXCEPT ![w] = "signal"]
  /\ UNCHANGED <<calls, cache, parent, latchVars, stack, want, poolVars, count, handler>>

\* The guard is dropped by a panic: the entry becomes Poisoned.
poison(w) ==
  /\ Ends(w) /\ Unwinds(w)
  /\ active' = [active EXCEPT ![Top(w).key] = "poisoned"]
  /\ pc' = [pc EXCEPT ![w] = "signal"]
  /\ UNCHANGED <<calls, cache, parent, latchVars, stack, want, poolVars, count, handler>>

set_without_unblocking(w) ==
  LET k == Top(w).key IN
  /\ pc[w] = "signal"
  /\ wlock[k] = None
  /\ latch' = [latch EXCEPT ![k] = IF @ = "open" THEN "complete" ELSE @]
  /\ waiters' = [waiters EXCEPT ![k] = <<>>]
  /\ stack' = [stack EXCEPT ![w] =
                 IF active[k] = "poisoned"
                 THEN <<[Tail(@)[1] EXCEPT !.bad = TRUE, !.left = {}]>> \o Tail(Tail(@))
                 ELSE Tail(@)]
  /\ pc' = [Notified(ToSet(waiters[k])) EXCEPT ![w] = "run"]
  /\ UNCHANGED <<calls, mapVars, wlock, cycle, want, poolVars, count, handler>>

\* signal_complete and QueryLatch::set: with the list locked, mark_unblocked
\* and notify_one for each waiter.  They need the lock to go on, so the loop
\* is one step.  Then the frame is left: by a return, or by unwinding into
\* the frame below.
set(w) ==
  LET k == Top(w).key IN
  /\ pc[w] = "signal"
  /\ wlock[k] = None
  /\ latch' = [latch EXCEPT ![k] = IF @ = "open" THEN "complete" ELSE @]
  /\ waiters' = [waiters EXCEPT ![k] = <<>>]
  /\ count' = [active  |-> count.active + Len(waiters[k]),
               blocked |-> count.blocked - Len(waiters[k])]
  /\ stack' = [stack EXCEPT ![w] =
                 IF active[k] = "poisoned"
                 THEN <<[Tail(@)[1] EXCEPT !.bad = TRUE, !.left = {}]>> \o Tail(Tail(@))
                 ELSE Tail(@)]
  /\ pc' = [Notified(ToSet(waiters[k])) EXCEPT ![w] = "run"]
  /\ UNCHANGED <<calls, mapVars, wlock, cycle, want, poolVars, handler>>

-----------------------------------------------------------------------------
(* The deadlock handler: a thread of its own. *)

\* The map of jobs is collected and searched from any job that leads to a
\* cycle; reading the waiters of a latch takes its lock.  The waiter found is
\* extracted and given the cycle.
find_and_process_cycle(k) ==
  /\ handler.spawned > 0 /\ handler.pc = "off"
  /\ \A j \in Keys : wlock[j] = None
  /\ k \in Endless(JobMap)
  /\ \E waitee \in Started, waiter \in Workers :
       /\ ResumedFrom(JobMap, k) = [waitee |-> waitee, waiter |-> waiter]
       /\ \E i \in DOMAIN waiters[waitee] :
            /\ waiters[waitee][i] = waiter
            /\ waiters' = [waiters EXCEPT ![waitee] = RemoveAt(@, i)]
       /\ cycle' = [cycle EXCEPT ![waiter] = CycleFrom(JobMap, k)]
       /\ handler' = [spawned |-> handler.spawned - 1, pc |-> "unblock", waiter |-> waiter]
  /\ UNCHANGED <<calls, mapVars, latch, wlock, stack, pc, want, poolVars, count>>

\* break_query_cycle: mark_unblocked ...
unblock_resumed ==
  /\ handler.pc = "unblock"
  /\ handler' = [handler EXCEPT !.pc = "notify"]
  /\ count' = [active |-> count.active + 1, blocked |-> count.blocked - 1]
  /\ UNCHANGED <<calls, mapVars, latchVars, stack, pc, want, poolVars>>

\* ... and notify_one, which has to find the thread waiting.
notify_resumed ==
  /\ handler.pc = "notify"
  /\ handler' = [handler EXCEPT !.pc = "off", !.waiter = None]
  /\ pc' = Notified({handler.waiter})
  /\ UNCHANGED <<calls, mapVars, latchVars, stack, want, poolVars, count>>

-----------------------------------------------------------------------------
Step(w) ==
  \/ find_work(w) \/ sleep(w) \/ run_inline(w) \/ wait_until(w) \/ finish_task(w)
  \/ \E k \in Keys : ask(w, k)
  \/ try_execute_query(w) \/ wait_on(w) \/ mark_blocked(w)
  \/ condvar_wait(w) \/ condvar_return(w) \/ wait_for_query(w)
  \/ complete(w) \/ drop_entry(w) \/ poison(w) \/ set(w)

Handle ==
  \/ \E k \in Keys : find_and_process_cycle(k)
  \/ unblock_resumed \/ notify_resumed

Next ==
  \/ \E w \in Workers :
       \/ Step(w) \/ panic(w)
       \/ \E left \in SUBSET Keys : fork(w, left)
  \/ Handle

Spec == Init /\ [][Next]_vars

\* The operating system runs every thread that can run, a worker that finds
\* nothing to do goes to sleep after ROUNDS_UNTIL_SLEEPING rounds, and parking_lot's
\* mutexes do not starve anybody.  Nothing has to panic or to be forked.
FairSpec ==
  Spec /\ WF_vars(Handle) /\ \A w \in Workers : WF_vars(Step(w))

-----------------------------------------------------------------------------
Locs == {"idle", "idle_asleep", "run", "joining", "join_asleep", "try", "wait_on",
         "mark_blocked", "wait", "waiting", "notified", "waited", "remove", "signal"}

\* Typing of the active map, the latches, the stacks and SleepData's counts,
\* which never go below zero or above the number of threads.
TypeOK ==
  /\ calls \in [Keys -> SUBSET Keys]
  /\ cache \in SUBSET Keys
  /\ active \in [Keys -> {"vacant", "started", "poisoned"}]
  /\ parent \in [Keys -> Keys \cup {None}]
  /\ latch \in [Keys -> {"none", "open", "complete"}]
  /\ waiters \in [Keys -> Seq(Workers)]
  /\ wlock \in [Keys -> Workers \cup {None}]
  /\ cycle \in [Workers -> {None} \cup SUBSET Keys]
  /\ stack \in [Workers -> Seq(Frame)]
  /\ pc \in [Workers -> Locs]
  /\ want \in [Workers -> Keys \cup {None}]
  /\ task \in [Keys -> [st : {"none", "pending", "taken", "done", "panicked"}, left : SUBSET Keys]]
  /\ todo \in SUBSET Roots
  /\ count \in [active : 0 .. Cardinality(Workers), blocked : 0 .. Cardinality(Workers)]
  /\ handler \in [spawned : Nat, pc : {"off", "unblock", "notify"},
                   waiter : Workers \cup {None}]

\* The query jobs on the stack of w.
Running(w) == {i \in DOMAIN stack[w] : ~stack[w][i].is_task}

\* A query is executed by one thread at a time, once: never while its value is
\* in the cache (but for the thread that has just put it there), nor after it
\* was poisoned ("so no other thread can re-execute this query").
OneRun ==
  \A v, w \in Workers : \A i \in Running(v), j \in Running(w) :
    LET k == stack[v][i].key IN
    /\ stack[w][j].key = k => v = w /\ i = j
    /\ k \in cache => i = 1 /\ pc[v] \in {"remove", "signal"}
    /\ active[k] # "started" => i = 1 /\ pc[v] = "signal"

\* After a wait that no cycle ended, the query has a value or is poisoned:
\* "query result must be in the cache or the query must be poisoned after a
\* wait".
ResultAfterWait ==
  \A w \in Workers :
    pc[w] = "waited" /\ cycle[w] = None => want[w] \in cache \/ active[want[w]] = "poisoned"

\* No thread waits for a wake-up that nobody owes it: the query it waits on is
\* still executed and lists it as a waiter, or somebody is on the way to
\* notify it.
WaitersListed ==
  \A w \in Workers :
    pc[w] \in {"mark_blocked", "wait", "waiting"} =>
      \/ w \in ToSet(waiters[want[w]]) /\ active[want[w]] = "started"
      \/ w = handler.waiter /\ handler.pc # "off"
      \/ \E v \in Workers : /\ pc[v] = "signal" /\ Top(v).key = want[w]
                            /\ w \in ToSet(waiters[want[w]])

\* SleepData's counters stay in their range and are the numbers of threads they
\* claim to be.  A thread is blocked until whoever takes it off a latch's list
\* says so.
CountsExact ==
  /\ TypeOK
  /\ LET blocked == {w \in Workers : \/ pc[w] \in {"wait", "waiting"} /\ w # handler.waiter
                                     \/ w = handler.waiter /\ handler.pc = "unblock"}
         asleep == {w \in Workers : Asleep(w)}
     IN  /\ count.blocked = Cardinality(blocked)
         /\ count.active + Cardinality(blocked) + Cardinality(asleep) = Cardinality(Workers)

\* The deadlock handler runs alone, while no worker can hold the lock of a
\* shard ("Failed to collect active jobs"), and when there is a cycle that it
\* can find from some job, resume and report ("unable to find a query cycle",
\* `resumable.unwrap()`, `entry_points[0]` and the indexing of the job map do
\* not panic).
HandlerFindsCycle ==
  handler.spawned > 0 =>
    LET graph == JobMap IN
    /\ handler.spawned = 1 /\ handler.pc = "off"
    /\ \A w \in Workers : Asleep(w) \/ pc[w] \in {"wait", "waiting"}
    /\ \A k \in Started : \A i \in DOMAIN graph[k] : graph[k][i].parent \in Started \cup {None}
    /\ Endless(graph) # {}
    /\ \A k \in Endless(graph) :
         /\ ResumedFrom(graph, k) # None
         /\ EntryPoints(graph, CycleFrom(graph, k)) # {}

\* Waiters and their wake-ups find each other: nobody waits in vain, and
\* notify_one is only called for threads that are in condvar.wait, so that
\* "unable to wake the waiter" is not reached and QueryLatch::set forgets
\* nobody.
NotifyFindsWaiter ==
  /\ WaitersListed
  /\ handler.pc = "notify" => pc[handler.waiter] = "waiting"
  /\ \A k \in Keys : wlock[k] = None =>
       \A w \in ToSet(waiters[k]) : pc[w] = "waiting" /\ want[w] = k

\* The thread that is resumed to break a cycle waits on a query of that cycle,
\* from a query of that cycle: "it will break the cycle by finding an edge
\* which uses a query latch and then resuming that waiter".
ResumedWaiterOnCycle ==
  handler.pc # "off" =>
    LET w == handler.waiter IN want[w] \in cycle[w] /\ Current(w) \in cycle[w]

\* Nothing hangs: in the end every root task has run and no worker is inside
\* a query, so every query that was started has ended, with a value or
\* poisoned, whatever cycles the call graph has.
Settles == <>[](todo = {} /\ \A w \in Workers : stack[w] = <<>>)
=============================================================================

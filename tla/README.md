# A TLA+ model of the concurrent core of this compiler

The repository is a fork of the Rust compiler. Its own addition, teeny, is a
backend that translates MIR to Triton MLIR; it is called, like every other
part of the compiler, through the query system, on the compiler's thread pool.
What the whole compiler rests on, and what tests hardly reach, is the protocol
code underneath: queries that wait for each other across threads, a pool that
sleeps and wakes, results reused from an earlier session, a back end of threads
that talk by messages, tokens shared with the rest of the build, a directory
shared with other compilers, and the locks of the standard library. That is what
this project models.

Every run is `tlc -config <cfg> <module>` in this directory, every proof
`tlapm <module>.tla`. `PROJECT.json` lists the runs, the source lines behind
every definition, the mutants that show that each property can fail, the
hazards, the findings and the theorems.

## 1. Inventory

| Component | State | Operations | Hard behaviours | What makes it correct |
|---|---|---|---|---|
| Query execution (`rustc_query_impl/execution.rs`, `rustc_middle/query/job.rs`) | the cache and the active map of each query, sharded and locked; a job's parent and latch; a latch's list of waiters | `try_execute_query`, `wait_for_query`, `ActiveJobGuard::{complete, drop}`, `QueryLatch::{wait_on, set}` | two threads ask for one key; the job ends between the look-up and the wait; providers panic while others wait | a query runs once, whoever waits is woken and finds a value or poison |
| Cycle handling (`rustc_query_impl/job.rs`, `rustc_interface/util.rs`) | none of its own: it reads all active maps and latches | `break_query_cycle`, `find_cycle`, `connected_to_root`, `process_cycle` | runs only when everything else stands still, from whichever thread came last | a cycle is always found, reported and opened; nothing hangs |
| Thread pool, sleeping (`rustc_thread_pool/sleep`) | packed counters (sleeping, inactive, jobs events), `is_blocked` per worker, active and blocked counts | `no_work_found`, `sleep`, `new_jobs`, `wake_any_threads`, `wake_specific_thread`, `mark_blocked`, `mark_unblocked` | a job or a latch arrives while a worker falls asleep; the counter wraps | no wake-up is lost; the counts are exact, since the deadlock check acts on them |
| Thread pool, latches (`latch.rs`) | four states per latch | `get_sleepy`, `fall_asleep`, `wake_up`, `set`, wait of external threads | set against falling asleep | the owner sees the latch or is woken |
| Thread pool, registry and join (`registry.rs`, `join/mod.rs`, `job.rs`) | injector, deques, terminate latches | `inject`, `join_context`, `wait_for_jobs`, `find_work`, `terminate` | stealing, a panic in either half of a join | every job is run, every join returns, the pool ends |
| Jobserver proxy (`rustc_data_structures/jobserver.rs`) | `used`, `pending`, a condition variable; the pipe outside | `acquire_thread`, `release_thread`, the helper's callback | tokens are decided on under a lock and moved after it; the helper may fail or answer late | tokens are neither lost nor made up; nobody waits in vain |
| std `Mutex` (`sys/sync/mutex/futex.rs`) | one word, the kernel's queue | `try_lock`, `lock`, `lock_contended`, `spin`, `unlock`, `wake` | waking, spurious returns and signals | exclusion, no lost wake-up |
| std `RwLock` (`sys/sync/rwlock/futex.rs`) | a word with a count and two bits, a notification counter, two queues | read and write, their `try_` forms and contended paths, both unlocks, `downgrade`, waking | waking hands over between two futexes; the reader count next to the write lock's value | exclusion, no sleeper of either kind forgotten |
| std `Condvar`, `Barrier` (`sys/sync/condvar/futex.rs`, `sync/barrier.rs`) | a counter of notifications, a queue; count and generation | `wait`, `wait_timeout`, `notify_one`, `notify_all`; `Barrier::wait` | a notification between unlock and sleep; threads of two generations at once | nobody passes a barrier early, one leader each, all released leave |
| std `Once` (`sys/sync/once/futex.rs`) | a state and the bit `QUEUED` in one word | `call`, `wait`, both also ignoring the poison | the initialiser panics while others queue | it runs alone, completes once, and whoever waits is released |
| std thread parker (`sys/sync/thread_parking/futex.rs`) | one word | `park`, `park_timeout`, `unpark` | a timeout against an unpark whose system call is late | a token, neither lost nor spent twice |
| Dependency graph (`rustc_middle/dep_graph`, `execute_job_incr`) | colours, the previous graph, the new one | `try_mark_green`, forcing, `with_task`, promotion, loading from disk | two workers mark, force or run one node | results, and the new graph, are those of a clean build, and no query runs that a clean build would not run |
| Codegen coordinator (`rustc_codegen_ssa/back/write.rs`, `base.rs`) | tokens, work items, what the main thread is doing, codegen's state | the message loop, `do_thin_lto`, workers, submission, `join`, drop of the guard | messages of three kinds of threads in any order, failures of each | no work without a token, no idle token kept, every module once or an error that says why, everybody ends |
| Incremental session directories (`rustc_incremental/persist`) | directories, lock files, hard links | prepare, copy, save, finalize, garbage collection | several processes, each of which may die at any step | nothing in use is deleted; what is published stays whole |
| std channels (`sync/mpmc`) | lists of blocks, wakers | send, receive, select, disconnect | | *not modelled* |
| teeny MLIR/Triton backend | the module under construction | translation of MIR | none: sequential, and the meaning of its calls is in C++ outside the repository | not modelled |
| Parser, resolver, type checker, MIR passes, rustdoc, bootstrap, tools | | | pure functions from here: they are the providers of `QueryJobs` | not modelled |

How they interact: a provider asks for a query (`QueryJobs`); if another thread
executes it the worker adds itself to the latch and blocks, after telling the
pool (`mark_blocked`), so that the pool can tell a deadlock from idleness and
start the handler (`QueryCycle`). An idle worker sleeps under the protocol of
`PoolSleep`. A blocked or sleeping worker gives its token back and asks for
one when it goes on (`JobserverProxy`). With incremental compilation a query is
first marked green if it can be (`DepGraph`); the graph it reads and the one it
writes lie in a session directory (`SessionDirs`). Generated code goes to the
coordinator and its workers (`CodegenCoordinator`), which use the jobserver
directly. All of them are built on locks (`FutexMutex`, `FutexRwLock`, and
`FutexCondvar` on top of the mutex; `SleepState` is how a pool worker blocks on
the two), on `Once` and on parking.

## 2. Modules

`FutexMutex` - one step per atomic access and per system call of
`Mutex`. `futex` is the word, `asleep` the kernel's queue, `pc` says where a
thread is in `lock` or `unlock`. `interrupted` covers signals and spurious
returns of `futex_wait`.

`FutexRwLock` - the same for `RwLock`. `state` is the word as a record (count
`n`, bits `rw` and `ww`), `readers` and `writers` are the queues of the two
futexes. Of the counter `writer_notify` only "has it changed since this writer
loaded it" is kept (`current`), which is all the code asks. A load followed by
a compare-and-exchange or by a system call that repeats its comparison is one
step. `MAX_READERS` is a constant, so that its limit is reached with few
threads.

`WaitGraph` - what a wait graph, its cycles and its entry points *are*: the
reference that `QueryCycle` is compared with and that `QueryJobs` uses for the
handler.

`QueryCycle` - the recursive searches of the handler (`find_cycle`,
`visit_waiters`, `connected_to_root`, `any_connected`, `entry_points`), on an
arbitrary graph picked in `CycleInit`. A search is a recursive function from the
arguments of a call (the job, the next waiter, the stack, the visited jobs) to
what it returns, the visited jobs included.

`QueryJobs` - workers with stacks of query frames and tasks, the active map, the
latches, the counts of the pool, and the deadlock handler. A key stands for its
job, as a query runs once. `wait_on` is four actions: the waiter is listed
(with the list's mutex held), counted as blocked, waits, returns. When an idle
worker sleeps is left open here, so what holds does not depend on the wake-up
heuristics; `PoolSleep` details them.

`PoolSleep` - one step per atomic operation on the packed counters, a latch or a
queue. A worker holds its own `is_blocked` mutex exactly between `fall_asleep`
and waiting, so waking it is one step with a guard (`~Locked`).

`JobserverProxy` - one step per critical section of `ProxyData`; the pipe, the
helper thread of the jobserver crate and other processes are external.

`FutexCondvar` - extends `FutexMutex` with the counter, the second queue and the
steps of `wait` and `notify`. It has no `Next` of its own: who waits for what is
the client's affair. The clients are `Barrier` (`Barrier::wait`, statement by
statement) and `SleepState` (`Sleep::sleep` and `wake_specific_thread` on one
worker's `is_blocked`). `AbstractBarrier` is what a barrier promises; `Phase` in
`Barrier` is the refinement mapping.

`FutexParker` - the owner's `park` and `park_timeout`, any number of unparking
threads; the system call of `unpark` is a step of its own and may come long
after. `TokenParker` is what it promises: a token that is available or not.

`FutexOnce` - threads that call, call ignoring the poison, wait, or wait ignoring
it; `compare_exchange_weak` may fail for no reason; an initialiser returns,
panics or poisons (`once_finish`).

`DepGraph` - workers with stacks of calls: execute a query, mark a node of the
previous graph, visit its edges in order, force. A query is a small program that
reads one query and then, depending on the value, another. `prev` is what a clean
build of the previous session has written, `clean` (a ghost) what a clean build
computes now: `Execution` is what the provider of one query does, `Clean` the
build of all, `Needed` the smallest set with the roots and whatever its members
read. `setup` chooses inputs before and now, and the modifiers `no_hash`,
unrecoverable keys and what is on disk. Waiting for another worker's job is a
disabled step here and detailed in `QueryJobs`.

`CodegenCoordinator` - the main thread, the coordinator (`loop_top` is
everything from the head of the loop to `recv`, then one action per message),
workers and the helper. A worker may panic, report a fatal error and unwind, or fail
to copy a file of a reused unit, report that and go on (`worker_copy_fails`); the
coordinator itself may meet a fatal error before it hands out the items of thin LTO
(`generate_thin_lto_work`). Channels are queues; `work_items` is a set, so that the
order by cost is left open. `result` says how the coordinator ended, failed
assertions included.

`SessionDirs` - processes in the steps of prepare, copy, load, save, finalize and
garbage collection, one step per operation on the file system; `die` and
`die_removing` end a process anywhere, its locks go with it, and a new process
takes its place. Files are links to inodes, so that writing through a hard link
would show; the dep graph and the query cache, which are saved together, are one
file.

`StdSyncProofs` (mutex, barrier, parker, once), `FutexRwLockProofs`,
`JobserverProxyProofs`, `SessionDirsProofs`, `CodegenCoordinatorProofs`,
`PoolSleepProofs`, `QueryJobsProofs` (with `WaitGraph` and `QueryCycle`) and
`DepGraphProofs` hold the theorems; `MC*` the instances for TLC. `MCStdSync` and
`MCQueryGraphs` check several small modules that share no state in one run: a
behaviour is one of a single part, chosen in the first state.

## 3. Runs

| Run | Instance | States | What it shows |
|---|---|---|---|
| `query_jobs` | 3 workers, 2 keys, all 16 call graphs, a join in one provider, a panic in the other, fair | 363,244 | `OneRun`, `CountsExact`, `HandlerFindsCycle`, `NotifyFindsWaiter`, `ResultAfterWait`, `Settles` |
| `query_resumed` | as `query_jobs`, without panic | violated | finding 1 |
| `query_graphs` | all wait graphs of 3 jobs, each with a parent and up to 2 waiters; 2 workers, 6 queries, all changes of 2 inputs, 5 sets of modifiers and previous roots | 438,987 | the searches agree with `WaitGraph` (`SearchFindsFollowedCycle`, `CycleCanBeBroken`); `ResultsClean`, `GraphExact`, `OnlyNeededRun`, `NobodyStuck` |
| `pool_sleep` | 2 workers, an external thread that injects twice, a job event counter of 2 values, fair | 417,262 | `CountersExact`, `SetLatchWakes`, `InjectedJobSeen`, `AllStop` |
| `pool_idle` | 3 workers, 2 external threads | violated | finding 2 |
| `jobserver` | 5 threads, 2 tokens, up to 6 queued requests, fair | 29,124 | `TokensConserved`, `WaitersHaveSource`, `WaiterWorks` |
| `rwlock` | 3 threads with a call each, at most 2 readers, fair | 110,974 | `Exclusion`, `ReadersWaitBehindWriter`, `SleepersRemembered`, `AllServed` |
| `std_sync` | 3 threads each: mutex; barriers of 2 and of 3 with 4 calls; sleep and wake with 4 calls; parker with 2 unparkers; once with 3 calls; fair | 161,684 | `MutualExclusion`, `NoLostWakeup`, `SomebodyLocks`; `ImplementsBarrier`; `WokenWorkerReturns`; `ImplementsToken`; `RunsAlone`, `OnceReleases` |
| `coordinator` | 7 sessions: no, fat and thin local LTO, up to 4 units with failures and 6 without, 2 or 4 tokens, limits below and above them, fair | 841,979 | `WorkHasToken`, `TokensInUse`, `EndsRight`, `AbortIsFinal`, `AllEnd` |
| `codegen_import` | 3 units, the last reused before thin LTO | violated | finding 3 |
| `session_dirs` | 2 processes at a time, 4 sessions of which one is published at the start | 2,764,745 | `InUseKept`, `NewestComplete`, `NewestSuperseded`, `OnlyNewestLeft` |
| `session_leftovers` | the same | violated | finding 4 |

The type invariants are parts of the listed ones (`TypeOK` of `CountsExact`,
`CountersExact` and `TokensInUse`, `DepTypeOK` of `GraphExact`, `SessionTypeOK` of
`InUseKept`), or proved.

Bounds, and why they suffice to meet the interesting cases. Two keys give
self-loops, mutual recursion and a chain into a cycle; a third worker is needed
so that somebody outside a cycle waits on it, which is how finding 1 arises.
Three jobs with two waiters each give searches that branch, meet a visited job
and back out of it. Six queries over two inputs give a query that is unchanged
although its inputs changed, one whose second dependency disappears with the
value of the first, two that share dependencies, and one that reads another both
directly and indirectly; two workers ask for different roots, so that they mark,
force and run the shared nodes at once. Two workers and a thread that injects
twice give every race of one sleeper with one waker and an unrelated second
one; a counter of two values wraps around inside one worker's way to sleep,
which with 2^32 values no test reaches. Five threads against two tokens (three
with the implicit one) make two wait at once. Three threads on the `RwLock` give
a holder, a waker and a sleeper of either kind, and with `MAX_READERS` 2 the
assertion on too many readers is met. A barrier of two with four calls by three
threads has a thread that enters the second generation before one of the first
has left. Six units with five allowed jobs are what it takes until the
coordinator thinks its queue full enough. Four sessions let two processes publish
and collect after an earlier session, and a process die and be followed by
another one.

`MaxCalls`, `MaxWaits`, `MaxRounds`, `MaxAsks`, `MaxInjects`, `MaxForks`,
`MaxRequests`, `MaxSessions` and `MaxUnreadErrors` (errors of workers that copy
files) bound what is unbounded in the code. `MaxSpurious`
bounds signals and spurious returns under the condition variable only: the mutex
is not fair, so a waiter that wakes for nothing for ever could keep others out of
it. Symmetry is used where no liveness is checked (`NewestSuperseded` in
`session_dirs` is about single steps).

`CHECK_DEADLOCK FALSE` is set where the system comes to an end: a bounded number
of calls, a pool that stops, a compilation that is finished. The jobserver never
stops, so TLC checks that it does not deadlock.

Fairness. Weak fairness of a thread's own steps: the operating system runs every
runnable thread. Nothing is assumed of callers (`call`, `call_lock`, `bar_wait`,
`acquire_thread` need not happen), of signals, of the jobserver's helper or of
other processes. Holders of a lock or token are assumed to release it, and
initialisers and LLVM to end, which is the contract under which anybody may wait.
The timeout of `park_timeout` has strong fairness, since its deadline is absolute:
`futex_wait` repeats an interrupted call with the same deadline, so signals
do not put it off. `SomebodyLocks` promises the mutex to some contender only: it
is unfair by design, so no single thread is sure of it. `session_dirs` and
`DepGraph` are checked without fairness; `NobodyStuck` says that open questions
always leave a worker that can go on.

### Findings

1. `query_resumed`: `find_cycle` returns the *outermost* resumable waiter of
   its search path although it cuts the path down to the cycle. If the search
   starts outside the cycle, the thread resumed with the cycle error waits on a
   query outside it. `break_query_cycle`'s documentation says it breaks the
   cycle by finding an edge of it and resuming that waiter. The cycle itself
   stays closed until the pool runs into the deadlock check again;
   `HandlerFindsCycle`, on the same three workers, shows that the handler then
   still finds it. So the effect is a report to the wrong thread and one more
   round, and no run shows a hang.
2. `pool_idle`: `new_jobs` wakes nobody while enough threads are "awake but
   idle", but a worker waiting in a join counts as idle and takes no job. An
   injected job may wait although a worker that could take it sleeps, while
   `new_injected_jobs` promises to "ensure that there are threads available".
   The job is run once the join ends or a running job does: `AllStop`, on two
   workers, shows no job that is never run.
3. `codegen_import`: a worker's fatal error makes the coordinator `Aborted`, and
   the main thread learns of it only at its next `check_for_errors`. If it is past
   that check and the next unit is reused before LTO, its `AddImportOnlyModule`
   arrives at an aborted coordinator, whose `assert_eq!(codegen_state, Ongoing)`
   then fails: a compiler bug is reported on top of the real error. `CodegenDone`
   in the same situation is tolerated, which `EndsRight` shows.
4. `session_leftovers`: "Delete all lock files, that don't have an associated
   directory" never deletes one, because the lock file's name is parsed by
   `extract_timestamp_from_session_dir`, which rejects names that end in `.lock`.
   A process that dies before it has made its directory leaves its lock file
   for ever.

Smaller observations, without a run. Fat LTO over units that are all reused goes
the way of thin LTO (the comment at `write.rs:804` only thinks of new ones).
Tokens that arrive in the main channel while `do_thin_lto` reads its own are held
idle until it ends (`stranded`). `--jobs-backend` limits requests for tokens and
the lending of the implicit one, not the number of workers, when more tokens
have been granted. The header of `fs.rs` says that all but the most recent
directory are deleted; the collection skips its own, just published one, so one
older directory stays (`OnlyNewestLeft` says so).

## 4. Proofs

Each is for every value of the constants, from the named assumption of its
module (finite sets, natural numbers), where there is one. The shape is the same:
`Init => IInv`, one lemma per part of `IInv` with one case per action, and `PTL`
to conclude.

*Mutex* (`MutexTyped`, `MutexExclusive`, `MutexNoLostWakeup`). `TypeOK` ties the
kernel's queue to the program counters; with it both properties are inductive: a
thread comes to hold the mutex only in a step that finds the word `UNLOCKED`; and
whoever removes the `CONTENDED` mark is itself about to wake or to set it again.

*RwLock* (`RwLockTyped`, `RwLockExclusive`, `RwLockBits`,
`RwLockSleepersRemembered`). `IInv` is `TypeOK`,
`Exclusion`, `ClearsAlone` and `ReadersWaitBehindWriter`. `Exclusion` says that the
count in the word is the number of holders; it is what keeps the word inside its
30 bits, so typing needs it. `ClearsAlone` (between its two steps a downgrading
thread is the only reader) is the strengthening that makes the last one
inductive: while the readers' bit is set no new reader comes in, so nobody can
clear it under the downgrading thread. The lemmas are by what a step does to
the word and to the holders (`ReadLockStep`, `BitStep`, `ClearStep`, ...); each
action is an instance of one of them.

`SleepersRemembered` needs more: it counts on threads in the write loop or in
`wake_writer_or_readers`, and some of these act on a word that they have seen
earlier. `Remembered` names the ones that can be counted on. `WillMark(t)`: a
writer that knows of others and has not seen a word on the strength of which it
would leave the mark to somebody else. `UpToDate(t)`: a writer that sleeps, or is
about to, on the present notification counter; as long as there is one the bit is
set, or a thread will set it or change the counter. `Cares(t)`: a thread whose
comparison will succeed on the present unlocked word, or that loads the word
again; while an unlocked word has a bit there is one. `RespectfulStep` says what
a step of one thread has to respect for this; the steps that move several threads
(`notify_writer`, `wake_writer`, `wake_all`) have lemmas of their own.

*Jobserver proxy* (`ProxyTyped`, `ProxyConservesTokens`, `ProxyCountsWorkers`,
`ProxyWaitersHaveSource`). They are inductive only together, with `WaitsOnce`:
`release_thread` subtracts from `used`, which needs `UsedByWorkers`; handing a
token to the head of the queue keeps both counts only if the head is not queued
twice. `CountMove` is the cardinality lemma behind all of them.

*Barrier* (`BarrierExclusive`, `BarrierHoldsBack`). Every step of `BarrierSpec` is
one of the mutex or of the condition variable, so the mutex theorems carry over to
the threads inside `Barrier::wait`. With exclusion, `count` is the number of threads
that have arrived in the current generation and not passed, and nobody is ahead
of `generation_id`; that makes each step one of `AbstractBarrier` or a stutter: the
safety half of `ImplementsBarrier`. A barrier of size 0 behaves as one of size 1,
which is why `ArriveLast` of the abstract one compares with `>=`.

*Parker* (`ParkerTyped`, `ParkerLosesNoUnpark`, `ParkerKeepsToken`). The type
invariant includes that the word is `PARKED` only while the owner waits, which is
what the subtraction in `park` rests on. With it `NoLostUnpark` is inductive, and
every step is a step of `TokenParker` or a stutter (`ParkerKeepsToken`, the safety
half of `ImplementsToken`): `park_fetch_sub` takes the token if it is there,
`park_check` and `park_timeout_check` take it or give up, nothing else in the
owner's code is visible.

*Once* (`OnceTyped`, `OnceRunsAlone`, `OnceRemembersQueue`, `OnceCompletesOnce`).
The four parts are proved together: `RunsAlone` needs that a thread starts only
when its comparison finds a state that is not `RUNNING`; that the `QUEUED` bit
outlives the change from `INCOMPLETE` or `POISONED` to `RUNNING` needs the local
copy of the word to be a typed one; that `COMPLETE` is final follows from nobody
being in the initialiser then.

*Session directories* (`SessionInUseKept`, `SessionNewestComplete`,
`SessionOnlyNewestLeft`, `SessionNewestSuperseded`). The properties speak of
directories, the invariant of processes: `ProcInv(p)` says at each step of `p` which
locks it holds (`LocksOf`), that its own directory is there (`OwnDir`), that what it
copies from is locked (`SourceLocked`), that what it is about to delete is not
needed by anybody (`VictimGone`), and what of its own session is saved (`Saved`,
`Known`, `Named`). Two parts relate processes: the names that are still to be used
are fresh (`Fresh`), and a directory without a lock belongs to nobody (`DirsLocked`).
`OthersKept` is the frame: a step of `p` that changes no directory, lock or file that
another process's part mentions keeps that part; a crash is such a step, since
it only releases `p`'s own locks. `OnlyNewestLeft` needs `Quiet`, what a collection
knows of the directories it has listed so far.

*Codegen coordinator* (`CoordinatorWorkHasToken`, `CoordinatorTokensInUse`,
`CoordinatorEndsRight`, `CoordinatorAbortIsFinal`). The invariant is an account:
every token is free, asked for, in the channel or held (`Conserved`), every unit is
at one place on its way (`Placed`), and the coordinator's counters agree with the
workers and the messages that are still in its queue (`Counted`, `Asked`). The
rest says what the end depends on: `MainEnds` (the order of the main thread's last
messages), `ErrorsTold` (whoever gives up has reported an error) and `Kept`; the main thread
leaves its last check only when every sender is gone, so a success has read all errors. That no
assertion of the protocol fails is then read off at each message.

*Thread pool* (`PoolInvariant`, and from it `PoolCountersExact`,
`PoolSetLatchWakes`, `PoolInjectedJobSeen`). `Counted` is the arithmetic of the
packed counters: they are the numbers of workers at certain places, so that no
subtraction borrows from the neighbouring field. The hard one is that an injected
job is seen: all workers asleep with a job in the injector means that the thread
that injected it is still about to wake somebody (`Seen`). A worker inside `join`
also sleeps, waiting for its child to be done by a thief, so one has to exclude
that all workers sleep for each other. `Joined` (a pending child is in the deque,
run by exactly one worker, or done) gives each such worker another one that runs
for it, and `Grounded` says that these relations have no circle: every nonempty set
of workers has a member for which nobody in the set runs. It is what induction
over the depth of the stacks would say, in a form that needs none. The jobs event
counter plays no role for this property, only for not going to sleep in vain.

*Wait graphs* (`CycleExists`, `CycleFound`, `ResumableFound`, `EntryPointFound`).
For every finite wait graph whose parents form no circle: if every job is waited
from, some job leads to a cycle; from each such job the walk that `find_cycle`
takes ends in a cycle, passes a waiter that can be resumed, and the cycle has an
entry point. The walk is not followed step by step, which would be an induction: a
finite nonempty set that it does not leave has a smallest nonempty such subset,
and that is the cycle (`MinimalClosed`, from the well-founded order of finite
sets).

*The searches* (`FindCycleFinds`, `CycleBreaks`), for every wait graph and
whichever jobs `find_map` tries first: `find_cycle` finds a cycle exactly when there
is one to find and leaves just that cycle on the stack; the waiter it returns is in
the latch of the job it names, so that `unwrap` and `extract_waiter` do not fail;
`connected_to_root` answers whether the root reaches a job outside the cycle. Which
waiter it is, the properties leave open: the code takes the outermost one of the walk
(`ResumedFrom`), which is finding 1.
A recursive function of TLA+ is *some* function that satisfies its equation, if one
exists, so existence comes first. `Rank` counts the calls and waiters that a loop
may still come to; it falls when a loop goes on (`RankNext`) and when it calls for
a job that was not visited (`RankCall`), and the body of a loop uses loops of
smaller rank only (`BodyLocal`). So for every n there is a function that satisfies
the equation below rank n (`Upto`), and ranks are bounded: that the code's recursion
ends is the same fact. What a loop returns is then shown for a loop of least rank
that would be wrong (`SearchFinds`). `Ready` is what holds when a loop is entered:
each job of the stack waits on the next one, through a waiter before which none
leads to a cycle, and no visited job off the stack leads to a cycle. The loop then
returns nothing and its job leads to no cycle, or the search has walked along the
followed waiters and come back to its stack (`Lasso`), from which the stack left,
the set `CycleFrom` and the waiter `ResumedFrom` are read off. For
`connected_to_root` the statement is `RootSearched`: a job that says yes has a waiter
that leads out, and what a search that says no has visited does not lead out of what
it has visited. `QueryHandlerSearches` puts the two modules together: when the
handler of `QueryJobs` is started its map of jobs is such a graph, so the step
`find_and_process_cycle` of `QueryJobs` does what the code's searches do, the choice of
the waiter included.

*Query jobs* (`QueryInvariant`, and from it `QueryRunsOnce`, `QueryCountsExact`,
`QueryNotifyFindsWaiter`, `QueryResultAfterWait`, `QueryHandlerFindsCycle`), for
every finite set of workers and queries, every call graph, any panics and forks. The
invariant has four parts, each kept by every step given those before it.

* `Typed`: types. The range of the counters follows from the last part.
* `FrameInv`: stacks against the active map. Where a worker is follows from its
  stack (`Placed`); below a query's frame is the frame of its parent, below a
  task run inline the query that forked it (`Framed`); a query with a frame is
  started and has no value until it ends (`Live`); no query or task has two
  frames (`Alone`); a started query has a frame, and a task that is not done has an
  owner that does not end (`Owned`); parents form no circle (`Grounded`). This
  is `OneRun`, and needs no other part.
* `WaitInv`: latches against waiting threads. A latch that is open is owed a
  wake-up by a query that runs or is about to signal, and one that is complete has a
  result; a list names each thread once, and exactly those that wait (`Latched`,
  `Waits`); the thread that the handler resumes waits and knows its cycle (`Resumes`).
  That the mutex of the list is held from listing oneself to `condvar.wait` is what
  makes `notify_one` find its thread.
* `CountInv`: the counters are the sizes of two sets of threads, and the handler
  is started, once, when the first is empty and the second is not; nothing changes
  that until the handler has resumed somebody.

When the handler is started every worker sleeps or waits. Then each active job is
waited from (`JobHeldUp`): its frame is on top and waits; or below the frame of
another query; or its owner sleeps in a join, and the task it waits for is in its turn
on top of a stack and waits, or below a query. So the map of jobs is a wait graph
with a cycle, and the theorems on wait graphs say that the handler finds it, can
break it and can report it. This is the claim behind the panics in
`break_query_cycle`. That the thread it resumes is *on* the cycle is not true
(finding in section 3).

*Dependency graph* (`DepInvariant`, and from it `CachedResultsClean`,
`RunsOnlyNeeded`, `GraphIsExact`, `NobodyGetsStuck` and the action theorem
`MemoryIsFinal`), for any queries of which none reads itself in a circle, any
providers and inputs, any previous session and modifiers, and any number of
workers.

The reference, a build from nothing, is a recursive function, and that its
equation holds is the first lemma (`CleanRuns`): partial builds of the queries up
to `n` exist and agree, by the least `n` for which one would not. What a provider
does then only depends on what it has read, which gives the fact on which
incremental compilation rests (`SamePrefix`): as long as the dependencies of the
previous run have their old values, the provider reads the same ones in the same
order. Marking visits them in this order and goes on only over green ones, so
the next one is read by a build from nothing too (it may be forced:
`RunsOnlyNeeded`), and when all are green the query has its old result.

`DInv` says this of every moment of every worker: a frame that marks has passed
green dependencies only, and knows their indices; a frame that runs a provider has
read values of a clean build and noted the indices of their nodes, without
duplicates; one that is about to complete has the result (`Sound`). A frame is
above the one that has called it and asks for a query that is smaller, or the same
one's marking (`Calls`, `Ordered`); what the worker was told by the frame that
has returned is true (`Answered`). The jobs on the stacks are the active ones
(`JobsActive`). The memory is right: a green node is unchanged, a result is that
of a clean build (`MemoryInv`), a node is written once, with the dependencies of a
clean build (`NodesExact`). The difficulty is in what other workers do between two
steps: a query may be marked green by one worker while another runs it. So what a
frame says must stay true while the memory grows (`Grow`, `SoundKept`), and nobody
may run a provider that has already run (`Ran`, `OthersQuiet`), which holds because
a job is on one stack only. `NobodyGetsStuck` follows from `Ordered`: whoever
waits, waits for a worker whose top frame asks for a smaller query, so the
one with the smallest waits for nobody.

Only model-checked: all liveness (fairness and `ENABLED` are out of the prover's
reach, so the refinements `ImplementsBarrier` and `ImplementsToken` are proved in
their safety half only). Facts that hold for every element
of a data structure by induction are avoided or stated without it (a least
counterexample among the natural numbers, or `Grounded` above): the induction
theorems themselves take an operator, which the provers do not instantiate.

## 5. What the models leave out

* Memory orderings: steps interleave in one order for all threads. The code's
  orderings are assumed to be strong enough for that.
* `QueryJobs`: feeding, the single-threaded path, values and spans. Jobserver
  tokens around blocking are in `JobserverProxy`, not here.
* `PoolSleep`: one pending child per deque; scopes (`CountLatch`), broadcast,
  `yield`, thread start-up.
* `JobserverProxy`: a failing write of a released token; choosing the client at
  start-up.
* `FutexRwLock`, `FutexCondvar`: 2^32 notifications between a load and a system
  call; platforms whose `futex_wake` does not say whether it woke anybody. A
  timeout of `Condvar::wait_timeout` is a return of `futex_wait` without a wake
  (`cv_interrupted`); `generation_id` of `Barrier` does not wrap around.
* `FutexOnce`: `state` and `set_state`, which need exclusive access.
* `DepGraph`: anonymous tasks, feeding, side effects (diagnostics), chunks of
  indices per thread, `eval_always` queries that read others, a session with
  errors, promotion of the disk cache. A promise of the disk cache is taken to be
  kept: what is on disk is the value of the previous session.
* `CodegenCoordinator`: the allocator module, LTO across crates (on the main
  thread), inline assembly errors, warnings, the cost order of the queue, a thread
  that cannot be spawned.
* `SessionDirs`: a file system that fails, single work products, a session with
  errors (whose directory is deleted), loading in a background thread. A listing
  of the crate directory is taken in one step; on a file system that returns a
  directory but not its older lock file it would be less.

Not modelled at all: the channels of `sync/mpmc` (they are queues here); teeny's
MLIR backend, a sequential translation whose operations are C++ outside the
repository; parsing, resolution, type checking, borrow checking and MIR passes,
pure functions from the query system's point of view; `core`, `alloc`, the rest of
`std`, rustdoc, bootstrap, the tools and tests. The repository is that of a whole
compiler with its vendored and generated code, so the modelled files are a small
share of its lines.

## 6. Plan

Done, in this order: `FutexMutex`, `WaitGraph` and `QueryCycle`, `QueryJobs`,
`PoolSleep`, `JobserverProxy`, `FutexRwLock`; then `FutexCondvar` with `Barrier`
and `SleepState`, `FutexParker`, `FutexOnce`, `CodegenCoordinator`, `SessionDirs`,
`DepGraph`.

Next, most important first:

1. A query memo table (a key goes from absent to running to done or poisoned) as
   the abstract specification of `QueryJobs`, and a lock as a set of holders as that
   of `FutexMutex` and `FutexRwLock`.
2. The channels of `sync/mpmc`, implementing the queues that
   `CodegenCoordinator` uses; scopes and `CountLatch` in `PoolSleep`.
